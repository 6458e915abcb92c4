SPECIFICATION Spec
CONSTANTS
  Player = {alice, bob}
  Asset = {"dust", "stdust"}
  ResourceType = {"StellarDust"}
  TypeSymbol <- MCTypeSymbol
  CellAsset <- MCCellAsset
  GiftExpiry = 1
  MaxPerSender = 2
  MaxU32 = 2
  MaxGifts = 3
  MaxCredited = 3
  MaxSeq = 3
\* Ids, credits and time are bounded, so a behaviour may end.
CHECK_DEADLOCK FALSE
INVARIANT HarvestedIsGiftable
