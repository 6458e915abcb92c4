CONSTANTS
  alice = alice
  bob = bob
  carol = carol
  dave = dave
  c1 = c1
  Player = {alice, bob}
  Asset = {"dust", "stdust"}
  ResourceType = {"StellarDust"}
  TypeSymbol <- MCTypeSymbol
  CellAsset <- MCCellAsset
  GiftExpiry = 1
  MaxPerSender = 2
  MaxU32 = 2
  MaxGifts = 3
  MaxCredited = 3
  MaxSeq = 3
SPECIFICATION SocialSpec
  
PROPERTIES ImplementsCustody ExpiredGiftsStay  
PROPERTIES  PrizesFollowSnapshot
\* Ids, credits, claims, challenges, moves and time are bounded, so a behaviour may end.
CHECK_DEADLOCK FALSE
