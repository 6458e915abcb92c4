--------------------------- MODULE MCGiftingSystem ---------------------------
(* The symbols that the two conversions of src/resource_minter.rs give to  *)
(* one resource type.                                                      *)
EXTENDS GiftingSystem

MCTypeSymbol == [StellarDust |-> "stdust"]
MCCellAsset == [StellarDust |-> "dust"]
=============================================================================
