CONSTANTS
  alice = alice
  bob = bob
  carol = carol
  none = none
  ore = ore
  dust = dust
  Player = {alice, bob}
  Asset = {ore, dust}
  Exempt = {bob}
  MaxTradesPerDay = 2
  MaxOrdersPerTrader = 2
  MaxHistory = 1
  MaxOrders = 3
  MaxQuantity = 2
  MaxPrice = 2
  MaxDay = 1
  MaxU64 = 10
  MaxU32 = 3
  MaxI128 = 3
  FeeBands <- MCFeeBands
  FlatFee <- MCFlatFee
  Ship = {1, 2}
  ShipOwner <- MCShipOwner
  Layouts <- MCLayouts
  TierWidth = 2
  MaxListings = 1
  MaxOffers = 2
SPECIFICATION MarketSpec
INVARIANTS TypeOK SlotsCountOpenOffers OrdersListed  SponsorBooksAgree HoldingsAgree
PROPERTIES ImplementsCustody AuctionsFair 
\* Ids, units and time are bounded, so a behaviour may end.
CHECK_DEADLOCK FALSE
