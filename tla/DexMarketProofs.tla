-------------------------- MODULE DexMarketProofs --------------------------
(***************************************************************************)
(* Proofs about DexMarket, for every number of players, assets and offers. *)
(* The inductive invariant is local to the ledger, the offers and the      *)
(* listing slots: an order-book step leaves all three alone, and the fill  *)
(* of an order touches balances only.                                      *)
(***************************************************************************)
EXTENDS DexMarket, FiniteSetTheorems, TLAPS

DexType ==
  /\ balance \in [Player -> [Asset -> U32]]
  /\ offers \in Seq(DexOffer)
  /\ Len(offers) <= MaxOffers
  /\ slots \in [Player -> U32]
  /\ harvested \in [Asset -> Nat]

OrdersType == \A id \in DOMAIN orders : orders[id] \in LimitOrder

Inv ==
  /\ DexType
  /\ OrdersType
  /\ SlotsCountOpenOffers
  /\ OpenOffersHoldUnits
-----------------------------------------------------------------------------
LEMMA MinOfTwo ==
  ASSUME NEW a \in Int, NEW b \in Int, a <= b
  PROVE  Min({b, a}) = a
BY DEF Min

\* Writing one balance of a ledger leaves a ledger.
LEMMA LedgerWrite ==
  ASSUME NEW w \in [Player -> [Asset -> U32]], NEW p \in Player, NEW a \in Asset, NEW v \in U32
  PROVE  [w EXCEPT ![p][a] = v] \in [Player -> [Asset -> U32]]
OBVIOUS

\* The open offers of a player are finitely many, at most one per offer id.
LEMMA OpenOffersFinite ==
  ASSUME DexType, NEW p \in Player
  PROVE  /\ IsFiniteSet(OpenOffers(p))
         /\ Cardinality(OpenOffers(p)) \in Nat
         /\ Cardinality(OpenOffers(p)) <= Len(offers)
<1>1. Len(offers) \in Nat /\ DOMAIN offers = 1 .. Len(offers)
  BY DEF DexType
<1>2. IsFiniteSet(1 .. Len(offers)) /\ Cardinality(1 .. Len(offers)) = Len(offers)
  <2> DEFINE n == Len(offers)
  <2>1. 1 \in Int /\ n \in Int /\ n >= 0
    BY <1>1
  <2> HIDE DEF n
  <2>2. IsFiniteSet(1 .. n) /\ Cardinality(1 .. n) = IF 1 > n THEN 0 ELSE n - 1 + 1
    BY <2>1, FS_Interval
  <2>3. Cardinality(1 .. n) = n
    BY <2>1, <2>2
  <2>4. QED
    BY <2>2, <2>3 DEF n
<1>3. OpenOffers(p) \subseteq 1 .. Len(offers)
  BY <1>1 DEF OpenOffers
<1>4. QED
  BY <1>2, <1>3, FS_Subset, FS_CardinalityType

\* Opening an offer adds one id to its seller's open offers.
LEMMA OpenOffersAppend ==
  ASSUME DexType, NEW o \in DexOffer, o.active, offers' = Append(offers, o),
         NEW p \in Player
  PROVE  OpenOffers(p)' = IF p = o.seller THEN OpenOffers(p) \cup {Len(offers) + 1}
                          ELSE OpenOffers(p)
<1>1. /\ Len(offers) \in Nat /\ DOMAIN offers = 1 .. Len(offers)
      /\ DOMAIN offers' = 1 .. Len(offers) + 1
      /\ \A i \in 1 .. Len(offers) : offers'[i] = offers[i]
      /\ offers'[Len(offers) + 1] = o
  BY DEF DexType
<1>2. QED
  BY <1>1 DEF OpenOffers

\* An update of an offer that leaves it open changes no player's open offers;
\* one that closes it removes its id.
LEMMA OpenOffersUpdate ==
  ASSUME DexType, NEW id \in DOMAIN offers, offers[id].active,
         NEW o, o.seller = offers[id].seller, o.active \in BOOLEAN,
         offers' = [offers EXCEPT ![id] = o],
         NEW p \in Player
  PROVE  OpenOffers(p)' = IF ~o.active /\ p = o.seller THEN OpenOffers(p) \ {id}
                          ELSE OpenOffers(p)
<1>1. /\ DOMAIN offers' = DOMAIN offers
      /\ \A i \in DOMAIN offers : i # id => offers'[i] = offers[i]
      /\ offers'[id] = o
  BY DEF DexType
<1>2. QED
  BY <1>1 DEF OpenOffers

\* Opening an offer and taking a slot for its seller preserves the slot count.
LEMMA ListingOpened ==
  ASSUME Inv, NEW p \in Player, NEW o \in DexOffer,
         o.active, o.seller = p, o.amount > 0,
         CreateOffer(o), NoteListingOpened(p)
  PROVE  /\ offers' \in Seq(DexOffer) /\ Len(offers') <= MaxOffers
         /\ slots' \in [Player -> U32]
         /\ SlotsCountOpenOffers' /\ OpenOffersHoldUnits'
<1> USE DexAssumption DEF DexAssumption, Inv
<1>1. offers' = Append(offers, o) /\ Len(offers) < MaxOffers
  BY DEF CreateOffer
<1>2. offers' \in Seq(DexOffer) /\ Len(offers') = Len(offers) + 1 /\ Len(offers) \in Nat
  BY <1>1 DEF DexType
<1>3. slots[p] = Cardinality(OpenOffers(p)) /\ slots[p] \in Nat /\ slots[p] + 1 <= MaxU32
  BY <1>1, <1>2, OpenOffersFinite DEF SlotsCountOpenOffers, DexType, U32
<1>4. slots' = [slots EXCEPT ![p] = slots[p] + 1]
  <2>1. MaxU32 \in Int /\ slots[p] + 1 \in Int
    BY <1>3
  <2>2. Min({MaxU32, slots[p] + 1}) = slots[p] + 1
    BY Zenon, <1>3, <2>1, MinOfTwo
  <2>3. QED
    BY Zenon, <2>2 DEF NoteListingOpened, DexType
<1>5. slots' \in [Player -> U32]
  BY <1>3, <1>4 DEF DexType, U32
<1>6. ASSUME NEW q \in Player PROVE slots'[q] = Cardinality(OpenOffers(q)')
  <2>1. CASE q = p
    <3>1. OpenOffers(q)' = OpenOffers(p) \cup {Len(offers) + 1}
      BY <1>1, <2>1, OpenOffersAppend
    <3>2. Len(offers) + 1 \notin OpenOffers(p)
      BY <1>2 DEF OpenOffers, DexType
    <3>3. Cardinality(OpenOffers(q)') = Cardinality(OpenOffers(p)) + 1
      BY Zenon, <3>1, <3>2, OpenOffersFinite, FS_AddElement
    <3>4. QED
      BY <1>3, <1>4, <2>1, <3>3 DEF DexType
  <2>2. CASE q # p
    <3>1. OpenOffers(q)' = OpenOffers(q)
      BY <1>1, <2>2, OpenOffersAppend
    <3>2. QED
      BY <1>4, <2>2, <3>1 DEF DexType, SlotsCountOpenOffers
  <2>3. QED
    BY <2>1, <2>2
<1>7. OpenOffersHoldUnits'
  BY <1>1, <1>2 DEF OpenOffersHoldUnits, DexType
<1>8. QED
  BY <1>1, <1>2, <1>5, <1>6, <1>7 DEF SlotsCountOpenOffers

\* Updating an open offer, and releasing its slot exactly when it closes,
\* preserves the slot count.
LEMMA ListingUpdated ==
  ASSUME Inv, NEW id \in DOMAIN offers, offers[id].active,
         NEW o \in DexOffer, o.seller = offers[id].seller,
         o.active => o.amount > 0,
         offers' = [offers EXCEPT ![id] = o],
         IF o.active THEN slots' = slots ELSE ReleaseListingSlot(offers[id].seller)
  PROVE  /\ offers' \in Seq(DexOffer) /\ Len(offers') <= MaxOffers
         /\ slots' \in [Player -> U32]
         /\ SlotsCountOpenOffers' /\ OpenOffersHoldUnits'
<1> USE DexAssumption DEF DexAssumption, Inv
<1> DEFINE s == offers[id].seller
<1>1. s \in Player /\ o.active \in BOOLEAN
  BY DEF DexType, DexOffer
<1>2. offers' \in Seq(DexOffer) /\ Len(offers') = Len(offers)
  BY DEF DexType
<1>3. OpenOffersHoldUnits'
  BY DEF OpenOffersHoldUnits, DexType
<1>4. id \in OpenOffers(s)
  BY DEF OpenOffers
<1>5. CASE o.active
  <2>1. \A q \in Player : OpenOffers(q)' = OpenOffers(q)
    BY Zenon, <1>1, <1>5, OpenOffersUpdate
  <2>2. slots' = slots
    BY <1>5
  <2>3. SlotsCountOpenOffers' /\ slots' \in [Player -> U32]
    BY <2>1, <2>2 DEF SlotsCountOpenOffers, DexType
  <2>4. QED
    BY <1>2, <1>3, <2>3 DEF DexType
<1>6. CASE ~o.active
  <2>1. /\ OpenOffers(s)' = OpenOffers(s) \ {id}
        /\ \A q \in Player : q # s => OpenOffers(q)' = OpenOffers(q)
    BY Zenon, <1>1, <1>6, OpenOffersUpdate
  <2>2. slots' = [slots EXCEPT ![s] = SatSub(slots[s], 1)]
    BY <1>1, <1>6 DEF ReleaseListingSlot, DexType
  <2>3. /\ slots[s] = Cardinality(OpenOffers(s)) /\ slots[s] \in U32
        /\ Cardinality(OpenOffers(s)') = Cardinality(OpenOffers(s)) - 1
    <3>1. IsFiniteSet(OpenOffers(s))
      BY <1>1, OpenOffersFinite
    <3>2. Cardinality(OpenOffers(s) \ {id}) = Cardinality(OpenOffers(s)) - 1
      BY Zenon, <1>4, <3>1, FS_RemoveElement
    <3>3. QED
      BY Zenon, <1>1, <2>1, <3>2 DEF SlotsCountOpenOffers, DexType
  <2>4. slots[s] > 0
    <3>1. IsFiniteSet(OpenOffers(s)) /\ OpenOffers(s) # {}
      BY <1>1, <1>4, OpenOffersFinite
    <3>2. Cardinality(OpenOffers(s)) # 0
      BY <3>1, FS_EmptySet
    <3>3. QED
      BY <2>3, <3>2 DEF U32
  <2>5. SatSub(slots[s], 1) = slots[s] - 1
    BY <2>3, <2>4 DEF SatSub, U32
  <2>6. slots' \in [Player -> U32]
    BY SMTT(30), <1>1, <2>2, <2>3, <2>4, <2>5 DEF DexType, U32
  <2>7. \A q \in Player : slots'[q] = Cardinality(OpenOffers(q)')
    BY <1>1, <2>1, <2>2, <2>3, <2>5 DEF DexType, SlotsCountOpenOffers
  <2>8. QED
    BY <1>2, <1>3, <2>6, <2>7 DEF DexType, SlotsCountOpenOffers
<1>7. QED
  BY <1>1, <1>5, <1>6
-----------------------------------------------------------------------------
LEMMA InitInv == Init => Inv
<1> SUFFICES ASSUME Init PROVE Inv
  OBVIOUS
<1> USE DexAssumption DEF DexAssumption, Init
<1>1. DexType
  BY DEF DexType, U32
<1>2. \A p \in Player : OpenOffers(p) = {}
  BY DEF OpenOffers
<1>3. SlotsCountOpenOffers
  BY Zenon, <1>2, FS_EmptySet DEF SlotsCountOpenOffers
<1>4. QED
  BY <1>1, <1>3 DEF Inv, OpenOffersHoldUnits, OrdersType, BookInit

\* The order table only ever holds well-formed orders.
LEMMA PlaceOrderType ==
  ASSUME OrdersType, NEW p \in Player, NEW o \in LimitOrder, PlaceLimitOrder(p, o)
  PROVE  OrdersType'
BY DEF OrdersType, PlaceLimitOrder, Insert

LEMMA RemoveOrderType ==
  ASSUME OrdersType, NEW p, NEW id, RemoveOrder(p, id)
  PROVE  OrdersType'
BY DEF OrdersType, RemoveOrder, Restrict

LEMMA FillOrderType ==
  ASSUME OrdersType, NEW id, NEW n \in Nat, FillLimitOrder(id, n)
  PROVE  OrdersType'
<1>1. CASE n = orders[id].quantity
  BY <1>1, RemoveOrderType DEF FillLimitOrder
<1>2. CASE n # orders[id].quantity
  <2>1. /\ id \in DOMAIN orders /\ n > 0 /\ n <= orders[id].quantity
        /\ orders' = [orders EXCEPT ![id].quantity = @ - n]
    BY <1>2 DEF FillLimitOrder
  <2>2. [orders[id] EXCEPT !.quantity = @ - n] \in LimitOrder
    BY <1>2, <2>1, OrderBookAssumption DEF OrdersType, LimitOrder, OrderBookAssumption
  <2>3. QED
    BY <2>1, <2>2 DEF OrdersType
<1>3. QED
  BY <1>1, <1>2

\* Steps that leave the ledger, the offers and the slots alone.
LEMMA StutterInv ==
  Inv /\ UNCHANGED <<balance, offers, slots, harvested>> /\ OrdersType' => Inv'
BY DEF Inv, DexType, SlotsCountOpenOffers, OpenOffersHoldUnits, OpenOffers

\* Every path that opens an offer debits the balances `held` for it.
LEMMA EscrowAndListInv ==
  ASSUME Inv, NEW held \in [Player -> [Asset -> U32]],
         NEW p \in Player, NEW a \in Asset, NEW n \in U32, n > 0, NEW price \in Price,
         EscrowAndList(held, p, a, n, price),
         harvested' \in [Asset -> Nat], orders' = orders
  PROVE  Inv'
<1> DEFINE o == NewOffer(p, a, n, price)
<1>1. o \in DexOffer /\ o.active /\ o.seller = p /\ o.amount = n
  BY DEF NewOffer, DexOffer
<1>2. CreateOffer(o) /\ NoteListingOpened(p)
  BY DEF EscrowAndList
<1>3. balance' \in [Player -> [Asset -> U32]]
  BY DexAssumption DEF EscrowAndList, DexAssumption, U32
<1>4. QED
  BY <1>1, <1>2, <1>3, ListingOpened DEF Inv, DexType, OrdersType

LEMMA HarvestInv ==
  ASSUME Inv, NEW owner \in Player, NEW layout, NEW yield,
         CanHarvest(owner, layout, yield), RecordHarvest(yield)
  PROVE  /\ Credited(owner, yield) \in [Player -> [Asset -> U32]]
         /\ harvested' \in [Asset -> Nat]
<1>1. /\ yield \in [Asset -> U32]
      /\ \A a \in Asset : balance[owner][a] + yield[a] <= MaxU32
  BY DEF CanHarvest
<1>2. Credited(owner, yield) \in [Player -> [Asset -> U32]]
  <2>1. \A a \in Asset : balance[owner][a] + yield[a] \in U32
    BY <1>1, DexAssumption DEF Inv, DexType, DexAssumption, U32
  <2>2. [a \in Asset |-> balance[owner][a] + yield[a]] \in [Asset -> U32]
    BY <2>1
  <2>3. QED
    BY <2>2 DEF Credited, Inv, DexType
<1>3. harvested' \in [Asset -> Nat]
  BY <1>1, DexAssumption DEF RecordHarvest, Inv, DexType, DexAssumption, U32
<1>4. QED
  BY <1>2, <1>3

LEMMA NextInv == Inv /\ [Next]_vars => Inv'
<1> SUFFICES ASSUME Inv, [Next]_vars PROVE Inv'
  OBVIOUS
<1> USE DexAssumption DEF DexAssumption
<1>1. ASSUME NEW s \in Ship, NEW l \in Layouts, HarvestResources(s, l) PROVE Inv'
  <2> DEFINE owner == ShipOwner[s]
             yield == HarvestYield(owner, l)
  <2>1. owner \in Player /\ CanHarvest(owner, l, yield) /\ RecordHarvest(yield)
    BY <1>1 DEF HarvestResources
  <2>2. balance' = Credited(owner, yield) /\ UNCHANGED <<offers, slots, orders>>
    BY <1>1 DEF HarvestResources, bookVars
  <2> HIDE DEF owner, yield
  <2>3. balance' \in [Player -> [Asset -> U32]] /\ harvested' \in [Asset -> Nat]
    BY <2>1, <2>2, HarvestInv
  <2>4. QED
    BY <2>2, <2>3
    DEF Inv, DexType, OrdersType, SlotsCountOpenOffers, OpenOffersHoldUnits, OpenOffers
<1>2. ASSUME NEW p \in Player, NEW s \in Ship, NEW l \in Layouts,
             NEW a \in Asset, NEW price \in Price, HarvestAndList(p, s, l, a, price)
      PROVE  Inv'
  <2> DEFINE owner == ShipOwner[s]
             yield == HarvestYield(owner, l)
  <2>1. owner \in Player /\ CanHarvest(owner, l, yield) /\ RecordHarvest(yield)
    BY <1>2 DEF HarvestAndList
  <2>2. yield[a] > 0 /\ EscrowAndList(Credited(owner, yield), p, a, yield[a], price)
    BY <1>2 DEF HarvestAndList
  <2>3. yield[a] \in U32
    BY <2>1 DEF CanHarvest
  <2> HIDE DEF owner, yield
  <2>4. Credited(owner, yield) \in [Player -> [Asset -> U32]] /\ harvested' \in [Asset -> Nat]
    BY <2>1, HarvestInv
  <2>5. orders' = orders
    BY <1>2 DEF HarvestAndList, bookVars
  <2>6. QED
    BY SMTT(30), <2>2, <2>3, <2>4, <2>5, EscrowAndListInv
<1>3. ASSUME NEW p \in Player, NEW a \in Asset, NEW price \in Price,
             AutoListOnDex(p, a, price)
      PROVE  Inv'
  <2> DEFINE n == balance[p][a]
  <2>1. n \in U32 /\ n > 0 /\ UNCHANGED <<harvested, orders>>
    BY <1>3 DEF AutoListOnDex, Inv, DexType, bookVars
  <2>2. EscrowAndList(balance, p, a, n, price)
    <3>1. n >= n /\ n - n = 0
      BY <2>1 DEF U32
    <3>2. balance' = [balance EXCEPT ![p][a] = balance[p][a] - n]
      BY Zenon, <1>3, <3>1 DEF AutoListOnDex
    <3>3. QED
      BY Zenon, <1>3, <3>1, <3>2 DEF AutoListOnDex, EscrowAndList
  <2>3. QED
    BY <2>1, <2>2, EscrowAndListInv DEF Inv, DexType
<1>4. ASSUME NEW p \in Player, NEW a \in Asset, NEW price \in Price, NEW n \in U32,
             ListResource(p, a, n, price)
      PROVE  Inv'
  <2>1. n > 0 /\ UNCHANGED <<harvested, orders>> /\ EscrowAndList(balance, p, a, n, price)
    BY <1>4 DEF ListResource, bookVars
  <2>2. QED
    BY <2>1, EscrowAndListInv DEF Inv, DexType
<1>5. ASSUME NEW p \in Player, NEW id \in DOMAIN offers, CancelListing(p, id) PROVE Inv'
  <2> DEFINE o == [offers[id] EXCEPT !.active = FALSE]
  <2>1. offers[id] \in DexOffer
    BY DEF Inv, DexType
  <2>2. /\ o \in DexOffer /\ o.seller = offers[id].seller /\ ~o.active
        /\ offers' = [offers EXCEPT ![id] = o]
    BY Zenon, <1>5, <2>1 DEF CancelListing, DexOffer
  <2>3. offers[id].active /\ offers[id].seller = p /\ ReleaseListingSlot(offers[id].seller)
    BY <1>5 DEF CancelListing
  <2>4. UNCHANGED <<harvested, orders>>
    BY <1>5 DEF CancelListing, bookVars
  <2>5. balance' \in [Player -> [Asset -> U32]]
    <3> DEFINE a == offers[id].asset_id
               v == balance[p][a] + offers[id].amount
    <3>1. a \in Asset /\ v \in U32
      <4>1. a \in Asset /\ offers[id].amount \in U32
        BY <2>1 DEF DexOffer
      <4>2. balance[p][a] \in U32
        BY <4>1 DEF Inv, DexType
      <4>3. v <= MaxU32
        BY <1>5 DEF CancelListing
      <4>4. QED
        BY <4>1, <4>2, <4>3 DEF U32
    <3>2. balance' = [balance EXCEPT ![p][a] = v]
      BY <1>5 DEF CancelListing
    <3> HIDE DEF a, v
    <3>3. QED
      BY <3>1, <3>2, LedgerWrite DEF Inv, DexType
  <2> HIDE DEF o
  <2>6. QED
    BY Zenon, <2>2, <2>3, <2>4, <2>5, ListingUpdated DEF Inv, DexType, OrdersType
<1>6. ASSUME NEW p \in Player, NEW id \in DOMAIN offers, NEW n \in U32, NEW price \in Price,
             BuyOffer(p, id, n, price)
      PROVE  Inv'
  <2> DEFINE left == offers[id].amount - n
             a == offers[id].asset_id
             v == balance[p][a] + n
  <2>1. offers[id] \in DexOffer
    BY DEF Inv, DexType
  <2>2. left \in U32
    BY <1>6, <2>1 DEF BuyOffer, DexOffer, U32
  <2>3. offers[id].active /\ UNCHANGED <<harvested, orders>>
    BY <1>6 DEF BuyOffer
  <2>4. a \in Asset /\ v \in U32
    <3>1. a \in Asset
      BY <2>1 DEF DexOffer
    <3>2. balance[p][a] \in U32
      BY <3>1 DEF Inv, DexType
    <3>3. v <= MaxU32
      BY <1>6 DEF BuyOffer
    <3>4. QED
      BY <3>1, <3>2, <3>3 DEF U32
  <2>5. balance' = [balance EXCEPT ![p][a] = v]
    BY <1>6 DEF BuyOffer
  <2>6. balance' \in [Player -> [Asset -> U32]]
    <3> HIDE DEF a, v
    <3>1. QED
      BY <2>4, <2>5, LedgerWrite DEF Inv, DexType
  <2>7. /\ offers' \in Seq(DexOffer) /\ Len(offers') <= MaxOffers
        /\ slots' \in [Player -> U32]
        /\ SlotsCountOpenOffers' /\ OpenOffersHoldUnits'
    <3>1. CASE left > 0
      <4> DEFINE o == [offers[id] EXCEPT !.amount = left]
      <4>1. offers' = [offers EXCEPT ![id] = o] /\ slots' = slots
        BY <1>6, <2>1, <2>2, <3>1 DEF BuyOffer, DexOffer, Inv, DexType
      <4>2. o \in DexOffer /\ o.seller = offers[id].seller /\ o.active /\ o.amount = left
        BY <2>1, <2>2, <2>3 DEF DexOffer
      <4> HIDE DEF o
      <4>3. QED
        BY Zenon, <2>3, <3>1, <4>1, <4>2, ListingUpdated
    <3>2. CASE ~(left > 0)
      <4> DEFINE o == [offers[id] EXCEPT !.amount = left, !.active = FALSE]
      <4>1. offers' = [offers EXCEPT ![id] = o] /\ ReleaseListingSlot(offers[id].seller)
        BY <1>6, <2>1, <2>2, <3>2 DEF BuyOffer, DexOffer, Inv, DexType, U32
      <4>2. o \in DexOffer /\ o.seller = offers[id].seller /\ ~o.active
        BY Zenon, <2>1, <2>2 DEF DexOffer
      <4> HIDE DEF o
      <4>3. QED
        BY Zenon, <2>3, <4>1, <4>2, ListingUpdated
    <3>3. QED
      BY <3>1, <3>2
  <2>8. QED
    BY <2>3, <2>6, <2>7 DEF Inv, DexType, OrdersType
<1>7. ASSUME NEW p \in Player, NEW id \in DOMAIN orders, NEW n \in U32, NEW price \in Price,
             SellToOrder(p, id, n, price)
      PROVE  Inv'
  <2> DEFINE a == orders[id].resource
             q == orders[id].trader
             w == [balance EXCEPT ![p][a] = balance[p][a] - n]
  <2>1. UNCHANGED <<offers, slots, harvested>> /\ FillLimitOrder(id, n) /\ n \in Nat
    BY <1>7 DEF SellToOrder, U32
  <2>2. a \in Asset /\ q \in Player
    BY SMTT(30) DEF Inv, OrdersType, LimitOrder
  <2>3. /\ balance[p][a] - n \in U32 /\ w[q][a] + n \in U32
        /\ balance' = [w EXCEPT ![q][a] = w[q][a] + n]
    BY SMTT(30), <1>7, <2>2 DEF SellToOrder, Inv, DexType, U32
  <2>4. w \in [Player -> [Asset -> U32]]
    BY <2>2, <2>3, LedgerWrite DEF Inv, DexType
  <2> HIDE DEF w, a, q
  <2>5. balance' \in [Player -> [Asset -> U32]]
    BY <2>2, <2>3, <2>4, LedgerWrite
  <2>6. OrdersType'
    BY <2>1, FillOrderType DEF Inv
  <2>7. QED
    BY SMTT(30), <2>1, <2>5, <2>6 DEF Inv, DexType, SlotsCountOpenOffers, OpenOffersHoldUnits, OpenOffers
<1>8. CASE BookStep
  <2>1. UNCHANGED <<balance, offers, slots, harvested>>
    BY <1>8 DEF BookStep, dexVars
  <2>2. OrdersType'
    BY <1>8, PlaceOrderType, RemoveOrderType
    DEF Inv, OrdersType, BookStep, CancelLimitOrder, RecordTrade
  <2>3. QED
    BY <2>1, <2>2, StutterInv
<1>9. CASE NewDay
  BY <1>9, StutterInv DEF NewDay, BookNewDay, Inv, OrdersType
<1>10. CASE UNCHANGED vars
  BY <1>10, StutterInv DEF vars, dexVars, bookVars, Inv, OrdersType
<1>11. QED
  BY <1>1, <1>2, <1>3, <1>4, <1>5, <1>6, <1>7, <1>8, <1>9, <1>10 DEF Next

THEOREM MarketInvariant == Spec => []Inv
<1>1. Inv /\ [Next]_vars => Inv'
  BY NextInv
<1>2. QED
  BY <1>1, InitInv, PTL DEF Spec

(* SessionListings counts open offers, for any number of players, assets   *)
(* and offers.                                                             *)
THEOREM SlotsSafe == Spec => []SlotsCountOpenOffers
<1>1. Inv => SlotsCountOpenOffers
  BY DEF Inv
<1>2. QED
  BY <1>1, MarketInvariant, PTL

(* Every open offer still holds units, likewise.                           *)
THEOREM OpenOffersSafe == Spec => []OpenOffersHoldUnits
<1>1. Inv => OpenOffersHoldUnits
  BY DEF Inv
<1>2. QED
  BY <1>1, MarketInvariant, PTL
-----------------------------------------------------------------------------
(* Refinement: every call is a step of ResourceCustody or leaves it alone. *)

LEMMA CustodyInit == Init => Custody!Init
<1> SUFFICES ASSUME Init PROVE Custody!Init
  OBVIOUS
<1>1. OfferEscrow = << >>
  BY SMTT(30) DEF Init, OfferEscrow
<1>2. QED
  BY <1>1 DEF Init, Custody!Init

\* The next offer id is a fresh escrow; appending the offer opens it.
LEMMA ListingOpensEscrow ==
  ASSUME Inv, NEW p \in Player, NEW a \in Asset, NEW n \in U32, n > 0, NEW price \in Price,
         CreateOffer(NewOffer(p, a, n, price))
  PROVE  /\ Len(offers) + 1 \in 1 .. MaxOffers
         /\ Custody!OpenEscrow(Len(offers) + 1, p, a, n)
<1> DEFINE e == Len(offers) + 1
           o == NewOffer(p, a, n, price)
<1>1. /\ Len(offers) \in Nat /\ DOMAIN offers = 1 .. Len(offers) /\ Len(offers) < MaxOffers
      /\ offers' = Append(offers, o)
  BY DEF CreateOffer, Inv, DexType
<1>2. /\ e \in 1 .. MaxOffers /\ e \notin DOMAIN offers
      /\ DOMAIN offers' = DOMAIN offers \cup {e}
  BY <1>1, DexAssumption DEF DexAssumption
<1>3. offers'[e] = o /\ \A i \in DOMAIN offers : offers'[i] = offers[i]
  BY <1>1
<1>4. o.seller = p /\ o.asset_id = a /\ o.amount = n /\ o.active
  BY DEF NewOffer
<1> HIDE DEF o, e
<1>5. OfferEscrow' = [x \in DOMAIN OfferEscrow \cup {e} |->
                        IF x = e THEN Custody!Held(p, a, n) ELSE OfferEscrow[x]]
  BY <1>2, <1>3, <1>4 DEF OfferEscrow, Custody!Held
<1>6. QED
  BY <1>2, <1>5 DEF Custody!OpenEscrow, OfferEscrow, e

\* Lowering what offer id holds by n, all of it when the offer closes, releases n.
LEMMA UpdateReleasesEscrow ==
  ASSUME Inv, NEW id \in DOMAIN offers, offers[id].active,
         NEW n \in U32, n <= offers[id].amount,
         NEW o, o.seller = offers[id].seller, o.asset_id = offers[id].asset_id,
         (IF o.active THEN o.amount ELSE 0) = offers[id].amount - n,
         offers' = [offers EXCEPT ![id] = o]
  PROVE  /\ id \in 1 .. MaxOffers
         /\ OfferEscrow[id].owner = offers[id].seller
         /\ OfferEscrow[id].asset = offers[id].asset_id
         /\ OfferEscrow[id].units = offers[id].amount
         /\ OfferEscrow' = [OfferEscrow EXCEPT ![id].units = @ - n]
<1>1. id \in 1 .. MaxOffers
  BY DexAssumption DEF Inv, DexType, DexAssumption
<1>2. /\ DOMAIN offers' = DOMAIN offers /\ offers'[id] = o
      /\ \A i \in DOMAIN offers : i # id => offers'[i] = offers[i]
  BY DEF Inv, DexType
<1>3. QED
  BY Zenon, <1>1, <1>2 DEF OfferEscrow

LEMMA DebitPays ==
  ASSUME NEW w \in [Player -> [Asset -> U32]], NEW p \in Player, NEW a \in Asset, NEW n \in U32,
         n <= w[p][a], balance' = [w EXCEPT ![p][a] = w[p][a] - n]
  PROVE  Custody!PayFrom(w, p, a, n)
<1>1. w[p][a] \in U32
  OBVIOUS
<1>2. w[p][a] - n = w[p][a] + (0 - n)
  BY <1>1, DexAssumption DEF U32, DexAssumption
<1>3. QED
  BY Zenon, <1>2 DEF Custody!PayFrom, Custody!Gain

LEMMA CustodyStep == Inv /\ [Next]_vars => [Custody!Next]_(Custody!vars)
<1> SUFFICES ASSUME Inv, [Next]_vars PROVE Custody!Next \/ UNCHANGED Custody!vars
  OBVIOUS
<1> USE DexAssumption DEF DexAssumption
<1>1. ASSUME NEW s \in Ship, NEW l \in Layouts, HarvestResources(s, l) PROVE Custody!Next
  <2> DEFINE owner == ShipOwner[s]
             yield == HarvestYield(owner, l)
  <2>1. owner \in Player /\ yield \in [Asset -> U32]
    BY <1>1 DEF HarvestResources, CanHarvest
  <2>2. /\ balance' = Custody!GainAll(balance, owner, yield)
        /\ Custody!Harvested(yield) /\ UNCHANGED OfferEscrow
    BY Zenon, <1>1 DEF HarvestResources, Credited, RecordHarvest, OfferEscrow,
                Custody!GainAll, Custody!Harvested
  <2> HIDE DEF owner, yield
  <2>3. Custody!Mint(owner, yield)
    BY <2>2 DEF Custody!Mint
  <2>4. QED
    BY SMTT(30), <2>1, <2>3 DEF Custody!Next
<1>2. ASSUME NEW p \in Player, NEW s \in Ship, NEW l \in Layouts,
             NEW a \in Asset, NEW price \in Price, HarvestAndList(p, s, l, a, price)
      PROVE  Custody!Next
  <2> DEFINE owner == ShipOwner[s]
             yield == HarvestYield(owner, l)
             n == yield[a]
             w == Credited(owner, yield)
  <2>1. owner \in Player /\ yield \in [Asset -> U32] /\ n \in U32 /\ n > 0
    BY Zenon, <1>2 DEF HarvestAndList, CanHarvest
  <2>2. EscrowAndList(w, p, a, n, price) /\ Custody!Harvested(yield)
    BY <1>2 DEF HarvestAndList, RecordHarvest, Custody!Harvested
  <2>3. CanHarvest(owner, l, yield) /\ RecordHarvest(yield)
    BY <1>2 DEF HarvestAndList
  <2>4. w = Custody!GainAll(balance, owner, yield)
    BY DEF Credited, Custody!GainAll
  <2> HIDE DEF owner, yield
  <2>5. w \in [Player -> [Asset -> U32]]
    BY <2>1, <2>3, HarvestInv
  <2> HIDE DEF n, w
  <2>6. Custody!PayFrom(w, p, a, n)
    <3>1. balance' = [w EXCEPT ![p][a] = w[p][a] - n] /\ w[p][a] >= n
      BY <2>2 DEF EscrowAndList
    <3>2. n <= w[p][a]
      BY <2>1, <2>5, <3>1 DEF U32
    <3>3. QED
      BY Zenon, <2>1, <2>5, <3>1, <3>2, DebitPays
  <2>7. Len(offers) + 1 \in 1 .. MaxOffers /\ Custody!OpenEscrow(Len(offers) + 1, p, a, n)
    BY <2>1, <2>2, ListingOpensEscrow DEF EscrowAndList
  <2>8. Custody!MintAndOpen(Len(offers) + 1, p, a, n)
    BY SMTT(30), <2>1, <2>2, <2>4, <2>6, <2>7 DEF Custody!MintAndOpen
  <2>9. QED
    BY <2>1, <2>7, <2>8 DEF Custody!Next
<1>3. ASSUME NEW p \in Player, NEW a \in Asset, NEW price \in Price, NEW n \in U32, n > 0,
             n <= balance[p][a], balance' = [balance EXCEPT ![p][a] = balance[p][a] - n],
             CreateOffer(NewOffer(p, a, n, price)), harvested' = harvested
      PROVE  Custody!Next
  <2>1. Custody!PayFrom(balance, p, a, n)
    BY Zenon, <1>3, DebitPays DEF Inv, DexType
  <2>2. Len(offers) + 1 \in 1 .. MaxOffers /\ Custody!OpenEscrow(Len(offers) + 1, p, a, n)
    BY <1>3, ListingOpensEscrow
  <2>3. Custody!Open(Len(offers) + 1, p, a, n)
    BY <1>3, <2>1, <2>2 DEF Custody!Open
  <2>4. QED
    BY <2>2, <2>3 DEF Custody!Next
<1>4. ASSUME NEW p \in Player, NEW a \in Asset, NEW price \in Price,
             AutoListOnDex(p, a, price)
      PROVE  Custody!Next
  <2>1. /\ balance[p][a] \in U32 /\ balance[p][a] > 0
        /\ balance[p][a] <= balance[p][a] /\ balance[p][a] - balance[p][a] = 0
    BY <1>4 DEF AutoListOnDex, Inv, DexType, U32
  <2>2. /\ balance' = [balance EXCEPT ![p][a] = balance[p][a] - balance[p][a]]
        /\ CreateOffer(NewOffer(p, a, balance[p][a], price)) /\ harvested' = harvested
    BY Zenon, <1>4, <2>1 DEF AutoListOnDex
  <2>3. QED
    BY Zenon, <1>3, <2>1, <2>2
<1>5. ASSUME NEW p \in Player, NEW a \in Asset, NEW price \in Price, NEW n \in U32,
             ListResource(p, a, n, price)
      PROVE  Custody!Next
  <2>1. /\ n > 0 /\ n <= balance[p][a] /\ harvested' = harvested
        /\ balance' = [balance EXCEPT ![p][a] = balance[p][a] - n]
        /\ CreateOffer(NewOffer(p, a, n, price))
    BY <1>5 DEF ListResource, EscrowAndList, Inv, DexType, U32
  <2>2. QED
    BY Zenon, <1>3, <2>1
<1>6. ASSUME NEW p \in Player, NEW id \in DOMAIN offers, NEW n \in U32,
             n > 0, n <= offers[id].amount,
             p = offers[id].seller => n = offers[id].amount,
             balance' = [balance EXCEPT ![p][offers[id].asset_id] = @ + n],
             offers[id].active, harvested' = harvested,
             NEW o, o.seller = offers[id].seller, o.asset_id = offers[id].asset_id,
             (IF o.active THEN o.amount ELSE 0) = offers[id].amount - n,
             offers' = [offers EXCEPT ![id] = o]
      PROVE  Custody!Next
  <2>1. /\ id \in 1 .. MaxOffers
        /\ OfferEscrow[id].owner = offers[id].seller
        /\ OfferEscrow[id].asset = offers[id].asset_id
        /\ OfferEscrow[id].units = offers[id].amount
        /\ OfferEscrow' = [OfferEscrow EXCEPT ![id].units = @ - n]
    BY Zenon, <1>6, UpdateReleasesEscrow
  <2>2. id \in DOMAIN OfferEscrow
    BY DEF OfferEscrow
  <2>3. Custody!Release(id, p, n)
    BY <1>6, <2>1, <2>2 DEF Custody!Release, Custody!Gain
  <2>4. QED
    BY <2>1, <2>3 DEF Custody!Next
<1>7. ASSUME NEW p \in Player, NEW id \in DOMAIN offers, CancelListing(p, id)
      PROVE  Custody!Next
  <2> DEFINE o == [offers[id] EXCEPT !.active = FALSE]
             n == offers[id].amount
  <2>1. offers[id] \in DexOffer /\ offers[id].active
    BY <1>7 DEF Inv, DexType, CancelListing
  <2>2. n \in U32 /\ n > 0 /\ n <= n /\ n - n = 0
    BY <2>1 DEF Inv, OpenOffersHoldUnits, DexOffer, U32
  <2>3. o.seller = offers[id].seller /\ o.asset_id = offers[id].asset_id /\ ~o.active
    BY <2>1 DEF DexOffer
  <2>4. /\ offers' = [offers EXCEPT ![id] = o] /\ harvested' = harvested
        /\ balance' = [balance EXCEPT ![p][offers[id].asset_id] = @ + n]
    BY <1>7 DEF CancelListing
  <2> HIDE DEF o
  <2>5. QED
    BY Zenon, <1>6, <2>1, <2>2, <2>3, <2>4
<1>8. ASSUME NEW p \in Player, NEW id \in DOMAIN offers, NEW n \in U32, NEW price \in Price,
             BuyOffer(p, id, n, price)
      PROVE  Custody!Next
  <2> DEFINE left == offers[id].amount - n
  <2>1. /\ offers[id] \in DexOffer /\ offers[id].active /\ p # offers[id].seller
        /\ n > 0 /\ n <= offers[id].amount /\ harvested' = harvested
        /\ balance' = [balance EXCEPT ![p][offers[id].asset_id] = @ + n]
    BY <1>8 DEF BuyOffer, Inv, DexType
  <2>2. CASE left = 0
    <3> DEFINE o == [offers[id] EXCEPT !.amount = left, !.active = FALSE]
    <3>1. offers' = [offers EXCEPT ![id] = o]
      BY <1>8, <2>1, <2>2 DEF BuyOffer, DexOffer, Inv, DexType
    <3>2. /\ o.seller = offers[id].seller /\ o.asset_id = offers[id].asset_id /\ ~o.active
          /\ (IF o.active THEN o.amount ELSE 0) = offers[id].amount - n
      BY <2>1, <2>2 DEF DexOffer
    <3> HIDE DEF o
    <3>3. QED
      BY Zenon, <1>6, <2>1, <3>1, <3>2
  <2>3. CASE left # 0
    <3> DEFINE o == [offers[id] EXCEPT !.amount = left]
    <3>1. offers' = [offers EXCEPT ![id] = o]
      BY <1>8, <2>1, <2>3 DEF BuyOffer, DexOffer, Inv, DexType
    <3>2. /\ o.seller = offers[id].seller /\ o.asset_id = offers[id].asset_id
          /\ (IF o.active THEN o.amount ELSE 0) = offers[id].amount - n
      BY <2>1 DEF DexOffer
    <3> HIDE DEF o
    <3>3. QED
      BY Zenon, <1>6, <2>1, <3>1, <3>2
  <2>4. QED
    BY <2>2, <2>3
<1>9. ASSUME NEW p \in Player, NEW id \in DOMAIN orders, NEW n \in U32, NEW price \in Price,
             SellToOrder(p, id, n, price)
      PROVE  Custody!Next
  <2> DEFINE a == orders[id].resource
             q == orders[id].trader
  <2>1. a \in Asset /\ q \in Player /\ p # q /\ n > 0 /\ n <= balance[p][a]
    BY SMTT(30), <1>9 DEF SellToOrder, Inv, OrdersType, LimitOrder, DexType, U32
  <2>2. /\ balance' = [[balance EXCEPT ![p][a] = @ - n] EXCEPT ![q][a] = @ + n]
        /\ UNCHANGED <<OfferEscrow, harvested>>
    BY <1>9, <2>1 DEF SellToOrder, OfferEscrow
  <2>3. \A x \in U32 : x - n = x + (0 - n)
    BY DEF U32
  <2> HIDE DEF a, q
  <2>4. [balance EXCEPT ![p][a] = @ - n] = Custody!Gain(balance, p, a, 0 - n)
    BY Zenon, <2>1, <2>3 DEF Custody!Gain, Inv, DexType
  <2>5. Custody!Transfer(p, q, a, n)
    BY Zenon, <2>1, <2>2, <2>4 DEF Custody!Transfer, Custody!Gain
  <2>6. QED
    BY SMTT(30), <2>1, <2>5 DEF Custody!Next
<1>10. CASE BookStep
  BY Zenon, <1>10 DEF BookStep, dexVars, Custody!vars, OfferEscrow
<1>11. CASE NewDay
  BY Zenon, <1>11 DEF NewDay, Custody!vars, OfferEscrow
<1>12. CASE UNCHANGED vars
  BY Zenon, <1>12 DEF vars, dexVars, Custody!vars, OfferEscrow
<1>13. QED
  BY <1>1, <1>2, <1>4, <1>5, <1>7, <1>8, <1>9, <1>10, <1>11, <1>12 DEF Next

(* The market implements the custody promise: harvest, list, buy, sell and *)
(* cancel move units between wallets and offers as ResourceCustody allows, *)
(* for any number of players, assets, ships and offers.                    *)
THEOREM CustodyRefined == Spec => ImplementsCustody
<1>1. Inv /\ [Next]_vars => [Custody!Next]_(Custody!vars)
  BY CustodyStep
<1>2. QED
  BY <1>1, CustodyInit, MarketInvariant, PTL DEF Spec, ImplementsCustody, Custody!Spec
=============================================================================
