----------------------------- MODULE DexMarket -----------------------------
(***************************************************************************)
(* The resource market: harvesting and listing in src/resource_minter.rs,  *)
(* the trading paths of src/dex_integration.rs, and the limit orders of    *)
(* src/trading.rs that they fill.  All three move units of one ledger,     *)
(* ResourceKey::ResourceBalance.                                           *)
(*                                                                         *)
(* Ships are the layouts' targets; list_at_market is HarvestAndList at the *)
(* price that dynamic_pricing answers, which may be any positive one.      *)
(* The lifetime activity and impact counters that apply_gathering also     *)
(* bumps are read by none of these paths; AntiWhale models them.           *)
(***************************************************************************)
EXTENDS OrderBook, AntiWhaleCurves

CONSTANTS Ship,          \* ship ids
          ShipOwner,     \* ship_nft: the current owner of each ship
          Layouts,       \* harvest inputs: sequences of [asset, energy] cells
          TierWidth,     \* AntiWhaleConfig.tier_width in force
          MaxListings,   \* MAX_LISTINGS_PER_SESSION
          MaxU32,        \* u32::MAX
          MaxI128,       \* i128::MAX
          MaxOffers      \* bound: offers ever created

ASSUME DexAssumption ==
  /\ ShipOwner \in [Ship -> Player]
  /\ \A l \in Layouts : l \in Seq([asset : Asset, energy : Nat])
  /\ TierWidth \in Nat /\ MaxListings \in Nat
  /\ MaxU32 \in Nat /\ MaxI128 \in Nat
  /\ MaxOffers \in Nat /\ MaxOffers <= MaxU32

VARIABLES balance,   \* ResourceKey::ResourceBalance
          gathered,  \* AntiWhaleKey::DailyGathered(_, today)
          offers,    \* ResourceKey::DexOffer(1 .. DexOfferCounter): ids are dense
          slots,     \* DexKey::SessionListings
          harvested  \* history: units ever harvested, by asset

dexVars == <<balance, gathered, offers, slots, harvested>>
vars == <<dexVars, bookVars>>

U32 == 0 .. MaxU32

DexOffer == [seller : Player, asset_id : Asset, amount : U32,
             min_price : Price, active : BOOLEAN]

Init ==
  /\ BookInit
  /\ balance = [p \in Player |-> [a \in Asset |-> 0]]
  /\ gathered = [p \in Player |-> 0]
  /\ offers = << >>
  /\ slots = [p \in Player |-> 0]
  /\ harvested = [a \in Asset |-> 0]
-----------------------------------------------------------------------------
\* Pass 1 of harvest_resources: cells with no energy are skipped.
RawTotal(layout) ==
  LET add(t, cell) == t + cell.energy IN FoldLeft(add, 0, layout)

\* apply_gathering: the whole harvest goes through the curve once.
EffectiveTotal(owner, raw) ==
  IF owner \in Exempt THEN raw ELSE DiminishingReturns(gathered[owner], raw, TierWidth)

\* Pass 2: the effective total spread over the cells pro rata, floored.
CellYield(cell, effective, raw) == Min({MaxU32, (cell.energy * effective) \div raw})

HarvestYield(owner, layout) ==
  LET raw == RawTotal(layout)
      effective == EffectiveTotal(owner, raw)
      add(y, cell) == [y EXCEPT ![cell.asset] = @ + CellYield(cell, effective, raw)]
  IN  FoldLeft(add, [a \in Asset |-> 0], layout)

\* credit_resource_balance for every harvested asset
Credited(owner, yield) ==
  [balance EXCEPT ![owner] = [a \in Asset |-> @[a] + yield[a]]]

\* Mutant: the credit wraps past u32::MAX unchecked.
CanHarvestUnchecked(owner, layout, yield) ==
  /\ RawTotal(layout) \in 1 .. MaxU32
  /\ yield \in [Asset -> U32]

\* The checks of harvest_resources, overflow and emptiness included.
CanHarvest(owner, layout, yield) ==
  LET raw == RawTotal(layout)
  IN  /\ raw \in 1 .. MaxU32
      /\ owner \notin Exempt => gathered[owner] + raw <= MaxU64
      /\ yield \in [Asset -> U32]
      /\ SumFunction(yield) \in 1 .. MaxU32
      /\ \A a \in Asset : balance[owner][a] + yield[a] <= MaxU32

\* record_gathering_with: raw units count towards today's total.
RecordGathering(owner, layout) ==
  gathered' = IF owner \in Exempt THEN gathered
              ELSE [gathered EXCEPT ![owner] = @ + RawTotal(layout)]

\* history only
RecordHarvest(yield) == harvested' = [a \in Asset |-> harvested[a] + yield[a]]

\* harvest_resources: anyone may call it; the ship's owner is credited.
HarvestResources(ship, layout) ==
  LET owner == ShipOwner[ship]
      yield == HarvestYield(owner, layout)
  IN  /\ RawTotal(layout) > 0
      /\ CanHarvest(owner, layout, yield)
      /\ balance' = Credited(owner, yield)
      /\ RecordGathering(owner, layout)
      /\ RecordHarvest(yield)
      /\ UNCHANGED <<offers, slots, bookVars>>

NewOffer(seller, a, amount, price) ==
  [seller |-> seller, asset_id |-> a, amount |-> amount,
   min_price |-> price, active |-> TRUE]

\* note_listing_opened, release_listing_slot
NoteListingOpened(seller) == slots' = [slots EXCEPT ![seller] = Min({MaxU32, @ + 1})]
ReleaseListingSlot(seller) == slots' = [slots EXCEPT ![seller] = SatSub(@, 1)]

\* next_dex_offer_id and the offer stored under it
CreateOffer(offer) ==
  /\ Len(offers) < MaxOffers
  /\ offers' = Append(offers, offer)

\* escrow_and_list, debiting the balances `held`
EscrowAndList(held, seller, a, amount, price) ==
  /\ held[seller][a] >= amount
  /\ balance' = [held EXCEPT ![seller][a] = @ - amount]
  /\ CreateOffer(NewOffer(seller, a, amount, price))
  /\ NoteListingOpened(seller)

\* ensure_listing_slot
EnsureListingSlot(seller) == slots[seller] < MaxListings

\* harvest_and_list, and list_at_market at the dynamic price
HarvestAndList(player, ship, layout, a, price) ==
  LET owner == ShipOwner[ship]
      yield == HarvestYield(owner, layout)
  IN  /\ price > 0
      /\ EnsureListingSlot(player)
      /\ RawTotal(layout) > 0
      /\ CanHarvest(owner, layout, yield)
      /\ yield[a] > 0
      /\ EscrowAndList(Credited(owner, yield), player, a, yield[a], price)
      /\ RecordGathering(owner, layout)
      /\ RecordHarvest(yield)
      /\ UNCHANGED bookVars

\* list_resource
ListResource(seller, a, amount, price) ==
  /\ price > 0 /\ amount > 0
  /\ EnsureListingSlot(seller)
  /\ EscrowAndList(balance, seller, a, amount, price)
  /\ UNCHANGED <<gathered, harvested, bookVars>>

\* Mutant: the uncapped path does not count its listing.
AutoListOnDexUncounted(player, a, price) ==
  LET amount == balance[player][a]
  IN  /\ amount > 0
      /\ balance' = [balance EXCEPT ![player][a] = 0]
      /\ CreateOffer(NewOffer(player, a, amount, price))
      /\ UNCHANGED <<gathered, slots, harvested, bookVars>>

\* auto_list_on_dex: the whole balance, not subject to the listing cap.
AutoListOnDex(player, a, price) ==
  LET amount == balance[player][a]
  IN  /\ price > 0 /\ amount > 0
      /\ balance' = [balance EXCEPT ![player][a] = 0]
      /\ CreateOffer(NewOffer(player, a, amount, price))
      /\ NoteListingOpened(player)
      /\ UNCHANGED <<gathered, harvested, bookVars>>

\* buy_offer
BuyOffer(buyer, id, amount, max_price) ==
  LET offer == offers[id]
      left == offer.amount - amount
  IN  /\ offer.active
      /\ offer.seller # buyer
      /\ amount > 0 /\ amount <= offer.amount
      /\ offer.min_price <= max_price
      /\ offer.min_price * amount <= MaxI128
      /\ balance[buyer][offer.asset_id] + amount <= MaxU32
      /\ balance' = [balance EXCEPT ![buyer][offer.asset_id] = @ + amount]
      /\ IF left = 0
         THEN /\ offers' = [offers EXCEPT ![id].amount = left, ![id].active = FALSE]
              /\ ReleaseListingSlot(offer.seller)
         ELSE /\ offers' = [offers EXCEPT ![id].amount = left]
              /\ UNCHANGED slots
      /\ PushTradeRecord([order_id |-> id, trader |-> buyer])
      /\ UNCHANGED <<gathered, harvested, orders, orderCount, traderOrders, tradeOps, day>>

\* sell_to_order; the debit is stored before the credit reads its balance.
SellToOrder(seller, id, amount, min_price) ==
  LET order == orders[id]
      a == order.resource
  IN  /\ order.side = "Buy"
      /\ order.trader # seller
      /\ amount > 0 /\ amount <= order.quantity
      /\ order.limit_price >= min_price
      /\ order.limit_price * amount <= MaxI128
      /\ balance[seller][a] >= amount
      /\ balance[order.trader][a] + amount <= MaxU32
      /\ balance' = [balance EXCEPT ![seller][a] = @ - amount,
                                    ![order.trader][a] = @ + amount]
      /\ FillLimitOrder(id, amount)
      /\ PushTradeRecord([order_id |-> id, trader |-> order.trader])
      /\ UNCHANGED <<gathered, offers, slots, harvested, orderCount, tradeOps, day>>

\* Mutant: the cancelled offer is refunded but not closed.
CancelListingLeftActive(owner, id) ==
  /\ offers[id].active /\ offers[id].seller = owner
  /\ balance[owner][offers[id].asset_id] + offers[id].amount <= MaxU32
  /\ balance' = [balance EXCEPT ![owner][offers[id].asset_id] = @ + offers[id].amount]
  /\ ReleaseListingSlot(owner)
  /\ UNCHANGED <<gathered, offers, harvested, bookVars>>

\* cancel_listing: refund what is left and free the slot.
CancelListing(owner, id) ==
  LET offer == offers[id]
  IN  /\ offer.active /\ offer.seller = owner
      /\ balance[owner][offer.asset_id] + offer.amount <= MaxU32
      /\ offers' = [offers EXCEPT ![id].active = FALSE]
      /\ ReleaseListingSlot(owner)
      /\ balance' = [balance EXCEPT ![owner][offer.asset_id] = @ + offer.amount]
      /\ UNCHANGED <<gathered, harvested, bookVars>>

\* The order-book entry points leave the ledger and the offers alone.
BookStep ==
  /\ \/ \E p \in Player, o \in LimitOrder : PlaceLimitOrder(p, o)
     \/ \E p \in Player, id \in DOMAIN orders : CancelLimitOrder(p, id)
     \/ \E trade \in [order_id : {0}, trader : Player] : RecordTrade(trade)
  /\ UNCHANGED dexVars

NewDay ==
  /\ BookNewDay
  /\ gathered' = [p \in Player |-> 0]
  /\ UNCHANGED <<balance, offers, slots, harvested>>

Next ==
  \/ \E s \in Ship, l \in Layouts : HarvestResources(s, l)
  \/ \E p \in Player, s \in Ship, l \in Layouts, a \in Asset, price \in Price :
       HarvestAndList(p, s, l, a, price)
  \/ \E p \in Player, a \in Asset, price \in Price :
       \/ AutoListOnDex(p, a, price)
       \/ \E amount \in U32 : ListResource(p, a, amount, price)
  \/ \E p \in Player, id \in DOMAIN offers :
       \/ CancelListing(p, id)
       \/ \E amount \in U32, price \in Price : BuyOffer(p, id, amount, price)
  \/ \E p \in Player, id \in DOMAIN orders, amount \in U32, price \in Price :
       SellToOrder(p, id, amount, price)
  \/ BookStep
  \/ NewDay

Spec == Init /\ [][Next]_vars
-----------------------------------------------------------------------------
OpenOffers(p) == {id \in DOMAIN offers : offers[id].active /\ offers[id].seller = p}

TypeOK ==
  /\ BookTypeOK
  /\ balance \in [Player -> [Asset -> U32]]
  /\ gathered \in [Player -> 0 .. MaxU64]
  /\ offers \in Seq(DexOffer) /\ Len(offers) <= MaxOffers
  /\ slots \in [Player -> U32]
  /\ harvested \in [Asset -> Nat]

(* SessionListings(p) is the number of p's open offers.  Three paths open  *)
(* an offer, two close one, and release_listing_slot saturates, so one     *)
(* missed or doubled update would drift for ever: the cap would then lock  *)
(* a player out, or stop binding.                                          *)
SlotsCountOpenOffers ==
  \A p \in Player : slots[p] = Cardinality(OpenOffers(p))

(* An open offer still holds units: buy_offer closes an offer with its     *)
(* last unit, so no open listing occupies a slot that only an empty        *)
(* cancellation could free.                                                *)
OpenOffersHoldUnits ==
  \A id \in DOMAIN offers : offers[id].active => offers[id].amount > 0

\* An offer, seen as the escrow of what it still sells.
OfferEscrow ==
  [id \in DOMAIN offers |->
     [owner |-> offers[id].seller,
      asset |-> offers[id].asset_id,
      units |-> IF offers[id].active THEN offers[id].amount ELSE 0]]

Custody == INSTANCE ResourceCustody WITH
  EscrowId <- 1 .. MaxOffers, Amount <- U32,
  wallet <- balance, escrow <- OfferEscrow, minted <- harvested

(* The market keeps custody: with an offer as the escrow of what it still  *)
(* sells, every call moves units as ResourceCustody allows.  Only harvests *)
(* create units, none is lost between the debit of one storage key and the *)
(* credit of another, and no escrow is paid out twice.                     *)
ImplementsCustody == Custody!Spec
=============================================================================
