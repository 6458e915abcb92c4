----------------------------- MODULE OrderBook -----------------------------
(***************************************************************************)
(* The limit-order book and trading history of src/trading.rs.             *)
(*                                                                         *)
(* Every entry point runs as one atomic contract invocation, and an Err or *)
(* a trap rolls all of its writes back, so an action is a call that        *)
(* returned Ok.  placed_at and is_stop_loss of an order, and everything of *)
(* a history record but its order id and trader, are read by nothing in    *)
(* the contract and are left out.                                          *)
(***************************************************************************)
EXTENDS Integers, Sequences, SequencesExt, Functions, FiniteSets

CONSTANTS Player,             \* addresses that trade
          Asset,              \* resource symbols
          Exempt,             \* players exempt from the anti-whale caps
          MaxTradesPerDay,    \* AntiWhaleConfig.max_trades_per_day
          MaxOrdersPerTrader, \* MAX_ORDERS_PER_TRADER
          MaxHistory,         \* MAX_HISTORY
          MaxOrders,          \* bound: orders ever placed
          MaxQuantity,        \* bound: quantity of one order
          MaxPrice,           \* bound: price per unit
          MaxDay              \* bound: days that pass

ASSUME OrderBookAssumption ==
  /\ Exempt \subseteq Player
  /\ MaxTradesPerDay \in Nat /\ MaxOrdersPerTrader \in Nat
  /\ MaxHistory \in Nat \ {0}
  /\ MaxOrders \in Nat /\ MaxQuantity \in Nat /\ MaxPrice \in Nat /\ MaxDay \in Nat

VARIABLES orders,        \* TradingKey::Order, a partial function of the id
          orderCount,    \* TradingKey::OrderCounter
          traderOrders,  \* TradingKey::TraderOrders
          history,       \* TradingKey::History
          tradeOps,      \* AntiWhaleKey::DailyOps(_, Trade, today)
          day            \* the ledger's day index

bookVars == <<orders, orderCount, traderOrders, history, tradeOps, day>>

OrderId == 1 .. MaxOrders
Price == 1 .. MaxPrice
OrderSide == {"Buy", "Sell"}

LimitOrder == [trader : Player, side : OrderSide, resource : Asset,
               quantity : 1 .. MaxQuantity, limit_price : Price]

TradeRecord == [order_id : Nat, trader : Player]

BookInit ==
  /\ orders = << >>
  /\ orderCount = 0
  /\ traderOrders = [p \in Player |-> << >>]
  /\ history = << >>
  /\ tradeOps = [p \in Player |-> 0]
  /\ day = 0
-----------------------------------------------------------------------------
\* anti_whale::check_operation(trader, Trade, 1): counted and capped unless exempt.
CheckTradeOperation(trader) ==
  IF trader \in Exempt
  THEN UNCHANGED tradeOps
  ELSE /\ tradeOps[trader] < MaxTradesPerDay
       /\ tradeOps' = [tradeOps EXCEPT ![trader] = @ + 1]

\* A table with one more entry (or one replaced).
Insert(table, id, value) ==
  [x \in DOMAIN table \cup {id} |-> IF x = id THEN value ELSE table[x]]

\* place_limit_order; order.trader is overwritten with the authenticated caller.
PlaceLimitOrder(trader, order) ==
  LET id == orderCount + 1
  IN  /\ id \in OrderId
      /\ order.trader = trader
      /\ CheckTradeOperation(trader)
      /\ order.limit_price > 0 /\ order.quantity > 0
      /\ Len(traderOrders[trader]) < MaxOrdersPerTrader
      /\ orderCount' = id
      /\ orders' = Insert(orders, id, order)
      /\ traderOrders' = [traderOrders EXCEPT ![trader] = Append(@, id)]
      /\ UNCHANGED <<history, day>>

\* Mutant: the order is deleted but stays in its trader's list.
RemoveOrderKeepingId(trader, id) ==
  /\ orders' = Restrict(orders, DOMAIN orders \ {id})
  /\ UNCHANGED traderOrders

\* remove_order
RemoveOrder(trader, id) ==
  /\ orders' = Restrict(orders, DOMAIN orders \ {id})
  /\ traderOrders' = [traderOrders EXCEPT ![trader] = Remove(@, id)]

\* cancel_limit_order
CancelLimitOrder(trader, id) ==
  /\ id \in DOMAIN orders
  /\ orders[id].trader = trader
  /\ RemoveOrder(trader, id)
  /\ UNCHANGED <<orderCount, history, tradeOps, day>>

\* fill_limit_order
FillLimitOrder(id, quantity) ==
  /\ id \in DOMAIN orders
  /\ quantity > 0 /\ quantity <= orders[id].quantity
  /\ IF quantity = orders[id].quantity
     THEN RemoveOrder(orders[id].trader, id)
     ELSE /\ orders' = [orders EXCEPT ![id].quantity = @ - quantity]
          /\ UNCHANGED traderOrders

\* push_trade_record: drop the oldest records once MaxHistory is reached.
PushTradeRecord(trade) ==
  LET trimmed == IF Len(history) >= MaxHistory
                 THEN SubSeq(history, Len(history) - MaxHistory + 2, Len(history))
                 ELSE history
  IN  history' = Append(trimmed, trade)

\* record_trade: the caller supplies the whole record.
RecordTrade(trade) ==
  /\ PushTradeRecord(trade)
  /\ UNCHANGED <<orders, orderCount, traderOrders, tradeOps, day>>

\* The day index advances; yesterday's DailyOps entry is never read again.
BookNewDay ==
  /\ day < MaxDay
  /\ day' = day + 1
  /\ tradeOps' = [p \in Player |-> 0]
  /\ UNCHANGED <<orders, orderCount, traderOrders, history>>

\* dex_integration::sell_to_order as the book sees it: a fill and its record.
FillAndRecord(id, quantity) ==
  /\ FillLimitOrder(id, quantity)
  /\ PushTradeRecord([order_id |-> id, trader |-> orders[id].trader])
  /\ UNCHANGED <<orderCount, tradeOps, day>>

BookNext ==
  \/ \E p \in Player, o \in LimitOrder : PlaceLimitOrder(p, o)
  \/ \E p \in Player, id \in DOMAIN orders : CancelLimitOrder(p, id)
  \/ \E id \in DOMAIN orders, q \in 1 .. MaxQuantity : FillAndRecord(id, q)
  \/ \E trade \in [order_id : OrderId, trader : Player] : RecordTrade(trade)
  \/ BookNewDay

BookSpec == BookInit /\ [][BookNext]_bookVars
-----------------------------------------------------------------------------
BookTypeOK ==
  /\ orderCount \in 0 .. MaxOrders
  /\ DOMAIN orders \subseteq 1 .. orderCount
  /\ \A id \in DOMAIN orders : orders[id] \in LimitOrder
  /\ traderOrders \in [Player -> Seq(1 .. orderCount)]
  /\ \A p \in Player : Len(traderOrders[p]) <= MaxOrdersPerTrader
  /\ history \in Seq(TradeRecord) /\ Len(history) <= MaxHistory
  /\ tradeOps \in [Player -> 0 .. MaxTradesPerDay]
  /\ day \in 0 .. MaxDay

(* The per-trader list and the order table agree: place, cancel and fill   *)
(* keep TraderOrders(t) listing each open order of t exactly once, in the  *)
(* order of placement, so the MAX_ORDERS_PER_TRADER check counts open      *)
(* orders and get_trader_orders never skips one.                           *)
OrdersListed ==
  \A p \in Player :
    /\ ToSet(traderOrders[p]) = {id \in DOMAIN orders : orders[id].trader = p}
    /\ \A i, j \in DOMAIN traderOrders[p] :
         i < j => traderOrders[p][i] < traderOrders[p][j]
=============================================================================
