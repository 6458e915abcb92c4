------------------------------ MODULE AmmPool ------------------------------
(***************************************************************************)
(* The constant-product pools of src/trading.rs.  The functions keep       *)
(* reserves and LP balances only; they debit and credit no wallet.         *)
(***************************************************************************)
EXTENDS Integers, Sequences, SequencesExt, Functions, AntiWhaleCurves

CONSTANTS Provider,        \* addresses that provide liquidity and trade
          Resource,        \* resource symbols
          Exempt,          \* addresses exempt from the anti-whale rules
          SwapFeeBps,      \* SWAP_FEE_BPS
          MaxRouteHops,    \* AMM_MAX_ROUTE_HOPS
          MaxTradesPerDay, \* AntiWhaleConfig.max_trades_per_day
          MaxI128,         \* i128::MAX
          MaxPools,        \* bound: pools ever created
          Amounts,         \* bound: amounts callers pass
          MaxDay           \* bound: days that pass

VARIABLES pools,     \* AmmKey::Pool; PoolCounter and PoolList are its domain
          lp,        \* AmmKey::LpBalance
          tradeOps,  \* AntiWhaleKey::DailyOps(_, Trade, today)
          volume,    \* AntiWhaleKey::DailyTradeVolume(_, today)
          day

vars == <<pools, lp, tradeOps, volume, day>>

LiquidityPool == [a : Resource, b : Resource, ra : Nat, rb : Nat, supply : Nat]

Init ==
  /\ pools = << >>
  /\ lp = << >>
  /\ tradeOps = [p \in Provider |-> 0]
  /\ volume = [p \in Provider |-> 0]
  /\ day = 0

\* i128 arithmetic traps on overflow.
Fits(n) == n <= MaxI128

\* create_pool: one pool per unordered pair.
CreatePool(x, y) ==
  /\ Len(pools) < MaxPools
  /\ x # y
  /\ \A i \in DOMAIN pools : {pools[i].a, pools[i].b} # {x, y}
  /\ pools' = Append(pools, [a |-> x, b |-> y, ra |-> 0, rb |-> 0, supply |-> 0])
  /\ lp' = Append(lp, [p \in Provider |-> 0])
  /\ UNCHANGED <<tradeOps, volume, day>>

\* The Newton loop of calculate_lp_mint, from r and s on.
Sqrt(x) ==
  LET newton[r \in 0 .. x, s \in 0 .. x + 1] ==
        IF s < r THEN newton[s, (s + x \div s) \div 2] ELSE r
  IN  newton[x, x \div 2 + 1]

\* calculate_lp_mint
LpMint(pool, x, y) ==
  IF pool.supply = 0 THEN Sqrt(x * y)
  ELSE Min({(x * pool.supply) \div pool.ra, (y * pool.supply) \div pool.rb})

\* Mutant: the LP balance is overwritten instead of increased.
AddLiquidityOverwrite(provider, id, x, y) ==
  LET pool == pools[id]
      mint == LpMint(pool, x, y)
  IN  /\ x > 0 /\ y > 0 /\ mint > 0
      /\ Fits(pool.ra + x) /\ Fits(pool.rb + y) /\ Fits(pool.supply + mint)
      /\ pools' = [pools EXCEPT ![id].ra = @ + x, ![id].rb = @ + y, ![id].supply = @ + mint]
      /\ lp' = [lp EXCEPT ![id][provider] = mint]
      /\ UNCHANGED <<tradeOps, volume, day>>

\* add_liquidity
AddLiquidity(provider, id, x, y) ==
  LET pool == pools[id]
      mint == LpMint(pool, x, y)
  IN  /\ x > 0 /\ y > 0
      /\ IF pool.supply = 0 THEN Fits(x * y)
         ELSE Fits(x * pool.supply) /\ Fits(y * pool.supply)
      /\ mint > 0
      /\ Fits(pool.ra + x) /\ Fits(pool.rb + y) /\ Fits(pool.supply + mint)
      /\ pools' = [pools EXCEPT ![id].ra = @ + x, ![id].rb = @ + y, ![id].supply = @ + mint]
      /\ lp' = [lp EXCEPT ![id][provider] = @ + mint]
      /\ UNCHANGED <<tradeOps, volume, day>>

\* remove_liquidity
RemoveLiquidity(provider, id, amount) ==
  LET pool == pools[id]
      share(reserve) == (amount * reserve) \div pool.supply
  IN  /\ amount > 0 /\ amount <= lp[id][provider]
      /\ pool.supply > 0
      /\ Fits(amount * pool.ra) /\ Fits(amount * pool.rb)
      /\ pools' = [pools EXCEPT ![id].ra = @ - share(@), ![id].rb = @ - share(@),
                                ![id].supply = @ - amount]
      /\ lp' = [lp EXCEPT ![id][provider] = @ - amount]
      /\ UNCHANGED <<tradeOps, volume, day>>
-----------------------------------------------------------------------------
\* Mutant: the fee is not taken off the input.
OutputAmountUncharged(amount, reserve_in, reserve_out) ==
  (amount * reserve_out) \div reserve_in

\* get_output_amount
OutputAmount(amount, reserve_in, reserve_out) ==
  LET net == amount - (amount * SwapFeeBps) \div Bps
  IN  (net * reserve_out) \div (reserve_in + net)

OtherSide(pool, r) == IF pool.a = r THEN pool.b ELSE pool.a

\* One hop of the route loop: where it ends up, or nothing if it fails.
Hop(st, id) ==
  LET pool == st.pools[id]
      forward == pool.a = st.resource
      in   == IF forward THEN pool.ra ELSE pool.rb
      out  == IF forward THEN pool.rb ELSE pool.ra
      got  == OutputAmount(st.amount, in, out)
  IN  IF /\ st.resource \in {pool.a, pool.b}
         /\ in > 0 /\ out > 0
         /\ got > 0
         /\ Fits(in + st.amount) /\ Fits(st.amount * out)
      THEN {[pools    |-> IF forward
                          THEN [st.pools EXCEPT ![id].ra = @ + st.amount, ![id].rb = @ - got]
                          ELSE [st.pools EXCEPT ![id].rb = @ + st.amount, ![id].ra = @ - got],
             resource |-> OtherSide(pool, st.resource),
             amount   |-> got]}
      ELSE {}

Routed(resource, amount, route) ==
  LET walk[i \in 0 .. Len(route)] ==
        IF i = 0 THEN {[pools |-> pools, resource |-> resource, amount |-> amount]}
        ELSE UNION {Hop(st, route[i]) : st \in walk[i - 1]}
  IN  walk[Len(route)]

\* The progressive fee goes back into the last pool, on the side paid out.
WithFee(ps, id, resource, fee) ==
  IF ps[id].a = resource THEN [ps EXCEPT ![id].ra = @ + fee]
  ELSE [ps EXCEPT ![id].rb = @ + fee]

\* charge_progressive_fee: nothing for an exempt trader.
FeeUnits(trader, amount) ==
  IF trader \in Exempt THEN 0 ELSE ProgressiveTradeFee(volume[trader], amount)

\* swap_exact_input
SwapExactInput(trader, resource, amount, min_out, route) ==
  /\ amount > 0
  /\ Len(route) \in 1 .. MaxRouteHops
  /\ trader \notin Exempt => tradeOps[trader] < MaxTradesPerDay
  /\ \E st \in Routed(resource, amount, route) :
       LET fee == Min({FeeUnits(trader, st.amount), st.amount})
       IN  /\ trader \notin Exempt => volume[trader] + st.amount <= MaxU64
           /\ st.amount - fee >= min_out
           /\ pools' = WithFee(st.pools, Last(route), st.resource, fee)
           /\ volume' = IF trader \in Exempt THEN volume
                        ELSE [volume EXCEPT ![trader] = @ + st.amount]
  /\ tradeOps' = IF trader \in Exempt THEN tradeOps
                 ELSE [tradeOps EXCEPT ![trader] = @ + 1]
  /\ UNCHANGED <<lp, day>>

\* The anti-whale counters are keyed by the day.
NewDay ==
  /\ day < MaxDay
  /\ day' = day + 1
  /\ tradeOps' = [p \in Provider |-> 0]
  /\ volume' = [p \in Provider |-> 0]
  /\ UNCHANGED <<pools, lp>>

Routes == UNION {[1 .. n -> DOMAIN pools] : n \in 1 .. MaxRouteHops}

Next ==
  \/ \E x, y \in Resource : CreatePool(x, y)
  \/ \E p \in Provider, id \in DOMAIN pools :
       \/ \E x, y \in Amounts : AddLiquidity(p, id, x, y)
       \/ \E n \in 1 .. pools[id].supply : RemoveLiquidity(p, id, n)
  \/ \E p \in Provider, r \in Resource, n \in Amounts, least \in {0, 1}, route \in Routes :
       SwapExactInput(p, r, n, least, route)
  \/ NewDay

Spec == Init /\ [][Next]_vars
-----------------------------------------------------------------------------
\* Type invariant.
TypeOK ==
  /\ pools \in Seq(LiquidityPool) /\ Len(pools) <= MaxPools
  /\ lp \in Seq([Provider -> Nat]) /\ Len(lp) = Len(pools)
  /\ tradeOps \in [Provider -> 0 .. MaxTradesPerDay]
  /\ volume \in [Provider -> 0 .. MaxU64]
  /\ day \in 0 .. MaxDay

\* The LP balances of a pool's providers add up to its lp_total_supply, which
\* is what remove_liquidity divides the reserves by.
SharesAddUp == \A id \in DOMAIN pools : SumFunction(lp[id]) = pools[id].supply

\* A pool with LP tokens outstanding has units on both sides, and an empty one
\* has none: no swap or removal drains one side, so calculate_lp_mint never
\* divides by a zero reserve and no units are stranded without an owner.
ReservesBackSupply ==
  \A id \in DOMAIN pools :
    /\ pools[id].supply > 0 => pools[id].ra > 0 /\ pools[id].rb > 0
    /\ pools[id].supply = 0 => pools[id].ra = 0 /\ pools[id].rb = 0

\* What one LP token is worth, reserve_a * reserve_b / supply^2, never falls: no
\* deposit, withdrawal, route or rounding takes value from the other providers.
ShareValueNeverFalls ==
  [][\A id \in DOMAIN pools :
       LET p == pools[id]
           q == pools'[id]
       IN  p.supply > 0 /\ q.supply > 0 =>
             q.ra * q.rb * p.supply * p.supply >= p.ra * p.rb * q.supply * q.supply]_vars
=============================================================================
