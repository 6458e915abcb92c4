------------------------- MODULE AntiWhaleCurves -------------------------
(***************************************************************************)
(* The pure arithmetic of src/economics/anti_whale.rs: the five-band       *)
(* diminishing-returns curve and the marginal progressive fees.            *)
(***************************************************************************)
EXTENDS Integers, Sequences, SequencesExt

CONSTANTS MaxU64,    \* u64::MAX; small in a model, so that saturation happens
          FeeBands,  \* PROGRESSIVE_FEE_BANDS: <<[floor, bps], ...>>
          FlatFee    \* LEGACY_FEE_THRESHOLD and PROGRESSIVE_FEE_BPS: [floor, bps]

ASSUME CurveAssumption ==
  /\ MaxU64 \in Nat
  /\ \A i \in 1 .. Len(FeeBands) : FeeBands[i] \in [floor : Nat, bps : Nat]
  /\ FlatFee \in [floor : Nat, bps : Nat]

Bps == 10000

\* TIER_MULTIPLIERS_BPS
TierMultiplier == <<10000, 8000, 6000, 4000, 2000>>

TierCount == Len(TierMultiplier)

\* u64 saturating_add / saturating_mul, and saturating_sub
Sat(n) == IF n > MaxU64 THEN MaxU64 ELSE n
SatSub(a, b) == IF a > b THEN a - b ELSE 0

\* One iteration of the band loop.
FillBand(st, i, width) ==
  LET room == SatSub(Sat(width * i), st.position)
      take == IF i = TierCount THEN st.remaining ELSE Min({st.remaining, room})
  IN  [remaining |-> st.remaining - take,
       position  |-> Sat(st.position + take),
       effective |-> Sat(st.effective + (take * TierMultiplier[i]) \div Bps)]

\* diminishing_returns
DiminishingReturns(before, amount, width) ==
  IF width = 0
  THEN amount
  ELSE LET start == [remaining |-> amount, position |-> before, effective |-> 0]
           step(st, i) == FillBand(st, i, width)
       IN  FoldLeft(step, start, [i \in 1 .. TierCount |-> i]).effective

\* progressive_trade_fee: only the part of a trade inside a band pays its rate.
ProgressiveTradeFee(before, amount) ==
  LET end == Sat(before + amount)
      ceiling(i) == IF i = Len(FeeBands) THEN MaxU64 ELSE FeeBands[i + 1].floor
      inBand(i) == SatSub(Min({end, ceiling(i)}), Max({before, FeeBands[i].floor}))
      add(fee, i) == fee + (inBand(i) * FeeBands[i].bps) \div Bps
  IN  FoldLeft(add, 0, [i \in 1 .. Len(FeeBands) |-> i])

\* calculate_progressive_fee: the flat fee of the legacy path.
CalculateProgressiveFee(amount) ==
  (SatSub(amount, FlatFee.floor) * FlatFee.bps) \div Bps
=============================================================================
