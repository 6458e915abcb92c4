------------------------------- MODULE Pricing -------------------------------
(***************************************************************************)
(* What things cost and who pays: smoothed resource prices                 *)
(* (dynamic_pricing.rs), the market oracle and its triggers                *)
(* (market_oracle.rs) and sponsored first scans with mobile sessions       *)
(* (gas_sponsor.rs).  A call that fails leaves no trace, so only the calls *)
(* that succeed are actions.                                               *)
(***************************************************************************)
EXTENDS Integers, Sequences, FiniteSets, SequencesExt, FiniteSetsExt, Functions

CONSTANTS Player, NoOne, Resource,
          Configs, DefaultConfig, \* pricing configurations
          MaxSmoothingBps, MaxVolatilityBandBps, MaxHistoryEntries, RawPrice, Supply,
          MaxBatchUpdate, OracleHistory, OraclePrice,
          SponsorConfigs, DefaultSponsorConfig, Fund, Day, Duration, FraudDelta,
          MaxTime, MaxObservations, MaxTriggers, MaxFunded \* bounds of the runs

VARIABLES now,
          pricingAdmin, pricingConfig, price, history,
          accepted,           \* history: the prints accepted for each resource
          admin,              \* the instance slot Admin, which oracle and sponsor share
          boardAdmin,         \* the persistent slot Admin, which triggers are checked against
          sources, oraclePrice, oracleHistory, triggers,
          disabled,           \* history: triggers announced as disabled
          fund, dailyCount, lastReset, sponsored, sponsorConfig, lifetime,
          userDaily, session, fraudScore,
          funded, paidOut, granted, uses \* history: in, out, grants of the day, uses of a session

priceVars == <<pricingAdmin, pricingConfig, price, history, accepted>>
oracleVars == <<boardAdmin, sources, oraclePrice, oracleHistory, triggers, disabled>>
grantVars == <<fund, dailyCount, lastReset, sponsored, sponsorConfig, lifetime,
               userDaily, funded, paidOut, granted>>
mobileVars == <<session, fraudScore, uses>>
vars == <<now, admin, priceVars, oracleVars, grantVars, mobileVars>>

With(f, k, v) == [x \in DOMAIN f \cup {k} |-> IF x = k THEN v ELSE f[x]]
Get(f, k, default) == IF k \in DOMAIN f THEN f[k] ELSE default
Least(x, y) == IF x <= y THEN x ELSE y
Most(x, y) == IF x >= y THEN x ELSE y
Abs(x) == IF x < 0 THEN -x ELSE x
Clamp(x, low, high) == Most(low, Least(x, high))
Quotient(x, d) == IF x >= 0 THEN x \div d ELSE -((-x) \div d) \* rounds towards zero
Keep(s, n) == SubSeq(s, Most(1, Len(s) - n + 1), Len(s))      \* the last n

Init ==
  /\ now = 0
  /\ pricingAdmin = NoOne /\ pricingConfig = DefaultConfig /\ price = << >> /\ history = << >>
  /\ accepted = << >>
  /\ admin = NoOne /\ boardAdmin = NoOne /\ sources = << >> /\ oraclePrice = << >> /\ oracleHistory = << >>
  /\ triggers = << >> /\ disabled = {}
  /\ fund = 0 /\ dailyCount = 0 /\ lastReset = 0 /\ sponsored = {}
  /\ sponsorConfig = DefaultSponsorConfig /\ lifetime = << >> /\ userDaily = << >>
  /\ funded = 0 /\ paidOut = 0 /\ granted = 0
  /\ session = << >> /\ fraudScore = << >> /\ uses = << >>

Tick ==
  /\ now < MaxTime
  /\ now' = now + 1
  /\ UNCHANGED <<admin, priceVars, oracleVars, grantVars, mobileVars>>
-----------------------------------------------------------------------------
(* dynamic_pricing.rs, in basis points *)

ValidateConfig(c) ==
  /\ c.smoothing \in 1..MaxSmoothingBps
  /\ c.max_deviation \in 1..20000
  /\ c.base_band \in 1..MaxVolatilityBandBps
  /\ c.max_band \in c.base_band .. MaxVolatilityBandBps
  /\ c.supply_demand <= 10000

InitPricingConfig(p, c) ==
  /\ pricingAdmin = NoOne
  /\ ValidateConfig(c)
  /\ pricingAdmin' = p /\ pricingConfig' = c
  /\ UNCHANGED <<price, history, accepted>>

SetPricingConfig(p, c) ==
  /\ pricingAdmin # NoOne /\ p = pricingAdmin
  /\ ValidateConfig(c)
  /\ pricingConfig' = c
  /\ UNCHANGED <<pricingAdmin, price, history, accepted>>

\* Mutant: the step is rounded away from the average instead of towards it.
EmaOvershoot(sma, raw, alpha) ==
  IF raw > sma THEN sma + (((raw - sma) * alpha) \div 10000) + 1
  ELSE Most(1, sma - (((sma - raw) * alpha) \div 10000) - 1)

\* ema_step: part of the way towards the print, and at least one unit.
EmaStep(sma, raw, alpha) ==
  LET step == Quotient((raw - sma) * alpha, 10000)
      next == IF step = 0 /\ raw # sma THEN sma + (IF raw > sma THEN 1 ELSE -1) ELSE sma + step
  IN  Most(1, next)

DeviationBps(sma, raw) == (Abs(raw - sma) * 10000) \div sma

EwmaBps(prev, sample, alpha) ==
  LET step == Quotient((sample - prev) * alpha, 10000)
  IN  Most(0, IF step = 0 /\ sample # prev THEN prev + (IF sample > prev THEN 1 ELSE -1)
              ELSE prev + step)

ClampToBand(anchor, value, band) ==
  LET width == (anchor * band) \div 10000
  IN  Clamp(value, Most(1, anchor - width), anchor + width)

\* The band widens from its base to its maximum as volatility grows.
EffectiveBand(c, volatility) ==
  LET headroom == c.max_band - c.base_band
  IN  Least(c.base_band + (Least(volatility, c.max_deviation) * headroom) \div c.max_deviation,
            c.max_band)


\* price_from_state.
Published(c, p) ==
  LET nudge == Clamp(p.supply_demand, -c.supply_demand, c.supply_demand)
      nudged == Most(1, p.sma + Quotient(nudge * p.sma, 10000))
  IN  ClampToBand(p.sma, nudged, EffectiveBand(c, p.volatility))

ListingPrice(r) == Most(1, Published(pricingConfig, price[r]))

\* push_history.
Recorded(r, p, raw) ==
  /\ history' = With(history, r,
       Keep(Append(Get(history, r, << >>), [sma |-> p.sma, raw |-> raw, at |-> now,
                                            published |-> Published(pricingConfig, p)]),
            MaxHistoryEntries))
  /\ accepted' = With(accepted, r, Get(accepted, r, {}) \cup {raw})

ObserveFirstPrice(source, r, raw) ==
  LET p == [sma |-> raw, last_update |-> now, volatility |-> 0, rejected |-> 0, rejected_last |-> FALSE,
            observations |-> 1, supply_demand |-> 0]
  IN  /\ pricingAdmin # NoOne /\ source = pricingAdmin
      /\ raw > 0
      /\ r \notin DOMAIN price
      /\ price' = With(price, r, p)
      /\ Recorded(r, p, raw)
      /\ UNCHANGED <<pricingAdmin, pricingConfig>>

\* A print too far from the average is counted, and the rest stays.
ObserveOutlier(source, r, raw) ==
  /\ pricingAdmin # NoOne /\ source = pricingAdmin
  /\ raw > 0
  /\ r \in DOMAIN price
  /\ now - price[r].last_update >= pricingConfig.cooldown
  /\ DeviationBps(price[r].sma, raw) > pricingConfig.max_deviation
  /\ price[r].rejected < MaxObservations
  /\ price' = [price EXCEPT ![r].rejected = @ + 1, ![r].rejected_last = TRUE]
  /\ UNCHANGED <<pricingAdmin, pricingConfig, history, accepted>>

\* observe_price, for a print that is accepted.
ObservePrice(source, r, raw) ==
  LET c == pricingConfig
      dev == DeviationBps(price[r].sma, raw)
      p == [price[r] EXCEPT !.sma = EmaStep(@, raw, c.smoothing), !.last_update = now,
                            !.volatility = EwmaBps(@, dev, c.smoothing),
                            !.observations = @ + 1, !.rejected_last = FALSE]
  IN  /\ pricingAdmin # NoOne /\ source = pricingAdmin
      /\ raw > 0
      /\ r \in DOMAIN price
      /\ price[r].observations < MaxObservations
      /\ now - price[r].last_update >= c.cooldown
      /\ dev <= c.max_deviation
      /\ price' = [price EXCEPT ![r] = p]
      /\ Recorded(r, p, raw)
      /\ UNCHANGED <<pricingAdmin, pricingConfig>>

ObserveSupplyDemand(source, r, supply, demand) ==
  LET ratio == IF demand > 0 THEN (supply * 1000) \div demand ELSE 1000
      limit == pricingConfig.supply_demand
  IN  /\ pricingAdmin # NoOne /\ source = pricingAdmin
      /\ supply >= 0 /\ demand >= 0
      /\ r \in DOMAIN price
      /\ price' = [price EXCEPT ![r].supply_demand = Clamp((ratio - 1000) * 10, -limit, limit)]
      /\ UNCHANGED <<pricingAdmin, pricingConfig, history, accepted>>

PriceNext ==
  /\ \E p \in Player :
       \/ \E c \in Configs : InitPricingConfig(p, c) \/ SetPricingConfig(p, c)
       \/ \E r \in Resource, raw \in RawPrice :
            ObserveFirstPrice(p, r, raw) \/ ObserveOutlier(p, r, raw) \/ ObservePrice(p, r, raw)
       \/ \E r \in Resource, s, d \in Supply : ObserveSupplyDemand(p, r, s, d)
  /\ UNCHANGED <<now, admin, oracleVars, grantVars, mobileVars>>
-----------------------------------------------------------------------------
(* market_oracle.rs *)

InitializeOracle(p, feeds) ==
  /\ feeds # << >>
  /\ admin' = p /\ sources' = feeds
  /\ UNCHANGED <<boardAdmin, oraclePrice, oracleHistory, triggers, disabled>>

\* set_admin of leaderboards.rs, content_tools.rs and pvp_combat.rs.
SetBoardAdmin(p) ==
  /\ boardAdmin = NoOne
  /\ boardAdmin' = p
  /\ UNCHANGED <<admin, sources, oraclePrice, oracleHistory, triggers, disabled>>

\* Mutant: the history is cut before the new price is in it.
BatchUpdateUncut(p, updates) ==
  /\ admin # NoOne /\ p = admin
  /\ Len(updates) \in 1..MaxBatchUpdate
  /\ LET Given(r) == SelectSeq(updates, LAMBDA u : u[1] = r)
         touched == {r \in Resource : Given(r) # << >>}
         Point(u) == [price |-> u[2], at |-> now]
     IN  /\ oraclePrice' = [r \in DOMAIN oraclePrice \cup touched |->
               IF r \in touched THEN Point(Last(Given(r))) ELSE oraclePrice[r]]
         /\ oracleHistory' = [r \in DOMAIN oracleHistory \cup touched |->
               IF r \in touched
               THEN Keep(Get(oracleHistory, r, << >>), OracleHistory)
                      \o [i \in DOMAIN Given(r) |-> Point(Given(r)[i])]
               ELSE oracleHistory[r]]
  /\ UNCHANGED <<admin, boardAdmin, sources, triggers, disabled>>

\* update_resource_price, and batch_update_prices for several prices in order.
BatchUpdatePrices(p, updates) ==
  /\ admin # NoOne /\ p = admin
  /\ Len(updates) \in 1..MaxBatchUpdate
  /\ \A i \in DOMAIN updates : updates[i][2] >= 0
  /\ LET Given(r) == SelectSeq(updates, LAMBDA u : u[1] = r)
         touched == {r \in Resource : Given(r) # << >>}
         Point(u) == [price |-> u[2], at |-> now]
     IN  /\ oraclePrice' = [r \in DOMAIN oraclePrice \cup touched |->
               IF r \in touched THEN Point(Last(Given(r))) ELSE oraclePrice[r]]
         /\ oracleHistory' = [r \in DOMAIN oracleHistory \cup touched |->
               IF r \in touched
               THEN Keep(Get(oracleHistory, r, << >>)
                           \o [i \in DOMAIN Given(r) |-> Point(Given(r)[i])], OracleHistory)
               ELSE oracleHistory[r]]
  /\ UNCHANGED <<admin, boardAdmin, sources, triggers, disabled>>

AddOracleSource(p, source) ==
  /\ admin # NoOne /\ p = admin
  /\ Len(sources) < MaxTriggers
  /\ sources' = Append(sources, source)
  /\ UNCHANGED <<admin, boardAdmin, oraclePrice, oracleHistory, triggers, disabled>>

\* The admin is looked up in persistent storage, where the oracle never puts
\* its own; the id is the ledger's sequence number, here the time.
RegisterPriceTrigger(p, r, at, kind) ==
  /\ boardAdmin # NoOne /\ p = boardAdmin
  /\ at >= 0 /\ Len(triggers) < MaxTriggers
  /\ triggers' = Append(triggers, [id |-> now, resource |-> r, price |-> at, kind |-> kind,
                                   active |-> TRUE])
  /\ UNCHANGED <<admin, boardAdmin, sources, oraclePrice, oracleHistory, disabled>>

\* disable_trigger clears the flag of a copy and stores the list as it was.
DisableTrigger(p, id) ==
  /\ boardAdmin # NoOne /\ p = boardAdmin
  /\ \E i \in DOMAIN triggers : triggers[i].id = id
  /\ disabled' = disabled \cup {id}
  /\ UNCHANGED <<admin, boardAdmin, sources, oraclePrice, oracleHistory, triggers>>

OracleNext ==
  /\ \E p \in Player :
       \/ InitializeOracle(p, <<p>>) \/ SetBoardAdmin(p)
       \/ \E updates \in BoundedSeq(Resource \X OraclePrice, MaxBatchUpdate) :
            BatchUpdatePrices(p, updates)
       \/ \E s \in Player : AddOracleSource(p, s)
       \/ \E r \in Resource, at \in OraclePrice, kind \in {"above", "below", "equal"} :
            RegisterPriceTrigger(p, r, at, kind)
       \/ \E id \in 0..MaxTime : DisableTrigger(p, id)
  /\ UNCHANGED <<now, priceVars, grantVars, mobileVars>>
-----------------------------------------------------------------------------
(* gas_sponsor.rs *)

\* Every call starts the fund and the day again.
InitializeSponsor(p, amount) ==
  /\ amount > 0
  /\ admin' = p /\ fund' = amount /\ dailyCount' = 0 /\ lastReset' = now
  /\ sponsorConfig' = DefaultSponsorConfig
  /\ funded' = amount /\ paidOut' = 0 /\ granted' = 0
  /\ UNCHANGED <<sponsored, lifetime, userDaily>>

\* reset_daily_counter_if_needed, and the same for one player.
NewDay == now >= lastReset + Day
DailyCount == IF NewDay THEN 0 ELSE dailyCount
UserDaily(p) == Get(userDaily, p, [count |-> 0, reset |-> 0])
UserDailyToday(p) ==
  IF now >= UserDaily(p).reset + Day THEN [count |-> 0, reset |-> now] ELSE UserDaily(p)

\* Mutant: the count of the day is not started again.
SponsorWithoutReset(p) ==
  LET c == sponsorConfig
  IN  /\ p \notin sponsored /\ funded > 0
      /\ DailyCount < c.daily_cap /\ fund >= c.amount
      /\ fund' = fund - c.amount /\ sponsored' = sponsored \cup {p}
      /\ dailyCount' = dailyCount + 1
      /\ lastReset' = IF NewDay THEN now ELSE lastReset
      /\ lifetime' = With(lifetime, p, Get(lifetime, p, 0) + c.amount)
      /\ userDaily' = userDaily
      /\ paidOut' = paidOut + c.amount
      /\ granted' = IF NewDay THEN 1 ELSE granted + 1
      /\ UNCHANGED <<admin, sponsorConfig, funded>>

\* A profile counts as verified unless something has said otherwise.
SponsorFirstScan(p) ==
  LET c == sponsorConfig
      day == IF c.per_user_daily_cap > 0 THEN UserDailyToday(p) ELSE UserDaily(p)
  IN  /\ p \notin sponsored
      /\ funded > 0
      /\ DailyCount < c.daily_cap
      /\ c.per_user_cap > 0 => Get(lifetime, p, 0) + c.amount <= c.per_user_cap
      /\ c.per_user_daily_cap > 0 => day.count < c.per_user_daily_cap
      /\ fund >= c.amount
      /\ fund' = fund - c.amount
      /\ sponsored' = sponsored \cup {p}
      /\ dailyCount' = DailyCount + 1
      /\ lastReset' = IF NewDay THEN now ELSE lastReset
      /\ lifetime' = With(lifetime, p, Get(lifetime, p, 0) + c.amount)
      /\ userDaily' = With(userDaily, p, [day EXCEPT !.count = @ + 1])
      /\ paidOut' = paidOut + c.amount
      /\ granted' = IF NewDay THEN 1 ELSE granted + 1
      /\ UNCHANGED <<admin, sponsorConfig, funded>>

ClaimSponsorshipFund(p, amount) ==
  /\ admin # NoOne /\ p = admin
  /\ amount > 0 /\ funded + amount <= MaxFunded
  /\ fund' = fund + amount /\ funded' = funded + amount
  /\ UNCHANGED <<admin, dailyCount, lastReset, sponsored, sponsorConfig, lifetime,
                 userDaily, paidOut, granted>>

UpdateSponsorConfig(p, c) ==
  /\ admin # NoOne /\ p = admin
  /\ c.amount > 0 /\ c.daily_cap # 0
  /\ sponsorConfig' = c
  /\ UNCHANGED <<admin, fund, dailyCount, lastReset, sponsored, lifetime, userDaily, funded,
                 paidOut, granted>>

\* get_daily_count and get_user_daily_count start a new day as they answer.
GetDailyCount ==
  /\ NewDay
  /\ dailyCount' = 0 /\ lastReset' = now /\ granted' = 0
  /\ UNCHANGED <<admin, fund, sponsored, sponsorConfig, lifetime, userDaily, funded, paidOut>>

GetUserDailyCount(p) ==
  /\ UserDailyToday(p) # UserDaily(p)
  /\ userDaily' = With(userDaily, p, UserDailyToday(p))
  /\ UNCHANGED <<admin, fund, dailyCount, lastReset, sponsored, sponsorConfig, lifetime, funded,
                 paidOut, granted>>

GrantNext ==
  /\ \E p \in Player :
       \/ \E f \in Fund : InitializeSponsor(p, f) \/ ClaimSponsorshipFund(p, f)
       \/ SponsorFirstScan(p) \/ GetUserDailyCount(p)
       \/ \E c \in SponsorConfigs : UpdateSponsorConfig(p, c)
       \/ GetDailyCount
  /\ UNCHANGED <<now, priceVars, oracleVars, mobileVars>>

CreateMobileSession(p, duration) ==
  /\ session' = With(session, p, [expires |-> now + duration, used |-> 0,
                                  max |-> sponsorConfig.per_user_daily_cap])
  /\ uses' = With(uses, p, << >>)
  /\ UNCHANGED fraudScore

\* Mutant: a session is good for the moment it expires.
UseSessionLate(p) ==
  /\ p \in DOMAIN session /\ now <= session[p].expires
  /\ session[p].used < session[p].max
  /\ session' = [session EXCEPT ![p].used = @ + 1]
  /\ uses' = [uses EXCEPT ![p] = Append(@, [at |-> now, until |-> session[p].expires])]
  /\ UNCHANGED fraudScore

UseMobileSession(p) ==
  /\ p \in DOMAIN session
  /\ now < session[p].expires
  /\ session[p].used < session[p].max
  /\ session' = [session EXCEPT ![p].used = @ + 1]
  /\ uses' = [uses EXCEPT ![p] = Append(@, [at |-> now, until |-> session[p].expires])]
  /\ UNCHANGED fraudScore

RevokeMobileSession(p) ==
  /\ p \in DOMAIN session
  /\ session' = [session EXCEPT ![p].expires = 0]
  /\ UNCHANGED <<uses, fraudScore>>

\* The score is read as i32 and stored as u32, which the SDK reads back only as
\* u32, so a player whose score was stored cannot be scored again.
UpdateFraudScore(p, delta) ==
  LET score == Clamp(delta, 0, 100)
  IN  /\ p \notin DOMAIN fraudScore
      /\ score < 80
      /\ fraudScore' = With(fraudScore, p, score)
      /\ UNCHANGED <<session, uses>>

ResetFraudScore(p, q) ==
  /\ admin # NoOne /\ p = admin
  /\ fraudScore' = With(fraudScore, q, 0)
  /\ UNCHANGED <<session, uses>>

MobileNext ==
  /\ \/ /\ funded = 0
        /\ \E p \in Player, f \in Fund : InitializeSponsor(p, f)
        /\ UNCHANGED mobileVars
     \/ /\ funded > 0
        /\ \E p \in Player :
             \/ \E d \in Duration : CreateMobileSession(p, d)
             \/ UseMobileSession(p) \/ RevokeMobileSession(p)
             \/ \E d \in FraudDelta : UpdateFraudScore(p, d)
             \/ \E q \in Player : ResetFraudScore(p, q)
        /\ UNCHANGED <<admin, grantVars>>
  /\ UNCHANGED <<now, priceVars, oracleVars>>

Next == Tick \/ PriceNext \/ OracleNext \/ GrantNext \/ MobileNext

Spec == Init /\ [][Next]_vars
-----------------------------------------------------------------------------
(* Properties *)

\* Prices, funds and counts are natural numbers.
TypeOK ==
  /\ \A r \in DOMAIN price : price[r].sma > 0 /\ price[r].volatility >= 0
  /\ fund >= 0 /\ dailyCount >= 0 /\ ValidateConfig(pricingConfig)
  /\ \A p \in DOMAIN session : session[p].used <= session[p].max

\* However prints, configurations and supply come and go: the average stays
\* between the lowest and the highest print accepted; volatility stays within
\* the widest deviation a configuration may accept; and the published price
\* keeps within the maximum band around the average and above zero
\* (dynamic_pricing.rs ema_step, ewma_bps, price_from_state).
PricesStayInBand ==
  \A r \in DOMAIN price :
    LET p == price[r]
        width == (p.sma * pricingConfig.max_band) \div 10000
    IN  /\ p.sma \in Min(accepted[r]) .. Max(accepted[r])
        /\ p.volatility <= 20000
        /\ ListingPrice(r) \in Most(1, p.sma - width) .. (p.sma + width)
        /\ Len(history[r]) = Least(p.observations, MaxHistoryEntries)
        /\ \A i \in 1..(Len(history[r]) - 1) : history[r][i].at <= history[r][i + 1].at


\* The latest price is the end of the history, which is short and in order,
\* batches included (market_oracle.rs batch_update_prices).
OracleAgrees ==
  \A r \in DOMAIN oraclePrice :
    /\ Last(oracleHistory[r]) = oraclePrice[r] /\ Len(oracleHistory[r]) <= OracleHistory
    /\ \A i \in 1..(Len(oracleHistory[r]) - 1) : oracleHistory[r][i].at <= oracleHistory[r][i + 1].at

\* Since the sponsor was last initialized, what came in is in the fund or was
\* granted; a player is sponsored at most once, for an amount of some
\* configuration; the counter is the number of grants since its last reset
\* and never above the largest daily cap (gas_sponsor.rs sponsor_first_scan).
SponsorBooksAgree ==
  /\ fund + paidOut = funded
  /\ DOMAIN lifetime = sponsored
  /\ \A p \in sponsored : \E c \in SponsorConfigs \cup {DefaultSponsorConfig} : lifetime[p] = c.amount
  /\ dailyCount = granted
  /\ dailyCount <= Max({c.daily_cap : c \in SponsorConfigs \cup {DefaultSponsorConfig}})

\* A mobile session is used only before it expires, never after it was
\* revoked, and at most as often as it allows (gas_sponsor.rs use_mobile_session).
SessionsUsedInTime ==
  \A p \in DOMAIN session :
    /\ Len(uses[p]) = session[p].used
    /\ \A i \in DOMAIN uses[p] : uses[p][i].at < uses[p][i].until
=============================================================================
