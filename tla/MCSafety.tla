------------------------------ MODULE MCSafety ------------------------------
(***************************************************************************)
(* The contract's safety switches and limits.  They share the ledger's     *)
(* clock and no other state, and no entry point of one calls another, so a *)
(* behaviour exercises one of them, `focus`, while the others stay as      *)
(* deployed:                                                               *)
(*   pause    the emergency pause                                          *)
(*   vault    the time locks of the treasure vaults                        *)
(*   guard    the reentrancy lock                                          *)
(*   session  the session limit                                            *)
(*   gather   gathering while an admin and governance move the anti-whale  *)
(*            settings                                                     *)
(*   caps     trades, guild contributions and mints over two days          *)
(*   boards   scores of three players on boards of two entries             *)
(*   rate     one rate-limited caller while an admin changes the limit     *)
(*   steady   two callers under the default limit                          *)
(*   roles    one more role granted, delegated and revoked                 *)
(*   signers  two proposals and two lists of signers                       *)
(***************************************************************************)
EXTENDS EmergencyControls, Sequences, TLC

CONSTANTS Guarded, Plain,          \* entry points with and without with_guard
          alice, bob, carol, adm

VARIABLES focus,
          vaults, opened, paid,
          lock, frames, budget, result,
          sessions, playerCount,
          day, admin, stored, gov, dailyCap, exempt, gathered, volume, traded, guild,
          ops, activity, boards, impact, credited, feesPaid, best,
          clock, config, entry, calls,
          roleAdmin, members, permissions, knownRoles, parent, delegations, emergency,
          multisig, proposals, approvals

Vault == INSTANCE TreasureVault WITH
  Owner <- Address, MinLock <- 2, BonusBps <- 1, BpsDenom <- 3,
  MaxU64 <- 7, MaxVaults <- 2

Guard == INSTANCE ReentrancyGuard WITH MaxCalls <- 4

Session == INSTANCE SessionManager WITH
  Player <- Address, SessionTtl <- 2, MaxPerPlayer <- 2, MaxSessions <- 4

Bands == <<[floor |-> 0, bps |-> 0], [floor |-> 2, bps |-> 5000]>>
Flat == [floor |-> 3, bps |-> 5000]
Points == [Scan |-> 1, Mint |-> 3, Trade |-> 2]

Whales(width, cap, dedicated, hardcore) ==
  [tier_width |-> width, caps |-> [k \in {"Scan", "Mint", "Trade"} |-> cap],
   guild_daily_cap |-> cap, dedicated_threshold |-> dedicated, hardcore_threshold |-> hardcore]

WhaleDefaults == Whales(2, 2, 1, 3)
WhaleConfigs == {Whales(3, 1, 2, 4), Whales(2, 1, 3, 3), Whales(0, 1, 1, 2)}

Gather == INSTANCE AntiWhale WITH
  User <- {alice}, Admin <- {adm}, Amount <- {1, 3}, Moved <- {}, Score <- {},
  GovSets <- {"width", "dedic", "hard"}, GovValue <- {4}, Configs <- WhaleConfigs,
  Defaults <- WhaleDefaults, DailyCaps <- <<2, 3>>, PointsPer <- Points,
  UnitsPerPoint <- 2, MaxBoard <- 2, MaxDay <- 0, MaxUnits <- 8, MaxActivity <- 4,
  MaxU64 <- 15, FeeBands <- Bands, FlatFee <- Flat, paid <- feesPaid

Caps == INSTANCE AntiWhale WITH
  User <- {alice}, Admin <- {adm}, Amount <- {}, Moved <- {1, 2}, Score <- {},
  GovSets <- {}, GovValue <- {}, Configs <- WhaleConfigs,
  Defaults <- WhaleDefaults, DailyCaps <- <<2, 3>>, PointsPer <- Points,
  UnitsPerPoint <- 2, MaxBoard <- 2, MaxDay <- 1, MaxUnits <- 4, MaxActivity <- 2,
  MaxU64 <- 15, FeeBands <- Bands, FlatFee <- Flat, paid <- feesPaid

Boards == INSTANCE AntiWhale WITH
  User <- {alice, bob, carol}, Admin <- {}, Amount <- {}, Moved <- {}, Score <- {1, 2, 3},
  GovSets <- {}, GovValue <- {}, Configs <- {},
  Defaults <- WhaleDefaults, DailyCaps <- <<2, 3>>, PointsPer <- Points,
  UnitsPerPoint <- 2, MaxBoard <- 2, MaxDay <- 0, MaxUnits <- 8, MaxActivity <- 1,
  MaxU64 <- 15, FeeBands <- Bands, FlatFee <- Flat, paid <- feesPaid

Limit(max, seconds) == [max_calls |-> max, window_seconds |-> seconds]

Rate == INSTANCE RateLimiter WITH
  Caller <- {alice}, Default <- Limit(2, 3), MinTtl <- 4,
  Configs <- {Limit(1, 3), Limit(2, 4), Limit(0, 2), Limit(2, 0)},
  MaxTime <- 9, MaxCalls <- 8, now <- clock

Steady == INSTANCE RateLimiter WITH
  Caller <- {alice, bob}, Default <- Limit(2, 3), MinTtl <- 4, Configs <- {},
  MaxTime <- 7, MaxCalls <- 4, now <- clock

Grants == {<<"readonly", "read">>, <<"operator", "pause">>, <<"admin", "manage">>}
Hierarchy == "admin" :> "operator" @@ "operator" :> "readonly"

Roles == INSTANCE AccessControl WITH
  Account <- {alice, bob}, Role <- {"operator"}, Action <- {"scan"}, Expiry <- {0, 1, 2},
  Batch <- {{alice, bob}}, BatchGrantLimit <- 2, Switch <- BOOLEAN,
  TemplateGrants <- Grants, TemplateParent <- Hierarchy, SignerLists <- {},
  Required <- {}, Timelock <- {}, Operations <- {}, MaxProposals <- 0, MaxTime <- 2,
  now <- clock, admin <- roleAdmin

MultiSig(required, enabled) ==
  [required |-> required, timelock |-> 0, enabled |-> enabled, signers |-> << >>]

AdminOperations ==
  {[kind |-> "GrantRole", role |-> "pilot", account |-> bob, expiry |-> 1],
   [kind |-> "RevokeRole", role |-> "pilot", account |-> bob],
   [kind |-> "GrantPermission", role |-> "pilot", action |-> "scan"],
   [kind |-> "RevokePermission", role |-> "pilot", action |-> "scan"],
   [kind |-> "TransferAdmin", account |-> bob],
   [kind |-> "UpdateMultiSig", config |-> MultiSig(1, FALSE)],
   [kind |-> "UpdateMultiSig", config |-> MultiSig(3, TRUE)]}

Signers == INSTANCE AccessControl WITH
  Account <- {alice, bob}, Role <- {}, Action <- {}, Expiry <- {}, Batch <- {},
  BatchGrantLimit <- 2, Switch <- {}, TemplateGrants <- Grants, TemplateParent <- Hierarchy,
  SignerLists <- {<<alice, bob>>, <<bob, bob>>}, Required <- {1, 2}, Timelock <- {1},
  Operations <- AdminOperations, MaxProposals <- 2, MaxTime <- 1,
  now <- clock, admin <- roleAdmin

pauseVars == <<admins, paused, unpauseAt, pausedSince>>
vaultVars == <<vaults, opened, paid>>
guardVars == <<lock, frames, budget, result>>
sessionVars == <<sessions, playerCount>>
whaleVars == <<day, admin, stored, gov, dailyCap, exempt, gathered, volume, traded, guild,
               ops, activity, boards, impact, credited, feesPaid, best>>
limitVars == <<config, entry, calls>>
accessVars == <<roleAdmin, members, permissions, knownRoles, parent, delegations, emergency,
                multisig, proposals, approvals>>

switches == {"pause", "vault", "guard", "session"}

SafetyInit ==
  /\ Init /\ Vault!Init /\ Guard!Init /\ Session!Init /\ Roles!AccessInit
  /\ \/ focus \in switches \cup {"gather", "rate", "roles", "signers"} /\ Gather!Init /\ Rate!Init
     \/ focus = "caps" /\ Caps!Init /\ Rate!Init
     \/ focus = "boards" /\ Boards!Init /\ Rate!Init
     \/ focus = "steady" /\ Gather!Init /\ Steady!Init

SwitchesNext ==
  \/ focus = "pause" /\ Next /\ UNCHANGED <<vaultVars, guardVars, sessionVars>>
  \/ focus = "vault" /\ Vault!Next /\ UNCHANGED <<pauseVars, guardVars, sessionVars>>
  \/ focus = "guard" /\ Guard!Next /\ UNCHANGED <<now, pauseVars, vaultVars, sessionVars>>
  \/ focus = "session" /\ Session!Next /\ UNCHANGED <<pauseVars, vaultVars, guardVars>>

LimitsNext ==
  \/ focus = "gather" /\ Gather!Next /\ UNCHANGED <<clock, limitVars>>
  \/ focus = "caps" /\ Caps!Next /\ UNCHANGED <<clock, limitVars>>
  \/ focus = "boards" /\ Boards!Next /\ UNCHANGED <<clock, limitVars>>
  \/ focus = "rate" /\ Rate!Next /\ UNCHANGED whaleVars
  \/ focus = "steady" /\ Steady!Next /\ UNCHANGED whaleVars

AccessNext ==
  \/ focus = "roles" /\ Roles!AccessNext
  \/ focus = "signers" /\ Signers!AccessNext

switchVars == <<now, pauseVars, vaultVars, guardVars, sessionVars>>

SafetyNext ==
  /\ \/ SwitchesNext /\ UNCHANGED <<whaleVars, clock, limitVars, accessVars>>
     \/ LimitsNext /\ UNCHANGED <<switchVars, accessVars>>
     \/ AccessNext /\ UNCHANGED <<switchVars, whaleVars, limitVars>>
  /\ UNCHANGED focus

SafetySpec ==
  /\ SafetyInit
  /\ [][SafetyNext]_<<focus, switchVars, whaleVars, clock, limitVars, accessVars>>
  /\ Guard!Fairness
-----------------------------------------------------------------------------
\* claim_treasure: a vault pays once, and only after its lock.
PaidOnceWhenMature ==
  focus = "vault" => Vault!TypeOK /\ Vault!PaidAtMostOnce /\ Vault!LockedUntilMature

\* with_guard: never two guarded sections at once.
OneGuardedSection == focus = "guard" => Guard!TypeOK /\ Guard!OneGuardedSection

\* with_guard: a lock that is taken is released.
LockReleased == Guard!LockReleased

\* start_session, expire_session: the stored count is that of active sessions.
CountsActiveSessions == focus = "session" => Session!TypeOK /\ Session!CountsActiveSessions

\* Whatever the admin and governance stored, the settings in force pass the
\* checks of set_anti_whale_config (effective_config).  Over a day many small
\* harvests credit no more than one would, and trading in pieces costs no more
\* than at once (diminishing_returns, progressive_trade_fee).  A full board
\* holds the best scores recorded for it (record_tier_score).
WhaleLimitsHold ==
  /\ focus = "gather" =>
       Gather!TypeOK /\ Gather!EffectiveConfigIsValid /\ Gather!SplittingNeverPays
  /\ focus = "caps" => Caps!TypeOK /\ Caps!SplitTradesCostNoMore
  /\ focus = "boards" => Boards!TypeOK /\ Boards!BoardHoldsTheBest


\* grant_role, delegate_role, approve_proposal, execute_proposal: every role that
\* anyone holds is one check_permission looks at; the threshold is met by distinct
\* signers, and what was executed had waited.  pause, schedule_unpause: an
\* unpause is scheduled only in a pause.
AccessAccounted ==
  /\ focus = "pause" => TypeOK /\ ScheduleBelongsToPause
  /\ focus = "roles" => Roles!AccessTypeOK /\ Roles!HeldRolesAreKnown /\ Roles!ApprovalsCounted
  /\ focus = "signers" => Signers!AccessTypeOK /\ Signers!HeldRolesAreKnown /\ Signers!ApprovalsCounted
=============================================================================
