----------------------------- MODULE RateLimiter -----------------------------
(***************************************************************************)
(* src/rate_limiter.rs: a fixed window per caller and operation, kept in   *)
(* temporary storage, for one operation. The ledger deletes a temporary    *)
(* entry MinTtl seconds after it was created; nothing extends it.          *)
(***************************************************************************)
EXTENDS Naturals, Sequences, FiniteSets, SequencesExt

CONSTANTS Caller,
          Default,    \* the operation's default [max_calls, window_seconds]
          Configs,    \* configurations an admin tries to store
          MinTtl,     \* external: lifetime of a temporary entry
          MaxTime,    \* bound: ledger time
          MaxCalls    \* bound: calls that succeed, for each caller

VARIABLES now,
          config,  \* RateLimitKey::Config
          entry,   \* RateLimitKey::Entry, None when absent
          calls    \* history: times of each caller's successful calls

vars == <<now, config, entry, calls>>

None == [call_count |-> 0, window_start |-> 0, created |-> MaxTime + 1]
Absent(e) == e = None

Init ==
  /\ now = 0
  /\ config = Default
  /\ entry = [c \in Caller |-> None]
  /\ calls = [c \in Caller |-> << >>]

\* Ledger time passes; entries past their lifetime are gone.
Tick ==
  /\ now < MaxTime
  /\ now' = now + 1
  /\ entry' = [c \in Caller |-> IF ~Absent(entry[c]) /\ now' >= entry[c].created + MinTtl
                                THEN None ELSE entry[c]]
  /\ UNCHANGED <<config, calls>>


\* The window a call at this moment falls in.
WindowState(caller) ==
  LET e == entry[caller]
  IN  IF Absent(e) THEN [call_count |-> 0, window_start |-> now, created |-> now]
      ELSE IF now >= e.window_start + config.window_seconds
      THEN [e EXCEPT !.call_count = 0, !.window_start = now]
      ELSE e

\* check_rate_limit
CheckRateLimit(caller) ==
  LET st == WindowState(caller)
  IN  /\ Len(calls[caller]) < MaxCalls
      /\ st.call_count < config.max_calls
      /\ entry' = [entry EXCEPT ![caller] = [st EXCEPT !.call_count = @ + 1]]
      /\ calls' = [calls EXCEPT ![caller] = Append(@, now)]
      /\ UNCHANGED <<now, config>>

\* set_rate_limit_config
SetRateLimitConfig(c) ==
  /\ c.max_calls # 0 /\ c.window_seconds # 0
  /\ config' = c
  /\ UNCHANGED <<now, entry, calls>>

Next ==
  \/ Tick
  \/ \E c \in Caller : CheckRateLimit(c)
  \/ \E c \in Configs : SetRateLimitConfig(c)

Spec == Init /\ [][Next]_vars

Limits == {c \in Configs \cup {Default} : c.max_calls # 0 /\ c.window_seconds # 0}
MostCalls == Max({c.max_calls : c \in Limits})
Shortest == Min({c.window_seconds : c \in Limits})

\* A stored count is never above the largest limit there was, and its window
\* never starts in the future (check_rate_limit).
TypeOK ==
  /\ config \in Limits
  /\ \A c \in Caller : Absent(entry[c])
                         \/ (entry[c].call_count \in 1 .. MostCalls /\ entry[c].window_start <= now)

CallsWithin(caller, from, length) ==
  Cardinality({i \in DOMAIN calls[caller] : calls[caller][i] \in from .. from + length - 1})

\* Windows do not slide, and an entry may be deleted in the middle of one; but
\* while entries outlive a window, a stretch as long as the shortest window
\* meets at most one rollover and one deletion, so it never holds more than
\* three windows' calls, however calls, time and reconfigurations interleave
\* (check_rate_limit).
AtMostThreeWindows ==
  \A c \in Caller, t \in 0 .. now : CallsWithin(c, t, Shortest) <= 3 * MostCalls

\* From the call that opens a window, max_calls calls succeed until the window
\* is over: "TTL = window_seconds + 1 ledger" (src/rate_limiter.rs:208).
\* Stated without reconfigurations.
WindowLimit ==
  Configs = {} =>
    \A c \in Caller :
      calls[c] # << >> => CallsWithin(c, calls[c][1], Default.window_seconds) <= Default.max_calls
=============================================================================
