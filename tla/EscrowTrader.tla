---------------------------- MODULE EscrowTrader ----------------------------
(***************************************************************************)
(* src/escrow_trader.rs: two traders agree on a swap, both confirm it and  *)
(* anybody settles it before it expires.  The assets are only described in *)
(* the escrow, no balance moves, so they are left out.  The confirmation   *)
(* flags of the escrow and the EscrowConfirmation keys are separate state, *)
(* and so are the escrows and the per-trader counters that cap them.       *)
(***************************************************************************)
EXTENDS Naturals, FiniteSets, Functions, TLAPS

CONSTANTS Trader,        \* addresses
          EscrowExpiry,  \* ESCROW_EXPIRY
          MaxConcurrent, \* MAX_CONCURRENT_ESCROWS
          MaxEscrows,    \* bound: escrows ever initiated
          MaxTime        \* bound: ledger timestamp

VARIABLES escrows,       \* EscrowKey::EscrowData, a partial function of the id
          counter,       \* EscrowKey::EscrowCounter
          count,         \* EscrowKey::PlayerEscrowCount (absent reads as 0)
          confirmations, \* EscrowKey::EscrowConfirmation, the pairs that are set
          now

vars == <<escrows, counter, count, confirmations, now>>

EscrowId == 1 .. MaxEscrows
Time == 0 .. MaxTime

Escrow == [trader_a : Trader, trader_b : Trader, confirmed_a : BOOLEAN,
           confirmed_b : BOOLEAN, completed : BOOLEAN, expires_at : Nat]

Init ==
  /\ escrows = << >>
  /\ counter = 0
  /\ count = [p \in Trader |-> 0]
  /\ confirmations = {}
  /\ now = 0

\* saturating_sub(1); a missing counter is read as 1, so it too ends at 0.
Decremented(counts, p) == [counts EXCEPT ![p] = IF @ = 0 THEN 0 ELSE @ - 1]

Participants(e) == {e.trader_a, e.trader_b}

NewEscrow(a, b) ==
  [trader_a |-> a, trader_b |-> b, confirmed_a |-> TRUE, confirmed_b |-> FALSE,
   completed |-> FALSE, expires_at |-> now + EscrowExpiry]

\* initiate_escrow: only the initiator's counter is read and incremented, and
\* the two traders may be the same address.
InitiateEscrow(a, b) ==
  LET id == counter + 1
  IN  /\ id \in EscrowId
      /\ count[a] < MaxConcurrent
      /\ counter' = id
      /\ escrows' = [i \in DOMAIN escrows \cup {id} |->
                       IF i = id THEN NewEscrow(a, b) ELSE escrows[i]]
      /\ count' = [count EXCEPT ![a] = @ + 1]
      /\ confirmations' = confirmations \cup {<<id, a>>}
      /\ UNCHANGED now

\* Mutant: the participant check is missing.
ConfirmEscrowByAnyone(id, p) ==
  /\ id \in DOMAIN escrows
  /\ now <= escrows[id].expires_at
  /\ <<id, p>> \notin confirmations
  /\ escrows' = IF p = escrows[id].trader_a
                THEN [escrows EXCEPT ![id].confirmed_a = TRUE]
                ELSE [escrows EXCEPT ![id].confirmed_b = TRUE]
  /\ confirmations' = confirmations \cup {<<id, p>>}
  /\ UNCHANGED <<counter, count, now>>

\* confirm_escrow
ConfirmEscrow(id, p) ==
  /\ id \in DOMAIN escrows
  /\ now <= escrows[id].expires_at
  /\ p \in Participants(escrows[id])
  /\ <<id, p>> \notin confirmations
  /\ escrows' = IF p = escrows[id].trader_a
                THEN [escrows EXCEPT ![id].confirmed_a = TRUE]
                ELSE [escrows EXCEPT ![id].confirmed_b = TRUE]
  /\ confirmations' = confirmations \cup {<<id, p>>}
  /\ UNCHANGED <<counter, count, now>>

\* complete_escrow: no authorisation; both counters are decremented although
\* only trader_a's was incremented.
CompleteEscrow(id) ==
  /\ id \in DOMAIN escrows
  /\ now <= escrows[id].expires_at
  /\ escrows[id].confirmed_a /\ escrows[id].confirmed_b
  /\ ~escrows[id].completed
  /\ escrows' = [escrows EXCEPT ![id].completed = TRUE]
  /\ count' = Decremented(Decremented(count, escrows[id].trader_a),
                          escrows[id].trader_b)
  /\ UNCHANGED <<counter, confirmations, now>>

\* cancel_escrow: at any time before completion; the canceller's counter is
\* decremented, the confirmation keys stay.
CancelEscrow(id, p) ==
  /\ id \in DOMAIN escrows
  /\ p \in Participants(escrows[id])
  /\ ~escrows[id].completed
  /\ escrows' = Restrict(escrows, DOMAIN escrows \ {id})
  /\ count' = Decremented(count, p)
  /\ UNCHANGED <<counter, confirmations, now>>

Tick ==
  /\ now < MaxTime
  /\ now' = now + 1
  /\ UNCHANGED <<escrows, counter, count, confirmations>>

Next ==
  \/ \E a, b \in Trader : InitiateEscrow(a, b)
  \/ \E id \in EscrowId : \/ CompleteEscrow(id)
                          \/ \E p \in Trader : \/ ConfirmEscrow(id, p)
                                               \/ CancelEscrow(id, p)
  \/ Tick

Spec == Init /\ [][Next]_vars
-----------------------------------------------------------------------------
\* Type invariant.
TypeOK ==
  /\ DOMAIN escrows \subseteq EscrowId
  /\ \A id \in DOMAIN escrows : escrows[id] \in Escrow
  /\ counter \in 0 .. MaxEscrows
  /\ count \in [Trader -> 0 .. MaxConcurrent]
  /\ confirmations \subseteq EscrowId \X Trader
  /\ now \in Time

\* A settled escrow was confirmed by each of two distinct traders for that very
\* escrow: the EscrowConfirmation keys of cancelled escrows stay in storage, so
\* neither they nor a self-trade may ever stand in for a consent.
SettledByBothTraders ==
  \A id \in DOMAIN escrows :
    escrows[id].completed =>
      /\ escrows[id].trader_a # escrows[id].trader_b
      /\ \A p \in Participants(escrows[id]) : <<id, p>> \in confirmations

\* A trader who has not confirmed an open escrow yet is never locked out of
\* doing so: the key that makes confirm_escrow fail with AlreadyConfirmed is set
\* exactly when the trader's flag is (a self-trade, whose second flag can never
\* be set, excepted).
ConfirmationsMatchFlags ==
  \A id \in DOMAIN escrows :
    LET e == escrows[id]
    IN  e.trader_a # e.trader_b =>
          /\ e.confirmed_a <=> <<id, e.trader_a>> \in confirmations
          /\ e.confirmed_b <=> <<id, e.trader_b>> \in confirmations

OpenEscrowsOf(p) ==
  {id \in DOMAIN escrows : escrows[id].trader_a = p /\ ~escrows[id].completed}

\* MAX_CONCURRENT_ESCROWS: a trader never has more open escrows of their own
\* than the limit initiate_escrow enforces with MaxEscrowsReached.
OpenEscrowsWithinLimit ==
  \A p \in Trader : Cardinality(OpenEscrowsOf(p)) <= MaxConcurrent
-----------------------------------------------------------------------------
\* What the flags of an escrow say: they are set with their keys, the second one
\* only for distinct traders, and settling needs both.
Consented(id, e, keys) ==
  /\ e.confirmed_a /\ <<id, e.trader_a>> \in keys
  /\ e.confirmed_b => e.trader_a # e.trader_b
  /\ e.trader_a # e.trader_b => (e.confirmed_b <=> <<id, e.trader_b>> \in keys)
  /\ e.completed => e.confirmed_b

\* The inductive invariant.  Besides the flags: no key exists for an id that was
\* not given out yet, or else a new escrow could start with a key and no flag.
ConsentInv ==
  /\ counter \in Nat /\ now \in Nat
  /\ \A id, p : <<id, p>> \in confirmations => id \in Nat /\ id <= counter
  /\ \A id \in DOMAIN escrows :
       /\ id \in Nat /\ id <= counter
       /\ escrows[id] \in Escrow /\ Consented(id, escrows[id], confirmations)

\* Setting the second flag with its key keeps the flags in order.
LEMMA ConsentGiven ==
  ASSUME NEW id, NEW e \in Escrow, NEW keys, Consented(id, e, keys), e.trader_b # e.trader_a
  PROVE  LET f == [e EXCEPT !.confirmed_b = TRUE]
         IN  f \in Escrow /\ Consented(id, f, keys \cup {<<id, e.trader_b>>})
  BY DEF Consented, Escrow

\* So does settling an escrow that has both.
LEMMA ConsentUsed ==
  ASSUME NEW id, NEW e \in Escrow, NEW keys, Consented(id, e, keys), e.confirmed_b
  PROVE  LET f == [e EXCEPT !.completed = TRUE]
         IN  f \in Escrow /\ Consented(id, f, keys)
  BY DEF Consented, Escrow

\* Nothing is open at the start.
LEMMA ConsentInit == Init => ConsentInv
  BY DEF Init, ConsentInv

\* initiate_escrow gives out an id without keys and sets the initiator's.
LEMMA ConsentInitiate ==
  ASSUME EscrowExpiry \in Nat, ConsentInv, NEW a \in Trader, NEW b \in Trader,
         InitiateEscrow(a, b)
  PROVE  ConsentInv'
<1> DEFINE new == counter + 1
           e == NewEscrow(a, b)
<1>1. /\ counter' = new /\ now' = now /\ new \in Nat
      /\ DOMAIN escrows' = DOMAIN escrows \cup {new}
      /\ escrows'[new] = e
      /\ \A i \in DOMAIN escrows : escrows'[i] = escrows[i] /\ i # new
      /\ confirmations' = confirmations \cup {<<new, a>>}
  BY DEF InitiateEscrow, ConsentInv
<1>2. /\ e \in Escrow
      /\ e.confirmed_a /\ ~e.confirmed_b /\ ~e.completed /\ e.trader_a = a /\ e.trader_b = b
  BY DEF NewEscrow, Escrow, ConsentInv
<1>3. \A p : <<new, p>> \notin confirmations
  BY DEF ConsentInv
<1>4. Consented(new, e, confirmations')
  <2> HIDE DEF e
  <2> QED
    BY <1>1, <1>2, <1>3 DEF Consented
<1>5. ASSUME NEW i \in DOMAIN escrows PROVE Consented(i, escrows[i], confirmations')
  BY <1>1 DEF ConsentInv, Consented
<1>6. \A id, p : <<id, p>> \in confirmations' => id \in Nat /\ id <= counter'
  BY <1>1 DEF ConsentInv
<1> QED
  <2> HIDE DEF e
  <2> QED
    BY <1>1, <1>2, <1>4, <1>5, <1>6 DEF ConsentInv

\* confirm_escrow by somebody who has no key: it can only be the other trader.
LEMMA ConsentConfirm ==
  ASSUME ConsentInv, NEW id \in EscrowId, NEW p \in Trader, ConfirmEscrow(id, p)
  PROVE  ConsentInv'
<1>1. /\ p = escrows[id].trader_b /\ p # escrows[id].trader_a
      /\ id \in DOMAIN escrows /\ escrows[id] \in Escrow
  BY DEF ConfirmEscrow, Participants, ConsentInv, Consented
<1>2. /\ escrows' = [escrows EXCEPT ![id].confirmed_b = TRUE]
      /\ confirmations' = confirmations \cup {<<id, p>>}
      /\ counter' = counter /\ now' = now
  BY <1>1 DEF ConfirmEscrow
<1>3. /\ DOMAIN escrows' = DOMAIN escrows
      /\ \A i \in DOMAIN escrows : i # id => escrows'[i] = escrows[i]
      /\ escrows'[id] = [escrows[id] EXCEPT !.confirmed_b = TRUE]
  BY <1>1, <1>2
<1>4. Consented(id, escrows[id], confirmations)
  BY <1>1 DEF ConsentInv
<1>5. escrows'[id] \in Escrow /\ Consented(id, escrows'[id], confirmations')
  BY <1>1, <1>2, <1>3, <1>4, ConsentGiven
<1>6. ASSUME NEW i \in DOMAIN escrows, i # id PROVE Consented(i, escrows[i], confirmations')
  BY <1>2, <1>6 DEF ConsentInv, Consented
<1>7. \A k, q : <<k, q>> \in confirmations' => k \in Nat /\ k <= counter'
  BY <1>1, <1>2 DEF ConsentInv
<1> QED
  BY <1>1, <1>2, <1>3, <1>5, <1>6, <1>7 DEF ConsentInv

\* complete_escrow asks for both flags.
LEMMA ConsentComplete ==
  ASSUME ConsentInv, NEW id \in EscrowId, CompleteEscrow(id)
  PROVE  ConsentInv'
<1>1. /\ id \in DOMAIN escrows /\ escrows[id] \in Escrow /\ escrows[id].confirmed_b
      /\ escrows' = [escrows EXCEPT ![id].completed = TRUE]
      /\ counter' = counter /\ now' = now /\ confirmations' = confirmations
  BY DEF CompleteEscrow, ConsentInv
<1>2. /\ DOMAIN escrows' = DOMAIN escrows
      /\ \A i \in DOMAIN escrows : i # id => escrows'[i] = escrows[i]
      /\ escrows'[id] = [escrows[id] EXCEPT !.completed = TRUE]
  BY <1>1
<1>3. Consented(id, escrows[id], confirmations)
  BY <1>1 DEF ConsentInv
<1>4. escrows'[id] \in Escrow /\ Consented(id, escrows'[id], confirmations')
  BY <1>1, <1>2, <1>3, ConsentUsed
<1> QED
  BY <1>1, <1>2, <1>4 DEF ConsentInv

\* cancel_escrow removes the escrow; its keys stay under an id that is not given
\* out again.
LEMMA ConsentCancel ==
  ASSUME ConsentInv, NEW id \in EscrowId, NEW p \in Trader, CancelEscrow(id, p)
  PROVE  ConsentInv'
<1>1. /\ DOMAIN escrows' = DOMAIN escrows \ {id}
      /\ \A i \in DOMAIN escrows' : escrows'[i] = escrows[i]
      /\ counter' = counter /\ now' = now /\ confirmations' = confirmations
  BY DEF CancelEscrow, Restrict
<1> QED
  BY <1>1 DEF ConsentInv

\* Every entry point of escrow_trader.rs preserves the invariant.
LEMMA ConsentNext ==
  ASSUME EscrowExpiry \in Nat, ConsentInv, [Next]_vars
  PROVE  ConsentInv'
<1>1. CASE Tick
  BY <1>1 DEF Tick, ConsentInv
<1>2. CASE UNCHANGED vars
  BY <1>2 DEF vars, ConsentInv
<1> QED
  BY <1>1, <1>2, ConsentInitiate, ConsentConfirm, ConsentComplete, ConsentCancel, Zenon DEF Next

\* escrow_trader.rs, for any traders, limits and number of escrows: what is
\* settled was confirmed by each of two distinct traders, and whoever has not
\* confirmed an open escrow still can.
THEOREM ConsentSafe ==
  ASSUME EscrowExpiry \in Nat
  PROVE  Spec => [](SettledByBothTraders /\ ConfirmationsMatchFlags)
<1>1. ConsentInv /\ [Next]_vars => ConsentInv'
  BY ConsentNext
<1>2. ConsentInv => SettledByBothTraders
  BY DEF ConsentInv, Consented, SettledByBothTraders, Participants
<1>3. ConsentInv => ConfirmationsMatchFlags
  BY DEF ConsentInv, Consented, ConfirmationsMatchFlags
<1> QED
  BY <1>1, <1>2, <1>3, ConsentInit, PTL DEF Spec
=============================================================================
