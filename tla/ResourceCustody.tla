--------------------------- MODULE ResourceCustody ---------------------------
(***************************************************************************)
(* What the resource ledger promises, whatever paths move its units.       *)
(*                                                                         *)
(* A unit is in a wallet or in exactly one escrow.  Harvests create units; *)
(* nothing else does and nothing destroys them.  An escrow opens once,     *)
(* with units of its owner.  It pays out to other players, or returns all  *)
(* that is left to its owner, and is never refilled.                       *)
(***************************************************************************)
EXTENDS Integers

CONSTANTS Player, Asset, EscrowId,
          Amount    \* the sizes of a single movement: the u32 values

VARIABLES wallet,  \* liquid units: [Player -> [Asset -> Nat]]
          escrow,  \* the opened escrows: id -> [owner, asset, units]
          minted   \* units harvested so far, by asset

vars == <<wallet, escrow, minted>>

Held(p, a, n) == [owner |-> p, asset |-> a, units |-> n]

Init ==
  /\ wallet = [p \in Player |-> [a \in Asset |-> 0]]
  /\ escrow = << >>
  /\ minted = [a \in Asset |-> 0]

\* `w` after player p gains n units of a (n may be negative)
Gain(w, p, a, n) == [w EXCEPT ![p][a] = @ + n]

\* `w` after player p gains every asset of the yield
GainAll(w, p, yield) == [w EXCEPT ![p] = [a \in Asset |-> @[a] + yield[a]]]

\* A harvest's yield is added to the supply.
Harvested(yield) == minted' = [a \in Asset |-> minted[a] + yield[a]]

Mint(p, yield) ==
  /\ Harvested(yield)
  /\ wallet' = GainAll(wallet, p, yield)
  /\ UNCHANGED escrow

\* Escrow e opens with n units of a that p owns.
OpenEscrow(e, p, a, n) ==
  /\ e \notin DOMAIN escrow
  /\ n > 0
  /\ escrow' = [x \in DOMAIN escrow \cup {e} |->
                  IF x = e THEN Held(p, a, n) ELSE escrow[x]]

\* Those units come out of what p holds in w.
PayFrom(w, p, a, n) ==
  /\ n <= w[p][a]
  /\ wallet' = Gain(w, p, a, 0 - n)

Open(e, p, a, n) ==
  /\ OpenEscrow(e, p, a, n)
  /\ PayFrom(wallet, p, a, n)
  /\ UNCHANGED minted

MintAndOpen(e, p, a, n) ==
  /\ OpenEscrow(e, p, a, n)
  /\ \E q \in Player, yield \in [Asset -> Amount] :
       /\ Harvested(yield)
       /\ PayFrom(GainAll(wallet, q, yield), p, a, n)

\* n units leave escrow e for q; its owner only ever takes all that is left.
Release(e, q, n) ==
  /\ e \in DOMAIN escrow
  /\ n > 0 /\ n <= escrow[e].units
  /\ q = escrow[e].owner => n = escrow[e].units
  /\ wallet' = Gain(wallet, q, escrow[e].asset, n)
  /\ escrow' = [escrow EXCEPT ![e].units = @ - n]
  /\ UNCHANGED minted

Transfer(p, q, a, n) ==
  /\ p # q
  /\ n > 0 /\ n <= wallet[p][a]
  /\ wallet' = Gain(Gain(wallet, p, a, 0 - n), q, a, n)
  /\ UNCHANGED <<escrow, minted>>

Next ==
  \/ \E p \in Player, yield \in [Asset -> Amount] : Mint(p, yield)
  \/ \E e \in EscrowId, p \in Player, a \in Asset, n \in Amount :
       Open(e, p, a, n) \/ MintAndOpen(e, p, a, n)
  \/ \E e \in EscrowId, q \in Player, n \in Amount : Release(e, q, n)
  \/ \E p, q \in Player, a \in Asset, n \in Amount : Transfer(p, q, a, n)

Spec == Init /\ [][Next]_vars
=============================================================================
