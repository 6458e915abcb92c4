---------------------------- MODULE GiftingSystem ----------------------------
(***************************************************************************)
(* src/gifting_system.rs: gifts of resource units, debited when sent and   *)
(* credited when accepted.  The balances are the ledger that harvests,     *)
(* staking and farming rewards credit through credit_resource_balance.     *)
(***************************************************************************)
EXTENDS Naturals, Sequences

CONSTANTS Player,
          Asset,        \* the symbols of the balance ledger
          ResourceType, \* the resource types callers name
          TypeSymbol,   \* resource_type_to_symbol
          CellAsset,    \* cell_type_to_asset, for the cells of the same names
          GiftExpiry,   \* GIFT_EXPIRY_LEDGERS
          MaxPerSender, \* MAX_GIFTS_PER_SESSION
          MaxU32,       \* u32::MAX
          MaxGifts,     \* bound: gifts ever sent
          MaxCredited,  \* bound: units ever credited, by asset
          MaxSeq        \* bound: ledger sequence

ASSUME GiftAssumption ==
  /\ TypeSymbol \in [ResourceType -> Asset]
  /\ CellAsset \in [ResourceType -> Asset]

VARIABLES balance,   \* ResourceKey::ResourceBalance
          gifts,     \* GiftKey::Gift; GiftCounter is its length
          sent,      \* GiftKey::SenderSessionCount, never reset
          seq,       \* ledger sequence number
          credited   \* history: units ever credited from outside, by asset

vars == <<balance, gifts, sent, seq, credited>>

U32 == 0 .. MaxU32

Gift == [sender : Player, receiver : Player, resource : ResourceType,
         amount : 1 .. MaxU32, created_ledger : 0 .. MaxSeq, claimed : BOOLEAN]

Init ==
  /\ balance = [p \in Player |-> [a \in Asset |-> 0]]
  /\ gifts = << >>
  /\ sent = [p \in Player |-> 0]
  /\ seq = 0
  /\ credited = [a \in Asset |-> 0]

\* credit_resource_balance, for a harvest or a reward
CreditResource(p, a, n) ==
  /\ credited[a] + n <= MaxCredited
  /\ balance[p][a] + n <= MaxU32
  /\ balance' = [balance EXCEPT ![p][a] = @ + n]
  /\ credited' = [credited EXCEPT ![a] = @ + n]
  /\ UNCHANGED <<gifts, sent, seq>>

\* increment_sender_burst
IncrementSenderBurst(p) ==
  /\ sent[p] < MaxPerSender
  /\ sent' = [sent EXCEPT ![p] = @ + 1]

\* send_gift
SendGift(sender, receiver, rt, amount) ==
  LET a == TypeSymbol[rt]
  IN  /\ Len(gifts) < MaxGifts
      /\ sender # receiver
      /\ amount > 0
      /\ IncrementSenderBurst(sender)
      /\ balance[sender][a] >= amount
      /\ balance' = [balance EXCEPT ![sender][a] = @ - amount]
      /\ gifts' = Append(gifts, [sender |-> sender, receiver |-> receiver, resource |-> rt,
                                 amount |-> amount, created_ledger |-> seq, claimed |-> FALSE])
      /\ UNCHANGED <<seq, credited>>

\* Mutant: the u32 addition wraps instead of trapping.
AcceptGiftWrapping(receiver, id) ==
  LET a == TypeSymbol[gifts[id].resource]
  IN  /\ ~gifts[id].claimed
      /\ gifts[id].receiver = receiver
      /\ seq - gifts[id].created_ledger <= GiftExpiry
      /\ balance' = [balance EXCEPT ![receiver][a] = (@ + gifts[id].amount) % (MaxU32 + 1)]
      /\ gifts' = [gifts EXCEPT ![id].claimed = TRUE]
      /\ UNCHANGED <<sent, seq, credited>>

\* Mutant: the expiry check is missing.
AcceptGiftExpired(receiver, id) ==
  LET a == TypeSymbol[gifts[id].resource]
  IN  /\ ~gifts[id].claimed
      /\ gifts[id].receiver = receiver
      /\ balance[receiver][a] + gifts[id].amount <= MaxU32
      /\ balance' = [balance EXCEPT ![receiver][a] = @ + gifts[id].amount]
      /\ gifts' = [gifts EXCEPT ![id].claimed = TRUE]
      /\ UNCHANGED <<sent, seq, credited>>

\* accept_gift
AcceptGift(receiver, id) ==
  LET a == TypeSymbol[gifts[id].resource]
  IN  /\ ~gifts[id].claimed
      /\ gifts[id].receiver = receiver
      /\ seq - gifts[id].created_ledger <= GiftExpiry
      /\ balance[receiver][a] + gifts[id].amount <= MaxU32
      /\ balance' = [balance EXCEPT ![receiver][a] = @ + gifts[id].amount]
      /\ gifts' = [gifts EXCEPT ![id].claimed = TRUE]
      /\ UNCHANGED <<sent, seq, credited>>

CloseLedger ==
  /\ seq < MaxSeq
  /\ seq' = seq + 1
  /\ UNCHANGED <<balance, gifts, sent, credited>>

Next ==
  \/ \E p \in Player, a \in Asset, n \in U32 \ {0} : CreditResource(p, a, n)
  \/ \E p, q \in Player, rt \in ResourceType, n \in U32 : SendGift(p, q, rt, n)
  \/ \E p \in Player, id \in DOMAIN gifts : AcceptGift(p, id)
  \/ CloseLedger

Spec == Init /\ [][Next]_vars
-----------------------------------------------------------------------------
\* Type invariant.
TypeOK ==
  /\ balance \in [Player -> [Asset -> U32]]
  /\ gifts \in Seq(Gift) /\ Len(gifts) <= MaxGifts
  /\ sent \in [Player -> 0 .. MaxPerSender]
  /\ seq \in 0 .. MaxSeq
  /\ credited \in [Asset -> 0 .. MaxCredited]

GiftEscrow ==
  [id \in DOMAIN gifts |->
     [owner |-> gifts[id].sender, asset |-> TypeSymbol[gifts[id].resource],
      units |-> IF gifts[id].claimed THEN 0 ELSE gifts[id].amount]]

Custody == INSTANCE ResourceCustody WITH
  EscrowId <- 1 .. MaxGifts, Amount <- U32,
  wallet <- balance, escrow <- GiftEscrow, minted <- credited

\* Gifts keep custody: with a gift as the escrow of its units, sending and
\* accepting move units as ResourceCustody allows, and no gift pays twice.
ImplementsCustody == Custody!Spec

\* "The gift expires after ~48 hours if not accepted. No refunds on expiry":
\* units of a gift that has outlived its expiry never move again.
ExpiredGiftsStay ==
  [][\A id \in DOMAIN gifts :
       (~gifts[id].claimed /\ seq > gifts[id].created_ledger + GiftExpiry)
         => gifts'[id] = gifts[id]]_vars

\* "a harvested unit is immediately spendable on gifts and upgrades without a
\* conversion step" (src/resource_minter.rs): what a player holds of the asset
\* that a cell yields can be sent as a gift of the resource of that name.
HarvestedIsGiftable ==
  \A p \in Player, rt \in ResourceType :
    balance[p][TypeSymbol[rt]] >= balance[p][CellAsset[rt]]
=============================================================================
