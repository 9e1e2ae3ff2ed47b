------------------------------- MODULE Escrow -------------------------------
(***************************************************************************)
(* What a BagsVault pool promises, with no Merkle tree, no proof and no    *)
(* nullifier: a pool takes deposits of one fixed price, and pays the price *)
(* of a deposit against a ticket.  A ticket is good once, in one pool, and *)
(* a pool never pays more than was paid in.  Which tickets a deposit has   *)
(* is not the pool's to say: the circuit decides it, and module Pool shows *)
(* that it gives a deposit several.  Pool implements this module; it is    *)
(* what a depositor can rely on.                                           *)
(***************************************************************************)
EXTENDS Naturals, FiniteSets

CONSTANTS Pools,   \* the pools that may be opened
          Prices,  \* the prices a pool may be opened with
          Tickets  \* what deposits are paid against

VARIABLES
  open,       \* the pools that are open
  price,      \* the price of a deposit, fixed when the pool is opened
  deposited,  \* how many deposits a pool has taken
  redeemed,   \* its payouts: which deposit, by number, against which ticket
  custody     \* what the pool holds

vars == <<open, price, deposited, redeemed, custody>>

Init ==
  /\ open = {}
  /\ price = [p \in Pools |-> 0]
  /\ deposited = [p \in Pools |-> 0]
  /\ redeemed = [p \in Pools |-> {}]
  /\ custody = [p \in Pools |-> 0]

Open(p, a) ==
  /\ p \notin open
  /\ open' = open \cup {p}
  /\ price' = [price EXCEPT ![p] = a]
  /\ UNCHANGED <<deposited, redeemed, custody>>

Deposit(p) ==
  /\ p \in open
  /\ deposited' = [deposited EXCEPT ![p] = @ + 1]
  /\ custody' = [custody EXCEPT ![p] = @ + price[p]]
  /\ UNCHANGED <<open, price, redeemed>>

Good(t) == \A q \in Pools : \A r \in redeemed[q] : r.ticket # t

\* A payout is for a deposit that was made, against a good ticket, out of what
\* the pool holds.
Redeem(p, i, t) ==
  /\ p \in open
  /\ i \in 0..deposited[p] - 1
  /\ Good(t)
  /\ custody[p] >= price[p]
  /\ redeemed' = [redeemed EXCEPT ![p] = @ \cup {[deposit |-> i, ticket |-> t]}]
  /\ custody' = [custody EXCEPT ![p] = @ - price[p]]
  /\ UNCHANGED <<open, price, deposited>>

Next ==
  \E p \in Pools :
    \/ \E a \in Prices : Open(p, a)
    \/ Deposit(p)
    \/ \E i \in 0..deposited[p] - 1, t \in Tickets : Redeem(p, i, t)

Spec == Init /\ [][Next]_vars
=============================================================================
