-------------------------------- MODULE Sale --------------------------------
(***************************************************************************)
(* What the credit issuer promises about one purchase, with no states, no  *)
(* observations and no threads: money that has reached its depth on the    *)
(* buyer's address is the buyer's, and against it the issuer hands over at *)
(* most one batch of tokens, once, never for more than was paid, and never *)
(* takes it back.                                                          *)
(***************************************************************************)
EXTENDS Integers

CONSTANTS
    Vid,        \* voucher handles
    None        \* the absent value

VARIABLES
    funds,      \* funds[v]: piconero on v's address at the small depth or more
    sale        \* sale[v]: the batch sold, or None

vars == <<funds, sale>>

Init ==
    /\ funds = [v \in Vid |-> 0]
    /\ sale = [v \in Vid |-> None]

\* More of the money on v's address reaches its depth.
Credit(v) ==
    /\ funds' = [funds EXCEPT ![v] = funds'[v]]
    /\ funds'[v] > funds[v]
    /\ UNCHANGED sale

\* The one batch of v is sold, within the funds credited to v.
Sell(v) ==
    /\ sale[v] = None
    /\ sale' = [sale EXCEPT ![v] = sale'[v]]
    /\ sale'[v] # None
    /\ sale'[v].batch.size >= 1
    /\ sale'[v].batch.size * sale'[v].price <= funds[v]
    /\ UNCHANGED funds

Next == \E v \in Vid : Credit(v) \/ Sell(v)

Spec == Init /\ [][Next]_vars
=============================================================================
