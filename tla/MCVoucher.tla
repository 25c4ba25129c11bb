----------------------------- MODULE MCVoucher -----------------------------
(* Voucher on small instances. *)
EXTENDS Voucher, FiniteSets, TLC

\* Handles, threads and batches carry no structure the module looks at.
Interchangeable ==
    Permutations(Vid) \cup Permutations(Handler) \cup Permutations(BatchId)

Busy == {h \in Handler : handler[h] # Idle}

\* Below the large amount anything may overlap.  From there on one request or
\* one round of the poller is under way at a time (the chain still moves
\* during it), the price is the one of the quote, and nothing was reorganised.
OneAtATimeOnceLarge ==
    \A v \in Vid :
        Total(chain[v]) >= LargeAmount
        => /\ voucher[v].quoted = price
           /\ reorgs = 0
           /\ Cardinality(Busy) <= IF poller = PollerIdle THEN 1 ELSE 0
=============================================================================
