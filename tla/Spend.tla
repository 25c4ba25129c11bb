------------------------------- MODULE Spend -------------------------------
(***************************************************************************)
(* Paying for a write: the spender in the client's Tahoe process           *)
(* (spender.py, plugin.py) takes the oldest pass of the wallet file to a    *)
(* storage node (storage_http.py, gate.py), which keeps every spent pass    *)
(* with the request it was bound to (spentset.py).                          *)
(*                                                                          *)
(* The request binding R is a function of the node and the storage index,   *)
(* so a pass is bound to a slot of a node.  The wallet is a FIFO file:      *)
(* passes are numbered in file order, the file holds first..last, a spend   *)
(* pops `first`, a top-up appends after `last`.  The passes a recovered     *)
(* device collected again (marked unverified, for the lost device may have  *)
(* spent them) come first, numbers 1..recovered.                            *)
(*                                                                          *)
(* The spender's lock and the wallet's file lock cover one whole call, the  *)
(* HTTP request included; the steps in between are apart because either     *)
(* process may die, and a request may outlive the call that sent it.        *)
(***************************************************************************)
EXTENDS Integers, FiniteSets

CONSTANTS
    Node,           \* storage nodes
    Slot,           \* storage indices
    Passes,         \* bound: passes the wallet ever holds
    MaxInFlight,    \* bound: requests on their way at one time
    MaxFaults,      \* bound: failed writes of a spent-set file
    None            \* the absent value

ASSUME BoundsAssumption ==
    Passes \in Nat /\ MaxInFlight \in Nat \ {0} /\ MaxFaults \in Nat
ASSUME AbsentAssumption ==
    None \notin Node /\ None \notin Slot /\ None \notin 1..Passes

VARIABLES
    first,      \* the pass at the head of the wallet file
    last,       \* the pass at its tail
    rejected,   \* wallet["rejected"]: parked passes, in the file
    recovered,  \* passes 1..recovered carry the unverified mark
    grants,     \* grants[n][s]: the pass of the cached grant, in its file
    call,       \* the call of ensure_grant_sync that holds the locks
    post,       \* spend requests on their way to a node
    book,       \* book[n][t]: the slot n remembers t for, in memory
    disk,       \* the same, in n's spent-set file
    accepts,    \* nodes that accept the wallet's epoch
    faults      \* failed writes so far (bounds the model)

vars == <<first, last, rejected, recovered, grants, call, post, book, disk,
          accepts, faults>>
wallet == <<first, last, rejected, recovered>>
nodes == <<book, disk, accepts, faults>>

Pass == 1..Passes
Request == [node : Node, slot : Slot, pass : Pass]
Book == [Node -> [Pass -> Slot \cup {None}]]

Call == [pc     : {"idle", "wait", "ok", "refused", "granted"},
         node   : Node \cup {None},
         slot   : Slot \cup {None},
         pass   : Pass \cup {None},
         parked : SUBSET Pass]      \* refused in this call, not saved yet
Idle == [pc |-> "idle", node |-> None, slot |-> None, pass |-> None,
         parked |-> {}]

TypeOK ==
    /\ first \in 1..(Passes + 1) /\ last \in 0..Passes /\ first <= last + 1
    /\ rejected \subseteq Pass
    /\ recovered \in 0..Passes
    /\ grants \in [Node -> [Slot -> Pass \cup {None}]]
    /\ call \in Call
    /\ call.pc # "idle" => call.node # None /\ call.slot # None /\ call.pass # None
    /\ post \subseteq Request
    /\ book \in Book /\ disk \in Book
    /\ accepts \subseteq Node
    /\ faults \in 0..MaxFaults

-----------------------------------------------------------------------------
(* What the pieces decide.                                                 *)

\* The request of a call for pass t.
Bound(t) == [node |-> call.node, slot |-> call.slot, pass |-> t]

\* gate.spend(), and spend_rsa() for the other scheme: the epoch is accepted, and the
\* pass is new or bound to this slot.
Admits(q) ==
    /\ q.node \in accepts
    /\ book[q.node][q.pass] \in {None, q.slot}

New(q) == book[q.node][q.pass] = None

\* Fault: the reply is sent without writing the file.
RecordsInMemory(q) ==
    /\ book' = IF Admits(q) THEN [book EXCEPT ![q.node][q.pass] = q.slot] ELSE book
    /\ UNCHANGED disk

\* SpentSet.remember(): a new pass is recorded and the file is rewritten from
\* memory; a known pass changes nothing.
Records(q) ==
    /\ book' = IF Admits(q) THEN [book EXCEPT ![q.node][q.pass] = q.slot] ELSE book
    /\ disk' = IF Admits(q) /\ New(q) THEN [disk EXCEPT ![q.node] = book'[q.node]]
               ELSE disk

\* A write of slot s is let through by n: some spent pass is bound to it.  (Every
\* way into Tahoe's storage server is wrapped with this check.)
Leased(n, s) == \E t \in Pass : book[n][t] = s

\* ZKAPStorageClient: each allocation, lease and mutable write is paid for before it
\* is forwarded, unless a grant of that node and slot is at hand.
Unpaid(n, s) == call = Idle /\ grants[n][s] = None

\* Fault: does not look whether another pass is left.
MayTryNextAlways == call.pass <= recovered

\* An unverified pass was refused and another one is left to try.
MayTryNext == call.pass <= recovered /\ call.pass < last

-----------------------------------------------------------------------------
(* The client's call.                                                      *)

\* The lost device spent some of the passes that recovery collected again, each
\* at one node.
Init ==
    /\ first = 1
    /\ recovered \in 0..Passes
    /\ last = recovered
    /\ rejected = {}
    /\ grants = [n \in Node |-> [s \in Slot |-> None]]
    /\ call = Idle
    /\ post = {}
    /\ book \in [Node -> [Pass -> Slot \cup {None}]]
    /\ \A n \in Node, t \in Pass : book[n][t] # None =>
           t <= recovered /\ \A m \in Node \ {n} : book[m][t] = None
    /\ disk = book
    /\ accepts = Node
    /\ faults = 0

\* A top-up appends a pass; it waits for the wallet's lock.
TopUp ==
    /\ call = Idle
    /\ last < Passes
    /\ last' = last + 1
    /\ UNCHANGED <<first, rejected, recovered, grants, call, post, nodes>>

\* Fault: the popped wallet is saved before the request is sent.
BeginEagerly(n, s) ==
    /\ call = Idle
    /\ grants[n][s] = None
    /\ first <= last
    /\ Cardinality(post) < MaxInFlight
    /\ call' = [pc |-> "wait", node |-> n, slot |-> s, pass |-> first, parked |-> {}]
    /\ post' = post \cup {[node |-> n, slot |-> s, pass |-> first]}
    /\ first' = first + 1
    /\ UNCHANGED <<last, rejected, recovered, grants, nodes>>

\* No cached grant and a pass at hand: it is popped, bound and sent.  (A cached
\* grant is returned as it is; an empty wallet raises NoCredit.)
Begin(n, s) ==
    /\ Unpaid(n, s)
    /\ first <= last
    /\ Cardinality(post) < MaxInFlight
    /\ call' = [pc |-> "wait", node |-> n, slot |-> s, pass |-> first, parked |-> {}]
    /\ post' = post \cup {[node |-> n, slot |-> s, pass |-> first]}
    /\ UNCHANGED <<wallet, grants, nodes>>

\* Any error but a 403, a timeout, or the death of the process: the files are as
\* they were, the request may still be on its way.
Fails ==
    /\ call.pc # "idle"
    /\ call' = Idle
    /\ UNCHANGED <<wallet, grants, post, nodes>>

\* A refused pass that came from recovery is set aside and the next one is tried.
TryNext ==
    /\ call.pc = "refused"
    /\ MayTryNext
    /\ Cardinality(post) < MaxInFlight
    /\ call' = [call EXCEPT !.pc = "wait", !.pass = @ + 1,
                            !.parked = @ \cup {call.pass}]
    /\ post' = post \cup {Bound(call.pass + 1)}
    /\ UNCHANGED <<wallet, grants, nodes>>

\* Fault: the refused pass stays at the head of the file.
GiveUpUnsaved ==
    /\ call.pc = "refused"
    /\ ~MayTryNext
    /\ call' = Idle
    /\ UNCHANGED <<wallet, grants, post, nodes>>

\* Any other refused pass is parked in the file and the write fails.
GiveUp ==
    /\ call.pc = "refused"
    /\ ~MayTryNext
    /\ first' = call.pass + 1
    /\ rejected' = rejected \cup call.parked \cup {call.pass}
    /\ call' = Idle
    /\ UNCHANGED <<last, recovered, grants, post, nodes>>

\* Fault: the grant is saved while the pass is still in the wallet file.
SaveGrantFirst ==
    /\ call.pc = "ok"
    /\ grants' = [grants EXCEPT ![call.node][call.slot] = call.pass]
    /\ call' = Idle
    /\ UNCHANGED <<wallet, post, nodes>>

\* Accepted: the wallet is saved without the pass...
SaveWallet ==
    /\ call.pc = "ok"
    /\ first' = call.pass + 1
    /\ rejected' = rejected \cup call.parked
    /\ call' = [call EXCEPT !.pc = "granted", !.parked = {}]
    /\ UNCHANGED <<last, recovered, grants, post, nodes>>

\* ... and then the grant.
SaveGrant ==
    /\ call.pc = "granted"
    /\ grants' = [grants EXCEPT ![call.node][call.slot] = call.pass]
    /\ call' = Idle
    /\ UNCHANGED <<wallet, post, nodes>>

-----------------------------------------------------------------------------
(* The nodes and the network.                                              *)

Answered(q) == [call EXCEPT !.pc = IF Admits(q) THEN "ok" ELSE "refused"]

\* POST /v0/spend is served; the reply finds its call waiting, or is lost.
Serve(q) ==
    /\ q \in post
    /\ Records(q)
    /\ post' = post \ {q}
    /\ UNCHANGED <<wallet, grants, accepts, faults>>

Answer(q) ==
    /\ call.pc = "wait"
    /\ q = Bound(call.pass)
    /\ Serve(q)
    /\ call' = Answered(q)

ServeUnheard(q) == Serve(q) /\ UNCHANGED call

\* Writing the spent-set file raises: a 500 to the client, but memory has it.
FlushFails(q) ==
    /\ q \in post
    /\ Admits(q) /\ New(q)
    /\ faults < MaxFaults
    /\ faults' = faults + 1
    /\ book' = [book EXCEPT ![q.node][q.pass] = q.slot]
    /\ post' = post \ {q}
    /\ UNCHANGED <<wallet, grants, call, disk, accepts>>

Lose(q) ==
    /\ q \in post
    /\ post' = post \ {q}
    /\ UNCHANGED <<wallet, grants, call, nodes>>

\* Fault: a restarted node starts with an empty spent-set.
RestartForgets(n) ==
    /\ book' = [book EXCEPT ![n] = [t \in Pass |-> None]]
    /\ accepts' \in {accepts \cup {n}, accepts \ {n}}
    /\ UNCHANGED <<wallet, grants, call, post, disk, faults>>

\* The node starts again: its spent-set is what the file holds, the epochs it
\* accepts are those of the key document it pulls now (or epoch 0 if it cannot).
Restart(n) ==
    /\ book' = [book EXCEPT ![n] = disk[n]]
    /\ accepts' \in {accepts \cup {n}, accepts \ {n}}
    /\ UNCHANGED <<wallet, grants, call, post, disk, faults>>

-----------------------------------------------------------------------------

Client ==
    \/ TopUp
    \/ \E n \in Node, s \in Slot : Begin(n, s)
    \/ Fails \/ TryNext \/ GiveUp \/ SaveWallet \/ SaveGrant

Network ==
    \/ \E q \in post : Answer(q) \/ ServeUnheard(q) \/ FlushFails(q) \/ Lose(q)
    \/ \E n \in Node : Restart(n)

Next == Client \/ Network

Spec == Init /\ [][Next]_vars

\* A write that is tried again and again, and steps that are not cut off at the
\* same point forever: neither process dies, and no request is lost, each time.
Fairness ==
    /\ WF_vars(Fails) /\ SF_vars(TryNext) /\ SF_vars(GiveUp)
    /\ SF_vars(SaveWallet) /\ SF_vars(SaveGrant)
    /\ \A n \in Node, s \in Slot : SF_vars(Begin(n, s))
    /\ \A q \in Request : SF_vars(Answer(q)) /\ WF_vars(ServeUnheard(q))

FairSpec == Spec /\ Fairness

-----------------------------------------------------------------------------
(* Properties.                                                             *)

\* A write the client believes paid for is let through: whatever was cut short,
\* lost or restarted, a cached grant has its pass on record at that node, for that
\* slot, in the file as well.
GrantIsHonoured ==
    \A n \in Node, s \in Slot : grants[n][s] # None =>
        /\ Leased(n, s)
        /\ book[n][grants[n][s]] = s /\ disk[n][grants[n][s]] = s

\* No pass stands behind two cached grants, nor behind one and in the wallet.
GrantsAreDistinct ==
    \A n, m \in Node : \A s, r \in Slot : grants[n][s] # None =>
        /\ grants[n][s] < first
        /\ grants[m][r] = grants[n][s] => m = n /\ r = s

\* A pass never just disappears: it is in the wallet file, or parked there, or a
\* node has it on record.
NoPassIsLost ==
    \A t \in 1..last : t >= first \/ t \in rejected \/ \E n \in Node : disk[n][t] # None

\* spentset.py, remember(): what a node has on record for a pass it keeps, through
\* late requests and restarts.
SpentIsKept ==
    [][\A n \in Node, t \in Pass : disk[n][t] # None => disk'[n][t] = disk[n][t]]_vars

\* A write that is tried long enough is paid for or the wallet has run dry: no pass
\* that a node refuses blocks the queue for good.
WriteIsPaidFor ==
    \A n \in Node, s \in Slot : <>(grants[n][s] # None \/ first > last)

\* spender.py:7: "One token buys one lease grant for (storage node, storage
\* index)": a pass that only this device ever held is on record once.
PassBuysOneLease ==
    \A t \in Pass : t > recovered =>
        \A n, m \in Node : book[n][t] # None /\ book[m][t] # None => n = m
=============================================================================
