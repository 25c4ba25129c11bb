-------------------------------- MODULE Ledger --------------------------------
(* What the issuer keeps after a sale (payment/store.py, issuer.py): epochs opened, *)
(* closed and burnt; the settlement table nodes report spent passes to; the passes  *)
(* of a burnt epoch exchanged for new ones; and the totals it publishes. The sale   *)
(* itself is in Voucher, the spend at a node in Spend.                              *)
EXTENDS Naturals, FiniteSets

CONSTANTS Node,       \* storage nodes
          Asking,     \* exchange requests served at one time, each by a thread
          MaxTokens,  \* bound: passes ever signed; passes are numbered
          MaxEpoch,   \* bound: the last epoch
          MaxReports, \* bound: settlement reports on their way at one time
          MaxFaults,  \* bound: lost replies, given-up requests and restarts
          None

ASSUME LedgerAssumption == /\ MaxTokens \in Nat /\ MaxEpoch \in Nat /\ MaxReports \in Nat /\ MaxFaults \in Nat
                           /\ None \notin Nat /\ None \notin Node

VARIABLES newest,     \* the epochs 0..newest have a row
          issuing,    \* epochs whose issue_until has not passed
          burnt,      \* epochs whose accept_until has passed
          keyed,      \* epochs whose key is in _epoch_keys
          admin,      \* where rotate() or burn() is
          pass,       \* pass -> its epoch, the epoch whose key signed it, and whether it was bought
          held,       \* passes their holder may still use
          spent,      \* node -> its spent-set
          accepts,    \* node -> the epochs of its last key pull
          reports,    \* settlement reports on their way
          settlement, \* pass -> the row of the settlement table
          conflict,   \* the rows <<t, nodeid, first_nodeid>> of the conflict table
          exchanged,  \* pass -> epoch_old of its row in the exchanged table
          ask,        \* the exchange requests
          faults,
          answered,   \* pass -> exchange requests that were answered with signatures for it
          claimed     \* <<node, pass>> of every report that was recorded

epochs == <<newest, issuing, burnt, keyed, admin>>
nodes == <<spent, accepts>>
tables == <<settlement, conflict, exchanged>>
told == <<answered, claimed>>
vars == <<epochs, pass, held, nodes, reports, tables, ask, faults, told>>

Epoch == 0 .. MaxEpoch
Token == 1 .. MaxTokens
Signed == {t \in Token : pass[t] # None}

Pass == [epoch : Epoch, key : Epoch, bought : BOOLEAN]
Claim == [node : Node, epoch : Epoch]
ASSUME NoneAssumption == None \notin Pass /\ None \notin Claim

Report == [node : Node, epoch : Epoch, tokens : SUBSET Token]
Admin == [pc : {"idle", "accept", "reopen", "insert", "key"}, epoch : Epoch]
Ask == [pc : {"idle", "check", "total", "sign", "record"}, tokens : SUBSET Token, epoch : Epoch,
        new : Epoch, key : Epoch, heard : BOOLEAN]
Quiet == [pc |-> "idle", tokens |-> {}, epoch |-> 0, new |-> 0, key |-> 0, heard |-> FALSE]
AtRest == [pc |-> "idle", epoch |-> 0]

Init == /\ newest = 0 /\ issuing = {0} /\ burnt = {} /\ keyed = {0} /\ admin = AtRest
        /\ pass = [t \in Token |-> None] /\ held = {}
        /\ spent = [n \in Node |-> {}] /\ accepts = [n \in Node |-> {0}]
        /\ reports = {} /\ settlement = [t \in Token |-> None] /\ conflict = {}
        /\ exchanged = [t \in Token |-> None]
        /\ ask = [r \in Asking |-> Quiet]
        /\ faults = 0
        /\ answered = [t \in Token |-> 0] /\ claimed = {}

Fault == faults < MaxFaults /\ faults' = faults + 1

(* ---- epochs ------------------------------------------------------------------------ *)

Newest(E) == CHOOSE e \in E : \A f \in E : f <= e
\* current_issuing: the newest epoch with an open window.
NoneIssues == issuing = {}
Current == Newest(issuing)
\* sign: _epoch_keys.get(epoch, self.key), and self.key is the key of epoch 0.
KeyFor(e) == IF e \in keyed THEN e ELSE 0

AdminStep(pc, e) == /\ admin' = [pc |-> pc, epoch |-> e]
                    /\ UNCHANGED <<pass, held, nodes, reports, tables, ask, faults, told>>

\* rotate: three commits, the row before the key.
CloseIssue == /\ admin.pc = "idle" /\ newest < MaxEpoch
              /\ issuing' = (IF NoneIssues THEN {} ELSE issuing \ {Current})
              /\ AdminStep("insert", 0)
              /\ UNCHANGED <<newest, burnt, keyed>>
InsertEpoch == /\ admin.pc = "insert" /\ newest < MaxEpoch
               /\ newest' = newest + 1
               /\ issuing' = issuing \cup {newest + 1}
               /\ AdminStep("key", newest + 1)
               /\ UNCHANGED <<burnt, keyed>>
KeepKey == /\ admin.pc = "key"
           /\ keyed' = keyed \cup {admin.epoch}
           /\ AdminStep("idle", 0)
           /\ UNCHANGED <<newest, issuing, burnt>>

\* Fault: the window is left open.
BurnCloseNot(e) == /\ admin.pc = "idle" /\ e \in (0 .. newest) \ burnt
                   /\ AdminStep("accept", e)
                   /\ UNCHANGED <<newest, issuing, burnt, keyed>>
\* burn: the window, then the acceptance, then a rotation if nothing issues.
BurnClose(e) == /\ admin.pc = "idle" /\ e \in (0 .. newest) \ burnt
                /\ issuing' = issuing \ {e}
                /\ AdminStep("accept", e)
                /\ UNCHANGED <<newest, burnt, keyed>>
BurnAccept == /\ admin.pc = "accept"
              /\ burnt' = burnt \cup {admin.epoch}
              /\ AdminStep("reopen", 0)
              /\ UNCHANGED <<newest, issuing, keyed>>
BurnReopen == /\ admin.pc = "reopen"
              /\ AdminStep(IF NoneIssues THEN "insert" ELSE "idle", 0)
              /\ UNCHANGED <<newest, issuing, burnt, keyed>>

(* ---- passes and nodes ---------------------------------------------------------------- *)

Fresh(k) == {t \in Token : pass[t] = None /\ Cardinality({u \in Token : u < t /\ pass[u] = None}) < k}
Give(k, e, key, bought) ==
    pass' = [t \in Token |-> IF t \in Fresh(k) THEN [epoch |-> e, key |-> key, bought |-> bought] ELSE pass[t]]

\* A voucher is redeemed: Voucher!Redeem, one pass at a time.
Buy == /\ ~NoneIssues /\ Fresh(1) # {}
       /\ Give(1, Current, KeyFor(Current), TRUE)
       /\ held' = held \cup Fresh(1)
       /\ UNCHANGED <<epochs, nodes, reports, tables, ask, faults, told>>

\* keys: every row is published, with the end of its acceptance.
Published == 0 .. newest
\* pull_keys with the keys this node was given: epoch 0, and perhaps others (a pull that
\* brings nothing new changes nothing).
Pulled(given) == {e \in Published \ burnt : e \in given \cup {0}}
PullKeys(n, given) ==
    /\ Pulled(given) # accepts[n]
    /\ accepts' = [accepts EXCEPT ![n] = Pulled(given)]
    /\ UNCHANGED <<epochs, pass, held, spent, reports, tables, ask, faults, told>>

\* What a holder sends once and still waits for is not used a second time meanwhile.
Free(t) == \A r \in Asking : ~(ask[r].heard /\ t \in ask[r].tokens)

\* LeaseGate.spend; after a lost answer the pass is used elsewhere (Spend!Fails).
Spend(n, t, lost) ==
    /\ t \in held /\ Free(t)
    /\ pass[t].epoch \in accepts[n] /\ pass[t].key = pass[t].epoch
    /\ spent' = [spent EXCEPT ![n] = @ \cup {t}]
    /\ IF lost THEN Fault /\ UNCHANGED held ELSE held' = held \ {t} /\ UNCHANGED faults
    /\ UNCHANGED <<epochs, pass, accepts, reports, tables, ask, told>>

(* ---- settlement ------------------------------------------------------------------------ *)

\* /v0/settlement-bundle has every pass of the node and no epoch; who posts it names the epoch
\* of one of them (a mixed bundle files the others wrongly).
Bundle(n, e) ==
    /\ spent[n] # {} /\ Cardinality(reports) < MaxReports
    /\ reports' = reports \cup {[node |-> n, epoch |-> e, tokens |-> spent[n]]}
    /\ UNCHANGED <<epochs, pass, held, nodes, tables, ask, faults, told>>

\* Fault: the row goes to the node that came last.
OwnsLast(q, T) ==
    /\ settlement' = [t \in Token |-> IF t \in T THEN [node |-> q.node, epoch |-> q.epoch] ELSE settlement[t]]
    /\ conflict' = conflict \cup {<<t, q.node, settlement[t].node>> :
                                     t \in {u \in T : settlement[u] # None /\ settlement[u].node # q.node}}
\* store.settle: the first node owns t, a second one is a conflict.
Owns(q, T) ==
    /\ settlement' = [t \in Token |-> IF t \in T /\ settlement[t] = None
                                      THEN [node |-> q.node, epoch |-> q.epoch] ELSE settlement[t]]
    /\ conflict' = conflict \cup {<<t, q.node, settlement[t].node>> :
                                     t \in {u \in T : settlement[u] # None /\ settlement[u].node # q.node}}

\* A report that was recorded may arrive once more.
Settle(q, again) ==
    /\ Owns(q, q.tokens)
    /\ reports' = IF again THEN reports ELSE reports \ {q}
    /\ claimed' = claimed \cup {<<q.node, t>> : t \in q.tokens}
    /\ UNCHANGED <<epochs, pass, held, nodes, exchanged, ask, faults, answered>>

(* ---- the public totals -------------------------------------------------------------------- *)

\* Only vouchers count as issued; a pass counts as settled where the report said, and as
\* exchanged where the request said.
Issued(e) == Cardinality({t \in Signed : pass[t].bought /\ pass[t].epoch = e})
Settled(e) == Cardinality({t \in Token : settlement[t] # None /\ settlement[t].epoch = e})
Exchanged(e) == Cardinality({t \in Token : exchanged[t] = e})

(* ---- exchange -------------------------------------------------------------------------------- *)

To(r, q) == ask' = [ask EXCEPT ![r] = q]
Served(r) == To(r, Quiet)
Pc(r, pc) == ask[r].pc = pc

\* A holder asks for new passes in the place of T and names a burnt epoch, its passes' own or not.
Exchange(r, T, e) ==
    /\ Pc(r, "idle")
    /\ T \subseteq {t \in held : Free(t)} /\ T # {}
    /\ To(r, [pc |-> "check", tokens |-> T, epoch |-> e, new |-> 0, key |-> 0, heard |-> TRUE])
    /\ UNCHANGED <<epochs, pass, held, nodes, reports, tables, faults, told>>

Out == {t \in Token : exchanged[t] # None}
Unused(T) == \A t \in T : settlement[t] = None /\ t \notin Out
\* The signature W is compared only where the key of the epoch is there and the request gives it.
Matches(q, given) == given /\ q.epoch \in keyed => \A t \in q.tokens : pass[t].key = q.epoch

\* is_settled and is_exchanged of each pass, each under the lock, the whole not. The request
\* gave the W of its passes or only t.
Check(r, given) ==
    /\ Pc(r, "check")
    /\ IF Unused(ask[r].tokens) /\ Matches(ask[r], given)
       THEN To(r, [ask[r] EXCEPT !.pc = "total"]) ELSE Served(r)
    /\ UNCHANGED <<epochs, pass, held, nodes, reports, tables, faults, told>>

Within(k, e) == k + Settled(e) + Exchanged(e) <= Issued(e)

Total(r) ==
    /\ Pc(r, "total")
    /\ IF Within(Cardinality(ask[r].tokens), ask[r].epoch)
       THEN To(r, [ask[r] EXCEPT !.pc = "sign"]) ELSE Served(r)
    /\ UNCHANGED <<epochs, pass, held, nodes, reports, tables, faults, told>>

Sign(r) ==
    /\ Pc(r, "sign")
    /\ IF NoneIssues THEN Served(r)
       ELSE To(r, [ask[r] EXCEPT !.pc = "record", !.new = Current, !.key = KeyFor(Current)])
    /\ UNCHANGED <<epochs, pass, held, nodes, reports, tables, faults, told>>

\* The rows of T, under the epoch the request named.
Enter(T, e) == exchanged' = [t \in Token |-> IF t \in T THEN e ELSE exchanged[t]]

\* Fault: a row that is there is passed over.
CleanIgnored(T) == TRUE
\* No row of the primary key is there yet.
Clean(T) == T \cap Out = {}

\* record_exchanges and the answer. The holder puts the new passes in the place of the old
\* (if as many numbers are left).
Record(r) ==
    LET T == ask[r].tokens
    IN /\ Pc(r, "record") /\ Clean(T)
       /\ Enter(T, ask[r].epoch)
       /\ answered' = [t \in Token |-> answered[t] + (IF t \in T THEN 1 ELSE 0)]
       /\ Served(r)
       /\ IF ask[r].heard /\ Cardinality(Fresh(Cardinality(T))) = Cardinality(T)
          THEN /\ Give(Cardinality(T), ask[r].new, ask[r].key, FALSE)
               /\ held' = (held \ T) \cup Fresh(Cardinality(T))
          ELSE UNCHANGED <<pass, held>>
       /\ UNCHANGED <<epochs, nodes, reports, settlement, conflict, faults, claimed>>

\* A duplicate among them raises, after the rows in front of it were inserted.
RecordRaises(r, part) ==
    /\ Pc(r, "record") /\ ~Clean(ask[r].tokens)
    /\ part \subseteq ask[r].tokens \ Out
    /\ Enter(part, ask[r].epoch)
    /\ Served(r)
    /\ UNCHANGED <<epochs, pass, held, nodes, reports, settlement, conflict, faults, told>>

\* The holder's timeout: the request is served all the same.
GiveUp(r) ==
    /\ ~Pc(r, "idle") /\ ask[r].heard
    /\ Fault
    /\ To(r, [ask[r] EXCEPT !.heard = FALSE])
    /\ UNCHANGED <<epochs, pass, held, nodes, reports, tables, told>>

\* The issuer process ends and starts again with the keys of all the rows.
StartAgain == /\ Fault
              /\ ask' = [s \in Asking |-> Quiet]
              /\ admin' = AtRest /\ keyed' = 0 .. newest
              /\ UNCHANGED <<newest, issuing, burnt, pass, held, nodes, reports, told>>

\* Every row is a commit of its own: it may end with some rows of an exchange in the table,
Restart(r, part) ==
    /\ StartAgain
    /\ part \subseteq (IF Pc(r, "record") /\ Clean(ask[r].tokens) THEN ask[r].tokens ELSE {})
    /\ Enter(part, ask[r].epoch)
    /\ UNCHANGED <<settlement, conflict>>
\* or with some rows of a report, which was not acknowledged and may be sent once more.
SettleCut(q, part) ==
    /\ StartAgain
    /\ Owns(q, part)
    /\ UNCHANGED exchanged

Next ==
    \/ CloseIssue \/ InsertEpoch \/ KeepKey
    \/ \E e \in Epoch : BurnClose(e)
    \/ BurnAccept \/ BurnReopen
    \/ Buy
    \/ \E n \in Node : \/ \E given \in SUBSET (1 .. newest) : PullKeys(n, given)
                       \/ \E t \in Token, lost \in BOOLEAN : Spend(n, t, lost)
                       \/ \E t \in spent[n] : Bundle(n, pass[t].epoch)
    \/ \E q \in reports : \/ \E again \in BOOLEAN : Settle(q, again)
                         \/ \E part \in SUBSET q.tokens : SettleCut(q, part)
    \/ \E r \in Asking : \/ \E T \in SUBSET held, e \in burnt : Exchange(r, T, e)
                         \/ \E given \in BOOLEAN : Check(r, given)
                         \/ Total(r) \/ Sign(r) \/ Record(r) \/ GiveUp(r)
                         \/ \E part \in SUBSET ask[r].tokens : RecordRaises(r, part) \/ Restart(r, part)

Spec == Init /\ [][Next]_vars

(* ---- properties ------------------------------------------------------------------------------- *)

\* Types; what is used was signed, and only the newest epoch issues, burnt ones do not.
TypeOK == /\ newest \in Epoch /\ issuing \subseteq 0 .. newest /\ burnt \subseteq 0 .. newest
          /\ keyed \subseteq 0 .. newest /\ admin \in Admin
          /\ pass \in [Token -> Pass \cup {None}] /\ held \subseteq Signed
          /\ spent \in [Node -> SUBSET Signed] /\ accepts \in [Node -> SUBSET Epoch]
          /\ reports \subseteq Report /\ settlement \in [Token -> Claim \cup {None}]
          /\ conflict \subseteq Token \X Node \X Node
          /\ exchanged \in [Token -> Epoch \cup {None}] /\ Out \subseteq Signed /\ ask \in [Asking -> Ask] /\ faults \in 0 .. MaxFaults
          /\ issuing \subseteq {newest} \ burnt

\* Whatever requests with the same pass are served at the same time, one of them at
\* most is answered with signatures (record_exchanges comes after sign and before the answer).
SignedOnce == \A t \in Token : answered[t] <= 1

\* "First node to settle a t owns it": every claim that was recorded is the row
\* of the pass, or a conflict with the node that owns it, through duplicates,
\* reports that arrive late and reports a crash cut off (store.py settle).
ClaimsAreKept ==
    \A c \in claimed : \/ settlement[c[2]].node = c[1]
                       \/ <<c[2], c[1], settlement[c[2]].node>> \in conflict
================================================================================
