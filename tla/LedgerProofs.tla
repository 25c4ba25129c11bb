---------------------------- MODULE LedgerProofs ----------------------------
(***************************************************************************)
(* What holds of Ledger for any nodes, any number of requests served at a  *)
(* time, passes and epochs.                                                *)
(*                                                                         *)
(* The inductive invariant adds to the types that whatever is on its way   *)
(* (a request, a report) names signed passes only, that nothing of a burnt *)
(* epoch is still open, that a recorded claim has found a row, and that a  *)
(* pass of an answered request is in the exchanged table.                  *)
(***************************************************************************)
EXTENDS Ledger, TLAPS

EpochsOK ==
    /\ newest \in Epoch /\ issuing \subseteq 0 .. newest /\ burnt \subseteq 0 .. newest
    /\ keyed \subseteq 0 .. newest /\ admin \in Admin
    /\ issuing \subseteq {newest} \ burnt

\* Where rotate and burn are says what they have done.
AdminAt ==
    /\ admin.epoch \in 0 .. newest
    /\ admin.pc = "insert" => issuing = {}
    /\ admin.pc = "accept" => admin.epoch \notin issuing

PassesOK == pass \in [Token -> Pass \cup {None}] /\ held \subseteq Signed

NodesOK ==
    /\ spent \in [Node -> SUBSET Signed] /\ accepts \in [Node -> SUBSET Epoch]
    /\ reports \subseteq Report
    /\ \A q \in reports : q.tokens \subseteq Signed

\* Only signed passes have rows.
TablesOK ==
    /\ settlement \in [Token -> Claim \cup {None}]
    /\ conflict \subseteq Token \X Node \X Node
    /\ exchanged \in [Token -> Epoch \cup {None}] /\ Out \subseteq Signed
    /\ \A t \in Token : settlement[t] # None => t \in Signed

AsksOK ==
    /\ ask \in [Asking -> Ask]
    /\ \A r \in Asking : ask[r].tokens \subseteq Signed

AnsweredOK ==
    /\ answered \in [Token -> Nat]
    /\ \A t \in Token : answered[t] <= 1 /\ (answered[t] = 1 => t \in Out)

ClaimsOK ==
    /\ claimed \subseteq Node \X Token
    /\ \A c \in claimed : settlement[c[2]] # None
    /\ ClaimsAreKept

Inv ==
    /\ EpochsOK /\ AdminAt /\ PassesOK /\ NodesOK /\ TablesOK /\ AsksOK /\ AnsweredOK /\ ClaimsOK
    /\ faults \in 0 .. MaxFaults

----------------------------------------------------------------------------

\* At most the newest epoch issues, and the key a pass is signed with is of some epoch.
LEMMA CurrentFacts ==
    ASSUME EpochsOK, ~NoneIssues
    PROVE  Current = newest /\ Current \in Epoch /\ KeyFor(Current) \in Epoch
<1>1. issuing = {newest}
  BY DEF EpochsOK, NoneIssues
<1>2. newest \in Nat /\ 0 \in Epoch
  BY LedgerAssumption DEF EpochsOK, Epoch
<1>3. Current = newest
  BY <1>1, <1>2 DEF Current, Newest
<1> QED BY <1>2, <1>3 DEF EpochsOK, KeyFor

\* Signing gives numbers that were free a pass and touches no other.
LEMMA GiveFacts ==
    ASSUME PassesOK, NEW k, NEW e \in Epoch, NEW key \in Epoch, NEW bought \in BOOLEAN,
           Give(k, e, key, bought)
    PROVE  /\ pass' \in [Token -> Pass \cup {None}]
           /\ \A t \in Token : pass[t] # None => pass'[t] = pass[t]
           /\ \A t \in Fresh(k) : pass'[t] # None
<1>1. [epoch |-> e, key |-> key, bought |-> bought] \in Pass
  BY DEF Pass
<1>2. \A t \in Fresh(k) : t \in Token /\ pass[t] = None
  BY DEF Fresh
<1> QED BY <1>1, <1>2, NoneAssumption DEF Give, PassesOK

\* Whatever happens, a pass that was signed stays as it is.
LEMMA SignedGrows ==
    ASSUME Inv, [Next]_vars
    PROVE  /\ pass' \in [Token -> Pass \cup {None}]
           /\ \A t \in Token : pass[t] # None => pass'[t] = pass[t]
           /\ Signed \subseteq Signed'
<1>1. CASE UNCHANGED pass
  BY <1>1 DEF Inv, PassesOK, Signed
<1>2. CASE Buy
  <2>1. /\ Give(1, Current, KeyFor(Current), TRUE)
        /\ Current \in Epoch /\ KeyFor(Current) \in Epoch
    BY <1>2, CurrentFacts DEF Buy, Inv
  <2> QED BY <2>1, GiveFacts DEF Inv, Signed
<1>3. ASSUME NEW r \in Asking, Record(r), ~UNCHANGED pass
      PROVE  /\ pass' \in [Token -> Pass \cup {None}]
             /\ \A t \in Token : pass[t] # None => pass'[t] = pass[t]
             /\ Signed \subseteq Signed'
  <2>1. /\ Give(Cardinality(ask[r].tokens), ask[r].new, ask[r].key, FALSE)
        /\ ask[r].new \in Epoch /\ ask[r].key \in Epoch
    BY <1>3 DEF Record, Inv, AsksOK, Ask
  <2> QED BY <2>1, GiveFacts DEF Inv, Signed
<1> QED BY <1>1, <1>2, <1>3
           DEF Next, CloseIssue, InsertEpoch, KeepKey, BurnClose, BurnAccept, BurnReopen, AdminStep,
               PullKeys, Spend, Bundle, Settle, Exchange, Check, Total, Sign, RecordRaises, GiveUp,
               Restart, SettleCut, StartAgain, vars

LEMMA EpochsStep ==
    ASSUME Inv, [Next]_vars
    PROVE  EpochsOK' /\ AdminAt'
<1>0. /\ EpochsOK /\ AdminAt /\ newest \in Nat /\ MaxEpoch \in Nat
      /\ AtRest = [pc |-> "idle", epoch |-> 0]
  BY LedgerAssumption DEF Inv, EpochsOK, Epoch, AtRest
<1>1. CASE UNCHANGED epochs
  BY <1>0, <1>1 DEF epochs, EpochsOK, AdminAt
<1>2. CASE CloseIssue
  <2>1. issuing' = {}
    <3>1. CASE NoneIssues
      BY <3>1, <1>2 DEF CloseIssue
    <3>2. CASE ~NoneIssues
      BY <3>2, <1>0, <1>2, CurrentFacts DEF CloseIssue, EpochsOK
    <3> QED BY <3>1, <3>2
  <2> QED BY <2>1, <1>0, <1>2 DEF CloseIssue, AdminStep, EpochsOK, AdminAt, Admin, Epoch
<1>3. CASE InsertEpoch
  <2>1. issuing = {} /\ newest' = newest + 1 /\ newest' \in Epoch /\ issuing' = {newest'}
    BY <1>0, <1>3 DEF InsertEpoch, AdminAt, Epoch
  <2> QED BY <2>1, <1>0, <1>3 DEF InsertEpoch, AdminStep, EpochsOK, AdminAt, Admin, Epoch
<1>4. CASE KeepKey
  <2>1. /\ admin' = [pc |-> "idle", epoch |-> 0] /\ keyed' \subseteq 0 .. newest
        /\ UNCHANGED <<newest, issuing, burnt>>
    BY <1>0, <1>4 DEF KeepKey, AdminStep, EpochsOK, AdminAt
  <2> QED BY <1>0, <2>1 DEF EpochsOK, AdminAt, Admin, Epoch
<1>5. ASSUME NEW e \in Epoch, BurnClose(e)
      PROVE  EpochsOK' /\ AdminAt'
  <2>1. /\ e \in 0 .. newest /\ issuing' = issuing \ {e}
        /\ admin' = [pc |-> "accept", epoch |-> e]
        /\ UNCHANGED <<newest, burnt, keyed>>
    BY <1>5 DEF BurnClose, AdminStep
  <2> QED BY <1>0, <2>1 DEF EpochsOK, AdminAt, Admin, Epoch
<1>6. CASE BurnAccept
  <2>1. /\ admin.pc = "accept" /\ burnt' = burnt \cup {admin.epoch}
        /\ admin' = [pc |-> "reopen", epoch |-> 0]
        /\ UNCHANGED <<newest, issuing, keyed>>
    BY <1>6 DEF BurnAccept, AdminStep
  <2>2. burnt' \subseteq 0 .. newest /\ issuing' \subseteq {newest} \ burnt'
    BY <1>0, <2>1 DEF EpochsOK, AdminAt
  <2>3. admin' \in Admin /\ AdminAt'
    BY <1>0, <2>1 DEF AdminAt, Admin, Epoch
  <2> QED BY <1>0, <2>1, <2>2, <2>3 DEF EpochsOK
<1>7. CASE BurnReopen
  BY <1>0, <1>7 DEF BurnReopen, NoneIssues, AdminStep, EpochsOK, AdminAt, Admin, Epoch
<1>8. CASE StartAgain
  BY <1>0, <1>8 DEF StartAgain, EpochsOK, AdminAt, Admin, Epoch
<1> QED BY <1>1, <1>2, <1>3, <1>4, <1>5, <1>6, <1>7, <1>8
           DEF Next, Buy, PullKeys, Spend, Bundle, Settle, Exchange, Check, Total, Sign, Record,
               RecordRaises, GiveUp, Restart, SettleCut, vars

LEMMA PassesStep ==
    ASSUME Inv, [Next]_vars
    PROVE  PassesOK'
<1>0. /\ pass' \in [Token -> Pass \cup {None}] /\ Signed \subseteq Signed'
      /\ held \subseteq Signed
  BY SignedGrows DEF Inv, PassesOK
<1>1. CASE held' \subseteq held
  BY <1>0, <1>1 DEF PassesOK
<1>2. ASSUME NEW k, NEW e \in Epoch, NEW key \in Epoch, NEW bought \in BOOLEAN,
             Give(k, e, key, bought), held' \subseteq held \cup Fresh(k)
      PROVE  PassesOK'
  <2>1. Fresh(k) \subseteq Signed'
    BY <1>2, GiveFacts DEF Inv, Signed, Fresh
  <2> QED BY <2>1, <1>0, <1>2 DEF PassesOK
<1>3. CASE Buy
  <2>1. Current \in Epoch /\ KeyFor(Current) \in Epoch
    BY <1>3, CurrentFacts DEF Buy, Inv
  <2> QED BY <2>1, <1>2, <1>3 DEF Buy
<1>4. ASSUME NEW r \in Asking, Record(r), ~UNCHANGED held
      PROVE  PassesOK'
  <2>1. /\ Give(Cardinality(ask[r].tokens), ask[r].new, ask[r].key, FALSE)
        /\ ask[r].new \in Epoch /\ ask[r].key \in Epoch
        /\ held' \subseteq held \cup Fresh(Cardinality(ask[r].tokens))
    BY <1>4 DEF Record, Inv, AsksOK, Ask
  <2> QED BY <2>1, <1>2
<1> QED BY <1>1, <1>3, <1>4
           DEF Next, CloseIssue, InsertEpoch, KeepKey, BurnClose, BurnAccept, BurnReopen, AdminStep,
               PullKeys, Spend, Bundle, Settle, Exchange, Check, Total, Sign, RecordRaises, GiveUp,
               Restart, SettleCut, StartAgain, vars

LEMMA NodesStep ==
    ASSUME Inv, [Next]_vars
    PROVE  NodesOK'
<1>0. NodesOK /\ Signed \subseteq Signed' /\ held \subseteq Signed
  BY SignedGrows DEF Inv, PassesOK
<1>1. CASE UNCHANGED <<nodes, reports>>
  BY <1>0, <1>1 DEF NodesOK, nodes
<1>2. ASSUME NEW n \in Node, NEW given, PullKeys(n, given)
      PROVE  NodesOK'
  <2>1. newest \in Epoch
    BY DEF Inv, EpochsOK
  <2>2. Pulled(given) \subseteq Epoch
    BY <2>1, LedgerAssumption DEF Pulled, Published, Epoch
  <2> QED BY <2>2, <1>0, <1>2 DEF PullKeys, NodesOK
<1>3. ASSUME NEW n \in Node, NEW t \in Token, NEW lost \in BOOLEAN, Spend(n, t, lost)
      PROVE  NodesOK'
  BY <1>0, <1>3 DEF Spend, NodesOK
<1>4. ASSUME NEW n \in Node, NEW t \in spent[n], Bundle(n, pass[t].epoch)
      PROVE  NodesOK'
  <2>1. t \in Token /\ pass[t] \in Pass /\ spent[n] \subseteq Token
    BY <1>0, <1>4 DEF NodesOK, Signed, Inv, PassesOK
  <2>2. [node |-> n, epoch |-> pass[t].epoch, tokens |-> spent[n]] \in Report
    BY <2>1 DEF Report, Pass
  <2> QED BY <2>2, <1>0, <1>4 DEF Bundle, nodes, NodesOK
<1>5. ASSUME NEW q \in reports, NEW again \in BOOLEAN, Settle(q, again)
      PROVE  NodesOK'
  BY <1>0, <1>5 DEF Settle, nodes, NodesOK
<1> QED BY <1>1, <1>2, <1>3, <1>4, <1>5
           DEF Next, CloseIssue, InsertEpoch, KeepKey, BurnClose, BurnAccept, BurnReopen, AdminStep,
               Buy, Exchange, Check, Total, Sign, Record, RecordRaises, GiveUp, Restart, SettleCut, StartAgain, vars

\* Rows are entered in the exchanged table and never taken out of it.
LEMMA EnterFacts ==
    ASSUME TablesOK, NEW T \in SUBSET Signed, NEW e \in Epoch, Enter(T, e)
    PROVE  /\ exchanged' \in [Token -> Epoch \cup {None}]
           /\ Out' = Out \cup T
<1>1. T \subseteq Token /\ e # None
  BY LedgerAssumption DEF Signed, Epoch
<1> QED BY <1>1 DEF Enter, Out, TablesOK

\* First come, first settled; a second node's claim is a conflict.
LEMMA OwnsFacts ==
    ASSUME TablesOK, NEW q \in Report, NEW T \in SUBSET Signed, Owns(q, T)
    PROVE  /\ settlement' \in [Token -> Claim \cup {None}]
           /\ conflict' \subseteq Token \X Node \X Node
           /\ \A t \in Token : settlement'[t] # None => t \in Signed
           /\ conflict \subseteq conflict'
           /\ \A t \in Token : settlement[t] # None => settlement'[t] = settlement[t]
           /\ \A t \in T : /\ settlement'[t] # None
                           /\ \/ settlement'[t].node = q.node
                              \/ <<t, q.node, settlement'[t].node>> \in conflict'
<1>1. /\ q.node \in Node /\ T \subseteq Token
      /\ [node |-> q.node, epoch |-> q.epoch] \in Claim
  BY DEF Report, Claim, Signed
<1>2. [node |-> q.node, epoch |-> q.epoch] # None
  BY <1>1, NoneAssumption
<1>3. settlement' \in [Token -> Claim \cup {None}]
  BY <1>1 DEF Owns, TablesOK
<1>4. \A t \in Token : settlement'[t] # None => t \in Signed
  BY DEF Owns, TablesOK
<1>5. conflict \subseteq conflict'
  BY DEF Owns
<1>6. conflict' \subseteq Token \X Node \X Node
  <2>1. \A t \in Token : settlement[t] # None => settlement[t].node \in Node
    BY DEF TablesOK, Claim
  <2> QED BY <1>1, <2>1 DEF Owns, TablesOK
<1>7. \A t \in Token : settlement[t] # None => settlement'[t] = settlement[t]
  BY DEF Owns
<1>8. \A t \in T : settlement[t] = None => settlement'[t] = [node |-> q.node, epoch |-> q.epoch]
  BY <1>1 DEF Owns
<1>9. \A t \in T : settlement[t] # None /\ settlement[t].node # q.node
                     => <<t, q.node, settlement[t].node>> \in conflict'
  BY DEF Owns
<1>10. ASSUME NEW t \in T
       PROVE  /\ settlement'[t] # None
              /\ \/ settlement'[t].node = q.node
                 \/ <<t, q.node, settlement'[t].node>> \in conflict'
  BY <1>1, <1>2, <1>7, <1>8, <1>9
<1> QED BY <1>3, <1>4, <1>5, <1>6, <1>7, <1>10

LEMMA TablesStep ==
    ASSUME Inv, [Next]_vars
    PROVE  TablesOK' /\ Out \subseteq Out'
<1>0. /\ TablesOK /\ NodesOK /\ AsksOK /\ Signed \subseteq Signed'
      /\ Signed \subseteq Token
  BY SignedGrows DEF Inv, Signed
<1>1. CASE UNCHANGED tables
  BY <1>0, <1>1 DEF tables, TablesOK, Out
<1>2. ASSUME NEW T \in SUBSET Signed, NEW e \in Epoch, Enter(T, e),
             UNCHANGED <<settlement, conflict>>
      PROVE  TablesOK' /\ Out \subseteq Out'
  <2>1. exchanged' \in [Token -> Epoch \cup {None}] /\ Out' = Out \cup T
    BY <1>0, <1>2, EnterFacts
  <2>2. Out' \subseteq Signed'
    BY <1>0, <2>1 DEF TablesOK
  <2> QED BY <1>0, <1>2, <2>1, <2>2 DEF TablesOK
<1>3. ASSUME NEW q \in reports, NEW T \in SUBSET q.tokens, Owns(q, T), exchanged' = exchanged
      PROVE  TablesOK' /\ Out \subseteq Out'
  <2>1. q \in Report /\ T \in SUBSET Signed
    BY <1>0, <1>3 DEF NodesOK
  <2>2. /\ settlement' \in [Token -> Claim \cup {None}]
        /\ conflict' \subseteq Token \X Node \X Node
        /\ \A t \in Token : settlement'[t] # None => t \in Signed
    BY <1>0, <1>3, <2>1, OwnsFacts
  <2>3. Out' = Out
    BY <1>3 DEF Out
  <2> QED BY <1>0, <1>3, <2>2, <2>3 DEF TablesOK
<1>4. ASSUME NEW r \in Asking, NEW part, RecordRaises(r, part) \/ Restart(r, part)
      PROVE  TablesOK' /\ Out \subseteq Out'
  <2>1. /\ part \in SUBSET Signed /\ ask[r].epoch \in Epoch
        /\ Enter(part, ask[r].epoch) /\ UNCHANGED <<settlement, conflict>>
    BY <1>0, <1>4 DEF RecordRaises, Restart, AsksOK, Ask
  <2> QED BY <1>2, <2>1
<1>5. ASSUME NEW r \in Asking, Record(r)
      PROVE  TablesOK' /\ Out \subseteq Out'
  <2>1. /\ ask[r].tokens \in SUBSET Signed /\ ask[r].epoch \in Epoch
        /\ Enter(ask[r].tokens, ask[r].epoch) /\ UNCHANGED <<settlement, conflict>>
    BY <1>0, <1>5 DEF Record, AsksOK, Ask
  <2> QED BY <1>2, <2>1
<1>6. ASSUME NEW q \in reports, NEW again \in BOOLEAN, Settle(q, again)
      PROVE  TablesOK' /\ Out \subseteq Out'
  BY <1>3, <1>6 DEF Settle
<1>7. ASSUME NEW q \in reports, NEW part \in SUBSET q.tokens, SettleCut(q, part)
      PROVE  TablesOK' /\ Out \subseteq Out'
  BY <1>3, <1>7 DEF SettleCut
<1> QED BY <1>1, <1>4, <1>5, <1>6, <1>7
           DEF Next, CloseIssue, InsertEpoch, KeepKey, BurnClose, BurnAccept, BurnReopen, AdminStep,
               Buy, PullKeys, Spend, Bundle, Exchange, Check, Total, Sign, GiveUp, tables, vars

LEMMA AsksStep ==
    ASSUME Inv, [Next]_vars
    PROVE  AsksOK'
<1>0. /\ AsksOK /\ EpochsOK /\ PassesOK
      /\ Signed \subseteq Signed' /\ burnt \subseteq Epoch /\ 0 \in Epoch
  BY SignedGrows, LedgerAssumption DEF Inv, EpochsOK, Epoch
<1>1. ASSUME \A r \in Asking : /\ ask'[r] \in Ask
                               /\ ask'[r].tokens \subseteq ask[r].tokens,
             ask' = [r \in Asking |-> ask'[r]]
      PROVE  AsksOK'
  BY <1>0, <1>1 DEF AsksOK
<1>2. Quiet \in Ask /\ Quiet.tokens = {}
  BY <1>0 DEF Quiet, Ask
<1>3. CASE UNCHANGED ask
  BY <1>0, <1>3 DEF AsksOK
<1>4. ASSUME NEW r \in Asking, NEW given \in BOOLEAN,
             Check(r, given) \/ Total(r) \/ Sign(r) \/ GiveUp(r)
      PROVE  AsksOK'
  <2>1. ask[r] \in Ask
    BY <1>0 DEF AsksOK
  <2>2. CASE Served(r)
    BY <1>0, <1>1, <1>2, <2>2 DEF Served, To, AsksOK
  <2>3. ASSUME ~Served(r)
        PROVE  \E a \in Ask : a.tokens = ask[r].tokens /\ To(r, a)
    <3>1. CASE Check(r, given)
      BY <3>1, <2>1, <2>3 DEF Check, Ask
    <3>2. CASE Total(r)
      BY <3>2, <2>1, <2>3 DEF Total, Ask
    <3>3. CASE Sign(r)
      BY <3>3, <2>1, <2>3, CurrentFacts, <1>0 DEF Sign, Ask
    <3>4. CASE GiveUp(r)
      BY <3>4, <2>1, <2>3 DEF GiveUp, Ask
    <3> QED BY <1>4, <3>1, <3>2, <3>3, <3>4
  <2> QED BY <1>0, <1>1, <2>2, <2>3 DEF To, AsksOK
<1>5. ASSUME NEW r \in Asking, NEW T \in SUBSET held, NEW e \in burnt, Exchange(r, T, e)
      PROVE  AsksOK'
  <2>1. /\ T \subseteq Signed /\ T \subseteq Token /\ e \in Epoch
        /\ ask' = [ask EXCEPT ![r] = [pc |-> "check", tokens |-> T, epoch |-> e, new |-> 0,
                                     key |-> 0, heard |-> TRUE]]
    BY <1>0, <1>5 DEF Exchange, To, PassesOK, Signed
  <2>2. ask'[r] \in Ask /\ ask'[r].tokens = T
    BY <1>0, <2>1 DEF AsksOK, Ask
  <2> QED BY <1>0, <2>1, <2>2 DEF AsksOK
<1>6. ASSUME NEW r \in Asking, NEW part, Record(r) \/ RecordRaises(r, part)
      PROVE  AsksOK'
  BY <1>0, <1>1, <1>2, <1>6 DEF Record, RecordRaises, Served, To, AsksOK
<1>7. CASE StartAgain
  BY <1>0, <1>1, <1>2, <1>7 DEF StartAgain, AsksOK
<1> QED BY <1>3, <1>4, <1>5, <1>6, <1>7
           DEF Next, CloseIssue, InsertEpoch, KeepKey, BurnClose, BurnAccept, BurnReopen, AdminStep,
               Buy, PullKeys, Spend, Bundle, Settle, Restart, SettleCut, vars

LEMMA AnsweredStep ==
    ASSUME Inv, [Next]_vars
    PROVE  AnsweredOK'
<1>0. AnsweredOK /\ TablesOK /\ AsksOK /\ Out \subseteq Out'
  BY TablesStep DEF Inv
<1>1. CASE UNCHANGED answered
  BY <1>0, <1>1 DEF AnsweredOK
<1>2. ASSUME NEW r \in Asking, Record(r)
      PROVE  AnsweredOK'
  <2>1. /\ ask[r].tokens \cap Out = {} /\ ask[r].tokens \subseteq Out'
        /\ answered' = [t \in Token |-> answered[t] + (IF t \in ask[r].tokens THEN 1 ELSE 0)]
    BY <1>0, <1>2, EnterFacts DEF Record, Clean, AsksOK, Ask
  <2>2. \A t \in Token : answered[t] = 0 \/ answered[t] = 1
    BY <1>0 DEF AnsweredOK
  <2> QED BY <1>0, <2>1, <2>2 DEF AnsweredOK
<1> QED BY <1>1, <1>2
           DEF Next, CloseIssue, InsertEpoch, KeepKey, BurnClose, BurnAccept, BurnReopen, AdminStep,
               Buy, PullKeys, Spend, Bundle, Settle, Exchange, Check, Total, Sign, RecordRaises,
               GiveUp, Restart, SettleCut, StartAgain, told, vars

LEMMA ClaimsStep ==
    ASSUME Inv, [Next]_vars
    PROVE  ClaimsOK'
<1>0. ClaimsOK /\ TablesOK /\ NodesOK
  BY DEF Inv
<1>1. CASE UNCHANGED <<claimed, settlement, conflict>>
  BY <1>0, <1>1 DEF ClaimsOK, ClaimsAreKept
<1>2. ASSUME NEW q \in reports, NEW T \in SUBSET q.tokens, Owns(q, T),
             \A c \in claimed' : c \in claimed \/ \E t \in T : c = <<q.node, t>>
      PROVE  ClaimsOK'
  <2>1. q \in Report /\ q.node \in Node /\ T \in SUBSET Signed /\ T \subseteq Token
    BY <1>0, <1>2 DEF NodesOK, Report, Signed
  <2>2. /\ conflict \subseteq conflict'
        /\ \A t \in Token : settlement[t] # None => settlement'[t] = settlement[t]
        /\ \A t \in T : /\ settlement'[t] # None
                        /\ \/ settlement'[t].node = q.node
                           \/ <<t, q.node, settlement'[t].node>> \in conflict'
    BY <1>0, <1>2, <2>1, OwnsFacts
  <2>3. ASSUME NEW c \in claimed'
        PROVE  /\ c \in Node \X Token /\ settlement'[c[2]] # None
               /\ \/ settlement'[c[2]].node = c[1]
                  \/ <<c[2], c[1], settlement'[c[2]].node>> \in conflict'
    <3>1. CASE c \in claimed
      BY <1>0, <2>2, <3>1 DEF ClaimsOK, ClaimsAreKept
    <3>2. ASSUME NEW t \in T, c = <<q.node, t>>
          PROVE  /\ c \in Node \X Token /\ settlement'[c[2]] # None
                 /\ \/ settlement'[c[2]].node = c[1]
                    \/ <<c[2], c[1], settlement'[c[2]].node>> \in conflict'
      BY <2>1, <2>2, <3>2
    <3> QED BY <1>2, <3>1, <3>2
  <2> QED BY <2>3 DEF ClaimsOK, ClaimsAreKept
<1>3. ASSUME NEW q \in reports, NEW again \in BOOLEAN, Settle(q, again)
      PROVE  ClaimsOK'
  BY <1>2, <1>3 DEF Settle
<1>4. ASSUME NEW q \in reports, NEW part \in SUBSET q.tokens, SettleCut(q, part)
      PROVE  ClaimsOK'
  BY <1>2, <1>4 DEF SettleCut, StartAgain, told
<1> QED BY <1>1, <1>3, <1>4
           DEF Next, CloseIssue, InsertEpoch, KeepKey, BurnClose, BurnAccept, BurnReopen, AdminStep,
               Buy, PullKeys, Spend, Bundle, Exchange, Check, Total, Sign, Record, RecordRaises,
               GiveUp, Restart, StartAgain, tables, told, vars

----------------------------------------------------------------------------

LEMMA FaultsStep ==
    ASSUME Inv, [Next]_vars
    PROVE  faults' \in 0 .. MaxFaults
<1>1. faults \in 0 .. MaxFaults /\ MaxFaults \in Nat
  BY LedgerAssumption DEF Inv
<1>2. CASE Fault
  BY <1>1, <1>2 DEF Fault
<1> QED BY <1>1, <1>2
           DEF Next, CloseIssue, InsertEpoch, KeepKey, BurnClose, BurnAccept, BurnReopen, AdminStep,
               Buy, PullKeys, Spend, Bundle, Settle, Exchange, Check, Total, Sign, Record,
               RecordRaises, GiveUp, Restart, SettleCut, StartAgain, vars

LEMMA InitInv == Init => Inv
<1> SUFFICES ASSUME Init PROVE Inv
  OBVIOUS
<1>0. 0 \in Epoch /\ 0 \in 0 .. MaxFaults
  BY LedgerAssumption DEF Epoch
<1>1. EpochsOK /\ AdminAt
  BY <1>0 DEF Init, EpochsOK, AdminAt, AtRest, Admin
<1>2. PassesOK /\ NodesOK /\ TablesOK
  BY <1>0 DEF Init, PassesOK, NodesOK, TablesOK, Signed, Out
<1>3. AsksOK
  BY <1>0 DEF Init, AsksOK, Quiet, Ask
<1>4. AnsweredOK /\ ClaimsOK
  BY DEF Init, AnsweredOK, ClaimsOK, ClaimsAreKept
<1> QED BY <1>0, <1>1, <1>2, <1>3, <1>4 DEF Init, Inv

LEMMA Invariance == Spec => []Inv
<1>1. Inv /\ [Next]_vars => Inv'
  BY EpochsStep, PassesStep, NodesStep, TablesStep, AsksStep, AnsweredStep, ClaimsStep, FaultsStep
     DEF Inv
<1> QED BY InitInv, <1>1, PTL DEF Spec

\* The shapes of the tables; whatever is held, spent, exchanged or reported was signed, and
\* only the newest epoch issues, a burnt one never again (issuer.py rotate, burn).
THEOREM Typing == Spec => []TypeOK
<1>1. Inv => TypeOK
  BY DEF Inv, EpochsOK, PassesOK, NodesOK, TablesOK, AsksOK, TypeOK
<1> QED BY Invariance, <1>1, PTL

\* However many exchange requests with one pass are served at the same time, and whatever
\* crashes leave of their rows, one of them is answered (issuer.py exchange, record_exchanges).
THEOREM OneExchange == Spec => []SignedOnce
<1>1. Inv => SignedOnce
  BY DEF Inv, AnsweredOK, SignedOnce
<1> QED BY Invariance, <1>1, PTL

\* A claim of a node that was recorded stays on record, as the row of its pass or as
\* a conflict with the owner (store.py settle).
THEOREM Claims == Spec => []ClaimsAreKept
<1>1. Inv => ClaimsAreKept
  BY DEF Inv, ClaimsOK
<1> QED BY Invariance, <1>1, PTL
=============================================================================
