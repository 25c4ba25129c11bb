---------------------------- MODULE TopUpProofs ----------------------------
(***************************************************************************)
(* What TLAPS proves of TopUp: for any number of processes, whatever they  *)
(* overwrite in each other's file, the wallet holds issued passes of one   *)
(* key; for one process, no handle is derived twice and no paid voucher is *)
(* forgotten.                                                              *)
(***************************************************************************)
EXTENDS TopUp, TLAPS

-----------------------------------------------------------------------------
(* The inductive invariant.                                                *)

\* What ClientOK and Informed ask of a process d, when the rows are rs.
Fit(d, rs) ==
    /\ d.pc \in {"quote", "quoted", "wait", "status", "answered", "redeem",
                 "signed", "merged"} => d.vid # None
    /\ d.pc \in {"redeem", "signed", "merged"} => d.size \in 1..MaxTokens
    /\ d.pc \in {"quoted", "redeem", "signed", "merged"} => rs[d.vid] # None
    /\ d.pc \in {"signed", "merged"} =>
           rs[d.vid].issued /\ rs[d.vid].owed = d.size
    /\ d.pc = "answered" /\ d.size # None => rs[d.vid] # None

\* A status that came back with a number of tokens came from a row.
Informed ==
    \A p \in Client :
        client[p].pc = "answered" /\ client[p].size # None => row[client[p].vid] # None

\* An address that was shown belongs to a row.
ToldIsKnown == \A v \in told : row[v] # None

TInv == TypeOK /\ Informed /\ ToldIsKnown

\* Rows are never removed, and an issued row owes what it owed.
Grows ==
    \A v \in Handle : row[v] # None =>
        /\ row'[v] # None
        /\ row[v].issued => row'[v].issued /\ row'[v].owed = row[v].owed

\* Where a process d that was c is when it has finished with a voucher.
Done(c, d) ==
    /\ d \in Process
    /\ d.pc \in {"off", "status", "wait"}
    /\ d.pc # "off" => d.vid # None /\ d.copy = c.copy

-----------------------------------------------------------------------------
(* Lemmas about the pieces of a client's step.                             *)

LEMMA HandlesAreNumbers == Handle \subseteq Int /\ None \notin Handle
BY AbsentAssumption, BoundsAssumption DEF Handle

LEMMA SizesAreNumbers ==
    /\ 0..MaxTokens \subseteq Int /\ None \notin 0..MaxTokens
    /\ Epoch \subseteq Int /\ None \notin Epoch
BY AbsentAssumption, BoundsAssumption DEF Epoch

LEMMA OffIsProcess == Off \in Process
BY BoundsAssumption DEF Off, Process, File, Handle

LEMMA LookAtIsProcess ==
    ASSUME NEW c \in Process, NEW v \in Handle, NEW left \in SUBSET Handle,
           NEW single \in BOOLEAN
    PROVE  /\ LookAt(c, v, left, single) \in Process
           /\ LookAt(c, v, left, single).pc = "status"
           /\ LookAt(c, v, left, single).vid = v
           /\ LookAt(c, v, left, single).copy = c.copy
BY DEF LookAt, Process

LEMMA ContinuesIsDone ==
    ASSUME NEW p \in Client, NEW c \in Process, Continues(p, c)
    PROVE  \E d \in Process : Done(c, d) /\ Becomes(p, d)
<1>1. CASE c.rest = {}
  BY <1>1, OffIsProcess DEF Continues, Done, Off
<1>2. CASE c.rest # {}
  <2>1. PICK v \in c.rest : Becomes(p, LookAt(c, v, c.rest \ {v}, FALSE))
    BY <1>2 DEF Continues
  <2>2. v \in Handle /\ c.rest \ {v} \in SUBSET Handle
    BY DEF Process
  <2> DEFINE d == LookAt(c, v, c.rest \ {v}, FALSE)
  <2>3. d \in Process /\ d.pc = "status" /\ d.vid = v /\ d.copy = c.copy
    BY <2>2, LookAtIsProcess
  <2>4. Done(c, d)
    BY <2>2, <2>3, HandlesAreNumbers DEF Done
  <2> HIDE DEF d
  <2> QED BY <2>1, <2>3, <2>4 DEF d
<1> QED BY <1>1, <1>2

LEMMA NotYetIsDone ==
    ASSUME NEW p \in Client, NEW c \in Process, c.vid # None, NotYet(p, c)
    PROVE  \E d \in Process : Done(c, d) /\ Becomes(p, d)
<1>1. CASE c.alone
  <2>1. [c EXCEPT !.pc = "wait"] \in Process
    BY DEF Process
  <2> QED BY <1>1, <2>1 DEF NotYet, Done, Process
<1>2. CASE ~c.alone
  BY <1>2, ContinuesIsDone DEF NotYet
<1> QED BY <1>1, <1>2

LEMMA DoneIsFit == ASSUME NEW c, NEW d, NEW rs, Done(c, d) PROVE Fit(d, rs)
BY DEF Done, Fit

\* A step in which one process becomes d and rows only grow keeps every process fit.
LEMMA ProcessesStayFit ==
    ASSUME TInv, row' \in [Handle -> Row \cup {None}], Grows,
           NEW p \in Client, NEW d \in Process, Becomes(p, d), Fit(d, row')
    PROVE  client' \in [Client -> Process] /\ (\A a \in Client : ClientOK(a))' /\ Informed'
<1>1. client' \in [Client -> Process] /\ client'[p] = d
  BY DEF Becomes, TInv, TypeOK
<1>2. ASSUME NEW a \in Client PROVE Fit(client'[a], row')
  <2>1. CASE a = p
    BY <1>1, <2>1
  <2>2. CASE a # p
    <3>1. client'[a] = client[a] /\ client[a] \in Process
      BY <2>2 DEF Becomes, TInv, TypeOK
    <3>2. Fit(client[a], row)
      BY DEF TInv, TypeOK, ClientOK, Informed, Fit
    <3>3. client[a].vid # None => client[a].vid \in Handle
      BY <3>1 DEF Process
    <3> QED BY <3>1, <3>2, <3>3 DEF Grows, Fit
  <2> QED BY <2>1, <2>2
<1> QED BY <1>1, <1>2 DEF Fit, ClientOK, Informed

LEMMA IdleProcessesStayFit ==
    ASSUME TInv, row' \in [Handle -> Row \cup {None}], Grows, UNCHANGED client
    PROVE  client' \in [Client -> Process] /\ (\A a \in Client : ClientOK(a))' /\ Informed'
<1>1. ASSUME NEW a \in Client PROVE Fit(client[a], row')
  <2>1. client[a] \in Process /\ Fit(client[a], row)
    BY DEF TInv, TypeOK, ClientOK, Informed, Fit
  <2>2. client[a].vid # None => client[a].vid \in Handle
    BY <2>1 DEF Process
  <2> QED BY <2>1, <2>2 DEF Grows, Fit
<1> QED BY <1>1 DEF Fit, ClientOK, Informed, TInv, TypeOK

-----------------------------------------------------------------------------
(* The wallet and the requests.                                            *)

\* Everything of TypeOK but the processes.
Shape ==
    /\ file \in File
    /\ sent \subseteq Request
    /\ row \in [Handle -> Row \cup {None}]
    /\ epoch \in Epoch
    /\ told \subseteq Handle /\ collected \subseteq Handle
    /\ wallet \in Wallet
    /\ faults \in 0..MaxFaults
    /\ \A q \in sent : q.kind = "redeem" => q.size >= 1 /\ row[q.vid] # None
    /\ ToldIsKnown

\* One process becomes d and no row changes.
LEMMA ClientStep ==
    ASSUME TInv, Shape', UNCHANGED row,
           NEW p \in Client, NEW d \in Process, Becomes(p, d), Fit(d, row)
    PROVE  TInv'
<1>1. row' \in [Handle -> Row \cup {None}] /\ Grows /\ Fit(d, row')
  BY DEF TInv, TypeOK, Grows, Fit
<1>2. client' \in [Client -> Process] /\ (\A a \in Client : ClientOK(a))' /\ Informed'
  BY <1>1, ProcessesStayFit
<1> QED BY <1>2 DEF TInv, TypeOK, Shape

\* One process is done with its voucher.
LEMMA DoneStep ==
    ASSUME TInv, Shape', UNCHANGED row, NEW p \in Client, NEW c,
           \E d \in Process : Done(c, d) /\ Becomes(p, d)
    PROVE  TInv'
<1>1. PICK d \in Process : Done(c, d) /\ Becomes(p, d)
  OBVIOUS
<1> QED BY <1>1, DoneIsFit, ClientStep

\* No process changes and rows only grow.
LEMMA IdleStep ==
    ASSUME TInv, Shape', Grows, UNCHANGED client
    PROVE  TInv'
<1>1. row' \in [Handle -> Row \cup {None}]
  BY DEF Shape
<1> QED BY <1>1, IdleProcessesStayFit DEF TInv, TypeOK, Shape

LEMMA WithoutIsFile ==
    ASSUME NEW f \in File, NEW v PROVE Without(f, v) \in File
BY DEF Without, File

-----------------------------------------------------------------------------
(* Type correctness.                                                       *)

LEMMA InitTyped == Init => TInv
<1> SUFFICES ASSUME Init PROVE TInv
  OBVIOUS
<1>1. TypeOK
  BY OffIsProcess, BoundsAssumption
     DEF Init, TypeOK, File, Row, Epoch, Wallet, ClientOK, Off
<1> QED BY <1>1 DEF Init, TInv, Informed, ToldIsKnown, Off

\* A process in the middle of an operation.
LEMMA Busy ==
    ASSUME TInv, NEW p \in Client
    PROVE  /\ client[p] \in Process /\ client[p].copy \in File
           /\ Fit(client[p], row)
           /\ client[p].vid # None => client[p].vid \in Handle
BY DEF TInv, TypeOK, ClientOK, Informed, Fit, Process

LEMMA LoadTyped == ASSUME TInv, NEW p \in Client, Load(p) PROVE TInv'
<1> DEFINE d == [Off EXCEPT !.pc = "ready", !.copy = file]
<1>1. d \in Process /\ Fit(d, row)
  BY OffIsProcess DEF TInv, TypeOK, Process, Off, Fit
<1>2. Shape'
  BY DEF Load, TInv, TypeOK, Shape, ToldIsKnown, issuer, buyer
<1> QED BY <1>1, <1>2, ClientStep DEF Load, issuer

LEMMA QuoteTyped == ASSUME TInv, NEW p \in Client, Quote(p) PROVE TInv'
<1> DEFINE n == client[p].copy.counter
           copy == [counter |-> n + 1, pending |-> client[p].copy.pending \cup {n}]
           d == [client[p] EXCEPT !.pc = "quote", !.vid = n, !.copy = copy]
           q == [kind |-> "quote", from |-> p, vid |-> n, size |-> 0]
<1>1. n \in Handle /\ copy \in File
  BY Busy, BoundsAssumption DEF Quote, File, Handle
<1>2. d \in Process /\ Fit(d, row)
  BY <1>1, Busy, HandlesAreNumbers DEF Process, Fit
<1>3. q \in Request /\ q.kind # "redeem"
  BY <1>1, BoundsAssumption DEF Request
<1>4. file' = copy /\ sent' = sent \cup {q} /\ Becomes(p, d)
      /\ UNCHANGED <<issuer, buyer, faults>>
  BY DEF Quote, Save
<1> HIDE DEF copy, d, q, n
<1>5. Shape'
  BY <1>1, <1>3, <1>4 DEF TInv, TypeOK, Shape, ToldIsKnown, issuer, buyer
<1> QED BY <1>2, <1>4, <1>5, ClientStep DEF issuer

LEMMA NoteQuoteTyped == ASSUME TInv, NEW p \in Client, NoteQuote(p) PROVE TInv'
<1> DEFINE d == [client[p] EXCEPT !.pc = "wait", !.alone = TRUE]
<1>1. d \in Process /\ Fit(d, row) /\ client[p].vid \in Handle
      /\ row[client[p].vid] # None
  BY Busy DEF NoteQuote, Process, Fit
<1>2. Shape'
  BY <1>1, Busy DEF NoteQuote, Save, TInv, TypeOK, Shape, ToldIsKnown, issuer
<1> QED BY <1>1, <1>2, ClientStep DEF NoteQuote, issuer

LEMMA ResumeTyped == ASSUME TInv, NEW p \in Client, Resume(p) PROVE TInv'
<1>1. PICK v \in client[p].copy.pending :
          Becomes(p, LookAt(client[p], v, client[p].copy.pending \ {v}, FALSE))
  BY DEF Resume
<1> DEFINE d == LookAt(client[p], v, client[p].copy.pending \ {v}, FALSE)
<1>2. v \in Handle /\ client[p].copy.pending \ {v} \in SUBSET Handle
  BY Busy DEF File
<1>3. d \in Process /\ d.pc = "status" /\ d.vid = v
  BY <1>2, Busy, LookAtIsProcess
<1> HIDE DEF d
<1>4. Fit(d, row)
  BY <1>2, <1>3, HandlesAreNumbers DEF Fit
<1>5. Shape'
  BY DEF Resume, TInv, TypeOK, Shape, ToldIsKnown, issuer, buyer
<1> QED BY <1>1, <1>3, <1>4, <1>5, ClientStep DEF Resume, issuer, d

LEMMA PollTyped == ASSUME TInv, NEW p \in Client, Poll(p) PROVE TInv'
<1>1. PICK v \in told : Becomes(p, LookAt(client[p], v, {}, TRUE))
  BY DEF Poll
<1> DEFINE d == LookAt(client[p], v, {}, TRUE)
<1>2. v \in Handle /\ {} \in SUBSET Handle /\ TRUE \in BOOLEAN /\ client[p] \in Process
  BY Busy DEF TInv, TypeOK
<1>3. d \in Process /\ d.pc = "status" /\ d.vid = v
  BY <1>2, LookAtIsProcess
<1> HIDE DEF d
<1>4. Fit(d, row)
  BY <1>2, <1>3, HandlesAreNumbers DEF Fit
<1>5. Shape'
  BY DEF Poll, TInv, TypeOK, Shape, ToldIsKnown, issuer, buyer
<1> QED BY <1>1, <1>3, <1>4, <1>5, ClientStep DEF Poll, issuer, d

LEMMA StatusTyped == ASSUME TInv, NEW p \in Client, Status(p) PROVE TInv'
<1> DEFINE v == client[p].vid
           k == IF row[v] = None THEN None ELSE row[v].owed
           d == [client[p] EXCEPT !.pc = "answered", !.size = k]
<1>1. v \in Handle /\ row[v] \in Row \cup {None}
  BY Busy DEF Status, Fit, TInv, TypeOK
<1>2. k \in (0..MaxTokens) \cup {None} /\ (k # None => row[v] # None)
  BY <1>1 DEF Row
<1>3. d \in Process /\ Fit(d, row)
  BY <1>1, <1>2, Busy, HandlesAreNumbers DEF Process, Fit
<1>4. Shape'
  BY DEF Status, TInv, TypeOK, Shape, ToldIsKnown, issuer, buyer
<1> QED BY <1>3, <1>4, ClientStep DEF Status, issuer

LEMMA DropTyped == ASSUME TInv, NEW p \in Client, Drop(p) PROVE TInv'
<1> DEFINE f == Without(client[p].copy, client[p].vid)
           c == [client[p] EXCEPT !.copy = f]
<1>1. f \in File /\ c \in Process
  BY Busy, WithoutIsFile DEF Process
<1>2. Continues(p, c)
  BY DEF Drop
<1>3. Shape'
  BY <1>1 DEF Drop, Save, TInv, TypeOK, Shape, ToldIsKnown, issuer, buyer
<1> HIDE DEF c
<1> QED BY <1>1, <1>2, <1>3, ContinuesIsDone, DoneStep DEF Drop, issuer

LEMMA NoteOpenTyped == ASSUME TInv, NEW p \in Client, NoteOpen(p) PROVE TInv'
<1>1. client[p] \in Process /\ client[p].vid # None /\ NotYet(p, client[p])
  BY Busy DEF NoteOpen, Fit
<1>2. Shape'
  BY Busy DEF NoteOpen, Save, TInv, TypeOK, Shape, ToldIsKnown, issuer, buyer
<1> QED BY <1>1, <1>2, NotYetIsDone, DoneStep DEF NoteOpen, issuer

LEMMA PostTyped == ASSUME TInv, NEW p \in Client, Post(p) PROVE TInv'
<1> DEFINE d == [client[p] EXCEPT !.pc = "redeem"]
           q == [kind |-> "redeem", from |-> p, vid |-> client[p].vid,
                 size |-> client[p].size]
<1>1. client[p].vid \in Handle /\ row[client[p].vid] # None
      /\ client[p].size \in 1..MaxTokens
  BY Busy, SizesAreNumbers DEF Post, Fit, Process
<1>2. d \in Process /\ Fit(d, row)
  BY <1>1, Busy, HandlesAreNumbers DEF Process, Fit
<1>3. q \in Request /\ q.size >= 1 /\ row[q.vid] # None
  BY <1>1 DEF Request
<1>4. sent' = sent \cup {q} /\ Becomes(p, d) /\ UNCHANGED <<file, issuer, buyer, faults>>
  BY DEF Post
<1> HIDE DEF d, q
<1>5. Shape'
  BY <1>3, <1>4 DEF TInv, TypeOK, Shape, ToldIsKnown, issuer, buyer
<1> QED BY <1>2, <1>4, <1>5, ClientStep DEF issuer

LEMMA MergeTyped == ASSUME TInv, NEW p \in Client, Merge(p) PROVE TInv'
<1> DEFINE d == [client[p] EXCEPT !.pc = "merged"]
           v == client[p].vid
<1>1. v \in Handle /\ row[v] \in Row /\ client[p].size \in 1..MaxTokens
  BY Busy DEF Merge, Fit, TInv, TypeOK
<1>2. BatchOf(v, client[p].size) \subseteq Pass
  BY <1>1, BoundsAssumption DEF BatchOf, Pass
<1>3. wallet' \in Wallet
  BY <1>1, <1>2 DEF Merge, TInv, TypeOK, Wallet, Row, Key, KeyOf, RsaKey
<1>4. d \in Process /\ Fit(d, row)
  BY Busy DEF Merge, Process, Fit
<1>5. Shape'
  BY <1>1, <1>3 DEF Merge, TInv, TypeOK, Shape, ToldIsKnown, issuer
<1> QED BY <1>4, <1>5, ClientStep DEF Merge, issuer

LEMMA MergeRefusedTyped == ASSUME TInv, NEW p \in Client, MergeRefused(p) PROVE TInv'
<1>1. Shape'
  BY DEF MergeRefused, TInv, TypeOK, Shape, ToldIsKnown, issuer, buyer
<1> QED BY <1>1, Busy, ContinuesIsDone, DoneStep DEF MergeRefused, issuer

LEMMA PopPendingTyped == ASSUME TInv, NEW p \in Client, PopPending(p) PROVE TInv'
<1> DEFINE f == Without(client[p].copy, client[p].vid)
           c == [client[p] EXCEPT !.copy = f]
<1>1. f \in File /\ c \in Process
  BY Busy, WithoutIsFile DEF Process
<1>2. Continues(p, c)
  BY DEF PopPending
<1>3. Shape'
  BY <1>1 DEF PopPending, Save, TInv, TypeOK, Shape, ToldIsKnown, issuer, buyer
<1> HIDE DEF c
<1> QED BY <1>1, <1>2, <1>3, ContinuesIsDone, DoneStep DEF PopPending, issuer

\* A process that stops: a timeout, a closed dialog, an error or a crash.
LEMMA StopsTyped ==
    ASSUME TInv, NEW p \in Client, TimesOut(p) \/ Close(p) \/ Fails(p)
    PROVE  TInv'
<1>1. Off \in Process /\ Fit(Off, row)
  BY OffIsProcess DEF Off, Fit
<1>2. Becomes(p, Off) /\ UNCHANGED <<file, sent, issuer, buyer>> /\ faults' \in 0..MaxFaults
  BY BoundsAssumption DEF TimesOut, Close, Fails, TInv, TypeOK
<1>3. Shape'
  BY <1>2 DEF TInv, TypeOK, Shape, ToldIsKnown, issuer, buyer
<1> QED BY <1>1, <1>2, <1>3, ClientStep DEF issuer

LEMMA ServeQuoteTyped ==
    ASSUME TInv, NEW q \in sent, ServeQuote(q) PROVE TInv' /\ Grows
<1>1. q \in Request /\ q.vid \in Handle /\ q.from \in Client /\ NewRow \in Row
  BY BoundsAssumption DEF TInv, TypeOK, Request, NewRow, Row
<1>2. row' \in [Handle -> Row \cup {None}] /\ Grows /\ row'[q.vid] # None
  <2>1. NewRow # None
    BY <1>1, AbsentAssumption
  <2> QED BY <1>1, <2>1 DEF ServeQuote, TInv, TypeOK, Grows
<1>3. Shape'
  BY <1>2 DEF ServeQuote, TInv, TypeOK, Shape, ToldIsKnown, buyer, Grows, Request
<1>4. CASE Waits(q)
  <2> DEFINE d == [client[q.from] EXCEPT !.pc = "quoted"]
  <2>1. d \in Process /\ Fit(d, row') /\ Becomes(q.from, d)
    BY <1>1, <1>2, <1>4, Busy, HandlesAreNumbers
       DEF ServeQuote, Waits, Becomes, Process, Fit, TInv, TypeOK
  <2> HIDE DEF d
  <2> QED BY <1>1, <1>2, <1>3, <2>1, ProcessesStayFit DEF TInv, TypeOK, Shape
<1>5. CASE ~Waits(q)
  BY <1>2, <1>3, <1>5, IdleStep DEF ServeQuote
<1> QED BY <1>4, <1>5, <1>2

\* What a request to redeem does to the rows, and what its verdict means.
LEMMA RedeemGrows ==
    ASSUME TInv, NEW q \in sent, ServeRedeem(q)
    PROVE  /\ Shape' /\ Grows /\ row[q.vid] \in Row /\ q \in Request /\ q.size >= 1
           /\ Verdict(q) = "signed" => row'[q.vid].issued /\ row'[q.vid].owed = q.size
           /\ Verdict(q) = "resize" => row'[q.vid].owed \in 1..MaxTokens
<1>1. q \in Request /\ row[q.vid] \in Row /\ q.size >= 1 /\ q.vid \in Handle
  BY DEF ServeRedeem, TInv, TypeOK, Request
<1>2. row[q.vid] # None
  BY DEF ServeRedeem, TInv, TypeOK
<1>3. Verdict(q) = "signed" => row[q.vid].owed = q.size
  BY <1>1 DEF Verdict, Repeats, Row, Request, Epoch
<1>4. Verdict(q) = "resize" => row[q.vid].owed \in 1..MaxTokens
  BY <1>1, BoundsAssumption DEF Verdict, Repeats, Row, Request, Epoch
<1>5. row' \in [Handle -> Row \cup {None}] /\ row'[q.vid].owed = row[q.vid].owed
      /\ (Verdict(q) = "signed" => row'[q.vid].issued)
  BY <1>1 DEF ServeRedeem, TInv, TypeOK, Row
<1>6. Grows
  <2>1. ASSUME NEW r \in Row PROVE [r EXCEPT !.issued = TRUE].issued
                                    /\ [r EXCEPT !.issued = TRUE].owed = r.owed
    BY DEF Row
  <2>2. [row[q.vid] EXCEPT !.issued = TRUE] \in Row
    BY <1>1 DEF Row
  <2> QED BY <1>1, <2>1, <2>2, AbsentAssumption DEF ServeRedeem, TInv, TypeOK, Grows
<1>7. Shape'
  BY <1>5, <1>6 DEF ServeRedeem, TInv, TypeOK, Shape, ToldIsKnown, buyer, Grows, Request
<1> QED BY <1>1, <1>3, <1>4, <1>5, <1>6, <1>7

LEMMA UnheardTyped == ASSUME TInv, NEW q \in sent, Unheard(q) PROVE TInv'
BY RedeemGrows, IdleStep DEF Unheard

LEMMA AnswerTyped == ASSUME TInv, NEW q \in sent, Answer(q) PROVE TInv'
<1> DEFINE p == q.from
           c == client[p]
<1>1. /\ Shape' /\ Grows /\ q \in Request /\ q.size >= 1
      /\ Verdict(q) = "signed" => row'[q.vid].issued /\ row'[q.vid].owed = q.size
      /\ Verdict(q) = "resize" => row'[q.vid].owed \in 1..MaxTokens
      /\ ServeRedeem(q) /\ Hears(p, Verdict(q), q) /\ Waits(q)
  BY RedeemGrows DEF Answer
<1>2. /\ p \in Client /\ c \in Process /\ c.pc = "redeem" /\ c.vid = q.vid /\ c.size = q.size
      /\ Fit(c, row) /\ q.vid \in Handle
  BY <1>1, Busy DEF Waits, ServeRedeem, Request
<1>3. row' \in [Handle -> Row \cup {None}] /\ row'[q.vid] # None
  BY <1>1, <1>2 DEF Shape, Grows, Fit
<1>4. ASSUME NEW d \in Process, Becomes(p, d), Fit(d, row') PROVE TInv'
  BY <1>1, <1>2, <1>3, <1>4, ProcessesStayFit DEF TInv, TypeOK, Shape
<1>5. ASSUME \E d \in Process : Done(c, d) /\ Becomes(p, d) PROVE TInv'
  BY <1>4, <1>5, DoneIsFit
<1>6. CASE Verdict(q) = "signed"
  <2> DEFINE d == [c EXCEPT !.pc = "signed"]
  <2>1. Becomes(p, d)
    BY <1>1, <1>6 DEF Hears
  <2>2. d \in Process /\ Fit(d, row')
    BY <1>1, <1>2, <1>3, <1>6, HandlesAreNumbers DEF Process, Fit
  <2> QED BY <1>4, <2>1, <2>2
<1>7. CASE Verdict(q) = "open"
  BY <1>1, <1>2, <1>5, <1>7, NotYetIsDone, HandlesAreNumbers DEF Hears
<1>8. CASE Verdict(q) = "closed"
  <2>1. Becomes(p, Off) /\ Off \in Process /\ Fit(Off, row')
    BY <1>1, <1>8, OffIsProcess DEF Hears, Off, Fit
  <2> QED BY <1>4, <2>1
<1>9. CASE Verdict(q) = "resize" /\ ~c.again
  <2> DEFINE k == row[q.vid].owed
             d == [c EXCEPT !.pc = "answered", !.again = TRUE, !.size = k]
  <2>1. Becomes(p, d)
    BY <1>1, <1>9 DEF Hears
  <2>2. row[q.vid] \in Row
    BY <1>1, RedeemGrows
  <2>3. k \in (0..MaxTokens) \cup {None}
    BY <2>2 DEF Row
  <2> HIDE DEF k
  <2>4. d \in Process
    BY <1>2, <2>3 DEF Process
  <2>5. d.pc = "answered" /\ d.vid = q.vid
    BY <1>2 DEF Process
  <2> HIDE DEF d
  <2>6. Fit(d, row')
    BY <1>2, <1>3, <2>5, HandlesAreNumbers DEF Fit
  <2> QED BY <1>4, <2>1, <2>4, <2>6
<1>10. CASE Verdict(q) \notin {"signed", "open", "closed"} /\ ~(Verdict(q) = "resize" /\ ~c.again)
  <2>1. Continues(p, c)
    BY <1>1, <1>10 DEF Hears
  <2> QED BY <1>2, <1>5, <2>1, ContinuesIsDone
<1> QED BY <1>6, <1>7, <1>8, <1>9, <1>10

LEMMA WorldTyped ==
    ASSUME TInv, \/ \E q \in sent : Lose(q)
                 \/ \E v \in Handle : Observe(v)
                 \/ \E t \in Pass : Spend(t)
                 \/ Rotate \/ Faucet
    PROVE  TInv' /\ Grows
<1>1. ASSUME NEW q \in sent, Lose(q) PROVE TInv' /\ Grows
  <2>1. Shape' /\ Grows
    BY <1>1, BoundsAssumption DEF Lose, issuer, buyer, TInv, TypeOK, Shape, ToldIsKnown, Grows
  <2> QED BY <1>1, <2>1, IdleStep DEF Lose
<1>2. ASSUME NEW v \in Handle, Observe(v) PROVE TInv' /\ Grows
  <2>1. PICK k \in (0..MaxTokens) \ {row[v].owed} : row' = [row EXCEPT ![v].owed = k]
    BY <1>2 DEF Observe
  <2>2. row[v] \in Row /\ [row[v] EXCEPT !.owed = k] \in Row
    BY <1>2 DEF Observe, TInv, TypeOK, ToldIsKnown, Row
  <2>3. row' \in [Handle -> Row \cup {None}] /\ Grows
    BY <1>2, <2>1, <2>2, AbsentAssumption DEF Observe, TInv, TypeOK, Grows
  <2>4. Shape'
    BY <1>2, <2>3 DEF Observe, TInv, TypeOK, Shape, ToldIsKnown, buyer, Grows, Request
  <2> QED BY <1>2, <2>3, <2>4, IdleStep DEF Observe
<1>3. ASSUME NEW t \in Pass, Spend(t) PROVE TInv' /\ Grows
  <2> DEFINE w1 == [wallet EXCEPT !.tokens = @ \ {t}]
             w2 == [wallet EXCEPT !.tokens = @ \ {t}, !.rejected = @ \cup {t}]
  <2>3. wallet \in Wallet /\ {t} \in SUBSET Pass
    BY DEF TInv, TypeOK
  <2>4. w1 \in Wallet /\ w2 \in Wallet
    BY <2>3 DEF Wallet
  <2>1. wallet' \in Wallet
    BY <1>3, <2>4 DEF Spend
  <2>2. Shape' /\ Grows
    BY <1>3, <2>1 DEF Spend, issuer, TInv, TypeOK, Shape, ToldIsKnown, Grows
  <2> QED BY <1>3, <2>2, IdleStep DEF Spend
<1>4. ASSUME Rotate PROVE TInv' /\ Grows
  <2>1. Shape' /\ Grows
    BY <1>4, BoundsAssumption DEF Rotate, buyer, TInv, TypeOK, Shape, ToldIsKnown, Grows, Epoch
  <2> QED BY <1>4, <2>1, IdleStep DEF Rotate
<1>5. ASSUME Faucet PROVE TInv' /\ Grows
  <2>1. Shape' /\ Grows
    BY <1>5 DEF Faucet, Merged, issuer, TInv, TypeOK, Shape, ToldIsKnown, Grows, Wallet, Key
  <2> QED BY <1>5, <2>1, IdleStep DEF Faucet
<1> QED BY <1>1, <1>2, <1>3, <1>4, <1>5

LEMMA NextTyped == ASSUME TInv, [Next]_vars PROVE TInv'
<1>1. CASE Next
  <2>1. ASSUME NEW p \in Client, Acts(p) PROVE TInv'
    <3>1. CASE Load(p)          BY <3>1, LoadTyped
    <3>2. CASE Quote(p)         BY <3>2, QuoteTyped
    <3>3. CASE Resume(p)        BY <3>3, ResumeTyped
    <3>4. CASE Poll(p)          BY <3>4, PollTyped
    <3>5. CASE NoteQuote(p)     BY <3>5, NoteQuoteTyped
    <3>6. CASE Status(p)        BY <3>6, StatusTyped
    <3>7. CASE Drop(p)          BY <3>7, DropTyped
    <3>8. CASE NoteOpen(p)      BY <3>8, NoteOpenTyped
    <3>9. CASE Post(p)          BY <3>9, PostTyped
    <3>10. CASE Merge(p)        BY <3>10, MergeTyped
    <3>11. CASE MergeRefused(p) BY <3>11, MergeRefusedTyped
    <3>12. CASE PopPending(p)   BY <3>12, PopPendingTyped
    <3>13. CASE TimesOut(p) \/ Close(p) \/ Fails(p) BY <3>13, StopsTyped
    <3> QED BY <2>1, <3>1, <3>2, <3>3, <3>4, <3>5, <3>6, <3>7, <3>8, <3>9, <3>10, <3>11,
               <3>12, <3>13 DEF Acts, Works
  <2>2. ASSUME NEW q \in sent, ServeQuote(q) \/ Answer(q) \/ Unheard(q) PROVE TInv'
    BY <2>2, ServeQuoteTyped, AnswerTyped, UnheardTyped
  <2> QED BY <1>1, <2>1, <2>2, WorldTyped DEF Next, World, Serves
<1>2. CASE UNCHANGED vars
  BY <1>2 DEF vars, TInv, TypeOK, ClientOK, Informed, ToldIsKnown
<1> QED BY <1>1, <1>2

\* Every variable keeps its shape; a process that holds a signed batch holds what the
\* issuer has on record, and a request to redeem names a voucher that exists.
THEOREM Typing == Spec => []TypeOK
<1>1. TInv => TypeOK
  BY DEF TInv
<1> QED BY <1>1, InitTyped, NextTyped, PTL DEF Spec

THEOREM TypedAlways == Spec => []TInv
BY InitTyped, NextTyped, PTL DEF Spec

-----------------------------------------------------------------------------
(* The wallet.                                                             *)

LEMMA KeyIsNamed ==
    ASSUME TInv, NEW v \in Handle, row[v] # None PROVE KeyOf(v) # None
<1>1. row[v].epoch \in Int /\ RsaKey \in Int
  BY BoundsAssumption DEF TInv, TypeOK, Row, Epoch, RsaKey
<1> QED BY <1>1, AbsentAssumption DEF KeyOf

LEMMA MergeIssued ==
    ASSUME TInv, WalletIsIssued, NEW p \in Client, Merge(p) PROVE WalletIsIssued'
<1> DEFINE v == client[p].vid
<1>1. v \in Handle /\ row[v] \in Row /\ row[v] # None /\ row[v].issued
      /\ row[v].owed = client[p].size
  BY Busy DEF Merge, Fit, TInv, TypeOK
<1>2. wallet.tokens # {} => wallet.key = KeyOf(v)
  <2>1. ASSUME NEW t \in wallet.tokens PROVE wallet.key # None
    BY KeyIsNamed DEF WalletIsIssued, TInv, TypeOK, Wallet, Pass
  <2> QED BY <2>1 DEF Merge, MayHold
<1>3. wallet'.key = KeyOf(v)
      /\ wallet'.tokens \subseteq wallet.tokens \cup BatchOf(v, client[p].size)
  BY DEF Merge, TInv, TypeOK, Wallet
<1>4. \A t \in BatchOf(v, client[p].size) : t[1] = v /\ t[2] <= row[v].owed
  BY <1>1 DEF BatchOf, Row
<1> QED BY <1>1, <1>2, <1>3, <1>4 DEF Merge, WalletIsIssued, issuer, KeyOf

\* No pass is added, and the key is kept unless there is none.
LEMMA NoMerge ==
    ASSUME TInv, WalletIsIssued, Grows, TInv',
           wallet'.tokens \subseteq wallet.tokens,
           wallet'.tokens # {} => wallet'.key = wallet.key,
           \A v \in Handle : row[v] # None => row'[v].epoch = row[v].epoch
    PROVE  WalletIsIssued'
<1>1. ASSUME NEW t \in wallet'.tokens
      PROVE  LET r == row'[t[1]] IN
             r # None /\ r.issued /\ t[2] <= r.owed /\ KeyOf(t[1])' = wallet'.key
  <2>1. t \in wallet.tokens /\ t[1] \in Handle
    BY <1>1 DEF TInv, TypeOK, Wallet, Pass
  <2> QED BY <2>1 DEF WalletIsIssued, Grows, KeyOf
<1> QED BY <1>1 DEF WalletIsIssued

\* The steps that merge nothing let rows grow and keep the key of a wallet with passes.
LEMMA OtherStepsMergeNothing ==
    ASSUME TInv, WalletIsIssued, [Next]_vars, TInv',
           ~ \E p \in Client : Merge(p)
    PROVE  WalletIsIssued'
<1>1. CASE UNCHANGED <<row, wallet>>
  BY <1>1 DEF WalletIsIssued, KeyOf
<1>2. ASSUME NEW q \in sent, ServeQuote(q) PROVE WalletIsIssued'
  <2>1. Grows /\ \A v \in Handle : row[v] # None => row'[v] = row[v]
    BY <1>2, ServeQuoteTyped DEF ServeQuote, TInv, TypeOK
  <2> QED BY <1>2, <2>1, NoMerge DEF ServeQuote, buyer
<1>3. ASSUME NEW q \in sent, ServeRedeem(q) PROVE WalletIsIssued'
  <2>1. row[q.vid] \in Row /\ [row[q.vid] EXCEPT !.issued = TRUE].epoch = row[q.vid].epoch
    BY <1>3, RedeemGrows DEF Row
  <2>2. Grows /\ \A v \in Handle : row[v] # None => row'[v].epoch = row[v].epoch
    BY <1>3, <2>1, RedeemGrows DEF ServeRedeem, TInv, TypeOK
  <2> QED BY <1>3, <2>2, NoMerge DEF ServeRedeem, buyer
<1>4. ASSUME NEW v \in Handle, Observe(v) PROVE WalletIsIssued'
  <2>1. PICK k \in (0..MaxTokens) \ {row[v].owed} : row' = [row EXCEPT ![v].owed = k]
    BY <1>4 DEF Observe
  <2>2. row[v] \in Row /\ [row[v] EXCEPT !.owed = k].epoch = row[v].epoch
    BY <1>4 DEF Observe, TInv, TypeOK, ToldIsKnown, Row
  <2>3. Grows /\ \A u \in Handle : row[u] # None => row'[u].epoch = row[u].epoch
    BY <1>4, <2>1, <2>2, WorldTyped DEF TInv, TypeOK
  <2> QED BY <1>4, <2>3, NoMerge DEF Observe, buyer
<1>5. ASSUME NEW t \in Pass, Spend(t) PROVE WalletIsIssued'
  <2>1. wallet'.tokens \subseteq wallet.tokens /\ wallet'.key = wallet.key
    BY <1>5 DEF Spend, TInv, TypeOK, Wallet
  <2>2. row' = row /\ Grows
    BY <1>5, WorldTyped DEF Spend, issuer
  <2> QED BY <2>1, <2>2, NoMerge
<1>6. ASSUME Faucet PROVE WalletIsIssued'
  <2>1. wallet'.tokens = wallet.tokens /\ wallet'.key = epoch /\ wallet.key \in {None, epoch}
    BY <1>6 DEF Faucet, Merged, TInv, TypeOK, Wallet
  <2>2. row' = row /\ Grows
    BY <1>6, WorldTyped DEF Faucet, Merged, issuer
  <2>3. wallet.tokens # {} => wallet.key # None
    BY KeyIsNamed DEF WalletIsIssued, TInv, TypeOK, Wallet, Pass
  <2> QED BY <2>1, <2>2, <2>3, NoMerge
<1>7. UNCHANGED <<row, wallet>>
      \/ (\E q \in sent : ServeQuote(q) \/ ServeRedeem(q))
      \/ (\E v \in Handle : Observe(v)) \/ (\E t \in Pass : Spend(t)) \/ Faucet
  BY DEF Next, Acts, Works, World, Serves, Answer, Unheard, vars, issuer, buyer, Load, Quote,
         NoteQuote, Resume, Poll, Status, Drop, NoteOpen, Post, MergeRefused, PopPending,
         TimesOut, Close, Fails, Lose, Rotate
<1> QED BY <1>1, <1>2, <1>3, <1>4, <1>5, <1>6, <1>7

\* For any number of processes: whatever lost replies, crashes, resized batches and
\* overwritten state files do, the wallet holds only passes that the issuer issued in a
\* batch that large, under the one key the wallet names.
THEOREM Issued == Spec => []WalletIsIssued
<1>1. Init => WalletIsIssued
  BY DEF Init, WalletIsIssued
<1>2. TInv /\ TInv' /\ WalletIsIssued /\ [Next]_vars => WalletIsIssued'
  BY MergeIssued, OtherStepsMergeNothing
<1> QED BY <1>1, <1>2, TypedAlways, PTL DEF Spec

-----------------------------------------------------------------------------
(* One process.                                                            *)

\* What a loaded client holds is what the file holds.
CopyIsFile(p) == client[p].pc # "off" => client[p].copy = file

\* A handle that is being quoted is pending, one whose row was not found was never
\* shown, and one that is taken off the list has its passes in the wallet.
Remembers(p) ==
    /\ client[p].pc \in {"quote", "quoted"} => client[p].vid \in file.pending
    /\ client[p].pc = "answered" /\ client[p].size = None => client[p].vid \notin told
    /\ client[p].pc = "merged" => client[p].vid \in collected

OneInv(p) == CopyIsFile(p) /\ Remembers(p) /\ HandlesAreFresh /\ PaidIsPending

\* The process p became d, whose copy is the file's new content.
Follows(p, d) ==
    /\ d.pc # "off" => d.copy = file'
    /\ d.pc \notin {"quote", "quoted", "answered", "merged"}

LEMMA FollowsKeeps ==
    ASSUME TInv, NEW p \in Client, NEW d, client' = [client EXCEPT ![p] = d], Follows(p, d)
    PROVE  CopyIsFile(p)' /\ Remembers(p)'
<1>1. client'[p] = d
  BY DEF TInv, TypeOK
<1> QED BY <1>1 DEF CopyIsFile, Remembers, Follows

\* A process that is done with its voucher follows the file it has just saved.
LEMMA DoneFollows ==
    ASSUME TInv, NEW p \in Client, NEW c, c.copy = file',
           \E d \in Process : Done(c, d) /\ Becomes(p, d)
    PROVE  CopyIsFile(p)' /\ Remembers(p)'
<1>1. PICK d \in Process : Done(c, d) /\ Becomes(p, d)
  OBVIOUS
<1>2. Follows(p, d) /\ client' = [client EXCEPT ![p] = d]
  BY <1>1 DEF Done, Follows, Becomes
<1> QED BY <1>2, FollowsKeeps

\* No new row and no new request: a handle stays fresh while the counter does not fall.
LEMMA FreshKept ==
    ASSUME TInv, HandlesAreFresh, file'.counter = file.counter,
           \A v \in Handle : row'[v] # None \/ (\E q \in sent' : q.vid = v)
                            => row[v] # None \/ (\E q \in sent : q.vid = v)
    PROVE  HandlesAreFresh'
BY DEF HandlesAreFresh

LEMMA WithoutKeeps ==
    ASSUME NEW f \in File, NEW v
    PROVE  Without(f, v).counter = f.counter /\ Without(f, v).pending = f.pending \ {v}
BY DEF Without, File

LEMMA OneQuote ==
    ASSUME NEW p \in Client, TInv, OneInv(p), Quote(p) PROVE OneInv(p)'
<1> DEFINE n == client[p].copy.counter
           copy == [counter |-> n + 1, pending |-> client[p].copy.pending \cup {n}]
           d == [client[p] EXCEPT !.pc = "quote", !.vid = n, !.copy = copy]
<1>1. client[p].copy = file /\ n \in Nat /\ client[p] \in Process
  BY Busy DEF OneInv, CopyIsFile, Quote, File
<1>2. file' = copy /\ client'[p] = d /\ row' = row /\ told' = told /\ collected' = collected
      /\ \A q \in sent' : q \in sent \/ q.vid = n
  BY DEF Quote, Save, Becomes, TInv, TypeOK, issuer, buyer
<1>3. CopyIsFile(p)' /\ Remembers(p)'
  BY <1>1, <1>2 DEF CopyIsFile, Remembers, Process
<1>4. HandlesAreFresh'
  BY <1>1, <1>2 DEF OneInv, HandlesAreFresh, Handle
<1>5. PaidIsPending'
  BY <1>1, <1>2 DEF OneInv, PaidIsPending
<1> QED BY <1>3, <1>4, <1>5 DEF OneInv

LEMMA OneNoteQuote ==
    ASSUME NEW p \in Client, TInv, OneInv(p), NoteQuote(p) PROVE OneInv(p)'
<1> DEFINE d == [client[p] EXCEPT !.pc = "wait", !.alone = TRUE]
<1>1. client[p] \in Process /\ client[p].copy = file /\ client[p].vid \in file.pending
  BY Busy DEF OneInv, CopyIsFile, Remembers, NoteQuote
<1>2. file' = file /\ UNCHANGED <<row, sent, collected>> /\ told' = told \cup {client[p].vid}
  BY <1>1 DEF NoteQuote, Save, issuer
<1>3. Follows(p, d) /\ client' = [client EXCEPT ![p] = d]
  BY <1>1, <1>2 DEF NoteQuote, Follows, Becomes, Process
<1> QED BY <1>1, <1>2, <1>3, FollowsKeeps, FreshKept DEF OneInv, PaidIsPending

LEMMA OneStatus ==
    ASSUME NEW p \in Client, TInv, OneInv(p), Status(p) PROVE OneInv(p)'
<1> DEFINE v == client[p].vid
           k == IF row[v] = None THEN None ELSE row[v].owed
           d == [client[p] EXCEPT !.pc = "answered", !.size = k]
<1>1. client[p] \in Process /\ client[p].copy = file /\ v \in Handle
  BY Busy DEF OneInv, CopyIsFile, Status, Fit
<1>2. UNCHANGED <<file, row, sent, collected, told>> /\ client'[p] = d
  BY DEF Status, issuer, buyer, Becomes, TInv, TypeOK
<1>3. k = None => v \notin told
  <2>1. row[v] # None => row[v].owed # None
    BY <1>1, SizesAreNumbers DEF TInv, TypeOK, Row
  <2> QED BY <2>1 DEF TInv, ToldIsKnown
<1>4. d.pc = "answered" /\ d.size = k /\ d.vid = v /\ d.copy = file
  BY <1>1 DEF Process
<1> QED BY <1>2, <1>3, <1>4, FreshKept DEF OneInv, CopyIsFile, Remembers, PaidIsPending

LEMMA OneDrop ==
    ASSUME NEW p \in Client, TInv, OneInv(p), Drop(p) PROVE OneInv(p)'
<1> DEFINE f == Without(client[p].copy, client[p].vid)
           c == [client[p] EXCEPT !.copy = f]
<1>1. client[p] \in Process /\ client[p].copy = file /\ client[p].vid \notin told
      /\ file \in File
  BY Busy DEF OneInv, CopyIsFile, Remembers, Drop
<1>2. file' = f /\ UNCHANGED <<row, sent, told, collected>> /\ Continues(p, c)
  BY DEF Drop, Save, issuer, buyer
<1>3. f \in File /\ c \in Process /\ c.copy = f
  BY <1>1, WithoutIsFile DEF Process
<1>4. CopyIsFile(p)' /\ Remembers(p)'
  BY <1>2, <1>3, ContinuesIsDone, DoneFollows
<1> QED BY <1>1, <1>2, <1>4, WithoutKeeps, FreshKept DEF OneInv, PaidIsPending

LEMMA OnePopPending ==
    ASSUME NEW p \in Client, TInv, OneInv(p), PopPending(p) PROVE OneInv(p)'
<1> DEFINE f == Without(client[p].copy, client[p].vid)
           c == [client[p] EXCEPT !.copy = f]
<1>1. client[p] \in Process /\ client[p].copy = file /\ client[p].vid \in collected
      /\ file \in File
  BY Busy DEF OneInv, CopyIsFile, Remembers, PopPending
<1>2. file' = f /\ UNCHANGED <<row, sent, told, collected>> /\ Continues(p, c)
  BY DEF PopPending, Save, issuer, buyer
<1>3. f \in File /\ c \in Process /\ c.copy = f
  BY <1>1, WithoutIsFile DEF Process
<1>4. CopyIsFile(p)' /\ Remembers(p)'
  BY <1>2, <1>3, ContinuesIsDone, DoneFollows
<1> QED BY <1>1, <1>2, <1>4, WithoutKeeps, FreshKept DEF OneInv, PaidIsPending

LEMMA OnePost ==
    ASSUME NEW p \in Client, TInv, OneInv(p), Post(p) PROVE OneInv(p)'
<1> DEFINE d == [client[p] EXCEPT !.pc = "redeem"]
<1>1. client[p] \in Process /\ client[p].copy = file /\ row[client[p].vid] # None
  BY Busy DEF OneInv, CopyIsFile, Post, Fit
<1>2. UNCHANGED <<file, row, told, collected>> /\ Becomes(p, d)
      /\ \A q \in sent' : q \in sent \/ q.vid = client[p].vid
  BY DEF Post, issuer, buyer
<1>3. Follows(p, d) /\ client' = [client EXCEPT ![p] = d]
  BY <1>1, <1>2 DEF Follows, Becomes, Process
<1>4. HandlesAreFresh'
  BY <1>1, <1>2, FreshKept DEF OneInv
<1> QED BY <1>2, <1>3, <1>4, FollowsKeeps DEF OneInv, PaidIsPending

LEMMA OneMerge ==
    ASSUME NEW p \in Client, TInv, OneInv(p), Merge(p) PROVE OneInv(p)'
<1> DEFINE d == [client[p] EXCEPT !.pc = "merged"]
<1>1. client[p] \in Process /\ client[p].copy = file
  BY Busy DEF OneInv, CopyIsFile, Merge
<1>2. UNCHANGED <<file, row, sent, told>> /\ collected' = collected \cup {client[p].vid}
      /\ client'[p] = d
  BY DEF Merge, issuer, Becomes, TInv, TypeOK
<1>3. CopyIsFile(p)' /\ Remembers(p)'
  BY <1>1, <1>2 DEF CopyIsFile, Remembers, Process
<1> QED BY <1>2, <1>3, FreshKept DEF OneInv, PaidIsPending

\* The steps of the process that change neither the rows, nor what was sent, shown or
\* collected, and leave it done with its voucher, looking at another one, or loaded.
LEMMA OneQuiet ==
    ASSUME NEW p \in Client, TInv, OneInv(p),
           Load(p) \/ Resume(p) \/ Poll(p) \/ NoteOpen(p) \/ MergeRefused(p)
           \/ TimesOut(p) \/ Close(p) \/ Fails(p)
    PROVE  OneInv(p)'
<1>1. client[p] \in Process /\ (client[p].pc # "off" => client[p].copy = file)
  BY Busy DEF OneInv, CopyIsFile
<1>2. UNCHANGED <<file, row, sent, told, collected>>
  BY <1>1 DEF Load, Resume, Poll, NoteOpen, MergeRefused, TimesOut, Close, Fails, Save,
              issuer, buyer
<1>3. CopyIsFile(p)' /\ Remembers(p)'
  <2>1. CASE Load(p)
    <3>1. Follows(p, [Off EXCEPT !.pc = "ready", !.copy = file])
      BY <1>2 DEF Follows, Off
    <3> QED BY <2>1, <3>1, FollowsKeeps DEF Load, Becomes
  <2>2. CASE Resume(p) \/ Poll(p)
    <3>1. PICK v \in Handle, left \in SUBSET Handle, single \in BOOLEAN :
              Becomes(p, LookAt(client[p], v, left, single))
      <4>1. CASE Resume(p)
        <5>1. client[p].copy.pending \in SUBSET Handle
          BY Busy DEF File
        <5> QED BY <4>1, <5>1 DEF Resume
      <4>2. CASE Poll(p)
        BY <4>2 DEF Poll, TInv, TypeOK
      <4> QED BY <2>2, <4>1, <4>2
    <3>2. client[p].pc # "off"
      BY <2>2 DEF Resume, Poll
    <3>3. Follows(p, LookAt(client[p], v, left, single))
      BY <1>1, <1>2, <3>2, LookAtIsProcess DEF Follows
    <3> QED BY <3>1, <3>3, FollowsKeeps DEF Becomes
  <2>3. CASE NoteOpen(p)
    BY <1>1, <1>2, <2>3, Busy, NotYetIsDone, DoneFollows DEF NoteOpen, Fit
  <2>4. CASE MergeRefused(p)
    BY <1>1, <1>2, <2>4, ContinuesIsDone, DoneFollows DEF MergeRefused
  <2>5. CASE TimesOut(p) \/ Close(p) \/ Fails(p)
    <3>1. Follows(p, Off)
      BY DEF Follows, Off
    <3> QED BY <2>5, <3>1, FollowsKeeps DEF TimesOut, Close, Fails, Becomes
  <2> QED BY <2>1, <2>2, <2>3, <2>4, <2>5
<1> QED BY <1>2, <1>3, FreshKept DEF OneInv, PaidIsPending

LEMMA OneServeQuote ==
    ASSUME NEW p \in Client, Client = {p}, TInv, OneInv(p), NEW q \in sent, ServeQuote(q)
    PROVE  OneInv(p)'
<1>1. q \in Request /\ q.from = p /\ UNCHANGED <<file, told, collected>>
  BY DEF ServeQuote, TInv, TypeOK, Request, buyer
<1>2. \/ client' = client
      \/ client[p].pc = "quote" /\ client' = [client EXCEPT ![p].pc = "quoted"]
  BY <1>1 DEF ServeQuote, Waits
<1>3. CopyIsFile(p)' /\ Remembers(p)'
  <2>1. CASE client' = client
    BY <1>1, <2>1 DEF OneInv, CopyIsFile, Remembers
  <2>2. CASE client[p].pc = "quote" /\ client' = [client EXCEPT ![p].pc = "quoted"]
    <3>1. client'[p] = [client[p] EXCEPT !.pc = "quoted"] /\ client[p] \in Process
      BY <2>2 DEF TInv, TypeOK
    <3> QED BY <1>1, <2>2, <3>1 DEF OneInv, CopyIsFile, Remembers, Process
  <2> QED BY <1>2, <2>1, <2>2
<1>4. HandlesAreFresh'
  <2>1. \A v \in Handle : row'[v] # None => row[v] # None \/ v = q.vid
    BY DEF ServeQuote, TInv, TypeOK
  <2>2. sent' \subseteq sent
    BY DEF ServeQuote
  <2> QED BY <1>1, <2>1, <2>2, FreshKept DEF OneInv
<1> QED BY <1>1, <1>3, <1>4 DEF OneInv, PaidIsPending

\* Serving a redeem shows nobody a new handle.
LEMMA OneServeRedeem ==
    ASSUME NEW p \in Client, Client = {p}, TInv, OneInv(p), NEW q \in sent, ServeRedeem(q)
    PROVE  HandlesAreFresh' /\ PaidIsPending' /\ UNCHANGED <<file, told, collected>>
<1>1. UNCHANGED <<file, told, collected>> /\ sent' \subseteq sent
  BY DEF ServeRedeem, buyer
<1>2. row[q.vid] # None /\ \A v \in Handle : row'[v] # None => row[v] # None
  BY DEF ServeRedeem, TInv, TypeOK, Request
<1> QED BY <1>1, <1>2, FreshKept DEF OneInv, PaidIsPending

LEMMA OneAnswer ==
    ASSUME NEW p \in Client, Client = {p}, TInv, OneInv(p), NEW q \in sent, Answer(q)
    PROVE  OneInv(p)'
<1> DEFINE c == client[p]
<1>1. /\ ServeRedeem(q) /\ q \in Request /\ q.from = p /\ q.kind = "redeem"
      /\ Hears(p, Verdict(q), q) /\ Waits(q)
      /\ Verdict(q) = "resize" => row'[q.vid].owed \in 1..MaxTokens
      /\ row[q.vid] \in Row
  BY RedeemGrows DEF Answer, ServeRedeem, Request
<1>2. HandlesAreFresh' /\ PaidIsPending' /\ UNCHANGED <<file, told, collected>>
  BY <1>1, OneServeRedeem
<1>3. c \in Process /\ c.pc = "redeem" /\ c.vid # None /\ c.copy = file'
  BY <1>1, <1>2, Busy DEF Waits, Fit, OneInv, CopyIsFile
<1>4. CopyIsFile(p)' /\ Remembers(p)'
  <2>1. CASE Verdict(q) = "signed"
    <3>1. Becomes(p, [c EXCEPT !.pc = "signed"])
      BY <1>1, <2>1 DEF Hears
    <3>2. Follows(p, [c EXCEPT !.pc = "signed"])
      BY <1>3 DEF Follows, Process
    <3> QED BY <3>1, <3>2, FollowsKeeps DEF Becomes
  <2>2. CASE Verdict(q) = "open"
    BY <1>1, <1>3, <2>2, NotYetIsDone, DoneFollows DEF Hears
  <2>3. CASE Verdict(q) = "closed"
    <3>1. Becomes(p, Off) /\ Follows(p, Off)
      BY <1>1, <2>3 DEF Hears, Follows, Off
    <3> QED BY <3>1, FollowsKeeps DEF Becomes
  <2>4. CASE Verdict(q) = "resize" /\ ~c.again
    <3> DEFINE k == row[q.vid].owed
               d == [c EXCEPT !.pc = "answered", !.again = TRUE, !.size = k]
    <3>1. client'[p] = d
      BY <1>1, <2>4 DEF Hears, Becomes, TInv, TypeOK
    <3>2. k # None
      BY <1>1, SizesAreNumbers DEF Row
    <3>3. d.pc = "answered" /\ d.size = k /\ d.copy = file'
      BY <1>3 DEF Process
    <3> QED BY <3>1, <3>2, <3>3 DEF CopyIsFile, Remembers
  <2>5. CASE Verdict(q) \notin {"signed", "open", "closed"}
             /\ ~(Verdict(q) = "resize" /\ ~c.again)
    <3>1. Continues(p, c)
      BY <1>1, <2>5 DEF Hears
    <3> QED BY <1>3, <3>1, ContinuesIsDone, DoneFollows
  <2> QED BY <2>1, <2>2, <2>3, <2>4, <2>5
<1> QED BY <1>2, <1>4 DEF OneInv

LEMMA OneUnheard ==
    ASSUME NEW p \in Client, Client = {p}, TInv, OneInv(p), NEW q \in sent, Unheard(q)
    PROVE  OneInv(p)'
<1>1. HandlesAreFresh' /\ PaidIsPending' /\ UNCHANGED <<file, told, collected, client>>
  BY OneServeRedeem DEF Unheard
<1> QED BY <1>1 DEF OneInv, CopyIsFile, Remembers

LEMMA OneWorld ==
    ASSUME NEW p \in Client, TInv, OneInv(p),
           \/ \E q \in sent : Lose(q)
           \/ \E v \in Handle : Observe(v)
           \/ \E t \in Pass : Spend(t)
           \/ Rotate \/ Faucet
    PROVE  OneInv(p)'
<1>1. UNCHANGED <<file, client, told, collected>> /\ sent' \subseteq sent
  BY DEF Lose, Observe, Spend, Rotate, Faucet, issuer, buyer
<1>2. \A v \in Handle : row'[v] # None => row[v] # None
  BY DEF Lose, Observe, Spend, Rotate, Faucet, issuer, TInv, TypeOK, ToldIsKnown
<1> QED BY <1>1, <1>2, FreshKept DEF OneInv, CopyIsFile, Remembers, PaidIsPending

LEMMA OneNext ==
    ASSUME NEW p \in Client, Client = {p}, TInv, OneInv(p), [Next]_vars
    PROVE  OneInv(p)'
<1>1. CASE Acts(p)
  BY <1>1, OneQuote, OneNoteQuote, OneStatus, OneDrop, OnePost, OneMerge, OnePopPending,
     OneQuiet DEF Acts, Works
<1>2. CASE World
  BY <1>2, OneServeQuote, OneAnswer, OneUnheard, OneWorld DEF World, Serves
<1>3. CASE UNCHANGED vars
  BY <1>3 DEF vars, OneInv, CopyIsFile, Remembers, HandlesAreFresh, PaidIsPending
<1> QED BY <1>1, <1>2, <1>3 DEF Next

LEMMA OneInit == ASSUME NEW p \in Client, Init PROVE OneInv(p)
BY DEF Init, Off, OneInv, CopyIsFile, Remembers, HandlesAreFresh, PaidIsPending

\* With one process at a time, no crash, lost reply or late request makes a handle that the
\* issuer knows or may get to know be derived again.
THEOREM Fresh == ASSUME NEW p \in Client, Client = {p} PROVE Spec => []HandlesAreFresh
<1>1. Init => OneInv(p)
  BY OneInit
<1>2. TInv /\ OneInv(p) /\ [Next]_vars => OneInv(p)'
  BY OneNext
<1>3. OneInv(p) => HandlesAreFresh
  BY DEF OneInv
<1> QED BY <1>1, <1>2, <1>3, TypedAlways, PTL DEF Spec

\* With one process at a time, a voucher whose address was shown is pending in the file
\* until its passes are in the wallet, after any crash.
THEOREM Remembered == ASSUME NEW p \in Client, Client = {p} PROVE Spec => []PaidIsPending
<1>1. Init => OneInv(p)
  BY OneInit
<1>2. TInv /\ OneInv(p) /\ [Next]_vars => OneInv(p)'
  BY OneNext
<1>3. OneInv(p) => PaidIsPending
  BY DEF OneInv
<1> QED BY <1>1, <1>2, <1>3, TypedAlways, PTL DEF Spec
=============================================================================
