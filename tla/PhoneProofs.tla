------------------------------ MODULE PhoneProofs ------------------------------
(* What holds of Phone for any names, contents and number of picks, puts and     *)
(* jobs, and of Directory for any phones, shares and faults.                      *)
(* Phone: whatever callback runs, it moves the grid jobs in one of five ways and  *)
(* the puts in one of four (RunMoves, PutMoves), and each way keeps the           *)
(* invariants: the tickets of the jobs differ, none is ahead; of the puts of a    *)
(* name one is live. BoardInv and GridInv relate the questions, the rows and the  *)
(* names that landed to the puts.                                                 *)
(* Directory: a step either writes no share (QuietStep) or is one read-test-write *)
(* (PushStep); both keep what the rewrites placed apart (SlotInv).                *)
(* While operations follow each other, RecInv says of every directory something   *)
(* leads to (Reached) that it is whole, or of the rewrite it is under, what one    *)
(* fault has made of it so far (Underway).                                        *)
(* ToldInv adds what a folder of either kind (Mode) still says of every name it    *)
(* was told something of: in what is stored (KeptIn), in what a rewrite is about   *)
(* to store (Writing), and in what the shares a writer finds could still decode    *)
(* to (Older). The steps are taken in the order a put or a remove takes them.      *)
EXTENDS Phone, Directory, FiniteSetTheorems, TLAPS

JobOK(j) ==
    /\ j \in [id : Nat, kind : {j.kind}, base : {j.base}, name : {j.name},
              seen : {j.seen}, pc : {j.pc}]
    /\ j.id <= ticket

RunInv ==
    /\ ticket \in Nat /\ busy \in BOOLEAN
    /\ \A j \in jobs : JobOK(j)
    /\ \A i, j \in jobs : i.id = j.id => i = j
    /\ BusyIsCurrent

PutOK(q) ==
    q \in [id : {q.id}, name : {q.name}, token : {q.token}, replace : {q.replace},
           live : BOOLEAN, bytes : {q.bytes}, pc : {q.pc},
           answer : {q.answer}]

PutInv == (\A q \in puts : PutOK(q)) /\ OneLivePut

\* The shapes of what the questions and the rows are about
BoardInv ==
    /\ rows \in [Name -> Row \cup {None}] /\ tokens \in Nat
    /\ sheet \in Sheet /\ (sheet.kind = "clash" => sheet.name \in Name)
    /\ \A q \in puts : q.name \in Name
    /\ DOMAIN server = Name /\ DOMAIN local = Name /\ DOMAIN landed = Name

Inv == RunInv /\ PutInv /\ BoardInv

(* What a name has on the grid and on its way there, unless operations on it crossed. *)

Working(n) == {q \in puts : q.name = n /\ q.pc # "done"}
\* Acknowledged, and the app has not taken it up yet.
Due(n) == {q \in puts : q.name = n /\ q.pc = "done" /\ q.answer = "ok" /\ q.live}
Removing(n) == \E j \in jobs : j.kind = "remove" /\ j.name = n /\ j.pc = "run"

\* The put carries c, or will when it has read the copy, or it will fail.
Carries(q, c) == IF q.pc = "read" THEN local[q.name] \in {c, None} ELSE q.bytes = c

\* A live put has its row, and a name with a row is not called landed.
RowsInv == /\ \A q \in puts : q.live => rows[q.name] # None
           /\ \A n \in Name : rows[n] # None => landed[n] = None

RemovedAlone(n) == Removing(n) => rows[n] = None /\ landed[n] = None /\ Working(n) = {}
\* Every put of the name on its way carries the app's copy, while there is one.
SameCopy(n) == \A q \in Working(n) : q.pc # "read" =>
                   /\ q.bytes # None /\ local[n] \in {q.bytes, None}
                   /\ \A r \in Working(n) : Carries(r, q.bytes)
DueIsStored(n) == \A q \in Due(n) : /\ q.bytes # None /\ server[n] = q.bytes
                                    /\ \A r \in Working(n) : Carries(r, q.bytes)
LandedIsStored(n) == landed[n] # None =>
                        /\ server[n] = landed[n]
                        /\ \A r \in Working(n) : Carries(r, landed[n]) /\ (r.pc = "read" => local[n] = None)

NameInv(n) == RemovedAlone(n) /\ SameCopy(n) /\ DueIsStored(n) /\ LandedIsStored(n)
GridInv == RowsInv /\ \A n \in Name \ crossed : NameInv(n)

(* ---- the ways a step moves jobs and puts --------------------------------------- *)

RunMoves ==
    \/ UNCHANGED run
    \/ \E kind, n : Launch(kind, n)
    \/ StopRun
    \/ \E j \in jobs : Ended(j)
    \/ \E j \in jobs : \E pc, seen : Change(j, [[j EXCEPT !.pc = pc] EXCEPT !.seen = seen])

NewPut(q) == PutOK(q) /\ q.live
Same(q, r) == PutOK(r) /\ r.name = q.name /\ r.live = q.live

PutMoves ==
    \/ UNCHANGED puts
    \/ \E n, q : q.name = n /\ NewPut(q) /\ puts' = Quiet(n) \cup {q}
    \/ \E n : puts' = Quiet(n)
    \/ \E q \in puts : puts' = puts \ {q} \/ \E r : Same(q, r) /\ puts' = (puts \ {q}) \cup {r}

LEMMA LaunchStep ==
    ASSUME RunInv, NEW kind, NEW n, Launch(kind, n)
    PROVE  RunInv'
<1>0. PICK new : new = [id |-> ticket + 1, kind |-> kind, name |-> n, seen |-> NoRow, pc |-> "run",
                        base |-> IF kind = "refresh" THEN session ELSE None]
  OBVIOUS
<1>1. /\ ticket \in Nat /\ ticket' = ticket + 1 /\ ticket' \in Nat /\ busy' = TRUE
      /\ jobs' = jobs \cup {new}
  BY <1>0 DEF Launch, RunInv
<1>2. JobOK(new)' /\ new.id = ticket + 1
  <2>1. /\ new \in [id : Nat, kind : {new.kind}, base : {new.base}, name : {new.name},
                    seen : {new.seen}, pc : {new.pc}]
        /\ new.id = ticket + 1
    BY <1>0, <1>1
  <2> QED BY <1>1, <2>1 DEF JobOK
<1>3. ASSUME NEW j \in jobs PROVE JobOK(j)' /\ j.id # ticket + 1
  BY <1>1 DEF RunInv, JobOK
<1>4. \A j \in jobs' : JobOK(j)'
  BY <1>1, <1>2, <1>3
<1>5. \A i, j \in jobs' : i.id = j.id => i = j
  BY <1>1, <1>2, <1>3 DEF RunInv
<1>6. BusyIsCurrent'
  BY <1>1, <1>2 DEF BusyIsCurrent, Current
<1> QED BY <1>1, <1>4, <1>5, <1>6 DEF RunInv

LEMMA StopRunStep ==
    ASSUME RunInv, StopRun
    PROVE  RunInv'
<1>1. /\ ticket \in Nat /\ ticket' = ticket + 1 /\ ticket' \in Nat /\ busy' = FALSE
      /\ jobs' = jobs
  BY DEF StopRun, RunInv
<1>2. \A j \in jobs' : JobOK(j)' /\ j.id # ticket'
  BY <1>1 DEF RunInv, JobOK
<1>3. BusyIsCurrent'
  BY <1>1, <1>2 DEF BusyIsCurrent, Current
<1> QED BY <1>1, <1>2, <1>3 DEF RunInv

LEMMA EndedStep ==
    ASSUME RunInv, NEW j \in jobs, Ended(j)
    PROVE  RunInv'
<1>1. /\ ticket' = ticket /\ jobs' = jobs \ {j} /\ busy' = (busy /\ j.id # ticket)
      /\ busy \in BOOLEAN /\ busy' \in BOOLEAN
  BY DEF Ended, RunInv
<1>2. \A i \in jobs' : JobOK(i)'
  BY <1>1 DEF RunInv, JobOK
<1>3. BusyIsCurrent'
  BY <1>1 DEF RunInv, BusyIsCurrent, Current
<1> QED BY <1>1, <1>2, <1>3 DEF RunInv

LEMMA ChangeStep ==
    ASSUME RunInv, NEW j \in jobs, NEW pc, NEW seen,
           Change(j, [[j EXCEPT !.pc = pc] EXCEPT !.seen = seen])
    PROVE  RunInv'
<1> DEFINE r == [[j EXCEPT !.pc = pc] EXCEPT !.seen = seen]
<1>1. ticket' = ticket /\ busy' = busy /\ jobs' = (jobs \ {j}) \cup {r}
  BY DEF Change
<1>2. /\ r \in [id : Nat, kind : {r.kind}, base : {r.base}, name : {r.name},
                seen : {r.seen}, pc : {r.pc}]
      /\ r.id = j.id
  <2>1. JobOK(j)
    BY DEF RunInv
  <2> QED BY <2>1 DEF JobOK
<1> HIDE DEF r
<1>3. JobOK(r)' /\ r.id = j.id
  BY <1>1, <1>2 DEF RunInv, JobOK
<1>4. \A i \in jobs' : JobOK(i)'
  BY <1>1, <1>3 DEF RunInv, JobOK
<1>5. \A h, i \in jobs' : h.id = i.id => h = i
  BY <1>1, <1>3 DEF RunInv
<1>6. BusyIsCurrent'
  BY <1>1, <1>3 DEF RunInv, BusyIsCurrent, Current
<1> QED BY <1>1, <1>4, <1>5, <1>6 DEF RunInv

LEMMA RunStep ==
    ASSUME RunInv, RunMoves
    PROVE  RunInv'
<1>1. CASE UNCHANGED run
  BY <1>1 DEF run, RunInv, JobOK, BusyIsCurrent, Current
<1> QED BY <1>1, LaunchStep, StopRunStep, EndedStep, ChangeStep DEF RunMoves

LEMMA QuietFacts ==
    ASSUME PutInv, NEW n
    PROVE  /\ \A q \in Quiet(n) : PutOK(q) /\ (q.live => q \in puts /\ q.name # n)
<1>1. ASSUME NEW q \in puts, q.name = n
      PROVE  PutOK([q EXCEPT !.live = FALSE]) /\ [q EXCEPT !.live = FALSE].live = FALSE
  BY DEF PutInv, PutOK
<1> QED BY <1>1 DEF Quiet, PutInv

LEMMA PutStep ==
    ASSUME PutInv, PutMoves
    PROVE  PutInv'
<1>1. CASE UNCHANGED puts
  BY <1>1 DEF PutInv, OneLivePut
<1>2. CASE \E n, q : q.name = n /\ NewPut(q) /\ puts' = Quiet(n) \cup {q}
  BY <1>2, QuietFacts DEF NewPut, PutInv, OneLivePut
<1>3. CASE \E n : puts' = Quiet(n)
  BY <1>3, QuietFacts DEF PutInv, OneLivePut
<1>4. CASE \E q \in puts : puts' = puts \ {q} \/ \E r : Same(q, r) /\ puts' = (puts \ {q}) \cup {r}
  BY <1>4 DEF Same, PutInv, OneLivePut
<1> QED BY <1>1, <1>2, <1>3, <1>4 DEF PutMoves

(* ---- every step is one of them -------------------------------------------------- *)

LEMMA RunMoveFacts ==
    /\ UNCHANGED run => RunMoves
    /\ \A kind, n : Launch(kind, n) => RunMoves
    /\ StopRun => RunMoves
    /\ \A j \in jobs : Ended(j) => RunMoves
    /\ Reload => RunMoves
<1>1. Reload => UNCHANGED run \/ Launch("list", None)
  BY DEF Reload
<1> QED BY <1>1 DEF RunMoves

\* Whatever ends a job
LEMMA EndSteps ==
    ASSUME NEW j \in jobs,
           \/ Unwind(j) \/ Refused(j) \/ \E has \in BOOLEAN : ThrowsLate(j, has)
           \/ \E ok \in BOOLEAN : \/ \E some, has \in BOOLEAN : FinishLearn(j, ok, some, has)
                                  \/ FinishList(j, ok) \/ FinishDownload(j, ok) \/ FinishRemove(j, ok)
    PROVE  RunMoves /\ UNCHANGED puts
<1>1. Ended(j) \/ Launch("list", None)
  BY DEF Unwind, Refused, ThrowsLate, FinishLearn, FinishList, FinishDownload, FinishRemove
<1>2. UNCHANGED puts
  BY DEF Unwind, Refused, ThrowsLate, FinishLearn, FinishList, FinishDownload, FinishRemove, grid
<1> QED BY <1>1, <1>2, RunMoveFacts

LEMMA ReadSteps ==
    ASSUME Inv, NEW j \in jobs, ReadList(j) \/ RemoveFile(j)
    PROVE  RunMoves /\ UNCHANGED puts
<1>1. \E pc, seen : Change(j, [[j EXCEPT !.pc = pc] EXCEPT !.seen = seen])
  <2>1. ASSUME NEW pc PROVE [j EXCEPT !.pc = pc] = [[j EXCEPT !.pc = pc] EXCEPT !.seen = j.seen]
    BY DEF Inv, RunInv, JobOK
  <2>2. CASE ReadList(j)
    BY <2>2 DEF ReadList
  <2>3. CASE RemoveFile(j)
    BY <2>1, <2>3 DEF RemoveFile
  <2> QED BY <2>2, <2>3
<1>2. UNCHANGED puts
  BY DEF ReadList, RemoveFile, grid
<1> QED BY <1>1, <1>2 DEF RunMoves

\* What the user does with screens, jobs and questions
LEMMA ScreenSteps ==
    ASSUME \/ Join \/ Import \/ Refresh \/ OpenFolder \/ Back \/ GoImport \/ RecoveryPicked
           \/ CancelImport \/ BeginRecoveryImport \/ Forget \/ CancelDownload
           \/ \E n \in Name : Download(n) \/ AskRemove(n) \/ AskDiscard(n) \/ Arrive(n)
           \/ ConfirmRemove \/ RetryRemove \/ Dismiss
           \/ CancelSheet \/ CancelClash \/ AddFile \/ NothingPicked
    PROVE  RunMoves /\ UNCHANGED puts
<1>1. UNCHANGED puts
  BY DEF Join, Import, Refresh, OpenFolder, Back, GoImport, RecoveryPicked, Ask, GoTo, CancelImport,
         BeginRecoveryImport, Forget, CancelDownload, Download, AskRemove, AskDiscard, Arrive,
         ConfirmRemove, RetryRemove, Dismiss, CancelSheet, CancelClash, AddFile, NothingPicked, grid
<1>2. UNCHANGED run \/ StopRun \/ Reload \/ \E kind, n : Launch(kind, n)
  BY DEF Join, Import, Refresh, OpenFolder, Back, GoImport, RecoveryPicked, Ask, GoTo, CancelImport,
         BeginRecoveryImport, Forget, CancelDownload, Download, AskRemove, AskDiscard, Arrive,
         ConfirmRemove, RetryRemove, Dismiss, CancelSheet, CancelClash, AddFile, NothingPicked
<1> QED BY <1>1, <1>2, RunMoveFacts

\* A put that is sent again first silences the older ones of its name.
LEMMA UploadFacts ==
    ASSUME NEW n, NEW replace \in BOOLEAN, StartUpload(n, replace)
    PROVE  UNCHANGED puts \/ \E q : q.name = n /\ NewPut(q) /\ puts' = Quiet(n) \cup {q}
<1>1. CASE session # None /\ session.servers
  <2> DEFINE token == IF rows[n] = None THEN tokens ELSE rows[n].token
             new == [id |-> sent + 1, name |-> n, token |-> token, replace |-> replace,
                     live |-> TRUE, bytes |-> None, pc |-> "read",
                     answer |-> "none"]
  <2>1. puts' = Quiet(n) \cup {new}
    BY <1>1 DEF StartUpload
  <2>2. new.name = n /\ PutOK(new) /\ new.live
    BY DEF PutOK
  <2> QED BY <2>1, <2>2 DEF NewPut
<1> QED BY <1>1 DEF StartUpload

LEMMA AddSteps ==
    ASSUME \/ \E b \in Bytes : FilePicked(b)
           \/ ReplaceClash \/ KeepBothClash \/ ConfirmDiscard
           \/ \E n \in Name : RetryUpload(n)
    PROVE  RunMoves /\ PutMoves
<1>1. UNCHANGED run
  BY DEF FilePicked, ReplaceClash, KeepBothClash, ConfirmDiscard, RetryUpload
<1>2. \/ UNCHANGED puts \/ (\E n : puts' = Quiet(n))
      \/ \E n, replace : replace \in BOOLEAN /\ StartUpload(n, replace)
  <2>1. CASE \E b \in Bytes : FilePicked(b)
    BY <2>1 DEF FilePicked
  <2>2. CASE ReplaceClash
    BY <2>2 DEF ReplaceClash
  <2>3. CASE KeepBothClash
    <3>1. UNCHANGED puts \/ \E m \in Name : StartUpload(m, FALSE)
      BY <2>3 DEF KeepBothClash
    <3> QED BY <3>1
  <2>4. CASE ConfirmDiscard
    BY <2>4 DEF ConfirmDiscard
  <2>5. CASE \E n \in Name : RetryUpload(n)
    <3>1. PICK n \in Name : StartUpload(n, n \in Listed)
      BY <2>5 DEF RetryUpload
    <3>2. (n \in Listed) \in BOOLEAN
      OBVIOUS
    <3> QED BY <3>1, <3>2
  <2> QED BY <2>1, <2>2, <2>3, <2>4, <2>5
<1>3. PutMoves
  BY <1>2, UploadFacts DEF PutMoves
<1> QED BY <1>1, <1>3, RunMoveFacts

\* What a put does on the grid
LEMMA GridSteps ==
    ASSUME Inv, NEW q \in puts, ReadCopy(q) \/ LookAt(q) \/ Store(q)
    PROVE  RunMoves /\ PutMoves
<1>1. PutOK(q)
  BY DEF Inv, PutInv
<1>2. ASSUME NEW a, Answer(q, a) PROVE \E r : Same(q, r) /\ Becomes(q, r)
  <2>1. Same(q, [q EXCEPT !.pc = "done", !.answer = a])
    BY <1>1 DEF Same, PutOK
  <2> QED BY <1>2, <2>1 DEF Answer
<1>3. Same(q, [q EXCEPT !.pc = "store"])
  BY <1>1 DEF Same, PutOK
<1>4. Same(q, [q EXCEPT !.pc = "look", !.bytes = local[q.name]])
  BY <1>1 DEF Same, PutOK
<1>5. PICK r : Same(q, r) /\ Becomes(q, r)
  BY <1>2, <1>3, <1>4 DEF ReadCopy, LookAt, Store
<1>6. puts' = (puts \ {q}) \cup {r} /\ UNCHANGED run
  BY <1>5 DEF Becomes
<1>7. PutMoves
  BY <1>5, <1>6 DEF PutMoves
<1> QED BY <1>6, <1>7, RunMoveFacts

\* and what its answer, or its silence, does
LEMMA AnswerSteps ==
    ASSUME NEW q \in puts,
           Silence(q) \/ Dropped(q) \/ PutClashes(q) \/ PutFails(q) \/ PutLands(q)
    PROVE  RunMoves /\ PutMoves
<1>1. puts' \in {puts, puts \ {q}}
  BY DEF Silence, Dropped, PutClashes, PutFails, PutLands, Answered, grid
<1>2. UNCHANGED run \/ Reload
  BY DEF Silence, Dropped, PutClashes, PutFails, PutLands
<1>3. PutMoves
  BY <1>1 DEF PutMoves
<1> QED BY <1>1, <1>2, <1>3, RunMoveFacts

(* ---- the shapes of rows and questions -------------------------------------------- *)

\* Steps that leave the folder, the board and what was told alone
StillSteps ==
    \/ Join \/ Import \/ Refresh \/ OpenFolder \/ Back \/ GoImport \/ RecoveryPicked
    \/ CancelImport \/ BeginRecoveryImport \/ Forget \/ CancelDownload
    \/ Dismiss \/ AddFile \/ NothingPicked \/ \E n \in Name : Download(n)
    \/ \E j \in jobs : \/ Unwind(j) \/ Refused(j) \/ ReadList(j)
                       \/ \E has \in BOOLEAN : ThrowsLate(j, has)
                       \/ \E ok \in BOOLEAN : \/ \E some, has \in BOOLEAN : FinishLearn(j, ok, some, has)
                                              \/ FinishList(j, ok)
                                              \/ FinishDownload(j, ok)
                                              \/ FinishRemove(j, ok)
    \/ UNCHANGED vars

LEMMA StillFacts == StillSteps => UNCHANGED <<grid, board, told>>
BY DEF StillSteps, Join, Import, Refresh, OpenFolder, Back, GoImport, RecoveryPicked, Ask, GoTo, CancelImport,
       BeginRecoveryImport, Forget, CancelDownload, Dismiss, AddFile, NothingPicked, Download, Unwind,
       Refused, ThrowsLate, ReadList, FinishLearn, FinishList, FinishDownload, FinishRemove, vars

LEMMA UploadBoard ==
    ASSUME BoardInv, PutInv, NEW n \in Name, NEW replace, StartUpload(n, replace)
    PROVE  /\ rows' \in [Name -> Row \cup {None}] /\ tokens' \in Nat
           /\ \A m \in Name : m # n => rows'[m] = rows[m]
           /\ session # None \/ rows[n] # None => rows'[n] # None
           /\ \A q \in puts' : q.name \in Name
<1>1. /\ rows \in [Name -> Row \cup {None}] /\ tokens \in Nat /\ NextToken \in Nat
      /\ \A q \in puts : q.name \in Name
  BY DEF BoardInv, NextToken
<1>2. CASE session = None
  BY <1>1, <1>2 DEF StartUpload
<1>3. CASE session # None /\ ~session.servers
  <2>1. [token |-> tokens, failed |-> TRUE] \in Row
    BY <1>1 DEF Row
  <2>2. /\ rows' = [rows EXCEPT ![n] = [token |-> tokens, failed |-> TRUE]]
        /\ tokens' = NextToken /\ puts' = puts
    BY <1>3 DEF StartUpload
  <2> QED BY <1>1, <2>1, <2>2, NoneAssumption
<1>4. CASE session # None /\ session.servers
  <2> DEFINE token == IF rows[n] = None THEN tokens ELSE rows[n].token
             row == [token |-> token, failed |-> FALSE]
  <2>1. row \in Row
    <3>1. token \in Nat
      BY <1>1 DEF Row
    <3> QED BY <3>1 DEF Row
  <2>2. rows' = [rows EXCEPT ![n] = row] /\ tokens' \in {tokens, NextToken}
    BY <1>4 DEF StartUpload
  <2>3. PICK new : puts' = Quiet(n) \cup {new} /\ new.name = n
    <3> DEFINE new == [id |-> sent + 1, name |-> n, token |-> token, replace |-> replace,
                       live |-> TRUE, bytes |-> None, pc |-> "read",
                       answer |-> "none"]
    <3>1. puts' = Quiet(n) \cup {new}
      BY <1>4 DEF StartUpload
    <3>2. new.name = n
      OBVIOUS
    <3> HIDE DEF new
    <3> QED BY <3>1, <3>2
  <2>4. \A q \in Quiet(n) : q.name \in Name
    <3>1. ASSUME NEW q \in puts PROVE [q EXCEPT !.live = FALSE].name = q.name
      BY DEF PutInv, PutOK
    <3> QED BY <1>1, <3>1 DEF Quiet
  <2> HIDE DEF row
  <2> QED BY <1>1, <2>1, <2>2, <2>3, <2>4, NoneAssumption
<1> QED BY <1>2, <1>3, <1>4

LEMMA SheetFacts ==
    /\ \A n \in Name : Clash(n) \in Sheet /\ Clash(n).kind = "clash" /\ Clash(n).name = n
    /\ \A n \in Name, kind \in {"discard", "remove"} : [kind |-> kind, name |-> n] \in Sheet
    /\ NoSheet \in Sheet /\ NoSheet.kind = "none"
BY DEF Clash, Sheet, NoSheet

\* Questions that come and go without touching a row
LEMMA QuestionBoard ==
    ASSUME BoardInv,
           \/ \E n \in Name : AskRemove(n) \/ AskDiscard(n) \/ Arrive(n)
           \/ ConfirmRemove \/ RetryRemove \/ CancelSheet \/ CancelClash
           \/ \E j \in jobs : RemoveFile(j)
    PROVE  BoardInv'
<1>1. /\ UNCHANGED <<rows, tokens, puts>>
      /\ DOMAIN server' = DOMAIN server /\ DOMAIN local' = DOMAIN local
      /\ DOMAIN landed' = DOMAIN landed
  BY DEF AskRemove, AskDiscard, Arrive, ConfirmRemove, RetryRemove, CancelSheet, CancelClash,
         RemoveFile, Unland, grid, board, told
<1>2. \/ sheet' \in {sheet, NoSheet}
      \/ \E n \in Name, kind \in {"discard", "remove"} : sheet' = [kind |-> kind, name |-> n]
  BY DEF AskRemove, AskDiscard, Arrive, ConfirmRemove, RetryRemove, CancelSheet, CancelClash,
         RemoveFile, Show, board
<1>3. sheet' \in Sheet /\ (sheet'.kind = "clash" => sheet' = sheet)
  <2>1. CASE sheet' \in {sheet, NoSheet}
    BY <2>1, SheetFacts DEF BoardInv
  <2>2. ASSUME NEW n \in Name, NEW kind \in {"discard", "remove"},
               sheet' = [kind |-> kind, name |-> n]
        PROVE  sheet' \in Sheet /\ sheet'.kind # "clash"
    BY <2>2 DEF Sheet
  <2> QED BY <1>2, <2>1, <2>2
<1> QED BY <1>1, <1>3 DEF BoardInv

LEMMA AddBoard ==
    ASSUME BoardInv, PutInv,
           \/ \E b \in Bytes : FilePicked(b)
           \/ ReplaceClash \/ KeepBothClash
           \/ \E n \in Name : RetryUpload(n)
    PROVE  BoardInv'
<1>1. /\ DOMAIN server' = DOMAIN server /\ DOMAIN local' = DOMAIN local
      /\ DOMAIN landed' = DOMAIN landed
  BY DEF FilePicked, ReplaceClash, KeepBothClash, RetryUpload, Unland, told
<1>2. sheet' \in Sheet /\ (sheet'.kind = "clash" => sheet'.name \in Name)
  BY SheetFacts, NameAssumption DEF FilePicked, ReplaceClash, KeepBothClash, RetryUpload, Show, BoardInv
<1>4. \/ UNCHANGED <<rows, tokens, puts>>
      \/ \E n \in Name, replace \in BOOLEAN : StartUpload(n, replace)
  <2>1. CASE \E b \in Bytes : FilePicked(b)
    BY <2>1, NameAssumption DEF FilePicked
  <2>2. CASE ReplaceClash
    BY <2>2 DEF ReplaceClash, Asked, BoardInv
  <2>3. CASE KeepBothClash
    BY <2>3 DEF KeepBothClash
  <2>4. CASE \E n \in Name : RetryUpload(n)
    <3>1. PICK n \in Name : StartUpload(n, n \in Listed)
      BY <2>4 DEF RetryUpload
    <3>2. (n \in Listed) \in BOOLEAN
      OBVIOUS
    <3> QED BY <3>1, <3>2
  <2> QED BY <2>1, <2>2, <2>3, <2>4
<1>5. rows' \in [Name -> Row \cup {None}] /\ tokens' \in Nat /\ \A q \in puts' : q.name \in Name
  BY <1>4, UploadBoard DEF BoardInv
<1> QED BY <1>1, <1>2, <1>5 DEF BoardInv

\* The rows and questions a put, its silence and its answer leave behind
LEMMA PutBoard ==
    ASSUME BoardInv, PutInv, NEW q \in puts,
           \/ ReadCopy(q) \/ LookAt(q) \/ Store(q) \/ Silence(q)
           \/ Dropped(q) \/ PutClashes(q) \/ PutFails(q) \/ PutLands(q)
    PROVE  BoardInv'
<1>1. /\ tokens' = tokens
      /\ DOMAIN server' = DOMAIN server /\ DOMAIN local' = DOMAIN local
      /\ DOMAIN landed' = DOMAIN landed
  BY DEF ReadCopy, LookAt, Store, Silence, Dropped, PutClashes, PutFails, PutLands, Answered,
         Answer, Becomes, grid, board, told
<1>2. \A r \in puts' : r.name \in Name
  <2>1. PutOK(q) /\ q.name \in Name
    BY DEF PutInv, BoardInv
  <2>2. /\ \A a : [q EXCEPT !.pc = "done", !.answer = a].name = q.name
        /\ \A b : [q EXCEPT !.pc = "look", !.bytes = b].name = q.name
        /\ [q EXCEPT !.pc = "store"].name = q.name
    BY <2>1 DEF PutOK
  <2>3. puts' \subseteq puts \/ \E r : r.name = q.name /\ puts' = (puts \ {q}) \cup {r}
    BY <2>2 DEF ReadCopy, LookAt, Store, Silence, Dropped, PutClashes, PutFails, PutLands, Answered,
           Answer, Becomes, grid
  <2> QED BY <2>1, <2>3 DEF BoardInv
<1>3. rows' \in [Name -> Row \cup {None}]
  <2>1. q.name \in Name /\ rows \in [Name -> Row \cup {None}]
    BY DEF BoardInv
  <2>2. rows[q.name] # None => [rows[q.name] EXCEPT !.failed = TRUE] \in Row
    BY <2>1 DEF Row
  <2>3. \/ UNCHANGED rows \/ rows' = [rows EXCEPT ![q.name] = None]
        \/ rows[q.name] # None /\ rows' = [rows EXCEPT ![q.name].failed = TRUE]
    BY DEF ReadCopy, LookAt, Store, Silence, Dropped, PutClashes, PutFails, PutLands, Answered,
           Counts, Answer, Becomes, board
  <2> QED BY <2>1, <2>2, <2>3
<1>4. sheet' \in {sheet, Clash(q.name)}
  BY DEF ReadCopy, LookAt, Store, Silence, Dropped, PutClashes, PutFails, PutLands,
         Answer, Becomes, board
<1> QED BY <1>1, <1>2, <1>3, <1>4, SheetFacts DEF BoardInv

LEMMA DiscardBoard == ASSUME BoardInv, PutInv, ConfirmDiscard PROVE BoardInv'
<1>1. /\ UNCHANGED <<server, tokens, landed>> /\ DOMAIN local' = DOMAIN local
      /\ rows' \in [Name -> Row \cup {None}] /\ sheet' = NoSheet
  BY DEF ConfirmDiscard, told, BoardInv
<1>2. \A q \in puts' : q.name \in Name
  <2>1. ASSUME NEW q \in puts PROVE [q EXCEPT !.live = FALSE].name = q.name
    BY DEF PutInv, PutOK
  <2>2. puts' = puts \/ \E n : puts' = Quiet(n)
    BY DEF ConfirmDiscard
  <2>3. ASSUME NEW n, NEW q \in Quiet(n) PROVE q.name \in Name
    BY <2>1 DEF Quiet, BoardInv
  <2> QED BY <2>2, <2>3 DEF BoardInv
<1> QED BY <1>1, <1>2, SheetFacts DEF BoardInv

LEMMA BoardStep == ASSUME Inv, [Next]_vars PROVE BoardInv'
<1>1. CASE StillSteps
  BY <1>1, StillFacts DEF grid, board, told, Inv, BoardInv
<1>2. CASE Next
  BY <1>1, <1>2, QuestionBoard, AddBoard, PutBoard, DiscardBoard DEF Next, StillSteps, Inv
<1> QED BY <1>1, <1>2 DEF StillSteps

LEMMA InitInv == Init => Inv
<1> SUFFICES ASSUME Init PROVE Inv
  OBVIOUS
<1>1. ticket = 0 /\ jobs = {} /\ busy = FALSE /\ puts = {}
  BY DEF Init
<1>2. RunInv
  BY <1>1 DEF RunInv, BusyIsCurrent, Current
<1>3. PutInv
  BY <1>1 DEF PutInv, OneLivePut
<1>4. BoardInv
  BY SheetFacts DEF Init, BoardInv, NoRow
<1> QED BY <1>1, <1>2, <1>3, <1>4 DEF Inv

LEMMA Invariance == Spec => []Inv
<1>1. ASSUME Inv, [Next]_vars
      PROVE  Inv'
  <2>1. RunMoves /\ PutMoves
    <3>1. CASE UNCHANGED vars
      <4>1. UNCHANGED run /\ UNCHANGED puts
        BY <3>1 DEF vars, grid
      <4> QED BY <4>1, RunMoveFacts DEF PutMoves
    <3>2. UNCHANGED puts => PutMoves
      BY DEF PutMoves
    <3>3. ASSUME NEW j \in jobs,
                 \/ Unwind(j) \/ Refused(j) \/ ReadList(j) \/ RemoveFile(j)
                 \/ \E has \in BOOLEAN : ThrowsLate(j, has)
                 \/ \E ok \in BOOLEAN : \/ \E some, has \in BOOLEAN : FinishLearn(j, ok, some, has)
                                        \/ FinishList(j, ok)
                                        \/ FinishDownload(j, ok)
                                        \/ FinishRemove(j, ok)
          PROVE  RunMoves /\ PutMoves
      BY <1>1, <3>2, <3>3, EndSteps, ReadSteps
    <3>4. ASSUME NEW q \in puts,
                 \/ ReadCopy(q) \/ LookAt(q) \/ Store(q) \/ Silence(q)
                 \/ Dropped(q) \/ PutClashes(q) \/ PutFails(q) \/ PutLands(q)
          PROVE  RunMoves /\ PutMoves
      BY <1>1, <3>4, GridSteps, AnswerSteps
    <3>5. CASE Next
      BY <3>2, <3>3, <3>4, <3>5, ScreenSteps, AddSteps DEF Next
    <3> QED BY <1>1, <3>1, <3>5
  <2> QED BY <1>1, <2>1, RunStep, PutStep, BoardStep DEF Inv
<1> QED BY <1>1, InitInv, PTL DEF Spec

(* ---- what a name has on the grid -------------------------------------------------- *)

\* A put as good as p for the name: read or not read yet, with the same bytes.
Like(q, p) == q.name = p.name /\ q.bytes = p.bytes /\ (q.pc = "read" <=> p.pc = "read")

\* The name gains nothing.
Shrinks(n) ==
    /\ server'[n] = server[n] /\ local'[n] \in {local[n], None} /\ landed'[n] \in {landed[n], None}
    /\ rows[n] = None => rows'[n] = None
    /\ \A q \in Working(n)' : \E p \in Working(n) : Like(q, p)
    /\ \A q \in Due(n)' : \E p \in Due(n) : q.bytes = p.bytes
    /\ Removing(n)' => Removing(n)

\* Nothing but the name x is touched.
Only(x) ==
    /\ \A n \in Name \ {x} : /\ server'[n] = server[n] /\ local'[n] = local[n]
                             /\ landed'[n] = landed[n] /\ rows'[n] = rows[n]
                             /\ Removing(n)' => Removing(n)
    /\ \A q \in puts' : q.name # x => q \in puts

LEMMA ShrinkStep == ASSUME NEW n, NameInv(n), Shrinks(n) PROVE NameInv(n)'
<1>1. ASSUME NEW q \in Working(n)', NEW p \in Working(n), Like(q, p), NEW c, Carries(p, c)
      PROVE  Carries(q, c)'
  <2>1. q.name = n /\ p.name = n
    BY DEF Working
  <2> QED BY <1>1, <2>1 DEF Like, Carries, Shrinks
<1>2. RemovedAlone(n)'
  BY DEF NameInv, RemovedAlone, Shrinks
<1>3. SameCopy(n)'
  <2> SUFFICES ASSUME NEW q \in Working(n)', q.pc # "read"
               PROVE  /\ q.bytes # None /\ local'[n] \in {q.bytes, None}
                      /\ \A r \in Working(n)' : Carries(r, q.bytes)'
    BY DEF SameCopy
  <2>1. PICK p \in Working(n) : Like(q, p)
    BY DEF Shrinks
  <2>2. p.pc # "read" /\ q.bytes = p.bytes
    BY <2>1 DEF Like
  <2>3. p.bytes # None /\ local[n] \in {p.bytes, None} /\ \A r \in Working(n) : Carries(r, p.bytes)
    BY <2>2 DEF NameInv, SameCopy
  <2>4. \A r \in Working(n)' : Carries(r, q.bytes)'
    BY <1>1, <2>2, <2>3 DEF Shrinks
  <2> QED BY <2>2, <2>3, <2>4 DEF Shrinks
<1>4. DueIsStored(n)'
  <2> SUFFICES ASSUME NEW q \in Due(n)'
               PROVE  /\ q.bytes # None /\ server'[n] = q.bytes
                      /\ \A r \in Working(n)' : Carries(r, q.bytes)'
    BY DEF DueIsStored
  <2>1. PICK p \in Due(n) : q.bytes = p.bytes
    BY DEF Shrinks
  <2>2. p.bytes # None /\ server[n] = p.bytes /\ \A r \in Working(n) : Carries(r, p.bytes)
    BY DEF NameInv, DueIsStored
  <2>3. \A r \in Working(n)' : Carries(r, q.bytes)'
    BY <1>1, <2>1, <2>2 DEF Shrinks
  <2> QED BY <2>1, <2>2, <2>3 DEF Shrinks
<1>5. LandedIsStored(n)'
  <2> SUFFICES ASSUME landed'[n] # None
               PROVE  /\ server'[n] = landed'[n]
                      /\ \A r \in Working(n)' :
                            Carries(r, landed[n])' /\ (r.pc = "read" => local'[n] = None)
    BY DEF LandedIsStored
  <2>1. /\ landed[n] # None /\ landed'[n] = landed[n] /\ server[n] = landed[n]
        /\ \A r \in Working(n) : Carries(r, landed[n]) /\ (r.pc = "read" => local[n] = None)
    BY DEF NameInv, LandedIsStored, Shrinks
  <2>2. ASSUME NEW r \in Working(n)'
        PROVE  Carries(r, landed[n])' /\ (r.pc = "read" => local'[n] = None)
    <3>1. PICK p \in Working(n) : Like(r, p)
      BY DEF Shrinks
    <3>2. \A c : Carries(p, c) => Carries(r, c)'
      BY <1>1, <3>1
    <3>3. r.pc = "read" => local'[n] = None
      BY <2>1, <3>1 DEF Like, Shrinks
    <3>4. Carries(r, landed[n])'
      <4>1. CASE r.pc = "read"
        <5>1. r.name = n
          BY DEF Working
        <5> QED BY <3>3, <4>1, <5>1 DEF Carries
      <4>2. CASE r.pc # "read"
        BY <2>1, <3>1, <4>2 DEF Like, Carries
      <4> QED BY <4>1, <4>2
    <3> QED BY <3>3, <3>4
  <2> QED BY <2>1, <2>2 DEF Shrinks
<1> QED BY <1>2, <1>3, <1>4, <1>5 DEF NameInv

LEMMA OthersStep ==
    ASSUME NEW x, Only(x), NEW n \in Name \ {x}, NameInv(n)
    PROVE  NameInv(n)'
<1>1. Working(n)' \subseteq Working(n) /\ Due(n)' \subseteq Due(n)
  BY DEF Only, Working, Due
<1>2. Shrinks(n)
  BY <1>1 DEF Only, Shrinks, Like
<1> QED BY <1>2, ShrinkStep

\* Nothing on the way but what has still to read the copy, or nothing at all
LEMMA FreshStep ==
    ASSUME NEW x, NameInv(x), ~Removing(x)',
           \A q \in Working(x)' : q.pc = "read",
           \/ Due(x)' = {} /\ landed'[x] = None
           \/ /\ Working(x)' = {} /\ Due(x)' \subseteq Due(x)
              /\ server'[x] = server[x] /\ landed'[x] \in {landed[x], None}
    PROVE  NameInv(x)'
<1>1. RemovedAlone(x)' /\ SameCopy(x)'
  BY DEF RemovedAlone, SameCopy
<1>2. DueIsStored(x)'
  BY DEF NameInv, DueIsStored
<1>3. LandedIsStored(x)'
  BY DEF NameInv, LandedIsStored
<1> QED BY <1>1, <1>2, <1>3 DEF NameInv

(* ---- removals under way -------------------------------------------------------------- *)

CalmRun ==
    \/ UNCHANGED run \/ StopRun \/ Reload
    \/ \E kind, n : kind # "remove" /\ Launch(kind, n)
    \/ \E j \in jobs : Ended(j)
    \/ \E j \in jobs : \E pc, seen : pc # "run" /\ Change(j, [[j EXCEPT !.pc = pc] EXCEPT !.seen = seen])

LEMMA CalmFacts == ASSUME RunInv, CalmRun, NEW n, Removing(n)' PROVE Removing(n)
<1>1. PICK j \in jobs' : j.kind = "remove" /\ j.name = n /\ j.pc = "run"
  BY DEF Removing
<1>2. CASE UNCHANGED run \/ \E i \in jobs : Ended(i)
  BY <1>1, <1>2 DEF run, Ended, Removing
<1>3. ASSUME NEW kind, NEW m, kind # "remove", Launch(kind, m) PROVE Removing(n)
  <2>1. PICK new : jobs' = jobs \cup {new} /\ new.kind = kind
    <3> DEFINE new == [id |-> ticket + 1, kind |-> kind, name |-> m, seen |-> NoRow, pc |-> "run",
                       base |-> IF kind = "refresh" THEN session ELSE None]
    <3>1. jobs' = jobs \cup {new}
      BY <1>3 DEF Launch
    <3>2. new.kind = kind
      OBVIOUS
    <3> HIDE DEF new
    <3> QED BY <3>1, <3>2
  <2> QED BY <1>1, <1>3, <2>1 DEF Removing
<1>4. CASE StopRun
  BY <1>1, <1>4 DEF StopRun, Removing
<1>5. CASE Reload
  <2>1. UNCHANGED run \/ Launch("list", None)
    BY <1>5 DEF Reload
  <2> QED BY <1>2, <1>3, <2>1
<1>6. ASSUME NEW i \in jobs, NEW pc, NEW seen, pc # "run",
             Change(i, [[i EXCEPT !.pc = pc] EXCEPT !.seen = seen])
      PROVE  Removing(n)
  <2> DEFINE r == [[i EXCEPT !.pc = pc] EXCEPT !.seen = seen]
  <2>1. jobs' = (jobs \ {i}) \cup {r}
    BY <1>6 DEF Change
  <2>2. r.pc = pc
    BY DEF RunInv, JobOK
  <2> HIDE DEF r
  <2>3. j \in jobs
    BY <1>1, <1>6, <2>1, <2>2
  <2> QED BY <1>1, <2>3 DEF Removing
<1> QED BY <1>2, <1>3, <1>4, <1>5, <1>6 DEF CalmRun

LEMMA StillCalm == ASSUME Inv, StillSteps PROVE CalmRun
<1>1. ASSUME NEW j \in jobs, ReadList(j) PROVE CalmRun
  <2>1. Change(j, [[j EXCEPT !.pc = "done"] EXCEPT !.seen = server])
    BY <1>1 DEF ReadList
  <2> QED BY <2>1 DEF CalmRun
<1>2. ASSUME NEW j \in jobs,
             \/ Unwind(j) \/ Refused(j) \/ \E has \in BOOLEAN : ThrowsLate(j, has)
             \/ \E ok \in BOOLEAN : \/ \E some, has \in BOOLEAN : FinishLearn(j, ok, some, has)
                                    \/ FinishList(j, ok) \/ FinishDownload(j, ok) \/ FinishRemove(j, ok)
      PROVE  CalmRun
  <2>1. Ended(j) \/ Launch("list", None)
    BY <1>2 DEF Unwind, Refused, ThrowsLate, FinishLearn, FinishList, FinishDownload, FinishRemove
  <2> QED BY <2>1 DEF CalmRun
<1>3. ASSUME \/ Join \/ Import \/ Refresh \/ OpenFolder \/ Back \/ GoImport \/ RecoveryPicked
             \/ CancelImport \/ BeginRecoveryImport \/ Forget \/ CancelDownload
             \/ Dismiss \/ AddFile \/ NothingPicked \/ (\E n \in Name : Download(n)) \/ UNCHANGED vars
      PROVE  CalmRun
  <2>1. \/ UNCHANGED run \/ StopRun \/ Reload
        \/ \E n : Launch("join", n) \/ Launch("import", n) \/ Launch("refresh", n) \/ Launch("download", n)
    BY <1>3 DEF Join, Import, Refresh, OpenFolder, Back, GoImport, RecoveryPicked, Ask, GoTo, CancelImport,
         BeginRecoveryImport, Forget, CancelDownload, Dismiss, AddFile, NothingPicked, Download, vars
  <2> QED BY <2>1 DEF CalmRun
<1> QED BY <1>1, <1>2, <1>3 DEF StillSteps

(* ---- the steps that touch a name ------------------------------------------------------- *)

LEMMA CrossFacts ==
    ASSUME NEW x, Cross(x) \/ CrossRow(x)
    PROVE  /\ crossed \subseteq crossed'
           /\ x \notin crossed' => Working(x) = {} /\ ~Removing(x)
           /\ CrossRow(x) /\ x \notin crossed' => rows[x] = None
BY DEF Cross, CrossRow, Crossing, Working, Removing

LEMMA UploadGrid ==
    ASSUME Inv, NEW x \in Name, NEW replace \in BOOLEAN, StartUpload(x, replace)
    PROVE  /\ \A q \in puts' : q.name # x => q \in puts
           /\ \/ puts' = puts
              \/ /\ Due(x)' = {}
                 /\ \A q \in Working(x)' : q.pc = "read" \/ \E p \in Working(x) : Like(q, p)
           /\ RowsInv => \A q \in puts' : q.live => rows'[q.name] # None
<1>1. /\ \A m \in Name : m # x => rows'[m] = rows[m]
      /\ session # None \/ rows[x] # None => rows'[x] # None
      /\ \A q \in puts' : q.name \in Name
  BY UploadBoard DEF Inv
<1>2. CASE puts' = puts
  BY <1>1, <1>2 DEF RowsInv
<1>3. CASE puts' # puts
  <2> DEFINE token == IF rows[x] = None THEN tokens ELSE rows[x].token
             put == [id |-> sent + 1, name |-> x, token |-> token, replace |-> replace,
                     live |-> TRUE, bytes |-> None, pc |-> "read",
                     answer |-> "none"]
  <2>1. session # None /\ puts' = Quiet(x) \cup {put}
    BY <1>3 DEF StartUpload
  <2>2. put.name = x /\ put.pc = "read"
    OBVIOUS
  <2> HIDE DEF put
  <2>3. \A q \in Quiet(x) : q.live => q \in puts /\ q.name # x
    BY QuietFacts DEF Inv
  <2>4. ASSUME NEW q \in Quiet(x)
        PROVE  /\ q.name # x => q \in puts
               /\ q.name = x => \E p \in puts : p.name = x /\ p.pc = q.pc /\ p.bytes = q.bytes
    <3>1. CASE q \in puts
      BY <3>1
    <3>2. CASE q \notin puts
      <4>1. PICK p \in puts : p.name = x /\ q = [p EXCEPT !.live = FALSE]
        BY <3>2 DEF Quiet
      <4>2. q.name = x /\ p.pc = q.pc /\ p.bytes = q.bytes
        BY <4>1 DEF Inv, PutInv, PutOK
      <4> QED BY <4>1, <4>2
    <3> QED BY <3>1, <3>2
  <2>5. Due(x)' = {}
    BY <2>1, <2>2, <2>3 DEF Due
  <2>6. ASSUME NEW q \in Working(x)', q.pc # "read" PROVE \E p \in Working(x) : Like(q, p)
    BY <2>1, <2>2, <2>4, <2>6 DEF Working, Like
  <2>7. \A q \in puts' : q.name # x => q \in puts
    BY <2>1, <2>2, <2>4
  <2>8. RowsInv => \A q \in puts' : q.live => rows'[q.name] # None
    BY <1>1, <2>1, <2>2, <2>3 DEF RowsInv, Inv, BoardInv
  <2> QED BY <2>5, <2>6, <2>7, <2>8
<1> QED BY <1>2, <1>3

\* The name is added anew, and unless it is crossed nothing of it was under way.
LEMMA StartOver ==
    ASSUME Inv, GridInv, NEW x \in Name, NEW replace \in BOOLEAN, StartUpload(x, replace),
           Cross(x), landed' = [landed EXCEPT ![x] = None], server' = server, UNCHANGED run,
           \A n \in Name \ {x} : local'[n] \in {local[n], None}
    PROVE  GridInv'
<1>1. /\ DOMAIN landed = Name
      /\ \A m \in Name : m # x => rows'[m] = rows[m]
  BY UploadBoard DEF Inv, BoardInv
<1>2. RowsInv'
  BY <1>1, UploadGrid DEF GridInv, RowsInv
<1>3. \A n : Removing(n)' => Removing(n)
  BY DEF run, Removing
<1>4. ASSUME NEW n \in Name \ crossed', n # x PROVE NameInv(n)'
  <2>1. NameInv(n)
    BY CrossFacts DEF GridInv
  <2>2. Working(n)' \subseteq Working(n) /\ Due(n)' \subseteq Due(n)
    BY <1>4, UploadGrid DEF Working, Due
  <2>3. Shrinks(n)
    BY <1>1, <1>3, <1>4, <2>2 DEF Shrinks, Like
  <2> QED BY <2>1, <2>3, ShrinkStep
<1>5. ASSUME x \notin crossed' PROVE NameInv(x)'
  <2>1. NameInv(x) /\ Working(x) = {} /\ ~Removing(x)
    BY <1>5, CrossFacts DEF GridInv
  <2>2. landed'[x] = None
    BY <1>1
  <2>3. CASE puts' = puts
    <3>1. Working(x)' = {} /\ Due(x)' \subseteq Due(x)
      BY <2>1, <2>3 DEF Working, Due
    <3> QED BY <1>3, <2>1, <2>2, <3>1, FreshStep
  <2>4. CASE puts' # puts
    <3>1. Due(x)' = {} /\ \A q \in Working(x)' : q.pc = "read"
      BY <2>1, <2>4, UploadGrid
    <3> QED BY <1>3, <2>1, <2>2, <3>1, FreshStep
  <2> QED BY <2>3, <2>4
<1> QED BY <1>2, <1>4, <1>5 DEF GridInv

\* Steps after which every name has at most what it had
LEMMA ShrinkAll ==
    ASSUME GridInv, RowsInv', crossed \subseteq crossed', \A n \in Name : Shrinks(n)
    PROVE  GridInv'
BY ShrinkStep DEF GridInv

LEMMA StillGrid == ASSUME Inv, GridInv, StillSteps PROVE GridInv'
<1>1. UNCHANGED <<puts, server, rows, local, landed, crossed>>
  BY StillFacts DEF grid, board, told
<1>2. RowsInv'
  BY <1>1 DEF GridInv, RowsInv
<1>3. \A n : Removing(n)' => Removing(n)
  BY CalmFacts, StillCalm DEF Inv
<1>4. \A n \in Name : Shrinks(n)
  BY <1>1, <1>3 DEF Shrinks, Working, Due, Like
<1> QED BY <1>1, <1>2, <1>4, ShrinkAll

LEMMA QuestionGrid ==
    ASSUME Inv, GridInv, CancelSheet \/ CancelClash \/ \E n \in Name : AskRemove(n) \/ AskDiscard(n)
    PROVE  GridInv'
<1>1. /\ UNCHANGED <<puts, server, rows, landed, crossed, run>>
      /\ \A n \in Name : local'[n] \in {local[n], None}
  BY DEF CancelSheet, CancelClash, AskRemove, AskDiscard, grid, told, Inv, BoardInv
<1>2. RowsInv'
  BY <1>1 DEF GridInv, RowsInv
<1>3. \A n \in Name : Shrinks(n)
  BY <1>1 DEF Shrinks, Working, Due, Removing, run, Like
<1> QED BY <1>1, <1>2, <1>3, ShrinkAll

LEMMA ArriveGrid == ASSUME Inv, GridInv, NEW x \in Name, Arrive(x) PROVE GridInv'
<1>1. /\ UNCHANGED <<puts, rows, local, landed, crossed, run>>
      /\ server[x] = None /\ server' = [server EXCEPT ![x] = Theirs] /\ DOMAIN server = Name
  BY DEF Arrive, board, told, Inv, BoardInv
<1>2. Only(x)
  BY <1>1 DEF Only, run, Removing
<1>3. ASSUME NameInv(x) PROVE NameInv(x)'
  <2>1. Due(x) = {} /\ landed[x] = None
    BY <1>1, <1>3 DEF NameInv, DueIsStored, LandedIsStored
  <2>2. Working(x)' = Working(x) /\ Due(x)' = {}
    BY <1>1, <2>1 DEF Working, Due
  <2>3. RemovedAlone(x)'
    BY <1>1, <1>3, <2>2 DEF NameInv, RemovedAlone, Removing, run
  <2>4. SameCopy(x)'
    BY <1>1, <1>3, <2>2 DEF NameInv, SameCopy, Carries
  <2> QED BY <1>1, <2>1, <2>2, <2>3, <2>4 DEF NameInv, DueIsStored, LandedIsStored
<1> QED BY <1>1, <1>2, <1>3, OthersStep DEF GridInv, RowsInv

LEMMA RemoveGrid ==
    ASSUME Inv, GridInv, ConfirmRemove \/ RetryRemove \/ \E j \in jobs : RemoveFile(j)
    PROVE  GridInv'
<1>1. CASE ConfirmRemove \/ RetryRemove
  <2>0. PICK x : (ConfirmRemove /\ x = sheet.name) \/ (RetryRemove /\ x = retry)
    BY <1>1
  <2>1. /\ UNCHANGED <<puts, server, rows, local>> /\ CrossRow(x)
        /\ landed' = [landed EXCEPT ![x] = None] /\ DOMAIN landed = Name
        /\ UNCHANGED run \/ Launch("remove", x)
    BY <2>0 DEF ConfirmRemove, RetryRemove, Unland, grid, board, Inv, BoardInv
  <2>2. RowsInv'
    BY <2>1 DEF GridInv, RowsInv
  <2>3. ASSUME NEW n, n # x PROVE Removing(n)' => Removing(n)
    <3>1. CASE UNCHANGED run
      BY <3>1 DEF run, Removing
    <3>2. CASE Launch("remove", x)
      <4>1. PICK new : jobs' = jobs \cup {new} /\ new.name = x
        <5> DEFINE new == [id |-> ticket + 1, kind |-> "remove", name |-> x, seen |-> NoRow,
                           pc |-> "run", base |-> IF "remove" = "refresh" THEN session ELSE None]
        <5>1. jobs' = jobs \cup {new}
          BY <3>2 DEF Launch
        <5>2. new.name = x
          OBVIOUS
        <5> HIDE DEF new
        <5> QED BY <5>1, <5>2
      <4> QED BY <2>3, <4>1 DEF Removing
    <3> QED BY <2>1, <3>1, <3>2
  <2>4. Only(x)
    BY <2>1, <2>3 DEF Only
  <2>5. ASSUME x \in Name \ crossed' PROVE NameInv(x)'
    <3>1. NameInv(x) /\ Working(x) = {} /\ rows[x] = None
      BY <2>1, <2>5, CrossFacts DEF GridInv
    <3>2. Working(x)' = {} /\ Due(x)' = Due(x) /\ landed'[x] = None
      BY <2>1, <2>5, <3>1 DEF Working, Due
    <3> QED BY <2>1, <3>1, <3>2
            DEF NameInv, RemovedAlone, SameCopy, DueIsStored, LandedIsStored
  <2>6. \A n \in Name \ crossed' : NameInv(n)'
    BY <2>1, <2>4, <2>5, OthersStep, CrossFacts DEF GridInv
  <2> QED BY <2>2, <2>6 DEF GridInv
<1>2. ASSUME NEW j \in jobs, RemoveFile(j) PROVE GridInv'
  <2> DEFINE x == j.name
  <2>0. /\ DOMAIN server = Name
        /\ server' = server \/ server' = [server EXCEPT ![x] = None]
        /\ \E pc \in {"done", "failed"} : Change(j, [j EXCEPT !.pc = pc])
    BY <1>2 DEF RemoveFile, Inv, BoardInv
  <2>1. /\ UNCHANGED <<puts, rows, local, landed, crossed>> /\ Removing(x)
        /\ \A n \in Name : n # x => server'[n] = server[n]
    BY <1>2, <2>0 DEF RemoveFile, board, told, Removing
  <2>2. CalmRun
    <3>1. ASSUME NEW pc PROVE [j EXCEPT !.pc = pc] = [[j EXCEPT !.pc = pc] EXCEPT !.seen = j.seen]
      BY DEF Inv, RunInv, JobOK
    <3>2. PICK pc \in {"done", "failed"} : Change(j, [j EXCEPT !.pc = pc])
      BY <2>0
    <3>3. Change(j, [[j EXCEPT !.pc = pc] EXCEPT !.seen = j.seen]) /\ pc # "run"
      BY <3>1, <3>2
    <3> QED BY <3>3 DEF CalmRun
  <2>3. Only(x)
    BY <2>1, <2>2, CalmFacts DEF Only, Inv
  <2>4. ASSUME x \in Name \ crossed PROVE NameInv(x)'
    <3>1. NameInv(x) /\ RowsInv /\ rows[x] = None /\ landed[x] = None /\ Working(x) = {}
      BY <2>1, <2>4 DEF GridInv, NameInv, RemovedAlone
    <3>2. Due(x) = {}
      BY <3>1 DEF RowsInv, Due
    <3>3. Due(x)' = {} /\ Working(x)' = {} /\ rows'[x] = None /\ landed'[x] = None
      BY <2>1, <3>1, <3>2 DEF Due, Working
    <3> QED BY <3>3 DEF NameInv, RemovedAlone, SameCopy, DueIsStored, LandedIsStored
  <2> QED BY <2>1, <2>3, <2>4, OthersStep DEF GridInv, RowsInv
<1> QED BY <1>1, <1>2

LEMMA PickGrid == ASSUME Inv, GridInv, NEW b \in Bytes, FilePicked(b) PROVE GridInv'
<1>1. /\ server' = server /\ UNCHANGED run /\ Cross(1) /\ 1 \in Name
      /\ local' = [local EXCEPT ![1] = b] /\ DOMAIN local = Name
  BY NameAssumption DEF FilePicked, Inv, BoardInv
<1>2. CASE 1 \in Taken
  <2>1. UNCHANGED <<puts, rows, landed>>
    BY <1>2 DEF FilePicked
  <2>2. Only(1)
    BY <1>1, <2>1 DEF Only, run, Removing
  <2>3. ASSUME 1 \notin crossed' PROVE NameInv(1)'
    <3>1. NameInv(1) /\ Working(1) = {} /\ ~Removing(1)
      BY <1>1, <2>3, CrossFacts DEF GridInv
    <3>2. Working(1)' = {} /\ Due(1)' \subseteq Due(1) /\ ~Removing(1)'
      BY <1>1, <2>1, <3>1 DEF Working, Due, Removing, run
    <3> QED BY <1>1, <2>1, <3>1, <3>2, FreshStep
  <2> QED BY <1>1, <2>1, <2>2, <2>3, OthersStep, CrossFacts DEF GridInv, RowsInv
<1>3. CASE 1 \notin Taken
  <2>1. StartUpload(1, FALSE) /\ landed' = [landed EXCEPT ![1] = None]
    BY <1>3 DEF FilePicked, Unland
  <2> QED BY <1>1, <2>1, StartOver
<1> QED BY <1>2, <1>3

LEMMA ClashGrid == ASSUME Inv, GridInv, ReplaceClash \/ KeepBothClash PROVE GridInv'
<1>0. PICK n \in Name : n = sheet.name
  BY DEF ReplaceClash, KeepBothClash, Asked, Inv, BoardInv
<1>1. server' = server /\ UNCHANGED run /\ DOMAIN local = Name
  BY DEF ReplaceClash, KeepBothClash, Inv, BoardInv
<1>2. CASE UNCHANGED <<puts, rows, local, landed, crossed>>
  <2>1. RowsInv' /\ \A m \in Name : Shrinks(m)
    BY <1>1, <1>2 DEF GridInv, RowsInv, Shrinks, Working, Due, Removing, run, Like
  <2> QED BY <1>2, <2>1, ShrinkAll
<1>3. CASE ReplaceClash
  <2>1. \/ UNCHANGED <<puts, rows, local, landed, crossed>>
        \/ /\ StartUpload(n, TRUE) /\ Cross(n) /\ local' = local
           /\ landed' = [landed EXCEPT ![n] = None]
    BY <1>0, <1>3 DEF ReplaceClash, Unland, told
  <2> QED BY <1>1, <1>2, <2>1, StartOver
<1>4. CASE KeepBothClash
  <2>1. PICK m \in Name :
          \/ UNCHANGED <<puts, rows, local, landed, crossed>>
          \/ /\ StartUpload(m, FALSE) /\ Cross(m)
             /\ local' = [local EXCEPT ![m] = local[n], ![n] = None]
             /\ landed' = [landed EXCEPT ![m] = None]
    BY <1>0, <1>4 DEF KeepBothClash, Unland, told
  <2> QED BY <1>1, <1>2, <2>1, StartOver
<1> QED BY <1>3, <1>4

\* What is sent again carries the app's copy, as what is still on its way does.
LEMMA RetryGrid == ASSUME Inv, GridInv, NEW x \in Name, RetryUpload(x) PROVE GridInv'
<1>1. /\ UNCHANGED <<server, local, landed, crossed, run>> /\ rows[x] # None
      /\ StartUpload(x, x \in Listed) /\ (x \in Listed) \in BOOLEAN
  BY DEF RetryUpload, PendingCard, told
<1>2. /\ \A n \in Name : n # x => rows'[n] = rows[n]
      /\ landed[x] = None
  BY <1>1, UploadBoard DEF Inv, GridInv, RowsInv
<1>3. RowsInv'
  BY <1>1, <1>2, UploadGrid DEF GridInv, RowsInv
<1>4. Only(x)
  BY <1>1, <1>2, UploadGrid DEF Only, run, Removing
<1>5. ASSUME NameInv(x) PROVE NameInv(x)'
  <2>1. ~Removing(x)'
    BY <1>1, <1>5 DEF NameInv, RemovedAlone, Removing, run
  <2>2. CASE puts' = puts
    <3>1. Shrinks(x)
      BY <1>1, <2>1, <2>2 DEF Shrinks, Working, Due, Like
    <3> QED BY <1>5, <3>1, ShrinkStep
  <2>3. CASE puts' # puts
    <3>1. Due(x)' = {} /\ \A q \in Working(x)' : q.pc = "read" \/ \E p \in Working(x) : Like(q, p)
      BY <1>1, <2>3, UploadGrid
    <3>2. SameCopy(x)'
      <4> SUFFICES ASSUME NEW q \in Working(x)', q.pc # "read"
                   PROVE  /\ q.bytes # None /\ local'[x] \in {q.bytes, None}
                          /\ \A r \in Working(x)' : Carries(r, q.bytes)'
        BY DEF SameCopy
      <4>1. PICK p \in Working(x) : Like(q, p)
        BY <3>1
      <4>2. /\ q.bytes # None /\ local[x] \in {q.bytes, None}
            /\ \A r \in Working(x) : Carries(r, q.bytes)
        BY <1>5, <4>1 DEF NameInv, SameCopy, Like
      <4>3. ASSUME NEW r \in Working(x)' PROVE Carries(r, q.bytes)'
        <5>1. r.name = x
          BY DEF Working
        <5>2. CASE r.pc = "read"
          BY <1>1, <4>2, <5>1, <5>2 DEF Carries
        <5>3. CASE r.pc # "read"
          <6>1. PICK s \in Working(x) : Like(r, s)
            BY <3>1, <5>3
          <6> QED BY <4>2, <5>3, <6>1 DEF Carries, Like
        <5> QED BY <5>2, <5>3
      <4> QED BY <1>1, <4>2, <4>3
    <3> QED BY <1>1, <1>2, <2>1, <3>1, <3>2 DEF NameInv, RemovedAlone, DueIsStored, LandedIsStored
  <2> QED BY <2>2, <2>3
<1> QED BY <1>1, <1>3, <1>4, <1>5, OthersStep DEF GridInv

LEMMA DiscardGrid == ASSUME Inv, GridInv, ConfirmDiscard PROVE GridInv'
<1>0. PICK x : x = sheet.name
  OBVIOUS
<1>1. /\ UNCHANGED <<server, landed, crossed, run>>
      /\ \/ UNCHANGED <<rows, local, puts>>
         \/ /\ rows' = [rows EXCEPT ![x] = None] /\ local' = [local EXCEPT ![x] = None]
            /\ puts' = Quiet(x)
      /\ DOMAIN rows = Name /\ DOMAIN local = Name
  BY <1>0 DEF ConfirmDiscard, told, Inv, BoardInv
<1>2. CASE UNCHANGED <<rows, local, puts>>
  <2>1. RowsInv' /\ \A m \in Name : Shrinks(m)
    BY <1>1, <1>2 DEF GridInv, RowsInv, Shrinks, Working, Due, Removing, run, Like
  <2> QED BY <1>1, <2>1, ShrinkAll
<1>3. CASE puts' = Quiet(x) /\ rows' = [rows EXCEPT ![x] = None] /\ local' = [local EXCEPT ![x] = None]
  <2>1. \A q \in Quiet(x) : q.live => q \in puts /\ q.name # x
    BY QuietFacts DEF Inv
  <2>2. ASSUME NEW q \in Quiet(x)
        PROVE  \E p \in puts : /\ p.name = q.name /\ p.pc = q.pc /\ p.bytes = q.bytes
                               /\ q.live => p = q
    <3>1. CASE q \in puts
      BY <3>1
    <3>2. CASE q \notin puts
      <4>1. PICK p \in puts : p.name = x /\ q = [p EXCEPT !.live = FALSE]
        BY <3>2 DEF Quiet
      <4>2. q.name = x /\ p.pc = q.pc /\ p.bytes = q.bytes /\ q.live = FALSE
        BY <4>1 DEF Inv, PutInv, PutOK
      <4> QED BY <4>1, <4>2
    <3> QED BY <3>1, <3>2
  <2>3. RowsInv'
    BY <1>1, <1>3, <2>1 DEF GridInv, RowsInv, Inv, BoardInv
  <2>4. ASSUME NEW n \in Name PROVE Shrinks(n)
    <3>1. \A q \in Working(n)' : \E p \in Working(n) : Like(q, p)
      BY <1>3, <2>2 DEF Working, Like
    <3>2. Due(n)' \subseteq Due(n)
      BY <1>3, <2>2 DEF Due
    <3> QED BY <1>1, <1>3, <3>1, <3>2 DEF Shrinks, run, Removing
  <2> QED BY <1>1, <2>3, <2>4, ShrinkAll
<1> QED BY <1>1, <1>2, <1>3

(* ---- a put at work -------------------------------------------------------------------- *)

LEMMA ReplacedGrid ==
    ASSUME Inv, GridInv, NEW q \in puts, NEW r, Same(q, r), Becomes(q, r),
           server' = server \/ \E c : server' = [server EXCEPT ![q.name] = c],
           NameInv(q.name) => NameInv(q.name)'
    PROVE  GridInv'
<1>1. /\ puts' = (puts \ {q}) \cup {r} /\ r.name = q.name /\ r.live = q.live
      /\ UNCHANGED <<rows, local, landed, crossed, run>> /\ DOMAIN server = Name
  BY DEF Becomes, Same, board, told, Inv, BoardInv
<1>2. RowsInv'
  BY <1>1 DEF GridInv, RowsInv
<1>3. Only(q.name)
  BY <1>1 DEF Only, Removing, run
<1> QED BY <1>1, <1>2, <1>3, OthersStep DEF GridInv

\* A put that is over without the file on the grid, or that has still to store it
LEMMA IdleName ==
    ASSUME NEW q \in puts, NEW r, r.name = q.name, Becomes(q, r), server' = server, q.pc # "done",
           \/ r.pc = "done" /\ r.answer # "ok"
           \/ q.pc # "read" /\ r.pc \notin {"read", "done"} /\ r.bytes = q.bytes,
           NameInv(q.name)
    PROVE  NameInv(q.name)'
<1>1. /\ puts' = (puts \ {q}) \cup {r} /\ UNCHANGED <<rows, local, landed, run>>
  BY DEF Becomes, board, told
<1>2. \A s \in Working(q.name)' : \E p \in Working(q.name) : Like(s, p)
  BY <1>1 DEF Working, Like
<1>3. Due(q.name)' \subseteq Due(q.name)
  BY <1>1 DEF Due
<1> QED BY <1>1, <1>2, <1>3, ShrinkStep DEF Shrinks, Removing, run

\* A put whose bytes are on the grid by now
LEMMA StoredName ==
    ASSUME NEW q \in puts, NEW r, r.name = q.name, r.bytes = q.bytes, r.pc = "done", Becomes(q, r),
           q.pc \notin {"read", "done"}, server'[q.name] = q.bytes,
           NameInv(q.name)
    PROVE  NameInv(q.name)'
<1> DEFINE x == q.name
<1>1. /\ puts' = (puts \ {q}) \cup {r} /\ UNCHANGED <<rows, local, landed, run>>
  BY DEF Becomes, board, told
<1>2. q \in Working(x) /\ Working(x)' \subseteq Working(x)
  BY <1>1 DEF Working
<1>3. q.bytes # None /\ \A s \in Working(x) : Carries(s, q.bytes)
  BY <1>2 DEF NameInv, SameCopy
<1>4. \A s, c : Carries(s, c)' <=> Carries(s, c)
  BY <1>1 DEF Carries
<1>5. RemovedAlone(x)'
  BY <1>1, <1>2 DEF NameInv, RemovedAlone, Removing, run
<1>6. SameCopy(x)'
  BY <1>1, <1>2, <1>4 DEF NameInv, SameCopy
<1>7. DueIsStored(x)'
  <2> SUFFICES ASSUME NEW d \in Due(x)'
               PROVE  /\ d.bytes # None /\ server'[x] = d.bytes
                      /\ \A s \in Working(x)' : Carries(s, d.bytes)'
    BY DEF DueIsStored
  <2>1. CASE d = r
    BY <1>2, <1>3, <1>4, <2>1
  <2>2. CASE d # r
    <3>1. d \in Due(x)
      BY <1>1, <2>2 DEF Due
    <3>2. d.bytes # None /\ \A s \in Working(x) : Carries(s, d.bytes)
      BY <3>1 DEF NameInv, DueIsStored
    <3>3. q.bytes = d.bytes
      BY <1>2, <3>2 DEF Carries
    <3> QED BY <1>2, <1>4, <3>2, <3>3
  <2> QED BY <2>1, <2>2
<1>8. LandedIsStored(x)'
  <2> SUFFICES ASSUME landed[x] # None
               PROVE  /\ server'[x] = landed[x]
                      /\ \A s \in Working(x)' :
                            Carries(s, landed[x])' /\ (s.pc = "read" => local'[x] = None)
    BY <1>1 DEF LandedIsStored
  <2>1. \A s \in Working(x) : Carries(s, landed[x]) /\ (s.pc = "read" => local[x] = None)
    BY DEF NameInv, LandedIsStored
  <2>2. q.bytes = landed[x]
    BY <1>2, <2>1 DEF Carries
  <2> QED BY <1>1, <1>2, <1>4, <2>1, <2>2
<1> QED BY <1>5, <1>6, <1>7, <1>8 DEF NameInv

\* A put that has read the app's copy
LEMMA CopiedName ==
    ASSUME NEW q \in puts, NEW r, r.name = q.name, r.bytes = local[q.name], r.pc = "look",
           Becomes(q, r), server' = server, q.pc = "read", local[q.name] # None, NameInv(q.name)
    PROVE  NameInv(q.name)'
<1> DEFINE x == q.name
<1>1. /\ puts' = (puts \ {q}) \cup {r} /\ UNCHANGED <<rows, local, landed, run>>
  BY DEF Becomes, board, told
<1>2. q \in Working(x) /\ Working(x)' \subseteq Working(x) \cup {r} /\ Due(x)' \subseteq Due(x)
  BY <1>1 DEF Working, Due
<1>3. \A s, c : Carries(s, c)' <=> Carries(s, c)
  BY <1>1 DEF Carries
<1>4. \A c : Carries(q, c) => c = local[x] /\ Carries(r, c)
  BY DEF Carries
<1>5. ASSUME NEW s \in Working(x)' PROVE Carries(s, local[x]) /\ (s.pc # "read" => s.bytes = local[x])
  <2>1. CASE s = r
    BY <1>4, <2>1 DEF Carries
  <2>2. CASE s \in Working(x) /\ s.pc # "read"
    BY <2>2 DEF NameInv, SameCopy, Carries
  <2>3. CASE s \in Working(x) /\ s.pc = "read"
    BY <2>3 DEF Working, Carries
  <2> QED BY <1>2, <2>1, <2>2, <2>3
<1>6. RemovedAlone(x)'
  BY <1>1, <1>2 DEF NameInv, RemovedAlone, Removing, run
<1>7. SameCopy(x)'
  BY <1>1, <1>3, <1>5 DEF SameCopy
<1>8. DueIsStored(x)'
  <2> SUFFICES ASSUME NEW d \in Due(x)
               PROVE  /\ d.bytes # None /\ server'[x] = d.bytes
                      /\ \A s \in Working(x)' : Carries(s, d.bytes)'
    BY <1>2 DEF DueIsStored
  <2>1. d.bytes # None /\ server[x] = d.bytes /\ Carries(q, d.bytes)
    BY <1>2 DEF NameInv, DueIsStored
  <2>2. d.bytes = local[x]
    BY <1>4, <2>1
  <2> QED BY <1>3, <1>5, <2>1, <2>2
<1>9. LandedIsStored(x)'
  <2>1. landed'[x] = None
    BY <1>1, <1>2 DEF NameInv, LandedIsStored
  <2> QED BY <2>1 DEF LandedIsStored
<1> QED BY <1>6, <1>7, <1>8, <1>9 DEF NameInv

LEMMA WorkGrid ==
    ASSUME Inv, GridInv, NEW q \in puts, ReadCopy(q) \/ LookAt(q) \/ Store(q)
    PROVE  GridInv'
<1>1. PutOK(q) /\ DOMAIN server = Name /\ q.name \in Name
  BY DEF Inv, PutInv, BoardInv
<1>2. ASSUME NEW a
      PROVE  /\ Same(q, [q EXCEPT !.pc = "done", !.answer = a])
             /\ [q EXCEPT !.pc = "done", !.answer = a].bytes = q.bytes
             /\ [q EXCEPT !.pc = "done", !.answer = a].pc = "done"
             /\ [q EXCEPT !.pc = "done", !.answer = a].answer = a
  BY <1>1 DEF Same, PutOK
<1>3. ASSUME Answer(q, "fail") \/ Answer(q, "clash"), server' = server, q.pc # "done" PROVE GridInv'
  <2>1. PICK a \in {"fail", "clash"} : Becomes(q, [q EXCEPT !.pc = "done", !.answer = a])
    BY <1>3 DEF Answer
  <2>2. NameInv(q.name) => NameInv(q.name)'
    BY <1>2, <1>3, <2>1, IdleName DEF Same
  <2> QED BY <1>2, <1>3, <2>1, <2>2, ReplacedGrid
<1>4. ASSUME NEW a, Answer(q, a), q.pc \notin {"read", "done"}, server'[q.name] = q.bytes,
             server' = server \/ \E c : server' = [server EXCEPT ![q.name] = c]
      PROVE  GridInv'
  <2>1. Becomes(q, [q EXCEPT !.pc = "done", !.answer = a])
    BY <1>4 DEF Answer
  <2>2. NameInv(q.name) => NameInv(q.name)'
    BY <1>2, <1>4, <2>1, StoredName DEF Same
  <2> QED BY <1>2, <1>4, <2>1, <2>2, ReplacedGrid
<1>5. CASE ReadCopy(q)
  <2>1. CASE local[q.name] = None
    BY <1>3, <1>5, <2>1 DEF ReadCopy
  <2>2. CASE local[q.name] # None
    <3>1. /\ Becomes(q, [q EXCEPT !.pc = "look", !.bytes = local[q.name]])
          /\ server' = server /\ q.pc = "read"
      BY <1>5, <2>2 DEF ReadCopy
    <3>2. /\ Same(q, [q EXCEPT !.pc = "look", !.bytes = local[q.name]])
          /\ [q EXCEPT !.pc = "look", !.bytes = local[q.name]].bytes = local[q.name]
          /\ [q EXCEPT !.pc = "look", !.bytes = local[q.name]].pc = "look"
      BY <1>1 DEF Same, PutOK
    <3>3. NameInv(q.name) => NameInv(q.name)'
      BY <2>2, <3>1, <3>2, CopiedName DEF Same
    <3> QED BY <3>1, <3>2, <3>3, ReplacedGrid
  <2> QED BY <2>1, <2>2
<1>6. CASE LookAt(q)
  <2>1. q.pc = "look" /\ server' = server
    BY <1>6 DEF LookAt
  <2>2. CASE Becomes(q, [q EXCEPT !.pc = "store"])
    <3>1. /\ Same(q, [q EXCEPT !.pc = "store"]) /\ [q EXCEPT !.pc = "store"].bytes = q.bytes
          /\ [q EXCEPT !.pc = "store"].pc = "store"
      BY <1>1 DEF Same, PutOK
    <3>2. NameInv(q.name) => NameInv(q.name)'
      BY <2>1, <2>2, <3>1, IdleName DEF Same
    <3> QED BY <2>1, <2>2, <3>1, <3>2, ReplacedGrid
  <2>3. CASE Answer(q, "ok") /\ server[q.name] = q.bytes
    BY <1>4, <2>1, <2>3
  <2> QED BY <1>3, <1>6, <2>1, <2>2, <2>3 DEF LookAt
<1>7. CASE Store(q)
  <2>1. q.pc = "store"
    BY <1>7 DEF Store
  <2>2. CASE server' = [server EXCEPT ![q.name] = q.bytes] /\ \E a \in {"ok", "fail"} : Answer(q, a)
    <3>1. server'[q.name] = q.bytes
      BY <1>1, <2>2
    <3> QED BY <1>4, <2>1, <2>2, <3>1
  <2> QED BY <1>3, <1>7, <2>1, <2>2 DEF Store
<1> QED BY <1>5, <1>6, <1>7

LEMMA AnswerGrid ==
    ASSUME Inv, GridInv, NEW q \in puts,
           Silence(q) \/ Dropped(q) \/ PutClashes(q) \/ PutFails(q) \/ PutLands(q)
    PROVE  GridInv'
<1> DEFINE x == q.name
<1>1. /\ puts' \subseteq puts /\ server' = server /\ crossed' = crossed /\ x \in Name
      /\ rows \in [Name -> Row \cup {None}] /\ DOMAIN local = Name /\ DOMAIN landed = Name
  BY DEF Silence, Dropped, PutClashes, PutFails, PutLands, Answered, grid, told, Inv, BoardInv
<1>2. \A n : Removing(n)' => Removing(n)
  <2>1. UNCHANGED run \/ Reload
    BY DEF Silence, Dropped, PutClashes, PutFails, PutLands
  <2> QED BY <2>1, CalmFacts DEF CalmRun, Inv
<1>3. \A n \in Name : Working(n)' \subseteq Working(n) /\ Due(n)' \subseteq Due(n)
  BY <1>1 DEF Working, Due
<1>4. CASE Silence(q) \/ PutFails(q) \/ Dropped(q)
  <2>1. UNCHANGED <<local, landed>>
    BY <1>4 DEF Silence, PutFails, Dropped, board, told
  <2>2. UNCHANGED rows \/ (rows[x] # None /\ rows' = [rows EXCEPT ![x].failed = TRUE])
    BY <1>4 DEF Silence, PutFails, Dropped, Answered, Counts, board
  <2>3. rows[x] # None => [rows[x] EXCEPT !.failed = TRUE] \in Row
    BY <1>1 DEF Row
  <2>4. \A n \in Name : rows'[n] = None <=> rows[n] = None
    BY <1>1, <2>2, <2>3, NoneAssumption
  <2>5. RowsInv'
    BY <1>1, <2>1, <2>4 DEF GridInv, RowsInv, Inv, BoardInv
  <2>6. \A n \in Name : Shrinks(n)
    BY <1>1, <1>2, <1>3, <2>1, <2>4 DEF Shrinks, Like
  <2> QED BY <1>1, <2>5, <2>6, ShrinkAll
<1>5. ASSUME q.live, puts' = puts \ {q}
      PROVE  \A r \in puts' : r.live => r.name # x
  BY <1>5 DEF Inv, PutInv, OneLivePut
<1>6. CASE PutClashes(q)
  <2>1. /\ UNCHANGED <<local, landed>> /\ rows' = [rows EXCEPT ![x] = None]
        /\ q.live /\ puts' = puts \ {q}
    BY <1>6 DEF PutClashes, Answered, Counts
  <2>2. RowsInv'
    BY <1>1, <1>5, <2>1 DEF GridInv, RowsInv, Inv, BoardInv
  <2>3. \A n \in Name : Shrinks(n)
    BY <1>1, <1>2, <1>3, <2>1 DEF Shrinks, Like
  <2> QED BY <1>1, <2>2, <2>3, ShrinkAll
<1>7. CASE PutLands(q)
  <2>1. /\ rows' = [rows EXCEPT ![x] = None] /\ local' = [local EXCEPT ![x] = None]
        /\ landed' = [landed EXCEPT ![x] = q.bytes] /\ rows[x] # None
        /\ q.live /\ puts' = puts \ {q} /\ q \in Due(x)
    BY <1>7 DEF PutLands, Answered, Counts, Lands, Due
  <2>2. RowsInv'
    BY <1>1, <1>5, <2>1 DEF GridInv, RowsInv, Inv, BoardInv
  <2>3. Only(x)
    BY <1>1, <1>2, <2>1 DEF Only
  <2>4. ASSUME NameInv(x) PROVE NameInv(x)'
    <3>1. /\ q.bytes # None /\ server'[x] = q.bytes
          /\ \A r \in Working(x) : Carries(r, q.bytes)
      BY <1>1, <2>1, <2>4 DEF NameInv, DueIsStored
    <3>2. local'[x] = None /\ landed'[x] = q.bytes /\ Due(x)' = {}
      BY <1>1, <1>5, <2>1 DEF Due
    <3>3. \A r \in Working(x)' : \A c : Carries(r, c) => Carries(r, c)'
      BY <3>2 DEF Carries, Working
    <3>4. RemovedAlone(x)'
      BY <1>2, <2>1, <2>4 DEF NameInv, RemovedAlone
    <3>5. SameCopy(x)'
      BY <1>1, <1>3, <2>4, <3>2, <3>3 DEF NameInv, SameCopy
    <3>6. LandedIsStored(x)'
      BY <1>1, <1>3, <3>1, <3>2, <3>3 DEF LandedIsStored
    <3> QED BY <3>2, <3>4, <3>5, <3>6 DEF NameInv, DueIsStored
  <2> QED BY <1>1, <2>2, <2>3, <2>4, OthersStep DEF GridInv
<1> QED BY <1>4, <1>6, <1>7

LEMMA GridInvariance == Spec => []GridInv
<1>1. Init => GridInv
  BY DEF Init, GridInv, RowsInv, NameInv, RemovedAlone, Removing, SameCopy, DueIsStored,
         LandedIsStored, Working, Due, NoRow
<1>2. ASSUME Inv, GridInv, [Next]_vars PROVE GridInv'
  <2>1. CASE UNCHANGED vars
    BY <1>2, <2>1, StillGrid DEF StillSteps
  <2>2. CASE Next
    BY <1>2, <2>2, StillGrid, QuestionGrid, ArriveGrid, RemoveGrid, PickGrid, ClashGrid, RetryGrid,
       DiscardGrid, WorkGrid, AnswerGrid DEF Next, StillSteps
  <2> QED BY <1>2, <2>1, <2>2
<1> QED BY <1>1, <1>2, Invariance, PTL DEF Spec

\* However jobs are stopped, replaced and late, the progress bar is on exactly while the
\* newest of them runs (GridRun.kt).
THEOREM Progress == Spec => []BusyIsCurrent
<1>1. Inv => BusyIsCurrent
  BY DEF Inv, RunInv
<1> QED BY <1>1, Invariance, PTL

\* For any number of tries, one put of a row is listened to (AppModel.kt startUpload).
THEOREM OneAnswer == Spec => []OneLivePut
<1>1. Inv => OneLivePut
  BY DEF Inv, PutInv
<1> QED BY <1>1, Invariance, PTL

\* For any number of tries, retries, discards, silences and stops: what the user was shown as on
\* the friendnet is what the folder holds, unless operations on its name crossed on the grid
\* (AppModel.kt startUpload, confirmDiscard and confirmRemove).
THEOREM Landed == Spec => []LandedIsOnGrid
<1>1. GridInv => LandedIsOnGrid
  BY DEF GridInv, NameInv, LandedIsStored, LandedIsOnGrid
<1> QED BY <1>1, GridInvariance, PTL

(* ---- one rewrite of a directory --------------------------------------------------- *)

Pcs == {"idle", "look", "load", "inner", "locate", "push", "link", "check"}

\* The record of a phone, and what its step says of it
IsWriter(o) ==
    o \in [pc : Pcs, kind : {o.kind}, name : {o.name}, content : {o.content},
           replace : {o.replace}, own : Fresh \cup {Nothing}, dir : Fresh \cup {Root},
           entries : {o.entries}, why : {o.why}, located : {o.located}, num : {o.num},
           placed : {o.placed}, done : {o.done}, id : Nat]
WriterOK(o) ==
    /\ IsWriter(o)
    /\ o.pc # "idle" => o.id \in 1 .. ops
    /\ o.pc \in {"inner", "link"} => o.own \in Fresh
    /\ o.pc \in {"locate", "push"} => /\ o.why = "inner" => o.dir \in Fresh /\ o.own \in Fresh
                                      /\ o.why = "drop" => o.dir = Root /\ o.kind # "put"
    /\ o.pc = "push" => o.num \in Shares /\ o.placed \subseteq 0 .. o.num - 1

WritersOK ==
    /\ DOMAIN slots = Dir /\ \A d \in Dir : DOMAIN slots[d] = Shares
    /\ ops \in Nat
    /\ DOMAIN op = Phone /\ \A p \in Phone : WriterOK(op[p])
    /\ DOMAIN dmd = Phone /\ \A p \in Phone : dmd[p] \in Fresh \cup {Nothing}
    /\ \A p, q \in Phone : op[p].pc # "idle" /\ op[q].pc # "idle" /\ op[p].id = op[q].id => p = q

Pushing(d) == {p \in Phone : op[p].pc = "push" /\ op[p].dir = d}

\* Some rewrite of d locates its shares so, or located them so and won.
Based(d, located) == \/ \E p \in Pushing(d) : op[p].located = located
                     \/ \E w \in wins : w.dir = d /\ w.located = located

\* Operation x has written share i of d, as the grid or a rewrite has it.
Mentions(d, i, x) == \/ slots[d][i].op = x
                     \/ \E located : Based(d, located) /\ Base(located, i).op = x

\* Operation o may still write share i of d.
Ahead(o, d, i) ==
    \/ o.pc \in {"look", "load"}
    \/ o.pc = "inner" /\ (d = o.own \/ (o.kind = "put" /\ d = Root))
    \/ o.pc = "link" /\ d = Root
    \/ /\ o.pc \in {"locate", "push"}
       /\ \/ d = o.dir /\ (o.pc = "push" => i >= o.num)
          \/ o.why = "inner" /\ d = Root
          \/ o.why = "drop" /\ d = o.own /\ d \in Fresh

\* What an operation has not written nobody knows: none writes a share twice.
WritesOnce ==
    /\ \A d \in Dir, i \in Shares : \A x : Mentions(d, i, x) => x \in 0 .. ops
    /\ \A p \in Phone, d \in Dir, i \in Shares :
          op[p].pc # "idle" /\ Ahead(op[p], d, i) => ~Mentions(d, i, op[p].id)

\* What a rewrite placed is not as it was located, and never will be.
Moved(d, located, P) == \A i \in P : slots[d][i] # Base(located, i)
Rivals(o, w) == o.dir = w.dir /\ o.located = w.located /\ o.id # w.id

PlacedMoved == \A d \in Dir : \A p \in Pushing(d) : Moved(d, op[p].located, op[p].placed)
PlacedApart == \A d \in Dir : \A p, q \in Pushing(d) :
                  Rivals(op[p], op[q]) => op[p].placed \cap op[q].placed = {}

WinOK(w) ==
    /\ w = [dir |-> w.dir, id |-> w.id, located |-> w.located] /\ w.dir \in Dir
    /\ \E P \in SUBSET Shares :
          /\ Cardinality(P) >= K
          /\ Moved(w.dir, w.located, P)
          /\ \A p \in Pushing(w.dir) : Rivals(op[p], w) => op[p].placed \cap P = {}

SlotInv == WritersOK /\ WritesOnce /\ PlacedMoved /\ PlacedApart /\ (\A w \in wins : WinOK(w)) /\ OneWinner

LEMMA DirFacts == Fresh \subseteq Dir /\ Root \in Dir /\ Root \notin Fresh /\ 0 \in Shares
BY RootAssumption, SharesAssumption DEF Dir, Shares

LEMMA ShareCount == IsFiniteSet(Shares) /\ Cardinality(Shares) = N
<1>1. N \in Nat /\ 0 \in Int /\ N - 1 \in Int
  BY SharesAssumption
<1>2. IsFiniteSet(0 .. (N - 1)) /\ Cardinality(0 .. (N - 1)) = IF 0 > N - 1 THEN 0 ELSE (N - 1) - 0 + 1
  BY <1>1, FS_Interval
<1> QED BY <1>1, <1>2, SharesAssumption DEF Shares

\* A step of phone p that writes no share
Quietly(p, r) ==
    /\ op' = [op EXCEPT ![p] = r] /\ WriterOK(r)'
    /\ UNCHANGED <<slots, wins>>
    /\ DOMAIN dmd' = Phone /\ \A q \in Phone : dmd'[q] \in Fresh \cup {Nothing}
    /\ \/ r.pc = "idle" /\ ops' = ops
       \/ op[p].pc = "idle" /\ r.pc \notin {"idle", "push"} /\ r.id = ops + 1 /\ ops' = ops + 1
       \/ /\ op[p].pc # "idle" /\ r.id = op[p].id /\ ops' = ops
          /\ r.pc = "push" => /\ r.placed = {}
                              /\ \A i \in Shares : Base(r.located, i) \in {slots[r.dir][i], NoShare}
          /\ \A d \in Dir, i \in Shares : Ahead(r, d, i) => Ahead(op[p], d, i)

LEMMA QuietStep ==
    ASSUME SlotInv, NEW p \in Phone, NEW r, Quietly(p, r)
    PROVE  SlotInv'
<1>1. /\ op' = [op EXCEPT ![p] = r] /\ DOMAIN op = Phone /\ op'[p] = r
      /\ \A q \in Phone \ {p} : op'[q] = op[q]
      /\ ops \in Nat /\ ops' \in {ops, ops + 1}
  BY DEF Quietly, SlotInv, WritersOK
<1>2. \A q \in Phone : /\ WriterOK(op[q]) /\ WriterOK(op[q])'
                       /\ op[q].pc # "idle" => op[q].id \in 1 .. ops
  <2>1. ASSUME NEW q \in Phone \ {p} PROVE WriterOK(op[q])'
    BY <1>1 DEF SlotInv, WritersOK, WriterOK, IsWriter, Shares
  <2> QED BY <1>1, <2>1 DEF Quietly, SlotInv, WritersOK, WriterOK
<1>3. WritersOK'
  <2>1. \A q \in Phone \ {p} : r.pc # "idle" /\ op[q].pc # "idle" => r.id # op[q].id
    BY <1>1, <1>2 DEF Quietly, SlotInv, WritersOK
  <2> QED BY <1>1, <1>2, <2>1 DEF Quietly, SlotInv, WritersOK
<1>4. ASSUME NEW d \in Dir, NEW q \in Pushing(d)'
      PROVE  \/ q \in Pushing(d) /\ q # p /\ op'[q] = op[q]
             \/ /\ q = p /\ op'[q] = r /\ r.placed = {} /\ r.dir = d
                /\ \A i \in Shares : Base(r.located, i) \in {slots[d][i], NoShare}
  BY <1>1 DEF Pushing, Quietly
<1>5. ASSUME NEW d \in Dir, NEW i \in Shares, NEW x, Mentions(d, i, x)'
      PROVE  x = 0 \/ Mentions(d, i, x)
  <2>1. slots' = slots /\ wins' = wins
    BY DEF Quietly
  <2>2. CASE slots'[d][i].op = x
    BY <2>1, <2>2 DEF Mentions
  <2>3. ASSUME NEW located, Based(d, located)', Base(located, i).op = x
        PROVE  x = 0 \/ Mentions(d, i, x)
    <3>1. CASE \E w \in wins : w.dir = d /\ w.located = located
      BY <2>3, <3>1 DEF Mentions, Based
    <3>2. ASSUME NEW q \in Pushing(d)', op'[q].located = located PROVE x = 0 \/ Mentions(d, i, x)
      <4>1. CASE q \in Pushing(d) /\ op'[q] = op[q]
        BY <2>3, <3>2, <4>1 DEF Mentions, Based
      <4>2. CASE Base(located, i) \in {slots[d][i], NoShare}
        BY <2>3, <4>2 DEF Mentions, NoShare
      <4> QED BY <1>4, <3>2, <4>1, <4>2
    <3> QED BY <2>1, <2>3, <3>1, <3>2 DEF Based
  <2> QED BY <1>5, <2>2, <2>3 DEF Mentions, Base
<1>6. WritesOnce'
  <2>1. ASSUME NEW d \in Dir, NEW i \in Shares, NEW x, Mentions(d, i, x)' PROVE x \in 0 .. ops
    BY <1>1, <1>5, <2>1 DEF SlotInv, WritesOnce
  <2>2. ASSUME NEW q \in Phone, NEW d \in Dir, NEW i \in Shares, NEW x, x = op'[q].id,
               op'[q].pc # "idle", Ahead(op[q], d, i)', Mentions(d, i, x)'
        PROVE  FALSE
    <3>1. x # 0 /\ Mentions(d, i, x) /\ x \in 0 .. ops
      <4>1. x # 0
        BY <1>2, <2>2 DEF WriterOK
      <4> QED BY <1>5, <2>1, <2>2, <4>1
    <3>2. CASE q # p
      <4>1. op'[q] = op[q]
        BY <1>1, <3>2
      <4>2. Ahead(op[q], d, i)
        BY <2>2, <4>1 DEF Ahead
      <4> QED BY <2>2, <3>1, <4>1, <4>2 DEF SlotInv, WritesOnce
    <3>3. CASE q = p
      <4>1. Ahead(r, d, i)
        BY <1>1, <2>2, <3>3 DEF Ahead
      <4>2. op'[p] = r /\ op[p].pc # "idle" /\ r.id = op[p].id /\ Ahead(op[p], d, i)
        BY <1>1, <2>2, <3>1, <3>3, <4>1 DEF Quietly
      <4> QED BY <2>2, <3>1, <3>3, <4>2 DEF SlotInv, WritesOnce
    <3> QED BY <3>2, <3>3
  <2>3. ASSUME NEW q \in Phone, NEW d \in Dir, NEW i \in Shares,
               op'[q].pc # "idle", Ahead(op[q], d, i)', Mentions(d, i, op[q].id)'
        PROVE  FALSE
    <3>1. PICK x : x = op'[q].id
      OBVIOUS
    <3>2. Mentions(d, i, x)'
      BY <2>3, <3>1 DEF Mentions
    <3> QED BY <2>2, <2>3, <3>1, <3>2
  <2> QED BY <1>1, <2>1, <2>3 DEF WritesOnce
<1>7. PlacedMoved'
  BY <1>4 DEF PlacedMoved, Moved, SlotInv, Quietly
<1>8. PlacedApart'
  <2> SUFFICES ASSUME NEW d \in Dir, NEW a \in Pushing(d)', NEW b \in Pushing(d)',
                      Rivals(op'[a], op'[b])
               PROVE  op'[a].placed \cap op'[b].placed = {}
    BY DEF PlacedApart, Rivals
  <2> QED BY <1>4 DEF PlacedApart, SlotInv
<1>9. ASSUME NEW w \in wins PROVE WinOK(w)'
  <2>1. PICK P \in SUBSET Shares :
          /\ Cardinality(P) >= K /\ Moved(w.dir, w.located, P) /\ w.dir \in Dir
          /\ \A q \in Pushing(w.dir) : Rivals(op[q], w) => op[q].placed \cap P = {}
    BY DEF SlotInv, WinOK
  <2>2. \A q \in Pushing(w.dir)' : Rivals(op'[q], w) => op'[q].placed \cap P = {}
    BY <1>4, <2>1
  <2>3. Moved(w.dir, w.located, P)'
    BY <2>1 DEF Moved, Quietly
  <2> QED BY <2>1, <2>2, <2>3 DEF WinOK, SlotInv, Rivals
<1> QED BY <1>3, <1>6, <1>7, <1>8, <1>9 DEF SlotInv, OneWinner, Quietly


\* The steps of a phone's record, each as its action takes it
LEMMA EndQuiet ==
    ASSUME SlotInv, NEW p \in Phone, End(p), UNCHANGED <<slots, wins, ops>>,
           DOMAIN dmd' = Phone /\ \A q \in Phone : dmd'[q] \in Fresh \cup {Nothing}
    PROVE  \E r : Quietly(p, r)
<1>1. WriterOK(Idle)'
  BY DEF SlotInv, WritersOK, WriterOK, IsWriter, Idle, Pcs
<1>2. Quietly(p, Idle)
  BY <1>1 DEF Quietly, End, Set, Idle
<1> QED BY <1>2

LEMMA GoQuiet ==
    ASSUME SlotInv, NEW p \in Phone, NEW r, Set(p, r), UNCHANGED <<slots, dmd, ops, wins>>,
           op[p].pc # "idle", r.id = op[p].id, WriterOK(r),
           r.pc = "push" => /\ r.placed = {}
                            /\ \A i \in Shares : Base(r.located, i) \in {slots[r.dir][i], NoShare},
           \A d \in Dir, i \in Shares : Ahead(r, d, i) => Ahead(op[p], d, i)
    PROVE  \E s : Quietly(p, s)
<1>1. WriterOK(r)'
  BY DEF WriterOK, IsWriter, Shares
<1>2. Quietly(p, r)
  BY <1>1 DEF Quietly, Set, SlotInv, WritersOK
<1> QED BY <1>2

LEMMA CommitQuiet ==
    ASSUME SlotInv, NEW p \in Phone, NEW d, NEW es, NEW why, Commit(p, d, es, why),
           UNCHANGED <<slots, dmd, ops, wins>>, d \in Fresh \cup {Root},
           \/ op[p].pc = "load" /\ why = "file"
           \/ op[p].pc = "load" /\ why = "drop" /\ d = Root /\ op[p].kind # "put"
           \/ op[p].pc = "inner" /\ why = "inner" /\ d = op[p].own /\ op[p].kind = "put"
           \/ op[p].pc = "inner" /\ why = "dropinner" /\ d = op[p].own
           \/ op[p].pc = "link" /\ why = "link" /\ d = Root
    PROVE  \E r : Quietly(p, r)
<1>1. PICK r : r = [op[p] EXCEPT !.pc = "locate", !.dir = d, !.entries = es, !.why = why]
  OBVIOUS
<1>2. /\ WriterOK(op[p]) /\ op[p].pc # "idle"
      /\ op[p].pc = "inner" => op[p].own \in Fresh
  BY DEF SlotInv, WritersOK, WriterOK
<1>3. /\ r.pc = "locate" /\ r.dir = d /\ r.why = why /\ r.own = op[p].own /\ r.id = op[p].id
      /\ r.kind = op[p].kind
  BY <1>1, <1>2 DEF WriterOK, IsWriter
<1>4. WriterOK(r)
  <2>1. IsWriter(r)
    BY <1>1, <1>2 DEF WriterOK, IsWriter, Pcs
  <2> QED BY <1>2, <1>3, <2>1 DEF WriterOK
<1>5. \A e \in Dir, i \in Shares : Ahead(r, e, i) => Ahead(op[p], e, i)
  BY <1>3 DEF Ahead
<1> QED BY <1>1, <1>2, <1>3, <1>4, <1>5, GoQuiet DEF Commit

LEMMA ContinueQuiet ==
    ASSUME SlotInv, NEW p \in Phone, NEW pc, Continue(p, pc), UNCHANGED <<slots, dmd, ops, wins>>,
           \/ op[p].pc = "look" /\ pc = "load"
           \/ op[p].pc = "load" /\ pc = "inner" /\ op[p].own # Nothing
           \/ op[p].pc \in {"inner", "link"} /\ pc = "check"
    PROVE  \E r : Quietly(p, r)
<1>1. PICK r : r = [op[p] EXCEPT !.pc = pc]
  OBVIOUS
<1>2. WriterOK(op[p]) /\ op[p].pc # "idle" /\ op[p].own \in Fresh \cup {Nothing}
  BY DEF SlotInv, WritersOK, WriterOK, IsWriter
<1>3. r.pc = pc /\ r.own = op[p].own /\ r.id = op[p].id
  BY <1>1, <1>2 DEF WriterOK, IsWriter
<1>4. WriterOK(r)
  <2>1. IsWriter(r)
    BY <1>1, <1>2, <1>3 DEF WriterOK, IsWriter, Pcs
  <2> QED BY <1>2, <1>3, <2>1 DEF WriterOK
<1>5. \A e \in Dir, i \in Shares : Ahead(r, e, i) => Ahead(op[p], e, i)
  BY <1>3 DEF Ahead
<1> QED BY <1>1, <1>2, <1>3, <1>4, <1>5, GoQuiet DEF Continue

LEMMA LandQuiet ==
    ASSUME SlotInv, NEW p \in Phone, Land(p)
    PROVE  \E r : Quietly(p, r)
<1>1. op[p].own \in Fresh \cup {Nothing}
  BY DEF SlotInv, WritersOK, WriterOK, IsWriter
<1>2. DOMAIN dmd' = Phone /\ \A q \in Phone : dmd'[q] \in Fresh \cup {Nothing}
  BY <1>1 DEF Land, SlotInv, WritersOK
<1> QED BY <1>2, EndQuiet DEF Land

LEMMA FailQuiet ==
    ASSUME SlotInv, NEW p \in Phone, Fail(p)
    PROVE  \E r : Quietly(p, r)
BY EndQuiet DEF Fail, SlotInv, WritersOK

LEMMA BeginQuiet ==
    ASSUME SlotInv, NEW p \in Phone, NEW kind, NEW n, NEW c, NEW again, Begin(p, kind, n, c, again)
    PROVE  \E r : Quietly(p, r)
<1> PICK pc : pc = IF kind = "put" THEN "look" ELSE "load"
  OBVIOUS
<1>1. PICK r : r = [Idle EXCEPT !.pc = pc, !.kind = kind, !.name = n, !.content = c,
                       !.replace = again, !.own = dmd[p], !.id = ops + 1]
  OBVIOUS
<1>2. dmd[p] \in Fresh \cup {Nothing} /\ ops \in Nat /\ ops' = ops + 1 /\ op[p].pc = "idle"
  BY DEF SlotInv, WritersOK, Begin
<1>3. r.pc \in {"look", "load"} /\ r.id = ops + 1
  BY <1>1 DEF Idle
<1>4. WriterOK(r)'
  <2>1. IsWriter(Idle) /\ pc \in Pcs
    BY DEF IsWriter, Idle, Pcs
  <2>2. PICK idle : idle = Idle
    OBVIOUS
  <2>3. PICK own : own = dmd[p]
    OBVIOUS
  <2>4. PICK id : id = ops + 1
    OBVIOUS
  <2>5. own \in Fresh \cup {Nothing} /\ id \in Nat
    BY <1>2, <2>3, <2>4
  <2>6. PICK s : s = [idle EXCEPT !.pc = pc, !.kind = kind, !.name = n, !.content = c]
    OBVIOUS
  <2>7. IsWriter(s)
    BY <2>1, <2>2, <2>6 DEF IsWriter
  <2>8. r = [s EXCEPT !.replace = again, !.own = own, !.id = id]
    BY <1>1, <2>2, <2>3, <2>4, <2>6
  <2>9. IsWriter(r)
    BY <2>5, <2>7, <2>8 DEF IsWriter
  <2>10. IsWriter(r)'
    BY <2>9 DEF IsWriter
  <2> QED BY <1>2, <1>3, <2>10 DEF WriterOK
<1>5. op' = [op EXCEPT ![p] = r] /\ UNCHANGED <<slots, dmd, wins>>
  BY <1>1 DEF Begin, Set
<1>6. Quietly(p, r)
  BY <1>2, <1>3, <1>4, <1>5 DEF Quietly, SlotInv, WritersOK
<1> QED BY <1>6

LEMMA PublishQuiet ==
    ASSUME SlotInv, NEW p \in Phone, Publish(p), op[p].pc = "load", UNCHANGED <<slots, dmd, ops, wins>>
    PROVE  \E r : Quietly(p, r)
<1>1. PICK d \in Fresh :
         Set(p, [op[p] EXCEPT !.pc = "push", !.own = d, !.dir = d, !.why = "inner",
                              !.entries = {Snapshot(op[p].name, op[p].content)}, !.located = <<>>,
                              !.num = 0, !.placed = {}])
  BY DEF Publish
<1>2. PICK es : es = {Snapshot(op[p].name, op[p].content)}
  OBVIOUS
<1>3. PICK r : r = [op[p] EXCEPT !.pc = "push", !.own = d, !.dir = d, !.why = "inner",
                       !.entries = es, !.located = <<>>, !.num = 0, !.placed = {}]
  OBVIOUS
<1>4. WriterOK(op[p]) /\ op[p].pc # "idle"
  BY DEF SlotInv, WritersOK
<1>5. /\ r.pc = "push" /\ r.own = d /\ r.dir = d /\ r.why = "inner" /\ r.id = op[p].id
      /\ r.num = 0 /\ r.placed = {} /\ r.located = <<>>
  BY <1>3, <1>4 DEF WriterOK, IsWriter
<1>6. WriterOK(r)
  <2>1. IsWriter(r)
    BY <1>3, <1>4, DirFacts DEF WriterOK, IsWriter, Pcs
  <2> QED BY <1>4, <1>5, <2>1, DirFacts DEF WriterOK
<1>7. \A i \in Shares : Base(r.located, i) = NoShare
  BY <1>5 DEF Base, Shares
<1>8. \A e \in Dir, i \in Shares : Ahead(r, e, i) => Ahead(op[p], e, i)
  BY DEF Ahead
<1> QED BY <1>1, <1>2, <1>3, <1>4, <1>5, <1>6, <1>7, <1>8, GoQuiet

\* What a write of phone p, as record o, makes of it: r, with pl placed
Replied(p, o, pl, r) ==
    /\ op' = [op EXCEPT ![p] = r] /\ WriterOK(r)'
    /\ r.pc # "idle" => r.id = o.id
    /\ r.pc = "push" => r.dir = o.dir /\ r.located = o.located /\ r.placed = pl
    /\ \A e \in Dir, j \in Shares : Ahead(r, e, j) => Ahead(o, e, j) /\ ~(e = o.dir /\ j = o.num)
    /\ \/ wins' = wins
       \/ /\ wins' = wins \cup {[dir |-> o.dir, id |-> o.id, located |-> o.located]}
          /\ Cardinality(pl) >= K /\ r.pc # "push"

LEMMA ReplyStep ==
    ASSUME SlotInv, NEW p \in Phone, NEW o, o = op[p], o.pc = "push", NEW pl,
           pl \subseteq o.placed \cup {o.num}, Reply(p, pl), ops' = ops
    PROVE  \E r : Replied(p, o, pl, r)
<1>1. /\ WriterOK(o) /\ o.num \in Shares /\ o.placed \subseteq 0 .. o.num - 1 /\ N \in Nat
      /\ o.num \in Nat
  BY SharesAssumption DEF SlotInv, WritersOK, WriterOK, Shares
<1>2. PICK s : s = [o EXCEPT !.num = @ + 1, !.placed = pl]
  OBVIOUS
<1>3. /\ s.num = o.num + 1 /\ s.placed = pl /\ s.pc = "push" /\ s.dir = o.dir /\ s.located = o.located
      /\ s.id = o.id /\ s.why = o.why /\ s.own = o.own /\ s.kind = o.kind
  BY <1>1, <1>2 DEF WriterOK, IsWriter
<1>4. \A x : WriterOK(x) => WriterOK(x)'
  BY DEF WriterOK, IsWriter, Shares
<1>5. IsWriter(s) /\ IsWriter(o)
  BY <1>1, <1>2 DEF WriterOK, IsWriter
<1>6. CASE s.num < N /\ Set(p, s) /\ UNCHANGED wins
  <2>1. WriterOK(s)
    <3>2. s.num \in Shares /\ pl \subseteq 0 .. s.num - 1
      BY <1>1, <1>3, <1>6 DEF Shares
    <3> QED BY <1>1, <1>3, <1>5, <3>2 DEF WriterOK
  <2>2. \A e \in Dir, j \in Shares : Ahead(s, e, j) => Ahead(o, e, j) /\ ~(e = o.dir /\ j = o.num)
    BY <1>1, <1>3, DirFacts DEF Ahead, Shares, WriterOK
  <2>3. Replied(p, o, pl, s)
    BY <1>3, <1>4, <1>6, <2>1, <2>2 DEF Replied, Set
  <2> QED BY <2>3
<1>7. CASE End(p) /\ UNCHANGED wins
  <2>1. WriterOK(Idle)
    BY DEF SlotInv, WritersOK, WriterOK, IsWriter, Idle, Pcs
  <2>2. Replied(p, o, pl, Idle)
    BY <1>4, <1>7, <2>1 DEF Replied, End, Set, Idle, Ahead
  <2> QED BY <2>2
<1>8. CASE /\ Cardinality(pl) >= K
           /\ Set(p, [s EXCEPT !.pc = After(s), !.done = TRUE, !.entries = {}, !.located = <<>>,
                               !.num = 0, !.placed = {}])
           /\ wins' = wins \cup {[dir |-> s.dir, id |-> s.id, located |-> s.located]}
  <2>1. PICK pc : pc = After(s)
    OBVIOUS
  <2>2. PICK r : r = [s EXCEPT !.pc = pc, !.done = TRUE, !.entries = {}, !.located = <<>>,
                               !.num = 0, !.placed = {}]
    OBVIOUS
  <2>3. /\ pc \in {"link", "inner", "check"}
        /\ pc = "link" => o.why = "inner" /\ o.own \in Fresh /\ o.dir \in Fresh
        /\ pc = "inner" => o.why = "drop" /\ o.own \in Fresh /\ o.dir = Root /\ o.kind # "put"
    BY <1>1, <1>3, <2>1 DEF After, WriterOK, IsWriter
  <2>4. r.pc = pc /\ r.own = o.own /\ r.id = o.id /\ r.kind = o.kind
    BY <1>3, <1>5, <2>2 DEF IsWriter
  <2>5. WriterOK(r)
    <3>1. IsWriter(r)
      BY <1>5, <2>2, <2>3 DEF IsWriter, Pcs
    <3>2. o.id \in 1 .. ops
      BY <1>1 DEF WriterOK
    <3> QED BY <2>3, <2>4, <3>1, <3>2 DEF WriterOK
  <2>6. \A e \in Dir, j \in Shares : Ahead(r, e, j) => Ahead(o, e, j) /\ ~(e = o.dir /\ j = o.num)
    BY <1>1, <2>3, <2>4, DirFacts DEF Ahead, WriterOK
  <2>7. op' = [op EXCEPT ![p] = r]
    BY <1>8, <2>1, <2>2 DEF Set
  <2>8. Replied(p, o, pl, r)
    BY <1>3, <1>4, <1>8, <2>3, <2>4, <2>5, <2>6, <2>7 DEF Replied
  <2> QED BY <2>8
<1>9. IF s.num < N THEN Set(p, s) /\ UNCHANGED wins ELSE Finish(p, s)
  <2>1. s = [op[p] EXCEPT !.num = @ + 1, !.placed = pl]
    BY <1>2
  <2> QED BY <2>1 DEF Reply
<1>10. K \in Nat /\ Cardinality(pl) \in Nat
  <2>1. pl \in SUBSET Shares
    BY <1>1 DEF Shares
  <2>2. IsFiniteSet(pl)
    BY <2>1, ShareCount, FS_Subset
  <2> QED BY <2>2, SharesAssumption, FS_CardinalityType
<1> QED BY <1>3, <1>6, <1>7, <1>8, <1>9, <1>10 DEF Finish

\* One read-test-write, applied or not
LEMMA PushStep ==
    ASSUME SlotInv, NEW p \in Phone, Push(p)
    PROVE  SlotInv'
<1>1. PICK o : o = op[p]
  OBVIOUS
<1>2. PICK i : i = o.num
  OBVIOUS
<1>3. PICK d : d = o.dir
  OBVIOUS
<1>4. PICK base : base = o.located
  OBVIOUS
<1>5. PICK v : v = Written(o)
  OBVIOUS
<1>6. /\ WriterOK(o) /\ o.pc = "push" /\ i \in Shares /\ d \in Dir /\ o.id \in 1 .. ops
      /\ o.placed \subseteq Shares /\ p \in Pushing(d) /\ v.op = o.id
      /\ UNCHANGED <<dmd, ops>>
  <2>1. WriterOK(o) /\ o.pc = "push" /\ UNCHANGED <<dmd, ops>>
    BY <1>1 DEF Push, SlotInv, WritersOK
  <2>2. v.op = o.id
    BY <1>5 DEF Written
  <2> QED BY <1>1, <1>2, <1>3, <2>1, <2>2, SharesAssumption, DirFacts
          DEF WriterOK, IsWriter, Shares, Pushing
<1>7. PICK pl : /\ Reply(p, pl)
                /\ \/ pl = o.placed /\ slots' = slots
                   \/ /\ pl \in {o.placed, o.placed \cup {i}} /\ slots[d][i] = Base(base, i)
                      /\ slots' = [slots EXCEPT ![d][i] = v]
  BY <1>1, <1>2, <1>3, <1>4, <1>5 DEF Push, Applies
<1>8. PICK r : Replied(p, o, pl, r)
  BY <1>1, <1>2, <1>6, <1>7, ReplyStep
<1>9. /\ DOMAIN slots' = Dir /\ \A e \in Dir : DOMAIN slots'[e] = Shares
      /\ \A e \in Dir, j \in Shares : slots'[e][j] # slots[e][j] =>
            e = d /\ j = i /\ slots'[e][j] = v
  BY <1>6, <1>7 DEF SlotInv, WritersOK
<1>10. /\ op'[p] = r /\ DOMAIN op = Phone /\ DOMAIN op' = Phone
       /\ \A q \in Phone \ {p} : op'[q] = op[q]
  BY <1>8 DEF Replied, SlotInv, WritersOK
<1>11. WritersOK'
  <2>1. \A q \in Phone \ {p} : WriterOK(op[q])'
    BY <1>6, <1>10 DEF SlotInv, WritersOK, WriterOK, IsWriter, Shares
  <2>2. \A q \in Phone : WriterOK(op[q])'
    <3>1. WriterOK(op[p])'
      BY <1>8, <1>10 DEF Replied, WriterOK, IsWriter, Shares
    <3> QED BY <2>1, <3>1
  <2>3. \A q \in Phone \ {p} : r.pc # "idle" /\ op[q].pc # "idle" => r.id # op[q].id
    BY <1>1, <1>6, <1>8 DEF Replied, SlotInv, WritersOK
  <2> QED BY <1>6, <1>9, <1>10, <2>2, <2>3 DEF SlotInv, WritersOK
<1>12. ASSUME NEW e \in Dir, NEW located, Based(e, located)'
       PROVE  Based(e, located)
  <2>1. Based(d, base)
    BY <1>1, <1>4, <1>6 DEF Based
  <2>2. ASSUME NEW q \in Pushing(e)', op'[q].located = located PROVE Based(e, located)
    <3>1. CASE q # p
      BY <1>10, <2>2, <3>1 DEF Based, Pushing
    <3>2. CASE q = p
      BY <1>3, <1>4, <1>8, <1>10, <2>1, <2>2, <3>2 DEF Pushing, Replied
    <3> QED BY <3>1, <3>2
  <2>3. ASSUME NEW w \in wins', w.dir = e, w.located = located PROVE Based(e, located)
    BY <1>3, <1>4, <1>8, <2>1, <2>3 DEF Based, Replied
  <2> QED BY <1>12, <2>2, <2>3 DEF Based
<1>13. ASSUME NEW e \in Dir, NEW j \in Shares, NEW x, Mentions(e, j, x)'
       PROVE  Mentions(e, j, x) \/ (x = o.id /\ e = d /\ j = i)
  <2>1. CASE slots'[e][j].op = x
    BY <1>6, <1>9, <2>1 DEF Mentions
  <2>2. ASSUME NEW located, Based(e, located)', Base(located, j).op = x PROVE Mentions(e, j, x)
    BY <1>12, <2>2 DEF Mentions
  <2> QED BY <1>13, <2>1, <2>2 DEF Mentions, Base
<1>14. ~Mentions(d, i, o.id)
  <2>1. Ahead(o, d, i)
    BY <1>2, <1>3, <1>6 DEF Ahead, Shares
  <2> QED BY <1>1, <1>6, <2>1 DEF SlotInv, WritesOnce
<1>15. WritesOnce'
  <2>1. ASSUME NEW e \in Dir, NEW j \in Shares, NEW x, Mentions(e, j, x)' PROVE x \in 0 .. ops'
    BY <1>6, <1>13, <2>1 DEF SlotInv, WritesOnce
  <2>2. ASSUME NEW q \in Phone, NEW e \in Dir, NEW j \in Shares, NEW x, x = op'[q].id,
               op'[q].pc # "idle", Ahead(op[q], e, j)', Mentions(e, j, x)'
        PROVE  FALSE
    <3>1. CASE q # p
      <4>1. op'[q] = op[q] /\ Ahead(op[q], e, j)
        BY <1>10, <2>2, <3>1 DEF Ahead
      <4>2. x # o.id
        BY <1>1, <1>6, <2>2, <3>1, <4>1 DEF SlotInv, WritersOK
      <4> QED BY <1>13, <2>2, <4>1, <4>2 DEF SlotInv, WritesOnce
    <3>2. CASE q = p
      <4>1. Ahead(r, e, j)
        BY <1>10, <2>2, <3>2 DEF Ahead
      <4>2. x = o.id /\ Ahead(o, e, j) /\ ~(e = d /\ j = i)
        BY <1>2, <1>3, <1>8, <1>10, <2>2, <3>2, <4>1 DEF Replied
      <4> QED BY <1>1, <1>6, <1>13, <2>2, <4>2 DEF SlotInv, WritesOnce
    <3> QED BY <3>1, <3>2
  <2>3. ASSUME NEW q \in Phone, NEW e \in Dir, NEW j \in Shares,
               op'[q].pc # "idle", Ahead(op[q], e, j)', Mentions(e, j, op[q].id)'
        PROVE  FALSE
    <3>1. PICK x : x = op'[q].id
      OBVIOUS
    <3>2. Mentions(e, j, x)'
      BY <2>3, <3>1 DEF Mentions
    <3> QED BY <2>2, <2>3, <3>1, <3>2
  <2> QED BY <1>10, <2>1, <2>3 DEF WritesOnce
<1>16. ASSUME NEW e \in Dir, NEW located, Based(e, located), NEW P \in SUBSET Shares,
              Moved(e, located, P)
       PROVE  Moved(e, located, P)'
  <2>1. e = d => Base(located, i).op # o.id
    BY <1>14, <1>16 DEF Mentions
  <2>2. \A j \in P : slots'[e][j] # Base(located, j)
    BY <1>6, <1>9, <1>16, <2>1 DEF Moved
  <2> QED BY <2>2 DEF Moved, Base
<1>17. pl \subseteq Shares /\ Moved(d, base, pl)'
  <2>1. Based(d, base) /\ Moved(d, base, o.placed)
    BY <1>1, <1>4, <1>6 DEF Based, SlotInv, PlacedMoved
  <2>2. Moved(d, base, o.placed)'
    BY <1>6, <1>16, <2>1
  <2>3. Base(base, i).op # o.id
    BY <1>14, <2>1 DEF Mentions
  <2>4. CASE slots' = [slots EXCEPT ![d][i] = v]
    <3>1. slots'[d][i] # Base(base, i)
      BY <1>6, <2>3, <2>4 DEF SlotInv, WritersOK
    <3> QED BY <1>6, <1>7, <2>2, <3>1 DEF Moved, Base
  <2> QED BY <1>6, <1>7, <2>2, <2>4
\* A rival that found a share as o located it has placed no copy there.
<1>18. ASSUME NEW P \in SUBSET Shares, Moved(d, base, P), o.placed \cap P = {}
       PROVE  pl \cap P = {}
  BY <1>7, <1>18 DEF Moved
<1>19. ASSUME NEW q \in Pushing(d), q # p, Rivals(op[q], o)
       PROVE  op[q].placed \cap pl = {}
  <2>1. op[q].placed \subseteq Shares
    BY <1>19, SharesAssumption DEF SlotInv, WritersOK, WriterOK, Shares, Pushing
  <2>2. Moved(d, base, op[q].placed) /\ o.placed \cap op[q].placed = {}
    BY <1>1, <1>4, <1>6, <1>19 DEF SlotInv, PlacedMoved, PlacedApart, Rivals
  <2> QED BY <1>18, <2>1, <2>2
<1>20. ASSUME NEW e \in Dir, NEW q \in Pushing(e)'
       PROVE  \/ q # p /\ q \in Pushing(e) /\ op'[q] = op[q]
              \/ /\ q = p /\ e = d /\ op'[q] = r /\ r.located = base /\ r.placed = pl
                 /\ r.id = o.id /\ r.dir = d /\ wins' = wins /\ r.pc = "push"
  BY <1>3, <1>4, <1>8, <1>10 DEF Pushing, Replied
<1>21. PlacedMoved'
  <2> SUFFICES ASSUME NEW e \in Dir, NEW q \in Pushing(e)', NEW located, NEW P,
                      located = op'[q].located, P = op'[q].placed
               PROVE  Moved(e, located, P)'
    BY DEF PlacedMoved, Moved, Base
  <2>1. CASE q = p
    BY <1>17, <1>20, <2>1
  <2>2. CASE q # p
    <3>1. q \in Pushing(e) /\ located = op[q].located /\ P = op[q].placed
      BY <1>20, <2>2
    <3>2. P \subseteq Shares
      BY <3>1, SharesAssumption DEF SlotInv, WritersOK, WriterOK, Shares, Pushing
    <3>3. Based(e, located) /\ Moved(e, located, P)
      BY <3>1 DEF Based, SlotInv, PlacedMoved
    <3> QED BY <1>16, <3>2, <3>3
  <2> QED BY <2>1, <2>2
<1>22. PlacedApart'
  <2> SUFFICES ASSUME NEW e \in Dir, NEW a \in Pushing(e)', NEW b \in Pushing(e)',
                      Rivals(op'[a], op'[b])
               PROVE  op'[a].placed \cap op'[b].placed = {}
    BY DEF PlacedApart, Rivals
  <2>1. CASE a # p /\ b # p
    BY <1>20, <2>1 DEF PlacedApart, SlotInv
  <2>2. CASE a = p /\ b # p
    BY <1>3, <1>4, <1>19, <1>20, <2>2 DEF Rivals
  <2>3. CASE a # p /\ b = p
    BY <1>3, <1>4, <1>19, <1>20, <2>3 DEF Rivals
  <2> QED BY <2>1, <2>2, <2>3 DEF Rivals
\* What a win placed, no rival places, this write included.
<1>23. ASSUME NEW w \in wins
       PROVE  /\ w = [dir |-> w.dir, id |-> w.id, located |-> w.located] /\ w.dir \in Dir
              /\ \E P \in SUBSET Shares :
                    /\ Cardinality(P) >= K
                    /\ Moved(w.dir, w.located, P)'
                    /\ \A q \in Pushing(w.dir)' : Rivals(op'[q], w) => op'[q].placed \cap P = {}
                    /\ Rivals(o, w) => pl \cap P = {}
  <2>1. PICK P \in SUBSET Shares :
          /\ Cardinality(P) >= K /\ Moved(w.dir, w.located, P)
          /\ \A q \in Pushing(w.dir) : Rivals(op[q], w) => op[q].placed \cap P = {}
    BY DEF SlotInv, WinOK
  <2>2. w = [dir |-> w.dir, id |-> w.id, located |-> w.located] /\ w.dir \in Dir
    BY DEF SlotInv, WinOK
  <2>3. Based(w.dir, w.located)
    BY DEF Based
  <2>4. Moved(w.dir, w.located, P)'
    BY <1>16, <2>1, <2>2, <2>3
  <2>5. Rivals(o, w) => pl \cap P = {}
    BY <1>1, <1>3, <1>4, <1>6, <1>18, <2>1 DEF Rivals
  <2>6. \A q \in Pushing(w.dir)' : Rivals(op'[q], w) => op'[q].placed \cap P = {}
    BY <1>3, <1>4, <1>20, <2>1, <2>2, <2>5 DEF Rivals
  <2> QED BY <2>1, <2>2, <2>4, <2>5, <2>6
<1>24. ASSUME NEW w \in wins PROVE WinOK(w)'
  BY <1>23 DEF WinOK, Rivals
<1>25. CASE wins' = wins
  BY <1>11, <1>15, <1>21, <1>22, <1>24, <1>25 DEF SlotInv, OneWinner
<1>26. ASSUME NEW n, n = [dir |-> d, id |-> o.id, located |-> base], wins' = wins \cup {n},
              Cardinality(pl) >= K, r.pc # "push"
       PROVE  SlotInv'
  <2>1. n.dir = d /\ n.id = o.id /\ n.located = base
    BY <1>26
  <2>2. \A q \in Pushing(d)' : Rivals(op'[q], n) => op'[q].placed \cap pl = {}
    <3>1. ASSUME NEW q \in Pushing(d)', Rivals(op'[q], n) PROVE op'[q].placed \cap pl = {}
      <4>1. q # p /\ q \in Pushing(d) /\ op'[q] = op[q]
        BY <1>6, <1>20, <1>26, <3>1
      <4>2. Rivals(op[q], o)
        BY <1>3, <1>4, <2>1, <3>1, <4>1 DEF Rivals
      <4> QED BY <1>19, <4>1, <4>2
    <3> QED BY <3>1
  <2>3. WinOK(n)'
    <3>1. Moved(n.dir, n.located, pl)'
      BY <1>17, <2>1
    <3> QED BY <1>6, <1>17, <1>26, <2>1, <2>2, <3>1 DEF WinOK, Rivals
  <2>4. ASSUME NEW w \in wins, w.dir = d, w.located = base PROVE w = n
    <3>1. PICK P \in SUBSET Shares : Cardinality(P) >= K /\ (Rivals(o, w) => pl \cap P = {})
      BY <1>23, <2>4
    <3>2. CASE w.id = o.id
      BY <1>23, <1>26, <2>4, <3>2
    <3>3. CASE w.id # o.id
      <4>1. pl \cap P = {}
        BY <1>3, <1>4, <2>4, <3>1, <3>3 DEF Rivals
      <4>2. IsFiniteSet(Shares) /\ Cardinality(Shares) = N
        BY ShareCount
      <4>3. /\ IsFiniteSet(pl) /\ IsFiniteSet(P) /\ Cardinality(pl) \in Nat /\ Cardinality(P) \in Nat
            /\ Cardinality(pl \cup P) = Cardinality(pl) + Cardinality(P) - Cardinality(pl \cap P)
        BY <1>17, <4>2, FS_Subset, FS_Union, FS_CardinalityType
      <4>4. Cardinality(pl \cap P) = 0 /\ Cardinality(pl \cup P) <= N
        BY <1>17, <4>1, <4>2, FS_Subset, FS_EmptySet
      <4> QED BY <1>26, <3>1, <4>3, <4>4, SharesAssumption
    <3> QED BY <3>2, <3>3
  <2>5. OneWinner'
    BY <1>26, <2>1, <2>4 DEF SlotInv, OneWinner
  <2> QED BY <1>11, <1>15, <1>21, <1>22, <1>24, <1>26, <2>3, <2>5 DEF SlotInv
<1> QED BY <1>3, <1>4, <1>8, <1>25, <1>26 DEF Replied

LEMMA StepKeepsSlots ==
    ASSUME SlotInv, [NextWrite]_dirVars
    PROVE  SlotInv'
<1>1. CASE UNCHANGED dirVars
  BY <1>1 DEF dirVars, SlotInv, WritersOK, WriterOK, IsWriter, WritesOnce, Mentions, Based, Pushing,
      Ahead, PlacedMoved, PlacedApart, Rivals, Moved, Base, WinOK, OneWinner, Shares, Dir
<1>2. ASSUME NEW p \in Phone, Push(p) PROVE SlotInv'
  BY <1>2, PushStep
<1> USE DirFacts
<1>3. ASSUME NEW p \in Phone, NEW kind, NEW n, NEW c, NEW again, Begin(p, kind, n, c, again)
      PROVE  \E r : Quietly(p, r)
  BY <1>3, BeginQuiet
<1>4. ASSUME NEW p \in Phone, Look(p) PROVE \E r : Quietly(p, r)
  <2>1. CASE Fail(p) \/ Land(p)
    BY <2>1, FailQuiet, LandQuiet
  <2>2. CASE Continue(p, "load") /\ UNCHANGED <<slots, dmd, ops, wins>>
    BY <1>4, <2>2, ContinueQuiet DEF Look
  <2> QED BY <1>4, <2>1, <2>2 DEF Look, Continue
<1>5. ASSUME NEW p \in Phone, UploadFails(p) PROVE \E r : Quietly(p, r)
  BY <1>5, FailQuiet DEF UploadFails
<1>6. ASSUME NEW p \in Phone, op[p].pc \in {"load", "inner", "link", "locate"}, End(p),
             UNCHANGED <<slots, dmd, ops, wins>>
      PROVE  \E r : Quietly(p, r)
  BY <1>6, EndQuiet DEF SlotInv, WritersOK
<1>7. ASSUME NEW p \in Phone, Load(p) PROVE \E r : Quietly(p, r)
  <2>1. op[p].pc = "load" /\ UNCHANGED <<slots, dmd, ops, wins>> /\ WriterOK(op[p])
    BY <1>7 DEF Load, SlotInv, WritersOK
  <2>2. PICK es : \/ End(p)
                  \/ op[p].kind = "put" /\ Place(p, es)
                  \/ op[p].kind # "put" /\ RemoveAt(p, es)
    BY <1>7 DEF Load
  <2>3. CASE End(p)
    BY <1>6, <2>1, <2>3
  <2>4. CASE op[p].kind = "put" /\ Place(p, es)
    <3>1. CASE \E xs : Commit(p, Root, xs, "file")
      BY <2>1, <3>1, CommitQuiet
    <3>2. CASE Publish(p)
      BY <2>1, <3>2, PublishQuiet
    <3>3. ASSUME NEW d \in Fresh, Set(p, [op[p] EXCEPT !.pc = "inner", !.own = d])
          PROVE  \E r : Quietly(p, r)
      <4>1. PICK r : r = [op[p] EXCEPT !.pc = "inner", !.own = d]
        OBVIOUS
      <4>2. r.pc = "inner" /\ r.own = d /\ r.id = op[p].id
        BY <2>1, <4>1 DEF WriterOK, IsWriter
      <4>3. WriterOK(r)
        <5>1. IsWriter(r)
          BY <2>1, <4>1 DEF WriterOK, IsWriter, Pcs
        <5> QED BY <2>1, <4>2, <5>1 DEF WriterOK
      <4>4. \A e \in Dir, i \in Shares : Ahead(r, e, i) => Ahead(op[p], e, i)
        BY <2>1 DEF Ahead
      <4> QED BY <2>1, <3>3, <4>1, <4>2, <4>3, <4>4, GoQuiet
    <3>4. op[p].own \in Fresh \cup {Nothing} /\ Writable(es) \subseteq Fresh
      BY <2>1 DEF WriterOK, IsWriter, Writable
    <3> QED BY <2>4, <3>1, <3>2, <3>3, <3>4 DEF Place
  <2>5. CASE op[p].kind # "put" /\ RemoveAt(p, es)
    BY <1>6, <2>1, <2>5, CommitQuiet, ContinueQuiet DEF RemoveAt
  <2> QED BY <2>2, <2>3, <2>4, <2>5
<1>8. ASSUME NEW p \in Phone, Inner(p) PROVE \E r : Quietly(p, r)
  <2>1. op[p].pc = "inner" /\ UNCHANGED <<slots, dmd, ops, wins>> /\ op[p].own \in Fresh
    BY <1>8 DEF Inner, SlotInv, WritersOK, WriterOK
  <2>2. PICK es : \/ End(p)
                  \/ op[p].kind = "put" /\ PutInContainer(p, es)
                  \/ RemoveInside(p, es)
    BY <1>8 DEF Inner
  <2> QED BY <1>6, <2>1, <2>2, CommitQuiet, ContinueQuiet DEF PutInContainer, RemoveInside
<1>9. ASSUME NEW p \in Phone, LinkIn(p) PROVE \E r : Quietly(p, r)
  <2>1. op[p].pc = "link" /\ UNCHANGED <<slots, dmd, ops, wins>>
    BY <1>9 DEF LinkIn
  <2>2. End(p) \/ Continue(p, "check") \/ \E es : Commit(p, Root, es, "link")
    BY <1>9 DEF LinkIn
  <2> QED BY <1>6, <2>1, <2>2, CommitQuiet, ContinueQuiet
<1>10. ASSUME NEW p \in Phone, Locate(p) PROVE \E r : Quietly(p, r)
  <2>1. op[p].pc = "locate" /\ UNCHANGED <<slots, dmd, ops, wins>> /\ WriterOK(op[p])
    BY <1>10 DEF Locate, SlotInv, WritersOK
  <2>2. CASE End(p)
    BY <1>6, <2>1, <2>2
  <2>3. ASSUME NEW found, NEW located, located = [i \in found |-> slots[op[p].dir][i]],
               Set(p, [op[p] EXCEPT !.pc = "push", !.located = located, !.num = 0, !.placed = {}])
        PROVE  \E r : Quietly(p, r)
    <3>1. PICK r : r = [op[p] EXCEPT !.pc = "push", !.located = located, !.num = 0, !.placed = {}]
      OBVIOUS
    <3>2. /\ r.pc = "push" /\ r.located = located /\ r.num = 0 /\ r.placed = {} /\ r.dir = op[p].dir
          /\ r.why = op[p].why /\ r.own = op[p].own /\ r.kind = op[p].kind /\ r.id = op[p].id
      BY <2>1, <3>1 DEF WriterOK, IsWriter
    <3>3. WriterOK(r)
      <4>1. IsWriter(r)
        BY <2>1, <3>1 DEF WriterOK, IsWriter, Pcs
      <4> QED BY <2>1, <3>2, <4>1 DEF WriterOK
    <3>4. \A i \in Shares : Base(r.located, i) \in {slots[r.dir][i], NoShare}
      BY <2>3, <3>2 DEF Base
    <3>5. \A e \in Dir, i \in Shares : Ahead(r, e, i) => Ahead(op[p], e, i)
      BY <2>1, <3>2 DEF Ahead
    <3> QED BY <2>1, <2>3, <3>1, <3>2, <3>3, <3>4, <3>5, GoQuiet
  <2> QED BY <1>10, <2>2, <2>3 DEF Locate
<1>11. ASSUME NEW p \in Phone, Check(p) PROVE \E r : Quietly(p, r)
  BY <1>11, FailQuiet, LandQuiet, EndQuiet DEF Check, SlotInv, WritersOK
<1>12. ASSUME NEW p \in Phone, Die(p) PROVE \E r : Quietly(p, r)
  BY <1>12, EndQuiet DEF Die, SlotInv, WritersOK
<1> QED BY <1>1, <1>2, <1>3, <1>4, <1>5, <1>7, <1>8, <1>9, <1>10, <1>11, <1>12, QuietStep
        DEF NextWrite

LEMMA InitSlots == InitFolder => SlotInv
<1> SUFFICES ASSUME InitFolder PROVE SlotInv
  OBVIOUS
<1>1. PICK es : slots = Folder(es)
  BY DEF InitFolder
<1>2. \A d \in Dir : DOMAIN slots[d] = Shares /\ \A i \in Shares : slots[d][i].op = 0
  BY <1>1 DEF Folder, NoShare
<1>3. WritersOK
  <2>1. WriterOK(Idle)
    BY DEF WriterOK, IsWriter, Idle, Pcs
  <2> QED BY <1>1, <1>2, <2>1 DEF InitFolder, WritersOK, Folder, Idle
<1>4. \A p \in Phone : op[p].pc = "idle"
  BY DEF InitFolder, Idle
<1>5. \A d \in Dir : Pushing(d) = {}
  BY <1>4 DEF Pushing
<1>6. WritesOnce
  <2>1. ops = 0 /\ wins = {}
    BY DEF InitFolder
  <2>2. \A d \in Dir, i \in Shares : \A x : Mentions(d, i, x) => x = 0
    BY <1>2, <1>5, <2>1 DEF Mentions, Based
  <2> QED BY <1>4, <2>1, <2>2 DEF WritesOnce
<1> QED BY <1>3, <1>5, <1>6 DEF InitFolder, SlotInv, PlacedMoved, PlacedApart, OneWinner

\* Of the rewrites of a directory that located the same shares at most one is told
\* it succeeded, whatever the number of phones, servers and shares, as long as a
\* version needs more than half of the shares (lg_write.py _push_one_mutable).
THEOREM OneRewriteWins == DirectorySpec => []OneWinner
<1>1. SlotInv => OneWinner
  BY DEF SlotInv
<1>2. SlotInv /\ [NextWrite]_dirVars => SlotInv'
  BY StepKeepsSlots
<1> QED BY <1>1, <1>2, InitSlots, PTL DEF DirectorySpec

(* ---- the folder outlives one fault ------------------------------------------------ *)

\* A push of a directory that was not there before
Publishing(o) == o.pc = "push" /\ DOMAIN o.located = {}

\* The folder, a phone or an operation leads to directory d.
Reached(d) ==
    \/ d = Root
    \/ \E i \in Shares : IsLinked(slots[Root][i].entries, d)
    \/ d # Nothing /\ \E p \in Phone : \/ dmd[p] = d
                                       \/ op[p].pc # "idle" /\ op[p].own = d /\ ~Publishing(op[p])
    \/ \E p \in Phone : op[p].pc \in {"locate", "push"} /\ op[p].dir = Root /\ IsLinked(op[p].entries, d)

\* All shares of d are of one version, while nothing has gone wrong; K of them since.
Uniform(d) == slots[d][0] # NoShare /\ \A i \in Shares : slots[d][i] = slots[d][0]
Sound(d) == IF Faults = 0 THEN Uniform(d) ELSE Whole(d) # {}

\* Share i is new if it was answered, and still as it was located if it was not.
AsMeant(o, i) == IF i < o.num THEN slots[o.dir][i] = Written(o) /\ i \in o.placed
                 ELSE slots[o.dir][i] = Base(o.located, i)

\* What a rewrite under way has made of its directory: one fault disturbs one share.
Underway(o) ==
    /\ \A i \in o.placed : slots[o.dir][i] = Written(o)
    /\ \E x \in Shares : \A i \in Shares \ {x} : AsMeant(o, i)
    /\ Faults = 0 => \A i \in Shares : AsMeant(o, i) /\ Base(o.located, i) = Base(o.located, 0)
    /\ IF Publishing(o) THEN o.own = o.dir /\ ~Reached(o.dir)
       ELSE /\ Faults = 0 => Base(o.located, 0) # NoShare
            /\ \E i \in Shares : slots[o.dir][i] # NoShare

FaultsOK == misses \in Nat /\ lost \in Nat /\ deaths \in Nat

Alone == \A p, q \in Phone : op[p].pc # "idle" /\ op[q].pc # "idle" => p = q

\* What the folder needs of where its operations are
Recoverable ==
    /\ \A d : Reached(d) => d \in Dir /\ (Sound(d) \/ Pushing(d) # {})
    /\ \A p \in Phone : op[p].pc = "push" => Underway(op[p])

RecInv ==
    /\ FaultsOK
    /\ \A p \in Phone : op[p].pc = "locate" => op[p].dir \in {Root, op[p].own}
    /\ ~overlapped => Alone
    /\ ~overlapped /\ Faults <= 1 => Recoverable

----------------------------------------------------------------------------

LEMMA FaultsNat == (FaultsOK => Faults \in Nat) /\ (FaultsOK' => Faults' \in Nat)
<1>1. FaultsOK => Faults \in Nat
  BY DEF FaultsOK, Faults
<1>2. FaultsOK' => Faults' \in Nat
  <2>1. Faults' = misses' + lost' + deaths'
    BY DEF Faults
  <2>2. FaultsOK' => misses' \in Nat /\ lost' \in Nat /\ deaths' \in Nat
    BY DEF FaultsOK
  <2> QED BY <2>1, <2>2
<1> QED BY <1>1, <1>2

\* K equal shares are a version that is stored.
LEMMA WholeIf ==
    ASSUME NEW s, NEW v, v # NoShare, NEW P \in SUBSET Shares, Cardinality(P) >= K, \A i \in P : s[i] = v
    PROVE  {w \in {s[i] : i \in Shares} \ {NoShare} : Cardinality({i \in Shares : s[i] = w}) >= K} # {}
<1>1. IsFiniteSet(Shares) /\ IsFiniteSet(P) /\ K \in Nat \ {0}
  BY ShareCount, FS_Subset, SharesAssumption
<1>2. P # {}
  BY <1>1, FS_EmptySet
<1>3. PICK A : A = {i \in Shares : s[i] = v}
  OBVIOUS
<1>4. A \in SUBSET Shares /\ P \in SUBSET A
  BY <1>3
<1>5. /\ IsFiniteSet(A) /\ Cardinality(P) <= Cardinality(A)
      /\ Cardinality(P) \in Nat /\ Cardinality(A) \in Nat
  BY <1>1, <1>4, FS_Subset, FS_CardinalityType
<1>6. Cardinality(A) >= K
  BY <1>1, <1>5
<1>7. v \in {s[i] : i \in Shares} \ {NoShare}
  BY <1>2
<1> QED BY <1>3, <1>6, <1>7

LEMMA UniformIsWhole ==
    ASSUME NEW d, Uniform(d)
    PROVE  Whole(d) # {}
<1>1. Cardinality(Shares) >= K
  BY ShareCount, SharesAssumption
<1>2. \E P \in SUBSET Shares : Cardinality(P) >= K /\ \A i \in P : slots[d][i] = slots[d][0]
  BY <1>1 DEF Uniform
<1> QED BY <1>2, WholeIf DEF Uniform, Whole

\* The last of the shares a reader takes: there are three at most.
LEMMA LastRead ==
    ASSUME NEW S \in SUBSET Shares, FirstOf(S, 3) # {}
    PROVE  Max(FirstOf(S, 3)) \in FirstOf(S, 3)
<1> DEFINE F == FirstOf(S, 3)
           Before(i) == {j \in S : j < i}
<1>1. F \in SUBSET Shares /\ \A i \in F : i \in S /\ Cardinality(Before(i)) < 3
  BY DEF FirstOf
<1>2. \A i \in Shares : i \in Int
  BY SharesAssumption DEF Shares
<1>3. \A i : IsFiniteSet(Before(i)) /\ Cardinality(Before(i)) \in Nat
  <2> TAKE i
  <2>1. Before(i) \in SUBSET Shares
    OBVIOUS
  <2> QED BY <2>1, ShareCount, FS_Subset, FS_CardinalityType
<1>4. \A a, b, c, e \in F : ~(a < b /\ b < c /\ c < e)
  <2> SUFFICES ASSUME NEW a \in F, NEW b \in F, NEW c \in F, NEW e \in F, a < b, b < c, c < e
               PROVE  FALSE
    OBVIOUS
  <2>1. a \in Int /\ b \in Int /\ c \in Int /\ e \in Int
    BY <1>1, <1>2
  <2>2. IsFiniteSet({}) /\ Cardinality({}) = 0
    BY FS_EmptySet
  <2>3. IsFiniteSet({a}) /\ Cardinality({a}) = 1
    BY FS_Singleton
  <2>4. IsFiniteSet({a} \cup {b}) /\ Cardinality({a} \cup {b}) = 2
    <3>1. b \notin {a}
      BY <2>1
    <3> QED BY <3>1, <2>3, FS_AddElement
  <2>5. Cardinality(({a} \cup {b}) \cup {c}) = 3
    <3>1. a < c
      BY <2>1
    <3>2. c \notin {a} \cup {b}
      BY <2>1, <3>1
    <3> HIDE DEF F, Before
    <3> QED BY <3>2, <2>4, FS_AddElement
  <2>6. ({a} \cup {b}) \cup {c} \in SUBSET Before(e)
    <3>1. a < e /\ b < e /\ c < e
      BY <2>1
    <3>2. a \in S /\ b \in S /\ c \in S
      BY <1>1
    <3> QED BY <3>1, <3>2
  <2>7. 3 <= Cardinality(Before(e))
    BY <1>3, <2>5, <2>6, FS_Subset
  <2> QED BY <1>1, <1>3, <2>7
<1>5. \E m \in F : \A j \in F : m >= j
  <2> SUFFICES ASSUME \A m \in F : \E j \in F : m < j
               PROVE  FALSE
    BY <1>1, <1>2
  <2>1. PICK a \in F : TRUE
    OBVIOUS
  <2>2. PICK b \in F : a < b
    OBVIOUS
  <2>3. PICK c \in F : b < c
    OBVIOUS
  <2>4. PICK e \in F : c < e
    OBVIOUS
  <2> QED BY <1>4, <2>2, <2>3, <2>4
<1> HIDE DEF F
<1>6. Max(F) \in F
  BY <1>5 DEF Max
<1> QED BY <1>6 DEF F

\* Entries that are read are those of a share.
LEMMA ReadShare ==
    ASSUME NEW d, NEW R \in SUBSET Shares, Read(d, R) \notin {Short, Garbage}
    PROVE  \E i \in Shares : slots[d][i] # NoShare /\ Read(d, R).es = slots[d][i].entries
<1>1. PICK S \in SUBSET Shares : S = {i \in R : slots[d][i] # NoShare}
  OBVIOUS
<1>2. PICK got : got = FirstOf(S, 3)
  OBVIOUS
<1>3. got \in SUBSET S
  BY <1>2 DEF FirstOf
<1>4. ~(Cardinality(got) < K) /\ Read(d, R) = Good(slots[d][Max(got)].entries)
  BY <1>1, <1>2 DEF Read
<1>5. got # {}
  BY <1>4, FS_EmptySet, SharesAssumption
<1>6. Max(got) \in S
  BY <1>2, <1>3, <1>5, LastRead
<1> QED BY <1>1, <1>4, <1>6 DEF Good

\* A step of phone p, now at r, that writes no share and leads nowhere new
Calmly(p, r) ==
    /\ op' = [op EXCEPT ![p] = r] /\ slots' = slots
    /\ FaultsOK' /\ Faults <= Faults'
    /\ overlapped => overlapped'
    /\ overlapped' \/ \A q \in Phone \ {p} : op[q].pc = "idle"
    /\ op[p].pc # "push"
    /\ \A q \in Phone : dmd'[q] # Nothing => Reached(dmd'[q])
    /\ r.pc # "idle" /\ r.own # Nothing /\ ~Publishing(r) => Reached(r.own)
    /\ r.pc \in {"locate", "push"} /\ r.dir = Root => \A d : IsLinked(r.entries, d) => Reached(d)
    /\ r.pc = "locate" => r.dir \in {Root, r.own}

\* What a step of phone p makes it lead to, but for x, was led to before.
LEMMA ReachedOnly ==
    ASSUME SlotInv, NEW p \in Phone, NEW r, NEW x, op' = [op EXCEPT ![p] = r],
           \A i \in Shares : \A d : IsLinked(slots'[Root][i].entries, d) => Reached(d),
           \A q \in Phone : dmd'[q] # Nothing => Reached(dmd'[q]),
           r.pc # "idle" /\ r.own # Nothing /\ ~Publishing(r) => Reached(r.own) \/ r.own = x,
           r.pc \in {"locate", "push"} /\ r.dir = Root => \A d : IsLinked(r.entries, d) => Reached(d),
           NEW d, Reached(d)'
    PROVE  Reached(d) \/ d = x
<1>1. op'[p] = r /\ \A q \in Phone \ {p} : op'[q] = op[q]
  BY DEF SlotInv, WritersOK
<1>2. ASSUME d # Nothing, NEW q \in Phone, op'[q].pc # "idle", op'[q].own = d, ~Publishing(op'[q])
      PROVE  Reached(d) \/ d = x
  <2>1. CASE q = p
    BY <1>1, <1>2, <2>1
  <2>2. CASE q # p
    BY <1>1, <1>2, <2>2 DEF Reached
  <2> QED BY <2>1, <2>2
<1>3. ASSUME NEW q \in Phone, op'[q].pc \in {"locate", "push"}, op'[q].dir = Root,
             IsLinked(op'[q].entries, d)
      PROVE  Reached(d)
  <2>1. CASE q = p
    BY <1>1, <1>3, <2>1
  <2>2. CASE q # p
    BY <1>1, <1>3, <2>2 DEF Reached
  <2> QED BY <2>1, <2>2
<1>4. CASE d = Root
  BY <1>4 DEF Reached
<1>5. \/ d = Root
      \/ \E i \in Shares : IsLinked(slots'[Root][i].entries, d)
      \/ d # Nothing /\ \E q \in Phone : \/ dmd'[q] = d
                                         \/ op'[q].pc # "idle" /\ op'[q].own = d /\ ~Publishing(op'[q])
      \/ \E q \in Phone : op'[q].pc \in {"locate", "push"} /\ op'[q].dir = Root
                          /\ IsLinked(op'[q].entries, d)
  BY DEF Reached, IsLinked, Links, Publishing, Shares
<1> QED BY <1>2, <1>3, <1>4, <1>5

LEMMA CalmReached ==
    ASSUME SlotInv, NEW p \in Phone, NEW r, Calmly(p, r), NEW d, Reached(d)'
    PROVE  Reached(d)
<1>1. Reached(Root) /\ \A i \in Shares : \A e : IsLinked(slots'[Root][i].entries, e) => Reached(e)
  BY DEF Calmly, Reached
<1> QED BY <1>1, ReachedOnly DEF Calmly

\* A directory that nothing writes stays as sound as one fault leaves it.
LEMMA SoundStays ==
    ASSUME FaultsOK, FaultsOK', Faults <= Faults', NEW d, slots'[d] = slots[d], Sound(d)
    PROVE  Sound(d)'
<1>1. Whole(d) # {} /\ Whole(d)' = Whole(d)
  BY UniformIsWhole DEF Sound, Whole, Shares
<1>2. Faults' = 0 => Faults = 0
  BY FaultsNat
<1> QED BY <1>1, <1>2 DEF Sound, Uniform, Shares

LEMMA CalmStep ==
    ASSUME SlotInv, RecInv, NEW p \in Phone, NEW r, Calmly(p, r),
           ~overlapped' /\ Faults' <= 1 /\ r.pc = "push" => Underway(r)'
    PROVE  RecInv'
<1>1. op'[p] = r /\ \A q \in Phone \ {p} : op'[q] = op[q]
  BY DEF Calmly, SlotInv, WritersOK
<1>2. FaultsOK'
  BY DEF Calmly
<1>3. /\ ~overlapped' => Alone'
      /\ \A q \in Phone : op'[q].pc = "locate" => op'[q].dir \in {Root, op'[q].own}
  BY <1>1 DEF Calmly, Alone, RecInv
<1>4. ASSUME ~overlapped', Faults' <= 1 PROVE Recoverable'
  <2>1. FaultsOK /\ Recoverable /\ \A q \in Phone : op[q].pc # "push"
    <3>1. FaultsOK /\ FaultsOK' /\ Faults <= Faults' /\ ~overlapped
      BY <1>4 DEF Calmly, RecInv
    <3>2. Faults <= 1
      BY <1>4, <3>1, FaultsNat
    <3> QED BY <1>4, <3>1, <3>2 DEF Calmly, RecInv
  <2>2. ASSUME NEW d, Reached(d)' PROVE d \in Dir /\ Sound(d)'
    <3>1. Reached(d)
      BY <2>2, CalmReached
    <3>2. d \in Dir /\ Sound(d)
      BY <2>1, <3>1 DEF Recoverable, Pushing
    <3> QED BY <1>2, <2>1, <3>2, SoundStays DEF Calmly
  <2>3. ASSUME NEW q \in Phone, op'[q].pc = "push" PROVE Underway(op[q])'
    <3>1. q = p
      BY <1>1, <2>1, <2>3
    <3>2. Underway(r)'
      BY <1>1, <1>4, <2>3, <3>1
    <3> QED BY <1>1, <3>1, <3>2 DEF Underway, AsMeant, Publishing, Written, Base, Reached
  <2>4. Dir' = Dir
    BY DEF Dir
  <2> QED BY <2>2, <2>3, <2>4 DEF Recoverable
<1> QED BY <1>2, <1>3, <1>4 DEF RecInv

\* The directories a rewrite's entries lead to
LEMMA LinksOf ==
    ASSUME NEW es, NEW d, NEW n, NEW c, NEW e
    PROVE  /\ IsLinked(Upsert(es, File(n, c)), d) => IsLinked(es, d)
           /\ IsLinked(Drop(es, n), d) => IsLinked(es, d)
           /\ IsLinked(WithoutRootFiles(es), d) => IsLinked(es, d)
           /\ IsLinked(Upsert(es, Link(n, e)), d) => IsLinked(es, d) \/ d = e
BY DEF IsLinked, Links, Upsert, File, Drop, WithoutRootFiles, Link

LEMMA ReadReached ==
    ASSUME NEW R \in SUBSET Shares, Read(Root, R) \notin {Short, Garbage}, NEW d, IsLinked(Read(Root, R).es, d)
    PROVE  Reached(d)
BY ReadShare DEF Reached

\* Which servers a read missed
LEMMA MissedFacts ==
    ASSUME FaultsOK, NEW R \in SUBSET Shares, Missed(R), UNCHANGED <<lost, deaths>>
    PROVE  /\ FaultsOK' /\ Faults <= Faults'
           /\ Faults' = 0 => R = Shares
           /\ Faults' <= 1 => \E x \in Shares : Shares \ {x} \subseteq R
<1>1. /\ IsFiniteSet(Shares) /\ Cardinality(Shares) = N /\ N \in Nat
      /\ IsFiniteSet(R) /\ Cardinality(R) \in Nat /\ Cardinality(R) <= N
      /\ Cardinality(R) = N => R = Shares
  BY ShareCount, FS_Subset, FS_CardinalityType, SharesAssumption
<1>2. misses \in Nat /\ lost \in Nat /\ deaths \in Nat /\ misses' = misses + N - Cardinality(R)
      /\ lost' = lost /\ deaths' = deaths
  BY DEF FaultsOK, Missed
<1>3. Faults = misses + lost + deaths /\ Faults' = misses' + lost' + deaths'
  BY DEF Faults
<1>4. FaultsOK'
  BY <1>1, <1>2 DEF FaultsOK
<1>5. Faults <= Faults' /\ (Faults' = 0 => R = Shares) /\ (Faults' <= 1 => N - Cardinality(R) <= 1)
  <2>1. PICK c \in Nat : c = Cardinality(R)
    BY <1>1
  <2>2. Faults' = Faults + (N - c) /\ Faults \in Nat /\ c <= N
    BY <1>1, <1>2, <1>3, <2>1
  <2>3. Faults <= Faults' /\ (Faults' = 0 => c = N) /\ (Faults' <= 1 => N - c <= 1)
    BY <1>1, <2>2
  <2> QED BY <1>1, <2>1, <2>3
<1>6. ASSUME N - Cardinality(R) <= 1 PROVE \E x \in Shares : Shares \ {x} \subseteq R
  <2>1. CASE Cardinality(R) = N
    BY <1>1, <2>1, DirFacts
  <2>2. CASE Cardinality(R) = N - 1
    <3>1. PICK Q : Q = Shares \ R
      OBVIOUS
    <3>2. IsFiniteSet(Q) /\ Cardinality(Q) \in Nat
      BY <1>1, <3>1, FS_Subset, FS_CardinalityType
    <3>3. R \cup Q = Shares /\ R \cap Q = {}
      BY <3>1
    <3>4. Cardinality(R \cup Q) = Cardinality(R) + Cardinality(Q) - Cardinality(R \cap Q)
      BY <1>1, <3>2, FS_Union
    <3>5. Cardinality(Q) = 1
      <4>1. Cardinality(R \cap Q) = 0 /\ Cardinality(R \cup Q) = N
        BY <1>1, <3>3, FS_EmptySet
      <4> QED BY <1>1, <2>2, <3>2, <3>4, <4>1
    <3>6. PICK x : Q = {x}
      BY <3>2, <3>5, FS_Singleton
    <3> QED BY <3>1, <3>6
  <2>3. Cardinality(R) = N \/ Cardinality(R) = N - 1
    BY <1>1, <1>6
  <2> QED BY <2>1, <2>2, <2>3
<1> QED BY <1>4, <1>5, <1>6

\* Phone p is not between two shares, and its step touches none.
Around(p) ==
    /\ op[p].pc \notin {"idle", "push"}
    /\ UNCHANGED <<slots, overlapped>>
    /\ FaultsOK' /\ Faults <= Faults'

LEMMA OthersIdle ==
    ASSUME RecInv, NEW p \in Phone, op[p].pc # "idle"
    PROVE  overlapped \/ \A q \in Phone \ {p} : op[q].pc = "idle"
BY DEF RecInv, Alone

LEMMA GoCalm ==
    ASSUME RecInv, NEW p \in Phone, Around(p), NEW r, Set(p, r), dmd' = dmd,
           r.own = op[p].own \/ Reached(r.own) \/ Publishing(r),
           r.pc \in {"locate", "push"} /\ r.dir = Root => \A d : IsLinked(r.entries, d) => Reached(d),
           r.pc = "locate" => r.dir \in {Root, r.own}
    PROVE  Calmly(p, r)
<1>1. op[p].own # Nothing => Reached(op[p].own)
  BY DEF Around, Reached, Publishing
<1>2. \A q \in Phone : dmd[q] # Nothing => Reached(dmd[q])
  BY DEF Reached
<1> QED BY <1>1, <1>2, OthersIdle DEF Calmly, Around, Set

LEMMA EndCalm ==
    ASSUME SlotInv, RecInv, NEW p \in Phone, Around(p), End(p),
           dmd' = dmd \/ dmd' = [dmd EXCEPT ![p] = op[p].own]
    PROVE  Calmly(p, Idle)
<1>1. op[p].own # Nothing => Reached(op[p].own)
  BY DEF Around, Reached, Publishing
<1>2. \A q \in Phone : dmd[q] # Nothing => Reached(dmd[q])
  BY DEF Reached
<1>3. \A q \in Phone : dmd'[q] # Nothing => Reached(dmd'[q])
  BY <1>1, <1>2 DEF SlotInv, WritersOK
<1> QED BY <1>3, OthersIdle DEF Calmly, Around, End, Set, Idle

LEMMA ContinueCalm ==
    ASSUME SlotInv, RecInv, NEW p \in Phone, Around(p), dmd' = dmd, NEW pc, Continue(p, pc),
           pc \notin {"locate", "push"}
    PROVE  \E r : Calmly(p, r) /\ r.pc # "push"
<1>1. PICK r : r = [op[p] EXCEPT !.pc = pc]
  OBVIOUS
<1>2. r.pc = pc /\ r.own = op[p].own
  BY <1>1 DEF SlotInv, WritersOK, WriterOK, IsWriter
<1>3. Calmly(p, r)
  BY <1>1, <1>2, GoCalm DEF Continue
<1> QED BY <1>2, <1>3

LEMMA CommitCalm ==
    ASSUME SlotInv, RecInv, NEW p \in Phone, Around(p), dmd' = dmd, NEW d, NEW es, NEW why,
           Commit(p, d, es, why), d \in {Root, op[p].own},
           d = Root => \A e : IsLinked(es, e) => Reached(e)
    PROVE  \E r : Calmly(p, r) /\ r.pc # "push"
<1>1. PICK r : r = [op[p] EXCEPT !.pc = "locate", !.dir = d, !.entries = es, !.why = why]
  OBVIOUS
<1>2. r.pc = "locate" /\ r.own = op[p].own /\ r.dir = d /\ r.entries = es
  BY <1>1 DEF SlotInv, WritersOK, WriterOK, IsWriter
<1>3. Calmly(p, r)
  BY <1>1, <1>2, GoCalm DEF Commit
<1> QED BY <1>2, <1>3

LEMMA ReadAround ==
    ASSUME RecInv, NEW p \in Phone, op[p].pc \notin {"idle", "push"},
           UNCHANGED <<slots, overlapped, lost, deaths>>, NEW R \in SUBSET Shares, Missed(R)
    PROVE  Around(p)
BY MissedFacts DEF Around, RecInv

LEMMA CalmKeeps ==
    ASSUME SlotInv, RecInv, NEW p \in Phone, \E r : Calmly(p, r) /\ r.pc # "push"
    PROVE  RecInv'
BY CalmStep

LEMMA EndKeeps ==
    ASSUME SlotInv, RecInv, NEW p \in Phone, Around(p), End(p),
           dmd' = dmd \/ dmd' = [dmd EXCEPT ![p] = op[p].own]
    PROVE  RecInv'
<1>1. Calmly(p, Idle) /\ Idle.pc # "push"
  BY EndCalm DEF Idle
<1> QED BY <1>1, CalmKeeps

LEMMA BeginKeeps ==
    ASSUME SlotInv, RecInv, NEW p \in Phone, NEW kind, NEW n, NEW c, NEW again, Begin(p, kind, n, c, again)
    PROVE  RecInv'
<1>1. PICK pc : pc = IF kind = "put" THEN "look" ELSE "load"
  OBVIOUS
<1>2. PICK r : r = [Idle EXCEPT !.pc = pc, !.kind = kind, !.name = n, !.content = c,
                       !.replace = again, !.own = dmd[p], !.id = ops + 1]
  OBVIOUS
<1>3. r.pc \in {"look", "load"} /\ r.own = dmd[p]
  BY <1>1, <1>2 DEF Idle
<1>4. /\ Set(p, r) /\ op[p].pc = "idle" /\ UNCHANGED <<slots, dmd, misses, lost, deaths>>
      /\ overlapped' = (overlapped \/ \E q \in Phone : op[q].pc # "idle")
  BY <1>1, <1>2 DEF Begin
<1>5. FaultsOK' /\ Faults <= Faults'
  <2>1. FaultsOK' /\ Faults' = Faults /\ FaultsOK
    BY <1>4 DEF RecInv, FaultsOK, Faults
  <2> QED BY <2>1, FaultsNat
<1>6. \A q \in Phone : dmd[q] # Nothing => Reached(dmd[q])
  BY DEF Reached
<1>7. Calmly(p, r)
  BY <1>3, <1>4, <1>5, <1>6 DEF Calmly, Set
<1> QED BY <1>3, <1>7, CalmKeeps

LEMMA LookKeeps ==
    ASSUME SlotInv, RecInv, NEW p \in Phone, Look(p)
    PROVE  RecInv'
<1>1. /\ op[p].pc \notin {"idle", "push"} /\ UNCHANGED <<slots, overlapped, lost, deaths>>
      /\ \E R \in SUBSET Shares : Missed(R)
      /\ \/ End(p) /\ (dmd' = dmd \/ dmd' = [dmd EXCEPT ![p] = op[p].own])
         \/ Continue(p, "load") /\ dmd' = dmd
  BY DEF Look, Reach, Fail, Land, Continue
<1>2. Around(p)
  BY <1>1, ReadAround
<1> QED BY <1>1, <1>2, EndKeeps, ContinueCalm, CalmKeeps

LEMMA CheckKeeps ==
    ASSUME SlotInv, RecInv, NEW p \in Phone, Check(p)
    PROVE  RecInv'
<1>1. /\ op[p].pc \notin {"idle", "push"} /\ UNCHANGED <<slots, overlapped, lost, deaths>>
      /\ \E R \in SUBSET Shares : Missed(R)
      /\ End(p) /\ (dmd' = dmd \/ dmd' = [dmd EXCEPT ![p] = op[p].own])
  BY DEF Check, Reach, Fail, Land
<1>2. Around(p)
  BY <1>1, ReadAround
<1> QED BY <1>1, <1>2, EndKeeps

LEMMA UploadFailsKeeps ==
    ASSUME SlotInv, RecInv, NEW p \in Phone, UploadFails(p)
    PROVE  RecInv'
<1>1. /\ op[p].pc \notin {"idle", "push"} /\ UNCHANGED <<slots, dmd, overlapped, misses, lost, deaths>>
      /\ End(p)
  BY DEF UploadFails, Fail
<1>2. FaultsOK' /\ Faults <= Faults'
  <2>1. FaultsOK' /\ Faults' = Faults /\ FaultsOK
    BY <1>1 DEF RecInv, FaultsOK, Faults
  <2> QED BY <2>1, FaultsNat
<1> QED BY <1>1, <1>2, EndKeeps DEF Around

LEMMA InnerKeeps ==
    ASSUME SlotInv, RecInv, NEW p \in Phone, Inner(p)
    PROVE  RecInv'
<1>1. /\ op[p].pc = "inner" /\ UNCHANGED <<slots, dmd, overlapped, lost, deaths>>
      /\ \E R \in SUBSET Shares : Missed(R)
  BY DEF Inner, Reach
<1>2. op[p].own \in Fresh
  BY <1>1 DEF SlotInv, WritersOK, WriterOK
<1>3. PICK es : \/ End(p)
                \/ PutInContainer(p, es)
                \/ RemoveInside(p, es)
  BY DEF Inner
<1>4. End(p) \/ Continue(p, "check") \/ \E xs, why : Commit(p, op[p].own, xs, why)
  BY <1>3 DEF PutInContainer, RemoveInside
<1>5. Around(p)
  BY <1>1, ReadAround
<1> QED BY <1>1, <1>2, <1>4, <1>5, DirFacts, EndKeeps, ContinueCalm, CommitCalm, CalmKeeps

LEMMA LinkInKeeps ==
    ASSUME SlotInv, RecInv, NEW p \in Phone, LinkIn(p)
    PROVE  RecInv'
<1>1. op[p].pc = "link" /\ UNCHANGED <<slots, dmd, overlapped, lost, deaths>>
  BY DEF LinkIn
<1>2. PICK R \in SUBSET Shares :
        /\ Missed(R)
        /\ \/ End(p) \/ Continue(p, "check")
           \/ /\ Read(Root, R) \notin {Short, Garbage}
              /\ LET clean == WithoutRootFiles(Read(Root, R).es)
                 IN \/ Commit(p, Root, clean, "link")
                    \/ Commit(p, Root, Upsert(clean, Link(PhoneDmdName(clean), op[p].own)), "link")
  BY DEF LinkIn, Reach
<1>3. Around(p)
  BY <1>1, <1>2, ReadAround
<1>4. op[p].own \in Fresh /\ Reached(op[p].own)
  BY <1>1, RootAssumption DEF SlotInv, WritersOK, WriterOK, Reached, Publishing
<1>5. ASSUME NEW clean, clean = WithoutRootFiles(Read(Root, R).es), Read(Root, R) \notin {Short, Garbage},
             NEW es, es \in {clean, Upsert(clean, Link(PhoneDmdName(clean), op[p].own))},
             Commit(p, Root, es, "link")
      PROVE  RecInv'
  <2>1. \A e : IsLinked(clean, e) => Reached(e)
    BY <1>5, LinksOf, ReadReached
  <2>2. \A e : IsLinked(es, e) => Reached(e)
    BY <1>4, <1>5, <2>1, LinksOf
  <2> QED BY <1>1, <1>3, <1>5, <2>2, CommitCalm, CalmKeeps
<1> QED BY <1>1, <1>2, <1>3, <1>5, EndKeeps, ContinueCalm, CalmKeeps

\* A directory that is made is one that nothing leads to.
LEMMA PublishKeeps ==
    ASSUME SlotInv, RecInv, NEW p \in Phone, Publish(p), Around(p), dmd' = dmd
    PROVE  RecInv'
<1>1. PICK d \in Fresh :
         /\ \A i \in Shares : slots[d][i] = NoShare
         /\ Set(p, [op[p] EXCEPT !.pc = "push", !.own = d, !.dir = d, !.why = "inner",
                                 !.entries = {Snapshot(op[p].name, op[p].content)}, !.located = <<>>,
                                 !.num = 0, !.placed = {}])
  BY DEF Publish
<1>2. PICK es : es = {Snapshot(op[p].name, op[p].content)}
  OBVIOUS
<1>3. PICK r : r = [op[p] EXCEPT !.pc = "push", !.own = d, !.dir = d, !.why = "inner",
                       !.entries = es, !.located = <<>>, !.num = 0, !.placed = {}]
  OBVIOUS
<1>4. /\ r.pc = "push" /\ r.own = d /\ r.dir = d /\ r.num = 0 /\ r.placed = {} /\ r.located = <<>>
  BY <1>3 DEF SlotInv, WritersOK, WriterOK, IsWriter
<1>5. Publishing(r) /\ \A i \in Shares : Base(r.located, i) = NoShare
  BY <1>4 DEF Publishing, Base
<1>6. Calmly(p, r)
  BY <1>1, <1>2, <1>3, <1>4, <1>5, GoCalm, RootAssumption
<1>7. ASSUME ~overlapped', Faults' <= 1 PROVE Underway(r)'
  <2>1. slots' = slots /\ ~overlapped /\ Faults <= 1 /\ op[p].pc \notin {"idle", "push"}
    BY <1>7, FaultsNat DEF Around, RecInv
  <2>2. Pushing(d) = {}
    BY <2>1, OthersIdle DEF Pushing
  <2>3. ~Sound(d)
    <3>1. Whole(d) = {} /\ ~Uniform(d)
      BY <1>1, DirFacts DEF Whole, Uniform
    <3> QED BY <3>1 DEF Sound
  <2>4. ~Reached(d)
    BY <2>1, <2>2, <2>3 DEF RecInv, Recoverable
  <2>5. ~Reached(d)'
    BY <1>6, <2>4, CalmReached
  <2>6. \A i \in Shares : ~(i < r.num) /\ slots'[r.dir][i] = NoShare
    BY <1>1, <1>4, <2>1, SharesAssumption DEF Shares
  <2> QED BY <1>4, <1>5, <2>5, <2>6, DirFacts DEF Underway, AsMeant, Base, Publishing, Shares
<1> QED BY <1>6, <1>7, CalmStep

LEMMA LoadKeeps ==
    ASSUME SlotInv, RecInv, NEW p \in Phone, Load(p)
    PROVE  RecInv'
<1>1. op[p].pc = "load" /\ UNCHANGED <<slots, dmd, overlapped, lost, deaths>>
  BY DEF Load
<1>2. PICK R \in SUBSET Shares :
        /\ Missed(R)
        /\ \/ End(p)
           \/ /\ Read(Root, R) \notin {Short, Garbage}
              /\ Place(p, Read(Root, R).es) \/ RemoveAt(p, Read(Root, R).es)
  BY DEF Load, Reach
<1>3. Around(p)
  BY <1>1, <1>2, ReadAround
<1>4. CASE End(p)
  BY <1>1, <1>3, <1>4, EndKeeps
<1> PICK es : es = Read(Root, R).es
  OBVIOUS
<1>5. Read(Root, R) \notin {Short, Garbage} => \A e : IsLinked(es, e) => Reached(e)
  BY ReadReached
<1>6. CASE Read(Root, R) \notin {Short, Garbage} /\ Place(p, es)
  <2>1. CASE Commit(p, Root, Upsert(es, File(op[p].name, op[p].content)), "file")
    <3>1. \A e : IsLinked(Upsert(es, File(op[p].name, op[p].content)), e) => Reached(e)
      BY <1>5, <1>6, LinksOf
    <3> QED BY <1>1, <1>3, <2>1, <3>1, CommitCalm, CalmKeeps
  <2>2. CASE Publish(p)
    BY <1>1, <1>3, <2>2, PublishKeeps
  <2>3. ASSUME NEW d, d = op[p].own \/ Reached(d), Set(p, [op[p] EXCEPT !.pc = "inner", !.own = d])
        PROVE  RecInv'
    <3>1. PICK r : r = [op[p] EXCEPT !.pc = "inner", !.own = d]
      OBVIOUS
    <3>2. r.pc = "inner" /\ r.own = d
      BY <3>1 DEF SlotInv, WritersOK, WriterOK, IsWriter
    <3>3. Calmly(p, r)
      BY <1>1, <1>3, <2>3, <3>1, <3>2, GoCalm
    <3> QED BY <3>2, <3>3, CalmKeeps
  <2>4. \A d \in Writable(es) : Reached(d)
    BY <1>5, <1>6 DEF Writable, IsLinked
  <2> QED BY <1>6, <2>1, <2>2, <2>3, <2>4 DEF Place
<1>7. CASE Read(Root, R) \notin {Short, Garbage} /\ RemoveAt(p, es)
  <2>1. CASE Commit(p, Root, Drop(es, op[p].name), "drop")
    <3>1. \A e : IsLinked(Drop(es, op[p].name), e) => Reached(e)
      BY <1>5, <1>7, LinksOf
    <3> QED BY <1>1, <1>3, <2>1, <3>1, CommitCalm, CalmKeeps
  <2>2. CASE Continue(p, "inner")
    BY <1>1, <1>3, <2>2, ContinueCalm, CalmKeeps
  <2> QED BY <1>1, <1>3, <1>7, <2>1, <2>2, EndKeeps DEF RemoveAt
<1> QED BY <1>2, <1>4, <1>6, <1>7

\* One share may be missed, and the others are as they were located.
LEMMA LocateKeeps ==
    ASSUME SlotInv, RecInv, NEW p \in Phone, Locate(p)
    PROVE  RecInv'
<1>1. op[p].pc = "locate" /\ UNCHANGED <<slots, dmd, overlapped, lost, deaths>>
  BY DEF Locate
<1>2. PICK d : d = op[p].dir
  OBVIOUS
<1>3. PICK R \in SUBSET Shares :
        /\ Missed(R)
        /\ \/ End(p)
           \/ LET found == {i \in R : slots[d][i] # NoShare}
              IN /\ found # {}
                 /\ Set(p, [op[p] EXCEPT !.pc = "push", !.located = [i \in found |-> slots[d][i]],
                                         !.num = 0, !.placed = {}])
  BY <1>2 DEF Locate, Reach
<1> PICK found : found = {i \in R : slots[d][i] # NoShare}
  OBVIOUS
<1> PICK located : located = [i \in found |-> slots[d][i]]
  OBVIOUS
<1>4. Around(p)
  BY <1>1, <1>3, ReadAround
<1>5. CASE End(p)
  BY <1>1, <1>4, <1>5, EndKeeps
<1>6. CASE /\ found # {}
           /\ Set(p, [op[p] EXCEPT !.pc = "push", !.located = located, !.num = 0, !.placed = {}])
  <2>1. PICK r : r = [op[p] EXCEPT !.pc = "push", !.located = located, !.num = 0, !.placed = {}]
    OBVIOUS
  <2>2. /\ r.pc = "push" /\ r.located = located /\ r.num = 0 /\ r.placed = {} /\ r.dir = d
        /\ r.own = op[p].own /\ r.entries = op[p].entries
    BY <1>2, <2>1 DEF SlotInv, WritersOK, WriterOK, IsWriter
  <2>3. ~Publishing(r) /\ \A i \in Shares : Base(located, i) = IF i \in R THEN slots[d][i] ELSE NoShare
    BY <1>3, <1>6, <2>2 DEF Publishing, Base
  <2>4. d = Root => \A e : IsLinked(r.entries, e) => Reached(e)
    BY <1>1, <1>2, <2>2 DEF Reached
  <2>5. Calmly(p, r)
    BY <1>1, <1>4, <1>6, <2>1, <2>2, <2>4, GoCalm
  <2>6. ASSUME ~overlapped', Faults' <= 1 PROVE Underway(r)'
    <3>1. slots' = slots /\ ~overlapped /\ Faults <= 1 /\ FaultsOK /\ FaultsOK'
      BY <1>4, <2>6, FaultsNat DEF Around, RecInv
    <3>2. /\ Faults' = 0 => R = Shares /\ Faults = 0
          /\ \E x \in Shares : Shares \ {x} \subseteq R
      BY <1>1, <1>3, <1>4, <2>6, <3>1, FaultsNat, MissedFacts DEF Around
    <3>3. Reached(d) /\ Pushing(d) = {}
      <4>1. d \in {Root, op[p].own} /\ d \in Fresh \cup {Root}
        BY <1>1, <1>2 DEF RecInv, SlotInv, WritersOK, WriterOK, IsWriter
      <4>2. Reached(d)
        BY <1>1, <4>1, RootAssumption DEF Reached, Publishing
      <4>3. Pushing(d) = {}
        BY <1>1, <3>1, OthersIdle DEF Pushing
      <4> QED BY <4>2, <4>3
    <3>4. Faults' = 0 => slots[d][0] # NoShare /\ \A i \in Shares : slots[d][i] = slots[d][0]
      BY <3>1, <3>2, <3>3 DEF RecInv, Recoverable, Sound, Uniform
    <3>5. \A i \in R : ~(i < r.num) /\ slots'[r.dir][i] = Base(r.located, i)
      BY <2>2, <2>3, <3>1, SharesAssumption DEF Shares
    <3>6. \E i \in Shares : slots'[d][i] # NoShare
      BY <1>3, <1>6, <3>1
    <3>7. \A i \in R : AsMeant(r, i)'
      BY <3>5 DEF AsMeant, Base
    <3>8. Faults' = 0 => /\ \A i \in Shares : AsMeant(r, i)' /\ Base(r.located, i) = Base(r.located, 0)
                         /\ Base(r.located, 0) # NoShare
      BY <2>2, <2>3, <3>2, <3>4, <3>7, DirFacts
    <3>9. \E x \in Shares : \A i \in Shares \ {x} : AsMeant(r, i)'
      BY <3>2, <3>7
    <3> QED BY <2>2, <2>3, <3>6, <3>8, <3>9 DEF Underway, Base, Publishing, Shares
  <2> QED BY <2>5, <2>6, CalmStep
<1> QED BY <1>3, <1>5, <1>6

\* A rewrite cut off in the middle leaves K shares of what was there or of what it wrote.
LEMMA TornIsWhole ==
    ASSUME N = 2 * K - 1, NEW o, WriterOK(o), o.pc = "push", Underway(o), ~Publishing(o), Faults = 0
    PROVE  Whole(o.dir) # {}
<1>1. /\ o.num \in Shares /\ o.id \in Nat \ {0} /\ K \in Nat \ {0} /\ N \in Nat
      /\ \A i \in Shares : AsMeant(o, i) /\ Base(o.located, i) = Base(o.located, 0)
      /\ Base(o.located, 0) # NoShare
  BY SharesAssumption DEF Underway, WriterOK, IsWriter
<1>2. o.num \in Nat /\ o.num <= N - 1
  BY <1>1 DEF Shares
<1>3. CASE o.num >= K
  <2>1. PICK P \in SUBSET Shares : P = 0 .. o.num - 1
    BY <1>1, <1>2 DEF Shares
  <2>2. Cardinality(P) >= K
    <3>1. 0 \in Int /\ o.num - 1 \in Int
      BY <1>2
    <3>2. Cardinality(0 .. (o.num - 1)) = IF 0 > o.num - 1 THEN 0 ELSE (o.num - 1) - 0 + 1
      BY <3>1, FS_Interval
    <3> QED BY <1>1, <1>2, <1>3, <2>1, <3>2
  <2>3. \A i \in P : slots[o.dir][i] = Written(o)
    BY <1>1, <1>2, <2>1 DEF AsMeant
  <2>4. Written(o) # NoShare
    <3>1. Written(o).op = o.id /\ NoShare.op = 0
      BY DEF Written, NoShare
    <3> QED BY <1>1, <3>1
  <2> QED BY <2>2, <2>3, <2>4, WholeIf DEF Whole
<1>4. CASE o.num < K
  <2>1. PICK P \in SUBSET Shares : P = o.num .. N - 1
    BY <1>1, <1>2 DEF Shares
  <2>2. Cardinality(P) = N - o.num
    BY <1>1, <1>2, <2>1, FS_Interval
  <2>3. Cardinality(P) >= K
    BY <1>1, <1>2, <1>4, <2>2
  <2>4. \A i \in P : slots[o.dir][i] = Base(o.located, 0)
    BY <1>1, <1>2, <2>1 DEF AsMeant
  <2> QED BY <1>1, <2>3, <2>4, WholeIf DEF Whole
<1> QED BY <1>1, <1>2, <1>3, <1>4

LEMMA DieKeeps ==
    ASSUME SlotInv, RecInv, N = 2 * K - 1, NEW p \in Phone, Die(p)
    PROVE  RecInv'
<1>1. /\ op[p].pc # "idle" /\ End(p) /\ UNCHANGED <<slots, dmd, misses, lost, overlapped>>
      /\ deaths' = deaths + 1
  BY DEF Die
<1>2. FaultsOK /\ FaultsOK' /\ Faults \in Nat /\ Faults' = Faults + 1
  <2>1. FaultsOK /\ FaultsOK'
    BY <1>1 DEF RecInv, FaultsOK
  <2>2. misses \in Nat /\ lost \in Nat /\ deaths \in Nat
    BY <2>1 DEF FaultsOK
  <2>3. Faults = misses + lost + deaths /\ Faults' = misses' + lost' + deaths'
    BY DEF Faults
  <2> QED BY <1>1, <2>1, <2>2, <2>3
<1>3. CASE op[p].pc # "push"
  <2>1. Around(p)
    BY <1>1, <1>2, <1>3 DEF Around
  <2> QED BY <1>1, <2>1, EndKeeps
<1>4. CASE op[p].pc = "push"
  <2>1. op'[p] = Idle /\ Idle.pc = "idle" /\ \A q \in Phone \ {p} : op'[q] = op[q]
    BY <1>1 DEF End, Set, Idle, SlotInv, WritersOK
  <2>2. ASSUME NEW d, Reached(d)' PROVE Reached(d)
    <3>1. \A q \in Phone : dmd[q] # Nothing => Reached(dmd[q])
      BY DEF Reached
    <3>2. Reached(Root) /\ \A i \in Shares : \A e : IsLinked(slots'[Root][i].entries, e) => Reached(e)
      BY <1>1 DEF Reached
    <3> QED BY <1>1, <2>1, <2>2, <3>1, <3>2, ReachedOnly DEF End, Set
  <2>3. ASSUME ~overlapped, Faults = 0 PROVE Recoverable'
    <3>1. Recoverable /\ \A q \in Phone \ {p} : op[q].pc = "idle"
      BY <1>1, <2>3, OthersIdle DEF RecInv
    <3>2. ASSUME NEW d, Reached(d)' PROVE d \in Dir /\ Sound(d)'
      <4>1. Reached(d) /\ d \in Dir /\ (Sound(d) \/ Pushing(d) # {})
        BY <2>2, <3>1, <3>2 DEF Recoverable
      <4>2. CASE d # op[p].dir
        <5>1. Sound(d)
          BY <3>1, <4>1, <4>2 DEF Pushing
        <5> QED BY <1>1, <1>2, <4>1, <5>1, SoundStays
      <4>3. CASE d = op[p].dir
        <5>1. Underway(op[p]) /\ ~Publishing(op[p]) /\ WriterOK(op[p])
          BY <1>4, <3>1, <4>1, <4>3 DEF Recoverable, Underway, SlotInv, WritersOK
        <5>2. Whole(d) # {}
          BY <1>4, <2>3, <4>3, <5>1, TornIsWhole
        <5>3. Whole(d)' = Whole(d)
          BY <1>1 DEF Whole, Shares
        <5> QED BY <1>2, <2>3, <4>1, <5>2, <5>3 DEF Sound
      <4> QED BY <4>2, <4>3
    <3>3. \A q \in Phone : op'[q].pc # "push"
      BY <2>1, <3>1
    <3>4. Dir' = Dir
      BY DEF Dir
    <3> QED BY <3>2, <3>3, <3>4 DEF Recoverable
  <2>4. ~overlapped' => Alone'
    BY <1>1, <2>1 DEF RecInv, Alone
  <2>5. \A q \in Phone : op'[q].pc = "locate" => op'[q].dir \in {Root, op'[q].own}
    BY <2>1 DEF RecInv
  <2>6. ~overlapped' /\ Faults' <= 1 => ~overlapped /\ Faults = 0
    BY <1>1, <1>2
  <2> QED BY <1>2, <2>3, <2>4, <2>5, <2>6 DEF RecInv
<1> QED BY <1>3, <1>4

\* One more share answered: applied, refused, or lost on the way
TestAndSet(o, pl) ==
    LET i == o.num
        Wrote == slots[o.dir][i] = Base(o.located, i) /\ slots' = [slots EXCEPT ![o.dir][i] = Written(o)]
    IN \/ Wrote /\ pl = o.placed \cup {i} /\ Faults' = Faults
       \/ slots[o.dir][i] # Base(o.located, i) /\ slots' = slots /\ pl = o.placed /\ Faults' = Faults
       \/ (Wrote \/ slots' = slots) /\ pl = o.placed /\ Faults' = Faults + 1

LEMMA AnsweredMeant ==
    ASSUME SlotInv, Faults \in Nat, Faults' <= 1, NEW o, WriterOK(o), o.pc = "push", Underway(o),
           NEW pl, TestAndSet(o, pl), NEW s, s = [o EXCEPT !.num = @ + 1, !.placed = pl]
    PROVE  /\ \A j \in pl : slots'[o.dir][j] = Written(o)
           /\ \E x \in Shares : \A j \in Shares \ {x} : AsMeant(s, j)'
           /\ Faults' = 0 => \A j \in Shares : AsMeant(s, j)'
           /\ ~Publishing(o) => \E j \in Shares : slots'[o.dir][j] # NoShare
           /\ Faults' = Faults /\ (\A j \in Shares : AsMeant(o, j)) => \A j \in Shares : AsMeant(s, j)'
<1>1. PICK i : i = o.num
  OBVIOUS
<1>2. PICK d : d = o.dir
  OBVIOUS
<1>3. PICK v : v = Written(o)
  OBVIOUS
<1>4. /\ i \in Shares /\ i \in Nat /\ d \in Dir /\ o.placed \subseteq 0 .. i - 1 /\ v # NoShare
      /\ \A j \in Shares : j \in Nat
  <2>1. v.op = o.id /\ NoShare.op = 0 /\ o.id \in 1 .. ops
    BY <1>3 DEF Written, NoShare, WriterOK
  <2>2. i \in Shares /\ d \in Dir /\ o.placed \subseteq 0 .. i - 1
    BY <1>1, <1>2, DirFacts DEF WriterOK, IsWriter
  <2> QED BY <2>1, <2>2, SharesAssumption DEF Shares
<1>5. s.num = i + 1 /\ s.placed = pl /\ s.dir = d /\ s.located = o.located /\ Written(s) = v
  BY <1>1, <1>2, <1>3 DEF WriterOK, IsWriter, Written
<1>6. /\ \A j \in Shares \ {i} : slots'[d][j] = slots[d][j]
      /\ slots'[d][i] \in {slots[d][i], v}
      /\ pl = o.placed \cup {i} => slots'[d][i] = v
      /\ pl \in {o.placed, o.placed \cup {i}}
  BY <1>1, <1>2, <1>3, <1>4 DEF TestAndSet, SlotInv, WritersOK
<1>7. \A j \in o.placed : j \in Shares \ {i} /\ slots[d][j] = v
  BY <1>2, <1>3, <1>4, SharesAssumption DEF Underway, Shares
<1>8. ASSUME NEW j \in Shares \ {i}, AsMeant(o, j) PROVE AsMeant(s, j)'
  <2>1. j < i + 1 <=> j < i
    BY <1>4
  <2> QED BY <1>1, <1>2, <1>3, <1>5, <1>6, <1>8, <2>1 DEF AsMeant, Base, Written
<1>9. ASSUME pl = o.placed \cup {i} PROVE AsMeant(s, i)'
  <2>1. i < i + 1
    BY <1>4
  <2> QED BY <1>5, <1>6, <1>9, <2>1 DEF AsMeant, Written
<1>10. PICK x \in Shares : \A j \in Shares \ {x} : AsMeant(o, j)
  BY DEF Underway
<1>11. AsMeant(o, i) => slots[d][i] = Base(o.located, i)
  BY <1>1, <1>2, <1>4 DEF AsMeant
<1>12. Faults = 0 => \A j \in Shares : AsMeant(o, j)
  BY DEF Underway
<1> DEFINE Meant == /\ \E y \in Shares : \A j \in Shares \ {y} : AsMeant(s, j)'
                    /\ Faults' = 0 => \A j \in Shares : AsMeant(s, j)'
<1>13. ASSUME pl = o.placed \cup {i}, Faults' = Faults PROVE Meant
  BY <1>8, <1>9, <1>10, <1>12, <1>13
<1>14. ASSUME slots[d][i] # Base(o.located, i), Faults' = Faults PROVE Meant
  <2>1. Faults # 0 /\ x = i
    BY <1>4, <1>10, <1>11, <1>12, <1>14
  <2> QED BY <1>8, <1>10, <1>14, <2>1
<1>15. ASSUME Faults' = Faults + 1 PROVE Meant
  <2>1. Faults = 0 /\ Faults' # 0
    BY <1>15
  <2> QED BY <1>4, <1>8, <1>12, <2>1
<1>16. Meant
  BY <1>1, <1>2, <1>13, <1>14, <1>15 DEF TestAndSet
<1>17. \A j \in pl : slots'[d][j] = v
  BY <1>6, <1>7
<1>18. ~Publishing(o) => \E j \in Shares : slots'[d][j] # NoShare
  BY <1>2, <1>4, <1>6 DEF Underway
<1>19. ASSUME Faults' = Faults, \A j \in Shares : AsMeant(o, j) PROVE \A j \in Shares : AsMeant(s, j)'
  <2>1. slots[d][i] = Base(o.located, i) /\ Faults' # Faults + 1
    BY <1>4, <1>11, <1>19
  <2>2. pl = o.placed \cup {i}
    BY <1>1, <1>2, <2>1 DEF TestAndSet
  <2> QED BY <1>8, <1>9, <1>19, <2>2
<1> QED BY <1>2, <1>3, <1>16, <1>17, <1>18, <1>19

\* A rewrite that ends: what it wrote is stored if it is told so. If it is not, with one
\* fault at most, K = N = 1, and the share is as it was or as it was to be.
LEMMA AnsweredAll ==
    ASSUME N = 2 * K - 1, Faults' \in Nat, Faults' <= 1, NEW s, s.num = N,
           s.id \in Nat \ {0}, s.placed \in SUBSET Shares,
           \A j \in s.placed : slots'[s.dir][j] = Written(s),
           \E x \in Shares : \A j \in Shares \ {x} : AsMeant(s, j)',
           Faults' = 0 => \A j \in Shares : AsMeant(s, j)',
           Cardinality(s.placed) >= K \/ \E j \in Shares : slots'[s.dir][j] # NoShare
    PROVE  Sound(s.dir)'
<1>1. /\ IsFiniteSet(Shares) /\ Cardinality(Shares) = N /\ K \in Nat \ {0} /\ N \in Nat
      /\ \A j \in Shares : j \in Nat /\ j < N
  BY ShareCount, SharesAssumption DEF Shares
<1>2. \A j \in Shares : AsMeant(s, j)' => slots'[s.dir][j] = Written(s) /\ j \in s.placed
  BY <1>1 DEF AsMeant, Written
<1>3. Written(s) # NoShare
  <2>1. Written(s).op = s.id /\ NoShare.op = 0
    BY DEF Written, NoShare
  <2> QED BY <2>1
<1>4. CASE Faults' = 0
  BY <1>2, <1>3, <1>4, DirFacts DEF Sound, Uniform, Shares
<1>5. CASE Faults' # 0 /\ Cardinality(s.placed) >= K
  <2>1. PICK v, P : v = Written(s) /\ P = s.placed
    OBVIOUS
  <2>2. v # NoShare /\ P \in SUBSET Shares /\ Cardinality(P) >= K /\ \A j \in P : slots'[s.dir][j] = v
    BY <1>3, <1>5, <2>1
  <2>3. Whole(s.dir)' # {}
    BY <2>2, WholeIf DEF Whole, Shares
  <2> QED BY <1>5, <2>3 DEF Sound
<1>6. CASE Faults' # 0 /\ ~(Cardinality(s.placed) >= K)
  <2>1. PICK x \in Shares : \A j \in Shares \ {x} : AsMeant(s, j)'
    OBVIOUS
  <2>2. Shares \ {x} \in SUBSET s.placed /\ IsFiniteSet(s.placed) /\ Cardinality(s.placed) \in Nat
    BY <1>1, <1>2, <2>1, FS_Subset, FS_CardinalityType
  <2>3. Cardinality(Shares \ {x}) = N - 1 /\ Cardinality(Shares \ {x}) <= Cardinality(s.placed)
    BY <1>1, <2>2, FS_RemoveElement, FS_Subset
  <2>4. K = 1
    BY <1>1, <1>6, <2>2, <2>3
  <2>5. PICK j \in Shares : slots'[s.dir][j] # NoShare
    BY <1>6
  <2>6. PICK v, P : v = slots'[s.dir][j] /\ P = {j}
    OBVIOUS
  <2>7. v # NoShare /\ P \in SUBSET Shares /\ Cardinality(P) >= K /\ \A i \in P : slots'[s.dir][i] = v
    <3>1. Cardinality({j}) = 1
      BY FS_Singleton
    <3>2. Cardinality(P) >= K
      BY <2>4, <2>6, <3>1
    <3> QED BY <2>5, <2>6, <3>2
  <2>8. Whole(s.dir)' # {}
    BY <2>7, WholeIf DEF Whole, Shares
  <2> QED BY <1>6, <2>8 DEF Sound
<1> QED BY <1>4, <1>5, <1>6

\* One answer to the rewrite o of phone p makes it s, and r when it was the last.
Answers(p, o, pl, s, r) ==
    /\ o = op[p] /\ o.pc = "push" /\ TestAndSet(o, pl) /\ s = [o EXCEPT !.num = @ + 1, !.placed = pl]
    /\ op' = [op EXCEPT ![p] = r]
    /\ \/ r = s /\ s.num < N
       \/ r = Idle /\ s.num = N
       \/ /\ s.num = N /\ Cardinality(pl) >= K
          /\ r = [s EXCEPT !.pc = After(s), !.done = TRUE, !.entries = {}, !.located = <<>>,
                           !.num = 0, !.placed = {}]

LEMMA PushAnswers ==
    ASSUME SlotInv, RecInv, NEW p \in Phone, Push(p)
    PROVE  /\ FaultsOK /\ FaultsOK' /\ Faults \in Nat /\ Faults' \in Nat /\ Faults <= Faults'
           /\ UNCHANGED <<dmd, kept, overlapped>>
           /\ \E o, pl, s, r : Answers(p, o, pl, s, r)
<1>1. PICK o : o = op[p]
  OBVIOUS
<1>2. /\ WriterOK(o) /\ o.pc = "push" /\ o.num \in Nat /\ o.num < N /\ N \in Nat
      /\ o.placed \subseteq 0 .. o.num - 1 /\ UNCHANGED <<dmd, kept, overlapped, misses, deaths>>
  <2>1. WriterOK(o) /\ o.pc = "push" /\ UNCHANGED <<dmd, kept, overlapped, misses, deaths>>
    BY <1>1 DEF Push, SlotInv, WritersOK
  <2> QED BY <2>1, SharesAssumption DEF WriterOK, Shares
<1>3. PICK pl : /\ Reply(p, pl)
                /\ \/ lost' = lost /\ (Faults' = Faults => TestAndSet(o, pl))
                   \/ lost' = lost + 1 /\ (Faults' = Faults + 1 => TestAndSet(o, pl))
  BY <1>1 DEF Push, Applies, Unanswered, TestAndSet
<1>4. FaultsOK /\ FaultsOK' /\ Faults \in Nat /\ Faults' \in Nat /\ Faults <= Faults' /\ TestAndSet(o, pl)
  <2>1. misses \in Nat /\ lost \in Nat /\ deaths \in Nat /\ FaultsOK
    BY DEF RecInv, FaultsOK
  <2>2. Faults = misses + lost + deaths /\ Faults' = misses' + lost' + deaths'
    BY DEF Faults
  <2>3. FaultsOK'
    BY <1>2, <1>3, <2>1 DEF FaultsOK
  <2> QED BY <1>2, <1>3, <2>1, <2>2, <2>3
<1>5. PICK s : s = [o EXCEPT !.num = @ + 1, !.placed = pl]
  OBVIOUS
<1>6. s.num = o.num + 1 /\ s.placed = pl
  BY <1>2, <1>5 DEF WriterOK, IsWriter
<1>7. IF s.num < N THEN Set(p, s) /\ UNCHANGED wins ELSE Finish(p, s)
  <2>1. s = [op[p] EXCEPT !.num = @ + 1, !.placed = pl]
    BY <1>1, <1>5
  <2> QED BY <1>3, <2>1 DEF Reply
<1>8. PICK pc : pc = After(s)
  OBVIOUS
<1>9. PICK t : t = [s EXCEPT !.pc = pc, !.done = TRUE, !.entries = {}, !.located = <<>>,
                             !.num = 0, !.placed = {}]
  OBVIOUS
<1>10. CASE s.num < N
  <2>1. op' = [op EXCEPT ![p] = s]
    BY <1>7, <1>10 DEF Set
  <2> QED BY <1>1, <1>2, <1>4, <1>5, <1>10, <2>1 DEF Answers
<1>11. CASE s.num = N /\ End(p)
  BY <1>1, <1>2, <1>4, <1>5, <1>11 DEF Answers, End, Set
<1>12. CASE s.num = N /\ ~(Cardinality(pl) < K)
  <2>1. Finish(p, s)
    BY <1>2, <1>7, <1>12
  <2>2. Set(p, t)
    BY <1>6, <1>8, <1>9, <1>12, <2>1 DEF Finish
  <2>3. Cardinality(pl) >= K
    <3>1. pl \in SUBSET Shares
      BY <1>2, <1>4 DEF TestAndSet, Shares
    <3> QED BY <1>12, <3>1, ShareCount, FS_Subset, FS_CardinalityType, SharesAssumption
  <2>4. Answers(p, o, pl, s, t)
    BY <1>1, <1>2, <1>4, <1>5, <1>8, <1>9, <1>12, <2>2, <2>3 DEF Answers, Set
  <2> QED BY <1>2, <1>4, <2>4
<1> QED BY <1>2, <1>6, <1>7, <1>10, <1>11, <1>12 DEF Finish

LEMMA PushKeeps ==
    ASSUME SlotInv, SlotInv', RecInv, N = 2 * K - 1, NEW p \in Phone, Push(p)
    PROVE  RecInv'
<1>0. PICK o, pl, s, r : Answers(p, o, pl, s, r)
  BY PushAnswers
<1>1. o = op[p]
  BY <1>0 DEF Answers
<1>2. PICK d : d = o.dir
  OBVIOUS
<1>3. /\ WriterOK(o) /\ o.pc = "push" /\ o.num \in Shares /\ o.num \in Nat /\ o.num < N /\ N \in Nat
      /\ d \in Fresh \cup {Root} /\ d \in Dir /\ o.id \in Nat \ {0} /\ o.placed \subseteq 0 .. o.num - 1
      /\ UNCHANGED <<dmd, overlapped>>
  <2>1. WriterOK(o) /\ o.pc = "push" /\ UNCHANGED <<dmd, overlapped>>
    BY <1>0, PushAnswers DEF Answers, SlotInv, WritersOK
  <2>2. o.num \in Shares /\ o.id \in 1 .. ops /\ o.placed \subseteq 0 .. o.num - 1 /\ d \in Fresh \cup {Root}
    BY <1>2, <2>1 DEF WriterOK, IsWriter
  <2>3. o.id \in Nat \ {0}
    BY <2>1, <2>2 DEF WriterOK, IsWriter
  <2> QED BY <2>1, <2>2, <2>3, DirFacts, SharesAssumption DEF Shares
<1>4. FaultsOK /\ FaultsOK' /\ Faults \in Nat /\ Faults' \in Nat /\ Faults <= Faults' /\ TestAndSet(o, pl)
  BY <1>0, PushAnswers DEF Answers
<1>5. s = [o EXCEPT !.num = @ + 1, !.placed = pl]
  BY <1>0 DEF Answers
<1>6. /\ s.num = o.num + 1 /\ s.placed = pl /\ s.pc = "push" /\ s.dir = d /\ s.located = o.located
      /\ s.id = o.id /\ s.own = o.own /\ s.entries = o.entries /\ Written(s) = Written(o)
      /\ Publishing(s) = Publishing(o)
  BY <1>2, <1>3, <1>5 DEF WriterOK, IsWriter, Written, Publishing
<1>7. /\ op' = [op EXCEPT ![p] = r]
      /\ \/ r = s /\ s.num < N
         \/ r.pc = "idle" /\ s.num = N
         \/ /\ r.pc \in {"link", "inner", "check"} /\ r.own = o.own /\ s.num = N
            /\ Cardinality(pl) >= K
  <2>1. PICK pc : pc = After(s)
    OBVIOUS
  <2>2. ASSUME r = [s EXCEPT !.pc = pc, !.done = TRUE, !.entries = {}, !.located = <<>>,
                             !.num = 0, !.placed = {}]
        PROVE  r.pc = pc /\ r.own = o.own
    BY <1>3, <1>5, <2>2 DEF WriterOK, IsWriter
  <2>3. pc \in {"link", "inner", "check"} /\ Idle.pc = "idle"
    BY <2>1 DEF After, Idle
  <2> QED BY <1>0, <2>1, <2>2, <2>3 DEF Answers
<1>8. op'[p] = r /\ \A q \in Phone \ {p} : op'[q] = op[q]
  BY <1>7 DEF SlotInv, WritersOK
<1>9. ~overlapped' => Alone'
  BY <1>1, <1>3, <1>8 DEF RecInv, Alone
<1>10. \A q \in Phone : op'[q].pc = "locate" => op'[q].dir \in {Root, op'[q].own}
  BY <1>6, <1>7, <1>8 DEF RecInv
<1>11. ASSUME ~overlapped', Faults' <= 1 PROVE Recoverable'
  <2>1. /\ Recoverable /\ \A q \in Phone \ {p} : op[q].pc = "idle"
        /\ Underway(o)
    <3>1. ~overlapped /\ Faults <= 1
      BY <1>3, <1>4, <1>11
    <3> QED BY <1>1, <1>3, <3>1, OthersIdle DEF RecInv, Recoverable
  <2>2. /\ \A j \in pl : slots'[d][j] = Written(o)
        /\ \E x \in Shares : \A j \in Shares \ {x} : AsMeant(s, j)'
        /\ Faults' = 0 => \A j \in Shares : AsMeant(s, j)'
        /\ ~Publishing(o) => \E j \in Shares : slots'[d][j] # NoShare
    BY <1>2, <1>3, <1>4, <1>5, <1>11, <2>1, AnsweredMeant
  <2>3. \A e \in Dir \ {d} : slots'[e] = slots[e]
    BY <1>2, <1>3, <1>4 DEF TestAndSet, SlotInv, WritersOK
  <2>4. ASSUME NEW j \in Shares, NEW e, IsLinked(slots'[Root][j].entries, e) PROVE Reached(e)
    <3>1. slots'[Root][j] = slots[Root][j] \/ (d = Root /\ slots'[Root][j] = Written(o))
      BY <1>2, <1>3, <1>4, DirFacts DEF TestAndSet, SlotInv, WritersOK
    <3>2. Written(o).entries = o.entries
      BY DEF Written
    <3> QED BY <1>1, <1>2, <1>3, <2>4, <3>1, <3>2 DEF Reached
  <2>5. ASSUME NEW e, Reached(e)' PROVE Reached(e) \/ (Publishing(o) /\ e = d /\ r # s /\ r.pc # "idle")
    <3>1. \A q \in Phone : dmd'[q] # Nothing => Reached(dmd'[q])
      BY <1>3 DEF Reached
    <3>2. \A x : r.pc \in {"locate", "push"} /\ r.dir = Root /\ IsLinked(r.entries, x) => Reached(x)
      BY <1>1, <1>2, <1>3, <1>6, <1>7 DEF Reached
    <3>3. o.own # Nothing => Reached(o.own) \/ Publishing(o)
      BY <1>1, <1>3 DEF Reached
    <3>4. Publishing(o) => o.own = d
      BY <1>2, <2>1 DEF Underway
    <3>5. Reached(Root)
      BY DEF Reached
    <3>6. CASE Publishing(o) /\ r # s /\ r.pc # "idle"
      BY <1>7, <2>4, <2>5, <3>1, <3>2, <3>3, <3>4, <3>6, ReachedOnly
    <3>7. CASE ~(Publishing(o) /\ r # s /\ r.pc # "idle")
      <4>1. r.pc # "idle" /\ r.own # Nothing /\ ~Publishing(r) => Reached(r.own)
        BY <1>6, <1>7, <3>3, <3>7
      <4> QED BY <1>7, <2>4, <2>5, <3>1, <3>2, <3>5, <4>1, ReachedOnly
    <3> QED BY <3>6, <3>7
  <2>6. ASSUME NEW e, Reached(e)', e # d PROVE e \in Dir /\ Sound(e)'
    <3>1. e \in Dir /\ (Sound(e) \/ Pushing(e) # {})
      BY <2>1, <2>5, <2>6 DEF Recoverable
    <3>2. Pushing(e) = {}
      BY <1>1, <1>2, <2>1, <2>6 DEF Pushing
    <3> QED BY <1>4, <2>3, <2>6, <3>1, <3>2, SoundStays
  <2>7. s.num = N /\ Reached(d)' => Sound(d)'
    <3>1. pl \in SUBSET Shares
      BY <1>3, <1>4 DEF TestAndSet, Shares
    <3>2. Publishing(o) /\ Reached(d)' => Cardinality(pl) >= K \/ s.num < N
      BY <1>2, <1>7, <2>1, <2>5 DEF Underway
    <3>3. s.num = N => ~(s.num < N)
      BY <1>3
    <3>4. ASSUME s.num = N, Reached(d)'
          PROVE  Cardinality(s.placed) >= K \/ \E j \in Shares : slots'[s.dir][j] # NoShare
      BY <1>6, <2>2, <3>2, <3>3, <3>4
    <3> QED BY <1>3, <1>4, <1>6, <1>11, <2>2, <3>1, <3>4, AnsweredAll
  <2>8. CASE s.num = N
    <3>1. \A q \in Phone : op'[q].pc # "push"
      BY <1>3, <1>7, <1>8, <2>1, <2>8
    <3>2. \A e : Reached(e)' => e \in Dir /\ Sound(e)'
      BY <1>3, <2>6, <2>7, <2>8
    <3>3. Dir' = Dir
      BY DEF Dir
    <3> QED BY <3>1, <3>2, <3>3 DEF Recoverable
  <2>9. CASE r = s
    <3>1. p \in Pushing(d)'
      BY <1>6, <1>8, <2>9 DEF Pushing
    <3>2. Underway(s)'
      <4>1. Publishing(o) => s.own = s.dir /\ ~Reached(s.dir)'
        BY <1>2, <1>6, <2>1, <2>5, <2>9 DEF Underway
      <4>2. ~Publishing(o) => /\ Faults' = 0 => Base(s.located, 0) # NoShare
                              /\ \E j \in Shares : slots'[s.dir][j] # NoShare
        BY <1>4, <1>6, <2>1, <2>2 DEF Underway
      <4>3. \A j \in s.placed : slots'[s.dir][j] = Written(s)
        BY <1>6, <2>2
      <4>4. Faults' = 0 => \A j \in Shares : AsMeant(s, j)' /\ Base(s.located, j) = Base(s.located, 0)
        BY <1>4, <1>6, <2>1, <2>2 DEF Underway
      <4> QED BY <1>6, <2>2, <4>1, <4>2, <4>3, <4>4 DEF Underway, Publishing, Written, Base, Shares
    <3>3. \A q \in Phone : op'[q].pc = "push" => Underway(op[q])'
      <4>1. ASSUME NEW q \in Phone, op'[q].pc = "push" PROVE q = p
        BY <1>8, <2>1, <4>1
      <4>2. Underway(op[p])'
        BY <1>8, <2>9, <3>2 DEF Underway, AsMeant, Publishing, Written, Base
      <4> QED BY <4>1, <4>2
    <3>4. \A e : Reached(e)' => e \in Dir' /\ (Sound(e)' \/ Pushing(e)' # {})
      BY <1>3, <2>6, <3>1 DEF Dir
    <3> QED BY <3>3, <3>4 DEF Recoverable
  <2> QED BY <1>7, <2>8, <2>9
<1> QED BY <1>4, <1>9, <1>10, <1>11 DEF RecInv

LEMMA StepKeepsFolder ==
    ASSUME SlotInv, SlotInv', RecInv, N = 2 * K - 1, [NextWrite]_dirVars
    PROVE  RecInv'
<1>1. CASE UNCHANGED dirVars
  <2>1. UNCHANGED <<slots, op, dmd, overlapped, misses, lost, deaths>>
    BY <1>1 DEF dirVars
  <2>2. UNCHANGED <<FaultsOK, Faults, Alone>>
    BY <2>1 DEF FaultsOK, Faults, Alone
  <2>3. \A d : (Reached(d)' <=> Reached(d)) /\ Pushing(d)' = Pushing(d)
    BY <2>1 DEF Reached, IsLinked, Links, Publishing, Shares, Pushing
  <2>4. \A d : Whole(d)' = Whole(d) /\ (Uniform(d)' <=> Uniform(d))
    BY <2>1 DEF Whole, Uniform, Shares
  <2>5. \A d : Sound(d)' <=> Sound(d)
    BY <2>2, <2>4 DEF Sound
  <2>6. ASSUME NEW q \in Phone PROVE Underway(op[q])' <=> Underway(op[q])
    <3>1. PICK o : o = op[q]
      OBVIOUS
    <3>2. Underway(o)' <=> Underway(o)
      BY <2>1, <2>2, <2>3 DEF Underway, AsMeant, Publishing, Base, Written, Shares
    <3>3. op'[q] = o
      BY <2>1, <3>1
    <3>4. Underway(op[q])' <=> Underway(o)'
      <4>1. Underway(op[q])' => Underway(o)'
        BY <3>3 DEF Underway, AsMeant, Publishing, Written, Base
      <4>2. Underway(o)' => Underway(op[q])'
        BY <3>3 DEF Underway, AsMeant, Publishing, Written, Base
      <4> QED BY <4>1, <4>2
    <3> QED BY <3>1, <3>2, <3>4
  <2>7. Dir' = Dir
    BY DEF Dir
  <2>8. Recoverable' <=> Recoverable
    BY <2>1, <2>3, <2>5, <2>6, <2>7 DEF Recoverable
  <2> QED BY <2>1, <2>2, <2>8 DEF RecInv
<1>2. CASE NextWrite
  BY <1>2, BeginKeeps, LookKeeps, UploadFailsKeeps, LoadKeeps, InnerKeeps, LinkInKeeps, LocateKeeps,
     PushKeeps, CheckKeeps, DieKeeps DEF NextWrite
<1> QED BY <1>1, <1>2

LEMMA InitFolderKept == InitFolder => RecInv
<1> SUFFICES ASSUME InitFolder PROVE RecInv
  OBVIOUS
<1>1. PICK raw \in {{}} \cup {{f} : f \in Picks}, magic \in {{}, {Metadata, Link("desk", Desk)}} :
        slots = Folder(raw \cup magic)
  BY DEF InitFolder
<1>2. PICK es : es = raw \cup magic
  OBVIOUS
<1>3. \A d : IsLinked(es, d) => d = Desk
  <2>1. \A e \in raw : e.kind = "file"
    BY PicksAssumption
  <2>2. \A e \in magic : e.kind = "dir" => e.to = Desk
    BY DEF Metadata, Link
  <2> QED BY <1>2, <2>1, <2>2 DEF IsLinked, Links
<1>4. /\ \A p \in Phone : op[p].pc = "idle" /\ dmd[p] = Nothing
      /\ misses = 0 /\ lost = 0 /\ deaths = 0
  BY DEF InitFolder, Idle
<1>5. FaultsOK /\ Faults = 0
  BY <1>4 DEF FaultsOK, Faults
<1>6. \A i \in Shares : slots[Root][i].entries = es
  <2>1. \A i \in Shares : slots[Root][i] = [seq |-> 1, op |-> 0, entries |-> es]
    <3>1. slots = Folder(es)
      BY <1>1, <1>2
    <3> QED BY <3>1, DirFacts, RootAssumption DEF Folder
  <2> QED BY <2>1
<1>7. ASSUME NEW d, Reached(d) PROVE d \in {Root, Desk}
  BY <1>3, <1>4, <1>6, <1>7 DEF Reached
<1>8. ASSUME NEW d \in {Root, Desk} PROVE d \in Dir /\ Sound(d)
  <2>1. \E v : v # NoShare /\ \A i \in Shares : slots[d][i] = v
    <3>1. \A xs : [seq |-> 1, op |-> 0, entries |-> xs] # NoShare
      BY DEF NoShare
    <3> QED BY <1>1, <1>2, <1>8, <3>1 DEF Folder, Dir
  <2>2. Uniform(d)
    BY <2>1, DirFacts DEF Uniform
  <2> QED BY <1>5, <1>8, <2>2 DEF Sound, Dir
<1> QED BY <1>4, <1>5, <1>7, <1>8 DEF RecInv, Alone, Recoverable

\* The folder and every directory linked in it outlive a request that is not answered or an
\* app that dies, at any point of any operations one after the other, for any number of phones
\* and names: a version needs K shares, and of 2K - 1 a rewrite cut off anywhere leaves K old
\* or K new (lg_write.py _push_mutable, _rewrite_directory).
THEOREM FolderOutlivesAFault == ASSUME N = 2 * K - 1 PROVE DirectorySpec => []StaysRecoverable
<1>1. RecInv => StaysRecoverable
  <2> SUFFICES ASSUME RecInv, Quiescent, Faults <= 1, ~overlapped
               PROVE  Whole(Root) # {} /\ \A e \in Links(Stored(Root)) : Whole(e.to) # {}
    BY DEF StaysRecoverable
  <2>1. \A d : Reached(d) => Sound(d)
    BY DEF RecInv, Recoverable, Pushing, Quiescent
  <2>2. \A d : Reached(d) => Whole(d) # {}
    BY <2>1, UniformIsWhole DEF Sound
  <2>3. \A e \in Links(Stored(Root)) : \E i \in Shares : IsLinked(slots[Root][i].entries, e.to)
    BY DEF Links, Stored, Whole, IsLinked
  <2> QED BY <2>2, <2>3 DEF Reached
<1>2. SlotInv /\ RecInv /\ [NextWrite]_dirVars => (SlotInv /\ RecInv)'
  BY StepKeepsSlots, StepKeepsFolder
<1> QED BY <1>1, <1>2, InitSlots, InitFolderKept, PTL DEF DirectorySpec

(* ---- what was told of a file stays true ------------------------------------------- *)

\* No two versions are whole at once: each needs K of fewer than 2K shares.
LEMMA OneWhole ==
    ASSUME NEW d, NEW v \in Whole(d), NEW w \in Whole(d)
    PROVE  v = w
<1> SUFFICES ASSUME v # w PROVE FALSE
  OBVIOUS
<1> PICK A, B : A = {i \in Shares : slots[d][i] = v} /\ B = {i \in Shares : slots[d][i] = w}
  OBVIOUS
<1>1. A \in SUBSET Shares /\ B \in SUBSET Shares /\ A \cap B = {} /\ A \cup B \in SUBSET Shares
  OBVIOUS
<1>2. Cardinality(A) >= K /\ Cardinality(B) >= K
  BY DEF Whole
<1>3. /\ IsFiniteSet(A) /\ IsFiniteSet(B) /\ Cardinality(A) \in Nat /\ Cardinality(B) \in Nat
      /\ Cardinality(A \cup B) <= N
  BY <1>1, ShareCount, FS_Subset, FS_CardinalityType
<1>4. Cardinality(A \cup B) = Cardinality(A) + Cardinality(B) - Cardinality(A \cap B)
  BY <1>3, FS_Union
<1>5. Cardinality(A \cap B) = 0
  BY <1>1, FS_EmptySet
<1> QED BY <1>2, <1>3, <1>4, <1>5, SharesAssumption

LEMMA StoredIs ==
    ASSUME NEW d, NEW v \in Whole(d)
    PROVE  Stored(d) = v.entries
<1>1. Whole(d) = {v}
  BY OneWhole
<1> QED BY <1>1 DEF Stored

LEMMA StoredShare ==
    ASSUME NEW d, Whole(d) # {}
    PROVE  \E i \in Shares : slots[d][i] # NoShare /\ Stored(d) = slots[d][i].entries
<1>1. PICK v : v \in Whole(d)
  OBVIOUS
<1>2. \E i \in Shares : slots[d][i] = v /\ v # NoShare
  BY <1>1 DEF Whole
<1> QED BY <1>1, <1>2, StoredIs

LEMMA StoredUniform ==
    ASSUME NEW d, Uniform(d)
    PROVE  Whole(d) # {} /\ Stored(d) = slots[d][0].entries
<1>1. Whole(d) # {}
  BY UniformIsWhole
<1>2. \A i \in Shares : slots[d][i] = slots[d][0]
  BY DEF Uniform
<1> QED BY <1>1, <1>2, StoredShare

\* K placed shares are what is stored.
LEMMA StoredPlaced ==
    ASSUME NEW d, NEW v, v # NoShare, NEW P \in SUBSET Shares, Cardinality(P) >= K, \A i \in P : slots[d][i] = v
    PROVE  Whole(d) # {} /\ Stored(d) = v.entries
<1>1. PICK A : A = {i \in Shares : slots[d][i] = v}
  OBVIOUS
<1>2. A \in SUBSET Shares /\ P \in SUBSET A /\ IsFiniteSet(Shares)
  BY <1>1, ShareCount
<1>3. /\ IsFiniteSet(A) /\ IsFiniteSet(P) /\ Cardinality(P) <= Cardinality(A)
      /\ Cardinality(P) \in Nat /\ Cardinality(A) \in Nat
  BY <1>2, FS_Subset, FS_CardinalityType
<1>4. Cardinality(A) >= K
  BY <1>3, SharesAssumption
<1>5. P # {}
  BY FS_EmptySet, SharesAssumption
<1>6. v \in Whole(d)
  BY <1>1, <1>4, <1>5 DEF Whole
<1> QED BY <1>6, StoredIs

\* Of the three shares that are read, the first K are K if there are as many.
LEMMA FirstEnough ==
    ASSUME NEW S \in SUBSET Shares, NEW got, got = FirstOf(S, 3), ~(Cardinality(got) < K)
    PROVE  Cardinality(FirstOf(got, K)) >= K /\ FirstOf(got, K) \in SUBSET got
<1>1. /\ got \in SUBSET S /\ got \in SUBSET Shares /\ FirstOf(got, K) \in SUBSET got /\ K \in Nat \ {0}
      /\ N < 2 * K /\ N \in Nat
  BY SharesAssumption DEF FirstOf
<1>2. \A T \in SUBSET Shares : IsFiniteSet(T) /\ Cardinality(T) \in Nat
  BY ShareCount, FS_Subset, FS_CardinalityType
<1>3. CASE K >= 3
  <2>1. ASSUME NEW i \in got PROVE Cardinality({j \in got : j < i}) < K
    <3>1. PICK X, Y : X = {j \in got : j < i} /\ Y = {j \in S : j < i}
      OBVIOUS
    <3>2. X \in SUBSET Y /\ Y \in SUBSET Shares /\ X \in SUBSET Shares
      BY <1>1, <3>1
    <3>3. Cardinality(X) <= Cardinality(Y)
      BY <1>2, <3>2, FS_Subset
    <3>4. Cardinality(Y) < 3
      BY <2>1, <3>1 DEF FirstOf
    <3> QED BY <1>1, <1>2, <1>3, <3>1, <3>2, <3>3, <3>4
  <2>2. FirstOf(got, K) = got
    BY <2>1 DEF FirstOf
  <2> QED BY <1>1, <1>2, <2>2
<1>4. CASE K < 3
  <2>1. \A i \in Shares : i \in {0, 1, 2} /\ (K = 1 => i = 0)
    BY <1>1, <1>4 DEF Shares
  <2>2. got # {}
    BY <1>1, FS_EmptySet
  <2>3. \A i : Cardinality({j \in got : j < i}) \in Nat
    <3> TAKE i
    <3>1. {j \in got : j < i} \in SUBSET Shares
      BY <1>1
    <3> QED BY <1>2, <3>1
  <2>4. CASE K = 1
    <3>1. got = {0}
      BY <1>1, <2>1, <2>2, <2>4
    <3>2. {j \in got : j < 0} = {}
      BY <3>1
    <3>3. 0 \in FirstOf(got, K)
      <4>1. Cardinality({j \in got : j < 0}) = 0
        BY <3>2, FS_EmptySet
      <4>2. 0 \in got /\ 0 < 1
        BY <3>1
      <4> QED BY <2>4, <4>1, <4>2 DEF FirstOf
    <3>4. FirstOf(got, K) = {0}
      BY <1>1, <3>1, <3>3
    <3>5. Cardinality({0}) = 1
      BY FS_Singleton
    <3> QED BY <1>1, <2>4, <3>4, <3>5
  <2>5. CASE K = 2
    <3>1. ASSUME NEW a PROVE got # {a}
      <4>1. Cardinality({a}) = 1
        BY FS_Singleton
      <4> QED BY <2>5, <4>1
    <3>2. PICK a, b \in got : a < b /\ \A j \in got : j < b => j = a
      <4>1. CASE 0 \in got /\ 1 \in got
        BY <1>1, <2>1, <4>1
      <4>2. CASE 1 \notin got
        <5>1. 0 \in got /\ 2 \in got
          BY <1>1, <2>1, <2>2, <3>1, <4>2
        <5> QED BY <1>1, <2>1, <4>2, <5>1
      <4>3. CASE 0 \notin got
        <5>1. 1 \in got /\ 2 \in got
          BY <1>1, <2>1, <2>2, <3>1, <4>3
        <5> QED BY <1>1, <2>1, <4>3, <5>1
      <4> QED BY <4>1, <4>2, <4>3
    <3>3. a \in {0, 1, 2} /\ b \in {0, 1, 2} /\ a # b
      BY <1>1, <2>1, <3>2
    <3>4. {j \in got : j < b} = {a}
      BY <3>2
    <3>5. {j \in got : j < a} = {}
      <4>1. \A j \in got : j \in {0, 1, 2}
        BY <1>1, <2>1
      <4>2. ASSUME NEW j \in got, j < a PROVE FALSE
        <5>1. j \in {0, 1, 2} /\ j < b /\ j # a
          BY <3>2, <3>3, <4>1, <4>2
        <5> QED BY <3>2, <5>1
      <4> QED BY <4>2
    <3>6. Cardinality({a}) = 1 /\ Cardinality({}) = 0
      BY FS_EmptySet, FS_Singleton
    <3>7. a \in FirstOf(got, K) /\ b \in FirstOf(got, K)
      <4>1. Cardinality({j \in got : j < a}) = 0 /\ Cardinality({j \in got : j < b}) = 1
        BY <3>4, <3>5, <3>6
      <4> QED BY <2>5, <3>2, <4>1 DEF FirstOf
    <3>8. Cardinality({a} \cup {b}) = 2
      <4>1. IsFiniteSet({a}) /\ b \notin {a}
        BY <3>3, FS_Singleton
      <4> QED BY <3>6, <4>1, FS_AddElement
    <3>9. {a} \cup {b} \in SUBSET FirstOf(got, K) /\ FirstOf(got, K) \in SUBSET Shares
      BY <1>1, <3>7
    <3>10. Cardinality({a} \cup {b}) <= Cardinality(FirstOf(got, K)) /\ Cardinality(FirstOf(got, K)) \in Nat
      BY <1>2, <3>9, FS_Subset
    <3> QED BY <1>1, <2>5, <3>8, <3>10
  <2> QED BY <1>1, <1>4, <2>4, <2>5
<1> QED BY <1>1, <1>3, <1>4

\* What is read is what is stored, or it is empty.
LEMMA ReadWhole ==
    ASSUME NEW d, NEW R \in SUBSET Shares, NEW es, Read(d, R) = Good(es)
    PROVE  es = {} \/ (Whole(d) # {} /\ es = Stored(d))
<1> SUFFICES ASSUME es # {} PROVE Whole(d) # {} /\ es = Stored(d)
  OBVIOUS
<1>1. PICK S \in SUBSET Shares : S = {i \in R : slots[d][i] # NoShare}
  OBVIOUS
<1>2. PICK got : got = FirstOf(S, 3)
  OBVIOUS
<1>3. PICK last : last = slots[d][Max(got)]
  OBVIOUS
<1>4. Short # Good(es) /\ Garbage # Good(es)
  BY DEF Short, Garbage, Good
<1>5. /\ ~(Cardinality(got) < K)
      /\ last.entries = {} \/ \A i \in FirstOf(got, K) : slots[d][i] = last
      /\ Read(d, R) = Good(last.entries)
  BY <1>1, <1>2, <1>3, <1>4 DEF Read
<1>6. es = last.entries
  BY <1>5 DEF Good
<1>7. PICK F : F = FirstOf(got, K)
  OBVIOUS
<1>8. Cardinality(F) >= K /\ F \in SUBSET got /\ got \in SUBSET S
  <2>1. got \in SUBSET S
    BY <1>2 DEF FirstOf
  <2> QED BY <1>2, <1>5, <1>7, <2>1, FirstEnough
<1>9. F # {}
  BY <1>8, FS_EmptySet, SharesAssumption
<1>10. last # NoShare /\ F \in SUBSET Shares /\ \A i \in F : slots[d][i] = last
  BY <1>1, <1>5, <1>6, <1>7, <1>8, <1>9
<1>11. Whole(d) # {}
  BY <1>8, <1>10, WholeIf DEF Whole
<1> QED BY <1>6, <1>8, <1>10, <1>11, StoredPlaced

LEMMA ReadUniform ==
    ASSUME NEW d, Uniform(d), NEW R \in SUBSET Shares
    PROVE  Read(d, R) \in {Short, Good(slots[d][0].entries)}
<1>1. PICK S \in SUBSET Shares : S = {i \in R : slots[d][i] # NoShare}
  OBVIOUS
<1>2. PICK got : got = FirstOf(S, 3)
  OBVIOUS
<1>3. \A i \in Shares : slots[d][i] = slots[d][0]
  BY DEF Uniform
<1>4. got \in SUBSET Shares /\ FirstOf(got, K) \in SUBSET Shares
  BY <1>2 DEF FirstOf
<1>5. ASSUME ~(Cardinality(got) < K) PROVE Read(d, R) = Good(slots[d][0].entries)
  <2>1. got # {}
    BY <1>5, FS_EmptySet, SharesAssumption
  <2>2. Max(got) \in Shares
    BY <1>2, <1>4, <2>1, LastRead
  <2>3. slots[d][Max(got)] = slots[d][0] /\ \A i \in FirstOf(got, K) : slots[d][i] = slots[d][0]
    BY <1>3, <1>4, <2>2
  <2> QED BY <1>1, <1>2, <1>5, <2>3 DEF Read
<1>6. Cardinality(got) < K => Read(d, R) = Short
  BY <1>1, <1>2 DEF Read
<1> QED BY <1>5, <1>6

\* What the last operation on n was told is true of the rows xs.
HoldsIn(n, xs) ==
    /\ kept[n] = Gone => \A r \in xs : r.name # n
    /\ kept[n] \notin {Nothing, Gone} => [name |-> n, to |-> kept[n]] \in xs

\* A folder is a Magic Folder collective ("magic") or not ("plain"), and stays what it is.
\* In one, the desktop's rows are always there and those of the root never are.
Mode == {"plain", "magic"}
DeskRows(m) == IF m = "magic" THEN FilesIn(DeskFiles) ELSE {}
Keeps(m, es) == \A n \in FileName : HoldsIn(n, FilesIn(es) \cup DeskRows(m))

\* A torn directory may read as empty although it is not: then nothing was told of its names.
KeptIn(m, d) == Keeps(m, Stored(d)) /\ (Read(d, Shares) = Good({}) => Keeps(m, {}))
AllKeep(m, d) == \A i \in Shares : slots[d][i] # NoShare => Keeps(m, slots[d][i].entries)

\* A collective before and after a phone has joined it
Bare(es) == /\ {Metadata, Link("desk", Desk)} \subseteq es
            /\ \A e \in es : e \in {Metadata, Link("desk", Desk)} \/ (e.kind = "file" /\ e.name \in FileName)
Joined(d) == {Metadata, Link("desk", Desk), Link("phone", d)}
Shape(m, es) == IF m = "magic" THEN Bare(es) \/ \E d \in Fresh : es = Joined(d)
                ELSE \A e \in es : e.kind = "file"

\* Where the phones' own files are
Homes(m) == IF m = "magic" THEN {d \in Fresh : Stored(Root) = Joined(d)} ELSE {Root}
Member(m, d) == m = "magic" /\ Stored(Root) = Joined(d)

\* What a rewrite stores keeps what was told.
RootWrite(m, o) ==
    /\ \A q \in Phone : dmd[q] = Nothing
    /\ IF m = "magic"
       THEN /\ Keeps(m, {})
            /\ \/ o.why = "drop" /\ o.own = Nothing /\ Bare(o.entries)
               \/ o.why = "link" /\ o.own \in Fresh /\ o.entries = Joined(o.own) /\ KeptIn(m, o.own)
       ELSE o.own = Nothing /\ Shape(m, o.entries) /\ Keeps(m, o.entries)
OwnWrite(m, o) ==
    /\ m = "magic" /\ o.dir = o.own /\ o.own \in Fresh /\ o.why \in {"inner", "dropinner"} /\ Keeps(m, o.entries)
    /\ Member(m, o.own) \/ (o.why = "inner" /\ Publishing(o) /\ Bare(Stored(Root)) /\ Keeps(m, {}))
Writing(m, o) ==
    /\ o.kind # "put" <=> o.why \in {"drop", "dropinner"}
    /\ o.kind # "put" => \A e \in o.entries : e.name # o.name
    /\ IF o.dir = Root THEN RootWrite(m, o) ELSE OwnWrite(m, o)

\* The shares a rewrite finds: as it located them if the one fault came before it, or
\* else none that would tell otherwise.
Undisturbed(o) == \A i \in Shares : AsMeant(o, i)
RootOlder(o) == \A i \in Shares : Bare(slots[Root][i].entries) \/ slots[Root][i].entries = o.entries
Older(m, o) == IF m = "magic" /\ o.dir = Root THEN RootOlder(o) ELSE AllKeep(m, o.dir)

Standing(m, o) ==
    /\ o.name \in FileName /\ kept[o.name] = Nothing /\ (o.kind = "put" => o.content \in FileContent)
    /\ o.pc = "look" => o.kind = "put"
    /\ o.pc \in {"look", "load", "inner"} => ~o.done
    /\ o.pc \in {"look", "load", "inner", "check"} => o.own = Nothing \/ Member(m, o.own)
    /\ o.pc = "link" => /\ m = "magic" /\ o.kind = "put" /\ KeptIn(m, o.own)
                        /\ Bare(Stored(Root)) \/ Member(m, o.own)
    /\ o.pc = "check" /\ o.kind # "put" => \A d \in Homes(m) : \A e \in Stored(d) : e.name # o.name
    /\ o.pc \in {"locate", "push"} => Writing(m, o)
    /\ o.pc = "locate" /\ m = "magic" /\ o.dir = Root => Bare(Stored(Root))
OpTold(m, o) ==
    Standing(m, o) /\ (o.pc = "push" => (Faults = 1 /\ Undisturbed(o)) \/ Older(m, o))

Told(m) ==
    /\ kept \in [FileName -> FileContent \cup {Nothing, Gone}]
    /\ \A i \in Shares : slots[Desk][i] = [seq |-> 1, op |-> 0, entries |-> DeskFiles]
    /\ \A i \in Shares : slots[Root][i] # NoShare /\ Shape(m, slots[Root][i].entries)
    /\ \A q \in Phone : dmd[q] # Nothing => Member(m, dmd[q])
    /\ Pushing(Root) = {} => /\ Homes(m) = {} => Keeps(m, {})
                             /\ \A d \in Homes(m) : Pushing(d) = {} => KeptIn(m, d)
    /\ \A p \in Phone : \A o \in {op[p]} : o.pc # "idle" => OpTold(m, o)

ToldInv(m) == ~overlapped /\ Faults <= 1 => Told(m)
KeptInv == \E m \in Mode : ToldInv(m)

----------------------------------------------------------------------------

\* A row is kept by what is done to another name.
LEMMA PutKept ==
    ASSUME NEW m, NEW es, NEW n, NEW c, kept[n] = Nothing, Keeps(m, es)
    PROVE  Keeps(m, Upsert(es, File(n, c)))
<1> SUFFICES ASSUME NEW x \in FileName PROVE HoldsIn(x, FilesIn(Upsert(es, File(n, c))) \cup DeskRows(m))
  BY DEF Keeps
<1>1. HoldsIn(x, FilesIn(es) \cup DeskRows(m))
  BY DEF Keeps
<1>2. ASSUME kept[x] = Gone, NEW r \in FilesIn(Upsert(es, File(n, c))) PROVE r.name # x
  <2>1. PICK e \in Upsert(es, File(n, c)) : e.kind = "file" /\ r = [name |-> e.name, to |-> e.to]
    BY DEF FilesIn
  <2>2. CASE e \in es
    <3>1. r \in FilesIn(es)
      BY <2>1, <2>2 DEF FilesIn
    <3> QED BY <1>1, <1>2, <3>1 DEF HoldsIn
  <2>3. CASE e = File(n, c)
    <3>1. r.name = n
      BY <2>1, <2>3 DEF File
    <3> QED BY <1>2, <3>1, ToldAssumption
  <2> QED BY <2>1, <2>2, <2>3 DEF Upsert
<1>3. ASSUME kept[x] \notin {Nothing, Gone}, [name |-> x, to |-> kept[x]] \in FilesIn(es)
      PROVE  [name |-> x, to |-> kept[x]] \in FilesIn(Upsert(es, File(n, c)))
  <2>1. PICK e \in es : e.kind = "file" /\ [name |-> x, to |-> kept[x]] = [name |-> e.name, to |-> e.to]
    BY <1>3 DEF FilesIn
  <2>2. e.name = x /\ x # n
    BY <1>3, <2>1
  <2>3. e \in Upsert(es, File(n, c))
    BY <2>1, <2>2 DEF Upsert, File
  <2> QED BY <2>1, <2>3 DEF FilesIn
<1> QED BY <1>1, <1>2, <1>3 DEF HoldsIn

LEMMA DropKept ==
    ASSUME NEW m, NEW es, NEW n, kept[n] = Nothing, Keeps(m, es)
    PROVE  Keeps(m, Drop(es, n))
<1> SUFFICES ASSUME NEW x \in FileName PROVE HoldsIn(x, FilesIn(Drop(es, n)) \cup DeskRows(m))
  BY DEF Keeps
<1>1. HoldsIn(x, FilesIn(es) \cup DeskRows(m))
  BY DEF Keeps
<1>2. FilesIn(Drop(es, n)) \subseteq FilesIn(es)
  BY DEF FilesIn, Drop
<1>3. ASSUME kept[x] \notin {Nothing, Gone}, [name |-> x, to |-> kept[x]] \in FilesIn(es)
      PROVE  [name |-> x, to |-> kept[x]] \in FilesIn(Drop(es, n))
  <2>1. PICK e \in es : e.kind = "file" /\ [name |-> x, to |-> kept[x]] = [name |-> e.name, to |-> e.to]
    BY <1>3 DEF FilesIn
  <2>2. e.name = x /\ x # n
    BY <1>3, <2>1
  <2>3. e \in Drop(es, n)
    BY <2>1, <2>2 DEF Drop
  <2> QED BY <2>1, <2>3 DEF FilesIn
<1> QED BY <1>1, <1>2, <1>3 DEF HoldsIn

LEMMA LoneKept ==
    ASSUME NEW m, NEW n, NEW c, kept[n] = Nothing, Keeps(m, {})
    PROVE  Keeps(m, {Snapshot(n, c)})
<1>1. {Snapshot(n, c)} = Upsert({}, File(n, c))
  BY DEF Snapshot, Upsert
<1> QED BY <1>1, PutKept

\* The end of an operation tells of its name, the begin of one forgets what was told.
LEMMA ToldKept ==
    ASSUME NEW m, NEW es, NEW n, NEW c, kept \in [FileName -> FileContent \cup {Nothing, Gone}],
           kept' = [kept EXCEPT ![n] = c], Keeps(m, es),
           c = Gone => \A r \in FilesIn(es) \cup DeskRows(m) : r.name # n,
           c \notin {Nothing, Gone} => [name |-> n, to |-> c] \in FilesIn(es) \cup DeskRows(m)
    PROVE  Keeps(m, es)'
<1>1. FilesIn(es)' = FilesIn(es) /\ DeskRows(m)' = DeskRows(m)
  BY DEF FilesIn, DeskRows
<1>2. ASSUME NEW x \in FileName PROVE HoldsIn(x, FilesIn(es) \cup DeskRows(m))'
  <2>1. HoldsIn(x, FilesIn(es) \cup DeskRows(m))
    BY DEF Keeps
  <2>2. CASE x = n
    <3>1. kept'[x] = c
      BY <2>2
    <3> QED BY <1>1, <2>2, <3>1 DEF HoldsIn
  <2>3. CASE x # n
    <3>1. kept'[x] = kept[x]
      BY <2>3
    <3> QED BY <1>1, <2>1, <3>1 DEF HoldsIn
  <2> QED BY <2>2, <2>3
<1> QED BY <1>2 DEF Keeps

LEMMA SameKept ==
    ASSUME kept' = kept, NEW m, NEW es
    PROVE  Keeps(m, es)' <=> Keeps(m, es)
<1>1. FilesIn(es)' = FilesIn(es) /\ DeskRows(m)' = DeskRows(m)
  BY DEF FilesIn, DeskRows
<1>2. \A x : HoldsIn(x, FilesIn(es) \cup DeskRows(m))' <=> HoldsIn(x, FilesIn(es) \cup DeskRows(m))
  BY <1>1 DEF HoldsIn
<1> QED BY <1>2 DEF Keeps

----------------------------------------------------------------------------

\* The root of a collective: its links, what is not a file in it, and which names it has
LEMMA BareFacts ==
    ASSUME NEW es, Bare(es)
    PROVE  /\ Links(es) = {Link("desk", Desk)} /\ IsCollective(es) /\ es # {}
           /\ WithoutRootFiles(es) = {Metadata, Link("desk", Desk)}
           /\ Writable(es) = {} /\ \A d \in Fresh : es # Joined(d) /\ ~IsLinked(es, d)
           /\ \A n \in FileName : Bare(Drop(es, n))
<1> USE DEF Link, Metadata
<1>1. Links(es) = {Link("desk", Desk)}
  BY DEF Bare, Links
<1>2. IsCollective(es) /\ es # {}
  BY <1>1 DEF Bare, IsCollective
<1>3. WithoutRootFiles(es) = {Metadata, Link("desk", Desk)}
  BY DEF Bare, WithoutRootFiles
<1>4. Writable(es) = {} /\ \A d \in Fresh : ~IsLinked(es, d)
  BY <1>1, RootAssumption DEF Writable, IsLinked
<1>5. ASSUME NEW d \in Fresh PROVE es # Joined(d)
  <2>1. Link("phone", d) \in Joined(d) /\ Link("phone", d).kind = "dir" /\ Link("phone", d).to = d
    BY DEF Joined
  <2> QED BY <1>4, <2>1 DEF IsLinked, Links
<1>6. ASSUME NEW n \in FileName PROVE Bare(Drop(es, n))
  <2>1. n # "desk" /\ n # "@metadata"
    BY NamesAssumption DEF LinkNames
  <2> QED BY <2>1 DEF Bare, Drop
<1> QED BY <1>1, <1>2, <1>3, <1>4, <1>5, <1>6

LEMMA JoinedFacts ==
    ASSUME NEW d \in Fresh
    PROVE  /\ Links(Joined(d)) = {Link("desk", Desk), Link("phone", d)} /\ IsCollective(Joined(d))
           /\ Joined(d) # {} /\ WithoutRootFiles(Joined(d)) = Joined(d)
           /\ Writable(Joined(d)) = {d} /\ IsLinked(Joined(d), d)
           /\ \A n \in FileName : \A e \in Joined(d) : e.name # n
           /\ \A e \in Fresh : Joined(d) = Joined(e) => d = e
<1> USE DEF Link, Metadata
<1>1. Links(Joined(d)) = {Link("desk", Desk), Link("phone", d)}
  BY DEF Joined, Links
<1>2. IsCollective(Joined(d)) /\ Joined(d) # {}
  BY <1>1 DEF Joined, IsCollective
<1>3. WithoutRootFiles(Joined(d)) = Joined(d)
  BY DEF Joined, WithoutRootFiles
<1>4. Writable(Joined(d)) = {d} /\ IsLinked(Joined(d), d)
  BY <1>1, RootAssumption DEF Writable, IsLinked
<1>5. \A n \in FileName : \A e \in Joined(d) : e.name # n
  BY NamesAssumption DEF LinkNames, Joined
<1>6. ASSUME NEW e \in Fresh, Joined(d) = Joined(e) PROVE d = e
  <2>1. Link("phone", d) \in Joined(e)
    BY <1>6 DEF Joined
  <2>2. Link("phone", d) = Link("phone", e)
    BY <2>1 DEF Joined
  <2> QED BY <2>2
<1> QED BY <1>1, <1>2, <1>3, <1>4, <1>5, <1>6

\* The first phone that joins is "phone".
LEMMA JoinsAs ==
    ASSUME NEW d
    PROVE  LET clean == {Metadata, Link("desk", Desk)}
           IN Upsert(clean, Link(PhoneDmdName(clean), d)) = Joined(d)
<1> PICK clean : clean = {Metadata, Link("desk", Desk)}
  OBVIOUS
<1>1. {e.name : e \in clean} = {"@metadata", "desk"}
  BY DEF Metadata, Link
<1>2. PhoneDmdName(clean) = "phone"
  BY <1>1 DEF PhoneDmdName, LinkNames
<1>3. Upsert(clean, Link("phone", d)) = Joined(d)
  BY DEF Upsert, Joined, Metadata, Link
<1> QED BY <1>2, <1>3

LEMMA PlainFacts ==
    ASSUME NEW es, Shape("plain", es), NEW n, NEW c
    PROVE  /\ Links(es) = {} /\ ~IsCollective(es)
           /\ Shape("plain", Upsert(es, File(n, c))) /\ Shape("plain", Drop(es, n))
BY DEF Shape, Links, IsCollective, Upsert, File, Drop

----------------------------------------------------------------------------

\* A step of phone p between two shares, of operations that do not overlap
Telling(m, p) == /\ SlotInv /\ RecInv /\ Told(m) /\ ~overlapped /\ Faults <= 1
                 /\ op[p].pc \notin {"idle", "push"} /\ Around(p) /\ Faults' <= 1

LEMMA TellingFacts ==
    ASSUME NEW m, NEW p \in Phone, Telling(m, p)
    PROVE  /\ \A q \in Phone \ {p} : op[q].pc = "idle"
           /\ \A d : Pushing(d) = {}
           /\ \A d : Reached(d) => d \in Dir /\ Sound(d) /\ Whole(d) # {}
           /\ Homes(m) = {} => Keeps(m, {})
           /\ \A d \in Homes(m) : KeptIn(m, d)
           /\ OpTold(m, op[p]) /\ WriterOK(op[p])
           /\ op[p].own # Nothing => Reached(op[p].own)
<1>1. \A q \in Phone \ {p} : op[q].pc = "idle"
  BY OthersIdle DEF Telling
<1>2. \A d : Pushing(d) = {}
  BY <1>1 DEF Telling, Pushing
<1>3. \A d : Reached(d) => d \in Dir /\ Sound(d) /\ Whole(d) # {}
  <2>1. Recoverable
    BY DEF Telling, RecInv
  <2> QED BY <1>2, <2>1, UniformIsWhole DEF Recoverable, Sound
<1>4. /\ Homes(m) = {} => Keeps(m, {})
      /\ \A d \in Homes(m) : KeptIn(m, d)
  BY <1>2 DEF Telling, Told
<1>5. OpTold(m, op[p]) /\ WriterOK(op[p])
  BY DEF Telling, Told, SlotInv, WritersOK
<1>6. op[p].own # Nothing => Reached(op[p].own)
  BY DEF Telling, Reached, Publishing
<1> QED BY <1>1, <1>2, <1>3, <1>4, <1>5, <1>6

\* After a fault no other request goes unanswered.
LEMMA MissedNone ==
    ASSUME FaultsOK, NEW R \in SUBSET Shares, Missed(R), UNCHANGED <<lost, deaths>>, Faults # 0, Faults' <= 1
    PROVE  R = Shares
<1>1. /\ Cardinality(Shares) = N /\ N \in Nat /\ Cardinality(R) \in Nat /\ Cardinality(R) <= N
      /\ Cardinality(R) = N => R = Shares
  BY ShareCount, FS_Subset, FS_CardinalityType, SharesAssumption
<1>2. PICK c \in Nat : c = Cardinality(R)
  BY <1>1
<1>3. misses \in Nat /\ lost \in Nat /\ deaths \in Nat /\ misses' = misses + N - c
      /\ lost' = lost /\ deaths' = deaths
  BY <1>2 DEF FaultsOK, Missed
<1>4. Faults = misses + lost + deaths /\ Faults' = misses' + lost' + deaths'
  BY DEF Faults
<1>5. Faults \in Nat /\ Faults' = Faults + (N - c)
  BY <1>1, <1>3, <1>4
<1>6. c = N
  BY <1>1, <1>2, <1>5
<1> QED BY <1>1, <1>2, <1>6

\* A read that misses no server but for the first fault gives what is stored, or the
\* nothing that a torn directory reads as.
LEMMA ReadHere ==
    ASSUME NEW m, NEW p \in Phone, Telling(m, p), UNCHANGED <<lost, deaths>>, NEW R \in SUBSET Shares,
           Missed(R), NEW d, Reached(d), NEW es, Read(d, R) = Good(es)
    PROVE  /\ es = Stored(d) \/ (es = {} /\ Read(d, Shares) = Good({}))
           /\ Read(d, Shares) \in {Short, Good(es)}
<1>1. FaultsOK /\ Faults' <= 1
  BY DEF Telling, RecInv
<1>2. Sound(d)
  BY TellingFacts
<1>3. \A a, b : Good(a) = Good(b) => a = b
  BY DEF Good
<1>4. Short # Good(es)
  BY DEF Short, Good
<1>5. CASE Faults = 0
  <2>1. Uniform(d)
    BY <1>2, <1>5 DEF Sound
  <2>2. es = slots[d][0].entries /\ Stored(d) = slots[d][0].entries
    BY <1>3, <1>4, <2>1, ReadUniform, StoredUniform
  <2>3. Read(d, Shares) \in {Short, Good(slots[d][0].entries)}
    BY <2>1, ReadUniform
  <2> QED BY <2>2, <2>3
<1>6. CASE Faults # 0
  <2>1. R = Shares
    BY <1>1, <1>6, MissedNone
  <2> QED BY <2>1, ReadWhole
<1> QED BY <1>5, <1>6

LEMMA ReadKept ==
    ASSUME NEW m, NEW p \in Phone, Telling(m, p), UNCHANGED <<lost, deaths>>, NEW R \in SUBSET Shares,
           Missed(R), NEW d \in Homes(m), Reached(d), NEW es, Read(d, R) = Good(es)
    PROVE  Keeps(m, es)
<1>1. KeptIn(m, d)
  BY TellingFacts
<1>2. es = Stored(d) \/ (es = {} /\ Read(d, Shares) = Good({}))
  BY ReadHere
<1> QED BY <1>1, <1>2 DEF KeptIn

LEMMA ReadGood ==
    ASSUME NEW d, NEW R
    PROVE  Read(d, R) \in {Short, Garbage} \/ Read(d, R) = Good(Read(d, R).es)
<1>1. \A es : Good(es).es = es
  BY DEF Good
<1>2. PICK r : r = Read(d, R)
  OBVIOUS
<1>3. r = Short \/ r = Garbage \/ \E es : r = Good(es)
  BY <1>2 DEF Read
<1> QED BY <1>1, <1>2, <1>3

\* What is stored of the root
LEMMA RootStored ==
    ASSUME NEW m, Told(m), Whole(Root) # {}
    PROVE  Shape(m, Stored(Root)) /\ \A d : IsLinked(Stored(Root), d) => Reached(d)
<1>1. PICK i \in Shares : slots[Root][i] # NoShare /\ Stored(Root) = slots[Root][i].entries
  BY StoredShare
<1> QED BY <1>1 DEF Told, Reached

LEMMA HomeReached ==
    ASSUME NEW m, Told(m), Whole(Root) # {}, NEW d \in Homes(m)
    PROVE  Reached(d)
<1>1. CASE d = Root
  BY <1>1 DEF Reached
<1>2. CASE d # Root
  BY <1>2, RootStored, JoinedFacts DEF Homes
<1> QED BY <1>1, <1>2

\* The root as it is read: a collective is read as it is stored.
LEMMA RootRead ==
    ASSUME NEW m \in Mode, NEW p \in Phone, Telling(m, p), UNCHANGED <<lost, deaths>>,
           NEW R \in SUBSET Shares, Missed(R), NEW es, Read(Root, R) = Good(es)
    PROVE  Shape(m, es) /\ (m = "magic" => es = Stored(Root)) /\ (m = "plain" => Keeps(m, es))
<1>1. Reached(Root)
  BY DEF Reached
<1>2. Shape(m, es)
  <2>1. Read(Root, R).es = es /\ Read(Root, R) \notin {Short, Garbage}
    BY DEF Good, Short, Garbage
  <2>2. \E i \in Shares : es = slots[Root][i].entries
    BY <2>1, ReadShare
  <2> QED BY <2>2 DEF Telling, Told
<1>3. ASSUME m = "magic" PROVE es = Stored(Root)
  <2>1. es # {}
    BY <1>2, <1>3, BareFacts, JoinedFacts DEF Shape
  <2> QED BY <1>1, <2>1, ReadHere
<1>4. m = "plain" => Keeps(m, es)
  BY <1>1, ReadKept DEF Homes
<1> QED BY <1>2, <1>3, <1>4

----------------------------------------------------------------------------

\* What list_folder_view shows
LEMMA ViewPlain ==
    ASSUME NEW R \in SUBSET Shares, View(R) \notin {Short, Garbage},
           \A i \in Shares : Shape("plain", slots[Root][i].entries)
    PROVE  \E es : Read(Root, R) = Good(es) /\ View(R) = Good(FilesIn(es))
<1>1. Read(Root, R) \notin {Short, Garbage}
  BY DEF View
<1>2. PICK es : es = Read(Root, R).es
  OBVIOUS
<1>3. Read(Root, R) = Good(es)
  BY <1>1, <1>2, ReadGood
<1>4. Shape("plain", es)
  BY <1>1, <1>2, ReadShare
<1>5. ~IsCollective(es)
  BY <1>4, PlainFacts
<1> QED BY <1>1, <1>2, <1>3, <1>5 DEF View

LEMMA ViewMagic ==
    ASSUME NEW R \in SUBSET Shares, View(R) \notin {Short, Garbage},
           \A i \in Shares : Shape("magic", slots[Root][i].entries)
    PROVE  \E es : /\ Read(Root, R) = Good(es) /\ Shape("magic", es)
                   /\ \A e \in Links(es) : Read(e.to, R) # Garbage
                   /\ View(R) = Good(UNION {ParticipantFiles(Read(e.to, R)) : e \in Links(es)})
<1>1. Read(Root, R) \notin {Short, Garbage}
  BY DEF View
<1>2. PICK es : es = Read(Root, R).es
  OBVIOUS
<1>3. Read(Root, R) = Good(es)
  BY <1>1, <1>2, ReadGood
<1>4. Shape("magic", es)
  BY <1>1, <1>2, ReadShare
<1>5. IsCollective(es)
  BY <1>4, BareFacts, JoinedFacts DEF Shape
<1>6. PICK inner : inner = {Read(e.to, R) : e \in Links(es)}
  OBVIOUS
<1>7. Garbage \notin inner /\ View(R) = Good(UNION {ParticipantFiles(x) : x \in inner})
  BY <1>1, <1>2, <1>5, <1>6 DEF View
<1>8. UNION {ParticipantFiles(x) : x \in inner} = UNION {ParticipantFiles(Read(e.to, R)) : e \in Links(es)}
  BY <1>6
<1> QED BY <1>3, <1>4, <1>6, <1>7, <1>8

\* Whether a read falls short is the same of all directories that have all their shares.
LEMMA ShortAlike ==
    ASSUME NEW a, NEW b, NEW R \in SUBSET Shares, Read(a, R) # Short,
           \A i \in R : slots[a][i] # NoShare /\ slots[b][i] # NoShare
    PROVE  Read(b, R) # Short
<1>1. {i \in R : slots[a][i] # NoShare} = R /\ {i \in R : slots[b][i] # NoShare} = R
  OBVIOUS
<1>2. ~(Cardinality(FirstOf(R, 3)) < K)
  BY <1>1 DEF Read
<1>3. Read(b, R) = Garbage \/ \E es : Read(b, R) = Good(es)
  BY <1>1, <1>2 DEF Read
<1> QED BY <1>3 DEF Short, Garbage, Good

\* The desktop's directory is as it was made.
LEMMA DeskRead ==
    ASSUME NEW m, Told(m), NEW R \in SUBSET Shares
    PROVE  /\ Stored(Desk) = DeskFiles
           /\ Read(Desk, R) \in {Short, Good(DeskFiles)}
           /\ Read(Root, R) # Short => Read(Desk, R) = Good(DeskFiles)
<1>1. \A i \in Shares : slots[Desk][i] = [seq |-> 1, op |-> 0, entries |-> DeskFiles]
  BY DEF Told
<1>2. [seq |-> 1, op |-> 0, entries |-> DeskFiles] # NoShare
  BY DEF NoShare
<1>3. Uniform(Desk)
  BY <1>1, <1>2, DirFacts DEF Uniform
<1>4. slots[Desk][0].entries = DeskFiles
  BY <1>1, DirFacts
<1>5. Stored(Desk) = DeskFiles /\ Read(Desk, R) \in {Short, Good(DeskFiles)}
  BY <1>3, <1>4, StoredUniform, ReadUniform
<1>6. \A i \in R : slots[Root][i] # NoShare /\ slots[Desk][i] # NoShare
  BY <1>1, <1>2 DEF Told
<1>7. Read(Root, R) # Short => Read(Desk, R) # Short
  BY <1>6, ShortAlike
<1> QED BY <1>5, <1>7

\* The bytes that are listed are stored where they are kept.
LEMMA SeenIsStored ==
    ASSUME NEW m \in Mode, NEW p \in Phone, Telling(m, p), UNCHANGED <<lost, deaths>>,
           NEW R \in SUBSET Shares, Missed(R), View(R) \notin {Short, Garbage}, NEW r \in View(R).es
    PROVE  \/ r \in DeskRows(m)
           \/ \E d \in Homes(m) : /\ \A e \in Homes(m) : e = d
                                  /\ r \in FilesIn(Stored(d)) /\ Read(d, Shares) # Good({})
<1>1. Told(m) /\ Whole(Root) # {} /\ Reached(Root)
  <2>1. Reached(Root)
    BY DEF Reached
  <2> QED BY <2>1, TellingFacts DEF Telling
<1>2. \A a, b : (Good(a) = Good(b) => a = b) /\ Good(a) # Short /\ Good(a).es = a
  BY DEF Good, Short
<1>3. ASSUME NEW d \in Homes(m), NEW es, Read(d, R) = Good(es), r \in FilesIn(es)
      PROVE  r \in FilesIn(Stored(d)) /\ Read(d, Shares) # Good({})
  <2>1. es # {}
    BY <1>3 DEF FilesIn
  <2>2. Reached(d)
    BY <1>1, HomeReached
  <2>3. es = Stored(d) /\ Read(d, Shares) \in {Short, Good(es)}
    BY <1>3, <2>1, <2>2, ReadHere
  <2> QED BY <1>2, <1>3, <2>1, <2>3
<1>4. CASE m = "plain"
  <2>1. PICK es : Read(Root, R) = Good(es) /\ View(R) = Good(FilesIn(es))
    BY <1>1, <1>4, ViewPlain DEF Told
  <2>2. r \in FilesIn(es) /\ Homes(m) = {Root}
    BY <1>2, <1>4, <2>1 DEF Homes
  <2> QED BY <1>3, <2>1, <2>2
<1>5. CASE m = "magic"
  <2>1. PICK es : /\ Read(Root, R) = Good(es) /\ Shape("magic", es)
                  /\ View(R) = Good(UNION {ParticipantFiles(Read(e.to, R)) : e \in Links(es)})
    BY <1>1, <1>5, ViewMagic DEF Told
  <2>2. PICK e \in Links(es) : r \in ParticipantFiles(Read(e.to, R))
    BY <1>2, <2>1
  <2>3. es = Stored(Root)
    <3>1. Read(Root, R) = Good(es)
      BY <2>1
    <3>2. m = "magic" => es = Stored(Root)
      BY <3>1, RootRead
    <3> QED BY <1>5, <3>2
  <2>4. ParticipantFiles(Short) = {} /\ \A xs : ParticipantFiles(Good(xs)) = FilesIn(xs)
    BY <1>2 DEF ParticipantFiles
  <2>5. CASE e.to = Desk
    <3>1. Read(Desk, R) \in {Short, Good(DeskFiles)}
      BY <1>1, DeskRead
    <3>2. r \in FilesIn(DeskFiles)
      BY <2>2, <2>4, <2>5, <3>1
    <3> QED BY <1>5, <3>2 DEF DeskRows
  <2>6. CASE e.to # Desk
    <3>1. PICK d \in Fresh : es = Joined(d) /\ e.to = d
      <4>1. ~Bare(es)
        BY <2>2, <2>6, BareFacts DEF Link
      <4>2. PICK d \in Fresh : es = Joined(d)
        BY <2>1, <4>1 DEF Shape
      <4>3. e.to = d
        BY <2>2, <2>6, <4>2, JoinedFacts DEF Link
      <4> QED BY <4>2, <4>3
    <3>2. d \in Homes(m) /\ \A x \in Homes(m) : x = d
      BY <1>5, <2>3, <3>1, JoinedFacts DEF Homes
    <3>3. PICK xs : xs = Read(d, R).es
      OBVIOUS
    <3>4. Read(d, R) # Garbage
      BY <1>1, <1>5, <2>1, <2>2, <3>1, ViewMagic, <1>2 DEF Told
    <3>5. Read(d, R) = Good(xs)
      BY <2>2, <2>4, <3>1, <3>3, <3>4, ReadGood
    <3> QED BY <1>3, <2>2, <2>4, <3>1, <3>2, <3>5
  <2> QED BY <2>5, <2>6
<1> QED BY <1>4, <1>5 DEF Mode

\* A name that is not listed is none of the desktop's.
LEMMA GoneFromDesk ==
    ASSUME NEW m \in Mode, Told(m), NEW R \in SUBSET Shares, View(R) \notin {Short, Garbage}, NEW r \in DeskRows(m)
    PROVE  r \in View(R).es
<1>1. m = "magic" /\ r \in FilesIn(DeskFiles)
  BY DEF DeskRows
<1>2. PICK es : /\ Read(Root, R) = Good(es) /\ Shape("magic", es)
                /\ View(R) = Good(UNION {ParticipantFiles(Read(e.to, R)) : e \in Links(es)})
  BY <1>1, ViewMagic DEF Told
<1>3. Link("desk", Desk) \in Links(es) /\ Link("desk", Desk).to = Desk
  BY <1>2, BareFacts, JoinedFacts DEF Shape, Link
<1>4. Read(Desk, R) = Good(DeskFiles)
  BY <1>2, DeskRead DEF Good, Short
<1>5. ParticipantFiles(Good(DeskFiles)) = FilesIn(DeskFiles)
  BY DEF ParticipantFiles, Good, Short
<1>6. r \in UNION {ParticipantFiles(Read(e.to, R)) : e \in Links(es)}
  BY <1>1, <1>3, <1>4, <1>5
<1> QED BY <1>2, <1>6 DEF Good

----------------------------------------------------------------------------

\* What no step writes says what it said.
LEMMA SameSlots ==
    ASSUME slots' = slots
    PROVE  /\ \A d : Stored(d)' = Stored(d) /\ Whole(d)' = Whole(d) /\ Read(d, Shares)' = Read(d, Shares)
           /\ \A m : Homes(m)' = Homes(m)
           /\ \A m, d : Member(m, d)' <=> Member(m, d)
           /\ \A o : Undisturbed(o)' <=> Undisturbed(o)
<1>1. Shares' = Shares
  BY DEF Shares
<1>2. \A d : Whole(d)' = Whole(d)
  BY <1>1 DEF Whole
<1>3. \A d : Stored(d)' = Stored(d)
  BY <1>2 DEF Stored
<1>4. \A d : Read(d, Shares)' = Read(d, Shares)
  BY <1>1 DEF Read
<1>5. \A m : Homes(m)' = Homes(m)
  BY <1>3 DEF Homes
<1>6. \A m, d : Member(m, d)' <=> Member(m, d)
  BY <1>3 DEF Member
<1>7. \A o : Undisturbed(o)' <=> Undisturbed(o)
  BY <1>1 DEF Undisturbed, AsMeant, Base, Written
<1> QED BY <1>2, <1>3, <1>4, <1>5, <1>6, <1>7

LEMMA KeptInNext ==
    ASSUME NEW m, NEW d, NEW es, Stored(d)' = es, Keeps(m, es)', Read(d, Shares)' = Good({}) => Keeps(m, {})'
    PROVE  KeptIn(m, d)'
<1>1. Keeps(m, Stored(d))'
  BY DEF Keeps, HoldsIn
<1> QED BY <1>1 DEF KeptIn

LEMMA SameKeptIn ==
    ASSUME slots' = slots, kept' = kept, NEW m, NEW d, KeptIn(m, d)
    PROVE  KeptIn(m, d)'
<1>1. PICK es : es = Stored(d)
  OBVIOUS
<1>2. Keeps(m, es)'
  BY <1>1, SameKept DEF KeptIn
<1>3. Stored(d)' = es /\ Read(d, Shares)' = Read(d, Shares)
  BY <1>1, SameSlots
<1>4. Keeps(m, {})' <=> Keeps(m, {})
  BY SameKept
<1> QED BY <1>2, <1>3, <1>4, KeptInNext DEF KeptIn

LEMMA SameStanding ==
    ASSUME UNCHANGED <<slots, kept, dmd>>, NEW m, NEW o, Standing(m, o)
    PROVE  Standing(m, o)'
<1>1. slots' = slots /\ kept' = kept /\ dmd' = dmd
  OBVIOUS
<1>2. \A d : Stored(d)' = Stored(d) /\ (Member(m, d)' <=> Member(m, d))
  BY <1>1, SameSlots
<1>3. \A es : Keeps(m, es)' <=> Keeps(m, es)
  BY <1>1, SameKept
<1>4. \A d : KeptIn(m, d) => KeptIn(m, d)'
  BY <1>1, SameKeptIn
<1>5. Homes(m)' = Homes(m)
  BY <1>1, SameSlots
<1>6. Writing(m, o) => Writing(m, o)'
  <2>1. RootWrite(m, o) => RootWrite(m, o)'
    BY <1>1, <1>3, <1>4 DEF RootWrite
  <2>2. OwnWrite(m, o) => OwnWrite(m, o)'
    BY <1>2, <1>3 DEF OwnWrite, Publishing
  <2> QED BY <2>1, <2>2 DEF Writing
<1> QED BY <1>1, <1>2, <1>4, <1>5, <1>6 DEF Standing

\* A step between two shares: what was told before and what it tells stay kept.
LEMMA StillTold ==
    ASSUME NEW m \in Mode, SlotInv, Told(m), NEW p \in Phone, NEW r, op' = [op EXCEPT ![p] = r],
           slots' = slots, op[p].pc # "push", \A q \in Phone \ {p} : op[q].pc = "idle",
           kept' \in [FileName -> FileContent \cup {Nothing, Gone}],
           \A q \in Phone : dmd'[q] # Nothing => Member(m, dmd'[q]),
           Homes(m) = {} => Keeps(m, {})', \A d \in Homes(m) : KeptIn(m, d)',
           r.pc # "idle" => OpTold(m, r)'
    PROVE  Told(m)'
<1>1. op'[p] = r /\ \A q \in Phone \ {p} : op'[q] = op[q]
  BY DEF SlotInv, WritersOK
<1>2. \A i \in Shares : slots'[Desk][i] = [seq |-> 1, op |-> 0, entries |-> DeskFiles]
  BY DEF Told
<1>3. \A i \in Shares : slots'[Root][i] # NoShare /\ Shape(m, slots'[Root][i].entries)
  BY DEF Told
<1>4. Homes(m)' = Homes(m) /\ \A d : Member(m, d)' <=> Member(m, d)
  BY SameSlots
<1>5. \A q \in Phone : dmd'[q] # Nothing => Member(m, dmd[q])'
  BY <1>4, SameSlots DEF Member
<1>6. ASSUME NEW q \in Phone, NEW o, o = op'[q], o.pc # "idle" PROVE OpTold(m, o)'
  <2>1. q = p
    BY <1>1, <1>6
  <2> QED BY <1>1, <1>6, <2>1
<1> QED BY <1>2, <1>3, <1>4, <1>5, <1>6 DEF Told, Shares

LEMMA CalmTold ==
    ASSUME NEW m \in Mode, NEW p \in Phone, Telling(m, p), NEW r, Set(p, r), UNCHANGED <<dmd, kept>>,
           r.pc # "idle" => Standing(m, r),
           r.pc = "push" => (Faults' = 1 /\ Undisturbed(r)) \/ Older(m, r)
    PROVE  Told(m)'
<1>1. /\ slots' = slots /\ kept' = kept /\ dmd' = dmd /\ op' = [op EXCEPT ![p] = r] /\ Told(m) /\ SlotInv
      /\ op[p].pc # "push"
  BY DEF Telling, Around, Set
<1>2. /\ \A q \in Phone \ {p} : op[q].pc = "idle"
      /\ Homes(m) = {} => Keeps(m, {})
      /\ \A d \in Homes(m) : KeptIn(m, d)
  BY TellingFacts
<1>3. /\ Homes(m) = {} => Keeps(m, {})'
      /\ \A d \in Homes(m) : KeptIn(m, d)'
  BY <1>1, <1>2, SameKept, SameKeptIn
<1>4. ASSUME r.pc # "idle" PROVE OpTold(m, r)'
  <2>1. Standing(m, r)'
    BY <1>1, <1>4, SameStanding
  <2>2. Undisturbed(r)' <=> Undisturbed(r)
    BY <1>1, SameSlots
  <2>3. Older(m, r)' <=> Older(m, r)
    BY <1>1, SameKept DEF Older, RootOlder, AllKeep, Shares
  <2> QED BY <2>1, <2>2, <2>3 DEF OpTold
<1>5. /\ kept' \in [FileName -> FileContent \cup {Nothing, Gone}]
      /\ \A q \in Phone : dmd'[q] # Nothing => Member(m, dmd'[q])
  BY <1>1 DEF Told
<1> QED BY <1>1, <1>2, <1>3, <1>4, <1>5, StillTold

LEMMA EndTold ==
    ASSUME NEW m \in Mode, NEW p \in Phone, Telling(m, p), End(p), UNCHANGED <<dmd, kept>>
    PROVE  Told(m)'
<1>1. Idle.pc = "idle"
  BY DEF Idle
<1> QED BY <1>1, CalmTold DEF End

LEMMA ContinueTold ==
    ASSUME NEW m \in Mode, NEW p \in Phone, Telling(m, p), NEW pc \in Pcs \ {"idle", "push"}, Continue(p, pc),
           UNCHANGED <<dmd, kept>>, \A o : o = [op[p] EXCEPT !.pc = pc] => Standing(m, o)
    PROVE  Told(m)'
<1>1. PICK r : r = [op[p] EXCEPT !.pc = pc]
  OBVIOUS
<1>2. Set(p, r) /\ Standing(m, r)
  BY <1>1 DEF Continue
<1>3. r.pc = pc
  BY <1>1, TellingFacts DEF WriterOK, IsWriter
<1> QED BY <1>2, <1>3, CalmTold

----------------------------------------------------------------------------

\* A read of phone p, when operations do not overlap
LEMMA IsTelling ==
    ASSUME SlotInv, RecInv, NEW m, Told(m), ~overlapped', Faults' <= 1, NEW p \in Phone,
           op[p].pc \notin {"idle", "push"}, UNCHANGED <<slots, overlapped, lost, deaths>>,
           NEW R \in SUBSET Shares, Missed(R)
    PROVE  Telling(m, p)
<1>1. Around(p)
  BY ReadAround
<1>2. Faults <= 1
  BY <1>1, FaultsNat DEF Around, RecInv
<1> QED BY <1>1, <1>2 DEF Telling

\* What is told of a name, or forgotten, changes nothing of the others.
LEMMA ForgetKept ==
    ASSUME kept \in [FileName -> FileContent \cup {Nothing, Gone}], NEW n,
           kept' = [kept EXCEPT ![n] = Nothing], slots' = slots, NEW m
    PROVE  /\ \A es : Keeps(m, es) => Keeps(m, es)'
           /\ \A d : KeptIn(m, d) => KeptIn(m, d)'
<1>1. ASSUME NEW es, Keeps(m, es) PROVE Keeps(m, es)'
  BY <1>1, ToldKept, ToldAssumption
<1>2. ASSUME NEW d, KeptIn(m, d) PROVE KeptIn(m, d)'
  <2>1. PICK es : es = Stored(d)
    OBVIOUS
  <2>2. Keeps(m, es)'
    BY <1>1, <1>2, <2>1 DEF KeptIn
  <2>3. Stored(d)' = es /\ Read(d, Shares)' = Read(d, Shares)
    BY <2>1, SameSlots
  <2>4. Keeps(m, {}) => Keeps(m, {})'
    BY <1>1
  <2> QED BY <1>2, <2>2, <2>3, <2>4, KeptInNext DEF KeptIn
<1> QED BY <1>1, <1>2

LEMMA BeginTold ==
    ASSUME SlotInv, RecInv, NEW m \in Mode, Told(m), NEW p \in Phone, NEW kind, NEW n \in FileName, NEW c,
           kind = "put" => c \in FileContent, NEW again, Begin(p, kind, n, c, again), ~overlapped'
    PROVE  Told(m)'
<1>1. PICK pc : pc = IF kind = "put" THEN "look" ELSE "load"
  OBVIOUS
<1>2. PICK r : r = [Idle EXCEPT !.pc = pc, !.kind = kind, !.name = n, !.content = c,
                       !.replace = again, !.own = dmd[p], !.id = ops + 1]
  OBVIOUS
<1>3. /\ r.pc = pc /\ r.kind = kind /\ r.name = n /\ r.content = c /\ r.own = dmd[p] /\ r.done = FALSE
  BY <1>2 DEF Idle
<1>4. /\ op' = [op EXCEPT ![p] = r] /\ UNCHANGED <<slots, dmd>>
      /\ kept' = [kept EXCEPT ![n] = Nothing] /\ \A q \in Phone : op[q].pc = "idle"
  BY <1>1, <1>2 DEF Begin, Set
<1>5. kept \in [FileName -> FileContent \cup {Nothing, Gone}]
  BY DEF Told
<1>6. /\ \A es : Keeps(m, es) => Keeps(m, es)'
      /\ \A d : KeptIn(m, d) => KeptIn(m, d)'
  BY <1>4, <1>5, ForgetKept
<1>7. \A d : Pushing(d) = {}
  BY <1>4 DEF Pushing
<1>8. /\ Homes(m) = {} => Keeps(m, {})'
      /\ \A d \in Homes(m) : KeptIn(m, d)'
  BY <1>6, <1>7 DEF Told
<1>9. dmd[p] # Nothing => Member(m, dmd[p])'
  BY <1>4, SameSlots DEF Told
<1>10. OpTold(m, r)'
  <2>1. kept'[n] = Nothing /\ pc \in {"look", "load"} /\ (pc = "look" => kind = "put")
    BY <1>1, <1>4, <1>5
  <2>2. r.own = Nothing \/ Member(m, r.own)'
    BY <1>3, <1>4, <1>9 DEF Member
  <2>3. Standing(m, r)'
    BY <1>3, <2>1, <2>2 DEF Standing
  <2> QED BY <1>3, <2>1, <2>3 DEF OpTold
<1>11. /\ kept' \in [FileName -> FileContent \cup {Nothing, Gone}]
       /\ \A q \in Phone : dmd'[q] # Nothing => Member(m, dmd'[q])
  BY <1>4, <1>5 DEF Told
<1> QED BY <1>4, <1>8, <1>10, <1>11, StillTold

\* What is told of a name at the end of its operation
LEMMA TellTold ==
    ASSUME NEW m \in Mode, NEW p \in Phone, Telling(m, p), End(p), NEW c \in FileContent \cup {Gone},
           kept' = [kept EXCEPT ![op[p].name] = c],
           \A q \in Phone : dmd'[q] # Nothing => Member(m, dmd'[q]),
           Homes(m) = {} => Keeps(m, {})',
           \A d \in Homes(m) : KeptIn(m, d)'
    PROVE  Told(m)'
<1>1. Idle.pc = "idle"
  BY DEF Idle
<1>2. op' = [op EXCEPT ![p] = Idle] /\ slots' = slots /\ op[p].pc # "push" /\ Told(m) /\ SlotInv
  BY DEF End, Set, Telling, Around
<1>3. \A q \in Phone \ {p} : op[q].pc = "idle"
  BY TellingFacts
<1>4. kept' \in [FileName -> FileContent \cup {Nothing, Gone}]
  BY <1>2 DEF Told
<1> QED BY <1>1, <1>2, <1>3, <1>4, StillTold

\* A put that lands has seen its bytes listed.
LEMMA LandTold ==
    ASSUME NEW m \in Mode, NEW p \in Phone, Telling(m, p), UNCHANGED <<lost, deaths>>,
           NEW R \in SUBSET Shares, Missed(R), View(R) \notin {Short, Garbage}, NEW r \in View(R).es,
           r.name = op[p].name, r.to = op[p].content, op[p].kind = "put", op[p].pc \in {"look", "check"}, Land(p)
    PROVE  Told(m)'
<1>1. PICK n, c : n = op[p].name /\ c = op[p].content
  OBVIOUS
<1>2. /\ c \in FileContent /\ c \notin {Nothing, Gone} /\ Told(m)
      /\ op[p].own = Nothing \/ Member(m, op[p].own)
  BY <1>1, TellingFacts, ToldAssumption DEF OpTold, Standing, Telling
<1>3. /\ End(p) /\ slots' = slots /\ kept' = [kept EXCEPT ![n] = c] /\ dmd' = [dmd EXCEPT ![p] = op[p].own]
      /\ kept \in [FileName -> FileContent \cup {Nothing, Gone}]
  BY <1>1, <1>2 DEF Land, Told
<1>4. \A q \in Phone : dmd'[q] # Nothing => Member(m, dmd'[q])
  BY <1>2, <1>3 DEF Told, Telling, SlotInv, WritersOK
<1>5. ASSUME NEW es, [name |-> n, to |-> c] \in FilesIn(es) \cup DeskRows(m), Keeps(m, es) PROVE Keeps(m, es)'
  BY <1>2, <1>3, <1>5, ToldKept
<1>6. \A d : Stored(d)' = Stored(d) /\ Read(d, Shares)' = Read(d, Shares)
  BY <1>3, SameSlots
<1>7. /\ Homes(m) = {} => Keeps(m, {})
      /\ \A d \in Homes(m) : KeptIn(m, d)
  BY TellingFacts
<1>8. ASSUME r \in DeskRows(m)
      PROVE  (Homes(m) = {} => Keeps(m, {})') /\ \A d \in Homes(m) : KeptIn(m, d)'
  <2>1. r = [name |-> n, to |-> c]
    BY <1>1, <1>8 DEF DeskRows, FilesIn
  <2>2. \A es : Keeps(m, es) => Keeps(m, es)'
    BY <1>5, <1>8, <2>1
  <2>3. ASSUME NEW d \in Homes(m) PROVE KeptIn(m, d)'
    <3>1. PICK es : es = Stored(d)
      OBVIOUS
    <3>2. Keeps(m, es)' /\ (Read(d, Shares) = Good({}) => Keeps(m, {})')
      BY <1>7, <2>2, <3>1 DEF KeptIn
    <3> QED BY <1>6, <3>1, <3>2, KeptInNext
  <2> QED BY <1>7, <2>2, <2>3
<1>9. ASSUME NEW d \in Homes(m), \A e \in Homes(m) : e = d, r \in FilesIn(Stored(d)), Read(d, Shares) # Good({})
      PROVE  (Homes(m) = {} => Keeps(m, {})') /\ \A e \in Homes(m) : KeptIn(m, e)'
  <2>1. r = [name |-> n, to |-> c]
    BY <1>1, <1>9 DEF FilesIn
  <2>2. PICK es : es = Stored(d)
    OBVIOUS
  <2>3. Keeps(m, es)'
    BY <1>5, <1>7, <1>9, <2>1, <2>2 DEF KeptIn
  <2>4. KeptIn(m, d)'
    BY <1>6, <1>9, <2>2, <2>3, KeptInNext
  <2> QED BY <1>9, <2>4
<1>10. (Homes(m) = {} => Keeps(m, {})') /\ \A d \in Homes(m) : KeptIn(m, d)'
  BY <1>8, <1>9, SeenIsStored
<1> QED BY <1>1, <1>2, <1>3, <1>4, <1>10, TellTold

LEMMA LookTold ==
    ASSUME SlotInv, RecInv, NEW m \in Mode, Told(m), NEW p \in Phone, Look(p), ~overlapped', Faults' <= 1
    PROVE  Told(m)'
<1>1. op[p].pc = "look" /\ UNCHANGED <<slots, overlapped, lost, deaths>>
  BY DEF Look, Fail, Land
<1>2. PICK R \in SUBSET Shares :
        /\ Missed(R)
        /\ \/ Fail(p)
           \/ /\ Land(p)
              /\ \E r \in View(R).es : r.name = op[p].name /\ r.to = op[p].content
           \/ Continue(p, "load") /\ UNCHANGED <<dmd, kept>>
  BY DEF Look, Reach, Continue
<1>3. Telling(m, p)
  BY <1>1, <1>2, IsTelling
<1>4. OpTold(m, op[p]) /\ WriterOK(op[p])
  BY <1>3, TellingFacts
<1>5. CASE Fail(p)
  BY <1>3, <1>5, EndTold DEF Fail
<1>6. ASSUME Land(p), NEW r \in View(R).es, r.name = op[p].name, r.to = op[p].content PROVE Told(m)'
  <2>1. View(R) \notin {Short, Garbage}
    BY <1>6 DEF Short, Garbage
  <2> QED BY <1>1, <1>2, <1>3, <1>4, <1>6, <2>1, LandTold DEF OpTold, Standing
<1>7. CASE Continue(p, "load") /\ UNCHANGED <<dmd, kept>>
  <2>1. ASSUME NEW o, o = [op[p] EXCEPT !.pc = "load"] PROVE Standing(m, o)
    <3>1. /\ o.pc = "load" /\ o.kind = op[p].kind /\ o.name = op[p].name /\ o.content = op[p].content
          /\ o.own = op[p].own /\ o.done = op[p].done
      BY <1>4, <2>1 DEF WriterOK, IsWriter
    <3> QED BY <1>1, <1>4, <3>1 DEF OpTold, Standing
  <2>2. "load" \in Pcs \ {"idle", "push"}
    BY DEF Pcs
  <2> QED BY <1>3, <1>7, <2>1, <2>2, ContinueTold
<1> QED BY <1>2, <1>5, <1>6, <1>7

\* A removed name is not in the directory it was removed from, and was not listed.
LEMMA GoneTold ==
    ASSUME NEW m \in Mode, NEW p \in Phone, Telling(m, p), End(p), UNCHANGED <<slots, dmd>>,
           NEW R \in SUBSET Shares, View(R) \notin {Short, Garbage}, op[p].pc = "check", op[p].kind # "put",
           \A r \in View(R).es : r.name # op[p].name, kept' = [kept EXCEPT ![op[p].name] = Gone]
    PROVE  Told(m)'
<1>1. PICK n : n = op[p].name
  OBVIOUS
<1>2. Told(m) /\ kept \in [FileName -> FileContent \cup {Nothing, Gone}]
  BY DEF Telling, Told
<1>3. \A r \in DeskRows(m) : r.name # n
  BY <1>1, <1>2, GoneFromDesk
<1>4. ASSUME NEW es, Keeps(m, es), \A e \in es : e.name # n PROVE Keeps(m, es)'
  <2>1. \A r \in FilesIn(es) : r.name # n
    BY <1>4 DEF FilesIn
  <2> QED BY <1>1, <1>2, <1>3, <1>4, <2>1, ToldKept
<1>5. \A d \in Homes(m) : \A e \in Stored(d) : e.name # n
  BY <1>1, TellingFacts DEF OpTold, Standing
<1>6. /\ Homes(m) = {} => Keeps(m, {})
      /\ \A d \in Homes(m) : KeptIn(m, d)
  BY TellingFacts
<1>7. Keeps(m, {}) => Keeps(m, {})'
  BY <1>4
<1>8. ASSUME NEW d \in Homes(m) PROVE KeptIn(m, d)'
  <2>1. PICK es : es = Stored(d)
    OBVIOUS
  <2>2. Keeps(m, es)'
    BY <1>4, <1>5, <1>6, <2>1 DEF KeptIn
  <2>3. Stored(d)' = es /\ Read(d, Shares)' = Read(d, Shares)
    BY <2>1, SameSlots
  <2> QED BY <1>6, <1>7, <2>2, <2>3, KeptInNext DEF KeptIn
<1>9. \A q \in Phone : dmd'[q] # Nothing => Member(m, dmd'[q])
  BY <1>2 DEF Told
<1> QED BY <1>6, <1>7, <1>8, <1>9, TellTold

LEMMA CheckTold ==
    ASSUME SlotInv, RecInv, NEW m \in Mode, Told(m), NEW p \in Phone, Check(p), ~overlapped', Faults' <= 1
    PROVE  Told(m)'
<1>1. op[p].pc = "check" /\ UNCHANGED <<slots, overlapped, lost, deaths>>
  BY DEF Check, Fail, Land
<1>2. PICK R \in SUBSET Shares :
        /\ Missed(R)
        /\ \/ Fail(p)
           \/ /\ Land(p) /\ op[p].kind = "put" /\ View(R) \notin {Short, Garbage}
              /\ \E r \in View(R).es : r.name = op[p].name /\ r.to = op[p].content
           \/ /\ End(p) /\ kept' = [kept EXCEPT ![op[p].name] = Gone] /\ dmd' = dmd
              /\ op[p].kind # "put" /\ View(R) \notin {Short, Garbage}
              /\ \A r \in View(R).es : r.name # op[p].name
  BY DEF Check, Reach
<1>3. Telling(m, p)
  BY <1>1, <1>2, IsTelling
<1>4. CASE Fail(p)
  BY <1>3, <1>4, EndTold DEF Fail
<1> QED BY <1>1, <1>2, <1>3, <1>4, LandTold, GoneTold

LEMMA UploadFailsTold ==
    ASSUME SlotInv, RecInv, NEW m \in Mode, Told(m), NEW p \in Phone, UploadFails(p), ~overlapped', Faults' <= 1
    PROVE  Told(m)'
<1>1. /\ op[p].pc \notin {"idle", "push"} /\ UNCHANGED <<slots, dmd, kept, overlapped, misses, lost, deaths>>
      /\ End(p)
  BY DEF UploadFails, Fail
<1>2. FaultsOK' /\ Faults <= Faults' /\ Faults <= 1
  <2>1. FaultsOK' /\ Faults' = Faults /\ FaultsOK
    BY <1>1 DEF RecInv, FaultsOK, Faults
  <2> QED BY <2>1, FaultsNat
<1>3. Telling(m, p)
  BY <1>1, <1>2 DEF Telling, Around
<1> QED BY <1>1, <1>3, EndTold

----------------------------------------------------------------------------

\* No phone has a directory of its own in a folder that none has joined.
LEMMA NoneJoined ==
    ASSUME SlotInv, NEW m, Told(m), m = "plain" \/ Bare(Stored(Root))
    PROVE  /\ \A d \in Fresh : ~Member(m, d)
           /\ \A q \in Phone : dmd[q] = Nothing
           /\ m = "magic" => Homes(m) = {}
<1>1. \A d \in Fresh : ~Member(m, d)
  BY BareFacts DEF Member
<1>2. \A q \in Phone : dmd[q] = Nothing
  BY <1>1 DEF SlotInv, WritersOK, Told
<1>3. m = "magic" => Homes(m) = {}
  BY <1>1 DEF Homes, Member
<1> QED BY <1>1, <1>2, <1>3

\* A rewrite that is about to locate its shares
LEMMA CommitTold ==
    ASSUME NEW m \in Mode, NEW p \in Phone, Telling(m, p), UNCHANGED <<dmd, kept>>,
           NEW d, NEW es, NEW why, Commit(p, d, es, why),
           op[p].kind # "put" <=> why \in {"drop", "dropinner"},
           op[p].kind # "put" => \A e \in es : e.name # op[p].name,
           d = Root => /\ m = "plain" \/ Bare(Stored(Root))
                       /\ m = "plain" => Shape(m, es) /\ Keeps(m, es)
                       /\ m = "magic" => \/ why = "drop" /\ op[p].own = Nothing /\ Bare(es)
                                         \/ /\ why = "link" /\ op[p].own \in Fresh
                                            /\ es = Joined(op[p].own) /\ KeptIn(m, op[p].own),
           m = "plain" => op[p].own = Nothing,
           d # Root => /\ d = op[p].own /\ d \in Fresh /\ why \in {"inner", "dropinner"}
                       /\ Keeps(m, es) /\ Member(m, d)
    PROVE  Told(m)'
<1>1. PICK r : r = [op[p] EXCEPT !.pc = "locate", !.dir = d, !.entries = es, !.why = why]
  OBVIOUS
<1>2. WriterOK(op[p]) /\ OpTold(m, op[p]) /\ Told(m) /\ SlotInv
  BY TellingFacts DEF Telling
<1>3. /\ r.pc = "locate" /\ r.dir = d /\ r.entries = es /\ r.why = why /\ r.own = op[p].own
      /\ r.kind = op[p].kind /\ r.name = op[p].name /\ r.content = op[p].content
  BY <1>1, <1>2 DEF WriterOK, IsWriter
<1>4. d = Root => RootWrite(m, r)
  <2>1. d = Root => \A q \in Phone : dmd[q] = Nothing
    BY <1>2, NoneJoined
  <2>2. d = Root /\ m = "magic" => Keeps(m, {})
    BY <1>2, NoneJoined, TellingFacts
  <2> QED BY <1>3, <2>1, <2>2 DEF RootWrite, Mode
<1>5. d # Root => OwnWrite(m, r)
  BY <1>3 DEF OwnWrite, Member
<1>6. Writing(m, r)
  BY <1>3, <1>4, <1>5 DEF Writing
<1>7. Standing(m, r)
  BY <1>2, <1>3, <1>6 DEF Standing, OpTold, Mode
<1>8. Set(p, r)
  BY <1>1 DEF Commit
<1> QED BY <1>3, <1>7, <1>8, CalmTold

LEMMA PublishTold ==
    ASSUME NEW m \in Mode, NEW p \in Phone, Telling(m, p), UNCHANGED <<dmd, kept>>, Publish(p),
           m = "magic", Bare(Stored(Root)), op[p].kind = "put"
    PROVE  Told(m)'
<1>1. PICK d \in Fresh :
         /\ \A i \in Shares : slots[d][i] = NoShare
         /\ Set(p, [op[p] EXCEPT !.pc = "push", !.own = d, !.dir = d, !.why = "inner",
                                 !.entries = {Snapshot(op[p].name, op[p].content)}, !.located = <<>>,
                                 !.num = 0, !.placed = {}])
  BY DEF Publish
<1>2. PICK es : es = {Snapshot(op[p].name, op[p].content)}
  OBVIOUS
<1>3. PICK r : r = [op[p] EXCEPT !.pc = "push", !.own = d, !.dir = d, !.why = "inner",
                       !.entries = es, !.located = <<>>, !.num = 0, !.placed = {}]
  OBVIOUS
<1>4. WriterOK(op[p]) /\ OpTold(m, op[p]) /\ Told(m) /\ SlotInv
  BY TellingFacts DEF Telling
<1>5. /\ r.pc = "push" /\ r.own = d /\ r.dir = d /\ r.why = "inner" /\ r.entries = es /\ r.located = <<>>
      /\ r.kind = op[p].kind /\ r.name = op[p].name /\ r.content = op[p].content
  BY <1>3, <1>4 DEF WriterOK, IsWriter
<1>6. kept[op[p].name] = Nothing /\ Keeps(m, {})
  BY <1>4, NoneJoined, TellingFacts DEF OpTold, Standing
<1>7. Keeps(m, es)
  BY <1>2, <1>6, LoneKept
<1>8. d # Root /\ Publishing(r)
  BY <1>5, RootAssumption DEF Publishing
<1>9. Writing(m, r)
  BY <1>5, <1>6, <1>7, <1>8 DEF Writing, OwnWrite
<1>10. Standing(m, r)
  BY <1>4, <1>5, <1>9 DEF Standing, OpTold
<1>11. Older(m, r)
  BY <1>1, <1>5, <1>8 DEF Older, AllKeep
<1>12. Set(p, r)
  BY <1>1, <1>2, <1>3
<1> QED BY <1>10, <1>11, <1>12, CalmTold

\* From the root to the phone's own directory
LEMMA InsideTold ==
    ASSUME NEW m \in Mode, NEW p \in Phone, Telling(m, p), UNCHANGED <<dmd, kept>>, NEW d, Member(m, d),
           Set(p, [op[p] EXCEPT !.pc = "inner", !.own = d]), op[p].pc = "load"
    PROVE  Told(m)'
<1>1. PICK r : r = [op[p] EXCEPT !.pc = "inner", !.own = d]
  OBVIOUS
<1>2. WriterOK(op[p]) /\ OpTold(m, op[p])
  BY TellingFacts
<1>3. /\ r.pc = "inner" /\ r.own = d /\ r.done = op[p].done
      /\ r.kind = op[p].kind /\ r.name = op[p].name /\ r.content = op[p].content
  BY <1>1, <1>2 DEF WriterOK, IsWriter
<1>4. Standing(m, r)
  BY <1>2, <1>3 DEF Standing, OpTold
<1> QED BY <1>1, <1>3, <1>4, CalmTold

LEMMA LoadTold ==
    ASSUME SlotInv, RecInv, NEW m \in Mode, Told(m), NEW p \in Phone, Load(p), ~overlapped', Faults' <= 1
    PROVE  Told(m)'
<1>1. op[p].pc = "load" /\ UNCHANGED <<slots, dmd, kept, overlapped, lost, deaths>>
  BY DEF Load
<1>2. PICK R \in SUBSET Shares :
        /\ Missed(R)
        /\ \/ End(p)
           \/ /\ Read(Root, R) \notin {Short, Garbage}
              /\ \/ op[p].kind = "put" /\ Place(p, Read(Root, R).es)
                 \/ op[p].kind # "put" /\ RemoveAt(p, Read(Root, R).es)
  BY DEF Load, Reach
<1>3. Telling(m, p)
  BY <1>1, <1>2, IsTelling
<1>4. CASE End(p)
  BY <1>1, <1>3, <1>4, EndTold
<1>5. CASE Read(Root, R) \notin {Short, Garbage}
  <2>1. PICK es : es = Read(Root, R).es
    OBVIOUS
  <2>2. Read(Root, R) = Good(es)
    BY <1>5, <2>1, ReadGood
  <2>3. Shape(m, es) /\ (m = "magic" => es = Stored(Root)) /\ (m = "plain" => Keeps(m, es))
    BY <1>1, <1>2, <1>3, <2>2, RootRead
  <2>4. PICK n, c, own : n = op[p].name /\ c = op[p].content /\ own = op[p].own
    OBVIOUS
  <2>5. /\ n \in FileName /\ kept[n] = Nothing /\ (own = Nothing \/ Member(m, own)) /\ own \in Fresh \cup {Nothing}
    BY <1>1, <1>3, <2>4, TellingFacts DEF OpTold, Standing, WriterOK, IsWriter
  <2>6. m = "plain" \/ Bare(Stored(Root)) => own = Nothing
    BY <1>3, <2>5, NoneJoined DEF Telling
  <2>7. \A e \in Drop(es, n) : e.name # n
    BY DEF Drop
  <2>8. CASE m = "plain"
    <3>1. /\ ~IsCollective(es) /\ Shape(m, Upsert(es, File(n, c))) /\ Shape(m, Drop(es, n))
      BY <2>3, <2>8, PlainFacts
    <3>2. Keeps(m, Upsert(es, File(n, c))) /\ Keeps(m, Drop(es, n))
      BY <2>3, <2>5, <2>8, PutKept, DropKept
    <3>3. CASE op[p].kind = "put" /\ Commit(p, Root, Upsert(es, File(n, c)), "file")
      BY <1>1, <1>3, <2>4, <2>6, <2>8, <3>1, <3>2, <3>3, CommitTold
    <3>4. CASE op[p].kind # "put" /\ Commit(p, Root, Drop(es, n), "drop")
      BY <1>1, <1>3, <2>4, <2>6, <2>7, <2>8, <3>1, <3>2, <3>4, CommitTold
    <3>5. CASE End(p)
      BY <1>1, <1>3, <3>5, EndTold
    <3> QED BY <1>2, <1>5, <2>1, <2>4, <2>6, <2>8, <3>1, <3>3, <3>4, <3>5 DEF Place, RemoveAt
  <2>9. CASE m = "magic" /\ Bare(es)
    <3>1. es = Stored(Root) /\ own = Nothing
      BY <2>3, <2>6, <2>9
    <3>2. IsCollective(es) /\ Writable(es) = {} /\ Bare(Drop(es, n))
      BY <2>5, <2>9, BareFacts
    <3>3. CASE op[p].kind = "put" /\ Publish(p)
      BY <1>1, <1>3, <2>9, <3>1, <3>3, PublishTold
    <3>4. CASE op[p].kind # "put" /\ Commit(p, Root, Drop(es, n), "drop")
      BY <1>1, <1>3, <2>4, <2>7, <2>9, <3>1, <3>2, <3>4, CommitTold
    <3>5. CASE End(p)
      BY <1>1, <1>3, <3>5, EndTold
    <3> QED BY <1>2, <1>5, <2>1, <2>4, <3>1, <3>2, <3>3, <3>4, <3>5 DEF Place, RemoveAt
  <2>10. ASSUME m = "magic", NEW d \in Fresh, es = Joined(d) PROVE Told(m)'
    <3>1. es = Stored(Root) /\ Member(m, d) /\ (own # Nothing => Member(m, own))
      BY <2>3, <2>5, <2>10 DEF Member
    <3>2. /\ IsCollective(es) /\ Writable(es) = {d} /\ \A e \in es : e.name # n
      BY <2>5, <2>10, JoinedFacts
    <3>3. ASSUME NEW x, Member(m, x), Set(p, [op[p] EXCEPT !.pc = "inner", !.own = x]) PROVE Told(m)'
      BY <1>1, <1>3, <3>3, InsideTold
    <3>4. CASE Continue(p, "inner") /\ own # Nothing
      <4>1. [op[p] EXCEPT !.pc = "inner"] = [op[p] EXCEPT !.pc = "inner", !.own = own]
        BY <1>3, <2>4, TellingFacts DEF WriterOK, IsWriter
      <4> QED BY <3>1, <3>3, <3>4, <4>1 DEF Continue
    <3>5. CASE End(p)
      BY <1>1, <1>3, <3>5, EndTold
    <3> QED BY <1>2, <1>5, <2>1, <2>4, <3>1, <3>2, <3>3, <3>4, <3>5 DEF Place, RemoveAt
  <2> QED BY <2>3, <2>8, <2>9, <2>10 DEF Shape, Mode
<1> QED BY <1>2, <1>4, <1>5

LEMMA InnerTold ==
    ASSUME SlotInv, RecInv, NEW m \in Mode, Told(m), NEW p \in Phone, Inner(p), ~overlapped', Faults' <= 1
    PROVE  Told(m)'
<1>1. op[p].pc = "inner" /\ UNCHANGED <<slots, dmd, kept, overlapped, lost, deaths>>
  BY DEF Inner
<1>2. PICK d : d = op[p].own
  OBVIOUS
<1>3. PICK R \in SUBSET Shares :
        /\ Missed(R)
        /\ \/ End(p)
           \/ /\ Read(d, R) \notin {Short, Garbage}
              /\ \/ op[p].kind = "put" /\ PutInContainer(p, Read(d, R).es)
                 \/ op[p].kind # "put" /\ RemoveInside(p, Read(d, R).es)
  BY <1>2 DEF Inner, Reach
<1>4. Telling(m, p)
  BY <1>1, <1>3, IsTelling
<1>5. CASE End(p)
  BY <1>1, <1>4, <1>5, EndTold
<1>6. CASE Read(d, R) \notin {Short, Garbage} /\ ~End(p)
  <2>1. PICK es : es = Read(d, R).es
    OBVIOUS
  <2>2. Read(d, R) = Good(es)
    BY <1>6, <2>1, ReadGood
  <2>3. WriterOK(op[p]) /\ OpTold(m, op[p])
    BY <1>4, TellingFacts
  <2>4. /\ d \in Fresh /\ d # Nothing /\ d # Root /\ Member(m, d) /\ d \in Homes(m) /\ m = "magic"
        /\ kept[op[p].name] = Nothing /\ ~op[p].done
    BY <1>1, <1>2, <2>3, RootAssumption DEF OpTold, Standing, WriterOK, Member, Homes
  <2>5. Reached(d)
    BY <1>2, <1>4, <2>4, TellingFacts
  <2>6. Keeps(m, es)
    BY <1>1, <1>3, <1>4, <2>2, <2>4, <2>5, ReadKept
  <2>7. CASE op[p].kind = "put" /\ Commit(p, d, Upsert(es, Snapshot(op[p].name, op[p].content)), "inner")
    <3>1. Keeps(m, Upsert(es, Snapshot(op[p].name, op[p].content)))
      BY <2>4, <2>6, PutKept DEF Snapshot
    <3> QED BY <1>1, <1>2, <1>4, <2>4, <2>7, <3>1, CommitTold
  <2>8. CASE op[p].kind # "put" /\ Commit(p, d, Drop(es, op[p].name), "dropinner")
    <3>1. Keeps(m, Drop(es, op[p].name)) /\ \A e \in Drop(es, op[p].name) : e.name # op[p].name
      BY <2>4, <2>6, DropKept DEF Drop
    <3> QED BY <1>1, <1>2, <1>4, <2>4, <2>8, <3>1, CommitTold
  <2> QED BY <1>2, <1>3, <1>6, <2>1, <2>4, <2>7, <2>8 DEF PutInContainer, RemoveInside
<1> QED BY <1>3, <1>5, <1>6

LEMMA LinkInTold ==
    ASSUME SlotInv, RecInv, NEW m \in Mode, Told(m), NEW p \in Phone, LinkIn(p), ~overlapped', Faults' <= 1
    PROVE  Told(m)'
<1>1. op[p].pc = "link" /\ UNCHANGED <<slots, dmd, kept, overlapped, lost, deaths>>
  BY DEF LinkIn
<1>2. PICK d : d = op[p].own
  OBVIOUS
<1>3. PICK R \in SUBSET Shares :
        /\ Missed(R)
        /\ \/ End(p)
           \/ /\ Read(Root, R) \notin {Short, Garbage}
              /\ LET clean == WithoutRootFiles(Read(Root, R).es)
                     linked == IF IsLinked(clean, d) THEN clean ELSE Upsert(clean, Link(PhoneDmdName(clean), d))
                 IN IF linked = Read(Root, R).es THEN Continue(p, "check") ELSE Commit(p, Root, linked, "link")
  BY <1>2 DEF LinkIn, Reach
<1>4. Telling(m, p)
  BY <1>1, <1>3, IsTelling
<1>5. CASE End(p)
  BY <1>1, <1>4, <1>5, EndTold
<1>6. CASE Read(Root, R) \notin {Short, Garbage} /\ ~End(p)
  <2>1. PICK es : es = Read(Root, R).es
    OBVIOUS
  <2>2. Read(Root, R) = Good(es)
    BY <1>6, <2>1, ReadGood
  <2>3. WriterOK(op[p]) /\ OpTold(m, op[p])
    BY <1>4, TellingFacts
  <2>4. /\ d \in Fresh /\ m = "magic" /\ op[p].kind = "put" /\ KeptIn(m, d)
        /\ Bare(Stored(Root)) \/ Member(m, d)
    BY <1>1, <1>2, <2>3 DEF OpTold, Standing, WriterOK
  <2>5. es = Stored(Root)
    <3>1. m = "magic" => es = Stored(Root)
      BY <1>1, <1>3, <1>4, <2>2, RootRead
    <3> QED BY <2>4, <3>1
  <2>6. CASE Bare(Stored(Root))
    <3>1. PICK clean : clean = WithoutRootFiles(es)
      OBVIOUS
    <3>2. clean = {Metadata, Link("desk", Desk)} /\ ~IsLinked(es, d) /\ es # Joined(d)
      BY <2>4, <2>5, <2>6, <3>1, BareFacts
    <3>3. ~IsLinked(clean, d)
      BY <3>1, <3>2, LinksOf
    <3>4. Upsert(clean, Link(PhoneDmdName(clean), d)) = Joined(d)
      BY <3>2, JoinsAs
    <3>5. Commit(p, Root, Joined(d), "link")
      BY <1>3, <1>6, <2>1, <3>1, <3>2, <3>3, <3>4
    <3> QED BY <1>1, <1>2, <1>4, <2>4, <2>6, <3>5, CommitTold
  <2>7. CASE Member(m, d)
    <3>1. es = Joined(d) /\ WithoutRootFiles(es) = es /\ IsLinked(es, d)
      BY <2>4, <2>5, <2>7, JoinedFacts DEF Member
    <3>2. Continue(p, "check")
      BY <1>3, <1>6, <2>1, <3>1
    <3>3. ASSUME NEW o, o = [op[p] EXCEPT !.pc = "check"] PROVE Standing(m, o)
      <4>1. /\ o.pc = "check" /\ o.kind = op[p].kind /\ o.name = op[p].name /\ o.content = op[p].content
            /\ o.own = d
        BY <1>2, <2>3, <3>3 DEF WriterOK, IsWriter
      <4> QED BY <2>3, <2>4, <2>7, <4>1 DEF OpTold, Standing
    <3>4. "check" \in Pcs \ {"idle", "push"}
      BY DEF Pcs
    <3> QED BY <1>1, <1>4, <3>2, <3>3, <3>4, ContinueTold
  <2> QED BY <2>4, <2>6, <2>7
<1> QED BY <1>3, <1>5, <1>6

LEMMA LocateTold ==
    ASSUME SlotInv, RecInv, NEW m \in Mode, Told(m), NEW p \in Phone, Locate(p), ~overlapped', Faults' <= 1
    PROVE  Told(m)'
<1>1. op[p].pc = "locate" /\ UNCHANGED <<slots, dmd, kept, overlapped, lost, deaths>>
  BY DEF Locate
<1>2. PICK d : d = op[p].dir
  OBVIOUS
<1>3. PICK R \in SUBSET Shares :
        /\ Missed(R)
        /\ \/ End(p)
           \/ LET found == {i \in R : slots[d][i] # NoShare}
              IN /\ found # {}
                 /\ Set(p, [op[p] EXCEPT !.pc = "push", !.located = [i \in found |-> slots[d][i]],
                                         !.num = 0, !.placed = {}])
  BY <1>2 DEF Locate, Reach
<1>4. Telling(m, p)
  BY <1>1, <1>3, IsTelling
<1>5. CASE End(p)
  BY <1>1, <1>4, <1>5, EndTold
<1> PICK found : found = {i \in R : slots[d][i] # NoShare}
  OBVIOUS
<1> PICK located : located = [i \in found |-> slots[d][i]]
  OBVIOUS
<1>6. CASE /\ found # {}
           /\ Set(p, [op[p] EXCEPT !.pc = "push", !.located = located, !.num = 0, !.placed = {}])
  <2>1. PICK r : r = [op[p] EXCEPT !.pc = "push", !.located = located, !.num = 0, !.placed = {}]
    OBVIOUS
  <2>2. WriterOK(op[p]) /\ OpTold(m, op[p])
    BY <1>4, TellingFacts
  <2>3. /\ r.pc = "push" /\ r.located = located /\ r.num = 0 /\ r.placed = {} /\ r.dir = d
        /\ r.own = op[p].own /\ r.entries = op[p].entries /\ r.why = op[p].why
        /\ r.kind = op[p].kind /\ r.name = op[p].name /\ r.content = op[p].content
    BY <1>2, <2>1, <2>2 DEF WriterOK, IsWriter
  <2>4. Writing(m, op[p]) /\ (m = "magic" /\ d = Root => Bare(Stored(Root)))
    BY <1>1, <1>2, <2>2 DEF OpTold, Standing
  <2>5. d # Root => m = "magic" /\ Member(m, d) /\ d \in Fresh
    BY <1>1, <1>2, <2>4 DEF Writing, OwnWrite, Publishing
  <2>6. Writing(m, r)
    <3>1. RootWrite(m, op[p]) => RootWrite(m, r)
      BY <2>3 DEF RootWrite
    <3>2. OwnWrite(m, op[p]) => OwnWrite(m, r)
      BY <1>1, <1>2, <2>3 DEF OwnWrite, Publishing
    <3> QED BY <1>2, <2>3, <2>4, <3>1, <3>2 DEF Writing
  <2>7. Standing(m, r)
    BY <2>2, <2>3, <2>6 DEF OpTold, Standing
  <2>8. ASSUME Faults = 0 PROVE Older(m, r)
    <3>1. Reached(d)
      <4>1. d \in {Root, op[p].own} /\ (d # Root => d # Nothing)
        BY <1>1, <1>2, <2>5, RootAssumption DEF RecInv
      <4> QED BY <1>4, <4>1, TellingFacts DEF Reached
    <3>2. Uniform(d)
      BY <1>4, <2>8, <3>1, TellingFacts DEF Sound
    <3>3. \A i \in Shares : slots[d][i].entries = Stored(d)
      BY <3>2, StoredUniform DEF Uniform
    <3>4. CASE m = "magic" /\ d = Root
      BY <2>3, <2>4, <3>3, <3>4 DEF Older, RootOlder
    <3>5. CASE ~(m = "magic" /\ d = Root)
      <4>1. d \in Homes(m)
        BY <2>5, <3>5 DEF Homes, Member, Mode
      <4>2. Keeps(m, Stored(d))
        BY <1>4, <4>1, TellingFacts DEF KeptIn
      <4> QED BY <2>3, <3>3, <3>5, <4>2 DEF Older, AllKeep
    <3> QED BY <3>4, <3>5
  <2>9. ASSUME Faults # 0 PROVE Faults' = 1 /\ Undisturbed(r)
    <3>1. FaultsOK /\ FaultsOK' /\ Faults <= Faults' /\ Faults' <= 1
      BY <1>4 DEF Telling, RecInv, Around
    <3>2. Faults' = 1
      BY <2>9, <3>1, FaultsNat
    <3>3. R = Shares
      BY <1>1, <1>3, <2>9, <3>1, MissedNone
    <3>4. \A i \in Shares : ~(i < 0) /\ Base(located, i) = slots[d][i]
      BY <3>3, SharesAssumption DEF Base, Shares
    <3> QED BY <2>3, <3>2, <3>4 DEF Undisturbed, AsMeant
  <2>10. Set(p, r)
    BY <1>6, <2>1
  <2> QED BY <1>1, <1>4, <2>7, <2>8, <2>9, <2>10, CalmTold
<1> QED BY <1>3, <1>5, <1>6

----------------------------------------------------------------------------

\* A directory that some version is whole of keeps what all of its shares keep.
LEMMA AllKeepIsKept ==
    ASSUME NEW m, NEW d, Whole(d) # {}, AllKeep(m, d)
    PROVE  KeptIn(m, d)
<1>1. Keeps(m, Stored(d))
  BY StoredShare DEF AllKeep
<1>2. ASSUME Read(d, Shares) = Good({}) PROVE Keeps(m, {})
  <2>1. Read(d, Shares) \notin {Short, Garbage} /\ Read(d, Shares).es = {}
    BY <1>2 DEF Good, Short, Garbage
  <2> QED BY <2>1, ReadShare DEF AllKeep
<1> QED BY <1>1, <1>2 DEF KeptIn

\* The same of the next state: what a step leaves of a directory
LEMMA NextAllKeepIsKept == (\A m, d : Whole(d) # {} /\ AllKeep(m, d) => KeptIn(m, d))'
<1>1. \A m, d : Whole(d) # {} /\ AllKeep(m, d) => KeptIn(m, d)
  BY AllKeepIsKept
<1> QED BY <1>1, PTL

LEMMA NextStoredShare ==
    (\A d : Whole(d) # {} => \E i \in Shares : slots[d][i] # NoShare /\ Stored(d) = slots[d][i].entries)'
<1>1. \A d : Whole(d) # {} => \E i \in Shares : slots[d][i] # NoShare /\ Stored(d) = slots[d][i].entries
  BY StoredShare
<1> QED BY <1>1, PTL

LEMMA NextStoredPlaced ==
    (\A d, v : \A P \in SUBSET Shares :
        v # NoShare /\ Cardinality(P) >= K /\ (\A i \in P : slots[d][i] = v)
            => Whole(d) # {} /\ Stored(d) = v.entries)'
<1>1. \A d, v : \A P \in SUBSET Shares :
        v # NoShare /\ Cardinality(P) >= K /\ (\A i \in P : slots[d][i] = v)
            => Whole(d) # {} /\ Stored(d) = v.entries
  BY StoredPlaced
<1> QED BY <1>1, PTL

LEMMA NextSound == (\A d : Sound(d) => Whole(d) # {})'
<1>1. \A d : Sound(d) => Whole(d) # {}
  BY UniformIsWhole DEF Sound
<1> QED BY <1>1, PTL

\* A directory that nothing writes says what it said.
LEMMA SameDir ==
    ASSUME NEW d, slots'[d] = slots[d], kept' = kept
    PROVE  /\ Stored(d)' = Stored(d) /\ Whole(d)' = Whole(d)
           /\ \A m : KeptIn(m, d) => KeptIn(m, d)'
<1>1. Shares' = Shares
  BY DEF Shares
<1>2. Whole(d)' = Whole(d)
  BY <1>1 DEF Whole
<1>3. Stored(d)' = Stored(d)
  BY <1>2 DEF Stored
<1>4. Read(d, Shares)' = Read(d, Shares)
  BY <1>1 DEF Read
<1>5. ASSUME NEW m, KeptIn(m, d) PROVE KeptIn(m, d)'
  <2>1. PICK es : es = Stored(d)
    OBVIOUS
  <2>2. Keeps(m, es)' /\ (Keeps(m, {})' <=> Keeps(m, {}))
    BY <1>5, <2>1, SameKept DEF KeptIn
  <2>3. Stored(d)' = es
    BY <1>3, <2>1
  <2> QED BY <1>4, <1>5, <2>2, <2>3, KeptInNext DEF KeptIn
<1> QED BY <1>2, <1>3, <1>5

\* One rewrite of one directory, under way or cut off, of operations that do not overlap:
\* v is what it writes.
Rewriting(m, p, o, v) ==
    /\ SlotInv /\ RecInv /\ Told(m) /\ ~overlapped /\ Faults <= 1
    /\ o = op[p] /\ o.pc = "push" /\ v = Written(o)
    /\ \A q \in Phone \ {p} : op[q].pc = "idle"
    /\ DOMAIN op' = Phone /\ \A q \in Phone \ {p} : op'[q] = op[q]
    /\ kept' = kept /\ dmd' = dmd /\ overlapped' = overlapped /\ FaultsOK' /\ Faults' <= 1
    /\ \A d \in Dir \ {o.dir} : slots'[d] = slots[d]
    /\ \A i \in Shares : slots'[o.dir][i] \in {slots[o.dir][i], v}

LEMMA RewritingFacts ==
    ASSUME NEW m \in Mode, NEW p \in Phone, NEW o, NEW v, Rewriting(m, p, o, v)
    PROVE  /\ WriterOK(o) /\ Standing(m, o) /\ Writing(m, o) /\ v # NoShare /\ v.entries = o.entries
           /\ o.dir \in Fresh \cup {Root} /\ o.dir \in Dir /\ Recoverable
           /\ \A d : d # o.dir => Pushing(d) = {}
           /\ o.dir # Root => /\ m = "magic" /\ o.own = o.dir /\ o.dir \in Fresh
                              /\ slots'[Root] = slots[Root] /\ Stored(Root)' = Stored(Root)
           /\ ~(m = "magic" /\ o.dir = Root) => Keeps(m, o.entries)'
<1>1. WriterOK(o) /\ Standing(m, o) /\ v.entries = o.entries /\ Recoverable
  BY DEF Rewriting, SlotInv, WritersOK, Told, OpTold, Written, RecInv
<1>2. o.id \in 1 .. ops /\ o.dir \in Fresh \cup {Root} /\ Writing(m, o)
  BY <1>1 DEF Rewriting, WriterOK, IsWriter, Standing
<1>3. v.op = o.id /\ NoShare.op = 0 /\ ops \in Nat
  BY DEF Rewriting, Written, NoShare, SlotInv, WritersOK
<1>4. v # NoShare
  BY <1>2, <1>3
<1>5. \A d : d # o.dir => Pushing(d) = {}
  BY DEF Rewriting, Pushing
<1>6. ASSUME o.dir # Root
      PROVE  /\ m = "magic" /\ o.own = o.dir /\ o.dir \in Fresh
             /\ slots'[Root] = slots[Root] /\ Stored(Root)' = Stored(Root)
  <2>1. slots'[Root] = slots[Root] /\ kept' = kept
    BY <1>6, DirFacts DEF Rewriting
  <2> QED BY <1>2, <1>6, <2>1, SameDir DEF Writing, OwnWrite
<1>7. ~(m = "magic" /\ o.dir = Root) => Keeps(m, o.entries)
  BY <1>2 DEF Writing, OwnWrite, RootWrite, Mode
<1>8. kept' = kept
  BY DEF Rewriting
<1> QED BY <1>1, <1>2, <1>4, <1>5, <1>6, <1>7, <1>8, SameKept, DirFacts

\* Where the phones' files are once a rewrite has ended, however it did, they keep what was told.
LEMMA StoppedKept ==
    ASSUME NEW m \in Mode, NEW p \in Phone, NEW o, NEW v, Rewriting(m, p, o, v), RecInv',
           op'[p].pc # "push", Older(m, o)'
    PROVE  /\ (Homes(m) = {} => Keeps(m, {}))'
           /\ \A e \in Homes(m)' : KeptIn(m, e)'
<1>1. /\ WriterOK(o) /\ Writing(m, o) /\ o.dir \in Fresh \cup {Root} /\ o.dir \in Dir /\ Told(m)
      /\ \A d : d # o.dir => Pushing(d) = {}
  BY RewritingFacts DEF Rewriting
<1>2. \A d : Reached(d)' => Whole(d)' # {}
  <2>1. Recoverable'
    BY DEF RecInv, Rewriting
  <2>2. \A d : Pushing(d)' = {}
    BY DEF Rewriting, Pushing
  <2> QED BY <2>1, <2>2, NextSound DEF Recoverable
<1>3. Whole(Root)' # {}
  BY <1>2 DEF Reached
<1>4. \A es : Keeps(m, es)' <=> Keeps(m, es)
  BY SameKept DEF Rewriting
<1>5. CASE m = "plain"
  <2>1. o.dir = Root /\ Homes(m)' = {Root}
    BY <1>1, <1>5 DEF Writing, OwnWrite, Homes
  <2>2. AllKeep(m, Root)'
    BY <1>5, <2>1 DEF Older, AllKeep
  <2> QED BY <1>3, <2>1, <2>2, NextAllKeepIsKept
<1>6. CASE m = "magic" /\ o.dir = Root
  <2>1. RootWrite(m, o) /\ Keeps(m, {})'
    BY <1>1, <1>4, <1>6 DEF Writing, RootWrite
  <2>2. ASSUME NEW e \in Homes(m)' PROVE KeptIn(m, e)'
    <3>1. e \in Fresh /\ Stored(Root)' = Joined(e)
      BY <1>6, <2>2 DEF Homes
    <3>2. PICK i \in Shares : Joined(e) = slots'[Root][i].entries
      BY <1>3, <3>1, NextStoredShare DEF Shares
    <3>3. Bare(Joined(e)) \/ Joined(e) = o.entries
      <4>1. RootOlder(o)'
        BY <1>6 DEF Older, RootOlder
      <4>2. Bare(slots'[Root][i].entries) \/ slots'[Root][i].entries = o.entries
        BY <4>1 DEF RootOlder, Shares, Bare
      <4> QED BY <3>2, <4>2
    <3>4. Joined(e) = o.entries /\ ~Bare(o.entries)
      BY <3>1, <3>3, BareFacts
    <3>5. o.own = e /\ KeptIn(m, e)
      BY <1>6, <2>1, <3>1, <3>4, JoinedFacts DEF RootWrite
    <3>6. slots'[e] = slots[e] /\ kept' = kept
      BY <1>6, <3>1, DirFacts DEF Rewriting
    <3> QED BY <3>5, <3>6, SameDir
  <2> QED BY <2>1, <2>2
<1>7. CASE m = "magic" /\ o.dir # Root
  <2>1. o.dir = o.own /\ o.dir \in Fresh /\ slots'[Root] = slots[Root] /\ Stored(Root)' = Stored(Root)
    BY <1>7, RewritingFacts
  <2>2. Homes(m)' = Homes(m) /\ Homes(m) \subseteq Fresh
    BY <1>7, <2>1 DEF Homes
  <2>3. /\ Homes(m) = {} => Keeps(m, {})
        /\ \A d \in Homes(m) : Pushing(d) = {} => KeptIn(m, d)
    BY <1>1, <1>7 DEF Told
  <2>4. ASSUME NEW e \in Homes(m), e # o.dir PROVE KeptIn(m, e)'
    <3>1. slots'[e] = slots[e] /\ kept' = kept
      BY <2>2, <2>4, DirFacts DEF Rewriting
    <3> QED BY <1>1, <2>3, <2>4, <3>1, SameDir
  <2>5. ASSUME o.dir \in Homes(m) PROVE KeptIn(m, o.dir)'
    <3>1. Stored(Root)' = Joined(o.dir)
      BY <1>7, <2>1, <2>5 DEF Homes
    <3>2. PICK i \in Shares : Joined(o.dir) = slots'[Root][i].entries
      BY <1>3, <3>1, NextStoredShare DEF Shares
    <3>3. IsLinked(slots'[Root][i].entries, o.dir)
      BY <2>1, <3>2, JoinedFacts
    <3>4. Whole(o.dir)' # {}
      <4>1. PICK d : d = o.dir
        OBVIOUS
      <4>2. Reached(d)'
        BY <3>3, <4>1 DEF Reached, IsLinked, Links, Shares
      <4> QED BY <1>2, <4>1, <4>2
    <3>5. AllKeep(m, o.dir)'
      BY <1>7 DEF Older, AllKeep
    <3> QED BY <3>4, <3>5, NextAllKeepIsKept
  <2> QED BY <1>4, <2>2, <2>3, <2>4, <2>5
<1> QED BY <1>5, <1>6, <1>7 DEF Mode

\* While it is under way nobody reads its directory.
LEMMA UnderwayKept ==
    ASSUME NEW m \in Mode, NEW p \in Phone, NEW o, NEW v, Rewriting(m, p, o, v),
           op'[p].pc = "push", op'[p].dir = o.dir
    PROVE  (Pushing(Root) = {} => /\ Homes(m) = {} => Keeps(m, {})
                                  /\ \A d \in Homes(m) : Pushing(d) = {} => KeptIn(m, d))'
<1>1. p \in Pushing(o.dir)'
  BY DEF Pushing
<1>2. CASE o.dir # Root
  <2>1. m = "magic" /\ Stored(Root)' = Stored(Root) /\ Pushing(Root) = {} /\ Told(m)
    BY <1>2, RewritingFacts DEF Rewriting
  <2>2. Homes(m)' = Homes(m) /\ Homes(m) \subseteq Fresh
    BY <2>1 DEF Homes
  <2>3. /\ Homes(m) = {} => Keeps(m, {})
        /\ \A d \in Homes(m) : Pushing(d) = {} => KeptIn(m, d)
    BY <2>1 DEF Told
  <2>4. ASSUME NEW e \in Homes(m), e # o.dir PROVE KeptIn(m, e)'
    <3>1. slots'[e] = slots[e] /\ kept' = kept
      BY <2>2, <2>4, DirFacts DEF Rewriting
    <3> QED BY <2>3, <2>4, <3>1, SameDir, RewritingFacts
  <2>5. Keeps(m, {})' <=> Keeps(m, {})
    BY SameKept DEF Rewriting
  <2> QED BY <1>1, <2>2, <2>3, <2>4, <2>5
<1> QED BY <1>1, <1>2

LEMMA RewrittenTold ==
    ASSUME NEW m \in Mode, NEW p \in Phone, NEW o, NEW v, Rewriting(m, p, o, v), NEW r, op'[p] = r,
           IF r.pc = "push" THEN r.dir = o.dir ELSE RecInv' /\ Older(m, o)',
           r.pc # "idle" => OpTold(m, r)'
    PROVE  Told(m)'
<1>1. /\ WriterOK(o) /\ Writing(m, o) /\ o.dir \in Fresh \cup {Root} /\ Told(m) /\ SlotInv
      /\ v # NoShare /\ v.entries = o.entries
  BY RewritingFacts DEF Rewriting
<1>2. \A i \in Shares : slots'[Desk][i] = [seq |-> 1, op |-> 0, entries |-> DeskFiles]
  <2>1. Desk \in Dir \ {o.dir}
    BY <1>1, RootAssumption DEF Dir
  <2>2. slots'[Desk] = slots[Desk]
    BY <2>1 DEF Rewriting
  <2> QED BY <1>1, <2>2 DEF Told
<1>3. ASSUME NEW i \in Shares PROVE slots'[Root][i] # NoShare /\ Shape(m, slots'[Root][i].entries)
  <2>1. slots[Root][i] # NoShare /\ Shape(m, slots[Root][i].entries)
    BY <1>1 DEF Told
  <2>2. CASE o.dir # Root
    BY <2>1, <2>2, RewritingFacts
  <2>3. CASE o.dir = Root
    <3>1. slots'[Root][i] \in {slots[Root][i], v}
      BY <2>3 DEF Rewriting
    <3>2. Shape(m, o.entries)
      BY <1>1, <2>3 DEF Writing, RootWrite, Shape
    <3> QED BY <1>1, <2>1, <3>1, <3>2
  <2> QED BY <2>2, <2>3
<1>4. ASSUME NEW q \in Phone, dmd'[q] # Nothing PROVE Member(m, dmd[q])'
  <2>1. dmd'[q] = dmd[q] /\ Member(m, dmd[q])
    BY <1>1, <1>4 DEF Rewriting, Told
  <2>2. o.dir # Root
    BY <1>1, <1>4, <2>1 DEF Writing, RootWrite
  <2> QED BY <2>1, <2>2, RewritingFacts DEF Member
<1>5. (Pushing(Root) = {} => /\ Homes(m) = {} => Keeps(m, {})
                             /\ \A d \in Homes(m) : Pushing(d) = {} => KeptIn(m, d))'
  <2>1. CASE r.pc = "push"
    BY <2>1, UnderwayKept
  <2>2. CASE r.pc # "push"
    BY <2>2, StoppedKept
  <2> QED BY <2>1, <2>2
<1>6. kept' \in [FileName -> FileContent \cup {Nothing, Gone}]
  BY <1>1 DEF Rewriting, Told
<1>7. ASSUME NEW q \in Phone, NEW x, x = op'[q], x.pc # "idle" PROVE OpTold(m, x)'
  <2>1. q = p
    BY <1>7 DEF Rewriting
  <2> QED BY <1>7, <2>1
<1> QED BY <1>2, <1>3, <1>4, <1>5, <1>6, <1>7 DEF Told, Shares

----------------------------------------------------------------------------

\* A rewrite under way is about to write what it was.
LEMMA StandingAnswered ==
    ASSUME NEW m \in Mode, NEW p \in Phone, NEW o, NEW v, Rewriting(m, p, o, v), NEW pl, NEW s, NEW r,
           Answers(p, o, pl, s, r)
    PROVE  Standing(m, s)' /\ s.pc = "push" /\ s.dir = o.dir /\ s.entries = o.entries
<1>1. /\ WriterOK(o) /\ Standing(m, o) /\ Writing(m, o) /\ o.pc = "push" /\ kept' = kept /\ dmd' = dmd
      /\ o.dir # Root => Stored(Root)' = Stored(Root)
      /\ s = [o EXCEPT !.num = @ + 1, !.placed = pl]
  BY RewritingFacts DEF Rewriting, Answers
<1>2. /\ s.pc = "push" /\ s.dir = o.dir /\ s.entries = o.entries /\ s.own = o.own /\ s.why = o.why
      /\ s.located = o.located /\ s.kind = o.kind /\ s.name = o.name /\ s.content = o.content
  BY <1>1 DEF WriterOK, IsWriter
<1>3. \A es : Keeps(m, es)' <=> Keeps(m, es)
  BY <1>1, SameKept
<1>4. CASE o.dir = Root
  <2>1. o.own \in Fresh /\ KeptIn(m, o.own) => KeptIn(m, o.own)'
    <3>1. o.own \in Fresh => slots'[o.own] = slots[o.own]
      BY <1>4, DirFacts DEF Rewriting
    <3> QED BY <1>1, <3>1, SameDir
  <2>2. RootWrite(m, s)'
    BY <1>1, <1>2, <1>3, <1>4, <2>1 DEF Writing, RootWrite
  <2> QED BY <1>1, <1>2, <1>4, <2>2 DEF Standing, Writing
<1>5. CASE o.dir # Root
  <2>1. OwnWrite(m, s)'
    BY <1>1, <1>2, <1>3, <1>5 DEF Writing, OwnWrite, Publishing, Member
  <2> QED BY <1>1, <1>2, <1>5, <2>1 DEF Standing, Writing
<1> QED BY <1>2, <1>4, <1>5

\* An answer leaves the shares as meant, or with nothing that would tell otherwise.
LEMMA OlderAnswered ==
    ASSUME NEW m \in Mode, NEW p \in Phone, NEW o, NEW v, Rewriting(m, p, o, v), FaultsOK, Faults <= Faults',
           NEW pl, NEW s, NEW r, Answers(p, o, pl, s, r)
    PROVE  (s.num < N /\ Faults' = 1 /\ Undisturbed(s)') \/ Older(m, o)'
<1>1. /\ WriterOK(o) /\ v = Written(o) /\ v.entries = o.entries /\ SlotInv /\ Underway(o) /\ o.pc = "push"
      /\ TestAndSet(o, pl) /\ s = [o EXCEPT !.num = @ + 1, !.placed = pl] /\ (s.num < N \/ s.num = N)
      /\ Faults \in Nat /\ Faults' <= 1
  BY RewritingFacts, FaultsNat DEF Rewriting, Answers, Recoverable
<1>2. s.dir = o.dir /\ Written(s) = v
  BY <1>1 DEF WriterOK, IsWriter, Written
<1>3. ~(m = "magic" /\ o.dir = Root) => Keeps(m, o.entries)'
  BY RewritingFacts
<1>4. \A i \in Shares : slots'[o.dir][i] \in {slots[o.dir][i], v}
  BY DEF Rewriting
<1>5. CASE Older(m, o)
  <2>1. CASE m = "magic" /\ o.dir = Root
    <3>1. RootOlder(o)'
      BY <1>1, <1>4, <1>5, <2>1 DEF Older, RootOlder, Shares, Bare
    <3> QED BY <2>1, <3>1 DEF Older, RootOlder
  <2>2. CASE ~(m = "magic" /\ o.dir = Root)
    <3>1. kept' = kept
      BY DEF Rewriting
    <3>2. AllKeep(m, o.dir)
      BY <1>5, <2>2 DEF Older
    <3>3. ASSUME NEW i \in Shares, slots'[o.dir][i] # NoShare PROVE Keeps(m, slots[o.dir][i].entries)'
      <4>1. PICK es : es = slots'[o.dir][i].entries
        OBVIOUS
      <4>2. CASE slots'[o.dir][i] = v
        BY <1>1, <1>3, <2>2, <4>2 DEF Keeps, HoldsIn
      <4>3. CASE slots'[o.dir][i] = slots[o.dir][i]
        <5>1. Keeps(m, es)
          BY <3>2, <3>3, <4>1, <4>3 DEF AllKeep
        <5>2. Keeps(m, es)'
          BY <3>1, <5>1, SameKept
        <5> QED BY <4>1, <5>2 DEF Keeps, HoldsIn
      <4> QED BY <1>4, <4>2, <4>3
    <3> QED BY <2>2, <3>3 DEF Older, AllKeep, Shares
  <2> QED BY <2>1, <2>2
<1>6. CASE Faults = 1 /\ Undisturbed(o)
  <2>1. Faults' = 1 /\ Faults' = Faults
    BY <1>1, <1>6, FaultsNat DEF Rewriting
  <2>2. \A j \in Shares : AsMeant(s, j)'
    BY <1>1, <1>6, <2>1, AnsweredMeant DEF Undisturbed
  <2>3. Undisturbed(s)'
    BY <2>2 DEF Undisturbed, Shares, AsMeant, Base, Written
  <2>4. CASE s.num = N
    <3>1. \A j \in Shares : j < N
      BY SharesAssumption DEF Shares
    <3>2. \A j \in Shares : slots'[o.dir][j] = v
      BY <1>2, <2>2, <2>4, <3>1 DEF AsMeant, Written
    <3>3. CASE m = "magic" /\ o.dir = Root
      <4>1. RootOlder(o)'
        BY <1>1, <3>2, <3>3 DEF RootOlder, Shares, Bare
      <4> QED BY <3>3, <4>1 DEF Older, RootOlder
    <3>4. CASE ~(m = "magic" /\ o.dir = Root)
      <4>1. \A j \in Shares : Keeps(m, slots[o.dir][j].entries)'
        BY <1>1, <1>3, <3>2, <3>4 DEF Keeps, HoldsIn
      <4> QED BY <3>4, <4>1 DEF Older, AllKeep, Shares
    <3> QED BY <3>3, <3>4
  <2> QED BY <1>1, <2>1, <2>3, <2>4
<1>7. OpTold(m, o) /\ o.pc = "push"
  BY DEF Rewriting, Told
<1> QED BY <1>5, <1>6, <1>7 DEF OpTold

\* A rewrite that is told it succeeded is what its directory holds.
LEMMA FinishedTold ==
    ASSUME NEW m \in Mode, NEW p \in Phone, NEW o, NEW v, Rewriting(m, p, o, v), FaultsOK, Faults <= Faults',
           NEW pl, NEW s, NEW r, Answers(p, o, pl, s, r), Older(m, o)', Cardinality(pl) >= K,
           r = [s EXCEPT !.pc = After(s), !.done = TRUE, !.entries = {}, !.located = <<>>,
                         !.num = 0, !.placed = {}]
    PROVE  r.pc \in {"link", "check"} /\ OpTold(m, r)'
<1>1. /\ WriterOK(o) /\ Standing(m, o) /\ Writing(m, o) /\ v = Written(o) /\ v # NoShare /\ v.entries = o.entries
      /\ SlotInv /\ Underway(o) /\ o.pc = "push" /\ o.dir \in Fresh \cup {Root}
      /\ TestAndSet(o, pl) /\ s = [o EXCEPT !.num = @ + 1, !.placed = pl]
      /\ Faults \in Nat /\ Faults' <= 1 /\ kept' = kept
  BY RewritingFacts, FaultsNat DEF Rewriting, Answers, Recoverable
<1>2. PICK pc : pc = After(s)
  OBVIOUS
<1>3. /\ r.pc = pc /\ r.own = o.own /\ r.done = TRUE /\ r.kind = o.kind /\ r.name = o.name
      /\ r.content = o.content /\ s.why = o.why /\ s.own = o.own
  BY <1>1, <1>2 DEF WriterOK, IsWriter
<1>4. Whole(o.dir)' # {} /\ Stored(o.dir)' = o.entries
  <2>1. \A j \in pl : slots'[o.dir][j] = v
    BY <1>1, AnsweredMeant
  <2>2. pl \in SUBSET Shares
    BY <1>1, SharesAssumption DEF TestAndSet, WriterOK, Shares
  <2> QED BY <1>1, <2>1, <2>2, NextStoredPlaced DEF Shares, NoShare
<1>5. /\ kept'[o.name] = Nothing /\ o.name \in FileName /\ (o.kind = "put" => o.content \in FileContent)
      /\ o.kind # "put" => \A e \in o.entries : e.name # o.name
      /\ o.kind # "put" <=> o.why \in {"drop", "dropinner"}
  BY <1>1 DEF Standing, Writing
<1>6. o.why = "inner" => o.dir \in Fresh
  BY <1>1 DEF WriterOK
<1>7. CASE m = "plain"
  <2>1. o.dir = Root /\ o.own = Nothing /\ Homes(m)' = {Root}
    BY <1>1, <1>7 DEF Writing, OwnWrite, RootWrite, Homes
  <2>2. pc = "check"
    BY <1>2, <1>3, <1>6, <2>1, DirFacts DEF After
  <2> QED BY <1>3, <1>4, <1>5, <2>1, <2>2 DEF OpTold, Standing
<1>8. CASE m = "magic" /\ o.dir = Root
  <2>1. \/ o.why = "drop" /\ o.own = Nothing /\ Bare(Stored(Root)')
        \/ o.why = "link" /\ o.own \in Fresh /\ Stored(Root)' = Joined(o.own)
    BY <1>1, <1>4, <1>8 DEF Writing, RootWrite
  <2>2. pc = "check"
    BY <1>2, <1>3, <2>1 DEF After
  <2>3. o.own = Nothing \/ Member(m, o.own)'
    BY <1>8, <2>1 DEF Member
  <2>4. o.kind # "put" => Homes(m)' = {}
    BY <1>5, <1>8, <2>1, BareFacts DEF Homes
  <2> QED BY <1>3, <1>5, <2>2, <2>3, <2>4 DEF OpTold, Standing
<1>9. CASE m = "magic" /\ o.dir # Root
  <2>1. /\ o.dir = o.own /\ o.own \in Fresh /\ o.why \in {"inner", "dropinner"}
        /\ Member(m, o.own) \/ (o.why = "inner" /\ Bare(Stored(Root)))
        /\ Stored(Root)' = Stored(Root)
    BY <1>1, <1>9, RewritingFacts DEF Writing, OwnWrite
  <2>2. Member(m, o.own) => Member(m, o.own)'
    BY <2>1 DEF Member
  <2>3. CASE o.why = "inner"
    <3>1. pc = "link" /\ o.kind = "put"
      BY <1>2, <1>3, <1>5, <2>3 DEF After
    <3>2. KeptIn(m, o.own)'
      <4>1. AllKeep(m, o.dir)'
        BY <1>9 DEF Older, AllKeep
      <4>2. KeptIn(m, o.dir)'
        BY <1>4, <4>1, NextAllKeepIsKept
      <4> QED BY <2>1, <4>2
    <3> QED BY <1>3, <1>5, <1>9, <2>1, <2>2, <3>1, <3>2 DEF OpTold, Standing
  <2>4. CASE o.why = "dropinner"
    <3>1. pc = "check" /\ Member(m, o.own)
      BY <1>2, <1>3, <2>1, <2>4 DEF After
    <3>2. \A e \in Homes(m)' : e = o.own
      BY <1>9, <2>1, <3>1, JoinedFacts DEF Homes, Member
    <3> QED BY <1>3, <1>4, <1>5, <2>1, <2>2, <3>1, <3>2 DEF OpTold, Standing
  <2> QED BY <2>1, <2>3, <2>4
<1> QED BY <1>7, <1>8, <1>9 DEF Mode

LEMMA PushTold ==
    ASSUME SlotInv, RecInv, RecInv', NEW m \in Mode, Told(m), NEW p \in Phone, Push(p), ~overlapped', Faults' <= 1
    PROVE  Told(m)'
<1>1. /\ FaultsOK /\ FaultsOK' /\ Faults \in Nat /\ Faults' \in Nat /\ Faults <= Faults'
      /\ UNCHANGED <<dmd, kept, overlapped>>
  BY PushAnswers
<1>2. PICK o, pl, s, r : Answers(p, o, pl, s, r)
  BY PushAnswers
<1>3. PICK v : v = Written(o)
  OBVIOUS
<1>4. o = op[p] /\ o.pc = "push" /\ TestAndSet(o, pl) /\ op' = [op EXCEPT ![p] = r] /\ WriterOK(o)
  BY <1>2 DEF Answers, SlotInv, WritersOK
<1>5. /\ \A d \in Dir \ {o.dir} : slots'[d] = slots[d]
      /\ \A i \in Shares : slots'[o.dir][i] \in {slots[o.dir][i], v}
  <2>1. o.dir \in Dir /\ o.num \in Shares
    BY <1>4, DirFacts DEF WriterOK, IsWriter
  <2> QED BY <1>3, <1>4, <2>1 DEF TestAndSet, SlotInv, WritersOK
<1>6. op'[p] = r /\ DOMAIN op' = Phone /\ \A q \in Phone \ {p} : op'[q] = op[q] /\ op[q].pc = "idle"
  BY <1>1, <1>4, OthersIdle DEF SlotInv, WritersOK
<1>7. Rewriting(m, p, o, v)
  <2>1. Faults <= 1
    BY <1>1
  <2> QED BY <1>1, <1>3, <1>4, <1>5, <1>6, <2>1 DEF Rewriting
<1>8. (s.num < N /\ Faults' = 1 /\ Undisturbed(s)') \/ Older(m, o)'
  BY <1>1, <1>2, <1>7, OlderAnswered
<1>9. s.num = N => ~(s.num < N)
  BY SharesAssumption
<1>10. CASE r = s
  <2>1. Standing(m, s)' /\ s.pc = "push" /\ s.dir = o.dir /\ s.entries = o.entries
    BY <1>2, <1>7, StandingAnswered
  <2>2. Older(m, o)' => Older(m, s)'
    BY <2>1 DEF Older, RootOlder, AllKeep
  <2>3. OpTold(m, r)'
    BY <1>8, <1>10, <2>1, <2>2 DEF OpTold
  <2> QED BY <1>6, <1>7, <1>10, <2>1, <2>3, RewrittenTold
<1>11. CASE r = Idle /\ s.num = N
  <2>1. r.pc = "idle"
    BY <1>11 DEF Idle
  <2> QED BY <1>6, <1>7, <1>8, <1>9, <1>11, <2>1, RewrittenTold
<1>12. CASE /\ s.num = N /\ Cardinality(pl) >= K
            /\ r = [s EXCEPT !.pc = After(s), !.done = TRUE, !.entries = {}, !.located = <<>>,
                             !.num = 0, !.placed = {}]
  <2>1. r.pc \in {"link", "check"} /\ OpTold(m, r)'
    BY <1>1, <1>2, <1>7, <1>8, <1>9, <1>12, FinishedTold
  <2> QED BY <1>6, <1>7, <1>8, <1>9, <1>12, <2>1, RewrittenTold
<1> QED BY <1>2, <1>10, <1>11, <1>12 DEF Answers

LEMMA DieTold ==
    ASSUME SlotInv, RecInv, RecInv', NEW m \in Mode, Told(m), NEW p \in Phone, Die(p), ~overlapped', Faults' <= 1
    PROVE  Told(m)'
<1>1. /\ op[p].pc # "idle" /\ End(p) /\ UNCHANGED <<slots, dmd, kept, misses, lost, overlapped>>
      /\ deaths' = deaths + 1
  BY DEF Die
<1>2. FaultsOK /\ FaultsOK' /\ Faults = 0 /\ Faults' = 1
  <2>1. FaultsOK /\ FaultsOK'
    BY <1>1 DEF RecInv, FaultsOK
  <2>2. misses \in Nat /\ lost \in Nat /\ deaths \in Nat
    BY <2>1 DEF FaultsOK
  <2>3. Faults = misses + lost + deaths /\ Faults' = misses' + lost' + deaths'
    BY DEF Faults
  <2> QED BY <1>1, <2>1, <2>2, <2>3
<1>3. CASE op[p].pc # "push"
  <2>1. Telling(m, p)
    BY <1>1, <1>2, <1>3 DEF Telling, Around
  <2> QED BY <1>1, <2>1, EndTold
<1>4. CASE op[p].pc = "push"
  <2>1. PICK o, v : o = op[p] /\ v = Written(o)
    OBVIOUS
  <2>2. op' = [op EXCEPT ![p] = Idle] /\ Idle.pc = "idle"
    BY <1>1 DEF End, Set, Idle
  <2>3. op'[p] = Idle /\ DOMAIN op' = Phone /\ \A q \in Phone \ {p} : op'[q] = op[q] /\ op[q].pc = "idle"
    BY <1>1, <2>2, OthersIdle DEF SlotInv, WritersOK
  <2>4. Rewriting(m, p, o, v)
    BY <1>1, <1>2, <1>4, <2>1, <2>3 DEF Rewriting
  <2>5. Older(m, o)
    BY <1>2, <1>4, <2>1 DEF Told, OpTold
  <2>6. Older(m, o)'
    BY <1>1, <2>5, SameKept DEF Older, RootOlder, AllKeep, Shares
  <2> QED BY <2>2, <2>3, <2>4, <2>6, RewrittenTold
<1> QED BY <1>3, <1>4

----------------------------------------------------------------------------

LEMMA StepCounts ==
    ASSUME SlotInv, RecInv, NextWrite
    PROVE  Faults <= Faults' /\ (overlapped => overlapped')
<1>1. FaultsOK /\ Faults \in Nat
  BY FaultsNat DEF RecInv
<1>2. ASSUME UNCHANGED <<misses, lost, deaths>> PROVE Faults <= Faults'
  BY <1>1, <1>2 DEF Faults
<1>3. ASSUME NEW R \in SUBSET Shares, Missed(R), UNCHANGED <<lost, deaths>> PROVE Faults <= Faults'
  BY <1>1, <1>3, MissedFacts
<1>4. ASSUME NEW p \in Phone, NEW kind, NEW n, NEW c, NEW again, Begin(p, kind, n, c, again)
      PROVE  Faults <= Faults' /\ (overlapped => overlapped')
  BY <1>2, <1>4 DEF Begin
<1>5. ASSUME NEW p \in Phone, UploadFails(p)
      PROVE  Faults <= Faults' /\ (overlapped => overlapped')
  BY <1>2, <1>5 DEF UploadFails, Fail
<1>6. ASSUME NEW p \in Phone, Look(p) \/ Load(p) \/ Inner(p) \/ LinkIn(p) \/ Locate(p) \/ Check(p)
      PROVE  Faults <= Faults' /\ (overlapped => overlapped')
  <2>1. (\E R \in SUBSET Shares : Missed(R)) /\ UNCHANGED <<lost, deaths, overlapped>>
    BY <1>6 DEF Look, Load, Inner, LinkIn, Locate, Check, Reach, Fail, Land
  <2> QED BY <1>3, <2>1
<1>7. ASSUME NEW p \in Phone, Push(p)
      PROVE  Faults <= Faults' /\ (overlapped => overlapped')
  BY <1>7, PushAnswers
<1>8. ASSUME NEW p \in Phone, Die(p)
      PROVE  Faults <= Faults' /\ (overlapped => overlapped')
  <2>1. misses' = misses /\ lost' = lost /\ deaths' = deaths + 1 /\ overlapped' = overlapped
    BY <1>8 DEF Die
  <2>2. misses \in Nat /\ lost \in Nat /\ deaths \in Nat
    BY <1>1 DEF FaultsOK
  <2>3. Faults = misses + lost + deaths /\ Faults' = misses' + lost' + deaths'
    BY DEF Faults
  <2> QED BY <2>1, <2>2, <2>3
<1> QED BY <1>4, <1>5, <1>6, <1>7, <1>8 DEF NextWrite

LEMMA StillKept ==
    ASSUME UNCHANGED dirVars, NEW m \in Mode, Told(m)
    PROVE  Told(m)'
<1>1. slots' = slots /\ op' = op /\ dmd' = dmd /\ kept' = kept /\ Faults' = Faults
  BY DEF dirVars, Faults
<1>2. /\ \A d : Pushing(d)' = Pushing(d)
      /\ Homes(m)' = Homes(m)
      /\ \A d : KeptIn(m, d) => KeptIn(m, d)'
      /\ Keeps(m, {})' <=> Keeps(m, {})
  BY <1>1, SameSlots, SameKept, SameKeptIn DEF Pushing
<1>3. \A q \in Phone : dmd'[q] # Nothing => Member(m, dmd[q])'
  BY <1>1, SameSlots DEF Told, Member
<1>4. ASSUME NEW o, OpTold(m, o) PROVE OpTold(m, o)'
  <2>1. Standing(m, o)'
    BY <1>1, <1>4, SameStanding DEF OpTold
  <2>2. Undisturbed(o)' <=> Undisturbed(o)
    BY <1>1, SameSlots
  <2>3. Older(m, o)' <=> Older(m, o)
    BY <1>1, SameKept DEF Older, RootOlder, AllKeep, Shares
  <2> QED BY <1>1, <1>4, <2>1, <2>2, <2>3 DEF OpTold
<1>5. ASSUME NEW q \in Phone, NEW o, o = op'[q], o.pc # "idle" PROVE OpTold(m, o)'
  BY <1>1, <1>4, <1>5 DEF Told
<1> QED BY <1>1, <1>2, <1>3, <1>5 DEF Told, Shares

LEMMA StepTold ==
    ASSUME SlotInv, RecInv, RecInv', KeptInv, [NextWrite]_dirVars
    PROVE  KeptInv'
<1>1. PICK m \in Mode : ToldInv(m)
  BY DEF KeptInv
<1>2. CASE UNCHANGED dirVars
  <2>1. overlapped' = overlapped /\ Faults' = Faults
    BY <1>2 DEF dirVars, Faults
  <2>2. ToldInv(m)'
    BY <1>1, <1>2, <2>1, StillKept DEF ToldInv
  <2> QED BY <2>2 DEF KeptInv, Mode
<1>3. CASE NextWrite
  <2>1. ASSUME ~overlapped', Faults' <= 1 PROVE Told(m)'
    <3>1. Told(m)
      <4>1. Faults <= Faults' /\ ~overlapped /\ Faults \in Nat /\ Faults' \in Nat
        BY <1>3, <2>1, StepCounts, FaultsNat DEF RecInv
      <4> QED BY <1>1, <2>1, <4>1 DEF ToldInv
    <3>2. ASSUME NEW p \in Phone, NEW f \in Picks, NEW again, Begin(p, "put", f.name, f.to, again) PROVE Told(m)'
      <4>1. f.name \in FileName /\ f.to \in FileContent
        BY PicksAssumption
      <4> QED BY <2>1, <3>1, <3>2, <4>1, BeginTold
    <3>3. ASSUME NEW p \in Phone, NEW n \in FileName, Begin(p, "remove", n, Nothing, FALSE) PROVE Told(m)'
      BY <2>1, <3>1, <3>3, BeginTold
    <3> QED BY <1>3, <2>1, <3>1, <3>2, <3>3, LookTold, UploadFailsTold, LoadTold, InnerTold, LinkInTold,
               LocateTold, PushTold, CheckTold, DieTold DEF NextWrite
  <2> QED BY <2>1 DEF ToldInv, KeptInv, Mode
<1> QED BY <1>2, <1>3

LEMMA InitTold == InitFolder => KeptInv
<1> SUFFICES ASSUME InitFolder PROVE KeptInv
  OBVIOUS
<1>1. PICK raw \in {{}} \cup {{f} : f \in Picks}, magic \in {{}, {Metadata, Link("desk", Desk)}} :
        slots = Folder(raw \cup magic)
  BY DEF InitFolder
<1>2. PICK es : es = raw \cup magic
  OBVIOUS
<1>3. /\ \A i \in Shares : slots[Root][i] = [seq |-> 1, op |-> 0, entries |-> es]
      /\ \A i \in Shares : slots[Desk][i] = [seq |-> 1, op |-> 0, entries |-> DeskFiles]
  <2>1. slots = Folder(es)
    BY <1>1, <1>2
  <2>2. Root \in Dir /\ Desk \in Dir /\ Desk # Root
    BY RootAssumption DEF Dir
  <2> QED BY <2>1, <2>2 DEF Folder
<1>4. \A xs : [seq |-> 1, op |-> 0, entries |-> xs] # NoShare
  BY DEF NoShare
<1>5. \A e \in raw : e.kind = "file" /\ e.name \in FileName
  BY PicksAssumption
<1>6. PICK m \in Mode : m = IF magic = {} THEN "plain" ELSE "magic"
  BY DEF Mode
<1>7. Shape(m, es)
  BY <1>1, <1>2, <1>5, <1>6 DEF Shape, Bare, Mode
<1>8. /\ \A p \in Phone : op[p].pc = "idle" /\ dmd[p] = Nothing
      /\ kept = [n \in FileName |-> Nothing]
  BY DEF InitFolder, Idle
<1>9. \A xs : Keeps(m, xs)
  BY <1>8, ToldAssumption DEF Keeps, HoldsIn
<1>10. \A d : KeptIn(m, d)
  BY <1>9 DEF KeptIn
<1>11. kept \in [FileName -> FileContent \cup {Nothing, Gone}]
  BY <1>8
<1>12. Told(m)
  BY <1>3, <1>4, <1>7, <1>8, <1>9, <1>10, <1>11 DEF Told
<1> QED BY <1>12 DEF ToldInv, KeptInv

\* The rows of a collective are those of the directories it links.
LEMMA RowsAreLinked ==
    ASSUME IsCollective(Stored(Root))
    PROVE  \A r : r \in Rows <=> \E e \in Links(Stored(Root)) : r \in FilesIn(Stored(e.to))
<1>1. Rows = UNION {FilesIn(Stored(e.to)) : e \in Links(Stored(Root))}
  BY DEF Rows
<1> QED BY <1>1

\* What the folder shows is what is stored where the files are kept.
LEMMA ToldIsStored ==
    ASSUME RecInv, NEW m \in Mode, Told(m), Quiescent, Faults <= 1, ~overlapped, NEW n \in FileName
    PROVE  HoldsIn(n, Rows)
<1>1. \A d : Pushing(d) = {}
  BY DEF Pushing, Quiescent
<1>2. Whole(Root) # {}
  BY <1>1, UniformIsWhole DEF RecInv, Recoverable, Reached, Sound
<1>3. PICK es : es = Stored(Root)
  OBVIOUS
<1>4. Shape(m, es)
  BY <1>2, <1>3, RootStored
<1>5. /\ Homes(m) = {} => Keeps(m, {})
      /\ \A d \in Homes(m) : Keeps(m, Stored(d))
  BY <1>1 DEF Told, KeptIn
<1>6. CASE m = "plain"
  <2>1. Rows = FilesIn(es) /\ Homes(m) = {Root}
    BY <1>3, <1>4, <1>6, PlainFacts DEF Rows, Homes
  <2>2. DeskRows(m) = {}
    BY <1>6 DEF DeskRows
  <2> QED BY <1>3, <1>5, <2>1, <2>2 DEF Keeps
<1>7. DeskRows("magic") = FilesIn(Stored(Desk)) /\ FilesIn({}) = {}
  <2>1. Stored(Desk) = DeskFiles
    BY DeskRead
  <2> QED BY <2>1 DEF DeskRows, FilesIn
<1>8. CASE m = "magic" /\ Bare(es)
  <2>1. Rows = FilesIn(Stored(Desk))
    <3>1. IsCollective(Stored(Root)) /\ Links(Stored(Root)) = {Link("desk", Desk)}
      BY <1>3, <1>8, BareFacts
    <3>2. \A r : r \in Rows <=> \E e \in {Link("desk", Desk)} : r \in FilesIn(Stored(e.to))
      BY <3>1, RowsAreLinked
    <3>3. Link("desk", Desk).to = Desk
      BY DEF Link
    <3>4. \A r : r \in Rows <=> r \in FilesIn(Stored(Desk))
      BY <3>2, <3>3
    <3> QED BY <3>4
  <2>2. Homes(m) = {}
    BY <1>3, <1>8, BareFacts DEF Homes
  <2> QED BY <1>5, <1>7, <1>8, <2>1, <2>2 DEF Keeps
<1>9. ASSUME m = "magic", NEW d \in Fresh, es = Joined(d) PROVE HoldsIn(n, Rows)
  <2>1. Rows = FilesIn(Stored(Desk)) \cup FilesIn(Stored(d))
    <3>1. IsCollective(Stored(Root)) /\ Links(Stored(Root)) = {Link("desk", Desk), Link("phone", d)}
      BY <1>3, <1>9, JoinedFacts
    <3>2. \A r : r \in Rows <=> \E e \in {Link("desk", Desk), Link("phone", d)} : r \in FilesIn(Stored(e.to))
      BY <3>1, RowsAreLinked
    <3>3. Link("desk", Desk).to = Desk /\ Link("phone", d).to = d
      BY DEF Link
    <3>4. \A r : r \in Rows <=> r \in FilesIn(Stored(Desk)) \/ r \in FilesIn(Stored(d))
      BY <3>2, <3>3
    <3> QED BY <3>4
  <2>2. d \in Homes(m)
    BY <1>3, <1>9 DEF Homes
  <2>3. HoldsIn(n, FilesIn(Stored(d)) \cup DeskRows(m))
    BY <1>5, <2>2 DEF Keeps
  <2> QED BY <1>7, <1>9, <2>1, <2>3 DEF HoldsIn
<1> QED BY <1>4, <1>6, <1>8, <1>9 DEF Shape, Mode

\* What the last operation on a name was told stays true until the next one on that name, for
\* any number of phones, names, operations one after the other and shares of which 2K - 1 are
\* made: through one request that is not answered or one death of the app, a file that landed is
\* stored and a removed one is not (lg_write.py put_file, remove_file, _read_back). Files only
\* have to be named otherwise than the links of a collective (NamesAssumption).
THEOREM LandedStays == ASSUME N = 2 * K - 1 PROVE DirectorySpec => []LandedIsKept
<1>1. RecInv /\ KeptInv => LandedIsKept
  <2> SUFFICES ASSUME RecInv, KeptInv, Quiescent, Faults <= 1, ~overlapped, NEW n \in FileName
               PROVE  AsTold(n)
    BY DEF LandedIsKept
  <2>1. PICK m \in Mode : Told(m)
    BY DEF KeptInv, ToldInv
  <2>2. HoldsIn(n, Rows)
    BY <2>1, ToldIsStored
  <2>3. CASE kept[n] = Nothing
    BY <2>3, ToldAssumption DEF AsTold
  <2>4. CASE kept[n] = Gone
    <3>1. \A r \in Rows : r.name # n
      BY <2>2, <2>4 DEF HoldsIn
    <3>2. Gone # Nothing
      BY ToldAssumption
    <3> QED BY <2>4, <3>1, <3>2 DEF AsTold
  <2>5. CASE kept[n] \notin {Nothing, Gone}
    <3>1. PICK r \in Rows : r = [name |-> n, to |-> kept[n]]
      BY <2>2, <2>5 DEF HoldsIn
    <3>2. r.name = n /\ r.to = kept[n]
      BY <3>1
    <3> QED BY <2>5, <3>2 DEF AsTold
  <2> QED BY <2>3, <2>4, <2>5
<1>2. SlotInv /\ RecInv /\ KeptInv /\ [NextWrite]_dirVars => (SlotInv /\ RecInv /\ KeptInv)'
  BY StepKeepsSlots, StepKeepsFolder, StepTold
<1> QED BY <1>1, <1>2, InitSlots, InitFolderKept, InitTold, PTL DEF DirectorySpec

================================================================================
