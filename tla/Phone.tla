--------------------------------- MODULE Phone ---------------------------------
(* The Android app around one writable folder: AppModel with its pending rows   *)
(* (FolderWriteBoard), its sheet, the uploads, the one grid job at a time       *)
(* (GridRun) and the session. Screens and callbacks run on the main thread, one *)
(* step each; what Python does on the grid runs beside it and cannot be stopped. *)
(* Cancelling a coroutine drops the answer it would resume with (kotlinx         *)
(* withContext), not an exception. Directory.tla is the inside of one put.       *)
EXTENDS Naturals, FiniteSets

CONSTANTS Name,         \* file names: 1 is what users pick, the others "keep both" names
          Bytes,        \* file contents users pick
          Theirs,       \* a content another phone or a desktop adds
          TheirNames,   \* bound: the names they add it under
          MaxPicks,     \* bound: files picked
          MaxPuts,      \* bound: puts sent
          MaxLaunches,  \* bound: grid jobs launched; one may be stopped, one retried after the last one
          None

ASSUME NameAssumption == Name = 1 .. Cardinality(Name) /\ 1 \in Name

VARIABLES server,       \* name -> content in the folder on the grid
          puts,         \* puts under way on the grid, or answered and not yet delivered
          sent,         \* puts sent
          rows,         \* name -> the pending row
          local,        \* name -> the app's copy of the picked file
          sheet,        \* the question on the screen
          tokens,       \* the next token of the board
          picking,      \* the system picker is open
          picks,        \* files picked
          place,        \* the screen
          listing,      \* the children of the open folder
          session,      \* the joined home, in memory and in session.json
          ticket,       \* GridRun's ticket
          jobs,         \* grid jobs that have not run their finally
          busy,         \* the progress bar
          retry,        \* the name whose failed removal the banner offers to try again
          landed,       \* name -> content the user was shown as on the friendnet
          crossed       \* names on which an older operation was not over when a new one began

grid == <<server, puts, sent>>
board == <<rows, local, sheet, tokens>>
home == <<place, listing, session, retry>>
run == <<ticket, jobs, busy>>
told == <<landed, crossed>>
vars == <<grid, board, picking, picks, home, run, told>>

Content == Bytes \cup {Theirs}
Row == [token : Nat, failed : BOOLEAN]
ASSUME NoneAssumption == None \notin Row
Sheet == [kind : {"none", "clash", "discard", "remove"}, name : Name \cup {None}]
Put == [id : Nat, name : Name, token : Nat, replace : BOOLEAN,
        live : BOOLEAN,
        bytes : Content \cup {None}, pc : {"read", "look", "store", "done"},
        answer : {"none", "ok", "clash", "fail"}]
\* Our folder is in the home; it has a list of servers. (The keys the phone learns of a
\* folder are kept with it, and change neither.)
Session == [folder : BOOLEAN, servers : BOOLEAN]
Job == [id : Nat, kind : {"join", "refresh", "import", "list", "remove", "download"},
        base : Session \cup {None}, name : Name \cup {None},
        seen : [Name -> Content \cup {None}], pc : {"run", "done", "failed"}]

NoSheet == [kind |-> "none", name |-> None]
NoRow == [n \in Name |-> None]
Clash(n) == [kind |-> "clash", name |-> n]

Init == /\ server = NoRow
        /\ puts = {} /\ sent = 0
        /\ rows = NoRow /\ local = NoRow /\ sheet = NoSheet /\ tokens = 1
        /\ picking = FALSE /\ picks = 0
        /\ session \in {None, [folder |-> TRUE, servers |-> TRUE]}
        /\ place = IF session = None THEN "welcome" ELSE "folders"
        /\ listing = NoRow
        /\ ticket = 0 /\ jobs = {} /\ busy = FALSE
        /\ retry = None /\ landed = NoRow /\ crossed = {}

(* ---- one grid job at a time -------------------------------------------------- *)

MayLaunch == ticket < MaxLaunches
Current == {j \in jobs : j.id = ticket}

\* GridRun.launch: the older job is cancelled by the ticket it no longer holds.
Launch(kind, n) ==
    /\ ticket' = ticket + 1
    /\ jobs' = jobs \cup {[id |-> ticket + 1, kind |-> kind, name |-> n, seen |-> NoRow, pc |-> "run",
                           base |-> IF kind = "refresh" THEN session ELSE None]}
    /\ busy' = TRUE

\* GridRun.cancel.
StopRun == /\ ticket <= MaxLaunches
           /\ ticket' = ticket + 1 /\ busy' = FALSE /\ UNCHANGED jobs

\* openFolder: nothing but a banner without a server list.
Reload == IF session # None /\ session.servers THEN MayLaunch /\ Launch("list", None) ELSE UNCHANGED run

\* Fault: every job clears busy when it ends.
EndedAlways(j) == jobs' = jobs \ {j} /\ busy' = FALSE /\ UNCHANGED ticket
\* The finally of a job: only the current one may clear busy.
Ended(j) == jobs' = jobs \ {j} /\ busy' = (busy /\ j.id # ticket) /\ UNCHANGED ticket

\* A cancelled job, whenever the blocking call under it returns: its answer is dropped.
Unwind(j) ==
    /\ j.id # ticket
    /\ Ended(j)
    /\ UNCHANGED <<grid, board, picking, picks, home, told>>

(* ---- session ------------------------------------------------------------------ *)

\* What the app stores; a later reader of the session finds it.
Save(s) == session' = s

Ask(kind, from) ==
    /\ place \in from
    /\ MayLaunch /\ Launch(kind, None) /\ retry' = None
    /\ UNCHANGED <<grid, board, picking, picks, place, listing, session, told>>
Join == ~busy /\ Ask("join", {"welcome"})
Import == ~busy /\ Ask("import", {"import"})
Refresh == session # None /\ Ask("refresh", {"folders"})
\* From the list of folders, or by Retry when it could not be listed again
OpenFolder == /\ place \in {"folders", "folder"} /\ session # None /\ session.folder
              /\ Reload /\ retry' = None
              /\ UNCHANGED <<grid, board, picking, picks, place, listing, session, told>>

\* Only the open folder has children; a banner goes with the screen it is on.
Leave(p) == place' = p /\ listing' = NoRow /\ retry' = None

\* goFolders, goImport: a running job is left alone.
GoTo(p) == /\ Leave(p)
           /\ UNCHANGED <<grid, board, picking, picks, session, run, told>>
Back == place \in {"folder", "ready"} /\ GoTo("folders")
GoImport == place = "folders" /\ GoTo("import")
\* The picker of recovery files answers, with a file, with none or with one too large: it was
\* opened on the first screen or on the import screen, and a join may have ended meanwhile.
RecoveryPicked == place \in {"welcome", "import", "folders"} /\ GoTo("import")

CancelImport ==
    /\ place = "import"
    /\ StopRun
    /\ Leave("welcome")
    /\ UNCHANGED <<grid, board, picking, picks, session, told>>

\* A recovery file was opened: the joined home is dropped before it is read.
BeginRecoveryImport ==
    /\ StopRun
    /\ Save(None)
    /\ Leave("import")
    /\ UNCHANGED <<grid, board, picking, picks, told>>

\* "Forget this phone's session" stops neither uploads nor the grid job.
Forget ==
    /\ place = "folders" /\ session # None
    /\ Save(None)
    /\ Leave("welcome")
    /\ UNCHANGED <<grid, board, picking, picks, run, told>>

\* join keeps the folders of the moment, refresh the whole session it began with, an
\* import the folders of the file (has: ours is one of them) and, without an answer, the
\* servers of the moment.
Learned(j, ok, some, has) ==
    CASE j.kind = "refresh" -> IF ok THEN [j.base EXCEPT !.servers = some] ELSE None
      [] j.kind = "join" -> IF ok THEN [folder |-> session # None /\ session.folder, servers |-> some]
                                  ELSE None
      [] j.kind = "import" -> [folder |-> has, servers |-> IF ok THEN some ELSE session # None /\ session.servers]

\* host.save, or only a banner
Keep(j, next) ==
    IF next = None THEN retry' = None /\ UNCHANGED <<place, listing, session>>
    ELSE Save(next) /\ Leave("folders")

\* withContext hands the answer of the grid to a job that was not cancelled, and to no other.
FinishLearn(j, ok, some, has) ==
    /\ j.id = ticket /\ j.kind \in {"join", "refresh", "import"}
    /\ Keep(j, Learned(j, ok, some, has))
    /\ Ended(j)
    /\ UNCHANGED <<grid, board, picking, picks, told>>

\* The call under a cancelled job throws: learn() has a null of it, which to an import is
\* a home to save.
LateSaved(j, has) == IF j.kind = "import" THEN Learned(j, FALSE, FALSE, has) ELSE None
ThrowsLate(j, has) ==
    /\ j.id # ticket /\ j.kind \in {"join", "refresh", "import", "list"}
    /\ Keep(j, LateSaved(j, has))
    /\ Ended(j)
    /\ UNCHANGED <<grid, board, picking, picks, told>>

\* What was pasted is no invite, or the recovery file does not decode, which shows a banner
\* also when the import was cancelled meanwhile.
Refused(j) ==
    /\ j.kind = "import" \/ (j.kind = "join" /\ j.id = ticket)
    /\ Keep(j, None)
    /\ Ended(j)
    /\ UNCHANGED <<grid, board, picking, picks, told>>

(* ---- listing, download, remove ------------------------------------------------ *)

Change(j, r) == jobs' = (jobs \ {j}) \cup {r} /\ UNCHANGED <<ticket, busy>>

\* The grid is read some time before the answer is taken up (if it still is by then).
ReadList(j) ==
    /\ j.id = ticket /\ j.kind = "list" /\ j.pc = "run"
    /\ Change(j, [j EXCEPT !.pc = "done", !.seen = server])
    /\ UNCHANGED <<grid, board, picking, picks, home, told>>

FinishList(j, ok) ==
    /\ j.id = ticket /\ j.kind = "list"
    /\ ok => j.pc = "done"
    /\ IF ok THEN place' = "folder" /\ listing' = j.seen ELSE UNCHANGED <<place, listing>>
    /\ Ended(j)
    /\ UNCHANGED <<grid, board, picking, picks, session, retry, told>>

\* What the open folder shows of a name: its pending row, which hides the listed file.
PendingCard(n) == place = "folder" /\ rows[n] # None
FileCard(n) == place = "folder" /\ listing[n] # None /\ rows[n] = None

Download(n) ==
    /\ FileCard(n) /\ session # None
    /\ Leave("download")
    /\ MayLaunch /\ Launch("download", n)
    /\ UNCHANGED <<grid, board, picking, picks, session, told>>

\* After a failed download the folder is shown with the children of the screen on
\* show, which is the folder's only if it was opened once more meanwhile.
FinishDownload(j, ok) ==
    /\ j.id = ticket /\ j.kind = "download"
    /\ IF ok THEN Leave("ready")
       ELSE place' = "folder" /\ UNCHANGED <<listing, retry>>
    /\ Ended(j)
    /\ UNCHANGED <<grid, board, picking, picks, session, told>>

CancelDownload ==
    /\ place = "download"
    /\ StopRun
    /\ Leave("folders")
    /\ UNCHANGED <<grid, board, picking, picks, session, told>>

\* There is one sheet: a question takes the place of any other, unanswered.
Show(s) == sheet' = s
\* It is shown, and answered, on the screen of the folder only.
Asked(kinds) == place = "folder" /\ sheet.kind \in kinds

AskRemove(n) ==
    /\ FileCard(n)
    /\ Show([kind |-> "remove", name |-> n])
    /\ UNCHANGED <<grid, rows, local, tokens, picking, picks, home, run, told>>

\* Other operations on a name that are still on their way to the grid.
Crossing(n) == \/ \E q \in puts : q.name = n /\ q.pc # "done"
               \/ \E j \in jobs : j.kind = "remove" /\ j.name = n /\ j.pc = "run"
Cross(n) == crossed' = IF Crossing(n) THEN crossed \cup {n} ELSE crossed
\* A removal also crosses an add of the name that has its row still.
CrossRow(n) == crossed' = IF Crossing(n) \/ rows[n] # None THEN crossed \cup {n} ELSE crossed

\* The file is the folder's business again.
Unland(n) == landed' = [landed EXCEPT ![n] = None]

ConfirmRemove ==
    /\ Asked({"remove"})
    /\ sheet' = NoSheet
    /\ Unland(sheet.name) /\ CrossRow(sheet.name)
    /\ IF session = None THEN UNCHANGED <<run, retry>>
       ELSE MayLaunch /\ Launch("remove", sheet.name) /\ retry' = None
    /\ UNCHANGED <<grid, rows, local, tokens, picking, picks, place, listing, session>>

\* Retry after a failed removal: it is not asked again, whatever the name is by now.
RetryRemove ==
    /\ retry # None /\ ticket <= MaxLaunches
    /\ Unland(retry) /\ CrossRow(retry)
    /\ Launch("remove", retry) /\ retry' = None
    /\ UNCHANGED <<grid, board, picking, picks, place, listing, session>>

Dismiss ==
    /\ retry # None /\ retry' = None
    /\ UNCHANGED <<grid, board, picking, picks, place, listing, session, run, told>>

\* remove_file on the grid, whether or not the job is still current.
RemoveFile(j) ==
    /\ j.kind = "remove" /\ j.pc = "run"
    /\ \/ /\ server' = [server EXCEPT ![j.name] = None]
          /\ \E pc \in {"done", "failed"} : Change(j, [j EXCEPT !.pc = pc])
       \/ server' = server /\ Change(j, [j EXCEPT !.pc = "failed"])
    /\ UNCHANGED <<puts, sent, board, picking, picks, home, told>>

\* After a success the folder is listed again, by a job of its own.
FinishRemove(j, ok) ==
    /\ j.id = ticket /\ j.kind = "remove"
    /\ j.pc = IF ok THEN "done" ELSE "failed"
    /\ IF ok /\ place = "folder" /\ session # None /\ session.servers /\ MayLaunch
       THEN Launch("list", None) ELSE Ended(j)
    /\ retry' = IF ok THEN None ELSE j.name
    /\ UNCHANGED <<grid, board, picking, picks, place, listing, session, told>>

(* ---- adding a file -------------------------------------------------------------- *)

Listed == IF place = "folder" THEN {n \in Name : listing[n] # None} ELSE {}
Taken == Listed \cup {n \in Name : rows[n] # None}

\* Fault: the older put of the row is not cancelled.
QuietNone(n) == puts
\* uploads.remove(key)?.cancel(): the answer of the put will be dropped.
Quiet(n) == {IF q.name = n THEN [q EXCEPT !.live = FALSE] ELSE q : q \in puts}

NextToken == tokens + 1

\* startUpload. A row that is there keeps its token; without a server list the row
\* is a failed one from the start. Either way the banner goes, or is another one.
StartUpload(n, replace) ==
    IF session = None THEN UNCHANGED <<rows, tokens, puts, sent, retry>>
    ELSE IF ~session.servers
    THEN /\ retry' = None
         /\ rows' = [rows EXCEPT ![n] = [token |-> tokens, failed |-> TRUE]]
         /\ tokens' = NextToken
         /\ UNCHANGED <<puts, sent>>
    ELSE LET token == IF rows[n] = None THEN tokens ELSE rows[n].token
         IN /\ sent < MaxPuts
            /\ retry' = None
            /\ rows' = [rows EXCEPT ![n] = [token |-> token, failed |-> FALSE]]
            /\ tokens' = IF rows[n] = None THEN NextToken ELSE tokens
            /\ sent' = sent + 1
            /\ puts' = Quiet(n) \cup
                  {[id |-> sent + 1, name |-> n, token |-> token, replace |-> replace,
                    live |-> TRUE, bytes |-> None, pc |-> "read", answer |-> "none"]}

AddFile == /\ place = "folder" /\ ~busy /\ ~picking /\ picks < MaxPicks
           /\ picking' = TRUE
           /\ UNCHANGED <<grid, board, picks, home, run, told>>

\* The copy is written before the name is looked at. The screen may have changed
\* while the picker was open.
FilePicked(b) ==
    /\ picking
    /\ picking' = FALSE /\ picks' = picks + 1
    /\ local' = [local EXCEPT ![1] = b]
    /\ Cross(1)
    /\ IF 1 \in Taken
       THEN /\ Show(Clash(1))
            /\ UNCHANGED <<rows, tokens, puts, sent, retry, landed>>
       ELSE /\ StartUpload(1, FALSE)
            /\ Unland(1)
            /\ UNCHANGED sheet
    /\ UNCHANGED <<server, place, listing, session, run>>

\* The picker was left, or the file could not be read or held.
NothingPicked == /\ picking /\ picking' = FALSE
                 /\ retry' \in {retry, None}
                 /\ UNCHANGED <<grid, board, picks, place, listing, session, run, told>>

InSession == session # None /\ session.folder

ReplaceClash ==
    /\ Asked({"clash"})
    /\ sheet' = NoSheet
    /\ IF InSession
       THEN /\ StartUpload(sheet.name, TRUE)
            /\ Unland(sheet.name)
            /\ Cross(sheet.name)
       ELSE UNCHANGED <<rows, tokens, puts, sent, retry, told>>
    /\ UNCHANGED <<server, local, picking, picks, place, listing, session, run>>

\* The first name after n that is free, if there is one
KeepBothName(m, n, taken) == /\ m > n /\ m \notin taken
                             /\ \A k \in Name : k > n /\ k \notin taken => m <= k

KeepBothClash ==
    /\ Asked({"clash"})
    /\ sheet' = NoSheet
    /\ \E m \in Name :
         LET n == sheet.name
         IN /\ KeepBothName(m, n, Taken)
            /\ IF InSession /\ local[n] # None
               THEN /\ local' = [local EXCEPT ![m] = local[n], ![n] = None]
                    /\ StartUpload(m, FALSE)
                    /\ Unland(m)
                    /\ Cross(m)
               ELSE /\ retry' = IF InSession THEN None ELSE retry
                    /\ UNCHANGED <<rows, tokens, puts, sent, local, told>>
    /\ UNCHANGED <<server, picking, picks, place, listing, session, run>>

CancelClash ==
    /\ Asked({"clash"})
    /\ local' = [local EXCEPT ![sheet.name] = None]
    /\ sheet' = NoSheet
    /\ UNCHANGED <<grid, rows, tokens, picking, picks, home, run, told>>

AskDiscard(n) ==
    /\ PendingCard(n)
    /\ Show([kind |-> "discard", name |-> n])
    /\ UNCHANGED <<grid, rows, local, tokens, picking, picks, home, run, told>>

\* The row and its copy go; the put on the grid goes on.
ConfirmDiscard ==
    /\ Asked({"discard"})
    /\ sheet' = NoSheet
    /\ LET n == sheet.name
       IN IF rows[n] = None THEN UNCHANGED <<rows, local, puts>>
          ELSE /\ rows' = [rows EXCEPT ![n] = None]
               /\ local' = [local EXCEPT ![n] = None]
               /\ puts' = Quiet(n)
    /\ UNCHANGED <<server, sent, tokens, picking, picks, home, run, told>>

CancelSheet ==
    /\ Asked({"remove", "discard"})
    /\ sheet' = NoSheet
    /\ UNCHANGED <<grid, rows, local, tokens, picking, picks, home, run, told>>

\* Retry replaces whatever the open folder lists under the name by now.
RetryUpload(n) ==
    /\ PendingCard(n) /\ rows[n].failed
    /\ StartUpload(n, n \in Listed)
    /\ UNCHANGED <<server, local, sheet, picking, picks, place, listing, session, run, told>>

(* ---- a put on the grid, and its answer ------------------------------------------ *)

Becomes(q, r) == /\ puts' = (puts \ {q}) \cup {r}
                 /\ UNCHANGED <<sent, board, picking, picks, home, run, told>>
Answer(q, a) == Becomes(q, [q EXCEPT !.pc = "done", !.answer = a])

ReadCopy(q) ==
    /\ q.pc = "read"
    /\ IF local[q.name] = None THEN Answer(q, "fail")
       ELSE Becomes(q, [q EXCEPT !.pc = "look", !.bytes = local[q.name]])
    /\ UNCHANGED server

LookAt(q) ==
    /\ q.pc = "look"
    /\ LET there == server[q.name]
       IN \/ there = q.bytes /\ ~q.replace /\ Answer(q, "ok")
          \/ there \notin {None, q.bytes} /\ ~q.replace /\ Answer(q, "clash")
          \/ (there = None \/ q.replace) /\ Becomes(q, [q EXCEPT !.pc = "store"])
          \/ Answer(q, "fail")
    /\ UNCHANGED server

\* Stored and read back, stored with the answer lost, or not stored.
Store(q) ==
    /\ q.pc = "store"
    /\ \/ server' = [server EXCEPT ![q.name] = q.bytes] /\ \E a \in {"ok", "fail"} : Answer(q, a)
       \/ server' = server /\ Answer(q, "fail")

\* The row this put was sent for is still there.
Counts(q) == q.live /\ (IF rows[q.name] = None THEN FALSE ELSE rows[q.name].token = q.token)

\* 45 s without an answer.
Silence(q) ==
    /\ q.answer = "none" /\ Counts(q)
    /\ ~rows[q.name].failed
    /\ rows' = [rows EXCEPT ![q.name].failed = TRUE]
    /\ retry' = None
    /\ UNCHANGED <<grid, local, sheet, tokens, picking, picks, place, listing, session, run, told>>

\* Another participant adds a file.
Arrive(n) ==
    /\ n \in TheirNames /\ server[n] = None
    /\ server' = [server EXCEPT ![n] = Theirs]
    /\ UNCHANGED <<puts, sent, board, picking, picks, home, run, told>>

\* The answer of a cancelled put, or of one whose row is gone or another by now.
Dropped(q) ==
    /\ q.pc = "done"
    /\ ~Counts(q)
    /\ puts' = puts \ {q}
    /\ UNCHANGED <<server, sent, board, picking, picks, home, run, told>>

Answered(q) ==
    /\ q.pc = "done" /\ Counts(q)
    /\ puts' = puts \ {q}
    /\ UNCHANGED <<server, sent, tokens, picking, picks, crossed>>

\* "already in this folder": the row gives way to the question.
PutClashes(q) ==
    /\ Answered(q) /\ q.answer = "clash"
    /\ rows' = [rows EXCEPT ![q.name] = None]
    /\ sheet' = Clash(q.name)
    /\ UNCHANGED <<local, home, run, landed>>

\* Fault: the failed answer is shown, the row is not marked.
PutFailsUnmarked(q) ==
    /\ Answered(q) /\ q.answer = "fail"
    /\ retry' = None
    /\ UNCHANGED <<rows, sheet, local, place, listing, session, run, landed>>
PutFails(q) ==
    /\ Answered(q) /\ q.answer = "fail"
    /\ rows' = [rows EXCEPT ![q.name].failed = TRUE]
    /\ retry' = None
    /\ UNCHANGED <<sheet, local, place, listing, session, run, landed>>

\* Fault: a clash is taken for the file having landed.
LandsAnyAnswer(q) == q.answer \in {"ok", "clash"}
Lands(q) == q.answer = "ok"

\* Acknowledged: the row becomes a child of the open folder, which is listed again.
PutLands(q) ==
    /\ Answered(q) /\ Lands(q)
    /\ rows' = [rows EXCEPT ![q.name] = None]
    /\ local' = [local EXCEPT ![q.name] = None]
    /\ landed' = [landed EXCEPT ![q.name] = q.bytes]
    /\ retry' = None
    /\ IF place = "folder"
       THEN /\ listing' = [listing EXCEPT ![q.name] = q.bytes]
            /\ IF MayLaunch THEN Reload ELSE UNCHANGED run
       ELSE UNCHANGED <<listing, run>>
    /\ UNCHANGED <<sheet, place, session>>

Next ==
    \/ Join \/ Import \/ Refresh \/ OpenFolder \/ Back \/ GoImport \/ RecoveryPicked
    \/ CancelImport \/ BeginRecoveryImport \/ Forget \/ CancelDownload
    \/ \E j \in jobs : \/ Unwind(j) \/ Refused(j) \/ ReadList(j) \/ RemoveFile(j)
                       \/ \E has \in BOOLEAN : ThrowsLate(j, has)
                       \/ \E ok \in BOOLEAN : \/ \E some, has \in BOOLEAN : FinishLearn(j, ok, some, has)
                                              \/ FinishList(j, ok)
                                              \/ FinishDownload(j, ok)
                                              \/ FinishRemove(j, ok)
    \/ \E n \in Name : \/ Download(n) \/ AskRemove(n) \/ AskDiscard(n) \/ RetryUpload(n) \/ Arrive(n)
    \/ ConfirmRemove \/ RetryRemove \/ Dismiss \/ ConfirmDiscard \/ CancelSheet
    \/ AddFile \/ NothingPicked \/ \E b \in Bytes : FilePicked(b)
    \/ ReplaceClash \/ KeepBothClash \/ CancelClash
    \/ \E q \in puts : \/ ReadCopy(q) \/ LookAt(q) \/ Store(q) \/ Silence(q)
                       \/ Dropped(q) \/ PutClashes(q) \/ PutFails(q) \/ PutLands(q)

Spec == Init /\ [][Next]_vars

\* The main thread runs the timers and takes up the answers.
Settles(n) == \E q \in puts : q.name = n /\ (Silence(q) \/ PutClashes(q) \/ PutFails(q) \/ PutLands(q))
FairSpec == Spec /\ \A n \in Name : WF_vars(Settles(n))

(* ---- properties ----------------------------------------------------------------- *)

\* The progress bar is on exactly while the newest grid job runs: an older job that
\* ends late does not switch it off, none leaves it on (GridRun.kt finally).
BusyIsCurrent == busy <=> Current # {}

\* A row has one put whose answer counts, so a late answer to an earlier try
\* neither fails nor lands a row that was sent again (AppModel.kt startUpload).
OneLivePut == \A q, r \in puts : q.live /\ r.live /\ q.name = r.name => q = r

\* "On friendnet" is true as long as the user leaves the file alone: the folder holds
\* the bytes of the row that was acknowledged, unless an older operation on the name was still
\* under way on the grid when this one began, or the name was removed while its row was there
\* (AppModel.kt startUpload, confirmDiscard, confirmRemove, removeLanded).
LandedIsOnGrid == \A n \in Name \ crossed : landed[n] # None => server[n] = landed[n]

\* A row that is being sent lands, fails or gives way to a question (ADD_SILENCE_MS).
SendingSettles == \A n \in Name : (rows[n] # None /\ ~rows[n].failed) ~> (rows[n] = None \/ rows[n].failed)
================================================================================
