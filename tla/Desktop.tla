------------------------------ MODULE Desktop ------------------------------
(***************************************************************************)
(* One Sync home and the processes started on it: windows (cli.main,       *)
(* app.run_app) and launches with --join that find no window and join      *)
(* without one (cli._join_headless).  A window holds the instance lock,    *)
(* listens for the invites of later launches, and starts a Tahoe node and  *)
(* a Magic Folder daemon which its shutdown stops.                         *)
(*                                                                         *)
(* The Python thread of a window dispatches Qt events in its event loop    *)
(* and inside every processEvents call, so a close can run quit() in the   *)
(* middle of a start or a join: pc is what the thread returns to, stage    *)
(* how far shutdown() has come.  QLockFile, Qt's loop, tahoe and           *)
(* magic-folder are external: a lock is free or has one live holder (the   *)
(* lock of a dead process is taken over at once), app.quit() does nothing  *)
(* unless exec_() runs.  Left out: modal dialogs, the inviting side's      *)
(* `tahoe invite` child, the flags that drive a window without a person.   *)
(***************************************************************************)
EXTENDS Naturals, Sequences

CONSTANTS
    Proc,       \* processes of this home; a process that ended may be started again
    Invite,     \* texts a person types or passes with --join
    MaxRuns,    \* bound: launches that find the home free
    MaxMail,    \* bound: invites waiting to be received
    MaxFaults, \* bound: processes killed and daemons that exit by themselves
    None        \* no process, no text

ASSUME DesktopAssumption ==
    /\ MaxRuns \in Nat /\ MaxMail \in Nat /\ MaxFaults \in Nat
    /\ None \notin Proc /\ None \notin Invite

VARIABLES
    lock,       \* the process holding the instance lock
    server,     \* the process listening at the hand-off endpoint
    node,       \* the Tahoe node directory exists
    stray,      \* daemons nobody will stop, per kind: none, some, one that answers
    pc,         \* where the thread of each process is
    at,         \* what it is in the middle of: "auto", "join", "reload" or "cli"
    stage,      \* the next step of shutdown(), "none" outside it
    exec,       \* app.exec_(): "before", "running", "leaving"
    quitting,   \* _quitting
    joined,     \* _joined
    own,        \* the child behind tahoe._proc and mf._proc
    field,      \* the Join field (of a launch with --join: its invite)
    pending,    \* the invite the open replace question would apply
    mail,       \* invites sent to the process and not yet received
    runs, faults

home == <<lock, server, node, stray>>
thread == <<pc, at, stage, exec, quitting, joined>>
invites == <<field, pending, mail>>
vars == <<home, thread, own, invites, runs, faults>>

Kind == {"tahoe", "mf"}

\* The leader of the daemon's process group: not there, started, answering,
\* sent SIGTERM, exited and not reaped (its group may still have members).
Daemon == {"none", "starting", "up", "termed", "zombie"}

Points == {"shown", "busy", "ready", "failed", "loop"}
Steps == Points \cup
    {"off", "create", "bring", "await", "connect", "main", "mfwait",
     "exec", "reload", "final", "probe", "held", "stopping"}

TypeOK ==
    /\ lock \in Proc \cup {None} /\ server \in Proc \cup {None}
    /\ node \in BOOLEAN
    /\ stray \in [Kind -> {"none", "left", "up"}]
    /\ pc \in [Proc -> Steps] /\ at \in [Proc -> {"auto", "join", "reload", "cli"}]
    /\ stage \in [Proc -> {"none", "server", "mf", "tahoe", "lock"}]
    /\ exec \in [Proc -> {"before", "running", "leaving"}]
    /\ quitting \in [Proc -> BOOLEAN] /\ joined \in [Proc -> BOOLEAN]
    /\ own \in [Proc -> [Kind -> Daemon]]
    /\ field \in [Proc -> Invite \cup {None}] /\ pending \in [Proc -> Invite \cup {None}]
    /\ mail \in [Proc -> Seq(Invite)]
    /\ runs \in 0..MaxRuns /\ faults \in 0..MaxFaults
    /\ \A p \in Proc : pc[p] = "off" =>
          own[p] = [k \in Kind |-> "none"] /\ lock # p /\ server # p /\ pending[p] = None

Init ==
    /\ lock = None /\ server = None /\ node \in BOOLEAN
    /\ stray = [k \in Kind |-> "none"]
    /\ pc = [p \in Proc |-> "off"] /\ at = [p \in Proc |-> "auto"]
    /\ stage = [p \in Proc |-> "none"] /\ exec = [p \in Proc |-> "before"]
    /\ quitting = [p \in Proc |-> FALSE] /\ joined = [p \in Proc |-> FALSE]
    /\ own = [p \in Proc |-> [k \in Kind |-> "none"]]
    /\ field = [p \in Proc |-> None] /\ pending = [p \in Proc |-> None]
    /\ mail = [p \in Proc |-> <<>>] /\ runs = 0 /\ faults = 0

----------------------------------------------------------------------------
(* Launches. *)

\* p's code runs on: it is not inside shutdown().
At(p, step) == pc[p] = step /\ stage[p] = "none"
Goto(p, step) ==
    /\ pc' = [pc EXCEPT ![p] = step]
    /\ at' = IF step \in {"loop", "off"} THEN [at EXCEPT ![p] = "auto"] ELSE at

\* Fault: a lock that is held is taken over.
TryLockHeld(p) == lock' = p

\* acquire_instance_lock, and the probe of _lock_is_held.
TryLock(p) == lock = None /\ lock' = p

\* run_app: a refused launch says "already running" and ends.
LaunchWindow(p) ==
    /\ pc[p] = "off" /\ runs < MaxRuns
    /\ TryLock(p)
    /\ Goto(p, "shown")
    /\ runs' = runs + 1
    /\ UNCHANGED <<server, node, stray, stage, exec, quitting, joined, own, invites, faults>>

LockIsHeld == lock # None

\* cli.main with --join: hand_join_invite looks at the lock by taking it.
LaunchJoin(p, x) ==
    /\ pc[p] = "off"
    /\ \/ /\ runs < MaxRuns
          /\ TryLock(p)
          /\ pc' = [pc EXCEPT ![p] = "probe"]
          /\ runs' = runs + 1
       \/ /\ LockIsHeld /\ (server # None => Len(mail[server]) < MaxMail)
          /\ pc' = [pc EXCEPT ![p] = "held"]
          /\ UNCHANGED <<lock, runs>>
    /\ at' = [at EXCEPT ![p] = "cli"]
    /\ field' = [field EXCEPT ![p] = x]
    /\ UNCHANGED <<server, node, stray, stage, exec, quitting, joined, own, pending, mail,
                   faults>>

\* "free": the probe lets go of the lock, and _join_headless joins without it.
Probed(p) ==
    /\ pc[p] = "probe"
    /\ lock' = None
    /\ Goto(p, IF node THEN "bring" ELSE "create")
    /\ field' = [field EXCEPT ![p] = None]
    /\ UNCHANGED <<server, node, stray, stage, exec, quitting, joined, own, pending, mail,
                   runs, faults>>

\* _inspect_posix_endpoint: whom a launch connects to, nobody when the socket or its
\* directory is not there or is not this user's alone.
Inspect == {server, None}

\* "sent" once somebody's socket has the bytes, else "busy".
HandOver(p) ==
    /\ pc[p] = "held"
    /\ \E s \in Inspect :
         mail' = IF s = None THEN mail ELSE [mail EXCEPT ![s] = Append(@, field[p])]
    /\ Goto(p, "off")
    /\ field' = [field EXCEPT ![p] = None]
    /\ UNCHANGED <<home, stage, exec, quitting, joined, own, pending, runs, faults>>

----------------------------------------------------------------------------
(* The thread of a window, and of a join without one. *)

InLoop(p) == At(p, "loop") /\ exec[p] = "running"

Reachable(k) == /\ k = "tahoe" => node
                /\ stray[k] = "up" \/ \E p \in Proc : own[p][k] = "up"

\* Qt events reach the window here: in its loop, and in processEvents.
Dispatching(p) == pc[p] \in Points /\ stage[p] = "none"

\* Where a join or a restart goes when it fails, and when the node answers.
Failed(p) == CASE at[p] = "auto" -> "failed" [] at[p] = "cli" -> "stopping" [] OTHER -> "loop"
Succeeded(p) == CASE at[p] = "auto" -> "ready" [] at[p] = "cli" -> "stopping" [] OTHER -> "main"
Started(p) == IF at[p] = "reload" THEN "loop" ELSE "connect"

\* _ensure_private_dir and _clear_owned_socket: the endpoint stays as it is where the directory
\* or the socket is not this user's, else a socket left there goes.
Cleared == {server, None}

\* _start_join_server: the endpoint is p's now, whoever had it before, unless it could not be
\* cleared or listened at; then _try_autoload joins when there is a node to attach to.
Listen(p) ==
    /\ At(p, "shown")
    /\ server' \in Cleared \cup {p}
    /\ Goto(p, IF node THEN "busy" ELSE "exec")
    /\ UNCHANGED <<lock, node, stray, stage, exec, quitting, joined, own, invites, runs, faults>>

\* on_join_invite and on_join_existing, up to the processEvents of _join_busy
Join(p) ==
    /\ InLoop(p) /\ ~joined[p]
    /\ field[p] # None \/ node
    /\ pc' = [pc EXCEPT ![p] = "busy"]
    /\ at' = [at EXCEPT ![p] = "join"]
    /\ UNCHANGED <<home, stage, exec, quitting, joined, own, invites, runs, faults>>

\* join_existing, or join_invite, which looks for a node directory first
Begin(p) ==
    /\ At(p, "busy")
    /\ Goto(p, IF node THEN "bring"
               ELSE IF at[p] = "join" /\ field[p] # None THEN "create" ELSE Failed(p))
    /\ UNCHANGED <<home, stage, exec, quitting, joined, own, invites, runs, faults>>

\* create_node: a directory somebody else made by now is used if it is seen in
\* time; otherwise tahoe refuses it, and after such a failure it is removed.
Create(p) ==
    /\ At(p, "create")
    /\ \/ node' = TRUE /\ Goto(p, "bring")
       \/ node' \in {FALSE, node} /\ Goto(p, Failed(p))
    /\ UNCHANGED <<lock, server, stray, stage, exec, quitting, joined, own, invites, runs, faults>>

\* TahoeClient.start: a node that answers is used, a child that runs is not
\* waited for, the group of one that exited is killed first.
Bring(p) ==
    /\ At(p, "bring")
    /\ IF Reachable("tahoe") \/ (node /\ own[p]["tahoe"] = "starting")
       THEN Goto(p, Started(p)) /\ UNCHANGED own
       ELSE IF ~node THEN Goto(p, Failed(p)) /\ UNCHANGED own
       ELSE Goto(p, "await") /\ own' = [own EXCEPT ![p]["tahoe"] = "starting"]
    /\ UNCHANGED <<home, stage, exec, quitting, joined, invites, runs, faults>>

\* ... until it answers, has exited (and is reaped), or the time is up.
Await(p) ==
    /\ At(p, "await")
    /\ \/ Reachable("tahoe") /\ Goto(p, Started(p)) /\ UNCHANGED own
       \/ /\ own[p]["tahoe"] = "zombie" /\ Goto(p, Failed(p))
          /\ own' = [own EXCEPT ![p]["tahoe"] = "none"]
       \/ own[p]["tahoe"] \in {"starting", "up"} /\ Goto(p, Failed(p)) /\ UNCHANGED own
    /\ UNCHANGED <<home, stage, exec, quitting, joined, invites, runs, faults>>

\* wait_connected may report this of a node that answers,
Connected == Reachable("tahoe")

\* but the introducer may be out of reach.
Connect(p) ==
    /\ At(p, "connect")
    /\ \/ Connected /\ Goto(p, Succeeded(p))
       \/ Goto(p, Failed(p))
    /\ UNCHANGED <<home, stage, exec, quitting, joined, own, invites, runs, faults>>

\* _dismiss_handed_replace_box: the question is gone, with what it asked.
Dismiss(p) == pending' = [pending EXCEPT ![p] = None]

Back(p) == IF exec[p] = "before" THEN "exec" ELSE "loop"

\* s, and a daemon in state d whose process object is dropped.
Lost(s, d) == CASE d = "none" \/ s = "up" -> s [] d = "up" -> "up" [] OTHER -> "left"

\* ensure_running starts a daemon when none answers, also a second one: nothing
\* refers to the first any more.
EnsureRunning(p) ==
    /\ ~Reachable("mf")
    /\ Goto(p, "mfwait")
    /\ own' = [own EXCEPT ![p]["mf"] = "starting"]
    /\ stray' = [stray EXCEPT !["mf"] = Lost(@, own[p]["mf"])]

\* list_folders: a daemon that answers is used, a port that is taken is an error.
ListFolders(p) == EnsureRunning(p) \/ (Goto(p, Back(p)) /\ UNCHANGED <<own, stray>>)

\* refresh(): at the end of _enter_main, by the poll timer, by Retry.  The Join page is gone
\* for good: nobody reads its field or its question again.
Refresh(p) ==
    /\ At(p, "ready") \/ At(p, "main") \/ (InLoop(p) /\ joined[p])
    /\ joined' = [joined EXCEPT ![p] = TRUE]
    /\ field' = [field EXCEPT ![p] = None] /\ Dismiss(p)
    /\ ListFolders(p)
    /\ UNCHANGED <<lock, server, node, stage, exec, quitting, mail, runs, faults>>

\* ... until it answers, has exited (and is reaped), or the time is up.
MfWait(p) ==
    /\ At(p, "mfwait")
    /\ \/ Reachable("mf") /\ UNCHANGED own
       \/ own[p]["mf"] = "zombie" /\ own' = [own EXCEPT ![p]["mf"] = "none"]
       \/ own[p]["mf"] = "starting" /\ UNCHANGED own
    /\ Goto(p, Back(p))
    /\ UNCHANGED <<home, stage, exec, quitting, joined, invites, runs, faults>>

\* _run_modes: the event loop, unless the thread never comes here.
Exec(p) ==
    /\ At(p, "exec") \/ At(p, "failed")
    /\ Goto(p, "loop")
    /\ exec' = [exec EXCEPT ![p] = "running"]
    /\ UNCHANGED <<home, stage, quitting, joined, own, invites, runs, faults>>

\* reload_static_servers: only a node this process started is restarted.
Reload(p) ==
    /\ InLoop(p) /\ joined[p]
    /\ own[p]["tahoe"] # "none"
    /\ pc' = [pc EXCEPT ![p] = "reload"]
    /\ at' = [at EXCEPT ![p] = "reload"]
    /\ UNCHANGED <<home, stage, exec, quitting, joined, own, invites, runs, faults>>

----------------------------------------------------------------------------
(* Stopping. *)

\* reap_child, first half: SIGTERM to the group of a leader that runs.
Term(p, k) == own' = [own EXCEPT ![p][k] = IF @ = "zombie" THEN @ ELSE "termed"]

\* Fault: a leader that exited is reaped, and its group is not signalled.
KillPolled(p, k) ==
    /\ own' = [own EXCEPT ![p][k] = "none"]
    /\ stray' = [stray EXCEPT ![k] = IF own[p][k] = "zombie" THEN Lost(@, "zombie") ELSE @]

\* Second half: SIGKILL to the group, and only then is the leader reaped.
Kill(p, k) == own' = [own EXCEPT ![p][k] = "none"] /\ UNCHANGED stray

\* ctl.stop(): nothing to do without a child.  Then the thread goes on.
Stop(p, k, Then) ==
    CASE own[p][k] = "none" -> Then /\ UNCHANGED <<own, stray>>
      [] own[p][k] \in {"starting", "up"} -> Term(p, k) /\ UNCHANGED <<pc, at, stage, stray>>
      [] OTHER -> Kill(p, k) /\ UNCHANGED <<pc, at, stage>>

StopForReload(p) ==
    /\ At(p, "reload")
    /\ Stop(p, "tahoe", Goto(p, "bring") /\ UNCHANGED stage)
    /\ UNCHANGED <<lock, server, node, exec, quitting, joined, invites, runs, faults>>

\* Fault: the join without a window keeps its node running.
StopCliNot(p) ==
    /\ At(p, "stopping")
    /\ Goto(p, "off")
    /\ UNCHANGED <<home, stage, exec, quitting, joined, own, invites, runs, faults>>

\* The end of _join_headless
StopCli(p) ==
    /\ At(p, "stopping")
    /\ Stop(p, "tahoe", Goto(p, "off") /\ UNCHANGED stage)
    /\ UNCHANGED <<lock, server, node, exec, quitting, joined, invites, runs, faults>>

\* The next step of shutdown()
Shut(p, from, to) ==
    /\ stage[p] = from
    /\ stage' = [stage EXCEPT ![p] = to]

\* quit(): the window's X, the tray, or (in the event loop) a signal.
Quit(p) ==
    /\ Dispatching(p) /\ ~quitting[p]
    /\ quitting' = [quitting EXCEPT ![p] = TRUE]
    /\ Dismiss(p)
    /\ stage' = [stage EXCEPT ![p] = "server"]
    /\ UNCHANGED <<home, pc, at, exec, joined, own, field, mail, runs, faults>>

\* exec_ returned; run_app's finally calls shutdown() once more.
Leave(p) ==
    /\ At(p, "loop") /\ exec[p] = "leaving"
    /\ Goto(p, "final")
    /\ Dismiss(p)
    /\ stage' = [stage EXCEPT ![p] = "server"]
    /\ UNCHANGED <<home, exec, quitting, joined, own, field, mail, runs, faults>>

\* Fault: shutdown lets go of the lock before it stops the daemons.
CloseServerFirst(p) ==
    /\ Shut(p, "server", "lock")
    /\ server' = IF server = p THEN None ELSE server
    /\ mail' = [mail EXCEPT ![p] = <<>>]
    /\ UNCHANGED <<lock, node, stray, pc, at, exec, quitting, joined, own, field, pending,
                   runs, faults>>

\* _close_join_server: what was sent and not received is dropped.
CloseServer(p) ==
    /\ Shut(p, "server", "mf")
    /\ server' = IF server = p THEN None ELSE server
    /\ mail' = [mail EXCEPT ![p] = <<>>]
    /\ UNCHANGED <<lock, node, stray, pc, at, exec, quitting, joined, own, field, pending,
                   runs, faults>>

StopMf(p) ==
    /\ stage[p] = "mf"
    /\ Stop(p, "mf", stage' = [stage EXCEPT ![p] = "tahoe"] /\ UNCHANGED <<pc, at>>)
    /\ UNCHANGED <<lock, server, node, exec, quitting, joined, invites, runs, faults>>

StopTahoe(p) ==
    /\ stage[p] = "tahoe"
    /\ Stop(p, "tahoe", stage' = [stage EXCEPT ![p] = "lock"] /\ UNCHANGED <<pc, at>>)
    /\ UNCHANGED <<lock, server, node, exec, quitting, joined, invites, runs, faults>>

\* release_instance_lock, then app.quit() or the end of the process
Release(p) ==
    /\ Shut(p, "lock", "none")
    /\ lock' = IF lock = p THEN None ELSE lock
    /\ IF pc[p] = "final"
       THEN /\ Goto(p, "off")
            /\ exec' = [exec EXCEPT ![p] = "before"]
            /\ quitting' = [quitting EXCEPT ![p] = FALSE]
            /\ joined' = [joined EXCEPT ![p] = FALSE]
            /\ field' = [field EXCEPT ![p] = None]
       ELSE /\ exec' = [exec EXCEPT ![p] = IF @ = "running" THEN "leaving" ELSE @]
            /\ UNCHANGED <<pc, at, quitting, joined, field>>
    /\ UNCHANGED <<server, node, stray, own, pending, mail, runs, faults>>

----------------------------------------------------------------------------
(* The Join field and the invites of later launches. *)

\* A person edits the field of a window that is not joining.
Type(p, x) ==
    /\ InLoop(p) /\ ~joined[p]
    /\ field' = [field EXCEPT ![p] = x]
    /\ UNCHANGED <<home, thread, own, pending, mail, runs, faults>>

\* Fault: a field that is not empty keeps what it has, and nobody asks.
ShowEmpty(p, x) ==
    /\ field' = [field EXCEPT ![p] = IF @ = None /\ ~quitting[p] /\ ~joined[p] THEN x ELSE @]
    /\ UNCHANGED pending

\* One open question, about the latest invite.
AskReplace(p, x) == pending' = [pending EXCEPT ![p] = x]

\* What the field and the question become.
Show(p, x) ==
    IF quitting[p] \/ joined[p] THEN UNCHANGED <<field, pending>>
    ELSE /\ field' = [field EXCEPT ![p] = IF @ = None THEN x ELSE @]
         /\ CASE field[p] = None -> UNCHANGED pending
              [] field[p] = x -> Dismiss(p)
              [] OTHER -> AskReplace(p, x)

Receive(p) ==
    /\ Dispatching(p) /\ mail[p] # <<>>
    /\ Show(p, Head(mail[p]))
    /\ mail' = [mail EXCEPT ![p] = Tail(@)]
    /\ UNCHANGED <<home, thread, own, runs, faults>>

\* The question is not modal: it is answered whenever the person gets to it.
Answer(p) ==
    /\ Dispatching(p) /\ pending[p] # None
    /\ \/ field' = [field EXCEPT ![p] = pending[p]]
       \/ UNCHANGED field
    /\ Dismiss(p)
    /\ UNCHANGED <<home, thread, own, mail, runs, faults>>

----------------------------------------------------------------------------
(* Around them. *)

DaemonUp(p, k) ==
    /\ own[p][k] = "starting"
    /\ own' = [own EXCEPT ![p][k] = "up"]
    /\ UNCHANGED <<home, thread, invites, runs, faults>>

DaemonExits(p, k) ==
    /\ own[p][k] \in {"starting", "up"} /\ faults < MaxFaults
    /\ own' = [own EXCEPT ![p][k] = "zombie"]
    /\ faults' = faults + 1
    /\ UNCHANGED <<home, thread, invites, runs>>

\* A lost daemon comes up, or ends (Tahoe does when its stdin closes).
StrayMoves(k) ==
    /\ \/ stray[k] = "left" /\ stray' = [stray EXCEPT ![k] = "up"]
       \/ stray[k] # "none" /\ stray' = [stray EXCEPT ![k] = "none"]
    /\ UNCHANGED <<lock, server, node, thread, own, invites, runs, faults>>

\* The process is killed: nothing of the above is run.
Crash(p) ==
    /\ pc[p] # "off" /\ faults < MaxFaults
    /\ faults' = faults + 1
    /\ lock' = IF lock = p THEN None ELSE lock
    /\ server' = IF server = p THEN None ELSE server
    /\ stray' = [k \in Kind |-> Lost(stray[k], own[p][k])]
    /\ own' = [own EXCEPT ![p] = [k \in Kind |-> "none"]]
    /\ Goto(p, "off")
    /\ stage' = [stage EXCEPT ![p] = "none"]
    /\ exec' = [exec EXCEPT ![p] = "before"]
    /\ quitting' = [quitting EXCEPT ![p] = FALSE]
    /\ joined' = [joined EXCEPT ![p] = FALSE]
    /\ field' = [field EXCEPT ![p] = None]
    /\ Dismiss(p)
    /\ mail' = [mail EXCEPT ![p] = <<>>]
    /\ UNCHANGED <<node, runs>>

\* What the thread of a process does without being asked
Works(p) ==
    \/ Probed(p) \/ HandOver(p)
    \/ Listen(p) \/ Begin(p) \/ Create(p) \/ Bring(p) \/ Await(p) \/ Connect(p)
    \/ Refresh(p) \/ MfWait(p) \/ Exec(p) \/ StopForReload(p) \/ StopCli(p)
    \/ Leave(p) \/ CloseServer(p) \/ StopMf(p) \/ StopTahoe(p) \/ Release(p)

Asked(p) ==
    \/ LaunchWindow(p) \/ (\E x \in Invite : LaunchJoin(p, x))
    \/ Join(p) \/ Reload(p) \/ Quit(p) \/ Answer(p)
    \/ \E x \in Invite \cup {None} : Type(p, x)

Next ==
    \/ \E p \in Proc : Works(p) \/ Asked(p) \/ Receive(p) \/ Crash(p)
    \/ \E p \in Proc, k \in Kind : DaemonUp(p, k) \/ DaemonExits(p, k)
    \/ \E k \in Kind : StrayMoves(k)

Spec == Init /\ [][Next]_vars

----------------------------------------------------------------------------
(* Properties. *)

\* A window that is not quitting holds the lock of its home: there is one, and
\* whoever answers a later launch is that one (app.acquire_instance_lock,
\* shutdown, which also runs in the middle of a start or a join).
OneWindow ==
    \A p \in Proc : pc[p] # "off" /\ at[p] # "cli" /\ ~quitting[p] => lock = p

\* A window lets go of the lock only when both daemons and their groups are
\* gone and nobody can hand it an invite any more (app.shutdown).
ReleasedClean ==
    [][\A p \in Proc : lock = p /\ lock' # p /\ faults' = faults =>
          server # p /\ \A k \in Kind : own[p][k] = "none"]_vars

\* Stopping a daemon leaves nothing of its group, in whatever state its leader
\* is.  Only a killed Sync, or a Magic Folder that is started again while the
\* first does not answer yet, leaves one behind (backend.reap_child).
StopLeavesNobody ==
    [][\A k \in Kind : stray[k] = "none" /\ stray'[k] # "none" =>
          faults' # faults \/ \E p \in Proc : Refresh(p)]_vars

\* An invite that was sent is shown, in the field or by the question, unless
\* the window has joined, is quitting or is killed (app.receive_handed_invite).
HandedIsShown ==
    [][\A p \in Proc : mail[p] # <<>> /\ Len(mail'[p]) < Len(mail[p]) =>
          \/ Head(mail[p]) \in {field'[p], pending'[p]}
          \/ joined[p] \/ quitting[p] \/ faults' # faults]_vars
=============================================================================
