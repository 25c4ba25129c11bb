----------------------------- MODULE DesktopProofs -----------------------------
(***************************************************************************)
(* What holds of Desktop for any processes and invites, however often they *)
(* are launched, closed and killed.                                        *)
(*                                                                         *)
(* The inductive invariant says of each process what its place in the code *)
(* means: which of them hold the lock, that a join without a window never  *)
(* enters a window's code, and what each step of shutdown() has done.      *)
(***************************************************************************)
EXTENDS Desktop, SequenceTheorems, TLAPS

CliSteps == {"probe", "held", "create", "bring", "await", "connect", "stopping"}

Shapes ==
    /\ lock \in Proc \cup {None} /\ server \in Proc \cup {None}
    /\ node \in BOOLEAN
    /\ stray \in [Kind -> {"none", "left", "up"}]
    /\ pc \in [Proc -> Steps] /\ at \in [Proc -> {"auto", "join", "reload", "cli"}]
    /\ stage \in [Proc -> {"none", "server", "mf", "tahoe", "lock"}]
    /\ exec \in [Proc -> {"before", "running", "leaving"}]
    /\ quitting \in [Proc -> BOOLEAN] /\ joined \in [Proc -> BOOLEAN]
    /\ own \in [Proc -> [Kind -> Daemon]]
    /\ field \in [Proc -> Invite \cup {None}] /\ pending \in [Proc -> Invite \cup {None}]
    /\ mail \in [Proc -> Seq(Invite)]
    /\ runs \in 0..MaxRuns /\ faults \in 0..MaxFaults

\* A process that is not there has nothing.
OffHasNothing(p) ==
    pc[p] = "off" => /\ at[p] = "auto" /\ stage[p] = "none" /\ pending[p] = None
                     /\ \A k \in Kind : own[p][k] = "none"
                     /\ lock # p /\ server # p

\* A join without a window has the lock only while it probes, and a node of its own only.
CliIsApart(p) ==
    /\ at[p] = "cli" =>
          /\ pc[p] \in CliSteps /\ stage[p] = "none" /\ pending[p] = None
          /\ server # p /\ own[p]["mf"] = "none"
          /\ pc[p] # "probe" => lock # p
          /\ pc[p] \in {"probe", "held"} => own[p]["tahoe"] = "none"
    /\ pc[p] \in {"probe", "held", "stopping"} => at[p] = "cli"
    /\ pc[p] = "probe" => lock = p
    /\ pc[p] = "held" => field[p] \in Invite

\* What shutdown() has done before its next step
ShutSoFar(p) ==
    /\ stage[p] # "none" \/ exec[p] = "leaving" => quitting[p]
    /\ stage[p] # "none" => pending[p] = None
    /\ stage[p] \in {"mf", "tahoe", "lock"} => server # p
    /\ stage[p] \in {"tahoe", "lock"} => own[p]["mf"] = "none"
    /\ stage[p] = "lock" => own[p]["tahoe"] = "none"

Holds(p) == pc[p] # "off" /\ at[p] # "cli" /\ ~quitting[p] => lock = p

Local(p) == OffHasNothing(p) /\ CliIsApart(p) /\ ShutSoFar(p) /\ Holds(p)

Inv == Shapes /\ \A p \in Proc : Local(p)

----------------------------------------------------------------------------

\* A step of p leaves the other processes alone,
Apart(p) ==
    \A q \in Proc \ {p} :
        /\ pc'[q] = pc[q] /\ at'[q] = at[q] /\ stage'[q] = stage[q] /\ exec'[q] = exec[q]
        /\ quitting'[q] = quitting[q] /\ own'[q] = own[q]
        /\ field'[q] = field[q] /\ pending'[q] = pending[q]

\* and takes the lock when it is free, or lets go of its own.
LockStep(p) ==
    /\ \/ lock' = lock
       \/ lock = None /\ lock' = p
       \/ lock = p /\ lock' = None
    /\ server' \in {server, p, None}

LEMMA Elsewhere ==
    ASSUME Inv, NEW p \in Proc, Apart(p), LockStep(p), Shapes', Local(p)'
    PROVE  Inv'
<1>1. ASSUME NEW q \in Proc \ {p}
      PROVE  Local(q)'
  <2>1. /\ pc'[q] = pc[q] /\ at'[q] = at[q] /\ stage'[q] = stage[q] /\ exec'[q] = exec[q]
        /\ quitting'[q] = quitting[q] /\ own'[q] = own[q]
        /\ field'[q] = field[q] /\ pending'[q] = pending[q]
    BY DEF Apart
  <2>2. /\ lock = q <=> lock' = q
        /\ server # q => server' # q
    BY DesktopAssumption DEF LockStep
  <2>3. Local(q)
    BY DEF Inv
  <2>4. OffHasNothing(q)' /\ Holds(q)'
    BY <2>1, <2>2, <2>3 DEF Local, OffHasNothing, Holds
  <2>5. CliIsApart(q)'
    BY <2>1, <2>2, <2>3 DEF Local, CliIsApart
  <2>6. ShutSoFar(q)'
    BY <2>1, <2>2, <2>3 DEF Local, ShutSoFar
  <2> QED BY <2>4, <2>5, <2>6 DEF Local
<1> QED BY <1>1 DEF Inv

LEMMA InitInv == Init => Inv
<1> SUFFICES ASSUME Init PROVE Inv
  OBVIOUS
<1>1. <<>> \in Seq(Invite)
  OBVIOUS
<1>2. Shapes
  BY <1>1, DesktopAssumption DEF Init, Shapes, Steps, Points, Daemon
<1>3. ASSUME NEW p \in Proc PROVE Local(p)
  <2>1. OffHasNothing(p) /\ Holds(p)
    BY DesktopAssumption DEF Init, OffHasNothing, Holds
  <2>2. CliIsApart(p) /\ ShutSoFar(p)
    BY DEF Init, CliIsApart, ShutSoFar
  <2> QED BY <2>1, <2>2 DEF Local
<1> QED BY <1>2, <1>3 DEF Inv

\* Where a step goes, for the process itself and for the others
LEMMA GotoFacts ==
    ASSUME Shapes, NEW p \in Proc, NEW s \in Steps, Goto(p, s)
    PROVE  /\ pc' \in [Proc -> Steps] /\ pc'[p] = s
           /\ at' \in [Proc -> {"auto", "join", "reload", "cli"}]
           /\ at'[p] = IF s \in {"loop", "off"} THEN "auto" ELSE at[p]
           /\ \A q \in Proc \ {p} : pc'[q] = pc[q] /\ at'[q] = at[q]
BY DEF Shapes, Goto

LEMMA PlaceFacts ==
    ASSUME Shapes, NEW p \in Proc
    PROVE  /\ Failed(p) \in Steps /\ Succeeded(p) \in Steps /\ Started(p) \in Steps
           /\ Back(p) \in {"exec", "loop"}
           /\ at[p] = "cli" => /\ Failed(p) = "stopping" /\ Succeeded(p) = "stopping"
                               /\ Started(p) = "connect"
           /\ at[p] # "cli" => /\ Failed(p) \in {"failed", "loop"}
                               /\ Succeeded(p) \in {"ready", "main"}
                               /\ Started(p) \in {"loop", "connect"}
BY DEF Shapes, Failed, Succeeded, Started, Back, Steps, Points

----------------------------------------------------------------------------
(* Launches. *)

LEMMA LaunchWindowStep ==
    ASSUME Inv, NEW p \in Proc, LaunchWindow(p)
    PROVE  Inv'
<1>1. Shapes /\ Local(p) /\ "shown" \in Steps
  BY DEF Inv, Steps, Points
<1>2. /\ pc[p] = "off" /\ Goto(p, "shown") /\ lock = None /\ lock' = p
      /\ runs < MaxRuns /\ runs' = runs + 1
      /\ UNCHANGED <<server, node, stray, stage, exec, quitting, joined, own, invites, faults>>
  BY DEF LaunchWindow, TryLock
<1>3. /\ pc' \in [Proc -> Steps] /\ pc'[p] = "shown"
      /\ at' \in [Proc -> {"auto", "join", "reload", "cli"}] /\ at'[p] = at[p]
      /\ \A q \in Proc \ {p} : pc'[q] = pc[q] /\ at'[q] = at[q]
  BY <1>1, <1>2, GotoFacts
<1>4. Shapes'
  BY <1>1, <1>2, <1>3, DesktopAssumption DEF Shapes, invites
<1>5. Local(p)'
  BY <1>1, <1>2, <1>3
     DEF Local, OffHasNothing, CliIsApart, ShutSoFar, Holds, invites
<1> QED BY <1>2, <1>3, <1>4, <1>5, Elsewhere DEF Apart, LockStep, invites

LEMMA LaunchJoinStep ==
    ASSUME Inv, NEW p \in Proc, NEW x \in Invite, LaunchJoin(p, x)
    PROVE  Inv'
<1>1. Shapes /\ Local(p) /\ "probe" \in Steps /\ "held" \in Steps
  BY DEF Inv, Steps, Points
<1>2. /\ pc[p] = "off"
      /\ at' = [at EXCEPT ![p] = "cli"] /\ field' = [field EXCEPT ![p] = x]
      /\ UNCHANGED <<server, node, stray, stage, exec, quitting, joined, own, pending, mail,
                     faults>>
      /\ \/ /\ lock = None /\ lock' = p /\ runs < MaxRuns /\ runs' = runs + 1
            /\ pc' = [pc EXCEPT ![p] = "probe"]
         \/ lock' = lock /\ runs' = runs /\ pc' = [pc EXCEPT ![p] = "held"]
  BY DEF LaunchJoin, TryLock
<1>3. /\ pc' \in [Proc -> Steps] /\ runs' \in 0..MaxRuns /\ lock' \in {lock, p}
      /\ at' \in [Proc -> {"auto", "join", "reload", "cli"}]
      /\ field' \in [Proc -> Invite \cup {None}]
      /\ pc'[p] \in {"probe", "held"} /\ at'[p] = "cli" /\ field'[p] = x
      /\ pc'[p] = "probe" => lock' = p
      /\ pc'[p] = "held" => lock' = lock
      /\ \A q \in Proc \ {p} : pc'[q] = pc[q] /\ at'[q] = at[q] /\ field'[q] = field[q]
  <2>1. /\ at' \in [Proc -> {"auto", "join", "reload", "cli"}]
        /\ field' \in [Proc -> Invite \cup {None}]
        /\ at'[p] = "cli" /\ field'[p] = x
        /\ \A q \in Proc \ {p} : at'[q] = at[q] /\ field'[q] = field[q]
    BY <1>1, <1>2 DEF Shapes
  <2>2. CASE lock = None /\ lock' = p /\ runs < MaxRuns /\ runs' = runs + 1
             /\ pc' = [pc EXCEPT ![p] = "probe"]
    BY <1>1, <2>1, <2>2, DesktopAssumption DEF Shapes
  <2>3. CASE lock' = lock /\ runs' = runs /\ pc' = [pc EXCEPT ![p] = "held"]
    BY <1>1, <2>1, <2>3 DEF Shapes
  <2> QED BY <1>2, <2>2, <2>3
<1>4. Shapes'
  BY <1>1, <1>2, <1>3 DEF Shapes
<1>5. Local(p)'
  BY <1>1, <1>2, <1>3
     DEF Local, OffHasNothing, CliIsApart, CliSteps, ShutSoFar, Holds, Kind
<1>6. Apart(p) /\ LockStep(p)
  BY <1>2, <1>3 DEF Apart, LockStep
<1> QED BY <1>4, <1>5, <1>6, Elsewhere

LEMMA ProbedStep ==
    ASSUME Inv, NEW p \in Proc, Probed(p)
    PROVE  Inv'
<1> DEFINE s == IF node THEN "bring" ELSE "create"
<1>1. Shapes /\ Local(p) /\ s \in Steps
  BY DEF Inv, Steps, Points
<1>2. /\ pc[p] = "probe" /\ Goto(p, s) /\ lock' = None /\ field' = [field EXCEPT ![p] = None]
      /\ UNCHANGED <<server, node, stray, stage, exec, quitting, joined, own, pending, mail,
                     runs, faults>>
  BY DEF Probed
<1>3. /\ pc' \in [Proc -> Steps] /\ pc'[p] = s
      /\ at' \in [Proc -> {"auto", "join", "reload", "cli"}] /\ at'[p] = at[p]
      /\ \A q \in Proc \ {p} : pc'[q] = pc[q] /\ at'[q] = at[q]
  BY <1>1, <1>2, GotoFacts
<1>4. Shapes'
  BY <1>1, <1>2, <1>3, DesktopAssumption DEF Shapes
<1>5. at[p] = "cli" /\ lock = p
  BY <1>1, <1>2 DEF Local, CliIsApart
<1>6. Local(p)'
  BY <1>1, <1>2, <1>3, <1>5, DesktopAssumption
     DEF Local, OffHasNothing, CliIsApart, CliSteps, ShutSoFar, Holds
<1> QED BY <1>1, <1>2, <1>3, <1>4, <1>5, <1>6, Elsewhere DEF Apart, LockStep, Shapes

LEMMA HandOverStep ==
    ASSUME Inv, NEW p \in Proc, HandOver(p)
    PROVE  Inv'
<1>1. Shapes /\ Local(p) /\ "off" \in Steps
  BY DEF Inv, Steps, Points
<1>2. /\ pc[p] = "held" /\ Goto(p, "off") /\ field' = [field EXCEPT ![p] = None]
      /\ \/ mail' = mail
         \/ server # None /\ mail' = [mail EXCEPT ![server] = Append(@, field[p])]
      /\ UNCHANGED <<home, stage, exec, quitting, joined, own, pending, runs, faults>>
  BY DEF HandOver, Inspect
<1>3. /\ pc' \in [Proc -> Steps] /\ pc'[p] = "off"
      /\ at' \in [Proc -> {"auto", "join", "reload", "cli"}] /\ at'[p] = "auto"
      /\ \A q \in Proc \ {p} : pc'[q] = pc[q] /\ at'[q] = at[q]
  BY <1>1, <1>2, GotoFacts
<1>4. at[p] = "cli" /\ field[p] \in Invite
  BY <1>1, <1>2 DEF Local, CliIsApart
<1>5. mail' \in [Proc -> Seq(Invite)]
  <2>1. mail \in [Proc -> Seq(Invite)] /\ (server # None => server \in Proc)
    BY <1>1 DEF Shapes
  <2>2. CASE mail' = mail
    BY <2>1, <2>2
  <2>3. CASE server # None /\ mail' = [mail EXCEPT ![server] = Append(@, field[p])]
    <3>1. Append(mail[server], field[p]) \in Seq(Invite)
      BY <1>4, <2>1, <2>3
    <3> QED BY <2>1, <2>3, <3>1
  <2> QED BY <1>2, <2>2, <2>3
<1>6. Shapes'
  BY <1>1, <1>2, <1>3, <1>5 DEF Shapes, home
<1>7. Local(p)'
  BY <1>1, <1>2, <1>3, <1>4
     DEF Local, OffHasNothing, CliIsApart, ShutSoFar, Holds, Kind, home
<1> QED BY <1>1, <1>2, <1>3, <1>6, <1>7, Elsewhere DEF Apart, LockStep, Shapes, home
----------------------------------------------------------------------------
(* The thread of a process that is there and not inside shutdown(). *)

Early == {"off", "probe", "held"}

Moves(p) ==
    /\ Apart(p) /\ lock' = lock /\ server' \in {server, p, None}
    /\ pc[p] \notin Early /\ pc'[p] \notin Early
    /\ stage[p] = "none" /\ stage'[p] = "none" /\ quitting'[p] = quitting[p]
    /\ exec'[p] \in {exec[p], "running"}
    /\ at'[p] = "cli" <=> at[p] = "cli"
    /\ pc'[p] = "stopping" => at[p] = "cli"
    /\ at[p] = "cli" => /\ pc'[p] \in CliSteps /\ server' = server
                        /\ pending'[p] = pending[p] /\ own'[p]["mf"] = own[p]["mf"]

LEMMA MovesStep ==
    ASSUME Inv, NEW p \in Proc, Moves(p), Shapes'
    PROVE  Inv'
<1>1. Shapes /\ Local(p)
  BY DEF Inv
<1>2. OffHasNothing(p)' /\ Holds(p)' /\ ShutSoFar(p)'
  BY <1>1 DEF Moves, Early, Local, OffHasNothing, Holds, ShutSoFar
<1>3. CliIsApart(p)'
  BY <1>1 DEF Moves, Early, Local, CliIsApart
<1>4. LockStep(p) /\ Apart(p)
  BY DEF Moves, LockStep
<1> QED BY <1>2, <1>3, <1>4, Elsewhere DEF Local

\* Where a window's code is, no join without a window is.
LEMMA WindowFacts ==
    ASSUME Inv, NEW p \in Proc
    PROVE  /\ Shapes /\ Local(p)
           /\ pc[p] \in Points \cup {"main", "mfwait", "exec", "reload", "final"} =>
                 at[p] # "cli" /\ pc[p] \notin Early \cup {"stopping"}
           /\ pc[p] \in {"create", "bring", "await", "connect"} =>
                 pc[p] \notin Early \cup {"stopping"}
<1>1. Shapes /\ Local(p)
  BY DEF Inv
<1> QED BY <1>1 DEF Local, CliIsApart, CliSteps, Points, Early

LEMMA ListenStep ==
    ASSUME Inv, NEW p \in Proc, Listen(p)
    PROVE  Inv'
<1> DEFINE s == IF node THEN "busy" ELSE "exec"
<1>1. Shapes /\ at[p] # "cli" /\ pc[p] \notin Early /\ s \in Steps
  BY WindowFacts DEF Listen, At, Points, Steps
<1>2. /\ stage[p] = "none" /\ server' \in {server, p, None} /\ Goto(p, s)
      /\ UNCHANGED <<lock, node, stray, stage, exec, quitting, joined, own, invites, runs,
                     faults>>
  BY DEF Listen, At, Cleared
<1>3. /\ pc' \in [Proc -> Steps] /\ pc'[p] = s
      /\ at' \in [Proc -> {"auto", "join", "reload", "cli"}] /\ at'[p] = at[p]
      /\ \A q \in Proc \ {p} : pc'[q] = pc[q] /\ at'[q] = at[q]
  BY <1>1, <1>2, GotoFacts
<1>4. Shapes'
  BY <1>1, <1>2, <1>3 DEF Shapes, invites
<1>5. Moves(p)
  BY <1>1, <1>2, <1>3 DEF Moves, Apart, Early, invites
<1> QED BY <1>4, <1>5, MovesStep

\* A step that only goes on
LEMMA GoesOn ==
    ASSUME Inv, NEW p \in Proc, NEW s \in Steps \ Early, Goto(p, s),
           pc[p] \notin Early, stage[p] = "none",
           at[p] = "cli" => s \in CliSteps, s = "stopping" => at[p] = "cli",
           UNCHANGED <<lock, server, stray, stage, exec, quitting, joined, own, invites, runs,
                       faults>>,
           node' \in BOOLEAN
    PROVE  Inv'
<1>1. Shapes /\ Local(p)
  BY WindowFacts
<1>2. /\ pc' \in [Proc -> Steps] /\ pc'[p] = s
      /\ at' \in [Proc -> {"auto", "join", "reload", "cli"}]
      /\ at'[p] = IF s \in {"loop", "off"} THEN "auto" ELSE at[p]
      /\ \A q \in Proc \ {p} : pc'[q] = pc[q] /\ at'[q] = at[q]
  BY <1>1, GotoFacts
<1>3. Shapes'
  BY <1>1, <1>2 DEF Shapes, invites
<1>4. Moves(p)
  BY <1>1, <1>2 DEF Moves, Apart, Early, CliSteps, invites
<1> QED BY <1>3, <1>4, MovesStep

LEMMA BeginStep ==
    ASSUME Inv, NEW p \in Proc, Begin(p)
    PROVE  Inv'
<1> DEFINE s == IF node THEN "bring"
                ELSE IF at[p] = "join" /\ field[p] # None THEN "create" ELSE Failed(p)
<1>1. Shapes /\ at[p] # "cli" /\ pc[p] \notin Early
  BY WindowFacts DEF Begin, At, Points
<1>2. s \in Steps \ Early /\ s # "stopping"
  BY <1>1, PlaceFacts DEF Steps, Points, Early
<1>3. stage[p] = "none" /\ Goto(p, s) /\ UNCHANGED <<home, stage, exec, quitting, joined, own, invites, runs, faults>>
  BY DEF Begin, At
<1> HIDE DEF s
<1> QED BY <1>1, <1>2, <1>3, GoesOn DEF home, Shapes

LEMMA CreateStep ==
    ASSUME Inv, NEW p \in Proc, Create(p)
    PROVE  Inv'
<1>1. Shapes /\ pc[p] \notin Early /\ stage[p] = "none"
  BY WindowFacts DEF Create, At
<1>2. PICK s \in {"bring", Failed(p)} : Goto(p, s) /\ node' \in BOOLEAN
  BY <1>1 DEF Create, Shapes
<1>3. /\ s \in Steps \ Early /\ (at[p] = "cli" => s \in CliSteps)
      /\ s = "stopping" => at[p] = "cli"
  BY <1>1, PlaceFacts DEF Steps, Points, Early, CliSteps
<1> QED BY <1>1, <1>2, <1>3, GoesOn DEF Create

LEMMA ConnectStep ==
    ASSUME Inv, NEW p \in Proc, Connect(p)
    PROVE  Inv'
<1>1. Shapes /\ pc[p] \notin Early /\ stage[p] = "none"
  BY WindowFacts DEF Connect, At
<1>2. PICK s \in {Succeeded(p), Failed(p)} : Goto(p, s)
  BY DEF Connect
<1>3. /\ s \in Steps \ Early /\ (at[p] = "cli" => s \in CliSteps)
      /\ s = "stopping" => at[p] = "cli"
  BY <1>1, PlaceFacts DEF Steps, Points, Early, CliSteps
<1> QED BY <1>1, <1>2, <1>3, GoesOn DEF Connect, home, Shapes

\* A step that goes on with a child that was started or reaped
LEMMA GoesOnWith ==
    ASSUME Inv, NEW p \in Proc, NEW s \in Steps \ Early, NEW k \in Kind, NEW d \in Daemon,
           Goto(p, s), own' = [own EXCEPT ![p][k] = d],
           pc[p] \notin Early, stage[p] = "none",
           at[p] = "cli" => s \in CliSteps /\ k = "tahoe", s = "stopping" => at[p] = "cli",
           UNCHANGED <<home, stage, exec, quitting, joined, invites, runs, faults>>
    PROVE  Inv'
<1>1. Shapes /\ Local(p)
  BY WindowFacts
<1>2. /\ pc' \in [Proc -> Steps] /\ pc'[p] = s
      /\ at' \in [Proc -> {"auto", "join", "reload", "cli"}]
      /\ at'[p] = IF s \in {"loop", "off"} THEN "auto" ELSE at[p]
      /\ \A q \in Proc \ {p} : pc'[q] = pc[q] /\ at'[q] = at[q]
  BY <1>1, GotoFacts
<1>3. /\ own' \in [Proc -> [Kind -> Daemon]]
      /\ \A q \in Proc \ {p} : own'[q] = own[q]
      /\ k = "tahoe" => own'[p]["mf"] = own[p]["mf"]
  BY <1>1 DEF Shapes, Kind
<1>4. Shapes'
  BY <1>1, <1>2, <1>3 DEF Shapes, invites, home
<1>5. Moves(p)
  BY <1>1, <1>2, <1>3 DEF Moves, Apart, Early, CliSteps, invites, home
<1> QED BY <1>4, <1>5, MovesStep

LEMMA BringStep ==
    ASSUME Inv, NEW p \in Proc, Bring(p)
    PROVE  Inv'
<1>1. Shapes /\ pc[p] \notin Early /\ stage[p] = "none" /\ "tahoe" \in Kind
      /\ UNCHANGED <<home, stage, exec, quitting, joined, invites, runs, faults>>
  BY WindowFacts DEF Bring, At, Kind
<1>2. CASE \E s \in {Started(p), Failed(p)} : Goto(p, s) /\ UNCHANGED own
  <2>1. PICK s \in {Started(p), Failed(p)} : Goto(p, s) /\ UNCHANGED own
    BY <1>2
  <2>2. /\ s \in Steps \ Early /\ (at[p] = "cli" => s \in CliSteps)
        /\ s = "stopping" => at[p] = "cli"
    BY <1>1, PlaceFacts DEF Steps, Points, Early, CliSteps
  <2> QED BY <1>1, <2>1, <2>2, GoesOn DEF home, Shapes
<1>3. CASE Goto(p, "await") /\ own' = [own EXCEPT ![p]["tahoe"] = "starting"]
  <2>1. "await" \in (Steps \ Early) \cap CliSteps /\ "starting" \in Daemon
    BY DEF Steps, Early, CliSteps, Daemon
  <2> QED BY <1>1, <1>3, <2>1, GoesOnWith
<1> QED BY <1>2, <1>3 DEF Bring

LEMMA AwaitStep ==
    ASSUME Inv, NEW p \in Proc, Await(p)
    PROVE  Inv'
<1>1. Shapes /\ pc[p] \notin Early /\ stage[p] = "none" /\ "tahoe" \in Kind
      /\ UNCHANGED <<home, stage, exec, quitting, joined, invites, runs, faults>>
  BY WindowFacts DEF Await, At, Kind
<1>2. ASSUME NEW s \in {Started(p), Failed(p)}
      PROVE  /\ s \in Steps \ Early /\ (at[p] = "cli" => s \in CliSteps)
             /\ s = "stopping" => at[p] = "cli"
  BY <1>1, PlaceFacts DEF Steps, Points, Early, CliSteps
<1>3. CASE \E s \in {Started(p), Failed(p)} : Goto(p, s) /\ UNCHANGED own
  BY <1>1, <1>2, <1>3, GoesOn DEF home, Shapes
<1>4. CASE Goto(p, Failed(p)) /\ own' = [own EXCEPT ![p]["tahoe"] = "none"]
  <2>1. "none" \in Daemon
    BY DEF Daemon
  <2> QED BY <1>1, <1>2, <1>4, <2>1, GoesOnWith
<1> QED BY <1>3, <1>4 DEF Await

LEMMA MfWaitStep ==
    ASSUME Inv, NEW p \in Proc, MfWait(p)
    PROVE  Inv'
<1>1. /\ Shapes /\ pc[p] \notin Early /\ stage[p] = "none" /\ at[p] # "cli"
      /\ "mf" \in Kind /\ "none" \in Daemon
      /\ Goto(p, Back(p)) /\ Back(p) \in (Steps \ Early) \ {"stopping"}
      /\ UNCHANGED <<home, stage, exec, quitting, joined, invites, runs, faults>>
  BY WindowFacts, PlaceFacts DEF MfWait, At, Kind, Daemon, Steps, Points, Early
<1>2. UNCHANGED own \/ own' = [own EXCEPT ![p]["mf"] = "none"]
  BY DEF MfWait
<1>3. CASE UNCHANGED own
  BY <1>1, <1>3, GoesOn DEF home, Shapes
<1>4. CASE own' = [own EXCEPT ![p]["mf"] = "none"]
  BY <1>1, <1>4, GoesOnWith
<1> QED BY <1>2, <1>3, <1>4

LEMMA ExecStep ==
    ASSUME Inv, NEW p \in Proc, Exec(p)
    PROVE  Inv'
<1>1. Shapes /\ at[p] # "cli" /\ pc[p] \notin Early /\ stage[p] = "none" /\ "loop" \in Steps
  BY WindowFacts DEF Exec, At, Points, Steps
<1>2. /\ Goto(p, "loop") /\ exec' = [exec EXCEPT ![p] = "running"]
      /\ UNCHANGED <<home, stage, quitting, joined, own, invites, runs, faults>>
  BY DEF Exec
<1>3. /\ pc' \in [Proc -> Steps] /\ pc'[p] = "loop"
      /\ at' \in [Proc -> {"auto", "join", "reload", "cli"}] /\ at'[p] = "auto"
      /\ \A q \in Proc \ {p} : pc'[q] = pc[q] /\ at'[q] = at[q]
  BY <1>1, <1>2, GotoFacts
<1>4. Shapes'
  BY <1>1, <1>2, <1>3 DEF Shapes, invites, home
<1>5. Moves(p)
  BY <1>1, <1>2, <1>3 DEF Moves, Apart, Early, invites, home, Shapes
<1> QED BY <1>4, <1>5, MovesStep

LEMMA JoinStep ==
    ASSUME Inv, NEW p \in Proc, Join(p) \/ Reload(p)
    PROVE  Inv'
<1>1. /\ Shapes /\ at[p] # "cli" /\ pc[p] \notin Early /\ stage[p] = "none"
      /\ "busy" \in Steps /\ "reload" \in Steps
  BY WindowFacts DEF Join, Reload, InLoop, At, Points, Steps
<1>2. /\ \E s \in {"busy", "reload"} : pc' = [pc EXCEPT ![p] = s]
      /\ \E a \in {"join", "reload"} : at' = [at EXCEPT ![p] = a]
      /\ UNCHANGED <<home, stage, exec, quitting, joined, own, invites, runs, faults>>
  BY DEF Join, Reload
<1>3. /\ pc' \in [Proc -> Steps] /\ pc'[p] \in {"busy", "reload"}
      /\ at' \in [Proc -> {"auto", "join", "reload", "cli"}] /\ at'[p] # "cli"
      /\ \A q \in Proc \ {p} : pc'[q] = pc[q] /\ at'[q] = at[q]
  BY <1>1, <1>2 DEF Shapes
<1>4. Shapes'
  BY <1>1, <1>2, <1>3 DEF Shapes, invites, home
<1>5. Moves(p)
  BY <1>1, <1>2, <1>3 DEF Moves, Apart, Early, invites, home
<1> QED BY <1>4, <1>5, MovesStep

LEMMA RefreshStep ==
    ASSUME Inv, NEW p \in Proc, Refresh(p)
    PROVE  Inv'
<1>1. /\ Shapes /\ at[p] # "cli" /\ pc[p] \notin Early /\ stage[p] = "none"
      /\ "mf" \in Kind /\ "starting" \in Daemon
      /\ Back(p) \in (Steps \ Early) \ {"stopping"} /\ "mfwait" \in Steps
  BY WindowFacts, PlaceFacts
     DEF Refresh, InLoop, At, Points, Steps, Kind, Daemon, Early
<1>2. /\ joined' = [joined EXCEPT ![p] = TRUE] /\ field' = [field EXCEPT ![p] = None]
      /\ pending' = [pending EXCEPT ![p] = None]
      /\ UNCHANGED <<lock, server, node, stage, exec, quitting, mail, runs, faults>>
      /\ \/ Goto(p, Back(p)) /\ UNCHANGED <<own, stray>>
         \/ /\ Goto(p, "mfwait") /\ own' = [own EXCEPT ![p]["mf"] = "starting"]
            /\ stray' = [stray EXCEPT !["mf"] = Lost(@, own[p]["mf"])]
  BY DEF Refresh, Dismiss, ListFolders, EnsureRunning
<1>3. PICK s \in {Back(p), "mfwait"} : Goto(p, s)
  BY <1>2
<1>4. /\ pc' \in [Proc -> Steps] /\ pc'[p] = s
      /\ at' \in [Proc -> {"auto", "join", "reload", "cli"}] /\ at'[p] # "cli"
      /\ \A q \in Proc \ {p} : pc'[q] = pc[q] /\ at'[q] = at[q]
  BY <1>1, <1>3, GotoFacts
<1>5. /\ own' \in [Proc -> [Kind -> Daemon]] /\ \A q \in Proc \ {p} : own'[q] = own[q]
      /\ stray' \in [Kind -> {"none", "left", "up"}]
  <2>1. Lost(stray["mf"], own[p]["mf"]) \in {"none", "left", "up"}
    BY <1>1 DEF Shapes, Lost
  <2>2. CASE UNCHANGED <<own, stray>>
    BY <1>1, <2>2 DEF Shapes
  <2>3. CASE /\ own' = [own EXCEPT ![p]["mf"] = "starting"]
             /\ stray' = [stray EXCEPT !["mf"] = Lost(@, own[p]["mf"])]
    BY <1>1, <2>1, <2>3 DEF Shapes
  <2> QED BY <1>2, <2>2, <2>3
<1>6. Shapes'
  BY <1>1, <1>2, <1>4, <1>5 DEF Shapes
<1>7. Moves(p)
  BY <1>1, <1>2, <1>3, <1>4, <1>5 DEF Moves, Apart, Early, Shapes
<1> QED BY <1>6, <1>7, MovesStep

----------------------------------------------------------------------------
(* Stopping. *)

\* Half of reap_child is about this child.
LEMMA HalfFacts ==
    ASSUME Shapes, NEW p \in Proc, NEW k \in Kind, Term(p, k) \/ Kill(p, k)
    PROVE  /\ own' \in [Proc -> [Kind -> Daemon]]
           /\ \A q \in Proc \ {p} : own'[q] = own[q]
           /\ \A j \in Kind \ {k} : own'[p][j] = own[p][j]
<1>1. PICK d \in Daemon : own' = [own EXCEPT ![p][k] = d]
  BY DEF Shapes, Term, Kill, Daemon
<1> QED BY <1>1 DEF Shapes

\* A stop goes on at once without a child, or does one half.
LEMMA StopFacts ==
    ASSUME NEW p \in Proc, NEW k \in Kind, NEW ACTION Then, Stop(p, k, Then)
    PROVE  /\ UNCHANGED stray
           /\ \/ own[p][k] = "none" /\ Then /\ UNCHANGED own
              \/ (Term(p, k) \/ Kill(p, k)) /\ UNCHANGED <<pc, at, stage>>
BY DEF Stop, Kill

LEMMA StopForReloadStep ==
    ASSUME Inv, NEW p \in Proc, StopForReload(p)
    PROVE  Inv'
<1>1. /\ Shapes /\ at[p] # "cli" /\ pc[p] \notin Early \cup {"stopping"} /\ stage[p] = "none"
      /\ "tahoe" \in Kind /\ "bring" \in (Steps \ Early) \ {"stopping"}
      /\ UNCHANGED <<lock, server, node, exec, quitting, joined, invites, runs, faults>>
  BY WindowFacts DEF StopForReload, At, Kind, Points, Steps, Early
<1>2. /\ UNCHANGED stray
      /\ \/ Goto(p, "bring") /\ UNCHANGED <<stage, own>>
         \/ (Term(p, "tahoe") \/ Kill(p, "tahoe")) /\ UNCHANGED <<pc, at, stage>>
  BY <1>1, StopFacts DEF StopForReload
<1>3. CASE Goto(p, "bring") /\ UNCHANGED <<stage, own>>
  BY <1>1, <1>2, <1>3, GoesOn DEF Shapes
<1>4. CASE (Term(p, "tahoe") \/ Kill(p, "tahoe")) /\ UNCHANGED <<pc, at, stage>>
  <2>1. /\ own' \in [Proc -> [Kind -> Daemon]]
        /\ \A q \in Proc \ {p} : own'[q] = own[q]
    BY <1>1, <1>4, HalfFacts
  <2>2. Shapes'
    BY <1>1, <1>2, <1>4, <2>1 DEF Shapes, invites
  <2>3. Moves(p)
    BY <1>1, <1>4, <2>1 DEF Moves, Apart, Early, invites
  <2> QED BY <2>2, <2>3, MovesStep
<1> QED BY <1>2, <1>3, <1>4

LEMMA StopCliStep ==
    ASSUME Inv, NEW p \in Proc, StopCli(p)
    PROVE  Inv'
<1>1. /\ Shapes /\ Local(p) /\ at[p] = "cli" /\ pc[p] = "stopping" /\ stage[p] = "none"
      /\ "tahoe" \in Kind /\ "off" \in Steps
      /\ UNCHANGED <<lock, server, node, exec, quitting, joined, invites, runs, faults>>
  BY DEF StopCli, At, Inv, Local, CliIsApart, Kind, Steps, Points
<1>2. /\ UNCHANGED stray
      /\ \/ own[p]["tahoe"] = "none" /\ Goto(p, "off") /\ UNCHANGED <<stage, own>>
         \/ (Term(p, "tahoe") \/ Kill(p, "tahoe")) /\ UNCHANGED <<pc, at, stage>>
  BY <1>1, StopFacts DEF StopCli
<1>3. CASE own[p]["tahoe"] = "none" /\ Goto(p, "off") /\ UNCHANGED <<stage, own>>
  <2>1. /\ pc' \in [Proc -> Steps] /\ pc'[p] = "off"
        /\ at' \in [Proc -> {"auto", "join", "reload", "cli"}] /\ at'[p] = "auto"
        /\ \A q \in Proc \ {p} : pc'[q] = pc[q] /\ at'[q] = at[q]
    BY <1>1, <1>3, GotoFacts
  <2>2. Shapes'
    BY <1>1, <1>2, <1>3, <2>1 DEF Shapes, invites
  <2>3. Local(p)'
    BY <1>1, <1>3, <2>1
       DEF Local, OffHasNothing, CliIsApart, ShutSoFar, Holds, Kind, invites
  <2>4. Apart(p) /\ LockStep(p)
    BY <1>1, <1>3, <2>1 DEF Apart, LockStep, invites
  <2> QED BY <2>2, <2>3, <2>4, Elsewhere
<1>4. CASE (Term(p, "tahoe") \/ Kill(p, "tahoe")) /\ UNCHANGED <<pc, at, stage>>
  <2>1. /\ own' \in [Proc -> [Kind -> Daemon]]
        /\ \A q \in Proc \ {p} : own'[q] = own[q]
        /\ own'[p]["mf"] = own[p]["mf"]
    BY <1>1, <1>4, HalfFacts DEF Kind
  <2>2. Shapes'
    BY <1>1, <1>2, <1>4, <2>1 DEF Shapes, invites
  <2>3. Moves(p)
    BY <1>1, <1>4, <2>1 DEF Moves, Apart, Early, CliSteps, invites
  <2> QED BY <2>2, <2>3, MovesStep
<1> QED BY <1>2, <1>3, <1>4

LEMMA QuitStep ==
    ASSUME Inv, NEW p \in Proc, Quit(p)
    PROVE  Inv'
<1>1. /\ Shapes /\ Local(p) /\ at[p] # "cli" /\ pc[p] \notin Early \cup {"stopping"}
  BY WindowFacts DEF Quit, Dispatching
<1>2. /\ quitting' = [quitting EXCEPT ![p] = TRUE] /\ pending' = [pending EXCEPT ![p] = None]
      /\ stage' = [stage EXCEPT ![p] = "server"]
      /\ UNCHANGED <<home, pc, at, exec, joined, own, field, mail, runs, faults>>
  BY DEF Quit, Dismiss
<1>3. Shapes'
  BY <1>1, <1>2 DEF Shapes, home
<1>4. quitting'[p] /\ pending'[p] = None /\ stage'[p] = "server"
  BY <1>1, <1>2 DEF Shapes
<1>5. Local(p)'
  BY <1>1, <1>2, <1>4
     DEF Local, OffHasNothing, CliIsApart, ShutSoFar, Holds, Early, home
<1>6. Apart(p) /\ LockStep(p)
  BY <1>1, <1>2 DEF Apart, LockStep, home, Shapes
<1> QED BY <1>3, <1>5, <1>6, Elsewhere

LEMMA LeaveStep ==
    ASSUME Inv, NEW p \in Proc, Leave(p)
    PROVE  Inv'
<1>1. /\ Shapes /\ Local(p) /\ at[p] # "cli" /\ quitting[p] /\ "final" \in Steps
  BY WindowFacts DEF Leave, At, Points, Steps, Local, ShutSoFar
<1>2. /\ Goto(p, "final") /\ pending' = [pending EXCEPT ![p] = None]
      /\ stage' = [stage EXCEPT ![p] = "server"]
      /\ UNCHANGED <<home, exec, quitting, joined, own, field, mail, runs, faults>>
  BY DEF Leave, Dismiss
<1>3. /\ pc' \in [Proc -> Steps] /\ pc'[p] = "final"
      /\ at' \in [Proc -> {"auto", "join", "reload", "cli"}] /\ at'[p] = at[p]
      /\ \A q \in Proc \ {p} : pc'[q] = pc[q] /\ at'[q] = at[q]
  BY <1>1, <1>2, GotoFacts
<1>4. Shapes'
  BY <1>1, <1>2, <1>3 DEF Shapes, home
<1>5. pending'[p] = None /\ stage'[p] = "server"
  BY <1>1, <1>2 DEF Shapes
<1>6. Local(p)'
  BY <1>1, <1>2, <1>3, <1>5
     DEF Local, OffHasNothing, CliIsApart, ShutSoFar, Holds, home
<1>7. Apart(p) /\ LockStep(p)
  BY <1>1, <1>2, <1>3 DEF Apart, LockStep, home, Shapes
<1> QED BY <1>4, <1>6, <1>7, Elsewhere

\* Inside shutdown() p is a window that is quitting, with no question open.
LEMMA InsideFacts ==
    ASSUME Inv, NEW p \in Proc, stage[p] # "none"
    PROVE  /\ Shapes /\ Local(p) /\ quitting[p] /\ pending[p] = None
           /\ at[p] # "cli" /\ pc[p] \notin Early \cup {"stopping"}
BY DEF Inv, Local, OffHasNothing, CliIsApart, ShutSoFar, Early

LEMMA CloseServerStep ==
    ASSUME Inv, NEW p \in Proc, CloseServer(p)
    PROVE  Inv'
<1>1. stage[p] = "server" /\ stage' = [stage EXCEPT ![p] = "mf"]
      /\ server' = (IF server = p THEN None ELSE server) /\ mail' = [mail EXCEPT ![p] = <<>>]
      /\ UNCHANGED <<lock, node, stray, pc, at, exec, quitting, joined, own, field, pending,
                     runs, faults>>
  BY DEF CloseServer, Shut
<1>2. Shapes /\ Local(p) /\ quitting[p] /\ pending[p] = None /\ at[p] # "cli"
      /\ pc[p] \notin Early \cup {"stopping"} /\ <<>> \in Seq(Invite)
  BY <1>1, InsideFacts
<1>3. Shapes' /\ stage'[p] = "mf" /\ server' # p
  BY <1>1, <1>2, DesktopAssumption DEF Shapes
<1>4. Local(p)'
  BY <1>1, <1>2, <1>3 DEF Local, OffHasNothing, CliIsApart, ShutSoFar, Holds, Early
<1>5. Apart(p) /\ LockStep(p)
  BY <1>1, <1>2 DEF Apart, LockStep, Shapes
<1> QED BY <1>3, <1>4, <1>5, Elsewhere

\* StopMf and StopTahoe: a half, or the next step when there is no child.
LEMMA ShutChildStep ==
    ASSUME Inv, NEW p \in Proc, StopMf(p) \/ StopTahoe(p)
    PROVE  Inv'
<1>1. /\ stage[p] \in {"mf", "tahoe"} /\ "mf" \in Kind /\ "tahoe" \in Kind
      /\ UNCHANGED <<lock, server, node, exec, quitting, joined, invites, runs, faults>>
  BY DEF StopMf, StopTahoe, Kind
<1> DEFINE k == stage[p]
           next == IF k = "mf" THEN "tahoe" ELSE "lock"
<1>2. /\ Shapes /\ Local(p) /\ quitting[p] /\ pending[p] = None /\ at[p] # "cli"
      /\ pc[p] \notin Early \cup {"stopping"}
  BY <1>1, InsideFacts
<1>3. UNCHANGED <<stray, pc, at>>
      /\ \/ own[p][k] = "none" /\ stage' = [stage EXCEPT ![p] = next] /\ UNCHANGED own
         \/ (Term(p, k) \/ Kill(p, k)) /\ UNCHANGED stage
  <2>1. CASE StopMf(p)
    BY <1>1, <2>1, StopFacts DEF StopMf
  <2>2. CASE StopTahoe(p)
    <3>1. k = "tahoe" /\ next = "lock"
      BY <2>2 DEF StopTahoe
    <3>2. Stop(p, "tahoe", stage' = [stage EXCEPT ![p] = "lock"] /\ UNCHANGED <<pc, at>>)
      BY <2>2 DEF StopTahoe
    <3>3. /\ UNCHANGED stray
          /\ \/ /\ own[p]["tahoe"] = "none" /\ UNCHANGED own
                /\ stage' = [stage EXCEPT ![p] = "lock"] /\ UNCHANGED <<pc, at>>
             \/ (Term(p, "tahoe") \/ Kill(p, "tahoe")) /\ UNCHANGED <<pc, at, stage>>
      BY <1>1, <3>2, StopFacts
    <3> QED BY <3>1, <3>3
  <2> QED BY <1>1, <2>1, <2>2
<1>4. CASE own[p][k] = "none" /\ stage' = [stage EXCEPT ![p] = next] /\ UNCHANGED own
  <2>1. Shapes' /\ stage'[p] = next
    BY <1>1, <1>2, <1>3, <1>4 DEF Shapes, invites
  <2>2. Local(p)'
    BY <1>1, <1>2, <1>3, <1>4, <2>1
       DEF Local, OffHasNothing, CliIsApart, ShutSoFar, Holds, Early, invites
  <2>3. Apart(p) /\ LockStep(p)
    BY <1>1, <1>2, <1>3, <1>4 DEF Apart, LockStep, Shapes, invites
  <2> QED BY <2>1, <2>2, <2>3, Elsewhere
<1>5. CASE (Term(p, k) \/ Kill(p, k)) /\ UNCHANGED stage
  <2>1. /\ own' \in [Proc -> [Kind -> Daemon]]
        /\ \A q \in Proc \ {p} : own'[q] = own[q]
        /\ \A j \in Kind \ {k} : own'[p][j] = own[p][j]
    BY <1>1, <1>2, <1>5, HalfFacts
  <2>2. Shapes'
    BY <1>1, <1>2, <1>3, <1>5, <2>1 DEF Shapes, invites
  <2>3. Local(p)'
    BY <1>1, <1>2, <1>3, <1>5, <2>1
       DEF Local, OffHasNothing, CliIsApart, ShutSoFar, Holds, Early, invites
  <2>4. Apart(p) /\ LockStep(p)
    BY <1>1, <1>3, <1>5, <2>1 DEF Apart, LockStep, invites
  <2> QED BY <2>2, <2>3, <2>4, Elsewhere
<1> QED BY <1>3, <1>4, <1>5

LEMMA ReleaseStep ==
    ASSUME Inv, NEW p \in Proc, Release(p)
    PROVE  Inv'
<1>1. /\ stage[p] = "lock" /\ stage' = [stage EXCEPT ![p] = "none"]
      /\ lock' = IF lock = p THEN None ELSE lock
      /\ UNCHANGED <<server, node, stray, own, pending, mail, runs, faults>>
  BY DEF Release, Shut
<1>2. /\ Shapes /\ Local(p) /\ quitting[p] /\ pending[p] = None /\ at[p] # "cli"
      /\ pc[p] \notin Early \cup {"stopping"} /\ "off" \in Steps
  BY <1>1, InsideFacts DEF Steps, Points
<1>3. server # p /\ (\A k \in Kind : own[p][k] = "none") /\ lock' # p /\ stage'[p] = "none"
  BY <1>1, <1>2, DesktopAssumption DEF Local, ShutSoFar, Kind, Shapes
<1>4. LockStep(p)
  BY <1>1 DEF LockStep
<1>5. CASE pc[p] = "final"
  <2>1. /\ Goto(p, "off") /\ exec' = [exec EXCEPT ![p] = "before"]
        /\ quitting' = [quitting EXCEPT ![p] = FALSE]
        /\ joined' = [joined EXCEPT ![p] = FALSE] /\ field' = [field EXCEPT ![p] = None]
    BY <1>5 DEF Release
  <2>2. /\ pc' \in [Proc -> Steps] /\ pc'[p] = "off"
        /\ at' \in [Proc -> {"auto", "join", "reload", "cli"}] /\ at'[p] = "auto"
        /\ \A q \in Proc \ {p} : pc'[q] = pc[q] /\ at'[q] = at[q]
    BY <1>2, <2>1, GotoFacts
  <2>3. Shapes' /\ exec'[p] = "before"
    BY <1>1, <1>2, <2>1, <2>2 DEF Shapes
  <2>4. Local(p)'
    BY <1>1, <1>2, <1>3, <2>2, <2>3
       DEF Local, OffHasNothing, CliIsApart, ShutSoFar, Holds
  <2>5. Apart(p)
    BY <1>1, <1>2, <2>1, <2>2 DEF Apart, Shapes
  <2> QED BY <1>4, <2>3, <2>4, <2>5, Elsewhere
<1>6. CASE pc[p] # "final"
  <2>1. /\ exec' = [exec EXCEPT ![p] = IF @ = "running" THEN "leaving" ELSE @]
        /\ UNCHANGED <<pc, at, quitting, joined, field>>
    BY <1>6 DEF Release
  <2>2. Shapes'
    BY <1>1, <1>2, <2>1 DEF Shapes
  <2>3. Local(p)'
    BY <1>1, <1>2, <1>3, <2>1
       DEF Local, OffHasNothing, CliIsApart, ShutSoFar, Holds, Early
  <2>4. Apart(p)
    BY <1>1, <1>2, <2>1 DEF Apart, Shapes
  <2> QED BY <1>4, <2>2, <2>3, <2>4, Elsewhere
<1> QED BY <1>5, <1>6

----------------------------------------------------------------------------
(* The field, and what happens around a process. *)

LEMMA ShowFacts ==
    ASSUME Shapes, NEW p \in Proc, NEW x \in Invite, Show(p, x)
    PROVE  /\ field' \in [Proc -> Invite \cup {None}] /\ pending' \in [Proc -> Invite \cup {None}]
           /\ \A q \in Proc \ {p} : field'[q] = field[q] /\ pending'[q] = pending[q]
           /\ quitting[p] \/ joined[p] \/ x \in {field'[p], pending'[p]}
<1>0. field \in [Proc -> Invite \cup {None}] /\ pending \in [Proc -> Invite \cup {None}]
  BY DEF Shapes
<1>1. CASE quitting[p] \/ joined[p]
  BY <1>0, <1>1 DEF Show
<1>2. CASE ~(quitting[p] \/ joined[p])
  <2>1. field' = [field EXCEPT ![p] = IF @ = None THEN x ELSE @]
    BY <1>2 DEF Show
  <2>2. \/ field[p] = None /\ pending' = pending
        \/ field[p] = x /\ pending' = [pending EXCEPT ![p] = None]
        \/ pending' = [pending EXCEPT ![p] = x]
    BY <1>2 DEF Show, Dismiss, AskReplace
  <2>3. /\ field' \in [Proc -> Invite \cup {None}]
        /\ \A q \in Proc \ {p} : field'[q] = field[q]
        /\ field[p] \in {None, x} => field'[p] = x
    BY <1>0, <2>1
  <2>4. /\ pending' \in [Proc -> Invite \cup {None}]
        /\ \A q \in Proc \ {p} : pending'[q] = pending[q]
        /\ field[p] \in {None, x} \/ pending'[p] = x
    BY <1>0, <2>2
  <2> QED BY <2>3, <2>4
<1> QED BY <1>1, <1>2

LEMMA FieldStep ==
    ASSUME Inv, NEW p \in Proc,
           (\E x \in Invite \cup {None} : Type(p, x)) \/ Receive(p) \/ Answer(p)
    PROVE  Inv'
<1>1. /\ Shapes /\ at[p] # "cli" /\ pc[p] \notin Early \cup {"stopping"} /\ stage[p] = "none"
      /\ UNCHANGED <<home, thread, own, runs, faults>>
  BY WindowFacts DEF Type, Receive, Answer, Dispatching, InLoop, At, Points
<1>2. /\ field' \in [Proc -> Invite \cup {None}] /\ pending' \in [Proc -> Invite \cup {None}]
      /\ mail' \in [Proc -> Seq(Invite)]
      /\ \A q \in Proc \ {p} : field'[q] = field[q] /\ pending'[q] = pending[q]
  <2>1. CASE \E x \in Invite \cup {None} : Type(p, x)
    BY <1>1, <2>1 DEF Type, Shapes
  <2>2. CASE Answer(p)
    BY <1>1, <2>2 DEF Answer, Dismiss, Shapes
  <2>3. CASE Receive(p)
    <3>1. mail[p] \in Seq(Invite) /\ mail[p] # <<>>
      BY <1>1, <2>3 DEF Receive, Shapes
    <3>2. Head(mail[p]) \in Invite /\ Tail(mail[p]) \in Seq(Invite)
      BY <3>1
    <3>3. mail' \in [Proc -> Seq(Invite)]
      BY <1>1, <2>3, <3>2 DEF Receive, Shapes
    <3>4. Show(p, Head(mail[p]))
      BY <2>3 DEF Receive
    <3> QED BY <1>1, <3>2, <3>3, <3>4, ShowFacts
  <2> QED BY <2>1, <2>2, <2>3
<1>3. Shapes'
  BY <1>1, <1>2 DEF Shapes, home, thread
<1>4. Moves(p)
  BY <1>1, <1>2 DEF Moves, Apart, Early, home, thread
<1> QED BY <1>3, <1>4, MovesStep

LEMMA DaemonStep ==
    ASSUME Inv, NEW p \in Proc, NEW k \in Kind, DaemonUp(p, k) \/ DaemonExits(p, k)
    PROVE  Inv'
<1>1. /\ Shapes /\ Local(p) /\ own[p][k] # "none"
      /\ UNCHANGED <<home, thread, invites, runs>>
  BY DEF DaemonUp, DaemonExits, Inv
<1>2. faults' \in 0..MaxFaults
  BY <1>1, DesktopAssumption DEF DaemonUp, DaemonExits, Shapes
<1>3. PICK d \in Daemon : own' = [own EXCEPT ![p][k] = d]
  BY DEF DaemonUp, DaemonExits, Daemon
<1>4. /\ own' \in [Proc -> [Kind -> Daemon]] /\ \A q \in Proc \ {p} : own'[q] = own[q]
      /\ \A j \in Kind \ {k} : own'[p][j] = own[p][j]
  BY <1>1, <1>3 DEF Shapes
<1>5. Shapes'
  BY <1>1, <1>2, <1>4 DEF Shapes, home, thread, invites
<1>6. /\ pc[p] # "off" /\ at[p] = "cli" => k = "tahoe" /\ pc[p] \notin Early
      /\ stage[p] \in {"tahoe", "lock"} => k = "tahoe"
      /\ stage[p] # "lock"
  BY <1>1 DEF Local, OffHasNothing, CliIsApart, ShutSoFar, Kind, Early
<1>7. OffHasNothing(p)' /\ Holds(p)'
  BY <1>1, <1>6 DEF Local, OffHasNothing, Holds, home, thread, invites
<1>8. CliIsApart(p)'
  BY <1>1, <1>4, <1>6 DEF Local, CliIsApart, Early, Kind, home, thread, invites
<1>9. ShutSoFar(p)'
  BY <1>1, <1>4, <1>6 DEF Local, ShutSoFar, Kind, home, thread, invites
<1>10. Apart(p) /\ LockStep(p)
  BY <1>1, <1>4 DEF Apart, LockStep, home, thread, invites
<1> QED BY <1>5, <1>7, <1>8, <1>9, <1>10, Elsewhere DEF Local

LEMMA StrayStep ==
    ASSUME Inv, NEW k \in Kind, StrayMoves(k)
    PROVE  Inv'
<1>1. /\ Shapes /\ stray' \in [Kind -> {"none", "left", "up"}]
      /\ UNCHANGED <<lock, server, node, thread, own, invites, runs, faults>>
  BY DEF StrayMoves, Inv, Shapes
<1>2. Shapes'
  BY <1>1 DEF Shapes, thread, invites
<1>3. ASSUME NEW p \in Proc PROVE Local(p)'
  <2>1. Local(p)
    BY DEF Inv
  <2>2. OffHasNothing(p)' /\ Holds(p)'
    BY <1>1, <2>1 DEF Local, OffHasNothing, Holds, thread, invites
  <2>3. CliIsApart(p)'
    BY <1>1, <2>1 DEF Local, CliIsApart, thread, invites
  <2>4. ShutSoFar(p)'
    BY <1>1, <2>1 DEF Local, ShutSoFar, thread, invites
  <2> QED BY <2>2, <2>3, <2>4 DEF Local
<1> QED BY <1>2, <1>3 DEF Inv

LEMMA CrashStep ==
    ASSUME Inv, NEW p \in Proc, Crash(p)
    PROVE  Inv'
<1>1. Shapes /\ "off" \in Steps /\ <<>> \in Seq(Invite)
  BY DEF Inv, Steps, Points
<1>2. /\ faults < MaxFaults /\ faults' = faults + 1
      /\ lock' = (IF lock = p THEN None ELSE lock)
      /\ server' = (IF server = p THEN None ELSE server)
      /\ own' = [own EXCEPT ![p] = [k \in Kind |-> "none"]]
      /\ Goto(p, "off")
      /\ stage' = [stage EXCEPT ![p] = "none"] /\ exec' = [exec EXCEPT ![p] = "before"]
      /\ quitting' = [quitting EXCEPT ![p] = FALSE]
      /\ joined' = [joined EXCEPT ![p] = FALSE] /\ field' = [field EXCEPT ![p] = None]
      /\ pending' = [pending EXCEPT ![p] = None] /\ mail' = [mail EXCEPT ![p] = <<>>]
      /\ UNCHANGED <<node, runs>>
  BY DEF Crash, Dismiss
<1>3. stray' \in [Kind -> {"none", "left", "up"}]
  <2>1. ASSUME NEW k \in Kind PROVE Lost(stray[k], own[p][k]) \in {"none", "left", "up"}
    BY <1>1 DEF Shapes, Lost
  <2> QED BY <2>1 DEF Crash
<1>4. /\ pc' \in [Proc -> Steps] /\ pc'[p] = "off"
      /\ at' \in [Proc -> {"auto", "join", "reload", "cli"}] /\ at'[p] = "auto"
      /\ \A q \in Proc \ {p} : pc'[q] = pc[q] /\ at'[q] = at[q]
  BY <1>1, <1>2, GotoFacts
<1>5. /\ own' \in [Proc -> [Kind -> Daemon]] /\ \A q \in Proc \ {p} : own'[q] = own[q]
      /\ \A k \in Kind : own'[p][k] = "none"
  BY <1>1, <1>2 DEF Shapes, Daemon
<1>6. faults' \in 0..MaxFaults
  BY <1>1, <1>2, DesktopAssumption DEF Shapes
<1>7. Shapes'
  BY <1>1, <1>2, <1>3, <1>4, <1>5, <1>6 DEF Shapes
<1>8. stage'[p] = "none" /\ pending'[p] = None /\ exec'[p] = "before"
      /\ lock' # p /\ server' # p
  BY <1>1, <1>2, DesktopAssumption DEF Shapes
<1>9. Local(p)'
  BY <1>4, <1>5, <1>8 DEF Local, OffHasNothing, CliIsApart, ShutSoFar, Holds
<1>10. Apart(p) /\ LockStep(p)
  BY <1>1, <1>2, <1>4, <1>5 DEF Apart, LockStep, Shapes
<1> QED BY <1>7, <1>9, <1>10, Elsewhere

LEMMA Invariance == Spec => []Inv
<1>1. ASSUME Inv, [Next]_vars
      PROVE  Inv'
  <2>1. CASE UNCHANGED vars
    <3>1. UNCHANGED <<home, thread, own, invites, runs, faults>>
      BY <2>1 DEF vars
    <3>2. Shapes'
      BY <1>1, <3>1 DEF Inv, Shapes, home, thread, invites
    <3>3. ASSUME NEW p \in Proc PROVE Local(p)'
      <4>1. Local(p)
        BY <1>1 DEF Inv
      <4>2. OffHasNothing(p)' /\ Holds(p)'
        BY <3>1, <4>1 DEF Local, OffHasNothing, Holds, home, thread, invites
      <4>3. CliIsApart(p)'
        BY <3>1, <4>1 DEF Local, CliIsApart, home, thread, invites
      <4>4. ShutSoFar(p)'
        BY <3>1, <4>1 DEF Local, ShutSoFar, home, thread, invites
      <4> QED BY <4>2, <4>3, <4>4 DEF Local
    <3> QED BY <3>2, <3>3 DEF Inv
  <2>2. ASSUME NEW p \in Proc, Works(p) PROVE Inv'
    BY <1>1, <2>2, ProbedStep, HandOverStep, ListenStep, BeginStep, CreateStep, BringStep,
       AwaitStep, ConnectStep, RefreshStep, MfWaitStep, ExecStep, StopForReloadStep,
       StopCliStep, LeaveStep, CloseServerStep, ShutChildStep, ReleaseStep
       DEF Works
  <2>3. ASSUME NEW p \in Proc, Asked(p) PROVE Inv'
    BY <1>1, <2>3, LaunchWindowStep, LaunchJoinStep, JoinStep, QuitStep, FieldStep DEF Asked
  <2>4. CASE Next
    BY <1>1, <2>2, <2>3, <2>4, FieldStep, CrashStep, DaemonStep, StrayStep DEF Next
  <2> QED BY <1>1, <2>1, <2>4
<1> QED BY <1>1, InitInv, PTL DEF Spec

\* Every variable keeps its shape, and a process that is not there has no child, no
\* question and neither the lock nor the endpoint (app.run_app, shutdown).
THEOREM Typing == Spec => []TypeOK
<1>1. Inv => TypeOK
  <2> SUFFICES ASSUME Inv PROVE TypeOK
    OBVIOUS
  <2>1. ASSUME NEW p \in Proc, pc[p] = "off"
        PROVE  /\ own[p] = [k \in Kind |-> "none"] /\ lock # p /\ server # p
               /\ pending[p] = None
    <3>1. OffHasNothing(p) /\ own[p] \in [Kind -> Daemon]
      BY DEF Inv, Local, Shapes
    <3> QED BY <2>1, <3>1 DEF OffHasNothing
  <2> QED BY <2>1 DEF Inv, Shapes, TypeOK
<1> QED BY <1>1, Invariance, PTL

\* However launches, closes and joins overlap, only one window that is not quitting is
\* there, the one with the lock (app.acquire_instance_lock, shutdown).
THEOREM OneAtATime == Spec => []OneWindow
<1>1. Inv => OneWindow
  BY DEF Inv, Local, Holds, OneWindow
<1> QED BY <1>1, Invariance, PTL

----------------------------------------------------------------------------
(* What a step may do. *)

\* The lock moves by a launch, the end of a probe, shutdown() or a kill.
LEMMA LockFacts ==
    ASSUME Inv, Next
    PROVE  \/ lock' = lock \/ lock = None \/ faults' # faults
           \/ \E q \in Proc : (Probed(q) \/ Release(q)) /\ lock = q
<1>1. faults \in Nat
  BY DesktopAssumption DEF Inv, Shapes
<1>2. ASSUME NEW p \in Proc, Works(p), lock' # lock
      PROVE  (Probed(p) \/ Release(p)) /\ lock = p
  <2>1. CASE Probed(p)
    BY <2>1 DEF Inv, Local, CliIsApart, Probed
  <2>2. CASE Release(p)
    BY <1>2, <2>2 DEF Release
  <2>3. ASSUME ~Probed(p), ~Release(p)
        PROVE  lock' = lock
    BY <1>2, <2>3
       DEF Works, HandOver, Listen, Begin, Create, Bring, Await, Connect, Refresh, MfWait, Exec,
           StopForReload, StopCli, Leave, CloseServer, StopMf, StopTahoe, home
  <2> QED BY <1>2, <2>1, <2>2, <2>3
<1>3. ASSUME NEW p \in Proc, Asked(p)
      PROVE  lock' = lock \/ lock = None
  BY <1>3 DEF Asked, LaunchWindow, LaunchJoin, TryLock, Join, Reload, Quit, Answer, Type, home
<1>4. ASSUME NEW p \in Proc, Receive(p) \/ Crash(p)
      PROVE  lock' = lock \/ faults' # faults
  BY <1>1, <1>4 DEF Receive, Crash, home
<1>5. ASSUME NEW p \in Proc, NEW k \in Kind, DaemonUp(p, k) \/ DaemonExits(p, k)
      PROVE  lock' = lock
  BY <1>5 DEF DaemonUp, DaemonExits, home
<1>6. ASSUME NEW k \in Kind, StrayMoves(k) PROVE lock' = lock
  BY <1>6 DEF StrayMoves
<1> QED BY <1>2, <1>3, <1>4, <1>5, <1>6 DEF Next

\* Whoever lets go of the lock has no child left and does not listen any more, unless it
\* is killed (app.shutdown, and the probe of a launch with --join).
THEOREM CleanRelease == Spec => ReleasedClean
<1> DEFINE Clean == \A p \in Proc : lock = p /\ lock' # p /\ faults' = faults =>
                        server # p /\ \A k \in Kind : own[p][k] = "none"
<1>1. ASSUME Inv, Next, NEW p \in Proc, lock = p, lock' # p, faults' = faults
      PROVE  server # p /\ \A k \in Kind : own[p][k] = "none"
  <2>1. Probed(p) \/ Release(p)
    BY <1>1, LockFacts, DesktopAssumption
  <2>2. Local(p)
    BY <1>1 DEF Inv
  <2>3. CASE Probed(p)
    BY <2>2, <2>3 DEF Probed, Local, CliIsApart, Kind
  <2>4. CASE Release(p)
    BY <2>2, <2>4 DEF Release, Shut, Local, ShutSoFar, Kind
  <2> QED BY <2>1, <2>3, <2>4
<1>2. Inv /\ [Next]_vars => [Clean]_vars
  BY <1>1
<1>3. ReleasedClean <=> [][Clean]_vars
  BY DEF ReleasedClean
<1> HIDE DEF Clean
<1> QED BY <1>2, <1>3, Invariance, PTL DEF Spec

\* Stopping a daemon, whatever has become of its leader, leaves nothing of its group
\* (backend.reap_child).
THEOREM NobodyLeft == Spec => StopLeavesNobody
<1> DEFINE Gone == \A k \in Kind : stray[k] = "none" /\ stray'[k] # "none" =>
                       faults' # faults \/ \E p \in Proc : Refresh(p)
<1>1. ASSUME Inv, Next, NEW k \in Kind, stray[k] = "none", stray'[k] # "none",
             ~\E p \in Proc : Refresh(p)
      PROVE  faults' # faults
  <2>1. Shapes /\ faults \in Nat
    BY <1>1, DesktopAssumption DEF Inv, Shapes
  <2>2. ASSUME NEW p \in Proc, StopForReload(p) \/ StopCli(p) \/ StopMf(p) \/ StopTahoe(p)
        PROVE  UNCHANGED stray
    BY <2>2, StopFacts DEF StopForReload, StopCli, StopMf, StopTahoe, Kind
  <2>3. ASSUME NEW p \in Proc, Works(p) PROVE UNCHANGED stray
    BY <1>1, <2>2, <2>3
       DEF Works, Probed, HandOver, Listen, Begin, Create, Bring, Await, Connect, MfWait, Exec,
           Leave, CloseServer, Release, home
  <2>4. ASSUME NEW p \in Proc, Asked(p) \/ Receive(p) PROVE UNCHANGED stray
    BY <2>4 DEF Asked, LaunchWindow, LaunchJoin, Join, Reload, Quit, Answer, Type, Receive, home
  <2>5. ASSUME NEW p \in Proc, NEW j \in Kind, DaemonUp(p, j) \/ DaemonExits(p, j)
        PROVE  UNCHANGED stray
    BY <2>5 DEF DaemonUp, DaemonExits, home
  <2>6. ASSUME NEW j \in Kind, StrayMoves(j) PROVE stray'[k] = "none"
    BY <1>1, <2>1, <2>6 DEF StrayMoves, Shapes
  <2>7. ASSUME NEW p \in Proc, Crash(p) PROVE faults' # faults
    BY <2>1, <2>7 DEF Crash
  <2> QED BY <1>1, <2>3, <2>4, <2>5, <2>6, <2>7 DEF Next
<1>2. ASSUME Inv, [Next]_vars PROVE [Gone]_vars
  BY <1>1, <1>2
<1>3. StopLeavesNobody <=> [][Gone]_vars
  BY DEF StopLeavesNobody
<1> HIDE DEF Gone
<1> QED BY <1>2, <1>3, Invariance, PTL DEF Spec

\* An invite that was sent is never dropped in silence by a window that is still there to
\* join: it is in the field or in the question (app.receive_handed_invite).
THEOREM Handed == Spec => HandedIsShown
<1> DEFINE Shown == \A p \in Proc : mail[p] # <<>> /\ Len(mail'[p]) < Len(mail[p]) =>
                        \/ Head(mail[p]) \in {field'[p], pending'[p]}
                        \/ joined[p] \/ quitting[p] \/ faults' # faults
<1>1. ASSUME Inv, Next, NEW p \in Proc, mail[p] # <<>>, Len(mail'[p]) < Len(mail[p]),
             ~joined[p], ~quitting[p], faults' = faults
      PROVE  Head(mail[p]) \in {field'[p], pending'[p]}
  <2>1. Shapes /\ faults \in Nat /\ mail[p] \in Seq(Invite) /\ Len(mail[p]) \in Nat
    BY <1>1, DesktopAssumption DEF Inv, Shapes
  <2>2. UNCHANGED mail => FALSE
    BY <1>1, <2>1
  <2>3. ASSUME NEW q \in Proc, Works(q) PROVE FALSE
    <3>1. CASE HandOver(q)
      <4>1. q # None /\ field[q] \in Invite
        BY <1>1, <3>1, DesktopAssumption DEF Inv, Local, CliIsApart, HandOver
      <4>2. mail'[p] = mail[p] \/ mail'[p] = Append(mail[p], field[q])
        BY <2>1, <3>1 DEF HandOver, Inspect, Shapes
      <4>3. Len(Append(mail[p], field[q])) = Len(mail[p]) + 1
        BY <2>1, <4>1
      <4> QED BY <1>1, <2>1, <4>2, <4>3
    <3>2. CASE CloseServer(q)
      <4>1. quitting[q]
        BY <1>1, <3>2, InsideFacts DEF CloseServer, Shut
      <4>2. mail'[p] = mail[p]
        BY <1>1, <2>1, <3>2, <4>1 DEF CloseServer, Shapes
      <4> QED BY <1>1, <2>1, <4>2
    <3>3. ASSUME ~HandOver(q), ~CloseServer(q) PROVE UNCHANGED mail
      BY <2>3, <3>3
         DEF Works, Probed, Listen, Begin, Create, Bring, Await, Connect, Refresh, MfWait, Exec,
             StopForReload, StopCli, Leave, StopMf, StopTahoe, Release, invites
    <3> QED BY <2>2, <3>1, <3>2, <3>3
  <2>4. ASSUME NEW q \in Proc, Asked(q) PROVE FALSE
    BY <2>2, <2>4 DEF Asked, LaunchWindow, LaunchJoin, Join, Reload, Quit, Answer, Type, invites
  <2>5. ASSUME NEW q \in Proc, NEW k \in Kind, DaemonUp(q, k) \/ DaemonExits(q, k) PROVE FALSE
    BY <2>2, <2>5 DEF DaemonUp, DaemonExits, invites
  <2>6. ASSUME NEW k \in Kind, StrayMoves(k) PROVE FALSE
    BY <2>2, <2>6 DEF StrayMoves, invites
  <2>7. ASSUME NEW q \in Proc, Crash(q) PROVE FALSE
    BY <1>1, <2>1, <2>7 DEF Crash
  <2>8. ASSUME NEW q \in Proc, Receive(q)
        PROVE  Head(mail[p]) \in {field'[p], pending'[p]}
    <3>1. q = p
      BY <1>1, <2>1, <2>8 DEF Receive, Shapes
    <3>2. Head(mail[p]) \in Invite /\ Show(p, Head(mail[p]))
      BY <1>1, <2>1, <2>8, <3>1 DEF Receive
    <3> QED BY <1>1, <2>1, <3>2, ShowFacts
  <2> QED BY <1>1, <2>3, <2>4, <2>5, <2>6, <2>7, <2>8 DEF Next
<1>2. ASSUME Inv, [Next]_vars PROVE [Shown]_vars
  BY <1>1, <1>2
<1>3. HandedIsShown <=> [][Shown]_vars
  BY DEF HandedIsShown
<1> HIDE DEF Shown
<1> QED BY <1>2, <1>3, Invariance, PTL DEF Spec
=============================================================================
