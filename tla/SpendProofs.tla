---------------------------- MODULE SpendProofs ----------------------------
(***************************************************************************)
(* What holds of Spend for any nodes, any slots and any number of passes.  *)
(*                                                                         *)
(* The inductive invariant says where the passes of the running call are:  *)
(* the file still holds them all, the refused ones are first..pass-1, and  *)
(* an accepted one is on record at its node.  As long as no write of a     *)
(* spent-set file has failed, memory and file of a node agree, so that a   *)
(* restart forgets nothing.                                                *)
(***************************************************************************)
EXTENDS Spend, TLAPS

\* A node's file never says anything else than its memory.
FilesFollow == \A n \in Node, t \in Pass : disk[n][t] # None => book[n][t] = disk[n][t]

\* The passes of a call that has not saved the wallet yet.
CallOwns ==
    call.pc \in {"wait", "ok", "refused"} =>
        /\ call.pass \in first..last
        /\ call.parked = first..(call.pass - 1)

\* Between the two saves the pass is in neither file.
CallHolds ==
    call.pc = "granted" =>
        /\ call.pass < first
        /\ \A n \in Node, s \in Slot : grants[n][s] # call.pass

CallIsPaid ==
    call.pc \in {"ok", "granted"} => book[call.node][call.pass] = call.slot

\* What restarts could undo, had a file not been written.
Durable ==
    /\ book = disk
    /\ CallIsPaid
    /\ GrantIsHonoured
    /\ NoPassIsLost

Inv ==
    /\ TypeOK
    /\ FilesFollow
    /\ CallOwns
    /\ CallHolds
    /\ GrantsAreDistinct
    /\ faults = 0 => Durable

\* What serving a request does to a node's two copies.
LEMMA RecordsFacts ==
    ASSUME TypeOK, FilesFollow, NEW q \in post, Records(q)
    PROVE  /\ book' \in Book /\ disk' \in Book
           /\ FilesFollow'
           /\ \A n \in Node, t \in Pass : book[n][t] # None => book'[n][t] = book[n][t]
           /\ \A n \in Node, t \in Pass : disk[n][t] # None => disk'[n][t] = disk[n][t]
           /\ book = disk => book' = disk'
           /\ Admits(q) => book'[q.node][q.pass] = q.slot
<1>1. /\ q.node \in Node /\ q.slot \in Slot /\ q.pass \in Pass
      /\ book \in Book /\ disk \in Book /\ q.slot # None
  BY AbsentAssumption DEF TypeOK, Request
<1>2. CASE ~Admits(q)
  <2>1. book' = book /\ disk' = disk
    BY <1>2 DEF Records
  <2> QED BY <1>1, <1>2, <2>1 DEF FilesFollow
<1>3. CASE Admits(q) /\ ~New(q)
  <2>1. book[q.node][q.pass] = q.slot
    BY <1>3 DEF Admits, New
  <2>2. book' = [book EXCEPT ![q.node][q.pass] = q.slot] /\ disk' = disk
    BY <1>3 DEF Records
  <2>3. book' = book
    BY <1>1, <2>1, <2>2 DEF Book
  <2> QED BY <1>1, <2>1, <2>2, <2>3 DEF FilesFollow
<1>4. CASE Admits(q) /\ New(q)
  <2>1. book' = [book EXCEPT ![q.node][q.pass] = q.slot]
    BY <1>4 DEF Records
  <2>2. disk' = [disk EXCEPT ![q.node] = book'[q.node]]
    BY <1>4 DEF Records
  <2>3. book[q.node][q.pass] = None /\ disk[q.node][q.pass] = None
    BY <1>1, <1>4 DEF New, FilesFollow
  <2>4. book' \in Book /\ book'[q.node] \in [Pass -> Slot \cup {None}]
    BY <1>1, <2>1 DEF Book
  <2>5. disk' \in Book
    BY <1>1, <2>2, <2>4 DEF Book
  <2>6. \A n \in Node, t \in Pass : book[n][t] # None => book'[n][t] = book[n][t]
    BY <1>1, <2>1, <2>3 DEF Book
  <2>7. \A n \in Node, t \in Pass : disk[n][t] # None => disk'[n][t] = disk[n][t]
    BY <1>1, <2>1, <2>2, <2>3, <2>6 DEF Book, FilesFollow
  <2>8. FilesFollow'
    BY <1>1, <2>1, <2>2, <2>6 DEF Book, FilesFollow
  <2>9. book = disk => book' = disk'
    BY <1>1, <2>1, <2>2 DEF Book
  <2> QED BY <1>1, <2>1, <2>4, <2>5, <2>6, <2>7, <2>8, <2>9 DEF Book
<1> QED BY <1>2, <1>3, <1>4

LEMMA InitInv == Init => Inv
<1> SUFFICES ASSUME Init PROVE Inv
  OBVIOUS
<1> USE BoundsAssumption, AbsentAssumption
<1>1. TypeOK
  BY DEF Init, TypeOK, Pass, Call, Idle, Request, Book
<1>2. FilesFollow /\ CallOwns /\ CallHolds
  BY DEF Init, FilesFollow, CallOwns, CallHolds, Idle
<1>3. GrantsAreDistinct
  BY DEF Init, GrantsAreDistinct
<1>4. Durable
  <2>1. CallIsPaid /\ book = disk
    BY DEF Init, CallIsPaid, Idle
  <2>2. GrantIsHonoured
    BY DEF Init, GrantIsHonoured
  <2>3. NoPassIsLost
    BY DEF Init, NoPassIsLost, Pass
  <2> QED BY <2>1, <2>2, <2>3 DEF Durable
<1> QED BY <1>1, <1>2, <1>3, <1>4 DEF Inv

\* Steps that begin, end or carry on a call and write no file.
LEMMA CallInv ==
    ASSUME Inv,
           \/ TopUp \/ Fails \/ TryNext
           \/ \E n \in Node, s \in Slot : Begin(n, s)
    PROVE  Inv'
<1> USE BoundsAssumption, AbsentAssumption
<1>1. CASE TopUp
  <2>1. TypeOK'
    BY <1>1 DEF Inv, TypeOK, TopUp, nodes, Pass, Book, Call, Idle
  <2>2. CallOwns' /\ CallHolds' /\ FilesFollow' /\ GrantsAreDistinct'
    BY <1>1 DEF Inv, TopUp, nodes, CallOwns, CallHolds, FilesFollow,
                GrantsAreDistinct, Idle
  <2>3. faults' = 0 => Durable'
    <3> SUFFICES ASSUME faults' = 0 PROVE Durable'
      OBVIOUS
    <3>1. Durable
      BY <1>1 DEF Inv, TopUp, nodes
    <3>2. NoPassIsLost'
      BY <1>1, <3>1 DEF Inv, TypeOK, TopUp, nodes, Durable, NoPassIsLost, Pass
    <3> QED BY <1>1, <3>1, <3>2 DEF TopUp, nodes, Durable, CallIsPaid,
                                    GrantIsHonoured, Leased
  <2> QED BY <2>1, <2>2, <2>3 DEF Inv
<1>2. CASE Fails
  <2>1. TypeOK'
    BY <1>2 DEF Inv, TypeOK, Fails, wallet, nodes, Call, Idle
  <2>2. CallOwns' /\ CallHolds' /\ FilesFollow' /\ GrantsAreDistinct'
    BY <1>2 DEF Inv, Fails, wallet, nodes, CallOwns, CallHolds, FilesFollow,
                GrantsAreDistinct, Idle
  <2>3. faults' = 0 => Durable'
    BY <1>2 DEF Inv, Fails, wallet, nodes, Durable, CallIsPaid, GrantIsHonoured,
                Leased, NoPassIsLost, Idle
  <2> QED BY <2>1, <2>2, <2>3 DEF Inv
<1>3. CASE TryNext
  <2>1. call.pass \in first..last /\ call.pass + 1 \in first..last
    BY <1>3 DEF Inv, CallOwns, TryNext, MayTryNext, TypeOK, Pass
  <2>2. TypeOK'
    <3>1. /\ call.pass \in Pass /\ call.pass + 1 \in Pass
          /\ call.node \in Node /\ call.slot \in Slot
      BY <1>3, <2>1 DEF Inv, TypeOK, TryNext, Call, Pass
    <3>2. call' \in Call /\ call'.node = call.node /\ call'.slot = call.slot
          /\ call'.pass = call.pass + 1
      BY <1>3, <3>1 DEF Inv, TypeOK, TryNext, Call
    <3>3. post' \subseteq Request
      BY <1>3, <3>1 DEF Inv, TypeOK, TryNext, Bound, Request
    <3> QED BY <1>3, <3>1, <3>2, <3>3 DEF Inv, TypeOK, TryNext, wallet, nodes, Pass
  <2>3. CallOwns'
    BY <1>3, <2>1 DEF Inv, TypeOK, TryNext, wallet, CallOwns, Call, Pass
  <2>4. CallHolds' /\ FilesFollow' /\ GrantsAreDistinct'
    BY <1>3 DEF Inv, TypeOK, TryNext, wallet, nodes, CallHolds, FilesFollow,
                GrantsAreDistinct, Call
  <2>5. faults' = 0 => Durable'
    BY <1>3 DEF Inv, TypeOK, TryNext, wallet, nodes, Durable, CallIsPaid,
                GrantIsHonoured, Leased, NoPassIsLost, Call
  <2> QED BY <2>2, <2>3, <2>4, <2>5 DEF Inv
<1>4. ASSUME NEW n \in Node, NEW s \in Slot, Begin(n, s) PROVE Inv'
  <2>1. first \in Pass
    BY <1>4 DEF Inv, TypeOK, Begin, Unpaid, Pass
  <2>2. TypeOK'
    BY <1>4, <2>1 DEF Inv, TypeOK, Begin, Unpaid, wallet, nodes, Call, Request, Book
  <2>3. CallOwns'
    BY <1>4, <2>1 DEF Inv, TypeOK, Begin, Unpaid, wallet, CallOwns, Pass
  <2>4. CallHolds' /\ FilesFollow' /\ GrantsAreDistinct'
    BY <1>4 DEF Inv, Begin, Unpaid, wallet, nodes, CallHolds, FilesFollow, GrantsAreDistinct
  <2>5. faults' = 0 => Durable'
    BY <1>4 DEF Inv, Begin, Unpaid, wallet, nodes, Durable, CallIsPaid, GrantIsHonoured,
                Leased, NoPassIsLost
  <2> QED BY <2>2, <2>3, <2>4, <2>5 DEF Inv
<1> QED BY <1>1, <1>2, <1>3, <1>4

\* The two outcomes that save the wallet.
LEMMA SaveInv == ASSUME Inv, GiveUp \/ SaveWallet PROVE Inv'
<1> USE BoundsAssumption, AbsentAssumption
<1>1. /\ call.pc \in {"ok", "refused"}
      /\ call.pass \in first..last /\ call.pass \in Pass /\ first' = call.pass + 1
      /\ call.parked = first..(call.pass - 1)
      /\ call.node \in Node /\ call.slot \in Slot
  <2>1. call.pc \in {"ok", "refused"} /\ first' = call.pass + 1
    BY DEF GiveUp, SaveWallet
  <2>2. call.pass \in first..last /\ call.parked = first..(call.pass - 1)
    BY <2>1 DEF Inv, CallOwns
  <2>3. call.node \in Node /\ call.slot \in Slot /\ call.pass \in Pass
    BY <2>1 DEF Inv, TypeOK, Call
  <2> QED BY <2>1, <2>2, <2>3
<1>2. first \in Nat /\ last \in Nat /\ call.pass \in Nat
  BY <1>1 DEF Inv, TypeOK, Pass
<1>3. UNCHANGED <<last, recovered, grants, post, book, disk, accepts, faults>>
  BY DEF GiveUp, SaveWallet, nodes
<1>4. rejected' \in SUBSET Pass /\ call' \in Call
  <2>1. call.parked \in SUBSET Pass /\ rejected \in SUBSET Pass
    BY DEF Inv, TypeOK, Call
  <2>2. rejected' \in SUBSET Pass
    BY <1>1, <2>1 DEF GiveUp, SaveWallet
  <2>3. call \in Call
    BY DEF Inv, TypeOK
  <2>4. CASE GiveUp
    BY <2>2, <2>4 DEF GiveUp, Call, Idle
  <2>5. CASE SaveWallet
    BY <2>2, <2>3, <2>5 DEF SaveWallet, Call
  <2> QED BY <2>4, <2>5
<1>5. call' = Idle \/ (call'.pc = "granted" /\ call'.node = call.node
                       /\ call'.slot = call.slot /\ call'.pass = call.pass
                       /\ call.pc = "ok")
  BY DEF GiveUp, SaveWallet, Inv, TypeOK, Call
<1>6. TypeOK'
  BY <1>1, <1>2, <1>3, <1>4, <1>5 DEF Inv, TypeOK, Idle, Pass
<1>7. GrantsAreDistinct'
  <2>1. \A n \in Node, s \in Slot : grants[n][s] \in Pass \cup {None}
    BY DEF Inv, TypeOK
  <2> QED BY <1>1, <1>2, <1>3, <2>1 DEF Inv, GrantsAreDistinct, Pass
<1>8. FilesFollow' /\ CallOwns'
  BY <1>3, <1>5 DEF Inv, FilesFollow, CallOwns, Idle
<1>9. CallHolds'
  <2>1. \A n \in Node, s \in Slot : grants[n][s] # call.pass
    BY <1>1, <1>2 DEF Inv, GrantsAreDistinct, TypeOK
  <2> QED BY <1>1, <1>2, <1>3, <1>5, <2>1 DEF CallHolds, Idle
<1>10. ASSUME faults' = 0 PROVE Durable'
  <2>1. Durable
    BY <1>3, <1>10 DEF Inv
  <2>2. CallIsPaid'
    BY <1>3, <1>5, <2>1 DEF Durable, CallIsPaid, Idle
  <2>3. GrantIsHonoured'
    BY <1>3, <2>1 DEF Durable, GrantIsHonoured, Leased
  <2>4. NoPassIsLost'
    <3> SUFFICES ASSUME NEW t \in 1..last, t < call.pass + 1
                 PROVE  t \in rejected' \/ \E n \in Node : disk[n][t] # None
      BY <1>1, <1>2, <1>3 DEF NoPassIsLost
    <3>1. CASE t < first
      BY <2>1, <3>1, <1>2 DEF Durable, NoPassIsLost, GiveUp, SaveWallet
    <3>2. CASE t >= first /\ t < call.pass
      <4>1. t \in call.parked
        BY <1>1, <1>2, <3>2
      <4> QED BY <4>1 DEF GiveUp, SaveWallet
    <3>3. CASE t = call.pass
      <4>1. CASE GiveUp
        BY <3>3, <4>1 DEF GiveUp
      <4>2. CASE SaveWallet
        <5>1. disk[call.node][call.pass] = call.slot
          BY <2>1, <4>2 DEF Durable, CallIsPaid, SaveWallet
        <5> QED BY <1>1, <3>3, <5>1
      <4> QED BY <4>1, <4>2
    <3> QED BY <1>2, <3>1, <3>2, <3>3
  <2> QED BY <1>3, <2>1, <2>2, <2>3, <2>4 DEF Durable
<1> QED BY <1>6, <1>7, <1>8, <1>9, <1>10 DEF Inv

LEMMA SaveGrantInv == ASSUME Inv, SaveGrant PROVE Inv'
<1> USE BoundsAssumption, AbsentAssumption
<1>1. /\ call.pc = "granted" /\ call.pass < first
      /\ call.node \in Node /\ call.slot \in Slot /\ call.pass \in Pass
      /\ \A n \in Node, s \in Slot : grants[n][s] # call.pass
  BY DEF Inv, TypeOK, CallHolds, SaveGrant, Call
<1>2. /\ grants' = [grants EXCEPT ![call.node][call.slot] = call.pass]
      /\ call' = Idle
      /\ UNCHANGED <<first, last, rejected, recovered, post, book, disk, accepts, faults>>
  BY DEF SaveGrant, wallet, nodes
<1>3. grants \in [Node -> [Slot -> Pass \cup {None}]]
  BY DEF Inv, TypeOK
<1>4. \A n \in Node, s \in Slot :
        grants'[n][s] = IF n = call.node /\ s = call.slot THEN call.pass ELSE grants[n][s]
  BY <1>1, <1>2, <1>3
<1>5. TypeOK'
  <2>1. grants' \in [Node -> [Slot -> Pass \cup {None}]]
    BY <1>1, <1>2, <1>3
  <2> QED BY <1>2, <2>1 DEF Inv, TypeOK, Call, Idle
<1>6. GrantsAreDistinct'
  BY <1>1, <1>2, <1>4 DEF Inv, GrantsAreDistinct
<1>7. FilesFollow' /\ CallOwns' /\ CallHolds'
  BY <1>2 DEF Inv, FilesFollow, CallOwns, CallHolds, Idle
<1>8. ASSUME faults' = 0 PROVE Durable'
  <2>1. Durable
    BY <1>2, <1>8 DEF Inv
  <2>2. CallIsPaid' /\ NoPassIsLost'
    BY <1>2, <2>1 DEF Durable, CallIsPaid, NoPassIsLost, Idle
  <2>3. book[call.node][call.pass] = call.slot /\ disk[call.node][call.pass] = call.slot
    BY <1>1, <2>1 DEF Durable, CallIsPaid
  <2>4. GrantIsHonoured'
    BY <1>1, <1>2, <1>4, <2>1, <2>3 DEF Durable, GrantIsHonoured, Leased
  <2> QED BY <1>2, <2>1, <2>2, <2>4 DEF Durable
<1> QED BY <1>5, <1>6, <1>7, <1>8 DEF Inv

\* A request is served, and its call may hear of it.
LEMMA ServeInv ==
    ASSUME Inv, NEW q \in post, Answer(q) \/ ServeUnheard(q)
    PROVE  Inv'
<1> USE BoundsAssumption, AbsentAssumption
<1>1. /\ Records(q) /\ post' = post \ {q}
      /\ UNCHANGED <<first, last, rejected, recovered, grants, accepts, faults>>
  BY DEF Answer, ServeUnheard, Serve, wallet
<1>2. /\ book' \in Book /\ disk' \in Book
      /\ FilesFollow'
      /\ \A n \in Node, t \in Pass : book[n][t] # None => book'[n][t] = book[n][t]
      /\ \A n \in Node, t \in Pass : disk[n][t] # None => disk'[n][t] = disk[n][t]
      /\ book = disk => book' = disk'
      /\ Admits(q) => book'[q.node][q.pass] = q.slot
  BY <1>1, RecordsFacts DEF Inv
<1>3. \/ call' = call
      \/ /\ call.pc = "wait" /\ call' \in Call
         /\ q = Bound(call.pass)
         /\ call'.node = call.node /\ call'.slot = call.slot /\ call'.pass = call.pass
         /\ call'.parked = call.parked
         /\ call'.pc = IF Admits(q) THEN "ok" ELSE "refused"
  BY DEF Answer, ServeUnheard, Answered, Inv, TypeOK, Call
<1>4. TypeOK'
  <2>1. call' \in Call /\ (call'.pc # "idle" =>
            call'.node # None /\ call'.slot # None /\ call'.pass # None)
    BY <1>3 DEF Inv, TypeOK
  <2> QED BY <1>1, <1>2, <2>1 DEF Inv, TypeOK
<1>5. CallOwns' /\ CallHolds' /\ GrantsAreDistinct'
  <2>1. CallOwns'
    BY <1>1, <1>3 DEF Inv, CallOwns
  <2>2. CallHolds'
    BY <1>1, <1>3 DEF Inv, CallHolds
  <2> QED BY <1>1, <2>1, <2>2 DEF Inv, GrantsAreDistinct
<1>6. ASSUME faults' = 0 PROVE Durable'
  <2>1. Durable
    BY <1>1, <1>6 DEF Inv
  <2>2. book' = disk'
    BY <1>2, <2>1 DEF Durable
  <2>3. CallIsPaid'
    <3>1. CASE call' = call
      <4>1. call.pc \in {"ok", "granted"} =>
              call.node \in Node /\ call.pass \in Pass /\ call.slot # None
        BY DEF Inv, TypeOK, Call
      <4> QED BY <1>2, <2>1, <3>1, <4>1 DEF Durable, CallIsPaid
    <3>2. CASE call'.pc \in {"ok", "granted"} /\ call.pc = "wait" /\ call' # call
      BY <1>2, <1>3, <3>2 DEF Bound, CallIsPaid
    <3> QED BY <1>3, <3>1, <3>2 DEF CallIsPaid
  <2>4. GrantIsHonoured'
    <3> SUFFICES ASSUME NEW n \in Node, NEW s \in Slot, grants[n][s] # None
                 PROVE  /\ Leased(n, s)'
                        /\ book'[n][grants[n][s]] = s /\ disk'[n][grants[n][s]] = s
      BY <1>1 DEF GrantIsHonoured
    <3>1. grants[n][s] \in Pass /\ s # None
      BY DEF Inv, TypeOK
    <3>2. book[n][grants[n][s]] = s /\ disk[n][grants[n][s]] = s
      BY <2>1 DEF Durable, GrantIsHonoured
    <3>3. book'[n][grants[n][s]] = s /\ disk'[n][grants[n][s]] = s
      BY <1>2, <3>1, <3>2
    <3> QED BY <3>1, <3>3 DEF Leased
  <2>5. NoPassIsLost'
    <3>1. 1..last \subseteq Pass
      BY DEF Inv, TypeOK, Pass
    <3> QED BY <1>1, <1>2, <2>1, <3>1 DEF Durable, NoPassIsLost
  <2> QED BY <2>2, <2>3, <2>4, <2>5 DEF Durable
<1> QED BY <1>2, <1>4, <1>5, <1>6 DEF Inv

\* What the network and the disks do wrong, and a node that starts again.
LEMMA FaultInv ==
    ASSUME Inv,
           \/ \E q \in post : FlushFails(q) \/ Lose(q)
           \/ \E n \in Node : Restart(n)
    PROVE  Inv'
<1> USE BoundsAssumption, AbsentAssumption
<1>1. ASSUME NEW q \in post, FlushFails(q) PROVE Inv'
  <2>1. q.node \in Node /\ q.slot \in Slot /\ q.pass \in Pass
    BY DEF Inv, TypeOK, Request
  <2>2. /\ book' = [book EXCEPT ![q.node][q.pass] = q.slot]
        /\ post' = post \ {q} /\ faults' = faults + 1 /\ faults < MaxFaults
        /\ book[q.node][q.pass] = None
        /\ UNCHANGED <<first, last, rejected, recovered, grants, call, disk, accepts>>
    BY <1>1 DEF FlushFails, New, wallet
  <2>3. TypeOK'
    BY <2>1, <2>2 DEF Inv, TypeOK, Book
  <2>4. FilesFollow'
    BY <2>1, <2>2 DEF Inv, TypeOK, FilesFollow, Book
  <2>5. CallOwns' /\ CallHolds' /\ GrantsAreDistinct'
    BY <2>2 DEF Inv, CallOwns, CallHolds, GrantsAreDistinct
  <2>6. faults' # 0
    BY <2>2 DEF Inv, TypeOK
  <2> QED BY <2>3, <2>4, <2>5, <2>6 DEF Inv
<1>2. ASSUME NEW q \in post, Lose(q) PROVE Inv'
  <2>1. post' = post \ {q}
        /\ UNCHANGED <<first, last, rejected, recovered, grants, call, book, disk,
                       accepts, faults>>
    BY <1>2 DEF Lose, wallet, nodes
  <2> QED BY <2>1 DEF Inv, TypeOK, FilesFollow, CallOwns, CallHolds, GrantsAreDistinct,
                      Durable, CallIsPaid, GrantIsHonoured, Leased, NoPassIsLost
<1>3. ASSUME NEW n \in Node, Restart(n) PROVE Inv'
  <2>1. /\ book' = [book EXCEPT ![n] = disk[n]]
        /\ accepts' \subseteq accepts \cup {n}
        /\ UNCHANGED <<first, last, rejected, recovered, grants, call, post, disk, faults>>
    BY <1>3 DEF Restart, wallet
  <2>2. TypeOK'
    BY <2>1 DEF Inv, TypeOK, Book
  <2>3. FilesFollow'
    BY <2>1 DEF Inv, TypeOK, FilesFollow, Book
  <2>4. CallOwns' /\ CallHolds' /\ GrantsAreDistinct'
    BY <2>1 DEF Inv, CallOwns, CallHolds, GrantsAreDistinct
  <2>5. ASSUME faults' = 0 PROVE Durable'
    <3>1. Durable
      BY <2>1, <2>5 DEF Inv
    <3>2. book' = book
      BY <2>1, <3>1 DEF Durable, Inv, TypeOK, Book
    <3> QED BY <2>1, <3>1, <3>2 DEF Durable, CallIsPaid, GrantIsHonoured, Leased,
                                    NoPassIsLost
  <2> QED BY <2>2, <2>3, <2>4, <2>5 DEF Inv
<1> QED BY <1>1, <1>2, <1>3

LEMMA StutterInv == ASSUME Inv, UNCHANGED vars PROVE Inv'
BY DEF Inv, vars, TypeOK, FilesFollow, CallOwns, CallHolds, GrantsAreDistinct, Durable,
       CallIsPaid, GrantIsHonoured, Leased, NoPassIsLost

LEMMA Invariance == Spec => []Inv
<1>1. Inv /\ [Next]_vars => Inv'
  BY CallInv, SaveInv, SaveGrantInv, ServeInv, FaultInv, StutterInv
     DEF Next, Client, Network
<1> QED BY InitInv, <1>1, PTL DEF Spec

\* TypeOK for any constants: in particular a call never reaches past the last pass
\* of the wallet it has read (spender.py:217).
THEOREM Typing == Spec => []TypeOK
<1>1. Inv => TypeOK
  BY DEF Inv
<1> QED BY Invariance, <1>1, PTL

\* Two cached grants never stand on one pass, and none on a pass still in the wallet
\* file, whichever of the two saves a crash separates (spender.py:225-236).
THEOREM Distinct == Spec => []GrantsAreDistinct
<1>1. Inv => GrantsAreDistinct
  BY DEF Inv
<1> QED BY Invariance, <1>1, PTL

\* Until a write of a spent-set file fails (spentset.py:42), every cached grant is
\* on record at its node, in memory and in the file, and no pass is lost.
THEOREM Honoured == Spec => [](faults = 0 => GrantIsHonoured)
<1>1. Inv => (faults = 0 => GrantIsHonoured)
  BY DEF Inv, Durable
<1> QED BY Invariance, <1>1, PTL

THEOREM NothingLost == Spec => [](faults = 0 => NoPassIsLost)
<1>1. Inv => (faults = 0 => NoPassIsLost)
  BY DEF Inv, Durable
<1> QED BY Invariance, <1>1, PTL

\* A node never changes or drops what its spent-set file says of a pass
\* (spentset.py:55), failed writes included.
THEOREM Kept == Spec => SpentIsKept
<1>1. ASSUME Inv, [Next]_vars, NEW n \in Node, NEW t \in Pass, disk[n][t] # None
      PROVE  disk'[n][t] = disk[n][t]
  <2>1. CASE UNCHANGED disk
    BY <1>1, <2>1
  <2>2. ASSUME NEW q \in post, Answer(q) \/ ServeUnheard(q)
        PROVE  disk'[n][t] = disk[n][t]
    BY <1>1, <2>2, RecordsFacts DEF Inv, Answer, ServeUnheard, Serve
  <2> QED BY <1>1, <2>1, <2>2
             DEF Next, Client, Network, TopUp, Begin, Unpaid, Fails, TryNext, GiveUp, SaveWallet,
                 SaveGrant, FlushFails, Lose, Restart, nodes, vars
<1>2. Inv /\ [Next]_vars
      => [\A n \in Node, t \in Pass : disk[n][t] # None => disk'[n][t] = disk[n][t]]_vars
  BY <1>1
<1> QED BY Invariance, <1>2, PTL DEF Spec, SpentIsKept
=============================================================================
