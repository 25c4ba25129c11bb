----------------------------- MODULE RosterProofs -----------------------------
(***************************************************************************)
(* What holds of the two files and the node of Roster for any servers,     *)
(* nicknames and number of operations.                                     *)
(*                                                                         *)
(* Inv says of each step of an operation which of the three has caught up  *)
(* with the book: servers.yaml once it is written, the node once the       *)
(* operation is over; and that nothing runs between stop and start.        *)
(* RosterInv says where a key can be: in the pins once or in the archive   *)
(* once; and, once it was disconnected, forgotten and not among the pins.  *)
(***************************************************************************)
EXTENDS Roster, SequenceTheorems, FiniteSetTheorems, TLAPS

Steps == {"asked", "saved", "written", "stopped"}

OpOK ==
    /\ op = [kind |-> op.kind, step |-> op.step, key |-> op.key, name |-> op.name]
    /\ op.step \in Steps

Whole == ~torn /\ ~theirs

FileIsBook == Whole /\ op.step # "saved" => yaml = Static

NodeIsBook ==
    /\ Whole /\ op.step = "asked" /\ node.on /\ node.ours => node.static = Static
    /\ op.step = "stopped" => ~node.on

Inv == OpOK /\ FileIsBook /\ NodeIsBook

----------------------------------------------------------------------------

LEMMA InitInv == Init => Inv
<1> SUFFICES ASSUME Init PROVE Inv
  OBVIOUS
<1>1. Static = {}
  BY DEF Init, Static, ToSet
<1> QED BY <1>1 DEF Init, Inv, OpOK, FileIsBook, NodeIsBook, Idle, Off, Steps

\* Where an operation is after each of its steps
LEMMA OpFacts ==
    ASSUME OpOK
    PROVE  /\ \A s \in Steps : Then(s) => OpOK' /\ op'.step = s
           /\ op' = Idle => OpOK' /\ op'.step = "asked"
           /\ \A kind, row : Ask(kind, row) => OpOK' /\ op'.step = "asked" /\ op.step = "asked"
BY DEF OpOK, Then, Ask, Idle, Steps

LEMMA AskStep ==
    ASSUME Inv, AskAdd \/ AskDisconnect \/ AskUse
    PROVE  Inv'
<1>1. \E kind, row : Ask(kind, row)
  BY DEF AskAdd, AskDisconnect, AskUse
<1>2. OpOK' /\ op'.step = "asked" /\ op.step = "asked"
  BY <1>1, OpFacts DEF Inv
<1>3. UNCHANGED <<pins, theirs, yaml, node, torn>>
  BY <1>1 DEF Ask, book, file
<1>4. UNCHANGED <<Static, Whole>>
  BY <1>3 DEF Static, Whole
<1> QED BY <1>2, <1>3, <1>4 DEF Inv, FileIsBook, NodeIsBook

\* While only the book is saved, nothing is said of the file and the node.
LEMMA SaveStep ==
    ASSUME Inv, AddSave \/ DisconnectSave \/ UseSave
    PROVE  Inv'
<1>1. Then("saved") /\ "saved" \in Steps
  BY DEF AddSave, DisconnectSave, UseSave, SaveBook, Steps
<1>2. OpOK' /\ op'.step = "saved"
  BY <1>1, OpFacts DEF Inv
<1> QED BY <1>2 DEF Inv, FileIsBook, NodeIsBook

LEMMA WriteStep ==
    ASSUME Inv, Write
    PROVE  Inv'
<1>1. OpOK' /\ op'.step = "written"
  BY OpFacts DEF Inv, Write, Steps
<1>2. UNCHANGED <<pins, theirs>> /\ yaml' = IF theirs THEN yaml ELSE Static
  BY DEF Write, Written, book
<1>3. Static' = Static
  BY <1>2 DEF Static
<1> QED BY <1>1, <1>2, <1>3 DEF Inv, FileIsBook, NodeIsBook, Whole

LEMMA StopStep ==
    ASSUME Inv, Reload
    PROVE  Inv'
<1>1. op.step = "written" /\ UNCHANGED <<pins, theirs, yaml, torn>>
  BY DEF Reload, book, file, past
<1>2. UNCHANGED <<Static, Whole>>
  BY <1>1 DEF Static, Whole
<1>3. CASE node' = Off /\ Then("stopped")
  <2>1. OpOK' /\ op'.step = "stopped"
    BY <1>3, OpFacts DEF Inv, Steps
  <2> QED BY <1>1, <1>2, <1>3, <2>1 DEF Inv, FileIsBook, NodeIsBook, Off
<1>4. CASE ~(node.on /\ node.ours) /\ op' = Idle /\ UNCHANGED node
  <2>1. OpOK' /\ op'.step = "asked"
    BY <1>4, OpFacts DEF Inv
  <2> QED BY <1>1, <1>2, <1>4, <2>1 DEF Inv, FileIsBook, NodeIsBook
<1> QED BY <1>3, <1>4 DEF Reload

\* The operation ends: with the node started again or not, given up, cut off, killed.
LEMMA EndStep ==
    ASSUME Inv, Restart \/ GiveUp \/ WriteFails \/ Crash
    PROVE  Inv'
<1>1. op' = Idle /\ UNCHANGED <<pins, theirs, yaml>>
  BY DEF Restart, GiveUp, WriteFails, Crash, book, file
<1>2. OpOK' /\ op'.step = "asked" /\ Static' = Static
  BY <1>1, OpFacts DEF Inv, Static
<1>3. CASE Restart
  <2>1. op.step = "stopped" /\ UNCHANGED torn /\ node' \in {node, Started(TRUE)} /\ ~node.on
    BY <1>3 DEF Restart, past, Inv, NodeIsBook
  <2> QED BY <1>1, <1>2, <2>1 DEF Inv, FileIsBook, NodeIsBook, Whole, Started
<1>4. CASE GiveUp
  <2>1. op.step = "asked" /\ UNCHANGED <<node, torn>>
    BY <1>4 DEF GiveUp, past
  <2> QED BY <1>1, <1>2, <2>1 DEF Inv, FileIsBook, NodeIsBook, Whole
<1>5. CASE WriteFails
  BY <1>2, <1>5 DEF WriteFails, Inv, FileIsBook, NodeIsBook, Whole
<1>6. CASE Crash
  <2>1. torn' = (torn \/ op.step = "saved") /\ node' = IF node.ours THEN Off ELSE node
    BY <1>6 DEF Crash
  <2> QED BY <1>1, <1>2, <2>1 DEF Inv, FileIsBook, NodeIsBook, Whole, Off
<1> QED BY <1>3, <1>4, <1>5, <1>6

\* The node and the introducer move while the files stay.
LEMMA AroundStep ==
    ASSUME Inv, NodeStarts \/ NodeEnds \/ (\E s \in Server : Announce(s)) \/ UNCHANGED vars
    PROVE  Inv'
<1>1. UNCHANGED <<pins, theirs, yaml, op, torn>>
  BY DEF NodeStarts, NodeEnds, Announce, vars, book, file, past
<1>2. UNCHANGED <<Static, Whole, OpOK>>
  BY <1>1 DEF Static, Whole, OpOK
<1>3. CASE NodeStarts
  BY <1>1, <1>2, <1>3 DEF NodeStarts, Started, Inv, FileIsBook, NodeIsBook, Idle
<1>4. CASE NodeEnds
  BY <1>1, <1>2, <1>4 DEF NodeEnds, Off, Inv, FileIsBook, NodeIsBook
<1>5. CASE UNCHANGED node
  BY <1>1, <1>2, <1>5 DEF Inv, FileIsBook, NodeIsBook
<1> QED BY <1>3, <1>4, <1>5 DEF Announce, vars

LEMMA Invariance == Spec => []Inv
<1>1. ASSUME Inv, [Next]_vars
      PROVE  Inv'
  BY <1>1, AskStep, SaveStep, WriteStep, StopStep, EndStep, AroundStep DEF Next
<1> QED BY <1>1, InitInv, PTL DEF Spec

\* When an operation is over, the node that Sync runs has read exactly the pins of the
\* book, unless the book was saved and servers.yaml was not, or servers.yaml was written by
\* hand (servers.py write_static_servers, backend.py reload_static_servers).
THEOREM Loaded == Spec => []LoadedIsBook
<1>1. Inv => LoadedIsBook
  BY DEF Inv, NodeIsBook, Whole, Idle, LoadedIsBook
<1> QED BY <1>1, Invariance, PTL

----------------------------------------------------------------------------
(* The types, and which keys are where. *)

Distinct(pinned) == \A i, j \in DOMAIN pinned : pinned[i].key = pinned[j].key => i = j

\* A pin with a link goes by the digest of the link.
Linked(pinned) == \A i \in DOMAIN pinned : pinned[i].furl # None => pinned[i].key = PinKey(pinned[i].furl)

Listing(pinned) == pinned \in Seq(Pin) /\ Distinct(pinned) /\ Linked(pinned)

BookInv ==
    /\ Listing(pins) /\ Listing(archive)
    /\ \A i \in DOMAIN pins, j \in DOMAIN archive : pins[i].key # archive[j].key

RestInv ==
    /\ forgotten \subseteq Key \cup Nick /\ gone \subseteq Key
    /\ theirs \in BOOLEAN /\ yaml \subseteq Pin /\ IsFiniteSet(yaml)
    /\ node \in [on : BOOLEAN, ours : BOOLEAN, static : SUBSET Pin] /\ IsFiniteSet(node.static)
    /\ net \in [Server -> [says : {"nothing", "offline", "up"}, nick : Nick]]
    /\ op \in Op /\ (op.kind = "add" => \E s \in Server : op.key = PinKey(s))
    /\ torn \in BOOLEAN /\ ops \in 0..MaxOps /\ changes \in 0..MaxChanges

\* A key that was disconnected is remembered and not pinned.
GoneInv == \A k \in gone : k \in forgotten /\ \A i \in DOMAIN pins : pins[i].key # k

RosterInv == BookInv /\ RestInv /\ GoneInv

\* What RemoveAt leaves of a list
LEMMA RemoveAtFacts ==
    ASSUME NEW S, NEW s \in Seq(S), NEW i \in 1..Len(s)
    PROVE  /\ RemoveAt(s, i) \in Seq(S)
           /\ Len(RemoveAt(s, i)) = Len(s) - 1
           /\ DOMAIN RemoveAt(s, i) = 1..(Len(s) - 1)
           /\ \A j \in 1..(Len(s) - 1) : RemoveAt(s, i)[j] = IF j < i THEN s[j] ELSE s[j + 1]
<1> DEFINE a == SubSeq(s, 1, i - 1)
           b == SubSeq(s, i + 1, Len(s))
<1>1. Len(s) \in Nat /\ \A j \in 1..Len(s) : s[j] \in S
  BY LenProperties, ElementOfSeq
<1>2. /\ a \in Seq(S) /\ Len(a) = i - 1
      /\ \A j \in 1..(i - 1) : a[j] = s[j]
  <2>1. /\ 1 \in Int /\ i - 1 \in Int /\ \A j \in 1..(i - 1) : s[j] \in S
    BY <1>1
  <2> QED BY <2>1, SubSeqProperties
<1>3. /\ b \in Seq(S) /\ Len(b) = Len(s) - i
      /\ \A j \in 1..(Len(s) - i) : b[j] = s[i + j]
  <2>1. /\ i + 1 \in Int /\ Len(s) \in Int /\ \A j \in (i + 1)..Len(s) : s[j] \in S
    BY <1>1
  <2>2. /\ b \in Seq(S) /\ Len(b) = IF i + 1 <= Len(s) THEN Len(s) - (i + 1) + 1 ELSE 0
        /\ \A j \in 1..(Len(s) - (i + 1) + 1) : b[j] = s[(i + 1) + j - 1]
    BY <2>1, SubSeqProperties
  <2> HIDE DEF b
  <2> QED BY <1>1, <2>2
<1> HIDE DEF a, b
<1>4. /\ a \o b \in Seq(S) /\ Len(a \o b) = Len(a) + Len(b)
      /\ \A j \in 1..(Len(a) + Len(b)) : (a \o b)[j] = IF j <= Len(a) THEN a[j] ELSE b[j - Len(a)]
  BY <1>2, <1>3, ConcatProperties
<1>5. RemoveAt(s, i) = a \o b
  BY DEF RemoveAt, a, b
<1>6. DOMAIN (a \o b) = 1..(Len(s) - 1)
  BY <1>1, <1>2, <1>3, <1>4, LenProperties
<1>7. ASSUME NEW j \in 1..(Len(s) - 1) PROVE (a \o b)[j] = IF j < i THEN s[j] ELSE s[j + 1]
  <2>1. CASE j < i
    BY <1>1, <1>2, <1>3, <1>4, <2>1
  <2>2. CASE ~(j < i)
    <3>1. (a \o b)[j] = b[j - (i - 1)]
      BY <1>1, <1>2, <1>3, <1>4, <2>2
    <3>2. j - (i - 1) \in 1..(Len(s) - i) /\ i + (j - (i - 1)) = j + 1
      BY <1>1, <2>2
    <3> QED BY <1>3, <2>2, <3>1, <3>2
  <2> QED BY <2>1, <2>2
<1> QED BY <1>1, <1>2, <1>3, <1>4, <1>5, <1>6, <1>7

\* A list without its pin of one key, which is at at
Less(s, at) == IF at = {} THEN s ELSE RemoveAt(s, CHOOSE i \in at : TRUE)

LEMMA LessFacts ==
    ASSUME NEW s, Listing(s), NEW at, at \subseteq DOMAIN s, \A i, j \in at : s[i].key = s[j].key,
           NEW t, t = Less(s, at)
    PROVE  Listing(t) /\ \A j \in DOMAIN t : \E i \in DOMAIN s \ at : t[j] = s[i]
<1>1. s \in Seq(Pin) /\ Len(s) \in Nat /\ DOMAIN s = 1..Len(s)
  BY LenProperties DEF Listing
<1>2. CASE at = {}
  BY <1>2 DEF Less
<1>3. CASE at # {}
  <2>1. PICK i \in DOMAIN s : at = {i} /\ t = RemoveAt(s, i)
    BY <1>3 DEF Listing, Distinct, Less
  <2>2. /\ t \in Seq(Pin) /\ DOMAIN t = 1..(Len(s) - 1)
        /\ \A j \in 1..(Len(s) - 1) : t[j] = IF j < i THEN s[j] ELSE s[j + 1]
    <3>1. s \in Seq(Pin) /\ i \in 1..Len(s)
      BY <1>1, <2>1
    <3>2. /\ RemoveAt(s, i) \in Seq(Pin) /\ DOMAIN RemoveAt(s, i) = 1..(Len(s) - 1)
          /\ \A j \in 1..(Len(s) - 1) : RemoveAt(s, i)[j] = IF j < i THEN s[j] ELSE s[j + 1]
      BY <3>1, RemoveAtFacts
    <3> QED BY <2>1, <3>2
  <2>3. \A j \in DOMAIN t : /\ (IF j < i THEN j ELSE j + 1) \in DOMAIN s \ at
                            /\ t[j] = s[IF j < i THEN j ELSE j + 1]
    <3> SUFFICES ASSUME NEW j \in 1..(Len(s) - 1)
                 PROVE  /\ (IF j < i THEN j ELSE j + 1) \in DOMAIN s \ at
                        /\ t[j] = s[IF j < i THEN j ELSE j + 1]
      BY <2>2
    <3>1. i \in 1..Len(s) /\ DOMAIN s \ at = {k \in 1..Len(s) : k # i}
      BY <1>1, <2>1
    <3>2. PICK k : k = IF j < i THEN j ELSE j + 1
      OBVIOUS
    <3>3. k \in 1..Len(s) /\ k # i
      BY <1>1, <3>1, <3>2
    <3>4. t[j] = s[k]
      BY <2>2, <3>2
    <3> QED BY <3>1, <3>2, <3>3, <3>4
  <2>4. Distinct(t)
    <3> SUFFICES ASSUME NEW j \in DOMAIN t, NEW k \in DOMAIN t, t[j].key = t[k].key PROVE j = k
      BY DEF Distinct
    <3>1. (IF j < i THEN j ELSE j + 1) = IF k < i THEN k ELSE k + 1
      BY <2>3 DEF Listing, Distinct
    <3> QED BY <1>1, <2>1, <2>2, <3>1
  <2>5. Linked(t)
    BY <2>3 DEF Listing, Linked
  <2> QED BY <2>2, <2>3, <2>4, <2>5 DEF Listing
<1> QED BY <1>2, <1>3

\* A list with one more pin, of a key that is not in it
LEMMA AppendFacts ==
    ASSUME NEW s, Listing(s), NEW p \in Pin, p.furl # None => p.key = PinKey(p.furl),
           \A i \in DOMAIN s : s[i].key # p.key
    PROVE  /\ Listing(Append(s, p))
           /\ \A j \in DOMAIN Append(s, p) : Append(s, p)[j] = p \/ \E i \in DOMAIN s : Append(s, p)[j] = s[i]
<1>1. s \in Seq(Pin) /\ Len(s) \in Nat /\ DOMAIN s = 1..Len(s)
  BY LenProperties DEF Listing
<1>2. PICK t : t = Append(s, p)
  OBVIOUS
<1>3. /\ t \in Seq(Pin) /\ DOMAIN t = 1..(Len(s) + 1) /\ t[Len(s) + 1] = p
      /\ \A j \in 1..Len(s) : t[j] = s[j]
  BY <1>1, <1>2
<1>4. \A j \in DOMAIN t : (j \in DOMAIN s /\ t[j] = s[j]) \/ (j = Len(s) + 1 /\ t[j] = p)
  <2>1. \A j \in 1..(Len(s) + 1) : j \in 1..Len(s) \/ j = Len(s) + 1
    BY <1>1
  <2> QED BY <1>1, <1>3, <2>1
<1>5. Distinct(t)
  BY <1>4 DEF Listing, Distinct
<1>6. Linked(t)
  BY <1>4 DEF Listing, Linked
<1> QED BY <1>2, <1>3, <1>4, <1>5, <1>6 DEF Listing

\* An operation that is under way is a typed record, and so is its next step.
LEMMA OpTypes ==
    ASSUME RestInv, op.kind # "none" \/ op.step # "asked"
    PROVE  /\ op.kind \in {"add", "disconnect", "use"} /\ op.key \in Key /\ op.name \in Nick
           /\ \A step \in Steps : Then(step) => op' \in Op /\ op'.kind = op.kind /\ op'.key = op.key
<1>1. op \in [kind : {"add", "disconnect", "use"}, name : Nick, key : Key, step : Steps]
  BY DEF RestInv, Op, Idle, Steps
<1>2. ASSUME NEW step \in Steps, Then(step)
      PROVE  /\ op' \in [kind : {"add", "disconnect", "use"}, name : Nick, key : Key, step : Steps]
             /\ op'.kind = op.kind /\ op'.key = op.key
  BY <1>1, <1>2 DEF Then
<1> QED BY <1>1, <1>2 DEF Op, Steps

LEMMA SeqOfSet ==
    ASSUME NEW S, IsFiniteSet(S)
    PROVE  SetToSeq(S) \in Seq(S)
<1>1. PICK n \in Nat : n = Cardinality(S)
  BY FS_CardinalityType
<1>2. ExistsBijection(1..n, S)
  BY <1>1, FS_CardinalityType
<1>3. \E f \in [1..n -> S] : IsInjective(f)
  BY <1>2 DEF ExistsBijection, Bijection, Injection
<1>4. SetToSeq(S) \in [1..n -> S]
  BY <1>1, <1>3 DEF SetToSeq
<1> QED BY <1>4, SeqDef

LEMMA RowsAreTyped ==
    ASSUME BookInv, RestInv
    PROVE  \A r \in Used \cup Available : r.key \in Key /\ r.name \in Nick
<1> DEFINE static == {[key |-> p.key, name |-> p.name, up |-> net[p.furl].says = "up"] :
                         p \in node.static}
           known == {t \in Server : net[t].says # "nothing"}
           announced == {[key |-> s, name |-> net[s].nick, up |-> net[s].says = "up"] : s \in known}
<1>1. \A r \in static \cup announced : r.key \in Key /\ r.name \in Nick
  <2>1. \A p \in node.static : p.key \in Key /\ p.name \in Nick
    BY DEF RestInv, Pin
  <2>2. \A s \in known : s \in Key /\ net[s].nick \in Nick
    BY DEF RestInv, Key
  <2> QED BY <2>1, <2>2
<1>2. IsFiniteSet(static)
  <2>1. [p \in node.static |-> [key |-> p.key, name |-> p.name, up |-> net[p.furl].says = "up"]]
            \in Surjection(node.static, static)
    BY DEF Surjection
  <2> QED BY <2>1, FS_Surjection DEF RestInv
<1>3. IsFiniteSet(announced)
  <2>1. [s \in known |-> [key |-> s, name |-> net[s].nick, up |-> net[s].says = "up"]]
            \in Surjection(known, announced)
    BY DEF Surjection
  <2>2. IsFiniteSet(known)
    BY ServersAssumption, FS_Subset
  <2> QED BY <2>1, <2>2, FS_Surjection
<1>4. SetToSeq(static) \o SetToSeq(announced) \in Seq(static \cup announced)
  <2>1. SetToSeq(static) \in Seq(static) /\ SetToSeq(announced) \in Seq(announced)
    BY <1>2, <1>3, SeqOfSet
  <2> HIDE DEF static, announced
  <2>2. static \subseteq static \cup announced /\ announced \subseteq static \cup announced
    OBVIOUS
  <2>3. /\ SetToSeq(static) \in Seq(static \cup announced)
        /\ SetToSeq(announced) \in Seq(static \cup announced)
    BY <2>1, <2>2, SeqMonotonic
  <2> QED BY <2>3, ConcatProperties
<1>5. Listed \in Seq(static \cup announced)
  BY <1>4, EmptySeq DEF Listed
<1> HIDE DEF static, announced
<1>6. PICK rows : rows = Listed
  OBVIOUS
<1>7. \A j \in DOMAIN rows : rows[j].key \in Key /\ rows[j].name \in Nick
  <2>1. DOMAIN rows = 1..Len(rows) /\ \A j \in 1..Len(rows) : rows[j] \in static \cup announced
    BY <1>5, <1>6, ElementOfSeq, LenProperties
  <2> QED BY <1>1, <2>1
<1>8. \A p \in ToSet(pins) : p.key \in Key /\ p.name \in Nick
  <2>1. DOMAIN pins = 1..Len(pins) /\ \A j \in 1..Len(pins) : pins[j] \in Pin
    BY ElementOfSeq, LenProperties DEF BookInv, Listing
  <2>2. \A p \in Pin : p.key \in Key /\ p.name \in Nick
    BY DEF Pin
  <2> QED BY <2>1, <2>2 DEF ToSet
<1>9. PICK untaken : untaken = {rows[j] : j \in DOMAIN rows \ Taken(rows)}
  OBVIOUS
<1> PICK inUse : inUse = {r \in untaken : r.up /\ ~Hit(r)}
  OBVIOUS
<1>10. /\ Used = {Label(r) : r \in ToSet(pins) \cup inUse}
       /\ Available = {Label(r) : r \in untaken \ inUse}
  BY <1>6, <1>9 DEF Used, Available, Lists
<1>11. \A r \in ToSet(pins) \cup untaken : r.key \in Key /\ r.name \in Nick
  BY <1>7, <1>8, <1>9
<1>12. inUse \subseteq untaken
  BY <1>9
<1> QED BY <1>10, <1>11, <1>12 DEF Label

\* What is pinned is finite, as what is written from it.
LEMMA StaticFacts ==
    ASSUME BookInv
    PROVE  Static \subseteq Pin /\ IsFiniteSet(Static)
<1>1. pins \in Seq(Pin) /\ Len(pins) \in Nat /\ pins \in [1..Len(pins) -> Pin]
  BY LenProperties DEF BookInv, Listing
<1>2. pins \in Surjection(1..Len(pins), ToSet(pins)) /\ ToSet(pins) \subseteq Pin
  BY <1>1 DEF Surjection, ToSet
<1>3. IsFiniteSet(1..Len(pins))
  BY <1>1, FS_Interval
<1>4. IsFiniteSet(ToSet(pins))
  BY <1>2, <1>3, FS_Surjection
<1> QED BY <1>2, <1>4, FS_Subset DEF Static

\* A row that is asked for, or added, is typed; the book waits.
LEMMA AskKeepsTypes ==
    ASSUME RosterInv, AskAdd \/ AskDisconnect \/ AskUse
    PROVE  RosterInv'
<1>1. PICK kind \in {"add", "disconnect", "use"} :
         \E row : /\ Ask(kind, row) /\ row.key \in Key /\ row.name \in Nick
                  /\ kind = "add" => \E s \in Server : row.key = PinKey(s)
  <2>1. CASE AskAdd
    <3>1. PICK s \in Server, n \in Nick : Ask("add", [key |-> PinKey(s), name |-> n])
      BY <2>1 DEF AskAdd
    <3> QED BY <3>1 DEF Key
  <2>2. CASE AskDisconnect
    BY <2>2, RowsAreTyped DEF AskDisconnect, RosterInv
  <2>3. CASE AskUse
    BY <2>3, RowsAreTyped DEF AskUse, RosterInv
  <2> QED BY <2>1, <2>2, <2>3
<1>2. PICK row : /\ Ask(kind, row) /\ row.key \in Key /\ row.name \in Nick
                 /\ kind = "add" => \E s \in Server : row.key = PinKey(s)
  BY <1>1
<1>3. op' = [kind |-> kind, step |-> "asked", key |-> row.key, name |-> row.name]
  BY <1>2 DEF Ask
<1>4. op' \in Op /\ (op'.kind = "add" => \E s \in Server : op'.key = PinKey(s))
  BY <1>1, <1>2, <1>3 DEF Op
<1>5. ops' \in 0..MaxOps
  BY <1>2, RosterAssumption DEF Ask, RosterInv, RestInv
<1>6. UNCHANGED <<pins, forgotten, archive, theirs, yaml, node, net, gone, torn, changes>>
  BY <1>2 DEF Ask, book, file
<1> QED BY <1>4, <1>5, <1>6
        DEF RosterInv, RestInv, BookInv, GoneInv, Listing, Distinct, Linked

\* Around a change of the book the rest is as it was, one step on.
LEMMA SavedRest ==
    ASSUME RosterInv, NEW kind \in {"add", "disconnect", "use"}, Asked(kind), SaveBook,
           UNCHANGED <<file, node, net, torn, ops, changes>>,
           forgotten' \subseteq Key \cup Nick, gone' \subseteq Key
    PROVE  RestInv'
<1>1. op' \in Op /\ op'.kind = op.kind /\ op'.key = op.key
  BY OpTypes DEF RosterInv, Asked, SaveBook, Steps
<1> QED BY <1>1 DEF RosterInv, RestInv, file

LEMMA AddKeepsTypes ==
    ASSUME RosterInv, AddSave
    PROVE  RosterInv'
<1>1. PICK s \in Server : op.key = PinKey(s)
  BY DEF AddSave, Asked, RosterInv, RestInv
<1>2. op.key \in Key /\ op.name \in Nick /\ op.kind = "add"
  BY OpTypes DEF AddSave, Asked, RosterInv
<1>3. s # None /\ LinkOf(op.key) = s
  BY <1>1, RosterAssumption DEF LinkOf, PinKey
<1>4. PICK pin : pin = [key |-> op.key, name |-> op.name, furl |-> s]
  OBVIOUS
<1>5. pin \in Pin /\ pin.key = op.key /\ pin.furl = s /\ pin.key = PinKey(s) /\ pin.furl # None
  BY <1>1, <1>2, <1>3, <1>4 DEF Pin
<1> DEFINE Same(p) == p.key = pin.key \/ p.furl = pin.furl
<1>6. /\ pins' = IF \E p \in ToSet(pins) : Same(p)
                 THEN [i \in DOMAIN pins |-> IF Same(pins[i]) THEN pin ELSE pins[i]]
                 ELSE Append(pins, pin)
      /\ archive' = Without(archive, Same)
  BY <1>3, <1>4 DEF AddSave
<1>7. Listing(pins) /\ Listing(archive)
      /\ \A i \in DOMAIN pins, j \in DOMAIN archive : pins[i].key # archive[j].key
  BY DEF RosterInv, BookInv
<1>8. /\ \A i \in DOMAIN pins : Same(pins[i]) <=> pins[i].key = op.key
      /\ \A i \in DOMAIN archive : Same(archive[i]) <=> archive[i].key = op.key
  BY <1>1, <1>5, <1>7 DEF Listing, Linked
<1>9. Listing(pins') /\ \A i \in DOMAIN pins' : \/ pins'[i].key = op.key
                                                \/ \E j \in DOMAIN pins : pins'[i].key = pins[j].key
  <2>1. CASE \E p \in ToSet(pins) : Same(p)
    <3>1. pins' = [i \in DOMAIN pins |-> IF Same(pins[i]) THEN pin ELSE pins[i]]
      BY <1>6, <2>1
    <3>2. /\ DOMAIN pins' = DOMAIN pins
          /\ \A i \in DOMAIN pins : /\ pins'[i].key = pins[i].key
                                    /\ pins'[i] = pin \/ pins'[i] = pins[i]
      BY <1>5, <1>8, <3>1
    <3>3. pins' \in Seq(Pin)
      <4>1. DOMAIN pins = 1..Len(pins) /\ Len(pins) \in Nat /\ \A i \in 1..Len(pins) : pins[i] \in Pin
        BY <1>7, LenProperties, ElementOfSeq DEF Listing
      <4>2. pins' \in [1..Len(pins) -> Pin]
        BY <1>5, <3>1, <4>1
      <4> QED BY <4>1, <4>2, SeqDef
    <3>4. Distinct(pins') /\ Linked(pins')
      BY <1>5, <1>7, <3>2 DEF Listing, Distinct, Linked
    <3> QED BY <3>2, <3>3, <3>4 DEF Listing
  <2>2. CASE ~\E p \in ToSet(pins) : Same(p)
    <3>1. pins' = Append(pins, pin) /\ \A i \in DOMAIN pins : pins[i].key # pin.key
      BY <1>6, <2>2 DEF ToSet
    <3> QED BY <1>5, <1>7, <3>1, AppendFacts
  <2> QED BY <2>1, <2>2
<1>10. Listing(archive') /\ \A i \in DOMAIN archive' : /\ archive'[i].key # op.key
                                                       /\ \E j \in DOMAIN archive : archive'[i] = archive[j]
  <2>1. PICK at : at = {i \in DOMAIN archive : Same(archive[i])}
    OBVIOUS
  <2>2. archive' = Less(archive, at)
    BY <1>6, <2>1 DEF Without, Less
  <2>3. at \subseteq DOMAIN archive /\ \A i, j \in at : archive[i].key = archive[j].key
    BY <1>8, <2>1
  <2>4. Listing(archive') /\ \A j \in DOMAIN archive' : \E i \in DOMAIN archive \ at : archive'[j] = archive[i]
    BY <1>7, <2>2, <2>3, LessFacts
  <2> QED BY <1>8, <2>1, <2>4
<1> HIDE DEF Same
<1>11. BookInv'
  BY <1>7, <1>9, <1>10 DEF BookInv, Listing, Distinct, Linked
<1>12. forgotten' = forgotten \ {op.key, op.name} /\ gone' = gone \ {op.key}
  BY DEF AddSave
<1>13. GoneInv'
  BY <1>2, <1>9, <1>12, NamesAssumption DEF GoneInv, RosterInv, RestInv
<1>14. RestInv'
  BY <1>12, SavedRest DEF AddSave, RosterInv, RestInv
<1> QED BY <1>11, <1>13, <1>14 DEF RosterInv

LEMMA DisconnectKeepsTypes ==
    ASSUME RosterInv, DisconnectSave
    PROVE  RosterInv'
<1>1. op.key \in Key /\ op.name \in Nick
  BY OpTypes DEF DisconnectSave, Asked, RosterInv
<1> DEFINE Same(p) == p.key = op.key
<1>2. PICK removed : removed = {p \in ToSet(pins) : Same(p)}
  OBVIOUS
<1>3. /\ pins' = Without(pins, Same)
      /\ archive' = IF removed = {} THEN archive ELSE Append(archive, CHOOSE p \in removed : TRUE)
      /\ forgotten' = forgotten \cup Tokens(removed)
      /\ gone' = gone \cup {op.key}
  BY <1>2 DEF DisconnectSave
<1>4. Listing(pins) /\ Listing(archive)
      /\ \A i \in DOMAIN pins, j \in DOMAIN archive : pins[i].key # archive[j].key
  BY DEF RosterInv, BookInv
<1>5. Listing(pins') /\ \A i \in DOMAIN pins' : /\ pins'[i].key # op.key
                                                /\ \E j \in DOMAIN pins : pins'[i] = pins[j]
  <2>1. PICK at : at = {i \in DOMAIN pins : Same(pins[i])}
    OBVIOUS
  <2>2. pins' = Less(pins, at)
    BY <1>3, <2>1 DEF Without, Less
  <2>3. at \subseteq DOMAIN pins /\ \A i, j \in at : pins[i].key = pins[j].key
    BY <2>1
  <2>4. Listing(pins') /\ \A j \in DOMAIN pins' : \E i \in DOMAIN pins \ at : pins'[j] = pins[i]
    BY <1>4, <2>2, <2>3, LessFacts
  <2> QED BY <2>1, <2>4
<1>6. \A p \in removed : \E i \in DOMAIN pins : p = pins[i] /\ p.key = op.key
  BY <1>2 DEF ToSet
<1> HIDE DEF Same
<1>7. \A p \in removed : p \in Pin /\ p.key \in Key /\ p.name \in Nick
  <2>1. \A i \in DOMAIN pins : pins[i] \in Pin
    BY <1>4, LenProperties, ElementOfSeq DEF Listing
  <2> QED BY <1>6, <2>1 DEF Pin
<1>8. Listing(archive') /\ \A j \in DOMAIN archive' : \/ archive'[j].key = op.key
                                                      \/ \E i \in DOMAIN archive : archive'[j] = archive[i]
  <2>1. CASE removed = {}
    BY <1>3, <1>4, <2>1
  <2>2. CASE removed # {}
    <3>1. PICK p \in removed : archive' = Append(archive, p)
      BY <1>3, <2>2
    <3>2. /\ p \in Pin /\ p.key = op.key /\ (p.furl # None => p.key = PinKey(p.furl))
          /\ \A i \in DOMAIN archive : archive[i].key # p.key
      BY <1>4, <1>6, <1>7 DEF Listing, Linked
    <3> QED BY <1>4, <3>1, <3>2, AppendFacts
  <2> QED BY <2>1, <2>2
<1>9. BookInv'
  BY <1>4, <1>5, <1>8 DEF BookInv, Listing, Distinct, Linked
<1>10. op.key \in Tokens(removed) /\ Tokens(removed) \subseteq Key \cup Nick
  BY <1>1, <1>7 DEF Tokens, PinTokens
<1>11. GoneInv'
  BY <1>3, <1>5, <1>10 DEF GoneInv, RosterInv
<1>12. RestInv'
  BY <1>1, <1>3, <1>10, SavedRest DEF DisconnectSave, RosterInv, RestInv
<1> QED BY <1>9, <1>11, <1>12 DEF RosterInv

\* A pin comes back to pins that have none of its key, from an archive that has not
\* either.
LEMMA PinnedKeepsTypes ==
    ASSUME RosterInv, Asked("use"), SaveBook, UNCHANGED <<file, node, net, torn, ops, changes>>,
           NEW pin \in Pin, pin.furl # None => pin.key = PinKey(pin.furl),
           NEW tokens, tokens \subseteq {pin.key} \cup Nick, Pinned(pin, tokens),
           Listing(archive'),
           \A j \in DOMAIN archive' : /\ archive'[j].key # pin.key
                                      /\ \E i \in DOMAIN archive : archive'[j] = archive[i]
    PROVE  RosterInv'
<1>1. op.key \in Key /\ op.name \in Nick
  BY OpTypes DEF Asked, RosterInv
<1>2. Listing(pins) /\ \A i \in DOMAIN pins, j \in DOMAIN archive : pins[i].key # archive[j].key
  BY DEF RosterInv, BookInv
<1> DEFINE Same(p) == p.key = pin.key
<1>3. PICK kept : kept = Without(pins, Same)
  OBVIOUS
<1>4. pins' = Append(kept, pin)
  BY <1>3 DEF Pinned
<1>5. Listing(kept) /\ \A i \in DOMAIN kept : /\ kept[i].key # pin.key
                                              /\ \E j \in DOMAIN pins : kept[i] = pins[j]
  <2>1. PICK at : at = {i \in DOMAIN pins : Same(pins[i])}
    OBVIOUS
  <2>2. kept = Less(pins, at)
    BY <1>3, <2>1 DEF Without, Less
  <2>3. at \subseteq DOMAIN pins /\ \A i, j \in at : pins[i].key = pins[j].key
    BY <2>1
  <2>4. Listing(kept) /\ \A j \in DOMAIN kept : \E i \in DOMAIN pins \ at : kept[j] = pins[i]
    BY <1>2, <2>2, <2>3, LessFacts
  <2> QED BY <2>1, <2>4
<1> HIDE DEF Same
<1>6. Listing(pins') /\ \A i \in DOMAIN pins' : \/ pins'[i].key = pin.key
                                                \/ \E j \in DOMAIN pins : pins'[i] = pins[j]
  BY <1>4, <1>5, AppendFacts
<1>7. BookInv'
  BY <1>2, <1>6 DEF BookInv, Listing, Distinct, Linked
<1>8. forgotten' = forgotten \ ({op.key, op.name} \cup tokens) /\ gone' = gone \ {op.key, pin.key}
  BY DEF Pinned
<1>9. GoneInv'
  BY <1>1, <1>6, <1>8, NamesAssumption DEF GoneInv, RosterInv, RestInv
<1>10. RestInv'
  BY <1>8, SavedRest DEF RosterInv, RestInv
<1> QED BY <1>7, <1>9, <1>10 DEF RosterInv

LEMMA UseKeepsTypes ==
    ASSUME RosterInv, UseSave
    PROVE  RosterInv'
<1>1. op.key \in Key /\ op.name \in Nick /\ op.kind = "use"
  BY OpTypes DEF UseSave, Asked, RosterInv
<1>2. Asked("use") /\ SaveBook /\ UNCHANGED <<file, node, net, torn, ops, changes>>
  BY DEF UseSave
<1>3. Listing(archive) /\ \A i \in DOMAIN archive : archive[i] \in Pin
  BY LenProperties, ElementOfSeq DEF RosterInv, BookInv, Listing
<1>4. CASE /\ Restorable = {} /\ UNCHANGED archive
           /\ Pinned([key |-> op.key, name |-> op.name, furl |-> None], {})
  <2>1. PICK pin : pin = [key |-> op.key, name |-> op.name, furl |-> None]
    OBVIOUS
  <2>2. pin \in Pin /\ pin.furl = None /\ pin.key = op.key /\ Pinned(pin, {})
    BY <1>1, <1>4, <2>1 DEF Pin
  <2>3. \A i \in DOMAIN archive : archive[i].key # op.key
    BY <1>4 DEF Restorable
  <2> QED BY <1>2, <1>3, <1>4, <2>2, <2>3, PinnedKeepsTypes
<1>5. ASSUME NEW i \in Restorable, archive' = Restored(i),
             Pinned([archive[i] EXCEPT !.name = op.name], {archive[i].key, archive[i].name})
      PROVE  RosterInv'
  <2>1. PICK pin : pin = [archive[i] EXCEPT !.name = op.name]
    OBVIOUS
  <2>2. i \in DOMAIN archive /\ archive[i] \in Pin /\ archive[i].name \in Nick
    BY <1>3 DEF Restorable, Pin
  <2>3. pin \in Pin /\ pin.furl = archive[i].furl /\ pin.key = archive[i].key
    BY <1>1, <2>1, <2>2 DEF Pin
  <2>4. pin.furl # None => pin.key = PinKey(pin.furl)
    BY <1>3, <2>2, <2>3 DEF Listing, Linked
  <2>5. PICK at : at = {i}
    OBVIOUS
  <2>6. Listing(archive') /\ \A j \in DOMAIN archive' : \E k \in DOMAIN archive \ at : archive'[j] = archive[k]
    <3>1. archive' = Less(archive, at)
      BY <1>5, <2>5 DEF Restored, Less
    <3>2. at \subseteq DOMAIN archive /\ \A j, k \in at : archive[j].key = archive[k].key
      BY <2>2, <2>5
    <3> QED BY <1>3, <3>1, <3>2, LessFacts
  <2>7. \A j \in DOMAIN archive' : /\ archive'[j].key # pin.key
                                   /\ \E k \in DOMAIN archive : archive'[j] = archive[k]
    BY <1>3, <2>2, <2>3, <2>5, <2>6 DEF Listing, Distinct
  <2>8. PICK tokens : tokens = {archive[i].key, archive[i].name}
    OBVIOUS
  <2>9. Pinned(pin, tokens) /\ tokens \subseteq {pin.key} \cup Nick
    BY <1>5, <2>1, <2>2, <2>3, <2>8
  <2> QED BY <1>2, <2>3, <2>4, <2>6, <2>7, <2>9, PinnedKeepsTypes
<1> QED BY <1>4, <1>5 DEF UseSave

\* No other step touches the book.
LEMMA OthersKeepTypes ==
    ASSUME RosterInv,
           \/ GiveUp \/ Write \/ WriteFails \/ Reload \/ Restart \/ Crash \/ NodeStarts \/ NodeEnds
           \/ (\E s \in Server : Announce(s)) \/ UNCHANGED vars
    PROVE  RosterInv'
<1>1. UNCHANGED <<pins, forgotten, archive, gone>>
  BY DEF GiveUp, Write, WriteFails, Reload, Restart, Crash, NodeStarts, NodeEnds, Announce, vars,
         book, past
<1>2. UNCHANGED <<BookInv, GoneInv>>
  BY <1>1 DEF BookInv, GoneInv, Listing, Distinct, Linked
<1>3. UNCHANGED theirs /\ ops' \in 0..MaxOps /\ changes' \in 0..MaxChanges
  <2>1. UNCHANGED theirs /\ ops' = ops
    BY DEF GiveUp, Write, WriteFails, Reload, Restart, Crash, NodeStarts, NodeEnds, Announce, vars,
           file, past
  <2>2. changes' \in {changes, changes + 1} /\ (changes' # changes => changes < MaxChanges)
    BY DEF GiveUp, Write, WriteFails, Reload, Restart, Crash, NodeStarts, NodeEnds, Announce, vars,
           file, past
  <2> QED BY <2>1, <2>2, RosterAssumption DEF RosterInv, RestInv
<1>4. torn' \in BOOLEAN
  <2>1. CASE Crash
    <3>1. torn' = (torn \/ op.step = "saved")
      BY <2>1 DEF Crash
    <3> QED BY <3>1, Zenon DEF RosterInv, RestInv
  <2>2. CASE ~Crash
    BY <2>2 DEF GiveUp, Write, WriteFails, Reload, Restart, NodeStarts, NodeEnds, Announce, vars,
                past, RosterInv, RestInv
  <2> QED BY <2>1, <2>2
<1>5. op' \in Op /\ (op'.kind = "add" => \E s \in Server : op'.key = PinKey(s))
  <2>1. CASE op' = Idle
    BY <2>1 DEF Op, Idle
  <2>2. CASE op' = op
    BY <2>2 DEF RosterInv, RestInv
  <2>3. CASE op.step # "asked" /\ (Then("written") \/ Then("stopped"))
    BY <2>3, OpTypes DEF RosterInv, RestInv, Steps
  <2> QED BY <2>1, <2>2, <2>3
          DEF GiveUp, Write, WriteFails, Reload, Restart, Crash, NodeStarts, NodeEnds, Announce, vars
<1>6. yaml' \subseteq Pin /\ IsFiniteSet(yaml')
  <2>1. yaml' = yaml \/ yaml' = Static
    BY DEF GiveUp, Write, Written, WriteFails, Reload, Restart, Crash, NodeStarts, NodeEnds, Announce,
           vars, file
  <2> QED BY <2>1, StaticFacts DEF RosterInv, RestInv
<1>7. node' \in [on : BOOLEAN, ours : BOOLEAN, static : SUBSET Pin] /\ IsFiniteSet(node'.static)
  <2>1. node' \in {node, Off} \/ \E ours \in BOOLEAN : node' = Started(ours)
    BY DEF GiveUp, Write, WriteFails, Reload, Restart, Crash, NodeStarts, NodeEnds, Announce, vars
  <2>2. CASE node' = Off
    BY <2>2, FS_EmptySet DEF Off
  <2>3. CASE \E ours \in BOOLEAN : node' = Started(ours)
    BY <2>3 DEF Started, RosterInv, RestInv
  <2> QED BY <2>1, <2>2, <2>3 DEF RosterInv, RestInv
<1>8. net' \in [Server -> [says : {"nothing", "offline", "up"}, nick : Nick]]
  <2>1. ASSUME NEW s \in Server, Announce(s)
        PROVE  net' \in [Server -> [says : {"nothing", "offline", "up"}, nick : Nick]]
    BY <2>1 DEF Announce, RosterInv, RestInv
  <2>2. CASE UNCHANGED net
    BY <2>2 DEF RosterInv, RestInv
  <2> QED BY <2>1, <2>2
          DEF GiveUp, Write, WriteFails, Reload, Restart, Crash, NodeStarts, NodeEnds, vars
<1>9. RestInv'
  BY <1>1, <1>3, <1>4, <1>5, <1>6, <1>7, <1>8 DEF RosterInv, RestInv
<1> QED BY <1>2, <1>9 DEF RosterInv

LEMMA InitTypes == Init => RosterInv
<1> SUFFICES ASSUME Init PROVE RosterInv
  OBVIOUS
<1>1. Listing(<<>>)
  BY DEF Listing, Distinct, Linked
<1>2. BookInv /\ GoneInv
  BY <1>1 DEF Init, BookInv, GoneInv
<1>3. op \in Op /\ op.kind # "add"
  BY DEF Init, Op, Idle
<1>4. net \in [Server -> [says : {"nothing", "offline", "up"}, nick : Nick]]
  BY DEF Init
<1>5. ops \in 0..MaxOps /\ changes \in 0..MaxChanges /\ torn \in BOOLEAN
  <2>1. ops = 0 /\ changes = 0 /\ torn \in BOOLEAN
    BY DEF Init
  <2> QED BY <2>1, RosterAssumption
<1>6. node \in [on : BOOLEAN, ours : BOOLEAN, static : SUBSET Pin] /\ IsFiniteSet(node.static)
  BY FS_EmptySet DEF Init, Off
<1>7. /\ forgotten \subseteq Key \cup Nick /\ gone \subseteq Key
      /\ theirs \in BOOLEAN /\ yaml \subseteq Pin /\ IsFiniteSet(yaml)
  BY FS_EmptySet DEF Init
<1> QED BY <1>2, <1>3, <1>4, <1>5, <1>6, <1>7 DEF RosterInv, RestInv

LEMMA RosterInvariance == Spec => []RosterInv
<1>1. ASSUME RosterInv, [Next]_vars
      PROVE  RosterInv'
  BY <1>1, AskKeepsTypes, AddKeepsTypes, DisconnectKeepsTypes, UseKeepsTypes, OthersKeepTypes DEF Next
<1> QED BY <1>1, InitTypes, PTL DEF Spec

\* Whatever is added, disconnected, used again and renamed, a key is pinned once or
\* archived once, and what Tahoe lists is of the types the book is of (servers.py
\* add_storage_server, disconnect_server, use_available_server).
THEOREM Typed == Spec => []TypeOK
<1>1. RosterInv => TypeOK
  <2> SUFFICES ASSUME RosterInv PROVE TypeOK
    OBVIOUS
  <2>1. /\ pins \in Seq(Pin) /\ archive \in Seq(Pin) /\ Distinct(pins) /\ Distinct(archive)
        /\ \A i \in DOMAIN pins, j \in DOMAIN archive : pins[i].key # archive[j].key
    BY DEF RosterInv, BookInv, Listing
  <2>2. /\ Len(pins) \in Nat /\ DOMAIN pins = 1..Len(pins)
        /\ Len(archive) \in Nat /\ DOMAIN archive = 1..Len(archive)
    BY <2>1, LenProperties
  <2>3. PICK all : all = pins \o archive
    OBVIOUS
  <2>4. /\ DOMAIN all = 1..(Len(pins) + Len(archive))
        /\ \A i \in DOMAIN all : all[i] = IF i <= Len(pins) THEN pins[i] ELSE archive[i - Len(pins)]
    BY <2>1, <2>2, <2>3, ConcatProperties, LenProperties
  <2>5. ASSUME NEW i \in DOMAIN all, NEW j \in DOMAIN all, all[i].key = all[j].key
        PROVE  i = j
    <3>1. CASE i <= Len(pins) /\ j <= Len(pins)
      BY <2>1, <2>2, <2>4, <2>5, <3>1 DEF Distinct
    <3>2. CASE ~(i <= Len(pins)) /\ ~(j <= Len(pins))
      <4>1. i - Len(pins) \in DOMAIN archive /\ j - Len(pins) \in DOMAIN archive
        BY <2>2, <2>4, <3>2
      <4>2. archive[i - Len(pins)].key = archive[j - Len(pins)].key
        BY <2>4, <2>5, <3>2
      <4>3. i - Len(pins) = j - Len(pins)
        BY <2>1, <4>1, <4>2 DEF Distinct
      <4> QED BY <2>2, <2>4, <4>3
    <3>3. CASE i <= Len(pins) /\ ~(j <= Len(pins))
      <4>1. i \in DOMAIN pins /\ j - Len(pins) \in DOMAIN archive
        BY <2>2, <2>4, <3>3
      <4> QED BY <2>1, <2>4, <2>5, <3>3, <4>1
    <3>4. CASE ~(i <= Len(pins)) /\ j <= Len(pins)
      <4>1. j \in DOMAIN pins /\ i - Len(pins) \in DOMAIN archive
        BY <2>2, <2>4, <3>4
      <4> QED BY <2>1, <2>4, <2>5, <3>4, <4>1
    <3> QED BY <3>1, <3>2, <3>3, <3>4
  <2>6. IsInjective([i \in DOMAIN all |-> all[i].key])
    BY <2>5 DEF IsInjective
  <2> QED BY <2>1, <2>3, <2>6 DEF TypeOK, RosterInv, RestInv
<1> QED BY <1>1, RosterInvariance, PTL

\* What is remembered is not listed as used, unless it is pinned.
LEMMA GoneIsUnused == RosterInv => \A r \in Used : r.key \notin gone
<1> SUFFICES ASSUME RosterInv, NEW r \in Used PROVE r.key \notin gone
  OBVIOUS
<1>1. PICK rows : rows = {r2 \in {Listed[j] : j \in DOMAIN Listed \ Taken(Listed)} : r2.up /\ ~Hit(r2)}
  OBVIOUS
<1>2. Used = {Label(x) : x \in ToSet(pins) \cup rows}
  BY <1>1 DEF Used, Lists
<1>3. PICK x \in ToSet(pins) \cup rows : r.key = x.key
  BY <1>2 DEF Label
<1>4. CASE x \in ToSet(pins)
  BY <1>3, <1>4 DEF ToSet, RosterInv, GoneInv
<1>5. CASE x \in rows
  BY <1>1, <1>3, <1>5 DEF Hit, RosterInv, GoneInv
<1> QED BY <1>3, <1>4, <1>5

\* A server that was disconnected is not listed as used again, through crashes, restarts
\* and new nicknames, before the person adds it or a row that goes by the same name
\* (servers.py roster, SEEN_AGAIN_NOTE).
THEOREM NotUsed == Spec => NotUsedUntilAdded
<1>1. ASSUME [Next]_vars, (\A r \in Used : r.key \notin gone)'
      PROVE  [gone # {} => \A k \in gone \cap {r.key : r \in Used'} :
                 op.kind \in {"add", "use"} /\ op.step = "asked" /\ AskedFor(k)]_vars
  <2> SUFFICES ASSUME NEW k \in gone, NEW r \in Used', k = r.key
               PROVE  op.kind \in {"add", "use"} /\ op.step = "asked" /\ AskedFor(k)
    OBVIOUS
  <2>1. k \notin gone'
    BY <1>1
  <2>2. AddSave \/ UseSave
    BY <1>1, <2>1 DEF Next, AskAdd, AskDisconnect, AskUse, Ask, GiveUp, DisconnectSave, Write,
        WriteFails, Reload, Restart, Crash, NodeStarts, NodeEnds, Announce, vars, past
  <2>3. CASE AddSave
    BY <2>1, <2>3 DEF AddSave, Asked, AskedFor
  <2>4. CASE UseSave
    <3>1. Asked("use")
      BY <2>4 DEF UseSave
    <3>2. CASE Pinned([key |-> op.key, name |-> op.name, furl |-> None], {})
      BY <2>1, <3>1, <3>2 DEF Pinned, Asked, AskedFor
    <3>3. ASSUME NEW i \in Restorable,
                 Pinned([archive[i] EXCEPT !.name = op.name], {archive[i].key, archive[i].name})
          PROVE  op.kind \in {"add", "use"} /\ op.step = "asked" /\ AskedFor(k)
      <4>1. PICK pin : pin = [archive[i] EXCEPT !.name = op.name]
        OBVIOUS
      <4>2. pin.key = archive[i].key
        BY <4>1
      <4>3. k = op.key \/ k = archive[i].key
        BY <2>1, <3>3, <4>1, <4>2 DEF Pinned
      <4> QED BY <3>1, <4>3 DEF Asked, AskedFor, Restorable
    <3> QED BY <2>4, <3>2, <3>3 DEF UseSave
  <2> QED BY <2>2, <2>3, <2>4
<1>2. Spec => [](\A r \in Used : r.key \notin gone)
  BY RosterInvariance, GoneIsUnused, PTL
<1> QED BY <1>1, <1>2, PTL DEF Spec, NotUsedUntilAdded
=============================================================================
