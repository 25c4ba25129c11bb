------------------------------- MODULE Directory -------------------------------
(* A shared folder as the phones read and write it (lg_tahoe.py, lg_write.py). *)
(* A directory is N shares, one per storage server; any K of one version       *)
(* decode. A rewrite sends one test-and-set per share, in share order, so      *)
(* other phones, a server that does not answer, and the death of the app all   *)
(* fall between two shares. Folder contents are sets of entries; hashes,       *)
(* signatures and encryption are abstracted to "all blocks of one version".    *)
(* Its names differ from those of Phone: PhoneProofs extends both.             *)
EXTENDS Naturals, FiniteSets, FiniteSetsExt

CONSTANTS Phone,        \* the phones that hold the folder's write capability
          FileName,     \* file names
          FileContent,  \* file contents; the capability of a file is its content
          Fresh,        \* directories the phones may create for themselves
          K, N,         \* shares needed, shares made
          DeskFiles,    \* entries of the desktop's own, read-only participant
          Picks,        \* the files users add: a set of file entries
          MaxOps,       \* bound: puts and removes begun one after the other
          MaxTogether,  \* bound: puts and removes begun when any of them overlap
          MaxFaults,    \* bound: requests unanswered and deaths of the app
          Root, Desk, Nothing, Gone

ASSUME SharesAssumption == K \in Nat \ {0} /\ N \in Nat \ {0} /\ K <= N /\ N < 2 * K
ASSUME RootAssumption == Root \notin Fresh \cup {Desk} /\ Desk \notin Fresh /\ Nothing \notin Fresh
ASSUME ToldAssumption == Nothing \notin FileContent /\ Gone \notin FileContent \cup {Nothing}
ASSUME PicksAssumption == Picks \subseteq [name : FileName, kind : {"file"}, to : FileContent]

VARIABLES slots,        \* directory -> share number -> version stored, or NoShare
          op,           \* phone -> the put or remove it runs
          dmd,          \* phone -> the directory it remembers as its own
          ops,          \* puts and removes begun
          misses,       \* reads a server did not answer
          lost,         \* writes that were lost, or whose reply was
          deaths,       \* operations cut short by the end of the app
          overlapped,   \* some operation began while another ran
          kept,         \* name -> what the last operation on it was told
          wins          \* what every acknowledged rewrite had located

dirVars == <<slots, op, dmd, ops, misses, lost, deaths, overlapped, kept, wins>>

Shares == 0 .. N - 1
Dir == {Root, Desk} \cup Fresh

File(n, c) == [name |-> n, kind |-> "file", to |-> c]
\* What Magic Folder downloads: a directory signed for one name, that holds one
\* file and is stored before the entry that names it.
Snapshot(n, c) == File(n, c)
Link(n, d) == [name |-> n, kind |-> "dir", to |-> d]
Metadata == [name |-> "@metadata", kind |-> "meta", to |-> Nothing]
LinkNames == {"desk", "phone", "phone-2"}
\* Nothing keeps a user from such a name; removing that file removes the link.
ASSUME NamesAssumption == FileName \cap (LinkNames \cup {"@metadata"}) = {}
Entry == [name : FileName, kind : {"file"}, to : FileContent]
         \cup [name : LinkNames, kind : {"dir"}, to : Dir] \cup {Metadata}
Version == [seq : Nat, op : Nat, entries : SUBSET Entry]
\* What a test finds of a share that is not there: nothing.
NoShare == [seq |-> 0, op |-> 0, entries |-> {}]

Idle == [pc |-> "idle", kind |-> "put", name |-> Nothing, content |-> Nothing, replace |-> FALSE,
         own |-> Nothing, dir |-> Root, entries |-> {}, why |-> "file", located |-> <<>>,
         num |-> 0, placed |-> {}, done |-> FALSE, id |-> 0]

Faults == misses + lost + deaths

(* ---- reading: what lg_tahoe.py makes of the shares it is given ------------ *)

\* ReadFail, anything else raised, or the entries.
Short == [got |-> "short", es |-> {}]
Garbage == [got |-> "garbage", es |-> {}]
Good(es) == [got |-> "entries", es |-> es]

\* The first n of a set of share numbers.
FirstOf(S, n) == {i \in S : Cardinality({j \in S : j < i}) < n}

\* The salt and the length are those of the last share read, the blocks those of
\* the first K: shares of two versions decode to nothing a directory is packed as,
\* except that an empty last version is read as an empty directory.
Read(d, reach) ==
    LET got == FirstOf({i \in reach : slots[d][i] # NoShare}, 3)
    IN IF Cardinality(got) < K THEN Short
       ELSE LET last == slots[d][Max(got)]
            IN IF last.entries = {} \/ \A i \in FirstOf(got, K) : slots[d][i] = last
               THEN Good(last.entries) ELSE Garbage

Links(es) == {e \in es : e.kind = "dir"}
IsCollective(es) == Links(es) # {} /\ (Metadata \in es \/ es = Links(es))

\* The rows of entries: a snapshot is shown as the file it holds.
FilesIn(es) == {[name |-> e.name, to |-> e.to] : e \in {x \in es : x.kind = "file"}}
\* A participant whose shares do not suffice is left out; garbage in one raises.
ParticipantFiles(read) == IF read = Short THEN {} ELSE FilesIn(read.es)
View(reach) ==
    LET root == Read(Root, reach)
        inner == {Read(e.to, reach) : e \in Links(root.es)}
    IN IF root \in {Short, Garbage} THEN root
       ELSE IF ~IsCollective(root.es) THEN Good(FilesIn(root.es))
       ELSE IF Garbage \in inner THEN Garbage
       ELSE Good(UNION {ParticipantFiles(x) : x \in inner})

\* The servers that answer a read; each one that does not is a fault.
Reach == {R \in SUBSET Shares : Faults + N - Cardinality(R) <= MaxFaults}
Missed(R) == misses' = misses + N - Cardinality(R)

(* ---- the entries a rewrite stores ----------------------------------------- *)

Upsert(es, e) == {x \in es : x.name # e.name} \cup {e}
Drop(es, n) == {x \in es : x.name # n}
WithoutRootFiles(es) == {x \in es : x.kind # "file"}
IsLinked(es, d) == \E e \in Links(es) : e.to = d
PhoneDmdName(es) ==
    LET taken == {e.name : e \in es}
    IN CHOOSE n \in LinkNames : n \notin taken /\ (n = "phone-2" => "phone" \in taken)

\* The directory a put goes to when the phone remembers none: any participant
\* that some phone linked with its write capability.
Writable(es) == {e.to : e \in Links(es)} \cap Fresh

\* What a rewrite takes a share for: as located, or not there.
Base(located, i) == IF i \in DOMAIN located THEN located[i] ELSE NoShare

AppliesUntested(o, i) == TRUE
\* A server applies the write when the share is still what the writer located.
Applies(o, i) == slots[o.dir][i] = Base(o.located, i)
\* The version this rewrite stores: one above the lowest share it located.
Written(o) == [seq |-> IF DOMAIN o.located = {} THEN 1 ELSE o.located[Min(DOMAIN o.located)].seq + 1,
               op |-> o.id, entries |-> o.entries]

(* ---- actions --------------------------------------------------------------- *)

Folder(es) == [d \in Dir |-> [i \in Shares |->
    CASE d = Root -> [seq |-> 1, op |-> 0, entries |-> es]
      [] d = Desk -> [seq |-> 1, op |-> 0, entries |-> DeskFiles]
      [] OTHER -> NoShare]]

\* A plain folder, empty or not, or a Magic Folder collective with the desktop as
\* its participant, perhaps with a raw file an earlier release stored at its root.
InitFolder ==
    /\ \E raw \in {{}} \cup {{f} : f \in Picks}, magic \in {{}, {Metadata, Link("desk", Desk)}} :
          slots = Folder(raw \cup magic)
    /\ op = [p \in Phone |-> Idle]
    /\ dmd = [p \in Phone |-> Nothing]
    /\ ops = 0
    /\ misses = 0 /\ lost = 0 /\ deaths = 0
    /\ overlapped = FALSE
    /\ kept = [n \in FileName |-> Nothing]
    /\ wins = {}

Set(p, r) == op' = [op EXCEPT ![p] = r]
End(p) == Set(p, Idle)

\* AppModel calls "put" or "remove"; retries are operations of their own.
Begin(p, kind, n, c, again) ==
    /\ op[p].pc = "idle"
    /\ overlapped' = (overlapped \/ \E q \in Phone : op[q].pc # "idle")
    /\ ops < IF overlapped' THEN MaxTogether ELSE MaxOps
    /\ ops' = ops + 1
    /\ Set(p, [Idle EXCEPT !.pc = IF kind = "put" THEN "look" ELSE "load", !.kind = kind,
                           !.name = n, !.content = c, !.replace = again, !.own = dmd[p], !.id = ops + 1])
    /\ kept' = [kept EXCEPT ![n] = Nothing]
    /\ UNCHANGED <<slots, dmd, misses, lost, deaths, wins>>

\* The operation is told it failed: nothing is undone.
Fail(p) == End(p) /\ UNCHANGED <<slots, dmd, ops, lost, deaths, overlapped, kept, wins>>

Land(p) ==
    /\ End(p)
    /\ dmd' = [dmd EXCEPT ![p] = op[p].own]
    /\ kept' = [kept EXCEPT ![op[p].name] = op[p].content]
    /\ UNCHANGED <<slots, ops, lost, deaths, overlapped, wins>>

\* list_folder_view first: the same bytes under that name have landed already,
\* other bytes are a clash unless the user chose Replace.
Look(p) ==
    /\ op[p].pc = "look"
    /\ \E R \in Reach :
         LET view == View(R)
             same == {r \in view.es : r.name = op[p].name}
         IN /\ Missed(R)
            /\ \/ view \in {Short, Garbage} /\ Fail(p)
               \/ /\ same # {} /\ ~op[p].replace
                  /\ IF \E r \in same : r.to = op[p].content THEN Land(p) ELSE Fail(p)
               \/ /\ view \notin {Short, Garbage}
                  /\ same = {} \/ op[p].replace
                  /\ Set(p, [op[p] EXCEPT !.pc = "load"])
                  /\ UNCHANGED <<slots, dmd, ops, lost, deaths, overlapped, kept, wins>>

\* The file itself is uploaded before the folder is read again; fewer than K shares
\* placed, or no space, is a failure that leaves the folder as it is.
UploadFails(p) ==
    /\ op[p].pc = "load" /\ op[p].kind = "put"
    /\ UNCHANGED misses
    /\ Fail(p)

\* _commit_entries: the entries are fixed here, the shares are located later.
Commit(p, d, es, why) ==
    Set(p, [op[p] EXCEPT !.pc = "locate", !.dir = d, !.entries = es, !.why = why])

Continue(p, pc) == Set(p, [op[p] EXCEPT !.pc = pc])

\* A put with no directory of its own makes one, and pushes it without a test.
Publish(p) ==
    \E d \in Fresh :
       /\ \A i \in Shares : slots[d][i] = NoShare
       /\ \A q \in Phone : op[q].own # d
       /\ Set(p, [op[p] EXCEPT !.pc = "push", !.own = d, !.dir = d, !.why = "inner",
                               !.entries = {Snapshot(op[p].name, op[p].content)}, !.located = <<>>,
                               !.num = 0, !.placed = {}])

Place(p, es) ==
    LET o == op[p]
        own == IF o.own # Nothing THEN {o.own} ELSE Writable(es)
    IN IF ~IsCollective(es) THEN Commit(p, Root, Upsert(es, File(o.name, o.content)), "file")
       ELSE IF own = {} THEN Publish(p)
       ELSE \E d \in own : Set(p, [o EXCEPT !.pc = "inner", !.own = d])

RemoveAt(p, es) ==
    IF \E e \in es : e.name = op[p].name THEN Commit(p, Root, Drop(es, op[p].name), "drop")
    ELSE IF op[p].own # Nothing THEN Continue(p, "inner") ELSE End(p)

Load(p) ==
    /\ op[p].pc = "load"
    /\ \E R \in Reach :
         LET read == Read(Root, R)
         IN /\ Missed(R)
            /\ IF read \in {Short, Garbage} THEN End(p)
               ELSE IF op[p].kind = "put" THEN Place(p, read.es) ELSE RemoveAt(p, read.es)
    /\ UNCHANGED <<slots, dmd, ops, lost, deaths, overlapped, kept, wins>>

PutInContainer(p, es) ==
    Commit(p, op[p].own, Upsert(es, Snapshot(op[p].name, op[p].content)), "inner")

RemoveInside(p, es) ==
    IF \E e \in es : e.name = op[p].name THEN Commit(p, op[p].own, Drop(es, op[p].name), "dropinner")
    ELSE IF op[p].done THEN Continue(p, "check") ELSE End(p)

\* The phone's own directory is read, for a put or for the second half of a remove.
Inner(p) ==
    /\ op[p].pc = "inner"
    /\ \E R \in Reach :
         LET read == Read(op[p].own, R)
         IN /\ Missed(R)
            /\ IF read \in {Short, Garbage} THEN End(p)
               ELSE IF op[p].kind = "put" THEN PutInContainer(p, read.es) ELSE RemoveInside(p, read.es)
    /\ UNCHANGED <<slots, dmd, ops, lost, deaths, overlapped, kept, wins>>

\* The collective is read again; it is rewritten if it holds raw files or if the
\* phone's directory is not linked in it.
LinkIn(p) ==
    /\ op[p].pc = "link"
    /\ \E R \in Reach :
         LET read == Read(Root, R)
             clean == WithoutRootFiles(read.es)
             own == op[p].own
             linked == IF IsLinked(clean, own) THEN clean
                       ELSE Upsert(clean, Link(PhoneDmdName(clean), own))
         IN /\ Missed(R)
            /\ IF read \in {Short, Garbage} THEN End(p)
               ELSE IF linked = read.es THEN Continue(p, "check") ELSE Commit(p, Root, linked, "link")
    /\ UNCHANGED <<slots, dmd, ops, lost, deaths, overlapped, kept, wins>>

\* _locate: the shares that exist now, not those the entries were read from.
Locate(p) ==
    /\ op[p].pc = "locate"
    /\ \E R \in Reach :
         LET d == op[p].dir
             found == {i \in R : slots[d][i] # NoShare}
         IN /\ Missed(R)
            /\ IF found = {} THEN End(p)
               ELSE Set(p, [op[p] EXCEPT !.pc = "push", !.located = [i \in found |-> slots[d][i]],
                                         !.num = 0, !.placed = {}])
    /\ UNCHANGED <<slots, dmd, ops, lost, deaths, overlapped, kept, wins>>

After(o) == CASE o.why = "inner" -> "link"
              [] o.why = "drop" /\ o.own # Nothing -> "inner"
              [] OTHER -> "check"

\* The last share has been answered: K placed are a success, whatever became of
\* the others.
Finish(p, o) ==
    IF Cardinality(o.placed) < K THEN End(p) /\ UNCHANGED wins
    ELSE /\ Set(p, [o EXCEPT !.pc = After(o), !.done = TRUE, !.entries = {}, !.located = <<>>,
                             !.num = 0, !.placed = {}])
         /\ wins' = wins \cup {[dir |-> o.dir, id |-> o.id, located |-> o.located]}

ReplyShort(p, placed) ==
    LET o == [op[p] EXCEPT !.num = @ + 1, !.placed = placed]
    IN IF o.num < N - 1 THEN Set(p, o) /\ UNCHANGED wins ELSE Finish(p, o)
Reply(p, placed) ==
    LET o == [op[p] EXCEPT !.num = @ + 1, !.placed = placed]
    IN IF o.num < N THEN Set(p, o) /\ UNCHANGED wins ELSE Finish(p, o)

\* No host of a server answers one exchange.
Unanswered == Faults < MaxFaults /\ lost' = lost + 1

\* One read-test-write. The request or its reply may be lost.
Push(p) ==
    LET o == op[p]
        i == o.num
        Write == slots' = [slots EXCEPT ![o.dir][i] = Written(o)]
    IN /\ o.pc = "push"
       /\ \/ Applies(o, i) /\ Write /\ Reply(p, o.placed \cup {i}) /\ UNCHANGED lost
          \/ ~Applies(o, i) /\ Reply(p, o.placed) /\ UNCHANGED <<slots, lost>>
          \/ Unanswered /\ Reply(p, o.placed) /\ UNCHANGED slots
          \/ Unanswered /\ Applies(o, i) /\ Write /\ Reply(p, o.placed)
       /\ UNCHANGED <<dmd, ops, misses, deaths, overlapped, kept>>

CheckSkipped(p) ==
    /\ op[p].pc = "check"
    /\ misses' = misses
    /\ IF op[p].kind = "put" THEN Land(p) ELSE Fail(p)

\* Read back: a put lands when its bytes are listed, a remove when its name is not.
Check(p) ==
    /\ op[p].pc = "check"
    /\ \E R \in Reach :
         LET o == op[p]
             view == View(R)
             listed == {r \in view.es : r.name = o.name}
         IN /\ Missed(R)
            /\ IF view \in {Short, Garbage} THEN Fail(p)
               ELSE IF o.kind = "put"
                    THEN IF \E r \in listed : r.to = o.content THEN Land(p) ELSE Fail(p)
                    ELSE IF listed # {} THEN Fail(p)
                    ELSE /\ End(p)
                         /\ kept' = [kept EXCEPT ![o.name] = Gone]
                         /\ UNCHANGED <<slots, dmd, ops, lost, deaths, overlapped, wins>>

\* The app is killed.
Die(p) ==
    /\ op[p].pc # "idle"
    /\ Faults < MaxFaults
    /\ deaths' = deaths + 1
    /\ End(p)
    /\ UNCHANGED <<slots, dmd, ops, misses, lost, overlapped, kept, wins>>

NextWrite == \E p \in Phone :
          \/ \E f \in Picks, again \in BOOLEAN : Begin(p, "put", f.name, f.to, again)
          \/ \E n \in FileName : Begin(p, "remove", n, Nothing, FALSE)
          \/ Look(p) \/ UploadFails(p) \/ Load(p) \/ Inner(p) \/ LinkIn(p)
          \/ Locate(p) \/ Push(p) \/ Check(p) \/ Die(p)

DirectorySpec == InitFolder /\ [][NextWrite]_dirVars

(* ---- properties ------------------------------------------------------------ *)

Quiescent == \A p \in Phone : op[p].pc = "idle"

\* What is stored, whoever reads it: the version K shares agree on.
Whole(d) == {v \in {slots[d][i] : i \in Shares} \ {NoShare} :
               Cardinality({i \in Shares : slots[d][i] = v}) >= K}
Stored(d) == UNION {v.entries : v \in Whole(d)}
Rows == IF IsCollective(Stored(Root)) THEN UNION {FilesIn(Stored(e.to)) : e \in Links(Stored(Root))}
        ELSE FilesIn(Stored(Root))

\* One unanswered request or one death of the app, at any point of operations that
\* do not overlap, leaves K shares of one version of the folder and of every
\* directory linked in it (lg_write.py _push_mutable, _rewrite_directory).
StaysRecoverable ==
    Quiescent /\ Faults <= 1 /\ ~overlapped
        => /\ Whole(Root) # {}
           /\ \A e \in Links(Stored(Root)) : Whole(e.to) # {}

AsTold(n) == LET rows == {r \in Rows : r.name = n}
             IN CASE kept[n] = Nothing -> TRUE
                  [] kept[n] = Gone -> rows = {}
                  [] OTHER -> \E r \in rows : r.to = kept[n]

\* What the last operation on a name was told stays true until the next one on that
\* name: a file that landed is stored, a removed one is not, whatever other names
\* are added and removed meanwhile and however one of those operations is cut
\* short (lg_write.py put_file, remove_file, _read_back).
LandedIsKept == Faults <= 1 /\ ~overlapped /\ Quiescent => \A n \in FileName : AsTold(n)

\* Two phones that rewrite a directory from the same located shares are not both
\* told they succeeded (lg_write.py _push_one_mutable, "test" of the read-test-write).
OneWinner == \A a, b \in wins : a.dir = b.dir /\ a.located = b.located => a = b

================================================================================
