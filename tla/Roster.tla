------------------------------- MODULE Roster -------------------------------
(***************************************************************************)
(* The storage servers of one Sync home: the book in servers.json, the     *)
(* servers.yaml Tahoe reads when it starts, the servers Tahoe then lists,   *)
(* and the rows the window makes of them (servers.py, and the Storage       *)
(* servers place of app.py).  One operation is under way at a time, and its *)
(* steps are the writes a crash can come between.                           *)
(*                                                                         *)
(* Tahoe is external: it lists what it read from servers.yaml under the key *)
(* given there, and what the introducer announced under the server's node   *)
(* id, each with a nickname several servers may share.  Left out: the tub   *)
(* id of a link as a third way to match a row, and the source of a row.     *)
(***************************************************************************)
EXTENDS Naturals, Sequences, SequencesExt

CONSTANTS
    Server,     \* storage servers: each is its own node id and its own link
    Nick,       \* nicknames, of servers and of pins
    MaxOps,     \* bound: operations the person begins
    MaxChanges, \* bound: changes of what the introducer says of a server
    None        \* no link, no row

ASSUME RosterAssumption ==
    MaxOps \in Nat /\ MaxChanges \in Nat /\ None \notin Server \cup Nick
ASSUME ServersAssumption == IsFiniteSet(Server)

VARIABLES
    pins,       \* servers.json: the pins in their order,
    forgotten,  \*   keys and names that were disconnected,
    archive,    \*   and the pins that were
    theirs,     \* servers.yaml was written by hand: Sync leaves it alone
    yaml,       \* otherwise the pins in it
    node,       \* the Tahoe node: runs, Sync's child, pins it has read
    net,        \* per server: what the introducer says, and its nickname
    op,         \* the operation under way
    gone,       \* history: keys disconnected and not used again
    torn,       \* history: the book was saved and servers.yaml was not
    ops, changes

book == <<pins, forgotten, archive>>
file == <<theirs, yaml>>
past == <<gone, torn, ops, changes>>
vars == <<book, file, node, net, op, past>>

\* _pin_key: a digest of the link.
PinKey(s) == <<"pin", s>>
Key == Server \cup {PinKey(s) : s \in Server}
\* No nickname is the node id of a server or the digest of a link: what is forgotten
\* holds both.
ASSUME NamesAssumption == Nick \cap Key = {}
Pin == [key : Key, name : Nick, furl : Server \cup {None}]
Row == [key : Key, name : Nick, up : BOOLEAN]
Idle == [kind |-> "none", step |-> "asked", key |-> None, name |-> None]
Op == {Idle} \cup [kind : {"add", "disconnect", "use"}, name : Nick, key : Key,
                   step : {"asked", "saved", "written", "stopped"}]

\* A key is pinned once or archived once, whatever names are shared.
TypeOK ==
    /\ pins \in Seq(Pin) /\ archive \in Seq(Pin)
    /\ IsInjective([i \in DOMAIN (pins \o archive) |-> (pins \o archive)[i].key])
    /\ forgotten \subseteq Key \cup Nick
    /\ theirs \in BOOLEAN /\ yaml \subseteq Pin
    /\ node \in [on : BOOLEAN, ours : BOOLEAN, static : SUBSET Pin]
    /\ net \in [Server -> [says : {"nothing", "offline", "up"}, nick : Nick]]
    /\ op \in Op
    /\ gone \subseteq Key /\ torn \in BOOLEAN /\ ops \in 0..MaxOps /\ changes \in 0..MaxChanges

\* The pins that go into servers.yaml
Static == {p \in ToSet(pins) : p.furl # None}

Off == [on |-> FALSE, ours |-> FALSE, static |-> {}]

Init ==
    /\ pins = <<>> /\ forgotten = {} /\ archive = <<>>
    /\ theirs \in BOOLEAN /\ yaml = {}
    /\ node = Off
    /\ net \in [Server -> [says : {"nothing"}, nick : Nick]]
    /\ op = Idle
    /\ gone = {} /\ torn = FALSE /\ ops = 0 /\ changes = 0

----------------------------------------------------------------------------
(* What the window shows. *)

\* _announced_key, _display_name, connection_status: the rows Tahoe lists, in
\* the order of Tahoe; none when it does not answer.
Listed ==
    IF ~node.on THEN <<>>
    ELSE LET static == {[key |-> p.key, name |-> p.name, up |-> net[p.furl].says = "up"] :
                           p \in node.static}
             announced == {[key |-> s, name |-> net[s].nick, up |-> net[s].says = "up"] :
                              s \in {t \in Server : net[t].says # "nothing"}}
         IN SetToSeq(static) \o SetToSeq(announced)

Matches(pin, row) == pin.key = row.key \/ pin.name = row.name
First(set) == CHOOSE i \in set : \A j \in set : i <= j

\* Each pin takes the first row it matches that no earlier pin took.
Taken(rows) ==
    LET taken[i \in 0..Len(pins)] ==
            IF i = 0 THEN {}
            ELSE LET free == {j \in DOMAIN rows \ taken[i - 1] : Matches(pins[i], rows[j])}
                 IN taken[i - 1] \cup (IF free = {} THEN {} ELSE {First(free)})
    IN taken[Len(pins)]

Hit(row) == row.key \in forgotten \/ row.name \in forgotten
Label(row) == [key |-> row.key, name |-> row.name]

\* roster(): the two lists of the Storage servers place
Lists ==
    LET rows == Listed
        untaken == {rows[j] : j \in DOMAIN rows \ Taken(rows)}
        inUse == {r \in untaken : r.up /\ ~Hit(r)}
    IN [used |-> {Label(r) : r \in ToSet(pins) \cup inUse},
        available |-> {Label(r) : r \in untaken \ inUse}]
Used == Lists.used
Available == Lists.available

----------------------------------------------------------------------------
(* Operations of the person. *)

Ask(kind, row) ==
    /\ op = Idle /\ ops < MaxOps
    /\ ops' = ops + 1
    /\ op' = [kind |-> kind, step |-> "asked", key |-> row.key, name |-> row.name]
    /\ UNCHANGED <<book, file, node, net, gone, torn, changes>>

\* The dialog that asks for a link and a nickname, and the buttons of the rows as
\* they were painted: what happens until the person confirms is not seen.
AskAdd == \E s \in Server, n \in Nick : Ask("add", [key |-> PinKey(s), name |-> n])
AskDisconnect == \E r \in Used : Ask("disconnect", r)
AskUse == \E r \in Available : Ask("use", r)

Asked(kind) == op.kind = kind /\ op.step = "asked"
Then(step) == op' = [op EXCEPT !.step = step]
\* save_book: the file is replaced as a whole.
SaveBook == Then("saved")

\* Cancel, a link that does not parse, a server that does not answer the probe, a
\* book that cannot be read or written
GiveUp ==
    /\ op # Idle /\ op.step = "asked"
    /\ op' = Idle
    /\ UNCHANGED <<book, file, node, net, past>>

LinkOf(key) == key[2]

\* A list without the pin that Test is true of: a key is in a list once, so there
\* is one such pin at most.
Without(pinned, Test(_)) ==
    LET at == {i \in DOMAIN pinned : Test(pinned[i])}
    IN IF at = {} THEN pinned ELSE RemoveAt(pinned, CHOOSE i \in at : TRUE)

\* add_storage_server, to save_book
AddSave ==
    /\ Asked("add")
    /\ LET pin == [key |-> op.key, name |-> op.name, furl |-> LinkOf(op.key)]
           Same(p) == p.key = pin.key \/ p.furl = pin.furl
       IN /\ pins' = IF \E p \in ToSet(pins) : Same(p)
                     THEN [i \in DOMAIN pins |-> IF Same(pins[i]) THEN pin ELSE pins[i]]
                     ELSE Append(pins, pin)
          /\ archive' = Without(archive, Same)
    /\ forgotten' = forgotten \ {op.key, op.name}
    /\ SaveBook
    /\ gone' = gone \ {op.key}
    /\ UNCHANGED <<file, node, net, torn, ops, changes>>

\* Fault: only what was pinned is remembered.
PinTokens(removed) == UNION {{p.key, p.name} : p \in removed}
\* What a disconnected row is recognised by later
Tokens(removed) == {op.key, op.name} \cup PinTokens(removed)

\* disconnect_server, to save_book
DisconnectSave ==
    /\ Asked("disconnect")
    /\ LET Same(p) == p.key = op.key
           removed == {p \in ToSet(pins) : Same(p)}
       IN /\ pins' = Without(pins, Same)
          /\ archive' = IF removed = {} THEN archive
                        ELSE Append(archive, CHOOSE p \in removed : TRUE)
          /\ forgotten' = forgotten \cup Tokens(removed)
    /\ SaveBook
    /\ gone' = gone \cup {op.key}
    /\ UNCHANGED <<file, node, net, torn, ops, changes>>

\* The archived pin that comes back: the first of that key or of that name.
Restorable == {i \in DOMAIN archive : archive[i].key = op.key \/ archive[i].name = op.name}
\* Fault: the pin comes back and stays in the archive.
RestoredKept(i) == archive
Restored(i) == RemoveAt(archive, i)

\* What comes back is pinned last, under the name of the row.
Pinned(pin, tokens) ==
    /\ pins' = LET Same(p) == p.key = pin.key IN Append(Without(pins, Same), pin)
    /\ forgotten' = forgotten \ ({op.key, op.name} \cup tokens)
    /\ gone' = gone \ {op.key, pin.key}

\* use_available_server, to save_book
UseSave ==
    /\ Asked("use")
    /\ \/ /\ Restorable = {}
          /\ Pinned([key |-> op.key, name |-> op.name, furl |-> None], {})
          /\ UNCHANGED archive
       \/ \E i \in Restorable :
             /\ \A j \in Restorable : i <= j
             /\ Pinned([archive[i] EXCEPT !.name = op.name], {archive[i].key, archive[i].name})
             /\ archive' = Restored(i)
    /\ SaveBook
    /\ UNCHANGED <<file, node, net, torn, ops, changes>>

\* Fault: without a pin to write, the file is left as it is.
WrittenUnlessEmpty == IF theirs \/ Static = {} THEN yaml ELSE Static
\* write_static_servers
Written == IF theirs THEN yaml ELSE Static

Write ==
    /\ op.step = "saved"
    /\ yaml' = Written
    /\ torn' = FALSE
    /\ Then("written")
    /\ UNCHANGED <<book, theirs, node, net, gone, ops, changes>>

\* The book is saved and servers.yaml cannot be written.
WriteFails ==
    /\ op.step = "saved"
    /\ op' = Idle
    /\ torn' = TRUE
    /\ UNCHANGED <<book, file, node, net, gone, ops, changes>>

\* reload_static_servers: a node Sync did not start keeps what it has read.
Reload ==
    /\ op.step = "written"
    /\ IF node.on /\ node.ours
       THEN node' = Off /\ Then("stopped")
       ELSE op' = Idle /\ UNCHANGED node
    /\ UNCHANGED <<book, file, net, past>>

Started(ours) == [on |-> TRUE, ours |-> ours, static |-> yaml]

\* ... and the start that may fail
Restart ==
    /\ op.step = "stopped"
    /\ node' \in {node, Started(TRUE)}
    /\ op' = Idle
    /\ UNCHANGED <<book, file, net, past>>

----------------------------------------------------------------------------
(* Around them. *)

\* Sync is killed, and its node ends with it.
Crash ==
    /\ op # Idle
    /\ op' = Idle
    /\ torn' = (torn \/ op.step = "saved")
    /\ node' = IF node.ours THEN Off ELSE node
    /\ UNCHANGED <<book, file, net, gone, ops, changes>>

\* A window or a person starts the node; it ends.
NodeStarts ==
    /\ ~node.on /\ op = Idle
    /\ \E ours \in BOOLEAN : node' = Started(ours)
    /\ UNCHANGED <<book, file, net, op, past>>
NodeEnds ==
    /\ node.on
    /\ node' = Off
    /\ UNCHANGED <<book, file, net, op, past>>

\* A server is announced, comes and goes, or is given another nickname.
Announce(s) ==
    /\ changes < MaxChanges
    /\ changes' = changes + 1
    /\ \/ \E says \in {"offline", "up"} : net' = [net EXCEPT ![s].says = says]
       \/ \E n \in Nick : net' = [net EXCEPT ![s].nick = n]
    /\ net' # net
    /\ UNCHANGED <<book, file, node, op, gone, torn, ops>>

Next ==
    \/ AskAdd \/ AskDisconnect \/ AskUse \/ GiveUp
    \/ AddSave \/ DisconnectSave \/ UseSave \/ Write \/ WriteFails \/ Reload \/ Restart
    \/ Crash \/ NodeStarts \/ NodeEnds
    \/ \E s \in Server : Announce(s)

Spec == Init /\ [][Next]_vars

----------------------------------------------------------------------------
(* Properties. *)

\* The person asked for k, or for a row that has the name of the archived pin k.
AskedFor(k) ==
    \/ k = op.key
    \/ op.kind = "use" /\ \E i \in DOMAIN archive : archive[i].key = k /\ archive[i].name = op.name

\* "You disconnected this server earlier.  Not used until you Add." (servers.py
\* SEEN_AGAIN_NOTE): whatever crashes, restarts of the node and new nicknames
\* come in between, a disconnected row is not listed under Used until the
\* person adds it, or another row that goes by the same name.
NotUsedUntilAdded ==
    [][gone # {} => \A k \in gone \cap {r.key : r \in Used'} :
          op.kind \in {"add", "use"} /\ op.step = "asked" /\ AskedFor(k)]_vars

\* A node that Sync runs has read the pins of the book as soon as the operation
\* is over: only a crash or an error between the two files, or a servers.yaml written by
\* hand, keeps them apart (servers.py write_static_servers, backend.py
\* reload_static_servers).
LoadedIsBook ==
    op = Idle /\ node.on /\ node.ours /\ ~torn /\ ~theirs => node.static = Static
=============================================================================
