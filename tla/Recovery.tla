------------------------------ MODULE Recovery ------------------------------
(***************************************************************************)
(* The recovery key (recovery.py, and its two dialogs in app.py): one       *)
(* device exports what a new one needs, the invite, the folders, the wallet *)
(* and the credit seed, and a device restores it: it joins, takes over the  *)
(* credit and becomes a new participant of each folder.  A restore may fail *)
(* or be killed after each of its steps, and the person tries again.        *)
(*                                                                         *)
(* Tahoe, Magic Folder and the issuer are external.  A folder is its name,  *)
(* and a batch of credit is one pass.  Left out: recovery-state.json, which *)
(* holds the acknowledgements and the time of the last export; the pending  *)
(* vouchers of the seed file (module TopUp); what protects the file.        *)
(***************************************************************************)
EXTENDS Naturals, Sequences

CONSTANTS
    Folder,     \* names of Magic Folders
    Pass,       \* passes
    Gap,        \* RECOVER_GAP: unknown vouchers in a row that end the walk
    MaxExports, \* bound: exports begun
    MaxTries,   \* bound: restores begun
    None        \* nothing there

ASSUME RecoveryAssumption == MaxTries \in Nat /\ MaxExports \in Nat /\ Gap \in Nat \ {0}

VARIABLES
    old,        \* the exporting device: wallet, folders, step of its export
    key,        \* the key file: whether it can be read, and what it holds
    bought,     \* what the seed in the key bought, by voucher number
    used,       \* passes some storage node has on record
    dev,        \* the restoring device: node, wallet, parked passes, seed, state of Magic Folder
    config,     \* its Magic Folder config: per folder, participant and directory
    listed,     \* the participants of each folder, as this device added them
    run,        \* the restore under way
    due,        \* history: the wallet in the key that met no wallet file
    dirs,       \* directories made on the grid
    tries

exporter == <<old, key>>
credit == <<bought, used>>
past == <<due, dirs, tries>>
vars == <<exporter, credit, dev, config, listed, run, past>>

\* Nothing, or a file cut short: decode_recovery_file refuses it.
Unusable == [good |-> FALSE, wallet |-> None, seed |-> FALSE, folders |-> {}]

Bundle(wallet, seed, folders) ==
    [good |-> TRUE, wallet |-> wallet, seed |-> seed, folders |-> folders]

\* A participant: the name it goes by and its directory of snapshots
Participant(author, dmd) == [author |-> author, dmd |-> dmd]
Own == Participant(0, 0)

ASSUME NoneAssumption ==
    None \notin [author : Nat, dmd : Nat] /\ \A passes \in SUBSET Pass : passes # None

Idle == [step |-> "idle"]

\* The device that restores is new, or has a wallet, a seed and folders of its own.
Init ==
    /\ old = [wallet |-> None, seed |-> FALSE, folders |-> {}, read |-> None, step |-> "idle", left |-> MaxExports]
    /\ key = Unusable
    /\ bought = <<>> /\ used = {}
    /\ due = {}
    /\ config \in [Folder -> {None, Own}]
    /\ dev \in [node : {FALSE}, wallet : {None, {}}, parked : {{}}, seed : {"none", "own"},
               magic : {IF \A f \in Folder : config[f] = None THEN "none" ELSE "ready"}]
    /\ listed = {} /\ run = Idle /\ dirs = 0 /\ tries = 0

----------------------------------------------------------------------------
(* The device that exports. *)

\* A voucher the issuer knows, and how many before it in a row it does not: quotes whose
\* request was lost (module TopUp).
Voucher(p, missed) == [pass |-> p, missed |-> missed]
Passes == {bought[i].pass : i \in DOMAIN bought}

\* After the bound's last export nothing more of it gets into a key.
Exports == old.step = "idle" /\ old.left > 0

\* The first quote makes the seed.
Quote ==
    /\ Exports /\ ~old.seed
    /\ old' = [old EXCEPT !.seed = TRUE]
    /\ UNCHANGED <<key, credit, dev, config, listed, run, past>>

\* A pass gets into its wallet, from the faucet or bought under the seed.
Obtain(p) ==
    /\ old.step = "idle" /\ p \notin Passes \cup used
    /\ old.wallet # None => p \notin old.wallet
    /\ \/ UNCHANGED bought
       \/ old.seed /\ \E missed \in 0 .. Gap : bought' = Append(bought, Voucher(p, missed))
    /\ old' = [old EXCEPT !.wallet = (IF @ = None THEN {} ELSE @) \cup {p}]
    /\ UNCHANGED <<key, used, dev, config, listed, run, past>>

\* Its Tahoe spends while Sync does what it likes.
OldSpends(p) ==
    /\ old.wallet # None /\ p \in old.wallet
    /\ old' = [old EXCEPT !.wallet = @ \ {p}]
    /\ used' = used \cup {p}
    /\ UNCHANGED <<key, bought, dev, config, listed, run, past>>

Share(f) ==
    /\ Exports /\ f \notin old.folders
    /\ old' = [old EXCEPT !.folders = @ \cup {f}]
    /\ UNCHANGED <<key, credit, dev, config, listed, run, past>>

\* collect: the wallet is read first,
CollectWallet ==
    /\ Exports
    /\ old' = [old EXCEPT !.read = old.wallet, !.step = "read", !.left = @ - 1]
    /\ UNCHANGED <<key, credit, dev, config, listed, run, past>>

\* then the rest, and export opens the file, which empties it.
Open ==
    /\ old.step = "read"
    /\ key' = Unusable
    /\ old' = [old EXCEPT !.step = "open"]
    /\ UNCHANGED <<credit, dev, config, listed, run, past>>

\* The write, which may fail or be cut off
Export ==
    /\ old.step = "open"
    /\ key' \in {key, Bundle(old.read, old.seed, old.folders)}
    /\ old' = [old EXCEPT !.step = "idle", !.read = None]
    /\ UNCHANGED <<credit, dev, config, listed, run, past>>

----------------------------------------------------------------------------
(* The restore. *)

\* Fault: the issuer is asked before the wallet of the key is in place.
StepsRecoverFirst == <<"join", "recover", "walk", "wallet", "init", "folders", "announce">>
\* Credit first: on a grid that asks for passes, a new directory is a paid write.
Steps == <<"join", "wallet", "recover", "walk", "init", "folders", "announce">>

After(step) == Steps[1 + (CHOOSE i \in DOMAIN Steps : Steps[i] = step)]
Continue == run' = [run EXCEPT !.step = After(@)]

\* A step raises, or the process is killed.
Stops ==
    /\ run # Idle
    /\ run' = Idle
    /\ UNCHANGED <<exporter, credit, dev, config, listed, past>>

\* on_import, and restore up to decode_recovery_file: a half-written key is refused.
Begin ==
    /\ run = Idle /\ tries < MaxTries
    /\ key.good
    /\ tries' = tries + 1
    /\ run' = [step |-> "join", key |-> key, author |-> tries + 1,
               todo |-> {}, pending |-> [f \in Folder |-> 0], asked |-> FALSE, failed |-> FALSE,
               at |-> 1, unknown |-> 0, since |-> Len(bought)]
    /\ due' = IF dev.wallet # None THEN due ELSE IF key.wallet = None THEN {} ELSE key.wallet
    /\ UNCHANGED <<exporter, credit, dev, config, listed, dirs>>

\* create_node and join_invite
Join ==
    /\ run.step = "join"
    /\ dev' = [dev EXCEPT !.node = TRUE]
    /\ Continue
    /\ UNCHANGED <<exporter, credit, config, listed, past>>

\* A wallet file that exists is never replaced, not even an empty one.
RestoreWallet ==
    /\ run.step = "wallet"
    /\ dev' = IF run.key.wallet # None /\ dev.wallet = None
              THEN [dev EXCEPT !.wallet = run.key.wallet]
              ELSE dev
    /\ Continue
    /\ UNCHANGED <<exporter, credit, config, listed, past>>

\* TopUpState.from_seed: a state file that is there stays, and its seed with it.
Seeded(seed) == IF seed = "none" THEN "key" ELSE seed

\* _recover_credit: the issuer of this device is asked for the vouchers of the seed that is there
\* now. It knows none of the key's if that is another seed, or the issuer another one.
TakeSeed ==
    /\ run.step = "recover" /\ run.key.seed
    /\ dev' = [dev EXCEPT !.seed = Seeded(@)]
    /\ \E same \in BOOLEAN :
          run' = [run EXCEPT !.step = After(@), !.asked = same /\ dev'.seed = "key"]
    /\ UNCHANGED <<exporter, credit, config, listed, past>>
NoSeed ==
    /\ run.step = "recover" /\ ~run.key.seed
    /\ Continue
    /\ UNCHANGED <<exporter, credit, dev, config, listed, past>>

\* TopUpClient.recover: the next voucher the issuer knows, unless too many it does not
\* know come before it.
Unknown == run.unknown + bought[run.at].missed
Finds == run.asked /\ run.at <= Len(bought) /\ Unknown < Gap

\* Fault: unknown_run goes on from one known voucher to the next.
KnownKeeps(unknown) == unknown
\* unknown_run, when one is known
Known(unknown) == 0

\* status, redeem and merge of one voucher
Collect ==
    /\ run.step = "walk" /\ Finds
    /\ LET tokens == IF dev.wallet = None THEN {} ELSE dev.wallet
           p == bought[run.at].pass
       IN dev' = [dev EXCEPT !.wallet = tokens \cup ({p} \ dev.parked)]
    /\ run' = [run EXCEPT !.at = @ + 1, !.unknown = Known(Unknown)]
    /\ UNCHANGED <<exporter, credit, config, listed, past>>

\* The walk ends and says nothing of what lies behind the gap;
WalkEnds ==
    /\ run.step = "walk" /\ ~Finds
    /\ run' = [run EXCEPT !.step = After(@), !.at = 1]
    /\ UNCHANGED <<exporter, credit, dev, config, listed, past>>
\* or an issuer that does not answer, or a wallet of another key, ends it: credit_error.
WalkFails ==
    /\ run.step = "walk"
    /\ run' = [run EXCEPT !.step = After(@), !.at = 1, !.failed = TRUE]
    /\ UNCHANGED <<exporter, credit, dev, config, listed, past>>

Configured == {f \in Folder : config[f] # None}

\* ensure_init: Magic Folder is set up once. A set-up that was cut off leaves a directory that
\* is not empty, which is an error from then on.
EnsureInit(after) ==
    /\ dev.magic # "part"
    /\ dev' = [dev EXCEPT !.magic = IF @ = "none" THEN after ELSE @]

\* Then come the folders that are not there yet by name,
Prepare ==
    /\ run.step = "init"
    /\ EnsureInit("ready")
    /\ run' = [run EXCEPT !.step = After(@),
                          !.todo = run.key.folders \ Configured]
    /\ UNCHANGED <<exporter, credit, config, listed, past>>
\* unless the process is killed in the middle of `magic-folder init`.
InitCut ==
    /\ run.step = "init" /\ dev.magic = "none"
    /\ EnsureInit("part")
    /\ run' = Idle
    /\ UNCHANGED <<exporter, credit, config, listed, past>>

Mkdir == dirs' = dirs + 1
With(f) == [config EXCEPT ![f] = Participant(run.author, dirs + 1)]

\* mkdir and create_folder_from_caps for one folder
MakeFolder(f, configs) ==
    /\ run.step = "folders" /\ f \in run.todo
    /\ Mkdir
    /\ config' \in configs
    /\ run' = [run EXCEPT !.todo = @ \ {f}, !.pending[f] = dirs']
    /\ UNCHANGED <<exporter, credit, dev, listed, due, tries>>

\* Fault: a folder that could not be written is announced with the others.
RestoreFolderOrNot(f) == MakeFolder(f, {config, With(f)})
RestoreFolder(f) == MakeFolder(f, {With(f)})

\* It stops between the two: nothing names the directory that was made.
Orphan ==
    /\ run.step = "folders" /\ run.todo # {}
    /\ Mkdir
    /\ run' = Idle
    /\ UNCHANGED <<exporter, credit, dev, config, listed, due, tries>>

\* ensure_running
StartSync ==
    /\ run.step = "folders" /\ run.todo = {}
    /\ Continue
    /\ UNCHANGED <<exporter, credit, dev, config, listed, past>>

Listing(f) == <<f, Participant(run.author, run.pending[f])>>

\* add_participant: it may be listed although the answer is an error (Stops follows).
Announce(f) ==
    /\ run.step = "announce" /\ run.pending[f] # 0
    /\ listed' = listed \cup {Listing(f)} /\ listed' # listed
    /\ UNCHANGED <<exporter, credit, dev, config, run, past>>

\* The RestoreResult
Finish ==
    /\ run.step = "announce" /\ \A f \in Folder : run.pending[f] # 0 => Listing(f) \in listed
    /\ run' = Idle
    /\ UNCHANGED <<exporter, credit, dev, config, listed, past>>

\* The device's own Tahoe spends; a pass that a node knows is parked there (module Spend).
Spends(p) ==
    /\ dev.node /\ dev.wallet # None /\ p \in dev.wallet
    /\ \/ /\ dev' = [dev EXCEPT !.wallet = @ \ {p}]
          /\ used' = used \cup {p}
       \/ /\ p \in used
          /\ dev' = [dev EXCEPT !.wallet = @ \ {p}, !.parked = @ \cup {p}]
          /\ UNCHANGED used
    /\ UNCHANGED <<exporter, bought, config, listed, run, past>>

Next ==
    \/ \E p \in Pass : Obtain(p) \/ OldSpends(p) \/ Spends(p)
    \/ \E f \in Folder : Share(f) \/ RestoreFolder(f) \/ Announce(f)
    \/ Quote \/ CollectWallet \/ Open \/ Export
    \/ Begin \/ Join \/ RestoreWallet \/ TakeSeed \/ NoSeed \/ Collect \/ WalkEnds \/ WalkFails
    \/ Prepare \/ InitCut \/ Orphan \/ StartSync
    \/ Finish \/ Stops

Spec == Init /\ [][Next]_vars

----------------------------------------------------------------------------
(* Properties. *)

\* Under the name and with the directory the other devices know this one by, it
\* really uploads: however many restores failed half way, each with a name and
\* directories of its own, none announces what the config does not hold
\* (recovery.py restore, "joins each collective as a new participant with a fresh
\* personal DMD").
AnnouncedAsConfigured == \A e \in listed : config[e[1]] = e[2]

Held == (IF dev.wallet = None THEN {} ELSE dev.wallet) \cup dev.parked \cup used

\* A restore that gets to its end on a device that had no wallet file has brought back the
\* wallet of the key, whatever earlier tries left and the walk has written meanwhile (recovery.py
\* restore: a wallet file that exists is never replaced).
WalletIsBack == [][Finish => due \subseteq Held]_vars

\* The vouchers of when the restore began that no gap cuts off
InReach(i) == i <= run.since /\ \A j \in 1 .. i : bought[j].missed < Gap

\* "credits bought after this export can be recovered from the issuer" (recovery.py
\* EXPORT_WARN), as far as the code goes: a restore that asked the issuer of the seed and ends
\* without an error about credit has with it, or knows spent, every pass the seed
\* had bought when it began, but those behind RECOVER_GAP lost quotes in a row. The old device
\* may buy and spend meanwhile, and this one spend what the walk brings.
CreditIsBack ==
    [][Finish /\ run.asked /\ ~run.failed
          => \A i \in DOMAIN bought : InReach(i) => bought[i].pass \in Held]_vars
=============================================================================
