---------------------------- MODULE RecoveryProofs ----------------------------
(***************************************************************************)
(* What holds of Recovery for any folders, passes, exports and restores.    *)
(*                                                                         *)
(* The inductive invariant adds to the types what a restore knows of its    *)
(* own steps: the folders still to do are not configured, the ones to       *)
(* announce are configured as they will be, the device has what lies before *)
(* the place the walk is at, and what no gap cuts off once the walk has     *)
(* ended, and it has the wallet of the key once it has a wallet.            *)
(***************************************************************************)
EXTENDS Recovery, TLAPS

Wallets == (SUBSET Pass) \cup {None}
Keys == [good : BOOLEAN, wallet : Wallets, seed : BOOLEAN, folders : SUBSET Folder]
Participants == [author : Nat, dmd : Nat]
StepNames == {"join", "wallet", "recover", "walk", "init", "folders", "announce"}

Vouchers == [pass : Pass, missed : Nat]

Runs == [step : StepNames, key : Keys, author : Nat, todo : SUBSET Folder,
         pending : [Folder -> Nat], asked : BOOLEAN, failed : BOOLEAN,
         at : Nat \ {0}, unknown : Nat, since : Nat]

Devices == [node : BOOLEAN, wallet : Wallets, parked : SUBSET Pass,
            seed : {"none", "own", "key"}, magic : {"none", "part", "ready"}]

Types ==
    /\ old \in [wallet : Wallets, seed : BOOLEAN, folders : SUBSET Folder, read : Wallets,
                step : {"idle", "read", "open"}, left : Nat]
    /\ key \in Keys
    /\ bought \in Seq(Vouchers) /\ used \subseteq Pass
    /\ dev \in Devices
    /\ config \in [Folder -> {None} \cup Participants]
    /\ listed \subseteq Folder \X Participants
    /\ run \in {Idle} \cup Runs
    /\ due \subseteq Pass /\ dirs \in Nat /\ tries \in Nat

\* What a restore does is in step with the config.
FoldersInStep ==
    run # Idle => /\ \A f \in Folder : run.pending[f] # 0 =>
                        config[f] = Participant(run.author, run.pending[f])
                  /\ \A f \in run.todo : config[f] = None

\* The walk starts at the first voucher, has what it passed, and ends behind all in reach.
WalkIsWhole ==
    run # Idle =>
        /\ run.since <= Len(bought)
        /\ run.step \in {"join", "wallet", "recover"} => run.at = 1 /\ run.unknown = 0
        /\ run.step = "walk" => /\ run.unknown = 0
                                /\ run.at <= Len(bought) + 1
                                /\ \A i \in 1 .. Len(bought) : i < run.at => bought[i].pass \in Held
        /\ run.step \in {"init", "folders", "announce"} /\ run.asked /\ ~run.failed
              => \A i \in 1 .. Len(bought) : InReach(i) => bought[i].pass \in Held

\* The wallet that is due is in the key until it is in place.
DueIsHere ==
    /\ dev.wallet # None => due \subseteq Held
    /\ run # Idle /\ dev.wallet = None =>
          due = IF run.step \in {"join", "wallet"} /\ run.key.wallet # None
                THEN run.key.wallet ELSE {}

Inv == Types /\ FoldersInStep /\ AnnouncedAsConfigured /\ WalkIsWhole /\ DueIsHere

----------------------------------------------------------------------------

\* The steps come one after the other.
LEMMA AfterFacts ==
    /\ After("join") = "wallet" /\ After("wallet") = "recover" /\ After("recover") = "walk"
    /\ After("walk") = "init" /\ After("init") = "folders" /\ After("folders") = "announce"
<1>1. /\ DOMAIN Steps = 1..7
      /\ Steps[1] = "join" /\ Steps[2] = "wallet" /\ Steps[3] = "recover" /\ Steps[4] = "walk"
      /\ Steps[5] = "init" /\ Steps[6] = "folders" /\ Steps[7] = "announce"
  BY DEF Steps
<1>2. ASSUME NEW i \in 1..6
      PROVE  After(Steps[i]) = Steps[i + 1]
  <2> DEFINE c == CHOOSE j \in DOMAIN Steps : Steps[j] = Steps[i]
  <2>1. \E j \in DOMAIN Steps : Steps[j] = Steps[i]
    BY <1>1
  <2>2. c \in DOMAIN Steps /\ Steps[c] = Steps[i]
    BY <2>1
  <2>3. c = i
    <3> HIDE DEF c
    <3>1. c \in 1..7 /\ i \in 1..7
      BY <1>1, <2>2
    <3>2. ASSUME NEW j \in 1..7, NEW k \in 1..7, Steps[j] = Steps[k]
          PROVE  j = k
      BY <1>1, <3>2
    <3> QED BY <2>2, <3>1, <3>2
  <2>4. After(Steps[i]) = Steps[1 + c]
    BY DEF After
  <2>5. 1 + i = i + 1
    OBVIOUS
  <2> QED BY <2>3, <2>4, <2>5
<1>3. /\ After(Steps[1]) = Steps[2] /\ After(Steps[2]) = Steps[3] /\ After(Steps[3]) = Steps[4]
      /\ After(Steps[4]) = Steps[5] /\ After(Steps[5]) = Steps[6] /\ After(Steps[6]) = Steps[7]
  BY <1>2
<1> QED BY <1>1, <1>3

LEMMA InitInv == Init => Inv
<1> SUFFICES ASSUME Init PROVE Inv
  OBVIOUS
<1>1. /\ old \in [wallet : Wallets, seed : BOOLEAN, folders : SUBSET Folder, read : Wallets,
                  step : {"idle", "read", "open"}, left : Nat]
      /\ key \in Keys
  BY RecoveryAssumption DEF Init, Wallets, Keys, Unusable
<1>2. dev \in Devices
  BY DEF Init, Wallets, Devices
<1>3. config \in [Folder -> {None} \cup Participants]
  <2>1. Own \in Participants
    BY DEF Own, Participant, Participants
  <2> QED BY <2>1 DEF Init
<1>4. Types
  BY <1>1, <1>2, <1>3 DEF Init, Types
<1>5. FoldersInStep /\ AnnouncedAsConfigured /\ WalkIsWhole /\ DueIsHere
  BY DEF Init, FoldersInStep, AnnouncedAsConfigured, WalkIsWhole, DueIsHere
<1> QED BY <1>4, <1>5 DEF Inv

\* The exporting device touches none of what the restoring one has.
LEMMA ExporterStep ==
    ASSUME Inv,
           \/ \E p \in Pass : Obtain(p) \/ OldSpends(p)
           \/ \E f \in Folder : Share(f)
           \/ Quote \/ CollectWallet \/ Open \/ Export
    PROVE  Inv'
<1>0. Types
  BY DEF Inv
<1> DEFINE Olds == [wallet : Wallets, seed : BOOLEAN, folders : SUBSET Folder, read : Wallets,
                    step : {"idle", "read", "open"}, left : Nat]
           Exported == /\ old' \in Olds /\ key' \in Keys
                       /\ bought' \in Seq(Vouchers) /\ Len(bought) <= Len(bought')
                       /\ \A i \in 1 .. Len(bought) : bought'[i] = bought[i]
                       /\ used \subseteq used' /\ used' \subseteq Pass
<1>0a. ASSUME UNCHANGED bought
       PROVE  /\ bought' \in Seq(Vouchers) /\ Len(bought) <= Len(bought')
              /\ \A i \in 1 .. Len(bought) : bought'[i] = bought[i]
  <2>1. bought \in Seq(Vouchers)
    BY <1>0 DEF Types
  <2>2. Len(bought) \in Nat
    BY <2>1
  <2> QED BY <1>0a, <2>1, <2>2
<1>1. ASSUME NEW p \in Pass, Obtain(p) PROVE Exported
  <2>1. (IF old.wallet = None THEN {} ELSE old.wallet) \cup {p} \in Wallets
    BY <1>0 DEF Types, Wallets
  <2>2. old' \in Olds
    BY <1>0, <1>1, <2>1 DEF Obtain, Types
  <2>3. CASE UNCHANGED bought
    BY <1>0, <1>0a, <1>1, <2>2, <2>3 DEF Obtain, Types
  <2>4. ASSUME NEW missed \in 0 .. Gap, bought' = Append(bought, Voucher(p, missed))
        PROVE  Exported
    <3>1. Voucher(p, missed) \in Vouchers /\ bought \in Seq(Vouchers)
      BY <1>0, RecoveryAssumption DEF Voucher, Vouchers, Types
    <3>2. /\ bought' \in Seq(Vouchers) /\ Len(bought) <= Len(bought')
          /\ \A i \in 1 .. Len(bought) : bought'[i] = bought[i]
      BY <2>4, <3>1
    <3> QED BY <1>0, <1>1, <2>2, <3>2 DEF Obtain, Types
  <2> QED BY <1>1, <2>3, <2>4 DEF Obtain
<1>2. ASSUME NEW p \in Pass, OldSpends(p) PROVE Exported
  <2>1. old.wallet \ {p} \in Wallets
    BY <1>0, <1>2 DEF Types, Wallets, OldSpends
  <2> QED BY <1>0, <1>0a, <1>2, <2>1 DEF OldSpends, Types
<1>3. ASSUME NEW f \in Folder, Share(f) PROVE Exported
  BY <1>0, <1>0a, <1>3 DEF Share, Types, credit
<1>3a. ASSUME Quote PROVE Exported
  BY <1>0, <1>0a, <1>3a DEF Quote, Types, credit
<1>4. ASSUME CollectWallet PROVE Exported
  <2>1. old.left - 1 \in Nat
    BY <1>0, <1>4 DEF CollectWallet, Exports, Types
  <2> QED BY <1>0, <1>0a, <1>4, <2>1 DEF CollectWallet, Types, credit
<1>5. ASSUME Open PROVE Exported
  BY <1>0, <1>0a, <1>5 DEF Open, Types, credit, Unusable, Keys, Wallets
<1>6. ASSUME Export PROVE Exported
  <2>1. Bundle(old.read, old.seed, old.folders) \in Keys
    BY <1>0 DEF Types, Bundle, Keys
  <2>2. old' \in Olds
    BY <1>0, <1>6 DEF Export, Types, Wallets
  <2> QED BY <1>0, <1>0a, <1>6, <2>1, <2>2 DEF Export, Types, credit
<1>7. Exported /\ UNCHANGED <<dev, config, listed, run, past>>
  BY <1>1, <1>2, <1>3, <1>4, <1>5, <1>6, <1>3a
     DEF Obtain, OldSpends, Share, Quote, CollectWallet, Open, Export
<1>8. Types' /\ Held \subseteq Held' /\ Len(bought) \in Nat /\ Len(bought') \in Nat
  BY <1>0, <1>7 DEF Types, past, Held
<1>9. WalkIsWhole'
  <2>1. CASE run = Idle
    BY <1>7, <2>1 DEF WalkIsWhole
  <2>2. CASE run # Idle
    <3>1. run \in Runs /\ run' = run /\ run.since \in Nat /\ run.since <= Len(bought)
          /\ run.at \in Nat
      BY <1>0, <1>7, <2>2 DEF Inv, WalkIsWhole, Types, Runs
    <3>2. ASSUME NEW i \in 1 .. Len(bought'), InReach(i)'
          PROVE  i \in 1 .. Len(bought) /\ InReach(i)
      BY <1>7, <1>8, <3>1, <3>2 DEF InReach
    <3>3. ASSUME run.step \in {"init", "folders", "announce"}, run.asked, ~run.failed,
                 NEW i \in 1 .. Len(bought'), InReach(i)'
          PROVE  bought'[i].pass \in Held'
      BY <1>7, <1>8, <2>2, <3>2, <3>3 DEF Inv, WalkIsWhole
    <3>4. run.step = "walk" => run.at <= Len(bought) + 1
      BY <2>2 DEF Inv, WalkIsWhole
    <3>5. ASSUME run.step = "walk", NEW i \in 1 .. Len(bought'), i < run.at
          PROVE  bought'[i].pass \in Held'
      BY <1>7, <1>8, <2>2, <3>1, <3>4, <3>5 DEF Inv, WalkIsWhole
    <3> QED BY <1>7, <1>8, <2>2, <3>1, <3>3, <3>4, <3>5 DEF Inv, WalkIsWhole
  <2> QED BY <2>1, <2>2
<1> QED
  BY <1>7, <1>8, <1>9
     DEF Inv, FoldersInStep, AnnouncedAsConfigured, DueIsHere, past

LEMMA RunFacts ==
    ASSUME Types
    PROVE  /\ run.step \in StepNames => run \in Runs
           /\ run \in Runs => run # Idle
<1>1. Idle.step \notin StepNames
  BY DEF Idle, StepNames
<1> QED BY <1>1 DEF Types, Runs

LEMMA Lengths == ASSUME Types PROVE bought \in Seq(Vouchers) /\ Len(bought) \in Nat
<1>1. bought \in Seq(Vouchers)
  BY DEF Types
<1> QED BY <1>1

\* A step that is not the walk's leaves behind it what the walk brought.
LEMMA WalkStays ==
    ASSUME Inv, Held \subseteq Held', UNCHANGED bought,
           \/ UNCHANGED run
           \/ /\ run.step \in {"init", "folders", "announce"}
              /\ run'.step \in {"init", "folders", "announce"} /\ run # Idle
              /\ run'.since = run.since /\ run'.asked = run.asked /\ run'.failed = run.failed
    PROVE  WalkIsWhole'
<1>1. run'.since = run.since => \A i \in 1 .. Len(bought) : InReach(i)' => InReach(i)
  BY DEF InReach
<1>2. CASE UNCHANGED run
  BY <1>1, <1>2 DEF Inv, WalkIsWhole
<1>3. CASE ~UNCHANGED run
  <2>1. run'.step \notin {"join", "wallet", "recover", "walk"}
    BY <1>3
  <2> QED BY <1>1, <1>3, <2>1 DEF Inv, WalkIsWhole
<1> QED BY <1>2, <1>3

\* The end of a restore, by itself or not, changes nothing it has done.
LEMMA EndStep ==
    ASSUME Inv, Stops \/ Finish
    PROVE  Inv'
<1>1. run' = Idle /\ UNCHANGED <<exporter, credit, dev, config, listed, past>>
  BY DEF Stops, Finish
<1>2. Types'
  BY <1>1 DEF Inv, Types, exporter, credit, past
<1> QED
  BY <1>1, <1>2 DEF Inv, FoldersInStep, AnnouncedAsConfigured, WalkIsWhole, DueIsHere, Held,
                    exporter, credit, past

LEMMA OrphanStep ==
    ASSUME Inv, Orphan
    PROVE  Inv'
<1>1. /\ run' = Idle /\ dirs' = dirs + 1
      /\ UNCHANGED <<exporter, credit, dev, config, listed, due, tries>>
  BY DEF Orphan, Mkdir
<1>2. Types'
  BY <1>1 DEF Inv, Types, exporter, credit
<1> QED
  BY <1>1, <1>2 DEF Inv, FoldersInStep, AnnouncedAsConfigured, WalkIsWhole, DueIsHere, Held,
                    exporter, credit

LEMMA BeginStep ==
    ASSUME Inv, Begin
    PROVE  Inv'
<1>1. /\ run = Idle /\ run'.step = "join" /\ run'.key = key /\ run'.since = Len(bought)
      /\ run'.at = 1 /\ run'.unknown = 0
      /\ run'.todo = {} /\ run'.pending = [f \in Folder |-> 0]
      /\ due' = (IF dev.wallet # None THEN due ELSE IF key.wallet = None THEN {} ELSE key.wallet)
      /\ UNCHANGED <<exporter, credit, dev, config, listed, dirs>>
  BY DEF Begin
<1>2. run' \in Runs /\ tries' \in Nat /\ due' \subseteq Pass
  <2>1. tries + 1 \in Nat /\ key \in Keys /\ Len(bought) \in Nat /\ due \subseteq Pass
    BY DEF Inv, Types
  <2>2. key.wallet = None \/ key.wallet \subseteq Pass
    BY <2>1 DEF Keys, Wallets
  <2> QED BY <2>1, <2>2 DEF Begin, Runs, StepNames
<1>3. Types'
  BY <1>1, <1>2 DEF Inv, Types, exporter, credit
<1>4. FoldersInStep' /\ AnnouncedAsConfigured' /\ WalkIsWhole'
  BY <1>1 DEF Inv, FoldersInStep, AnnouncedAsConfigured, WalkIsWhole, credit
<1>5. DueIsHere'
  <2>1. run' # Idle
    BY <1>2 DEF Runs, Idle, StepNames
  <2> QED BY <1>1, <2>1 DEF Inv, DueIsHere, Held, credit
<1> QED BY <1>3, <1>4, <1>5 DEF Inv

LEMMA JoinStep ==
    ASSUME Inv, Join
    PROVE  Inv'
<1>1. /\ run.step = "join" /\ run \in Runs /\ run' = [run EXCEPT !.step = "wallet"]
      /\ dev' = [dev EXCEPT !.node = TRUE]
      /\ UNCHANGED <<exporter, credit, config, listed, past>>
  BY AfterFacts, RunFacts DEF Join, Continue, Inv, StepNames
<1>2. run' \in Runs
  BY <1>1 DEF Runs, StepNames
<1>3. Types'
  BY <1>1, <1>2 DEF Inv, Types, Devices, exporter, credit, past
<1>4. /\ dev'.wallet = dev.wallet /\ dev'.parked = dev.parked /\ dev'.seed = dev.seed
      /\ run'.step = "wallet" /\ run'.key = run.key /\ run'.since = run.since
      /\ run'.pending = run.pending /\ run'.todo = run.todo /\ run'.author = run.author
      /\ run # Idle
  BY <1>1, RunFacts DEF Inv, Types, Runs
<1> QED
  BY <1>1, <1>3, <1>4 DEF Inv, FoldersInStep, AnnouncedAsConfigured, WalkIsWhole, DueIsHere,
                          Held, credit, past

LEMMA WalletStep ==
    ASSUME Inv, RestoreWallet
    PROVE  Inv'
<1>1. /\ run.step = "wallet" /\ run \in Runs /\ run' = [run EXCEPT !.step = "recover"]
      /\ UNCHANGED <<exporter, credit, config, listed, past>>
  BY AfterFacts, RunFacts DEF RestoreWallet, Continue, Inv, StepNames
<1>2. run' \in Runs /\ run # Idle
  BY <1>1, RunFacts DEF Inv, Runs, StepNames
<1>3. /\ dev'.wallet = IF run.key.wallet # None /\ dev.wallet = None
                       THEN run.key.wallet ELSE dev.wallet
      /\ dev'.parked = dev.parked /\ dev'.seed = dev.seed /\ dev'.node = dev.node
      /\ dev' = [node |-> dev'.node, wallet |-> dev'.wallet, parked |-> dev'.parked,
                 seed |-> dev'.seed, magic |-> dev'.magic]
      /\ dev'.magic = dev.magic
  BY DEF RestoreWallet, Inv, Types, Devices
<1>4. dev'.wallet \in Wallets
  BY <1>1, <1>3 DEF Inv, Types, Devices, Runs, Keys
<1>5. Types'
  BY <1>1, <1>2, <1>3, <1>4 DEF Inv, Types, Devices, exporter, credit, past
<1>6. /\ run'.step = "recover" /\ run'.key = run.key /\ run'.since = run.since
      /\ run'.pending = run.pending /\ run'.todo = run.todo /\ run'.author = run.author
  BY <1>1 DEF Runs
<1>7. FoldersInStep' /\ AnnouncedAsConfigured' /\ WalkIsWhole'
  BY <1>1, <1>2, <1>6 DEF Inv, FoldersInStep, AnnouncedAsConfigured, WalkIsWhole, credit
<1>8. DueIsHere'
  BY <1>1, <1>2, <1>3, <1>6 DEF Inv, DueIsHere, Held, credit, past
<1> QED BY <1>5, <1>7, <1>8 DEF Inv

LEMMA SeedStep ==
    ASSUME Inv, TakeSeed \/ NoSeed
    PROVE  Inv'
<1>1. /\ run.step = "recover" /\ run \in Runs /\ run # Idle
      /\ UNCHANGED <<exporter, credit, config, listed, past>>
  BY RunFacts DEF TakeSeed, NoSeed, Inv, StepNames
<1>2. /\ dev' = [dev EXCEPT !.seed = dev'.seed] /\ dev'.seed \in {"none", "own", "key"}
      /\ dev.seed \in {"none", "own", "key"} /\ dev' \in Devices
      /\ dev'.wallet = dev.wallet /\ dev'.parked = dev.parked
  BY DEF TakeSeed, NoSeed, Seeded, Inv, Types, Devices
<1>3. PICK asked \in BOOLEAN : run' = [run EXCEPT !.step = "walk", !.asked = asked]
  <2>1. CASE NoSeed
    <3>1. run' = [run EXCEPT !.step = "walk", !.asked = run.asked]
      BY <1>1, <2>1, AfterFacts DEF NoSeed, Continue, Runs
    <3> QED BY <1>1, <3>1 DEF Runs
  <2>2. CASE TakeSeed
    BY <1>1, <2>2, AfterFacts DEF TakeSeed
  <2> QED BY <2>1, <2>2
<1>4. /\ run'.step = "walk" /\ run'.key = run.key /\ run'.since = run.since
      /\ run'.pending = run.pending /\ run'.todo = run.todo /\ run'.author = run.author
      /\ run'.at = run.at /\ run'.unknown = run.unknown /\ run' \in Runs
  BY <1>1, <1>3 DEF Runs, StepNames
<1>5. Types' /\ Held' = Held /\ run' # Idle
  BY <1>1, <1>2, <1>4 DEF Inv, Types, Held, exporter, credit, past, Runs, Idle, StepNames
<1>6. WalkIsWhole'
  BY <1>1, <1>4, <1>5 DEF Inv, WalkIsWhole, credit
<1> QED
  BY <1>1, <1>2, <1>4, <1>5, <1>6
     DEF Inv, FoldersInStep, AnnouncedAsConfigured, DueIsHere, past

LEMMA CollectStep ==
    ASSUME Inv, Collect
    PROVE  Inv'
<1> DEFINE tokens == IF dev.wallet = None THEN {} ELSE dev.wallet
           p == bought[run.at].pass
<1>1. /\ run.step = "walk" /\ run \in Runs /\ run # Idle
      /\ run.at \in Nat \ {0} /\ run.at <= Len(bought) /\ Len(bought) \in Nat
      /\ bought \in Seq(Vouchers)
      /\ dev' = [dev EXCEPT !.wallet = tokens \cup ({p} \ dev.parked)]
      /\ run' = [run EXCEPT !.at = @ + 1, !.unknown = 0]
      /\ UNCHANGED <<exporter, credit, config, listed, past>>
  BY RunFacts, Lengths DEF Collect, Finds, Known, Inv, StepNames, Runs
<1>2. p \in Pass
  <2>1. bought[run.at] \in Vouchers
    BY <1>1
  <2> QED BY <2>1 DEF Vouchers
<1>3. /\ run'.step = "walk" /\ run'.key = run.key /\ run'.since = run.since
      /\ run'.pending = run.pending /\ run'.todo = run.todo /\ run'.author = run.author
      /\ run'.at = run.at + 1 /\ run'.unknown = 0 /\ run' \in Runs /\ run' # Idle
  <2>1. run.at + 1 \in Nat \ {0} /\ 0 \in Nat
    BY <1>1
  <2>2. run' \in Runs
    BY <1>1, <2>1 DEF Runs
  <2> QED BY <1>1, <2>2, RunFacts DEF Runs, Idle, StepNames
<1>4. /\ dev.wallet \in Wallets /\ dev.parked \subseteq Pass /\ dev.node \in BOOLEAN
      /\ dev.seed \in {"none", "own", "key"} /\ dev.magic \in {"none", "part", "ready"}
      /\ dev' = [node |-> dev.node, wallet |-> dev'.wallet, parked |-> dev.parked,
                 seed |-> dev.seed, magic |-> dev.magic]
      /\ dev'.wallet = tokens \cup ({p} \ dev.parked)
  BY <1>1 DEF Inv, Types, Devices
<1>5. dev'.wallet \in SUBSET Pass /\ dev'.wallet # None
  BY <1>2, <1>4, NoneAssumption DEF Wallets
<1>6. Types'
  BY <1>1, <1>3, <1>4, <1>5 DEF Inv, Types, Devices, Wallets, exporter, credit, past
<1>7. Held \subseteq Held' /\ p \in Held'
  <2>1. used' = used /\ dev'.parked = dev.parked
    BY <1>1, <1>4 DEF credit
  <2> QED BY <1>4, <1>5, <2>1 DEF Held
<1>8. WalkIsWhole'
  <2>1. ASSUME NEW i \in 1 .. Len(bought), i < run.at + 1
        PROVE  bought[i].pass \in Held'
    <3>1. CASE i < run.at
      BY <1>1, <1>7, <3>1 DEF Inv, WalkIsWhole
    <3>2. CASE i = run.at
      BY <1>7, <3>2
    <3> QED BY <1>1, <2>1, <3>1, <3>2
  <2> QED BY <1>1, <1>3, <2>1 DEF Inv, WalkIsWhole, credit
<1>9. DueIsHere'
  <2>1. dev.wallet = None => due = {}
    BY <1>1 DEF Inv, DueIsHere
  <2> QED BY <1>1, <1>5, <1>7, <2>1 DEF Inv, DueIsHere, past
<1> QED
  BY <1>1, <1>3, <1>6, <1>8, <1>9 DEF Inv, FoldersInStep, AnnouncedAsConfigured

LEMMA WalkStep ==
    ASSUME Inv, WalkEnds \/ WalkFails
    PROVE  Inv'
<1>1. /\ run.step = "walk" /\ run \in Runs /\ run # Idle
      /\ UNCHANGED <<exporter, credit, dev, config, listed, past>>
      /\ Len(bought) \in Nat /\ run.since <= Len(bought)
      /\ run.at \in Nat \ {0} /\ run.unknown = 0 /\ bought \in Seq(Vouchers)
  BY RunFacts, Lengths DEF WalkEnds, WalkFails, Inv, StepNames, WalkIsWhole, Runs
<1>2. PICK failed \in BOOLEAN :
        /\ run' = [run EXCEPT !.step = "init", !.at = 1, !.failed = failed]
        /\ ~failed => ~Finds
  <2>1. CASE WalkEnds
    <3>1. run' = [run EXCEPT !.step = "init", !.at = 1, !.failed = run.failed] /\ ~Finds
      BY <1>1, <2>1, AfterFacts DEF WalkEnds, Runs
    <3> QED BY <1>1, <3>1 DEF Runs
  <2>2. CASE WalkFails
    BY <1>1, <2>2, AfterFacts DEF WalkFails
  <2> QED BY <2>1, <2>2
<1>3. /\ run'.step = "init" /\ run'.key = run.key /\ run'.since = run.since
      /\ run'.pending = run.pending /\ run'.todo = run.todo /\ run'.author = run.author
      /\ run'.asked = run.asked /\ run'.failed = failed /\ run' \in Runs /\ run' # Idle
  <2>1. 1 \in Nat \ {0} /\ "init" \in StepNames
    BY DEF StepNames
  <2>2. run' \in Runs
    BY <1>1, <1>2, <2>1 DEF Runs
  <2> QED BY <1>1, <1>2, <2>2 DEF Runs, Idle, StepNames
<1>4. Types' /\ Held' = Held
  BY <1>1, <1>3 DEF Inv, Types, Held, exporter, credit, past
<1>5. ASSUME run.asked, ~failed, NEW i \in 1 .. Len(bought), InReach(i)
      PROVE  bought[i].pass \in Held
  <2>1. ~(run.at <= Len(bought) /\ bought[run.at].missed < Gap)
    <3>1. ASSUME run.at <= Len(bought)
          PROVE  Unknown = bought[run.at].missed
      <4>1. bought[run.at] \in Vouchers
        BY <1>1, <3>1
      <4> QED BY <1>1, <4>1 DEF Unknown, Vouchers
    <3> QED BY <1>2, <1>5, <3>1 DEF Finds
  <2>2. ~(run.at \in 1 .. i)
    BY <1>1, <1>5, <2>1 DEF InReach
  <2>3. i < run.at
    BY <1>1, <2>2
  <2> QED BY <1>1, <2>3 DEF Inv, WalkIsWhole
<1>6. WalkIsWhole'
  <2>1. \A i \in 1 .. Len(bought) : InReach(i)' => InReach(i)
    BY <1>1, <1>3 DEF InReach, credit
  <2> QED BY <1>1, <1>3, <1>4, <1>5, <2>1 DEF WalkIsWhole, credit
<1> QED
  BY <1>1, <1>3, <1>4, <1>6 DEF Inv, FoldersInStep, AnnouncedAsConfigured, DueIsHere, past

LEMMA PrepareStep ==
    ASSUME Inv, Prepare
    PROVE  Inv'
<1>1. /\ run.step = "init" /\ run \in Runs /\ run # Idle
      /\ run' = [run EXCEPT !.step = "folders", !.todo = run.key.folders \ Configured]
      /\ UNCHANGED <<exporter, credit, config, listed, past>>
      /\ dev' \in Devices /\ dev'.wallet = dev.wallet /\ Held' = Held
  <2>1. /\ dev' \in Devices /\ dev'.wallet = dev.wallet /\ dev'.parked = dev.parked
    BY DEF Prepare, EnsureInit, Inv, Types, Devices
  <2> QED BY <2>1, RunFacts, AfterFacts DEF Prepare, Inv, StepNames, Held, credit
<1>2. run.key.folders \ Configured \in SUBSET Folder
  BY <1>1 DEF Runs, Keys
<1>3. run' \in Runs
  BY <1>1, <1>2 DEF Runs, StepNames
<1>4. /\ run'.step = "folders" /\ run'.key = run.key /\ run'.since = run.since
      /\ run'.pending = run.pending /\ run'.todo = run.key.folders \ Configured
      /\ run'.author = run.author /\ run'.asked = run.asked /\ run'.failed = run.failed
  BY <1>1 DEF Runs
<1>5. Types'
  BY <1>1, <1>3 DEF Inv, Types, exporter, credit, past
<1>6. FoldersInStep'
  <2>1. \A f \in run'.todo : config[f] = None
    BY <1>2, <1>4 DEF Configured
  <2> QED BY <1>1, <1>4, <2>1 DEF Inv, FoldersInStep
<1>7. WalkIsWhole'
  BY <1>1, <1>4, WalkStays DEF credit
<1> QED
  BY <1>1, <1>4, <1>5, <1>6, <1>7
     DEF Inv, AnnouncedAsConfigured, DueIsHere, past

\* A set-up of Magic Folder that is cut off ends the restore, and nothing else.
LEMMA CutStep ==
    ASSUME Inv, InitCut
    PROVE  Inv'
<1>1. run' = Idle /\ UNCHANGED <<exporter, credit, config, listed, past>>
  BY DEF InitCut
<1>2. dev' \in Devices /\ dev'.wallet = dev.wallet /\ dev'.parked = dev.parked
  BY DEF InitCut, EnsureInit, Inv, Types, Devices
<1>3. Types' /\ Held' = Held
  BY <1>1, <1>2 DEF Inv, Types, Held, exporter, credit, past
<1> QED
  BY <1>1, <1>2, <1>3 DEF Inv, FoldersInStep, AnnouncedAsConfigured, WalkIsWhole, DueIsHere, past

LEMMA FolderStep ==
    ASSUME Inv, NEW f \in Folder, RestoreFolder(f)
    PROVE  Inv'
<1>1. /\ run.step = "folders" /\ run \in Runs /\ run # Idle /\ f \in run.todo
      /\ dirs' = dirs + 1 /\ config' = With(f)
      /\ run' = [run EXCEPT !.todo = @ \ {f}, !.pending[f] = dirs']
      /\ UNCHANGED <<exporter, credit, dev, listed, due, tries>>
  BY RunFacts DEF RestoreFolder, MakeFolder, Mkdir, Inv, StepNames
<1>2. /\ dirs \in Nat /\ dirs' \in Nat /\ run.author \in Nat
      /\ config \in [Folder -> {None} \cup Participants]
  BY <1>1 DEF Inv, Types, Runs
<1>3. dirs' # 0
  BY <1>1, <1>2
<1>4. /\ run'.pending = [run.pending EXCEPT ![f] = dirs'] /\ run'.todo = run.todo \ {f}
      /\ run'.step = "folders" /\ run'.key = run.key /\ run'.since = run.since
      /\ run'.author = run.author /\ run'.asked = run.asked /\ run'.failed = run.failed
  BY <1>1 DEF Runs
<1>5. run' \in Runs
  BY <1>1, <1>2 DEF Runs
<1>6. Participant(run.author, dirs') \in Participants
  BY <1>2 DEF Participant, Participants
<1>7. config' = [config EXCEPT ![f] = Participant(run.author, dirs')]
  BY <1>1 DEF With
<1>8. Types'
  BY <1>1, <1>2, <1>5, <1>6, <1>7 DEF Inv, Types, exporter, credit
<1>9. config[f] = None
  BY <1>1 DEF Inv, FoldersInStep
<1>10. FoldersInStep'
  <2>1. ASSUME NEW g \in Folder, run'.pending[g] # 0
        PROVE  config'[g] = Participant(run.author, run'.pending[g])
    <3>1. CASE g = f
      BY <1>1, <1>2, <1>4, <1>7, <3>1 DEF Runs
    <3>2. CASE g # f
      BY <1>1, <1>2, <1>4, <1>7, <2>1, <3>2 DEF Inv, FoldersInStep, Runs
    <3> QED BY <3>1, <3>2
  <2>2. \A g \in run.todo \ {f} : config'[g] = None
    BY <1>1, <1>2, <1>7 DEF Inv, FoldersInStep, Runs
  <2> QED BY <1>4, <2>1, <2>2 DEF FoldersInStep
<1>11. AnnouncedAsConfigured'
  <2>1. \A e \in listed : e[1] \in Folder /\ e[2] \in Participants /\ config[e[1]] = e[2]
    BY DEF Inv, Types, AnnouncedAsConfigured
  <2>2. \A e \in listed : e[1] # f
    BY <1>9, <2>1, NoneAssumption DEF Participants
  <2> QED BY <1>1, <1>2, <1>7, <2>1, <2>2 DEF AnnouncedAsConfigured
<1>12. WalkIsWhole' /\ DueIsHere'
  BY <1>1, <1>4, WalkStays DEF Inv, DueIsHere, Held, credit
<1> QED BY <1>8, <1>10, <1>11, <1>12 DEF Inv

LEMMA StartSyncStep ==
    ASSUME Inv, StartSync
    PROVE  Inv'
<1>1. /\ run.step = "folders" /\ run \in Runs /\ run # Idle
      /\ run' = [run EXCEPT !.step = "announce"]
      /\ UNCHANGED <<exporter, credit, dev, config, listed, past>>
  BY RunFacts, AfterFacts DEF StartSync, Continue, Inv, StepNames
<1>2. run' \in Runs
  BY <1>1 DEF Runs, StepNames
<1>3. /\ run'.step = "announce" /\ run'.key = run.key /\ run'.since = run.since
      /\ run'.pending = run.pending /\ run'.todo = run.todo /\ run'.author = run.author
      /\ run'.asked = run.asked /\ run'.failed = run.failed
  BY <1>1 DEF Runs
<1>4. Types'
  BY <1>1, <1>2 DEF Inv, Types, exporter, credit, past
<1>5. WalkIsWhole'
  BY <1>1, <1>3, WalkStays DEF Held, credit
<1> QED
  BY <1>1, <1>3, <1>4, <1>5 DEF Inv, FoldersInStep, AnnouncedAsConfigured, DueIsHere,
                               Held, credit, past

LEMMA AnnounceStep ==
    ASSUME Inv, NEW f \in Folder, Announce(f)
    PROVE  Inv'
<1>1. /\ run.step = "announce" /\ run \in Runs /\ run # Idle /\ run.pending[f] # 0
      /\ listed' = listed \cup {<<f, Participant(run.author, run.pending[f])>>}
      /\ UNCHANGED <<exporter, credit, dev, config, run, past>>
  BY RunFacts DEF Announce, Listing, Inv, StepNames
<1>2. Participant(run.author, run.pending[f]) \in Participants
  BY <1>1 DEF Runs, Participant, Participants
<1>3. Types'
  BY <1>1, <1>2 DEF Inv, Types, exporter, credit, past
<1>4. AnnouncedAsConfigured'
  BY <1>1 DEF Inv, AnnouncedAsConfigured, FoldersInStep
<1>5. WalkIsWhole'
  BY <1>1, WalkStays DEF Held, credit
<1> QED
  BY <1>1, <1>3, <1>4, <1>5 DEF Inv, FoldersInStep, DueIsHere, Held, credit, past

LEMMA SpendStep ==
    ASSUME Inv, NEW p \in Pass, Spends(p)
    PROVE  Inv'
<1>1. /\ dev.wallet # None
      /\ UNCHANGED <<exporter, bought, config, listed, run, past>>
      /\ used \subseteq used' /\ used' \subseteq Pass
      /\ dev'.wallet = dev.wallet \ {p} /\ dev'.seed = dev.seed /\ dev'.node = dev.node
      /\ dev' = [node |-> dev'.node, wallet |-> dev'.wallet, parked |-> dev'.parked,
                 seed |-> dev'.seed, magic |-> dev'.magic]
      /\ dev'.magic = dev.magic
      /\ dev'.parked \in {dev.parked, dev.parked \cup {p}} /\ dev.parked \subseteq Pass
      /\ p \in used' \cup dev'.parked
  BY DEF Spends, Inv, Types, Devices
<1>2. dev.wallet \subseteq Pass /\ dev'.wallet \subseteq Pass /\ dev'.wallet # None
  BY <1>1, NoneAssumption DEF Inv, Types, Devices, Wallets
<1>3. Types'
  BY <1>1, <1>2 DEF Inv, Types, Devices, Wallets, exporter, past
<1>4. Held \subseteq Held'
  BY <1>1, <1>2 DEF Held
<1>5. WalkIsWhole'
  BY <1>1, <1>4, WalkStays
<1> QED
  BY <1>1, <1>2, <1>3, <1>4, <1>5
     DEF Inv, FoldersInStep, AnnouncedAsConfigured, DueIsHere, past

LEMMA Invariance == Spec => []Inv
<1>1. ASSUME Inv, [Next]_vars
      PROVE  Inv'
  <2>1. CASE UNCHANGED vars
    <3>1. Types' /\ UNCHANGED Held
      BY <1>1, <2>1 DEF vars, exporter, credit, past, Inv, Types, Held
    <3>2. UNCHANGED <<bought, dev, config, listed, run, due>>
      BY <2>1 DEF vars, credit, past
    <3>3. FoldersInStep'
      BY <1>1, <3>2 DEF Inv, FoldersInStep
    <3>4. AnnouncedAsConfigured'
      BY <1>1, <3>2 DEF Inv, AnnouncedAsConfigured
    <3>5. WalkIsWhole' /\ DueIsHere'
      BY <1>1, <3>1, <3>2, WalkStays DEF Inv, DueIsHere
    <3> QED BY <3>1, <3>3, <3>4, <3>5 DEF Inv
  <2>2. CASE Next
    BY <1>1, <2>2, ExporterStep, EndStep, OrphanStep, BeginStep, JoinStep, WalletStep,
       SeedStep, CollectStep, WalkStep, PrepareStep, CutStep, FolderStep, StartSyncStep, AnnounceStep, SpendStep
       DEF Next
  <2> QED BY <1>1, <2>1, <2>2
<1> QED BY <1>1, InitInv, PTL DEF Spec

\* However many restores stopped half way, the device is announced to each folder
\* under the name and with the directory its config has for it.
THEOREM Announced == Spec => []AnnouncedAsConfigured
<1>1. Inv => AnnouncedAsConfigured
  BY DEF Inv
<1> QED BY <1>1, Invariance, PTL

\* A restore that gets to its end has brought back the wallet of the key if there was no
\* wallet file before, although the walk of the seed writes one too (recovery.py restore).
THEOREM WalletBack == Spec => WalletIsBack
<1> DEFINE Kept == Finish => due \subseteq Held
<1>1. Inv => Kept
  <2> SUFFICES ASSUME Inv, Finish PROVE due \subseteq Held
    OBVIOUS
  <2>1. run.step = "announce" /\ run # Idle
    BY DEF Finish, Idle
  <2> QED BY <2>1 DEF Inv, DueIsHere
<1>2. Inv /\ [Next]_vars => [Kept]_vars
  BY <1>1
<1>3. WalletIsBack <=> [][Kept]_vars
  BY DEF WalletIsBack
<1> HIDE DEF Kept
<1> QED BY <1>2, <1>3, Invariance, PTL DEF Spec

\* The walk, voucher by voucher, misses nothing that RECOVER_GAP unknown ones in a row do not
\* cut off, while the old device goes on buying and both go on spending (topup.py recover).
THEOREM CreditBack == Spec => CreditIsBack
<1> DEFINE Kept == Finish /\ run.asked /\ ~run.failed
                      => \A i \in DOMAIN bought : InReach(i) => bought[i].pass \in Held
<1>1. Inv => Kept
  <2> SUFFICES ASSUME Inv, Finish, run.asked, ~run.failed, NEW i \in DOMAIN bought, InReach(i)
               PROVE  bought[i].pass \in Held
    OBVIOUS
  <2>1. run.step = "announce" /\ run # Idle
    BY DEF Finish, Idle
  <2>2. i \in 1 .. Len(bought)
    BY DEF Inv, Types
  <2> QED BY <2>1, <2>2 DEF Inv, WalkIsWhole
<1>2. Inv /\ [Next]_vars => [Kept]_vars
  BY <1>1
<1>3. CreditIsBack <=> [][Kept]_vars
  BY DEF CreditIsBack
<1> HIDE DEF Kept
<1> QED BY <1>2, <1>3, Invariance, PTL DEF Spec
=============================================================================
