# Leasegrid: specifications

TLA+ models of Leasegrid's paid storage rail, checked with TLC and, where a
result should hold for every size of the system, proved with TLAPS. Paths below
are paths of the repository.

## The system

A buyer pays a credit issuer in Monero and receives blind-signed *passes*
(tokens). A pass buys a lease of one GiB-share for thirty days on one storage
node of a Tahoe-LAFS grid. The desktop app (and a read/write Android client)
keep folders on that grid.

| component | code | state it keeps | operations | hard because |
|---|---|---|---|---|
| voucher store | `src/leasegrid_zkap/payment/store.py`, `policy.py` | one SQLite row per voucher, epochs, settled and exchanged passes | create_quote, observe, poll, redeem, settle, record_exchanges, insert/close epoch | the chain is read before the lock; rows survive restarts and price changes |
| issuer | `issuer.py`, `httpjson.py` | signing keys, policy | `/v0/quote`, `/v0/voucher`, `/v0/redeem`, `/v0/exchange`, `/v0/settlement`, `/v0/ledger`; the poller; rotate, burn | one thread per request, a poller thread, several commits per operation |
| chain watcher | `payment/chain.py`, `chain_walletrpc.py` | subaddresses, transfers | new_address, received | confirmations grow, reorganisations, RPC errors |
| top-up client | `payment/topup.py`, `leasegrid_sync/credit.py` | seed, counter, pending vouchers; the wallet file | quote, status, redeem, resume, recover, merge | several processes, lost replies, crashes between two files |
| spender | `spender.py`, `client.py` | wallet file, grants file, a lock | ensure_grant | a request may outlive the call; two files are saved one after the other |
| storage node | `storage_http.py`, `gate.py`, `spentset.py`, `plugin.py` | spent-set in memory and in its file, accepted epochs | spend, require_allocate, pull_keys | restarts, retries of spends it already knows |
| ejection | `eject.py` | missed probes, ejected nodes | consider, eject, admit, record_repair | probe before the lock |
| token cryptography | `crypto.py`, `rsa_bssa.py`, `r_bind.py` | none | blind, sign, unblind, bind | mathematics, not state |
| desktop app | `leasegrid_sync/app.py`, `backend.py`, `credit.py`, `recovery.py`, `servers.py`, `invite.py` | instance lock, handed invite, child processes, folders | start, hand over, join, quit | two starts at once, quitting while starting, process groups |
| Android app | `lg_write.py`, `lg_tahoe.py`, `ui/*.kt` | pending rows, the open session | put_file, remove_file, refresh | several servers without a transaction, a late result of an older request |

How they interact: the app (or `leasegrid-zkap topup`) asks the issuer for a
quote; the buyer pays the subaddress; the issuer's poller and its request
handlers fold what the chain shows into the voucher; the client redeems the
voucher for a signed batch and merges the passes into the wallet file; the Tahoe
client process, through its storage plugin, spends the oldest pass at a node
before a write; the node records the pass and lets the write through; nodes
hand spent passes back to the issuer (settlement).

What makes each part correct:

* issuer: never more tokens than were paid for by money that stays paid; one
  batch per voucher, ever; every payment becomes tokens;
* client: a paid voucher is collected; a pass is neither lost, doubled nor
  blocked behind a refused one;
* node: a write goes through only for a recorded pass, and what is recorded
  stays recorded;
* desktop and Android: one instance; no child left behind; an update is on the
  grid before it is shown as landed, and does not undo another's.

## Modules

| module | what it is |
|---|---|
| `Sale.tla` | the abstract promise of one purchase: funds only grow, one sale per voucher, within the funds |
| `Voucher.tla` | store, policy, chain, handler threads and poller of the issuer; implements `Sale` |
| `Ledger.tla` | what the issuer keeps after a sale: epochs, settlement, exchange, totals |
| `TopUp.tla` | top-up clients, their state file, the merge into the wallet, requests and the issuer's rows |
| `Spend.tla` | spender, wallet and grants files, network, spent-sets of the nodes |
| `Desktop.tla` | the processes on one Sync home: lock, hand-off, join, daemons, shutdown |
| `Roster.tla` | the storage servers of a home: book, `servers.yaml`, what Tahoe lists, the two lists shown |
| `Recovery.tla` | export of the recovery key and its restore on another device |
| `Directory.tla` | a shared folder on the grid as phones read and rewrite it, share by share |
| `Phone.tla` | the Android app around one folder: pending rows, sheet, uploads, the one grid job, the session |
| `MC*.tla` | instances for TLC (symmetry where it is used) |
| `VoucherProofs.tla`, `SpendProofs.tla`, `TopUpProofs.tla`, `LedgerProofs.tla`, `DesktopProofs.tla`, `RosterProofs.tla`, `RecoveryProofs.tla`, `PhoneProofs.tla` (also `Directory`'s) | the proofs |

They follow the path of a pass: `Voucher` signs what was paid, `TopUp` collects it into the
wallet, `Spend` takes it to a node, `Ledger` takes it back from there. A module that needs
a neighbour has as much of it as its own code can tell apart: `TopUp` has the answers of
`VoucherStore.redeem`, `Ledger` a purchase and a spend as one step each, `Phone` a put as look
and store (`Directory` is its inside).

Definitions whose comment begins with "Fault:" are not part of a specification.
Each is a plausible mistake in the code, put in place of the definition next to
it to see that a property notices.

### Voucher

`voucher[v]` is the row of the table, `None` before the quote. The fields are
those of the `Voucher` dataclass that decide anything; `price` is
`effective_price` (0 when unset), `batch` is `batch_hash` with
`tokens_issued`, `first_confirmed_at` is folded into `price`, which is set in the
same step. `Advance` is `advance()` branch by branch: `Unpaid`, `Pending`,
`Credited`, and the counts of an issued row.

The store's lock makes `observe`, `create_quote` and `redeem` single steps. What
is read outside the lock is a step of its own and stays in the thread's record
until used: the chain's answer (`Receive`, `PollReceive`), the open-quote count and
the issuing epoch (`Quote`), the issue window (`CheckIssuing`). The poller keeps
the clock of its start for every row of the pass, as `poll()` does. `Restart`
drops threads and poller, keeps the rows, and may come back with another price.

Money: an amount matters by its size and by which depth it has passed, so
`chain[v]` holds units per depth band: pool, mined, at the small depth, at the
large depth. `Mine` may bury part of a transfer, which stands for several
transfers of different age. `Reorg` takes back what is above the small depth: the
depths are chosen by the operator so that deeper ones do not happen, and that is
the assumption under which the issuer is safe. The clock is a window per voucher: quote
valid, grace, late.

### Spend

Passes are numbered in the order of the wallet file, so the file is `first..last`:
a spend pops the head, a top-up appends. Parked passes are `rejected`. The
passes of a recovered wallet come first (`recovered`), and some node may already
know them. `R` binds node and storage index; a request is a record with node,
slot and pass, and its being in `post` is its being on the way, with or without a
caller that still waits. A call holds the spender's lock and the wallet's file
lock from `Begin` to its end; the process may die anywhere (`Fails`), and the two
saves at the end are two steps. `book` is the spent-set in memory, `disk` the
file; `FlushFails` is the write that raises after memory was changed, and
`Restart` loads the file and pulls the keys again.

### TopUp

`file` is `credit-topup.json`, its seed left out: a handle is its number `n`
(`derive_vid` is injective), and the pending rows are the set of their handles.
`client[p]` is a process: the copy of the file its `TopUpClient` read when it was
made, and where it is in `quote()` or `redeem()`. Every `save()` of the code writes
that whole copy (`Save`). `alone` tells a poll of one voucher from `resume()`, which
has `rest` still to look at; the order of the rows is left open. Steps are cut at
each HTTP request and each file that is written, so a crash (`Fails`) falls between
any two of them: between counter and quote, between the issuer's signature and the
merge, between the merge and the save that drops the handle.

The passes of a batch are determined by seed, handle and index (`derive_tokens`), so a
batch is a handle and a size, and asking again for the same batch gives the same
passes. Under `rsa-bssa-v1` (the handles in `Rsa`) the passes are derived too, but what is sent
to be signed is blinded with fresh random numbers, so a second request never repeats the batch of the
first (`Repeats`), and the key is the issuer's one RSA key (`KeyOf`). `row[v]` is the part of `Voucher`'s row that the client can tell apart:
tokens owed, issued or not, and the epoch whose key signs. `Verdict` is
`VoucherStore.redeem` seen from outside (402, 409, 410, 400 with another size, or the
batch). `wallet.key` is `issuer-pubkey-id`. `told` (addresses a buyer has seen)
and `collected` (handles that were merged once) only serve the properties.
`Observe` lets the chain show any amount for an address that was shown, until a batch is issued;
`Spend` takes a pass out of the wallet for good or parks it; `Faucet` is the merge of faucet
passes, without the passes themselves, for what it does to the parked list.

### Ledger

`newest`, `issuing`, `burnt` are the rows of the epoch table by what their windows say, `keyed` the
issuer's `_epoch_keys`. `rotate()` commits three times (`CloseIssue`, `InsertEpoch`, `KeepKey`) and `burn()`
ends in a rotation when nothing issues any more; `admin` is where they are. `KeyFor` is the fallback to
the key of epoch 0 for an epoch whose key is not in memory yet, so a pass has an epoch and the
epoch of the key that really signed it, and a node takes it only when the two agree.
`Settle` is `store.settle` for the node that reports. The store is in autocommit mode, so each of its rows is a commit of
its own under the lock: nobody else sees a part of them, but a crash leaves one (`SettleCut`), and the report is
not confirmed then and may come again. A report has every pass of the node, and the one epoch its poster names. An exchange is the steps of its thread: each
pass looked up (`Check`), the sum (`Total`), the signatures (`Sign`), and the rows that are inserted one
by one with autocommit (`Record`, `RecordRaises`, and the part of `Restart`), so a duplicate or a crash
leaves a part of them. The holder is honest: it does not spend and exchange one pass at the
same time, but it may do so after an answer that was lost. It may name any burnt epoch, its passes' own or not, and give `W`
or leave it out: the code compares a `W` that is given, and only when the key of that epoch is in memory (`Matches`), so a pass
may be recorded under an epoch that is not its own. `PullKeys` takes what `/v0/keys` publishes (`Published`), or less.

### Desktop

A process is a window (`cli.main`, `run_app`) or a launch with `--join`, which hands its
invite over when the lock is held and joins by itself when it is free. `pc` is what the
thread comes back to, `at` which of its joins it is in, `stage` the next step of `shutdown()`. Qt
events arrive in the event loop and wherever the code calls `processEvents` (`Points`), so `Quit`
and `Receive` are enabled in the middle of a start and a join; what the thread does afterwards is what the code
does, which has no test of `_quitting` there. A daemon is the leader of a process group; `zombie` is
one that exited and is not reaped, `stray` what nobody refers to any more. `Term` and `Kill` are the two halves of
`reap_child` where there are process groups; its Windows branch, which reaps first, is left out. Listening and handing over may both fail, when the
endpoint or its directory is not this user's alone (`Cleared`, `Inspect`). `exec` tells whether `app.quit()` does anything.

### Roster

`pins`, `forgotten`, `archive` are the three lists of `servers.json`, `yaml` the pins in `servers.yaml`
(or `theirs`: written by hand and left alone), `node.static` what the running Tahoe has read. A key is a
server (announced) or a digest of its link (pinned). `Listed`, `Taken` and `Lists` are the row
matching of `roster()`: each pin takes the first row with its key or its name. An operation is
asked on the rows as they were painted, saves the book, writes the file and restarts the node, in that order;
between any two of these the app may die, the node restart or the introducer say something else.
The code filters a list by a test; here `Without` takes out the one pin the test is true of, as
a key is in the pins or the archive once (proved). `Pinned` is the end of both ways to bring a server back.
`gone` only serves `NotUsedUntilAdded`.

### Recovery

`old` exports: the wallet is read first, then the rest, then the file is opened (emptied) and
written, while its Tahoe goes on spending. `run` is a restore, whose `step` follows `Steps`; it may stop
after each, and the person begins again with the same or a later key. The participant's name differs
between tries (`author`) and so do the directories it makes. `config` is what Magic Folder has on this device,
`listed` the participants added to the collectives. `bought` has the vouchers of the seed in the order of their numbers, each
with the count of numbers before it that the issuer does not know (quotes that never arrived). The walk of `TopUpClient.recover`
is one step for each voucher (`Collect`): it may end in an error (`WalkFails`) anywhere, and it ends without one (`WalkEnds`) behind
`RECOVER_GAP` unknown numbers in a row, or at once when the device has another seed or asks another issuer than the seed's
(`TakeSeed`: the address is the device's own). `EnsureInit` is the set-up of Magic Folder, whose subprocess may be killed (`InitCut`).

### Directory

`slots[d][i]` is the version share `i` of a directory has, or `NoShare`; any `K` equal ones decode, and `Read` is
what `lg_tahoe.py` makes of any others: too few raise, a mixture decodes to nothing, except that an
empty last share is an empty directory. A put looks at the folder, uploads the file, reads the
folder again and fixes the entries (`Load`, `Inner`, `LinkIn`), then locates the shares that exist
by then (`Locate`) and pushes them one after the other, each tested against what was located. Every
read may miss a server, every push be lost or its reply be, and the app may die between two of them.
For a Magic Folder the phone makes a directory of its own, links it, and empties the root
of raw files. `Base` is what a rewrite takes a share for: as located, or not there.
`kept` and `wins` only serve the properties. The names (`DirectorySpec`, `InitFolder`, `NextWrite`,
`dirVars`) are not those of `Phone`, as `PhoneProofs` extends both modules.

### Phone

Every callback of the main thread is one action: launching a job takes the ticket (`GridRun`), its end runs
the `finally` whether or not it is still current, and Python goes on on the grid. A put is read, look, store
and an answer; cancelling it only drops the answer (`live`). `rows`, `local`, `sheet` are the board, the app's copy
and the question on the screen; there is one sheet, so a question may push another off it.
`Theirs` is what another participant adds. What the screen of the folder shows of a name (`FileCard`, `PendingCard`) and of the question
(`Asked`) decides which callbacks there are; a question stays unanswered while another screen is on. A stopped job leaves in one of two ways:
its coroutine is cancelled and an answer of Python is dropped (`Unwind`), or the call under it throws, which is delivered all the same
(`ThrowsLate`). `retry` is the banner of a failed removal, whose Retry launches the removal again without asking.
`landed` and `crossed` serve the properties; `CrossRow` marks a
removal of a name whose add has its row still, after which nothing is promised of that row.

## Runs

| run | question | bounds, and why they suffice |
|---|---|---|
| `voucher_safety` | can stale observations, depth thresholds, two threads and reorganisations make the issuer sign twice, or for money it does not keep, or move a fixed price? | one voucher (rows are independent but for the poll order and the quote limit), two handlers and the poller, two batches of one token, two prices, two units of money in one payment or two, a large amount of two, one reorganisation. The constraint `OneAtATimeOnceLarge` explores a state with two units on the address further only while one request or one poll is under way, the price is that of the quote, and no reorganisation has happened; the overlaps it leaves out are those the run has below the large amount, and the theorems of `VoucherProofs` have no such limit. Rotation is in `voucher_live` |
| `voucher_live` | is a paid voucher issued to a buyer who keeps asking? | one of each, one rotation |
| `spend_safety` | crashes, losses, late requests and restarts against wallet, grants and spent-sets | two nodes and two slots (same node other slot, other node), two passes, two requests in flight |
| `spend_live` | does a refused pass or a failed write block the queue? | one node, two slots, two passes, one failed write |
| `spend_twice` (violated) | does one pass buy one lease? | two nodes |
| `topup_one` | does one client collect all it is owed, once, whatever is cut off? | two quotes of up to two tokens, one of each scheme (one is ahead of the other, an RSA one may be stuck; a batch can be resized), one rotation, one crash or lost request (two would only repeat it: a client keeps nothing but the file) |
| `ledger_safety` | can concurrent exchanges, reports, conflicts and restarts sign twice or lose a claim? | two nodes (a conflict), two exchange threads, two passes, two epochs, one report on its way (a later one has more passes), one fault |
| `desktop_safety` | closing in the middle of a start or a join, with a second process about | two processes, two of the launches that find the home free (one after another, or a window and a headless join at once), two invites (one replaces the other), one crash or daemon that exits |
| `roster_safety` | does a disconnected server come back by a name, a crash or a restart? | two servers and two nicknames (same or different), three operations (disconnect, add, and one across them), two changes at the introducer |
| `recovery_safety` | what is left of folders and credit when restores are cut off and repeated, with both devices spending? | two folders (one done, one not), two passes (one in the key, one later), one export (both tries read one key; the proofs have any number of exports), two tries, and a gap of two: a walk with none, with one and with too many unknown numbers in front of a voucher, and two short gaps that only together are too long |
| `directory_safety` | does one fault at any point lose a folder, a landed file, or a rewrite? | 2 of 3 shares, two phones, two names (one the desktop has too), three operations in sequence or two that overlap, one fault |
| `phone_safety` | late answers, stopped jobs and retries against what the user was shown | one name that is picked, which the other participant may add too, and one for "keep both" (whose clash would be that of the first over again), one pick, two puts (a retry), two jobs (an older and a current one) |

Deadlock is not looked for in `Ledger`, `Desktop`, `Roster`, `Recovery`, `Directory` and `Phone`:
their bounds on operations, launches and faults bring every behaviour to a rest.

What the properties are about is said above each of them. `Directory`, `Phone` and `Recovery` have no
type invariant among them; the shapes of their state are in the comments of `VARIABLES` and in the record sets
there.

The violated property states a sentence of the repository. `PassBuysOneLease` (`spender.py:7`): after a
timeout the pass goes back to the wallet and may be spent at another node although the
first recorded it.

### Divergences met while modelling

Behaviour of the models that differs from a sentence of the repository, without a run of its
own; each is an action of the module named.

* `Voucher`: a second payment that carries the sum over `large_amount_piconero` raises the depth
  required of the first one too, and a payable voucher falls back (`store.py:112`).
* `Voucher`: once the epoch of a quote stops issuing, its voucher answers 410 forever; no
  code re-attributes the money (`store.py:3`, `docs/07-payment.md:170`).
* `Voucher`: an answer of the chain read before the payment and applied after the price was
  fixed unsets the price (`docs/07-payment.md:90`).
* `TopUp`: the 410 of a closed voucher ends `resume()` each time, in front of a voucher
  that is paid and open (`credit.py:815`); after a crash between the merge and the save that drops
  the handle, spent passes are merged again (`topup.py:271` says the merge is idempotent).
* `TopUp`: an RSA batch that was issued while its answer was lost is asked for with another blinding, so
  the issuer answers 409 each time and the passes are never collected (`topup.py:10`: "a restored client
  can replay every blinded batch it ever sent and get the issuer's cached signatures back").
* `Ledger`: a request that fails halfway, or whose answer is lost, has used its passes up
  (`docs/07-payment.md:245` lets an honest holder exchange them). A `t` without `W` is signed and counted under the epoch the
  request names, and a report files all passes of a node under one epoch; what the totals then leave of an epoch need not
  cover the unused passes of honest holders, who are answered that it exceeds the remaining issuance (`issuer.py:450`).
* `Phone`: "Nothing is saved and the phone stays on Welcome" (`docs/design/61-ANDROID-INVITE-JOINLINK.md:22`, `AppModel.kt:149`) holds when the stopped
  import was cancelled, not when the call under it throws after the stop: `learn()` makes a null of the exception, and `finishImport` saves and
  goes to the folders (`AppModel.kt:770`, `SessionFlow.kt:75`).
* `Phone`: the one sheet is replaced by whatever question comes next, another add's, a removal or a discard (`FolderWrite.kt:177`, `:261`); the add that was
  asked about has then neither row nor question. A file of a name whose row is pending is copied over the copy of that row when
  it is picked (`AppModel.kt:332`); Cancel of the question, or the row landing, deletes the copy under the other.
* `Phone`: a picked recovery file moves to the import screen whatever is shown by then (`MainActivity.kt:191`). `confirmRemove` removes from the folder
  that is open when it is confirmed, not the one it was asked in (`AppModel.kt:406`); the model has one folder and cannot tell.
* `Directory`: with a server that was away, an older empty share can be the last one read, and a
  folder with files is shown as empty (`lg_tahoe.py:640`; `docs/design/55-P4-ANDROID-B-JOURNEY.md:66`). Two phones
  that put the same name at the same time may both land, the later over the earlier
  (`docs/design/58-P4-ANDROID-B-NON-GOALS.md:21`). A file named like a participant's link ("phone") is shown and can be removed, and
  `remove_file` then drops the link from the root, and with it every file of that participant
  (`lg_write.py:1185`); TLC finds the trace when `FileName` has "phone" and `NamesAssumption` is left out.
* `Desktop`: an invite that fills an emptied field leaves an older question open, whose Yes
  puts the older invite back (`app.py:3187`). A close inside `processEvents` before `exec_` releases
  the lock and then enters the event loop. A Magic Folder that is started again while the first does not answer
  yet is left behind (`backend.py:1690`). An invite that was "sent" to a window that begins to quit is
  dropped (`app.py:555`). A headless join that loses `create_node` to a window removes the window's
  directory if it came too late to see it (`backend.py:1211`). The probe of `--join` holds the lock for a moment, and a
  real start at that moment says "already running".
* `Roster`: nodes started by Sync share the nickname `leasegrid-sync`, so disconnecting one by its row
  hides the others, and Add of one by name restores another's archived pin. Disconnect of an announced
  server does not keep Tahoe from using it.
* `Recovery`: "credits bought after this export can be recovered from the issuer" (`recovery.py:53`) ends without an error and without the passes
  behind twenty unknown numbers in a row (`topup.py:466`), with a device whose issuer is another one (`recovery.py:448`), and with a device that has a seed. A
  `magic-folder init` that was killed leaves a directory that every later restore refuses (`backend.py:1625`).
* `Recovery`: a retry skips folders that were created and never announced
  (`recovery.py:544`); a folder with the same name counts as "already here"; a wallet file, even an empty
  one, keeps the key's wallet out; a device with a seed of its own ignores the key's; an
  export to the same path empties the earlier key before it writes.

Some properties hold of one process only, and say so: with two, `PaidIsPending`
and `HandlesAreFresh` fail, because the later save of an older copy drops the pending row and the
counter of the other process. Nothing in the repository promises more than one
process, so this is recorded as a hazard and not as a finding. `WalletIsIssued`
is proved for any number.

### Fairness

`Spec` of each module has none; safety never relies on it. `Voucher!FairSpec`
assumes that a request being served ends (weak fairness of each thread), and, for
the liveness properties, a buyer that asks again (the app asks at every start and
every look at the dialog) and a service that does not fail at the same point every time
(strong fairness of the steps of such a request). Nothing is assumed of the poller.
`Spend!FairSpec` assumes that a call ends (the HTTP timeout), that a request that
stays on its way is served, and that a write which is tried again and again
is not cut off at the same point each time.
`TopUp!FairSpec` assumes that Credit is opened again and again (`Load`, and strong
fairness of `Resume` for each process as a whole: which voucher comes first is not
assumed), that a dialog is closed at some time, that an operation under way goes on or times
out, and that the issuer answers what reaches it. Crashes and losses are finitely many
(`MaxFaults`). Collection is claimed only of vouchers for which the chain has settled
down, whose epoch still issues, and which are quoted under ristretto (see the divergences).
`Phone!FairSpec` assumes of each name that the main thread, when a put of its row has an answer or
has been silent for 45 seconds, comes to run one of these steps; nothing is assumed of Python or the
grid. `Ledger`, `Desktop`, `Roster`, `Recovery` and `Directory` state safety only.

## What is proved

For every number of vouchers, handlers, batches, prices, nodes, slots, passes, handles,
epochs, requests, processes, invites, servers, folders, restores, names, jobs, phones and shares:

* `VoucherProofs`: `Typing`, `Funding` (`IssuedIsFunded`), `Coverage`
  (`ObservationsAreCovered`), `Implementation` (`KeepsPromise`: every step of `Voucher` is a
  step of `Sale` or a stutter) and `PriceLock` (`PriceStaysLocked`). The inductive invariant
  is `TypeOK` with the coverage of observations in flight: buried money only
  grows, so any observation, however old, shows at most what there is, and
  therefore what is owed when the row turns payable is covered when it is
  issued. `CreditedFacts` is the arithmetic (the quotient times the price is at
  most the amount), `ChainGrows` the monotonicity.
* `SpendProofs`: `Typing`, `Distinct` (`GrantsAreDistinct`), `Honoured`
  (`GrantIsHonoured` while no write of a spent-set failed), `NothingLost` (`NoPassIsLost`, likewise)
  and `Kept` (`SpentIsKept`). The invariant adds that memory and file of
  a spent-set agree while no write failed, that the pass of a call is still at
  or after the head of the file until the wallet is saved, and that a call that was answered ok
  is on record.
* `TopUpProofs`: `Typing`, `Issued` (`WalletIsIssued`) for any number of
  processes; `Fresh` (`HandlesAreFresh`) and `Remembered` (`PaidIsPending`) for one.
  `TInv` adds to the types that a positive status answer came from a row and
  that a shown address has one; that rows only grow (`Grows`) then carries what a process knows across
  every step of the issuer. `OneInv` adds that a loaded client's copy is the
  file, that a handle being quoted is pending, that one the issuer did not know was never shown,
  and that one about to be dropped was merged. The first of these is what a
  second process breaks.

* `LedgerProofs`: `Typing`, `OneExchange` (`SignedOnce`) and `Claims` (`ClaimsAreKept`). The invariant adds that what is on its way (a request, a
  report) names signed passes only, that nothing of a burnt epoch issues in whatever step
  `rotate` and `burn` are (`AdminAt`), that a claim has found a row, and that a pass of an
  answered request is in the table of exchanged ones: the last, with the key of that table, is
  why two requests for one pass are not both answered.
* `DesktopProofs`: `Typing`, `OneAtATime` (`OneWindow`), `CleanRelease`
  (`ReleasedClean`), `NobodyLeft` (`StopLeavesNobody`) and `Handed`
  (`HandedIsShown`). The invariant is a fact about each process (`Local`): one that is not there
  has nothing, a join without a window never enters a window's code and has the lock only
  while it probes, and each step of `shutdown()` has done those before it, even though
  it may run in the middle of a start. `Elsewhere` is the argument that a step of one process leaves the
  others' facts alone.
* `RosterProofs`: `Loaded` (`LoadedIsBook`). The invariant says for each step of an operation
  which of the book, `servers.yaml` and the node agree, and that no node runs between its stop
  and its start. `Typed` (`TypeOK`) and `NotUsed` (`NotUsedUntilAdded`) need the other invariant,
  `RosterInv`, which says where a key can be: once in the pins or once in the archive (`BookInv`),
  with a row that can be asked about or restored (`RestInv`); and that a key that was disconnected is
  forgotten, and not pinned, until an operation brings it back (`GoneInv`). The last is what crashes and
  restarts between book, file and node leave alone, because only the book is asked.
* `RecoveryProofs`: `Announced` (`AnnouncedAsConfigured`), `WalletBack` (`WalletIsBack`) and `CreditBack` (`CreditIsBack`). The
  invariant adds to the types that the folders still to do are not configured, those to be
  announced are configured as they will be (`FoldersInStep`), that the walk has with the device every voucher it
  has passed and ends behind all in reach (`WalkIsWhole`), and that the wallet that is due is in the
  key until it is in place (`DueIsHere`). `WalletBack` needs the order of `Steps`: a walk in front of the wallet would make the wallet file.
* `PhoneProofs` on `Phone`: `Progress` (`BusyIsCurrent`) and `OneAnswer` (`OneLivePut`). Each callback is shown to move the jobs in one of five
  ways and the puts in one of four; the invariant then needs only that tickets differ and that none is
  ahead of the newest. `Landed` (`LandedIsOnGrid`) rests on `BoardInv` and `GridInv`: which bytes the puts of a name carry, and
  what an answer says of the grid by the time it is taken up.
* `PhoneProofs` on `Directory`: `OneRewriteWins` (`OneWinner`), for any phones, faults and `K`, `N` with
  `N < 2K`. The invariant (`SlotInv`) says that no operation writes a share twice, that a share a rewrite
  placed no longer is what that rewrite located, and that two rewrites of a directory from the
  same located shares have placed different shares. Two sets of `K` of `N < 2K` shares meet, so both
  cannot be told that `K` were placed. `FolderOutlivesAFault` (`StaysRecoverable`) is for `N = 2K - 1` and
  operations one after the other, any number of them. Not every directory is whole all the time: one that a phone
  publishes is not yet, and one whose publication failed never will be. So `RecInv` speaks of those something leads to
  (`Reached`: a link in a share or in the entries of a rewrite, what a phone remembers, what an
  operation is about to link). Each of them is of one version while there was no fault and has `K` shares of one since,
  or a rewrite is under way in it, and then `Underway` says share by share what is new and what as located, but
  for the one share the fault disturbed. `TornIsWhole` is the counting: of `2K - 1` shares a rewrite that stops anywhere
  leaves `K` new or `K` old.
* `LandedStays` (`LandedIsKept`) of `Directory`, likewise for `N = 2K - 1`, adds `ToldInv` to `RecInv`: it holds as long as no two
  operations have overlapped and there was at most one fault. A folder is plain or a collective (`Mode`) and stays what it
  is, so the files are at one place (`Homes`): the root of a plain folder, or the directory of the phone that joined a
  collective, next to the desktop's own. `Keeps` says of a set of entries that it agrees with everything that was told, and
  `ToldInv` says it of what is stored, of what an operation is about to store (`Writing`), and of what a read can make of a
  directory that is between two versions. The last is what the property needs to be inductive: the server the fault kept
  a share from has an older version, a later read may decode nothing but that share if it is empty, and an
  operation that trusts it rewrites the directory as if it had been empty. So `KeptIn` says that where a directory may read as empty,
  everything that was told agrees with an empty one. `Undisturbed` and `Older` are the two ways a writer finds the shares: all as it
  located them, the one fault being spent; or some changed by the fault, and then every version there keeps what was told.

The assumptions are those of the modules: prices and bounds are naturals (some
positive), `None` is no other value (in `Recovery`, no set of passes and no participant; in `Phone`,
no row); there are finitely many servers and no nickname is a node id or a digest of a link (`Roster`, whose
book keeps both in one list); more than half of the shares are needed, the root is neither a new directory nor the
desktop's, the marks for "nothing was told" and "it is gone" are no contents, and what users add are files, under other names than the
links of a collective (`NamesAssumption` of `Directory`; with a file named like one, `LandedIsKept` does not hold, see the divergences). `Fresh` and `Remembered` also assume a single client. The bounds of the models (`MaxPaid`, `Passes`,
`MaxHandles`, `MaxInFlight`, `MaxReorgs`, `MaxEpoch`, `MaxFaults`, `MaxRuns`, `MaxMail`, `MaxOps`,
`MaxTries` and the others) are arbitrary naturals in the proofs.

Only model-checked: liveness (`PaidIsIssuedWhileOpen`, `WriteIsPaidFor`,
`CollectedUnlessBlocked`, `SendingSettles`), as liveness under fairness is out of the prover's
reach. Every other property of the passing runs is a theorem. `StaysRecoverable` and `LandedIsKept` are proved where
`N = 2K - 1`; the first holds only there: with 3 of 4 shares, a rewrite cut off in the middle leaves 2 and 2.

## Not modelled, and why

Blind signatures, hashes and the byte layout of `R`, recovery files and CBOR are
data; a batch, a request binding and a signature are values. Tahoe, Foolscap, Magic Folder,
magic-wormhole, Qt, Monero and SQLite's own crash safety are external: what they do to the code is
an action of the module that meets them. Widgets, wording, logging, packaging and lab scripts carry no
state that a property is about. A backup of the issuer is one call of SQLite; restoring
it is a procedure without code.

Left out of components that are modelled in part: the faucet and the fake-chain handlers of the issuer;
the size check of the gate; what `recover()` of the top-up client writes to its state file (the walk is in `Recovery`); the disk offer and the `tahoe.cfg` edits
of the desktop's backend; invites over the wormhole; sub-folders and the torn save of the session on
Android. The hazards without a property are listed with the reason in `PROJECT.json`.

## Plan

Done: `Voucher` (with `Sale`), `Spend`, `TopUp`, `Ledger`, `Desktop`, `Roster`, `Recovery`,
`Directory` and `Phone`, and the proofs above. What remains, in this order:

1. `TopUp`: the pending rows and the counter that `recover()` leaves, next to quotes of the same device.
2. `Phone` with two folders, for what `confirmRemove` and the sheet do across them.
3. `Spend`: the set of ejected nodes, and the gate's size check.
4. The pure algorithms (FEC, CBOR, netstrings) against reference definitions over bounded
   inputs.
