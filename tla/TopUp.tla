------------------------------- MODULE TopUp -------------------------------
(***************************************************************************)
(* Buying credit from the client's side (payment/topup.py, credit.py): a   *)
(* quote under a handle derived from the seed and a counter, a payment     *)
(* outside the program, and the collection of the batch into the wallet.   *)
(*                                                                         *)
(* The state file (counter and pending handles) is read once, when a       *)
(* TopUpClient is made, and written whole at every save.  The desktop app  *)
(* makes a client per operation, all on one thread; the command line keeps *)
(* one while it waits.  Nothing locks this file, so several processes are  *)
(* several clients.  The wallet file is locked for each merge.             *)
(*                                                                         *)
(* The issuer is what Voucher shows of it: a row owes a number of tokens   *)
(* that its chain decides, until a batch is issued.  The tokens of a batch *)
(* follow from seed, handle and index, so a batch is a handle and a size.  *)
(* Under rsa-bssa-v1 the passes do, but what is sent to be signed is drawn  *)
(* anew at each request.                                                   *)
(***************************************************************************)
EXTENDS Integers, FiniteSets

CONSTANTS
    Client,         \* processes that may hold a TopUpClient
    Rsa,            \* handles quoted under rsa-bssa-v1, not ristretto-v0
    MaxHandles,     \* bound: quotes asked for
    MaxTokens,      \* bound: tokens a voucher owes
    MaxInFlight,    \* bound: requests on their way at one time
    MaxEpoch,       \* bound: epochs opened after epoch 0
    MaxFaults,      \* bound: calls cut off and requests lost
    None            \* the absent value

ASSUME BoundsAssumption ==
    /\ MaxHandles \in Nat /\ MaxTokens \in Nat /\ MaxEpoch \in Nat
    /\ MaxInFlight \in Nat \ {0} /\ MaxFaults \in Nat

VARIABLES
    file,       \* the state file: quote-counter and pending
    client,     \* per process: its copy of the file and what it is doing
    sent,       \* requests on their way to the issuer
    row,        \* row[v]: the issuer's voucher, or None
    epoch,      \* the epoch the issuer signs for
    told,       \* handles whose address a buyer was shown
    wallet,     \* the wallet file
    collected,  \* handles whose batch was merged into the wallet
    faults      \* calls cut off and requests lost so far (bounds the model)

vars == <<file, client, sent, row, epoch, told, wallet, collected, faults>>
issuer == <<row, epoch>>
buyer == <<told, wallet, collected>>

Handle == 0..(MaxHandles - 1)
Epoch == 0..MaxEpoch
RsaKey == MaxEpoch + 1
Key == Epoch \cup {RsaKey}
Pass == Handle \X (1..MaxTokens)
BatchOf(v, k) == {v} \X (1..k)

File == [counter : 0..MaxHandles, pending : SUBSET Handle]

Row == [owed : 0..MaxTokens, issued : BOOLEAN, epoch : Epoch]

ASSUME AbsentAssumption == None \notin Int /\ None \notin Row

Wallet == [key : Key \cup {None},       \* issuer-pubkey-id
           tokens : SUBSET Pass,
           rejected : SUBSET Pass]

Request == [kind : {"quote", "redeem"}, from : Client, vid : Handle,
            size : 0..MaxTokens]

Process == [pc   : {"off", "ready", "quote", "quoted", "wait", "status",
                    "answered", "redeem", "signed", "merged"},
            copy : File,
            vid  : Handle \cup {None},
            size : (0..MaxTokens) \cup {None},  \* None: unknown to the issuer
            again : BOOLEAN,            \* the batch was resized already
            rest : SUBSET Handle,       \* what resume() has still to look at
            alone : BOOLEAN]            \* one voucher, not resume()
Off == [pc |-> "off", copy |-> [counter |-> 0, pending |-> {}], vid |-> None,
        size |-> None, again |-> FALSE, rest |-> {}, alone |-> FALSE]

ClientOK(p) ==
    LET c == client[p] IN
    /\ c.pc \in {"quote", "quoted", "wait", "status", "answered", "redeem",
                 "signed", "merged"} => c.vid # None
    /\ c.pc \in {"redeem", "signed", "merged"} => c.size \in 1..MaxTokens
    /\ c.pc \in {"quoted", "redeem", "signed", "merged"} => row[c.vid] # None
    /\ c.pc \in {"signed", "merged"} =>
           row[c.vid].issued /\ row[c.vid].owed = c.size

TypeOK ==
    /\ file \in File
    /\ client \in [Client -> Process]
    /\ sent \subseteq Request
    /\ row \in [Handle -> Row \cup {None}]
    /\ epoch \in Epoch
    /\ told \subseteq Handle /\ collected \subseteq Handle
    /\ wallet \in Wallet
    /\ faults \in 0..MaxFaults
    /\ \A p \in Client : ClientOK(p)
    /\ \A q \in sent : q.kind = "redeem" => q.size >= 1 /\ row[q.vid] # None

-----------------------------------------------------------------------------
(* Pieces of a client's step.                                              *)

\* Process p is now c.
Becomes(p, c) == client' = [client EXCEPT ![p] = c]

\* It looks at v next.
LookAt(c, v, left, single) ==
    [c EXCEPT !.pc = "status", !.vid = v, !.rest = left, !.alone = single,
              !.size = None, !.again = FALSE]

\* The client is done with a voucher: resume() goes on with another one, in the
\* order of the file, which the model leaves open; anybody else is finished.
Continues(p, c) ==
    IF c.rest = {} THEN Becomes(p, Off)
    ELSE \E v \in c.rest : Becomes(p, LookAt(c, v, c.rest \ {v}, FALSE))

\* Nothing to collect yet: a single poll is made again later.
NotYet(p, c) == IF c.alone THEN Becomes(p, [c EXCEPT !.pc = "wait"])
                ELSE Continues(p, c)

\* redeem() and quote() write the whole file from the client's copy.
Save(copy) == file' = copy

Without(copy, v) == [copy EXCEPT !.pending = @ \ {v}]

\* The key that signs for a voucher: its epoch's, or the issuer's one RSA key.
KeyOf(v) == IF v \in Rsa THEN RsaKey ELSE row[v].epoch

\* The batch of the request is the one that was issued.  An RSA batch is blinded with
\* fresh random numbers, so the next request never repeats it.
Repeats(q) == row[q.vid].owed = q.size /\ q.vid \notin Rsa

\* Fault: a batch of any size is signed.
VerdictAnySize(q) ==
    LET r == row[q.vid] IN
    CASE r.issued /\ ~Repeats(q)                    -> "refused"
      [] ~r.issued /\ r.owed = 0                    -> "open"
      [] ~r.issued /\ r.owed # 0 /\ r.epoch # epoch -> "closed"
      [] OTHER                                      -> "signed"

\* What the issuer answers a request to redeem, and what it does to the row.
Verdict(q) ==
    LET r == row[q.vid] IN
    CASE r.issued /\ Repeats(q)                   -> "signed"
      [] r.issued /\ ~Repeats(q)                  -> "refused"
      [] ~r.issued /\ r.owed = 0                  -> "open"
      [] ~r.issued /\ r.owed # 0 /\ r.epoch # epoch -> "closed"
      [] ~r.issued /\ r.owed # 0 /\ r.epoch = epoch /\ r.owed # q.size -> "resize"
      [] OTHER                                    -> "signed"

Waits(q) == client[q.from].pc = q.kind /\ client[q.from].vid = q.vid
            /\ (q.kind = "redeem" => client[q.from].size = q.size)

-----------------------------------------------------------------------------
(* The client.                                                             *)

Init ==
    /\ file = [counter |-> 0, pending |-> {}]
    /\ client = [p \in Client |-> Off]
    /\ sent = {}
    /\ row = [v \in Handle |-> None]
    /\ epoch = 0
    /\ told = {} /\ collected = {}
    /\ faults = 0
    /\ wallet = [key |-> None, tokens |-> {}, rejected |-> {}]

\* TopUpClient(): the file is read.
Load(p) ==
    /\ client[p].pc = "off"
    /\ Becomes(p, [Off EXCEPT !.pc = "ready", !.copy = file])
    /\ UNCHANGED <<file, sent, issuer, buyer, faults>>

\* Fault: the quote is asked for before the counter is saved.
QuoteUnsaved(p) ==
    LET n == client[p].copy.counter
        copy == [counter |-> n + 1, pending |-> client[p].copy.pending \cup {n}]
    IN
    /\ client[p].pc = "ready"
    /\ n < MaxHandles
    /\ Cardinality(sent) < MaxInFlight
    /\ Becomes(p, [client[p] EXCEPT !.pc = "quote", !.vid = n, !.copy = copy])
    /\ sent' = sent \cup {[kind |-> "quote", from |-> p, vid |-> n, size |-> 0]}
    /\ UNCHANGED <<file, issuer, buyer, faults>>

\* quote(): the next handle is put in the file before it is asked for.
Quote(p) ==
    LET n == client[p].copy.counter
        copy == [counter |-> n + 1, pending |-> client[p].copy.pending \cup {n}]
    IN
    /\ client[p].pc = "ready"
    /\ n < MaxHandles
    /\ Cardinality(sent) < MaxInFlight
    /\ Save(copy)
    /\ Becomes(p, [client[p] EXCEPT !.pc = "quote", !.vid = n, !.copy = copy])
    /\ sent' = sent \cup {[kind |-> "quote", from |-> p, vid |-> n, size |-> 0]}
    /\ UNCHANGED <<issuer, buyer, faults>>

\* The row that came back, new or adopted after a 409, is saved and shown.
NoteQuote(p) ==
    /\ client[p].pc = "quoted"
    /\ Save(client[p].copy)
    /\ told' = told \cup {client[p].vid}
    /\ Becomes(p, [client[p] EXCEPT !.pc = "wait", !.alone = TRUE])
    /\ UNCHANGED <<sent, issuer, wallet, collected, faults>>

\* resume() takes every pending handle of the file it was loaded from.
Resume(p) ==
    /\ client[p].pc = "ready"
    /\ \E v \in client[p].copy.pending :
          Becomes(p, LookAt(client[p], v, client[p].copy.pending \ {v}, FALSE))
    /\ UNCHANGED <<file, sent, issuer, buyer, faults>>

\* The dialog (with a new client) or `topup --wait` (with its old one) polls the
\* voucher it shows.
Poll(p) ==
    /\ \E v \in told :
          /\ \/ client[p].pc = "ready"
             \/ client[p].pc = "wait" /\ client[p].vid = v
          /\ Becomes(p, LookAt(client[p], v, {}, TRUE))
    /\ UNCHANGED <<file, sent, issuer, buyer, faults>>

\* GET /v0/voucher.
Status(p) ==
    LET v == client[p].vid IN
    /\ client[p].pc = "status"
    /\ Becomes(p, [client[p] EXCEPT
                      !.pc = "answered",
                      !.size = IF row[v] = None THEN None ELSE row[v].owed])
    /\ UNCHANGED <<file, sent, issuer, buyer, faults>>

\* The issuer does not know the handle: it is no longer pending.
Drop(p) ==
    LET c == client[p] IN
    /\ c.pc = "answered" /\ c.size = None
    /\ Save(Without(c.copy, c.vid))
    /\ Continues(p, [c EXCEPT !.copy = Without(@, c.vid)])
    /\ UNCHANGED <<sent, issuer, buyer, faults>>

\* Fault: a handle that is not payable, perhaps expired, is dropped.
NoteOpenForgets(p) ==
    LET c == client[p] IN
    /\ c.pc = "answered" /\ c.size = 0
    /\ Save(Without(c.copy, c.vid))
    /\ NotYet(p, [c EXCEPT !.copy = Without(@, c.vid)])
    /\ UNCHANGED <<sent, issuer, buyer, faults>>

\* Not payable: a pending handle's state is noted, and with it the file saved.
NoteOpen(p) ==
    LET c == client[p] IN
    /\ c.pc = "answered" /\ c.size = 0
    /\ IF c.vid \in c.copy.pending THEN Save(c.copy) ELSE UNCHANGED file
    /\ NotYet(p, c)
    /\ UNCHANGED <<sent, issuer, buyer, faults>>

\* Fault: the handle is taken off the list when its batch is asked for.
PostPopped(p) ==
    LET c == client[p] IN
    /\ c.pc = "answered" /\ c.size \notin {None, 0}
    /\ Cardinality(sent) < MaxInFlight
    /\ Save(Without(c.copy, c.vid))
    /\ sent' = sent \cup {[kind |-> "redeem", from |-> p, vid |-> c.vid,
                           size |-> c.size]}
    /\ Becomes(p, [c EXCEPT !.pc = "redeem", !.copy = Without(@, c.vid)])
    /\ UNCHANGED <<issuer, buyer, faults>>

\* POST /v0/redeem of a batch of the size the issuer said.
Post(p) ==
    LET c == client[p] IN
    /\ c.pc = "answered" /\ c.size \notin {None, 0}
    /\ Cardinality(sent) < MaxInFlight
    /\ sent' = sent \cup {[kind |-> "redeem", from |-> p, vid |-> c.vid,
                           size |-> c.size]}
    /\ Becomes(p, [c EXCEPT !.pc = "redeem"])
    /\ UNCHANGED <<file, issuer, buyer, faults>>

MayHold(v) == wallet.key \in {None, KeyOf(v)}

\* Fault: the wallet's issuer is not compared.
MergeAnyKey(p) ==
    LET c == client[p] IN
    /\ c.pc = "signed"
    /\ wallet' = [wallet EXCEPT !.key = KeyOf(c.vid),
                     !.tokens = @ \cup (BatchOf(c.vid, c.size) \ wallet.rejected)]
    /\ collected' = collected \cup {c.vid}
    /\ Becomes(p, [c EXCEPT !.pc = "merged"])
    /\ UNCHANGED <<file, sent, issuer, told, faults>>

\* Under the wallet's lock: passes neither held nor parked are added.
Merge(p) ==
    LET c == client[p] IN
    /\ c.pc = "signed"
    /\ MayHold(c.vid)
    /\ wallet' = [wallet EXCEPT !.key = KeyOf(c.vid),
                     !.tokens = @ \cup (BatchOf(c.vid, c.size) \ wallet.rejected)]
    /\ collected' = collected \cup {c.vid}
    /\ Becomes(p, [c EXCEPT !.pc = "merged"])
    /\ UNCHANGED <<file, sent, issuer, told, faults>>

\* The wallet holds passes of another key: a TopUpError.
MergeRefused(p) ==
    LET c == client[p] IN
    /\ c.pc = "signed"
    /\ ~MayHold(c.vid)
    /\ Continues(p, c)
    /\ UNCHANGED <<file, sent, issuer, buyer, faults>>

\* The handle is no longer pending, once its passes are in the wallet.
PopPending(p) ==
    LET c == client[p] IN
    /\ c.pc = "merged"
    /\ Save(Without(c.copy, c.vid))
    /\ Continues(p, [c EXCEPT !.copy = Without(@, c.vid)])
    /\ UNCHANGED <<sent, issuer, buyer, faults>>

\* A timeout: no answer is coming any more.
TimesOut(p) ==
    /\ client[p].pc \in {"quote", "redeem"}
    /\ \A q \in sent : ~(q.from = p /\ Waits(q))
    /\ Becomes(p, Off)
    /\ UNCHANGED <<file, sent, issuer, buyer, faults>>

\* The dialog is closed, the wait is over, or there was nothing to do.
Close(p) ==
    /\ client[p].pc \in {"ready", "wait"}
    /\ Becomes(p, Off)
    /\ UNCHANGED <<file, sent, issuer, buyer, faults>>

\* Any ClientError in a call, or the death of the process: the files stay as they
\* are, and a request may still be on its way.
Fails(p) ==
    /\ client[p].pc \notin {"off", "ready", "wait"}
    /\ faults < MaxFaults
    /\ faults' = faults + 1
    /\ Becomes(p, Off)
    /\ UNCHANGED <<file, sent, issuer, buyer>>

-----------------------------------------------------------------------------
(* The issuer, the buyer and the spender.                                  *)

NewRow == [owed |-> 0, issued |-> FALSE, epoch |-> epoch]

\* POST /v0/quote: a new row, or a 409 after which the client asks for the one
\* that is there.
ServeQuote(q) ==
    /\ q \in sent /\ q.kind = "quote"
    /\ row' = IF row[q.vid] = None THEN [row EXCEPT ![q.vid] = NewRow] ELSE row
    /\ sent' = sent \ {q}
    /\ client' = IF Waits(q) THEN [client EXCEPT ![q.from].pc = "quoted"] ELSE client
    /\ UNCHANGED <<file, epoch, buyer, faults>>

\* What the client makes of the answer to its redeem.
Hears(p, answer, q) ==
    LET c == client[p] IN
    CASE answer = "signed"  -> Becomes(p, [c EXCEPT !.pc = "signed"])
      [] answer = "open"    -> NotYet(p, c)
      [] answer = "closed"  -> Becomes(p, Off)
      [] answer = "resize" /\ ~c.again ->
             Becomes(p, [c EXCEPT !.pc = "answered", !.again = TRUE,
                                  !.size = row[q.vid].owed])
      [] OTHER              -> Continues(p, c)

\* POST /v0/redeem.
ServeRedeem(q) ==
    /\ q \in sent /\ q.kind = "redeem"
    /\ row' = IF Verdict(q) = "signed" THEN [row EXCEPT ![q.vid].issued = TRUE]
              ELSE row
    /\ sent' = sent \ {q}
    /\ UNCHANGED <<file, epoch, buyer, faults>>

Answer(q) == ServeRedeem(q) /\ Waits(q) /\ Hears(q.from, Verdict(q), q)
Unheard(q) == ServeRedeem(q) /\ ~Waits(q) /\ UNCHANGED client

Lose(q) ==
    /\ q \in sent
    /\ faults < MaxFaults
    /\ faults' = faults + 1
    /\ sent' = sent \ {q}
    /\ UNCHANGED <<file, client, issuer, buyer>>

\* The chain shows something else for an address that was paid to.
Observe(v) ==
    /\ v \in told
    /\ ~row[v].issued
    /\ \E k \in (0..MaxTokens) \ {row[v].owed} : row' = [row EXCEPT ![v].owed = k]
    /\ UNCHANGED <<file, client, sent, epoch, buyer, faults>>

Rotate ==
    /\ epoch < MaxEpoch
    /\ epoch' = epoch + 1
    /\ UNCHANGED <<file, client, sent, row, buyer, faults>>

\* The spender takes a pass to a node, which accepts it or not.
Spend(t) ==
    /\ t \in wallet.tokens
    /\ \/ wallet' = [wallet EXCEPT !.tokens = @ \ {t}]
       \/ wallet' = [wallet EXCEPT !.tokens = @ \ {t}, !.rejected = @ \cup {t}]
    /\ UNCHANGED <<file, client, sent, issuer, told, collected, faults>>

\* merge_wallets: the minted wallet with the passes of both (the minted ones are not modelled
\* themselves), and nothing of the parked ones.
Merged == [wallet EXCEPT !.key = epoch, !.rejected = {}]

\* redeem_faucet() adds passes of the current key, and of no other one than the wallet's.
Faucet ==
    /\ wallet.key \in {None, epoch}
    /\ wallet' = Merged
    /\ UNCHANGED <<file, client, sent, issuer, told, collected, faults>>

-----------------------------------------------------------------------------

\* The steps of an operation under way; at each point exactly one can be taken.
Works(p) ==
    \/ NoteQuote(p) \/ Status(p) \/ Drop(p) \/ NoteOpen(p) \/ Post(p) \/ Merge(p)
    \/ MergeRefused(p) \/ PopPending(p) \/ TimesOut(p)

Acts(p) ==
    \/ Load(p) \/ Quote(p) \/ Resume(p) \/ Poll(p) \/ Works(p) \/ Close(p) \/ Fails(p)

Serves == \E q \in sent : ServeQuote(q) \/ Answer(q) \/ Unheard(q)

World ==
    \/ Serves \/ \E q \in sent : Lose(q)
    \/ \E v \in Handle : Observe(v)
    \/ \E t \in Pass : Spend(t)
    \/ Rotate \/ Faucet

Next == (\E p \in Client : Acts(p)) \/ World

Spec == Init /\ [][Next]_vars

\* Credit is opened again and again, which resumes; a dialog is closed at some
\* time; what is under way goes on, and the issuer answers.
Fairness ==
    /\ \A p \in Client : WF_vars(Load(p)) /\ SF_vars(Resume(p)) /\ SF_vars(Close(p))
                         /\ WF_vars(Works(p))
    /\ WF_vars(Serves)

FairSpec == Spec /\ Fairness

-----------------------------------------------------------------------------
(* Properties.                                                             *)

\* Whatever is in the wallet was issued, under the key the wallet names, in a
\* batch of that size: no lost reply, resized batch or second client makes up a
\* pass or mixes two keys.
WalletIsIssued ==
    \A t \in wallet.tokens :
        LET r == row[t[1]] IN
        r # None /\ r.issued /\ t[2] <= r.owed /\ KeyOf(t[1]) = wallet.key

\* A handle that the issuer knows, or may still get to know, is never derived again:
\* else a buyer is shown an address that was shown before, and a payment to a voucher
\* already issued buys nothing.  (For one client: a second one saves its older counter.)
HandlesAreFresh ==
    \A v \in Handle :
        (row[v] # None \/ \E q \in sent : q.vid = v) => v < file.counter

\* A voucher whose address a buyer saw is in the file as pending until its passes
\* are in the wallet, so that resume() finds it after any crash.
\* credit.py:813: "Pending vouchers live in credit-topup.json; a crash between
\* paying and collecting, or a restore from a recovery key, leaves rows there."
\* (For one client: a second one saves its older list.)
PaidIsPending == \A v \in told : v \in file.pending \/ v \in collected

\* The chain shows nothing new any more.
AtRest == <>[][\A v \in Handle : ~Observe(v)]_vars

\* v is paid, its epoch still issues, and the wallet takes passes of its key.  (Under
\* RSA a batch issued unheard is refused from then on, and its passes are lost.)
Collectable(v) ==
    v \in told \ Rsa /\ row[v].owed >= 1 /\ row[v].epoch = epoch /\ MayHold(v)

\* w is paid and its epoch has stopped issuing before it was issued.
Closed(w) == row[w].owed >= 1 /\ ~row[w].issued /\ row[w].epoch # epoch

\* What a buyer paid for is collected, through lost replies, crashes, rotations and
\* batches resized in between, unless another paid voucher was closed.
CollectedUnlessBlocked ==
    \A v \in Handle :
        AtRest /\ <>[](Collectable(v) /\ \A w \in told : ~Closed(w))
        => <>(v \in collected)
=============================================================================
