------------------------------ MODULE Voucher ------------------------------
(***************************************************************************)
(* The issuer's voucher store (payment/store.py), its price and depth      *)
(* policy (payment/policy.py), the chain it watches (payment/chain.py) and *)
(* the threads that touch a voucher (issuer.py): HTTP handlers for         *)
(* /v0/quote, /v0/voucher and /v0/redeem, and the poller.                  *)
(*                                                                         *)
(* The store's lock covers one read-modify-write of a row.  The chain is   *)
(* read BEFORE that lock is taken, the open-quote count and the epoch's    *)
(* issue window outside it: each of those reads is a step of its own here, *)
(* and what it returned is kept in the thread until the thread uses it.    *)
(*                                                                         *)
(* Money is counted in units.  A transfer's confirmation count matters     *)
(* only by the thresholds it has passed, so an address holds an amount per *)
(* depth band: 0 in the pool, 1 mined but below confirmations_small, 2     *)
(* below confirmations_large, 3 at least confirmations_large.              *)
(***************************************************************************)
EXTENDS Integers, FiniteSets

CONSTANTS
    Vid,            \* voucher handles; each stands for its own subaddress
    Handler,        \* HTTP handler threads
    BatchId,        \* what tells two blinded batches of one size apart
    Prices,         \* prices per token the operator may configure
    MaxTokens,      \* largest batch a client sends (max_tokens_per_quote)
    LargeAmount,    \* large_amount_piconero
    MaxOpenQuotes,  \* MAX_OPEN_QUOTES
    MaxPaid,        \* bound: money on one address
    MaxReorgs,      \* bound: reorganisations of the chain
    MaxEpoch,       \* bound: epochs opened after epoch 0
    None            \* the absent value

ASSUME PriceAssumption == Prices \subseteq Nat \ {0} /\ Prices # {}
ASSUME AmountAssumption ==
    /\ LargeAmount \in Nat \ {0} /\ MaxTokens \in Nat \ {0}
    /\ MaxPaid \in Nat /\ MaxReorgs \in Nat /\ MaxEpoch \in Nat
    /\ MaxOpenQuotes \in Nat

VARIABLES
    chain,      \* chain[v]: money on v's address by depth band
    reorgs,     \* reorganisations so far (bounds the model)
    window,     \* window[v]: where the clock stands in v's quote
    price,      \* policy.price_piconero of the running process
    voucher,    \* voucher[v]: the row, or None
    current,    \* highest epoch in the table
    closed,     \* epochs whose issue window has ended
    handler,    \* per HTTP thread: what it is doing and what it has read
    poller      \* the poller: rows still to refresh and what it has read

vars == <<chain, reorgs, window, price, voucher, current, closed, handler, poller>>
environment == <<chain, reorgs, window>>
epochs == <<current, closed>>

Depth == 0..3
Money == [Depth -> Nat]
NoMoney == [d \in Depth |-> 0]
Window == {"quote", "grace", "late"}
Batch == [id : BatchId, size : 1..MaxTokens]
State == {"quoted", "seen", "confirming", "payable", "issued", "underpaid",
          "expired_unpaid"}
OpenStates == State \ {"issued"}

Row == [state     : State,
        quoted    : Prices,             \* price_piconero
        seen      : Nat,                \* amount_seen
        confirmed : Nat,                \* amount_confirmed
        price     : Prices \cup {0},    \* effective_price, 0 when unset
        owed      : Nat,                \* tokens_owed
        batch     : Batch \cup {None},  \* batch_hash with tokens_issued
        epoch     : 0..MaxEpoch]

Thread == [pc    : {"idle", "quote", "ask", "observe", "check", "redeem"},
           vid   : Vid \cup {None},
           batch : Batch \cup {None},   \* the request's batch; None for a status
           money : Money \cup {None},   \* what chain.received answered
           epoch : 0..MaxEpoch,         \* the epoch read before create_quote
           open  : BOOLEAN]             \* issuing_open, read before store.redeem
Idle == [pc |-> "idle", vid |-> None, batch |-> None, money |-> None,
         epoch |-> 0, open |-> FALSE]

Poller == [todo  : SUBSET Vid,
           now   : [Vid -> Window],     \* the clock when the pass started
           vid   : Vid \cup {None},
           money : Money \cup {None}]
PollerIdle == [todo |-> {}, now |-> [v \in Vid |-> "quote"], vid |-> None,
               money |-> None]

ASSUME NoneAssumption ==
    /\ None \notin Vid /\ None \notin Row /\ None \notin Batch /\ None \notin Money
    /\ None \notin [batch : Batch, price : Prices \cup {0}]

\* A row has a batch exactly when it is issued, and owes tokens only at a price.
RowOK(row) ==
    /\ row.state = "issued" <=> row.batch # None
    /\ row.price = 0 => row.owed = 0
    /\ row.state = "payable" => row.owed >= 1

RowsOK == \A v \in Vid : voucher[v] # None => RowOK(voucher[v])

\* A thread that has read a row or the chain knows whose.
ThreadOK(t) ==
    /\ t.pc # "idle" => t.vid # None
    /\ t.pc \in {"ask", "observe", "check", "redeem"} => voucher[t.vid] # None
    /\ t.pc = "observe" <=> t.money # None
    /\ t.pc \in {"check", "redeem"} => t.batch # None

ThreadsOK == \A h \in Handler : ThreadOK(handler[h])

PollerOK ==
    /\ \A v \in poller.todo : voucher[v] # None
    /\ poller.vid # None => voucher[poller.vid] # None
    /\ poller.vid # None <=> poller.money # None

TypeOK ==
    /\ chain \in [Vid -> Money]
    /\ reorgs \in 0..MaxReorgs
    /\ window \in [Vid -> Window]
    /\ price \in Prices
    /\ voucher \in [Vid -> Row \cup {None}]
    /\ current \in 0..MaxEpoch
    /\ closed \in SUBSET (0..MaxEpoch)
    /\ handler \in [Handler -> Thread]
    /\ poller \in Poller
    /\ RowsOK
    /\ ThreadsOK
    /\ PollerOK

-----------------------------------------------------------------------------
(* The policy and the pure transition.                                     *)

Total(m) == m[0] + m[1] + m[2] + m[3]

\* Money no modelled reorganisation takes back.
Final(m) == m[2] + m[3]

\* Fault: counts a transfer from its first confirmation on.
ConfirmedShallow(m) == IF Total(m) >= LargeAmount THEN m[3] ELSE m[1] + m[2] + m[3]

\* amount_confirmed: what lies at confirmations_required(amount seen) or more.
Confirmed(m) == IF Total(m) >= LargeAmount THEN m[3] ELSE m[2] + m[3]

EffectivePrice(quoted, when) == IF when = "late" THEN price ELSE quoted

\* Nothing on chain: the row of an unissued voucher goes back to unpaid.
Unpaid(row, when) ==
    [row EXCEPT !.state = IF when = "quote" THEN "quoted" ELSE "expired_unpaid",
                !.seen = 0, !.confirmed = 0, !.price = 0, !.owed = 0]

Counted(row, m) == [row EXCEPT !.seen = Total(m), !.confirmed = Confirmed(m)]

Pending(row, m) ==
    [Counted(row, m) EXCEPT
        !.state = IF m[0] = Total(m) THEN "seen" ELSE "confirming"]

\* Fault: a single token is not enough to be payable.
CreditedOffByOne(row, m, when) ==
    LET p == IF row.price # 0 THEN row.price ELSE EffectivePrice(row.quoted, when)
        owed == Confirmed(m) \div p
    IN  [Counted(row, m) EXCEPT
            !.price = p, !.owed = owed,
            !.state = IF owed > 1 THEN "payable" ELSE "underpaid"]

Credited(row, m, when) ==
    LET p == IF row.price # 0 THEN row.price ELSE EffectivePrice(row.quoted, when)
        owed == Confirmed(m) \div p
    IN  [Counted(row, m) EXCEPT
            !.price = p, !.owed = owed,
            !.state = IF owed >= 1 THEN "payable" ELSE "underpaid"]

\* Fault: forgets that `issued` is terminal.
AdvanceReopens(row, m, when) ==
    CASE Total(m) = 0     -> Unpaid(row, when)
      [] Total(m) > 0 /\ Confirmed(m) = 0 -> Pending(row, m)
      [] OTHER            -> Credited(row, m, when)

\* Fault: prices every observation anew.
AdvanceRepriced(row, m, when) ==
    CASE row.state = "issued" -> IF Total(m) = 0 THEN row ELSE Counted(row, m)
      [] row.state # "issued" /\ Total(m) = 0 -> Unpaid(row, when)
      [] row.state # "issued" /\ Total(m) > 0 /\ Confirmed(m) = 0 -> Pending(row, m)
      [] OTHER -> Credited([row EXCEPT !.price = 0], m, when)

Advance(row, m, when) ==
    CASE row.state = "issued" -> IF Total(m) = 0 THEN row ELSE Counted(row, m)
      [] row.state # "issued" /\ Total(m) = 0 -> Unpaid(row, when)
      [] row.state # "issued" /\ Total(m) > 0 /\ Confirmed(m) = 0 -> Pending(row, m)
      [] OTHER -> Credited(row, m, when)

\* observe(): the fold and its UPDATE, under the store's lock.
Observe(v, m, when) == voucher' = [voucher EXCEPT ![v] = Advance(@, m, when)]

Issued(v) == voucher[v] # None /\ voucher[v].state = "issued"

Open == {v \in Vid : voucher[v] # None /\ voucher[v].state \in OpenStates}

-----------------------------------------------------------------------------
(* The chain, the clock and the operator.                                  *)

Init ==
    /\ chain = [v \in Vid |-> NoMoney]
    /\ reorgs = 0
    /\ window = [v \in Vid |-> "quote"]
    /\ price \in Prices
    /\ voucher = [v \in Vid |-> None]
    /\ current = 0
    /\ closed = {}
    /\ handler = [h \in Handler |-> Idle]
    /\ poller = PollerIdle

\* A buyer pays x to the address of a quote.
Pay(v, x) ==
    /\ voucher[v] # None
    /\ Total(chain[v]) + x <= MaxPaid
    /\ chain' = [chain EXCEPT ![v][0] = @ + x]
    /\ UNCHANGED <<reorgs, window, price, voucher, epochs, handler, poller>>

\* Blocks bury x of the money at depth d past the next threshold.
Mine(v, d, x) ==
    /\ chain[v][d] >= x
    /\ chain' = [chain EXCEPT ![v][d] = @ - x, ![v][d + 1] = @ + x]
    /\ UNCHANGED <<reorgs, window, price, voucher, epochs, handler, poller>>

\* A reorganisation shallower than confirmations_small: x returns to the pool
\* or is gone for good.
Reorg(v, d, x) ==
    /\ reorgs < MaxReorgs
    /\ chain[v][d] >= x
    /\ \/ chain' = [chain EXCEPT ![v][d] = @ - x]
       \/ d = 1 /\ chain' = [chain EXCEPT ![v][d] = @ - x, ![v][0] = @ + x]
    /\ reorgs' = reorgs + 1
    /\ UNCHANGED <<window, price, voucher, epochs, handler, poller>>

\* The clock passes quote_expires, then grace_until.
Elapse(v) ==
    /\ voucher[v] # None
    /\ window[v] # "late"
    /\ window' = [window EXCEPT ![v] = IF @ = "quote" THEN "grace" ELSE "late"]
    /\ UNCHANGED <<chain, reorgs, price, voucher, epochs, handler, poller>>

\* The process dies and is started again, perhaps with another price: rows and
\* epochs are on disk, threads and what they had read are gone.
Restart ==
    /\ price' \in Prices
    /\ handler' = [h \in Handler |-> Idle]
    /\ poller' = PollerIdle
    /\ UNCHANGED <<environment, voucher, epochs>>

\* rotate(): close_issue and insert_epoch are two commits.
CloseIssue ==
    /\ current \notin closed
    /\ current < MaxEpoch
    /\ closed' = closed \cup {current}
    /\ UNCHANGED <<environment, price, voucher, current, handler, poller>>

InsertEpoch ==
    /\ current \in closed
    /\ current < MaxEpoch
    /\ current' = current + 1
    /\ UNCHANGED <<environment, price, voucher, closed, handler, poller>>

-----------------------------------------------------------------------------
(* POST /v0/quote.                                                         *)

\* The open quotes are counted and the issuing epoch is read, each under a lock
\* of its own that is released again; 429 and 410 leave nothing behind.
Quote(h, v) ==
    /\ handler[h].pc = "idle"
    /\ Cardinality(Open) < MaxOpenQuotes
    /\ current \notin closed
    /\ handler' = [handler EXCEPT ![h] =
                      [Idle EXCEPT !.pc = "quote", !.vid = v, !.epoch = current]]
    /\ UNCHANGED <<environment, price, voucher, epochs, poller>>

\* create_quote(): insert the row unless the vid is taken (409).
CreateQuote(h) ==
    LET v == handler[h].vid IN
    /\ handler[h].pc = "quote"
    /\ voucher' = IF voucher[v] # None THEN voucher ELSE
                  [voucher EXCEPT ![v] =
                     [state |-> "quoted", quoted |-> price, seen |-> 0,
                      confirmed |-> 0, price |-> 0, owed |-> 0, batch |-> None,
                      epoch |-> handler[h].epoch]]
    /\ handler' = [handler EXCEPT ![h] = Idle]
    /\ UNCHANGED <<environment, price, epochs, poller>>

-----------------------------------------------------------------------------
(* GET /v0/voucher (b = None) and POST /v0/redeem of batch b.              *)

\* refresh() reads the row; an issued one is not looked up on the chain.
Ask(h, v, b) ==
    /\ handler[h].pc = "idle"
    /\ voucher[v] # None
    /\ b = None => voucher[v].state # "issued"
    /\ handler' = [handler EXCEPT ![h] =
                      [Idle EXCEPT !.pc = IF voucher[v].state = "issued"
                                          THEN "check" ELSE "ask",
                                   !.vid = v, !.batch = b]]
    /\ UNCHANGED <<environment, price, voucher, epochs, poller>>

\* chain.received(), before the store's lock is taken.
Receive(h) ==
    /\ handler[h].pc = "ask"
    /\ handler' = [handler EXCEPT ![h].pc = "observe",
                                  ![h].money = chain[handler[h].vid]]
    /\ UNCHANGED <<environment, price, voucher, epochs, poller>>

\* store.observe() of what was received; the time is read as it is called.
Refresh(h) ==
    LET v == handler[h].vid IN
    /\ handler[h].pc = "observe"
    /\ Observe(v, handler[h].money, window[v])
    /\ handler' = [handler EXCEPT ![h] =
                      IF @.batch = None THEN Idle
                      ELSE [@ EXCEPT !.pc = "check", !.money = None]]
    /\ UNCHANGED <<environment, price, epochs, poller>>

\* is_issuing(epoch), evaluated before store.redeem takes its lock.
CheckIssuing(h) ==
    /\ handler[h].pc = "check"
    /\ handler' = [handler EXCEPT
                      ![h].pc = "redeem",
                      ![h].open = voucher[handler[h].vid].epoch \notin closed]
    /\ UNCHANGED <<environment, price, voucher, epochs, poller>>

\* Fault: the state is not looked at again under the lock.
RedeemableTwice(h) ==
    /\ handler[h].open
    /\ handler[h].batch.size = voucher[handler[h].vid].owed

\* store.redeem() signs only a payable voucher (402), only if its epoch was open
\* for issuing (410), and only a batch of exactly tokens_owed (400).
Redeemable(h) ==
    /\ voucher[handler[h].vid].state = "payable"
    /\ handler[h].open
    /\ handler[h].batch.size = voucher[handler[h].vid].owed

\* store.redeem(), under the lock: sign, cache and mark issued in one UPDATE.  An
\* issued voucher answers its cached batch (200) or 409 and is left alone.
Redeem(h) ==
    LET v == handler[h].vid IN
    /\ handler[h].pc = "redeem"
    /\ voucher' = IF Redeemable(h)
                  THEN [voucher EXCEPT ![v].state = "issued",
                                       ![v].batch = handler[h].batch]
                  ELSE voucher
    /\ handler' = [handler EXCEPT ![h] = Idle]
    /\ UNCHANGED <<environment, price, epochs, poller>>

\* The wallet's RPC raises in create_quote or in refresh, or sign() on a batch it
\* cannot read: the request answers an error and has written nothing.
Fails(h) ==
    /\ handler[h].pc \in {"quote", "ask", "redeem"}
    /\ handler' = [handler EXCEPT ![h] = Idle]
    /\ UNCHANGED <<environment, price, voucher, epochs, poller>>

-----------------------------------------------------------------------------
(* poll(): one pass over the rows that were open when it began.            *)

PollStart ==
    /\ poller = PollerIdle
    /\ Open # {}
    /\ poller' = [PollerIdle EXCEPT !.todo = Open, !.now = window]
    /\ UNCHANGED <<environment, price, voucher, epochs, handler>>

PollReceive(v) ==
    /\ poller.vid = None
    /\ v \in poller.todo
    /\ poller' = [poller EXCEPT !.todo = @ \ {v}, !.vid = v, !.money = chain[v]]
    /\ UNCHANGED <<environment, price, voucher, epochs, handler>>

\* poll_forever swallows the exception, which ends the pass.
PollFails ==
    /\ poller.vid = None
    /\ poller.todo # {}
    /\ poller' = PollerIdle
    /\ UNCHANGED <<environment, price, voucher, epochs, handler>>

\* Every row of a pass is observed at the time the pass began.
PollObserve ==
    LET v == poller.vid IN
    /\ v # None
    /\ Observe(v, poller.money, poller.now[v])
    /\ poller' = IF poller.todo = {} THEN PollerIdle
                 ELSE [poller EXCEPT !.vid = None, !.money = None]
    /\ UNCHANGED <<environment, price, epochs, handler>>

-----------------------------------------------------------------------------

Chain ==
    \E v \in Vid :
        \/ \E x \in 1..MaxPaid : Pay(v, x)
        \/ \E d \in 0..2, x \in 1..MaxPaid : Mine(v, d, x)
        \/ \E d \in 0..1, x \in 1..MaxPaid : Reorg(v, d, x)
        \/ Elapse(v)

Operator == Restart \/ CloseIssue \/ InsertEpoch

Request(h) ==
    \/ \E v \in Vid : Quote(h, v)
    \/ \E v \in Vid, b \in Batch \cup {None} : Ask(h, v, b)

Serve(h) ==
    \/ CreateQuote(h) \/ Receive(h) \/ Refresh(h) \/ CheckIssuing(h)
    \/ Redeem(h) \/ Fails(h)

Poll == PollStart \/ (\E v \in Vid : PollReceive(v)) \/ PollFails \/ PollObserve

Next == Chain \/ Operator \/ (\E h \in Handler : Request(h) \/ Serve(h)) \/ Poll

Spec == Init /\ [][Next]_vars

\* The step of handler h that serves the request to redeem v with batch b.
ServeRedeem(h, v, b, Step) ==
    handler[h].vid = v /\ handler[h].batch = b /\ Step

\* A buyer who keeps asking for what is owed (the app asks again at every start
\* and every look at the dialog), requests that are not always cut off by a
\* restart at the same point, and a wallet RPC that does not always fail.
RedeemFairly(h, v, b) ==
    /\ SF_vars(voucher[v] # None /\ voucher[v].owed \in {0, b.size} /\ Ask(h, v, b))
    /\ SF_vars(ServeRedeem(h, v, b, Receive(h)))
    /\ SF_vars(ServeRedeem(h, v, b, Refresh(h)))
    /\ SF_vars(ServeRedeem(h, v, b, CheckIssuing(h)))
    /\ SF_vars(ServeRedeem(h, v, b, Redeem(h)))

Fairness ==
    \A h \in Handler : \A v \in Vid : \A b \in Batch :
        WF_vars(Serve(h)) /\ RedeemFairly(h, v, b)

FairSpec == Spec /\ Fairness

-----------------------------------------------------------------------------
(* Properties.                                                             *)

\* A batch that was issued is paid for by money that stays paid: whatever order
\* stale and fresh observations were applied in, and whatever was reorganised
\* above confirmations_small, the address holds size * effective_price.
IssuedIsFunded ==
    \A v \in Vid : Issued(v) =>
        voucher[v].batch.size * voucher[v].price <= Final(chain[v])

\* What makes that so: every observation in flight, however old, shows no more
\* buried money than the chain holds now, and what a payable row owes is covered.
ObservationsAreCovered ==
    /\ \A h \in Handler : handler[h].money # None =>
           Final(handler[h].money) <= Final(chain[handler[h].vid])
    /\ poller.money # None => Final(poller.money) <= Final(chain[poller.vid])
    /\ \A v \in Vid : (voucher[v] # None /\ voucher[v].state = "payable") =>
           voucher[v].owed * voucher[v].price <= Final(chain[v])

\* The price of a voucher, once a confirmed payment has fixed it, moves only if
\* an observation found nothing at all on the address.
PriceStaysLocked ==
    [][\A v \in Vid :
          (voucher[v] # None /\ voucher[v].price # 0
              /\ voucher'[v].price # voucher[v].price)
          => voucher'[v].seen = 0]_vars

\* v was quoted and at least one token at any price lies at the full depth.
PaidInFull(v) ==
    voucher[v] # None /\ \A p \in Prices : chain[v][3] >= p

\* Money buried at confirmations_large on a quoted address becomes tokens, if the
\* buyer keeps asking: unless the epoch of the quote stops issuing first.
PaidIsIssuedWhileOpen ==
    \A v \in Vid :
        PaidInFull(v)
        ~> (Issued(v) \/ (voucher[v] # None /\ voucher[v].epoch \in closed))

\* The store keeps the issuer's promise.
Promise == INSTANCE Sale WITH
    funds <- [v \in Vid |-> Final(chain[v])],
    sale <- [v \in Vid |->
                IF Issued(v)
                THEN [batch |-> voucher[v].batch, price |-> voucher[v].price]
                ELSE None]
KeepsPromise == Promise!Spec
=============================================================================
