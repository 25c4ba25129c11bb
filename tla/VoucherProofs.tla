--------------------------- MODULE VoucherProofs ---------------------------
(***************************************************************************)
(* For any number of vouchers, threads, payments, reorganisations above    *)
(* confirmations_small and restarts: the store's rows stay well formed, an *)
(* issued batch is funded, and the store implements Sale.                  *)
(***************************************************************************)
EXTENDS Voucher, TLAPS

-----------------------------------------------------------------------------
(* The pure transition.                                                    *)

\* tokens_owed rounds down: what is owed never costs more than was confirmed.
LEMMA DivBound ==
    ASSUME NEW a \in Nat, NEW p \in Nat \ {0}
    PROVE  /\ a \div p \in Nat
           /\ (a \div p) * p <= a
  OBVIOUS

\* Whatever amount counts as confirmed lies below the reach of a reorganisation.
LEMMA MoneyFacts ==
    ASSUME NEW m \in Money
    PROVE  /\ Total(m) \in Nat /\ Final(m) \in Nat /\ Confirmed(m) \in Nat
           /\ Confirmed(m) <= Final(m)
  BY AmountAssumption DEF Money, Depth, Total, Final, Confirmed

LEMMA RowFacts ==
    ASSUME NEW row \in Row
    PROVE  /\ row.owed \in Nat /\ row.price \in Nat
           /\ row.batch # None => row.batch.size \in Nat
  <1>1. row.owed \in Nat /\ row.price \in Prices \cup {0} /\ row.batch \in Batch \cup {None}
    BY DEF Row
  <1>2. \A p \in Prices \cup {0} : p \in Nat
    BY PriceAssumption
  <1>3. row.batch # None => row.batch.size \in 1..MaxTokens
    BY <1>1 DEF Batch
  <1>4. QED
    BY <1>1, <1>2, <1>3, AmountAssumption

\* Crediting an unissued row: it stays a row, and owes no more than is buried.
LEMMA CreditedFacts ==
    ASSUME NEW row \in Row, NEW m \in Money, NEW when \in Window,
           price \in Prices, RowOK(row), row.state # "issued"
    PROVE  LET new == Credited(row, m, when) IN
           /\ new \in Row
           /\ RowOK(new)
           /\ new.batch = row.batch
           /\ new.state # "issued"
           /\ new.owed * new.price <= Final(m)
  <1> DEFINE p == IF row.price # 0 THEN row.price ELSE EffectivePrice(row.quoted, when)
             owed == Confirmed(m) \div p
  <1>1. p \in Prices /\ p \in Nat \ {0}
    BY PriceAssumption DEF Row, EffectivePrice
  <1>2. owed \in Nat /\ owed * p <= Confirmed(m)
    BY <1>1, MoneyFacts, DivBound
  <1>3. owed * p <= Final(m)
    <2>1. owed * p \in Nat
      BY <1>1, <1>2
    <2>2. QED  BY <2>1, <1>2, MoneyFacts
  <1> HIDE DEF owed, p
  <1> DEFINE new == [row EXCEPT !.seen = Total(m), !.confirmed = Confirmed(m),
                                !.price = p, !.owed = owed,
                                !.state = IF owed >= 1 THEN "payable" ELSE "underpaid"]
  <1>4. Credited(row, m, when) = new
    BY DEF Credited, Counted, Row, p, owed
  <1>5. new \in Row
    BY <1>1, <1>2, MoneyFacts DEF Row, State
  <1>6. /\ new.batch = row.batch /\ new.price = p /\ new.owed = owed
        /\ new.state = IF owed >= 1 THEN "payable" ELSE "underpaid"
    BY DEF Row
  <1>7. RowOK(new)
    BY <1>1, <1>2, <1>6 DEF RowOK
  <1>8. QED
    BY <1>3, <1>4, <1>5, <1>6, <1>7

\* Folding an observation into a row: it stays a row and keeps its batch, an issued
\* row keeps its price, no row becomes or ceases to be issued, and a payable one
\* owes no more than the observation showed buried.
LEMMA AdvanceFacts ==
    ASSUME NEW row \in Row, NEW m \in Money, NEW when \in Window,
           price \in Prices, RowOK(row)
    PROVE  LET new == Advance(row, m, when) IN
           /\ new \in Row
           /\ RowOK(new)
           /\ new.batch = row.batch
           /\ new.state = "issued" <=> row.state = "issued"
           /\ row.state = "issued" => new.price = row.price
           /\ new.state = "payable" => new.owed * new.price <= Final(m)
  <1> DEFINE new == Advance(row, m, when)
  <1>1. CASE row.state = "issued"
    <2>1. new = IF Total(m) = 0 THEN row ELSE Counted(row, m)
      BY <1>1 DEF Advance
    <2>2. Counted(row, m) \in Row
      BY MoneyFacts DEF Counted, Row
    <2>3. /\ new.batch = row.batch /\ new.state = row.state
          /\ new.price = row.price /\ new.owed = row.owed
      BY <2>1 DEF Counted, Row
    <2>4. RowOK(new)
      BY <2>3 DEF RowOK
    <2>5. QED
      BY <1>1, <2>1, <2>2, <2>3, <2>4
  <1>2. CASE row.state # "issued" /\ Total(m) = 0
    <2> DEFINE s == IF when = "quote" THEN "quoted" ELSE "expired_unpaid"
    <2>1. s \in {"quoted", "expired_unpaid"}
      OBVIOUS
    <2> HIDE DEF s
    <2>5. new = [row EXCEPT !.state = s, !.seen = 0, !.confirmed = 0, !.price = 0,
                            !.owed = 0]
      BY <1>2 DEF Advance, Unpaid, s
    <2> HIDE DEF new
    <2>2. /\ new \in Row /\ new.batch = row.batch
          /\ new.state \in {"quoted", "expired_unpaid"} /\ new.owed = 0
      BY <2>1, <2>5 DEF Row, State
    <2>3. RowOK(new)
      BY <1>2, <2>2 DEF RowOK
    <2>4. QED
      BY <1>2, <2>2, <2>3 DEF new
  <1>3. CASE row.state # "issued" /\ Total(m) > 0 /\ Confirmed(m) = 0
    <2>1. new = Pending(row, m)
      BY <1>3, MoneyFacts DEF Advance
    <2>2. /\ new \in Row /\ new.batch = row.batch
          /\ new.state \in {"seen", "confirming"}
          /\ new.owed = row.owed /\ new.price = row.price
      BY <2>1, MoneyFacts DEF Pending, Counted, Row, State
    <2>3. RowOK(new)
      BY <1>3, <2>2 DEF RowOK
    <2>4. QED
      BY <1>3, <2>2, <2>3
  <1>4. CASE row.state # "issued" /\ Total(m) > 0 /\ Confirmed(m) # 0
    <2>1. new = Credited(row, m, when)
      BY <1>4, MoneyFacts DEF Advance
    <2>2. QED
      BY <1>4, <2>1, CreditedFacts
  <1>5. QED
    BY <1>1, <1>2, <1>3, <1>4, MoneyFacts

-----------------------------------------------------------------------------
(* The inductive invariant.  Funding alone is not inductive: what a thread *)
(* will observe decides what a row will owe, and what a row owes decides   *)
(* what is issued, so both must be covered already.                        *)

Inv == TypeOK /\ ObservationsAreCovered /\ IssuedIsFunded

\* Buried money only grows, so what was covered stays covered.
LEMMA ChainGrows ==
    ASSUME Inv, chain' \in [Vid -> Money],
           \A v \in Vid : Final(chain[v]) <= Final(chain'[v]),
           UNCHANGED <<voucher, handler, poller>>
    PROVE  ObservationsAreCovered' /\ IssuedIsFunded'
  <1>1. \A v \in Vid : Final(chain[v]) \in Nat /\ Final(chain'[v]) \in Nat
    BY MoneyFacts DEF Inv, TypeOK
  <1>2. ASSUME NEW h \in Handler, handler[h].money # None
        PROVE  Final(handler[h].money) <= Final(chain'[handler[h].vid])
    <2>1. handler[h].vid \in Vid /\ handler[h].money \in Money
      BY <1>2 DEF Inv, TypeOK, ThreadsOK, ThreadOK, Thread
    <2>2. Final(handler[h].money) <= Final(chain[handler[h].vid])
      BY <1>2 DEF Inv, ObservationsAreCovered
    <2>3. QED
      BY <1>1, <2>1, <2>2, MoneyFacts
  <1>3. ASSUME poller.money # None
        PROVE  Final(poller.money) <= Final(chain'[poller.vid])
    <2>1. poller.vid \in Vid /\ poller.money \in Money
      BY <1>3 DEF Inv, TypeOK, PollerOK, Poller
    <2>2. Final(poller.money) <= Final(chain[poller.vid])
      BY <1>3 DEF Inv, ObservationsAreCovered
    <2>3. QED
      BY <1>1, <2>1, <2>2, MoneyFacts
  <1>4. ASSUME NEW v \in Vid, voucher[v] # None
        PROVE  voucher[v].owed * voucher[v].price \in Nat
    <2>1. voucher[v] \in Row
      BY <1>4 DEF Inv, TypeOK
    <2>2. QED  BY <2>1, RowFacts
  <1>5. ASSUME NEW v \in Vid, Issued(v)
        PROVE  voucher[v].batch.size * voucher[v].price \in Nat
    <2>1. voucher[v] \in Row /\ voucher[v].batch # None
      BY <1>5 DEF Inv, TypeOK, RowsOK, RowOK, Issued
    <2>2. QED  BY <2>1, RowFacts
  <1>6. \A v \in Vid : (voucher[v] # None /\ voucher[v].state = "payable") =>
            voucher[v].owed * voucher[v].price <= Final(chain'[v])
    BY <1>1, <1>4 DEF Inv, ObservationsAreCovered
  <1>7. \A v \in Vid : Issued(v) =>
            voucher[v].batch.size * voucher[v].price <= Final(chain'[v])
    BY <1>1, <1>5 DEF Inv, IssuedIsFunded
  <1>8. QED
    BY <1>2, <1>3, <1>6, <1>7 DEF ObservationsAreCovered, IssuedIsFunded, Issued

\* One observation, stale or not, keeps every row well formed and covered.
LEMMA ObserveStep ==
    ASSUME Inv, NEW v \in Vid, voucher[v] # None,
           NEW m \in Money, Final(m) <= Final(chain[v]), NEW when \in Window,
           Observe(v, m, when), UNCHANGED chain
    PROVE  /\ voucher' \in [Vid -> Row \cup {None}]
           /\ RowsOK'
           /\ \A w \in Vid : voucher[w] # None <=> voucher'[w] # None
           /\ \A w \in Vid : Issued(w) <=> Issued(w)'
           /\ \A w \in Vid : Issued(w) =>
                  /\ voucher'[w].batch = voucher[w].batch
                  /\ voucher'[w].price = voucher[w].price
           /\ \A w \in Vid : (voucher[w] # None /\ voucher[w].state = "payable")' =>
                  (voucher[w].owed * voucher[w].price)' <= Final(chain[w])
  <1> DEFINE new == Advance(voucher[v], m, when)
  <1>1. voucher[v] \in Row /\ RowOK(voucher[v])
    BY DEF Inv, TypeOK, RowsOK
  <1>2. /\ new \in Row /\ RowOK(new) /\ new.batch = voucher[v].batch
        /\ new.state = "issued" <=> voucher[v].state = "issued"
        /\ voucher[v].state = "issued" => new.price = voucher[v].price
        /\ new.state = "payable" => new.owed * new.price <= Final(m)
    BY <1>1, AdvanceFacts DEF Inv, TypeOK
  <1>3. voucher' = [voucher EXCEPT ![v] = new]
    BY DEF Observe
  <1>4. new # None
    BY <1>2, NoneAssumption
  <1>5. voucher \in [Vid -> Row \cup {None}] /\ RowsOK
    BY DEF Inv, TypeOK
  <1>6. new.state = "payable" => new.owed * new.price <= Final(chain[v])
    <2> SUFFICES ASSUME new.state = "payable"
                 PROVE  new.owed * new.price <= Final(chain[v])
      OBVIOUS
    <2>1. new.owed \in Nat /\ new.price \in Nat
      BY <1>2, RowFacts
    <2>2. new.owed * new.price \in Nat
      BY <2>1
    <2>3. Final(m) \in Nat /\ Final(chain[v]) \in Nat
      BY MoneyFacts DEF Inv, TypeOK
    <2>4. QED
      BY <1>2, <2>2, <2>3
  <1> HIDE DEF new
  <1>7. /\ voucher'[v] = new
        /\ \A w \in Vid : w # v => voucher'[w] = voucher[w]
    BY <1>3, <1>5
  <1>8. voucher' \in [Vid -> Row \cup {None}]
    BY <1>2, <1>3, <1>5
  <1>9. RowsOK'
    BY <1>2, <1>5, <1>7 DEF RowsOK, RowOK
  <1>10. \A w \in Vid : voucher[w] # None <=> voucher'[w] # None
    BY <1>4, <1>7
  <1>11. \A w \in Vid : Issued(w) <=> Issued(w)'
    BY <1>2, <1>4, <1>7 DEF Issued
  <1>12. \A w \in Vid : Issued(w) => /\ voucher'[w].batch = voucher[w].batch
                                    /\ voucher'[w].price = voucher[w].price
    BY <1>2, <1>7 DEF Issued
  <1>13. \A w \in Vid : (voucher[w] # None /\ voucher[w].state = "payable")' =>
             (voucher[w].owed * voucher[w].price)' <= Final(chain[w])
    BY <1>6, <1>7 DEF Inv, ObservationsAreCovered
  <1>14. QED
    BY <1>8, <1>9, <1>10, <1>11, <1>12, <1>13

\* Rows are never deleted, so what threads and the poller know stays true.
LEMMA ThreadStep ==
    ASSUME Inv, NEW h \in Handler, NEW t \in Thread,
           handler' = [handler EXCEPT ![h] = t],
           UNCHANGED <<chain, poller>>,
           \A w \in Vid : voucher[w] # None => voucher'[w] # None,
           ThreadOK(t)',
           t.money # None => Final(t.money) <= Final(chain[t.vid])
    PROVE  /\ handler' \in [Handler -> Thread]
           /\ ThreadsOK'
           /\ PollerOK'
           /\ \A g \in Handler : handler'[g].money # None =>
                  Final(handler'[g].money) <= Final(chain'[handler'[g].vid])
           /\ poller'.money # None => Final(poller'.money) <= Final(chain'[poller'.vid])
  <1>1. handler \in [Handler -> Thread] /\ poller \in Poller
    BY DEF Inv, TypeOK
  <1>2. handler' \in [Handler -> Thread]
    BY <1>1
  <1>3. /\ handler'[h] = t
        /\ \A g \in Handler : g # h => handler'[g] = handler[g]
    BY <1>1
  <1>4. ASSUME NEW g \in Handler, g # h
        PROVE  ThreadOK(handler[g])'
    <2>1. ThreadOK(handler[g])
      BY DEF Inv, TypeOK, ThreadsOK
    <2>2. handler[g].vid \in Vid \cup {None}
      BY <1>1 DEF Thread
    <2>3. QED
      BY <1>3, <1>4, <2>1, <2>2 DEF ThreadOK
  <1>5. ThreadsOK'
    BY <1>3, <1>4 DEF ThreadsOK, ThreadOK
  <1>6. PollerOK'
    <2>1. PollerOK
      BY DEF Inv, TypeOK
    <2>2. poller.todo \subseteq Vid /\ poller.vid \in Vid \cup {None}
      BY <1>1 DEF Poller
    <2>3. QED
      BY <2>1, <2>2 DEF PollerOK
  <1>7. QED
    BY <1>2, <1>3, <1>5, <1>6 DEF Inv, ObservationsAreCovered

\* The same for a step of the poller.
LEMMA PollerStep ==
    ASSUME Inv, poller' \in Poller, UNCHANGED <<chain, handler>>,
           \A w \in Vid : voucher[w] # None => voucher'[w] # None,
           PollerOK',
           poller'.money # None => Final(poller'.money) <= Final(chain[poller'.vid])
    PROVE  /\ ThreadsOK'
           /\ \A g \in Handler : handler'[g].money # None =>
                  Final(handler'[g].money) <= Final(chain'[handler'[g].vid])
           /\ poller'.money # None => Final(poller'.money) <= Final(chain'[poller'.vid])
  <1>1. ASSUME NEW g \in Handler
        PROVE  ThreadOK(handler[g])'
    <2>1. ThreadOK(handler[g])
      BY DEF Inv, TypeOK, ThreadsOK
    <2>2. handler[g].vid \in Vid \cup {None}
      BY DEF Inv, TypeOK, Thread
    <2>3. QED
      BY <2>1, <2>2 DEF ThreadOK
  <1>2. ThreadsOK'
    BY <1>1 DEF ThreadsOK, ThreadOK
  <1>3. QED
    BY <1>2 DEF Inv, ObservationsAreCovered

LEMMA InitInv == Init => Inv
  <1> SUFFICES ASSUME Init PROVE Inv
    OBVIOUS
  <1>1. NoMoney \in Money
    BY DEF NoMoney, Money
  <1>2. Idle \in Thread /\ ThreadOK(Idle) /\ Idle.money = None
    BY AmountAssumption DEF Idle, Thread, ThreadOK
  <1>3. PollerIdle \in Poller
    BY DEF PollerIdle, Poller, Window
  <1>4. /\ PollerIdle.todo = {} /\ PollerIdle.vid = None /\ PollerIdle.money = None
    BY DEF PollerIdle
  <1>5. TypeOK
    <2>1. RowsOK /\ PollerOK
      BY <1>4 DEF Init, RowsOK, PollerOK
    <2>2. handler \in [Handler -> Thread] /\ ThreadsOK
      BY <1>2 DEF Init, ThreadsOK, ThreadOK
    <2>3. QED
      BY <1>1, <1>3, <2>1, <2>2, AmountAssumption DEF Init, TypeOK, Window
  <1>6. ObservationsAreCovered
    BY <1>2, <1>4 DEF Init, ObservationsAreCovered
  <1>7. IssuedIsFunded
    BY DEF Init, IssuedIsFunded, Issued
  <1>8. QED
    BY <1>5, <1>6, <1>7 DEF Inv

-----------------------------------------------------------------------------
(* One lemma per group of actions.                                         *)

LEMMA ChainInv ==
    ASSUME Inv, NEW v \in Vid, NEW x \in 1..MaxPaid,
           \/ Pay(v, x)
           \/ \E d \in 0..2 : Mine(v, d, x)
           \/ \E d \in 0..1 : Reorg(v, d, x)
    PROVE  /\ Inv' /\ UNCHANGED voucher
           /\ \A w \in Vid : Final(chain[w]) <= Final(chain'[w])
           /\ \A w \in Vid \ {v} : chain'[w] = chain[w]
  <1>1. chain \in [Vid -> Money] /\ x \in Nat /\ x > 0
    BY AmountAssumption DEF Inv, TypeOK
  <1>2. PICK m \in Money : chain' = [chain EXCEPT ![v] = m] /\ Final(chain[v]) <= Final(m)
    <2>1. CASE Pay(v, x)
      <3> DEFINE m == [chain[v] EXCEPT ![0] = @ + x]
      <3>1. chain' = [chain EXCEPT ![v] = m]
        BY <1>1, <2>1 DEF Pay
      <3>2. chain[v] \in [0..3 -> Nat]
        BY <1>1 DEF Money, Depth
      <3>3. m \in [0..3 -> Nat]
        BY <1>1, <3>2
      <3>4. Final(chain[v]) <= Final(m)
        BY <1>1, <3>2 DEF Final
      <3>5. QED
        BY <3>1, <3>3, <3>4 DEF Money, Depth
    <2>2. ASSUME NEW d \in 0..2, Mine(v, d, x)
          PROVE  \E m \in Money : /\ chain' = [chain EXCEPT ![v] = m]
                                  /\ Final(chain[v]) <= Final(m)
      <3> DEFINE m == [chain[v] EXCEPT ![d] = @ - x, ![d + 1] = @ + x]
      <3>1. chain' = [chain EXCEPT ![v] = m]
        BY <1>1, <2>2 DEF Mine
      <3>2. chain[v] \in [0..3 -> Nat] /\ chain[v][d] >= x
        BY <1>1, <2>2 DEF Mine, Money, Depth
      <3>3. m \in [0..3 -> Nat]
        BY <1>1, <3>2
      <3>4. Final(chain[v]) <= Final(m)
        BY <1>1, <3>2 DEF Final
      <3>5. QED
        BY <3>1, <3>3, <3>4 DEF Money, Depth
    <2>3. ASSUME NEW d \in 0..1, Reorg(v, d, x)
          PROVE  \E m \in Money : /\ chain' = [chain EXCEPT ![v] = m]
                                  /\ Final(chain[v]) <= Final(m)
      <3> DEFINE m == [chain[v] EXCEPT ![d] = @ - x]
                 n == [chain[v] EXCEPT ![1] = @ - x, ![0] = @ + x]
      <3>1. \/ chain' = [chain EXCEPT ![v] = m]
            \/ d = 1 /\ chain' = [chain EXCEPT ![v] = n]
        BY <1>1, <2>3 DEF Reorg
      <3>2. chain[v] \in [0..3 -> Nat] /\ chain[v][d] >= x
        BY <1>1, <2>3 DEF Reorg, Money, Depth
      <3>3. m \in [0..3 -> Nat] /\ Final(chain[v]) <= Final(m)
        BY <1>1, <3>2 DEF Final
      <3>4. d = 1 => n \in [0..3 -> Nat] /\ Final(chain[v]) <= Final(n)
        BY <1>1, <3>2 DEF Final
      <3>5. QED
        BY <3>1, <3>3, <3>4 DEF Money, Depth
    <2>4. QED
      BY <2>1, <2>2, <2>3
  <1>3. chain' \in [Vid -> Money]
    BY <1>1, <1>2
  <1>4. \A w \in Vid : Final(chain[w]) <= Final(chain'[w])
    BY <1>1, <1>2, MoneyFacts
  <1>5. reorgs' \in 0..MaxReorgs
    BY AmountAssumption DEF Inv, TypeOK, Pay, Mine, Reorg
  <1>6. UNCHANGED <<window, price, voucher, current, closed, handler, poller>>
    BY DEF Pay, Mine, Reorg, epochs
  <1>7. ObservationsAreCovered' /\ IssuedIsFunded'
    BY <1>3, <1>4, <1>6, ChainGrows
  <1>8. TypeOK'
    BY <1>3, <1>5, <1>6 DEF Inv, TypeOK, RowsOK, RowOK, ThreadsOK, ThreadOK, PollerOK
  <1>9. \A w \in Vid \ {v} : chain'[w] = chain[w]
    BY <1>1, <1>2
  <1>10. QED
    BY <1>4, <1>6, <1>7, <1>8, <1>9 DEF Inv

\* The clock and the epochs: no row, thread or money is touched.
LEMMA ClockInv ==
    ASSUME Inv, (\E v \in Vid : Elapse(v)) \/ CloseIssue \/ InsertEpoch
    PROVE  Inv' /\ UNCHANGED <<chain, voucher>>
  <1>1. UNCHANGED <<chain, reorgs, price, voucher, handler, poller>>
    BY DEF Elapse, CloseIssue, InsertEpoch, environment, epochs
  <1>2. window' \in [Vid -> Window]
    BY DEF Inv, TypeOK, Elapse, CloseIssue, InsertEpoch, environment, Window
  <1> USE AmountAssumption
  <1>3. current' \in 0..MaxEpoch /\ closed' \in SUBSET (0..MaxEpoch)
    <2>1. current \in 0..MaxEpoch /\ closed \in SUBSET (0..MaxEpoch)
      BY DEF Inv, TypeOK
    <2>2. CASE \E v \in Vid : Elapse(v)
      BY <2>1, <2>2 DEF Elapse, epochs
    <2>3. CASE CloseIssue
      BY <2>1, <2>3 DEF CloseIssue
    <2>4. CASE InsertEpoch
      BY <2>1, <2>4 DEF InsertEpoch
    <2>5. QED
      BY <2>2, <2>3, <2>4
  <1>4. TypeOK'
    BY <1>1, <1>2, <1>3
    DEF Inv, TypeOK, RowsOK, RowOK, ThreadsOK, ThreadOK, PollerOK
  <1>5. QED
    BY <1>1, <1>4 DEF Inv, ObservationsAreCovered, IssuedIsFunded, Issued

\* A restart forgets every thread and all they had read.
LEMMA RestartInv ==
    ASSUME Inv, Restart
    PROVE  Inv' /\ UNCHANGED <<chain, voucher>>
  <1>1. UNCHANGED <<chain, reorgs, window, voucher, current, closed>>
    BY DEF Restart, environment, epochs
  <1>2. /\ Idle \in Thread /\ Idle.pc = "idle" /\ Idle.money = None
        /\ PollerIdle \in Poller
        /\ PollerIdle.todo = {} /\ PollerIdle.vid = None /\ PollerIdle.money = None
    BY AmountAssumption DEF Idle, Thread, PollerIdle, Poller, Window
  <1>3. handler' \in [Handler -> Thread] /\ ThreadsOK'
    BY <1>2 DEF Restart, ThreadsOK, ThreadOK
  <1>4. poller' \in Poller /\ PollerOK'
    BY <1>2 DEF Restart, PollerOK
  <1>5. price' \in Prices
    BY DEF Restart
  <1>6. TypeOK'
    BY <1>1, <1>3, <1>4, <1>5 DEF Inv, TypeOK, RowsOK, RowOK
  <1>7. ObservationsAreCovered'
    BY <1>1, <1>2 DEF Inv, ObservationsAreCovered, Restart
  <1>8. IssuedIsFunded'
    BY <1>1 DEF Inv, IssuedIsFunded, Issued
  <1>9. QED
    BY <1>1, <1>6, <1>7, <1>8 DEF Inv

\* Steps of a thread that write no row.
LEMMA ReadInv ==
    ASSUME Inv, NEW h \in Handler,
           \/ \E v \in Vid : Quote(h, v)
           \/ \E v \in Vid, b \in Batch \cup {None} : Ask(h, v, b)
           \/ Receive(h) \/ Fails(h) \/ CheckIssuing(h)
    PROVE  Inv' /\ UNCHANGED <<chain, voucher>>
  <1>1. UNCHANGED <<chain, reorgs, window, price, voucher, current, closed, poller>>
    BY DEF Quote, Ask, Receive, Fails, CheckIssuing, environment, epochs
  <1>2. handler[h] \in Thread /\ ThreadOK(handler[h]) /\ current \in 0..MaxEpoch
    BY DEF Inv, TypeOK, ThreadsOK
  <1> DEFINE Becomes(t) == /\ handler' = [handler EXCEPT ![h] = t]
                           /\ ThreadOK(t)
                           /\ t.money # None => Final(t.money) <= Final(chain[t.vid])
  <1>0. Idle \in Thread /\ Idle.pc = "idle" /\ Idle.money = None
    BY AmountAssumption DEF Idle, Thread
  <1>3. \E t \in Thread : Becomes(t)
    <2>1. ASSUME NEW v \in Vid, Quote(h, v)
          PROVE  \E t \in Thread : Becomes(t)
      <3> DEFINE t == [Idle EXCEPT !.pc = "quote", !.vid = v, !.epoch = current]
      <3>1. t \in Thread /\ t.pc = "quote" /\ t.vid = v /\ t.money = None
        BY <1>0, <1>2 DEF Thread
      <3>2. QED
        BY <2>1, <3>1, NoneAssumption DEF Quote, ThreadOK
    <2>2. ASSUME NEW v \in Vid, NEW b \in Batch \cup {None}, Ask(h, v, b)
          PROVE  \E t \in Thread : Becomes(t)
      <3> DEFINE p == IF voucher[v].state = "issued" THEN "check" ELSE "ask"
                 t == [Idle EXCEPT !.pc = p, !.vid = v, !.batch = b]
      <3>1. p \in {"check", "ask"} /\ (p = "check" => b # None)
        BY <2>2 DEF Ask
      <3>2. handler' = [handler EXCEPT ![h] = t] /\ voucher[v] # None
        BY <2>2 DEF Ask
      <3> HIDE DEF p
      <3>3. /\ t \in Thread /\ t.pc = p /\ t.vid = v /\ t.batch = b
            /\ t.money = None
        BY <1>0, <3>1 DEF Thread
      <3>4. QED
        BY <3>1, <3>2, <3>3, NoneAssumption DEF ThreadOK
    <2>3. CASE Receive(h)
      <3> DEFINE t == [handler[h] EXCEPT !.pc = "observe", !.money = chain[handler[h].vid]]
      <3>1. handler' = [handler EXCEPT ![h] = t]
        BY <2>3 DEF Receive, Inv, TypeOK
      <3>2. handler[h].vid \in Vid /\ voucher[handler[h].vid] # None
        BY <1>2, <2>3 DEF Receive, Thread, ThreadOK
      <3>3. chain[handler[h].vid] \in Money
        BY <3>2 DEF Inv, TypeOK
      <3>4. /\ t \in Thread /\ t.pc = "observe" /\ t.vid = handler[h].vid
            /\ t.money = chain[handler[h].vid]
        BY <1>2, <3>3 DEF Thread
      <3>5. Final(t.money) <= Final(chain[t.vid])
        BY <3>3, <3>4, MoneyFacts
      <3>6. ThreadOK(t)
        BY <3>2, <3>3, <3>4, NoneAssumption DEF ThreadOK
      <3>7. QED
        BY <3>1, <3>4, <3>5, <3>6
    <2>4. CASE Fails(h)
      <3>1. QED
        BY <1>0, <2>4 DEF Fails, ThreadOK
    <2>5. CASE CheckIssuing(h)
      <3> DEFINE o == voucher[handler[h].vid].epoch \notin closed
                 t == [handler[h] EXCEPT !.pc = "redeem", !.open = o]
      <3>1. handler' = [handler EXCEPT ![h] = t]
        BY <2>5 DEF CheckIssuing, Inv, TypeOK
      <3>2. o \in BOOLEAN
        OBVIOUS
      <3> HIDE DEF o
      <3>3. /\ t \in Thread /\ t.pc = "redeem" /\ t.vid = handler[h].vid
            /\ t.money = handler[h].money /\ t.batch = handler[h].batch
        BY <1>2, <3>2 DEF Thread
      <3>4. QED
        BY <1>2, <2>5, <3>1, <3>3 DEF CheckIssuing, ThreadOK
    <2>6. QED
      BY <2>1, <2>2, <2>3, <2>4, <2>5
  <1>4. PICK t \in Thread : Becomes(t)
    BY <1>3
  <1>5. ThreadOK(t)'
    BY <1>1, <1>4 DEF ThreadOK
  <1>6. /\ handler' \in [Handler -> Thread] /\ ThreadsOK' /\ PollerOK'
        /\ \A g \in Handler : handler'[g].money # None =>
               Final(handler'[g].money) <= Final(chain'[handler'[g].vid])
        /\ poller'.money # None => Final(poller'.money) <= Final(chain'[poller'.vid])
    BY <1>1, <1>4, <1>5, ThreadStep
  <1>7. TypeOK'
    BY <1>1, <1>6 DEF Inv, TypeOK, RowsOK, RowOK
  <1>8. ObservationsAreCovered' /\ IssuedIsFunded'
    BY <1>1, <1>6 DEF Inv, ObservationsAreCovered, IssuedIsFunded, Issued
  <1>9. QED
    BY <1>1, <1>7, <1>8 DEF Inv

\* What a step that may change which rows are issued must show.
LEMMA InvFromParts ==
    ASSUME Inv, UNCHANGED <<chain, reorgs, window, price, current, closed>>,
           voucher' \in [Vid -> Row \cup {None}], RowsOK',
           handler' \in [Handler -> Thread], ThreadsOK',
           poller' \in Poller, PollerOK',
           \A g \in Handler : handler'[g].money # None =>
               Final(handler'[g].money) <= Final(chain'[handler'[g].vid]),
           poller'.money # None => Final(poller'.money) <= Final(chain'[poller'.vid]),
           \A w \in Vid : (voucher[w] # None /\ voucher[w].state = "payable")' =>
               (voucher[w].owed * voucher[w].price)' <= Final(chain[w]),
           \A w \in Vid : Issued(w)' =>
               (voucher[w].batch.size * voucher[w].price)' <= Final(chain[w])
    PROVE  Inv'
  BY DEF Inv, TypeOK, ObservationsAreCovered, IssuedIsFunded

\* create_quote adds an unpaid row or nothing.
LEMMA CreateQuoteInv ==
    ASSUME Inv, NEW h \in Handler, CreateQuote(h)
    PROVE  /\ Inv' /\ UNCHANGED chain
           /\ \A w \in Vid : Issued(w)' <=> Issued(w)
           /\ \A w \in Vid : Issued(w) => voucher'[w] = voucher[w]
  <1> DEFINE v == handler[h].vid
             row == [state |-> "quoted", quoted |-> price, seen |-> 0,
                     confirmed |-> 0, price |-> 0, owed |-> 0, batch |-> None,
                     epoch |-> handler[h].epoch]
  <1>1. UNCHANGED <<chain, reorgs, window, price, current, closed, poller>>
    BY DEF CreateQuote, environment, epochs
  <1>2. handler[h] \in Thread /\ ThreadOK(handler[h]) /\ voucher \in [Vid -> Row \cup {None}]
    BY DEF Inv, TypeOK, ThreadsOK
  <1>3. v \in Vid /\ handler[h].epoch \in 0..MaxEpoch
    BY <1>2 DEF CreateQuote, Thread, ThreadOK
  <1>4. row \in Row
    BY <1>3 DEF Inv, TypeOK, Row, State
  <1>5. row # None /\ RowOK(row) /\ row.state = "quoted"
    BY <1>4, NoneAssumption DEF RowOK
  <1>6. voucher' = IF voucher[v] # None THEN voucher ELSE [voucher EXCEPT ![v] = row]
    BY DEF CreateQuote
  <1> HIDE DEF row
  <1>7. voucher' \in [Vid -> Row \cup {None}]
    BY <1>2, <1>4, <1>6
  <1>8. \A w \in Vid : \/ voucher'[w] = voucher[w]
                       \/ voucher[w] = None /\ voucher'[w] = row
    BY <1>2, <1>6
  <1>9. RowsOK'
    BY <1>5, <1>8 DEF Inv, TypeOK, RowsOK, RowOK
  <1>10. \A w \in Vid : voucher[w] # None => voucher'[w] # None
    BY <1>8
  <1>11. Idle \in Thread /\ Idle.money = None /\ ThreadOK(Idle)'
    BY AmountAssumption DEF Idle, Thread, ThreadOK
  <1>12. /\ handler' \in [Handler -> Thread] /\ ThreadsOK' /\ PollerOK'
         /\ \A g \in Handler : handler'[g].money # None =>
                Final(handler'[g].money) <= Final(chain'[handler'[g].vid])
         /\ poller'.money # None => Final(poller'.money) <= Final(chain'[poller'.vid])
    BY <1>1, <1>10, <1>11, ThreadStep DEF CreateQuote
  <1>13. \A w \in Vid : (voucher[w] # None /\ voucher[w].state = "payable")' =>
             (voucher[w].owed * voucher[w].price)' <= Final(chain[w])
    BY <1>5, <1>8 DEF Inv, ObservationsAreCovered
  <1>14. /\ \A w \in Vid : Issued(w)' <=> Issued(w)
         /\ \A w \in Vid : Issued(w) => voucher'[w] = voucher[w]
    BY <1>5, <1>8 DEF Issued
  <1>15. \A w \in Vid : Issued(w)' =>
             (voucher[w].batch.size * voucher[w].price)' <= Final(chain[w])
    BY <1>14 DEF Inv, IssuedIsFunded
  <1>16. poller' \in Poller
    BY <1>1 DEF Inv, TypeOK
  <1>17. Inv'
    BY <1>1, <1>7, <1>9, <1>12, <1>13, <1>15, <1>16, InvFromParts
  <1>18. QED
    BY <1>1, <1>14, <1>17

\* A handler applies what it received, however long ago.
LEMMA RefreshInv ==
    ASSUME Inv, NEW h \in Handler, Refresh(h)
    PROVE  /\ Inv' /\ UNCHANGED chain
           /\ \A w \in Vid : Issued(w)' <=> Issued(w)
           /\ \A w \in Vid : Issued(w) => /\ voucher'[w].batch = voucher[w].batch
                                          /\ voucher'[w].price = voucher[w].price
  <1> DEFINE v == handler[h].vid
             m == handler[h].money
  <1>1. UNCHANGED <<chain, reorgs, window, price, current, closed, poller>>
    BY DEF Refresh, environment, epochs
  <1>2. handler[h] \in Thread /\ ThreadOK(handler[h]) /\ handler[h].pc = "observe"
    BY DEF Inv, TypeOK, ThreadsOK, Refresh
  <1>3. v \in Vid /\ voucher[v] # None /\ m \in Money /\ m # None
    BY <1>2 DEF Thread, ThreadOK
  <1>4. Final(m) <= Final(chain[v]) /\ window[v] \in Window
    BY <1>3 DEF Inv, ObservationsAreCovered, TypeOK
  <1>5. Observe(v, m, window[v])
    BY DEF Refresh
  <1>6. /\ voucher' \in [Vid -> Row \cup {None}] /\ RowsOK'
        /\ \A w \in Vid : voucher[w] # None <=> voucher'[w] # None
        /\ \A w \in Vid : Issued(w) <=> Issued(w)'
        /\ \A w \in Vid : Issued(w) => /\ voucher'[w].batch = voucher[w].batch
                                       /\ voucher'[w].price = voucher[w].price
        /\ \A w \in Vid : (voucher[w] # None /\ voucher[w].state = "payable")' =>
               (voucher[w].owed * voucher[w].price)' <= Final(chain[w])
    BY <1>1, <1>3, <1>4, <1>5, ObserveStep
  <1> DEFINE Becomes(t) == /\ handler' = [handler EXCEPT ![h] = t]
                           /\ t.money = None
                           /\ \/ t.pc = "idle"
                              \/ t.pc = "check" /\ t.vid = v /\ t.batch # None
  <1>7. \E t \in Thread : Becomes(t)
    <2>1. CASE handler[h].batch = None
      <3>1. Idle \in Thread /\ Idle.pc = "idle" /\ Idle.money = None
        BY AmountAssumption DEF Idle, Thread
      <3>2. handler' = [handler EXCEPT ![h] = Idle]
        BY <2>1 DEF Refresh, Inv, TypeOK
      <3>3. QED
        BY <3>1, <3>2
    <2>2. CASE handler[h].batch # None
      <3> DEFINE t == [handler[h] EXCEPT !.pc = "check", !.money = None]
      <3>1. /\ t \in Thread /\ t.money = None /\ t.pc = "check"
            /\ t.vid = v /\ t.batch # None
        BY <1>2, <2>2 DEF Thread
      <3>2. handler' = [handler EXCEPT ![h] = t]
        BY <2>2 DEF Refresh, Inv, TypeOK
      <3>3. QED
        BY <3>1, <3>2
    <2>3. QED
      BY <2>1, <2>2
  <1>8. PICK t \in Thread : Becomes(t)
    BY <1>7
  <1>9. ThreadOK(t)'
    BY <1>3, <1>6, <1>8, NoneAssumption DEF ThreadOK
  <1>10. /\ handler' \in [Handler -> Thread] /\ ThreadsOK' /\ PollerOK'
         /\ \A g \in Handler : handler'[g].money # None =>
                Final(handler'[g].money) <= Final(chain'[handler'[g].vid])
         /\ poller'.money # None => Final(poller'.money) <= Final(chain'[poller'.vid])
    BY <1>1, <1>6, <1>8, <1>9, ThreadStep
  <1>11. \A w \in Vid : Issued(w)' =>
            (voucher[w].batch.size * voucher[w].price)' <= Final(chain[w])
    BY <1>6 DEF Inv, IssuedIsFunded
  <1>12. poller' \in Poller
    BY <1>1 DEF Inv, TypeOK
  <1>13. Inv'
    BY <1>1, <1>6, <1>10, <1>11, <1>12, InvFromParts
  <1>14. QED
    BY <1>1, <1>6, <1>13

\* store.redeem: at most the one row becomes issued, with a batch its funds cover.
LEMMA RedeemInv ==
    ASSUME Inv, NEW h \in Handler, Redeem(h)
    PROVE  /\ Inv' /\ UNCHANGED chain
           /\ \/ UNCHANGED voucher
              \/ \E v \in Vid : /\ ~ Issued(v) /\ Issued(v)'
                               /\ voucher'[v].batch.size >= 1
                               /\ voucher'[v].batch.size * voucher'[v].price <= Final(chain[v])
                               /\ \A w \in Vid \ {v} : voucher'[w] = voucher[w]
  <1>1. /\ handler[h] \in Thread /\ ThreadOK(handler[h]) /\ handler[h].pc = "redeem"
        /\ voucher \in [Vid -> Row \cup {None}]
    BY DEF Inv, TypeOK, ThreadsOK, Redeem
  <1>2. handler[h].vid \in Vid
    BY <1>1 DEF Thread, ThreadOK
  <1>3. PICK v \in Vid : v = handler[h].vid
    BY <1>2
  <1> DEFINE row == voucher[v]
             b == handler[h].batch
             new == [row EXCEPT !.state = "issued", !.batch = b]
  <1>4. UNCHANGED <<chain, reorgs, window, price, current, closed, poller>>
    BY DEF Redeem, environment, epochs
  <1>5. /\ row # None /\ row \in Row /\ RowOK(row)
        /\ b \in Batch /\ b # None
    BY <1>1, <1>3 DEF Thread, ThreadOK, Inv, TypeOK, RowsOK
  <1>6. new \in Row
    BY <1>5 DEF Row, State
  <1>7. /\ new # None /\ new.state = "issued" /\ new.batch = b /\ new.price = row.price
        /\ new.owed = row.owed
    BY <1>5, <1>6, NoneAssumption DEF Row
  <1>8. RowOK(new)
    BY <1>5, <1>7 DEF RowOK
  <1>9. voucher' = IF Redeemable(h) THEN [voucher EXCEPT ![v] = new] ELSE voucher
    BY <1>1, <1>3 DEF Redeem
  <1>10. Redeemable(h) => /\ row.state = "payable" /\ b.size = row.owed
                          /\ row.owed >= 1
                          /\ row.owed * row.price <= Final(chain[v])
    BY <1>3, <1>5 DEF Redeemable, Inv, ObservationsAreCovered, RowOK
  <1> HIDE DEF new
  <1>11. voucher' \in [Vid -> Row \cup {None}]
    BY <1>1, <1>6, <1>9
  <1>12. \A w \in Vid : \/ voucher'[w] = voucher[w]
                        \/ Redeemable(h) /\ w = v /\ voucher'[w] = new
    BY <1>1, <1>9
  <1>13. RowsOK'
    BY <1>8, <1>12 DEF Inv, TypeOK, RowsOK, RowOK
  <1>14. \A w \in Vid : voucher[w] # None => voucher'[w] # None
    BY <1>7, <1>12
  <1>15. Idle \in Thread /\ Idle.money = None /\ ThreadOK(Idle)'
    BY AmountAssumption DEF Idle, Thread, ThreadOK
  <1>16. /\ handler' \in [Handler -> Thread] /\ ThreadsOK' /\ PollerOK'
         /\ \A g \in Handler : handler'[g].money # None =>
                Final(handler'[g].money) <= Final(chain'[handler'[g].vid])
         /\ poller'.money # None => Final(poller'.money) <= Final(chain'[poller'.vid])
    BY <1>4, <1>14, <1>15, ThreadStep DEF Redeem
  <1>17. \A w \in Vid : (voucher[w] # None /\ voucher[w].state = "payable")' =>
             (voucher[w].owed * voucher[w].price)' <= Final(chain[w])
    BY <1>7, <1>12 DEF Inv, ObservationsAreCovered
  <1>18. \A w \in Vid : Issued(w)' =>
             (voucher[w].batch.size * voucher[w].price)' <= Final(chain[w])
    BY <1>7, <1>10, <1>12 DEF Inv, IssuedIsFunded, Issued
  <1>19. poller' \in Poller
    BY <1>4 DEF Inv, TypeOK
  <1>20. Inv'
    BY <1>4, <1>11, <1>13, <1>16, <1>17, <1>18, <1>19, InvFromParts
  <1>21. CASE ~ Redeemable(h)
    BY <1>4, <1>9, <1>20, <1>21
  <1>22. CASE Redeemable(h)
    <2>1. voucher'[v] = new /\ \A w \in Vid \ {v} : voucher'[w] = voucher[w]
      BY <1>1, <1>5, <1>9, <1>22
    <2>2. ~ Issued(v) /\ Issued(v)'
      BY <1>7, <1>10, <1>22, <2>1 DEF Issued
    <2>3. /\ voucher'[v].batch.size >= 1
          /\ voucher'[v].batch.size * voucher'[v].price <= Final(chain[v])
      BY <1>7, <1>10, <1>22, <2>1
    <2>4. QED
      BY <1>4, <1>5, <1>20, <2>1, <2>2, <2>3
  <1>23. QED
    BY <1>21, <1>22

\* A pass of the poller: it reads the chain or applies what it read.
LEMMA PollInv ==
    ASSUME Inv, Poll
    PROVE  /\ Inv' /\ UNCHANGED chain
           /\ \A w \in Vid : Issued(w)' <=> Issued(w)
           /\ \A w \in Vid : Issued(w) => /\ voucher'[w].batch = voucher[w].batch
                                          /\ voucher'[w].price = voucher[w].price
  <1>1. UNCHANGED <<chain, reorgs, window, price, current, closed, handler>>
    BY DEF Poll, PollStart, PollReceive, PollFails, PollObserve, environment, epochs
  <1>2. /\ poller \in Poller /\ PollerOK /\ window \in [Vid -> Window]
        /\ handler \in [Handler -> Thread] /\ voucher \in [Vid -> Row \cup {None}]
        /\ chain \in [Vid -> Money]
    BY DEF Inv, TypeOK
  <1>3. /\ PollerIdle \in Poller
        /\ PollerIdle.todo = {} /\ PollerIdle.vid = None /\ PollerIdle.money = None
    BY DEF PollerIdle, Poller, Window
  <1>4. /\ voucher' \in [Vid -> Row \cup {None}] /\ RowsOK'
        /\ \A w \in Vid : voucher[w] # None <=> voucher'[w] # None
        /\ \A w \in Vid : Issued(w) <=> Issued(w)'
        /\ \A w \in Vid : Issued(w) => /\ voucher'[w].batch = voucher[w].batch
                                       /\ voucher'[w].price = voucher[w].price
        /\ \A w \in Vid : (voucher[w] # None /\ voucher[w].state = "payable")' =>
               (voucher[w].owed * voucher[w].price)' <= Final(chain[w])
    <2>1. CASE UNCHANGED voucher
      BY <1>2, <2>1 DEF Inv, TypeOK, RowsOK, RowOK, Issued, ObservationsAreCovered
    <2>2. CASE PollObserve
      <3> DEFINE v == poller.vid
      <3>1. v \in Vid /\ voucher[v] # None /\ poller.money \in Money /\ poller.money # None
        BY <1>2, <2>2 DEF PollObserve, Poller, PollerOK
      <3>2. Final(poller.money) <= Final(chain[v]) /\ poller.now[v] \in Window
        BY <1>2, <3>1 DEF Inv, ObservationsAreCovered, Poller
      <3>3. Observe(v, poller.money, poller.now[v])
        BY <2>2 DEF PollObserve
      <3>4. QED
        BY <1>1, <3>1, <3>2, <3>3, ObserveStep
    <2>3. QED
      BY <2>1, <2>2 DEF Poll, PollStart, PollReceive, PollFails
  <1>5. /\ poller' \in Poller /\ PollerOK'
        /\ poller'.money # None => Final(poller'.money) <= Final(chain[poller'.vid])
    <2>1. CASE PollStart
      <3>1. poller' = [PollerIdle EXCEPT !.todo = Open, !.now = window]
        BY <2>1 DEF PollStart
      <3>2. Open \subseteq {v \in Vid : voucher[v] # None}
        BY DEF Open
      <3>3. /\ poller' \in Poller /\ poller'.todo = Open /\ poller'.vid = None
            /\ poller'.money = None
        BY <1>2, <1>3, <3>1, <3>2 DEF Poller
      <3>4. QED
        BY <1>4, <3>2, <3>3 DEF PollerOK
    <2>2. ASSUME NEW v \in Vid, PollReceive(v)
          PROVE  <1>5
      <3>1. poller' = [poller EXCEPT !.todo = @ \ {v}, !.vid = v, !.money = chain[v]]
        BY <2>2 DEF PollReceive
      <3>2. /\ poller' \in Poller /\ poller'.todo = poller.todo \ {v}
            /\ poller'.vid = v /\ poller'.money = chain[v]
        BY <1>2, <3>1 DEF Poller
      <3>3. v \in poller.todo /\ chain[v] \in Money /\ v # None /\ chain[v] # None
        BY <1>2, <2>2, NoneAssumption DEF PollReceive
      <3>4. PollerOK'
        BY <1>2, <1>4, <3>2, <3>3 DEF PollerOK, Poller
      <3>5. QED
        BY <3>2, <3>3, <3>4, MoneyFacts
    <2>3. CASE PollFails \/ (PollObserve /\ poller.todo = {})
      <3>1. poller' = PollerIdle
        BY <2>3 DEF PollFails, PollObserve
      <3>2. QED
        BY <1>3, <3>1 DEF PollerOK
    <2>4. CASE PollObserve /\ poller.todo # {}
      <3>1. poller' = [poller EXCEPT !.vid = None, !.money = None]
        BY <2>4 DEF PollObserve
      <3>2. /\ poller' \in Poller /\ poller'.todo = poller.todo
            /\ poller'.vid = None /\ poller'.money = None
        BY <1>2, <3>1 DEF Poller
      <3>3. QED
        BY <1>2, <1>4, <3>2 DEF PollerOK, Poller
    <2>5. QED
      BY <2>1, <2>2, <2>3, <2>4 DEF Poll
  <1>6. /\ ThreadsOK'
        /\ \A g \in Handler : handler'[g].money # None =>
               Final(handler'[g].money) <= Final(chain'[handler'[g].vid])
        /\ poller'.money # None => Final(poller'.money) <= Final(chain'[poller'.vid])
    BY <1>1, <1>4, <1>5, PollerStep
  <1>7. \A w \in Vid : Issued(w)' =>
            (voucher[w].batch.size * voucher[w].price)' <= Final(chain[w])
    BY <1>4 DEF Inv, IssuedIsFunded
  <1>8. Inv'
    BY <1>1, <1>2, <1>4, <1>5, <1>6, <1>7, InvFromParts
  <1>9. QED
    BY <1>1, <1>4, <1>8

-----------------------------------------------------------------------------
(* Every step, by what it does to the money and to what is sold.           *)

\* More money at depth on one address, nothing sold.
Credits(v) ==
    /\ UNCHANGED voucher
    /\ Final(chain[v]) <= Final(chain'[v])
    /\ \A w \in Vid \ {v} : chain'[w] = chain[w]

\* One voucher is issued, within the money on its address.
Sells(v) ==
    /\ UNCHANGED chain
    /\ ~ Issued(v) /\ Issued(v)'
    /\ voucher'[v].batch.size >= 1
    /\ voucher'[v].batch.size * voucher'[v].price <= Final(chain[v])
    /\ \A w \in Vid \ {v} : voucher'[w] = voucher[w]

\* Neither.
Settles ==
    /\ UNCHANGED chain
    /\ \A w \in Vid : Issued(w)' <=> Issued(w)
    /\ \A w \in Vid : Issued(w) => /\ voucher'[w].batch = voucher[w].batch
                                   /\ voucher'[w].price = voucher[w].price

\* The invariant is inductive, and every step is one of the three.
LEMMA NextFacts ==
    ASSUME Inv, [Next]_vars
    PROVE  /\ Inv'
           /\ \/ \E v \in Vid : Credits(v) \/ Sells(v)
              \/ Settles
  <1>1. ASSUME UNCHANGED <<chain, voucher>> PROVE Settles
    BY <1>1 DEF Settles, Issued
  <1>2. CASE UNCHANGED vars
    <2>1. Inv'
      BY <1>2 DEF vars, Inv, TypeOK, RowsOK, RowOK, ThreadsOK, ThreadOK, PollerOK,
                  ObservationsAreCovered, IssuedIsFunded, Issued
    <2>2. QED
      BY <1>1, <1>2, <2>1 DEF vars
  <1>3. CASE Chain
    <2>1. PICK v \in Vid : \/ \E x \in 1..MaxPaid : Pay(v, x)
                           \/ \E d \in 0..2, x \in 1..MaxPaid : Mine(v, d, x)
                           \/ \E d \in 0..1, x \in 1..MaxPaid : Reorg(v, d, x)
                           \/ Elapse(v)
      BY <1>3 DEF Chain
    <2>2. CASE Elapse(v)
      BY <1>1, <2>2, ClockInv
    <2>3. CASE ~ Elapse(v)
      <3>1. PICK x \in 1..MaxPaid : \/ Pay(v, x)
                                     \/ \E d \in 0..2 : Mine(v, d, x)
                                     \/ \E e \in 0..1 : Reorg(v, e, x)
        BY <2>1, <2>3
      <3>2. QED
        BY <3>1, ChainInv DEF Credits
    <2>4. QED
      BY <2>2, <2>3
  <1>4. CASE Operator
    BY <1>1, <1>4, ClockInv, RestartInv DEF Operator
  <1>5. ASSUME NEW h \in Handler, Request(h)
        PROVE  Inv' /\ Settles
    BY <1>1, <1>5, ReadInv DEF Request
  <1>6. ASSUME NEW h \in Handler, Serve(h), ~ Redeem(h)
        PROVE  Inv' /\ Settles
    <2>1. CASE CreateQuote(h)
      BY <2>1, CreateQuoteInv DEF Settles
    <2>2. CASE Refresh(h)
      BY <2>2, RefreshInv DEF Settles
    <2>3. CASE Receive(h) \/ Fails(h) \/ CheckIssuing(h)
      BY <1>1, <2>3, ReadInv
    <2>4. QED
      BY <1>6, <2>1, <2>2, <2>3 DEF Serve
  <1>7. ASSUME NEW h \in Handler, Redeem(h)
        PROVE  Inv' /\ (Settles \/ \E v \in Vid : Sells(v))
    BY <1>1, <1>7, RedeemInv DEF Sells
  <1>8. CASE Poll
    BY <1>8, PollInv DEF Settles
  <1>9. QED
    BY <1>2, <1>3, <1>4, <1>5, <1>6, <1>7, <1>8 DEF Next

-----------------------------------------------------------------------------
(* The theorems.                                                           *)

LEMMA Invariance == Spec => []Inv
  <1>1. Inv /\ [Next]_vars => Inv'
    BY NextFacts
  <1>2. QED
    BY InitInv, <1>1, PTL DEF Spec

\* Rows, threads and the poller stay well formed: an issued row has its batch, an
\* unissued one has none, and no thread holds an observation of nothing.
THEOREM Typing == Spec => []TypeOK
  <1>1. Inv => TypeOK
    BY DEF Inv
  <1>2. QED
    BY Invariance, <1>1, PTL

\* No batch is issued that the money buried on its address does not pay for,
\* whatever stale or fresh observations store.observe folded in on the way.
THEOREM Funding == Spec => []IssuedIsFunded
  <1>1. Inv => IssuedIsFunded
    BY DEF Inv
  <1>2. QED
    BY Invariance, <1>1, PTL

\* An observation taken before the lock never shows more buried money than there
\* is when it is applied, and a payable row never owes more than that.
THEOREM Coverage == Spec => []ObservationsAreCovered
  <1>1. Inv => ObservationsAreCovered
    BY DEF Inv
  <1>2. QED
    BY Invariance, <1>1, PTL

\* What Sale sees of a row.
Sold(v) ==
    IF Issued(v) THEN [batch |-> voucher[v].batch, price |-> voucher[v].price] ELSE None

LEMMA InitSimulates == Init => Promise!Init
  <1> SUFFICES ASSUME Init PROVE Promise!Init
    OBVIOUS
  <1>1. \A v \in Vid : Final(chain[v]) = 0 /\ ~ Issued(v)
    BY DEF Init, NoMoney, Depth, Final, Issued
  <1>2. QED
    BY <1>1 DEF Promise!Init

\* Each of the three is a step of the promise: a credit, a sale, or none.
LEMMA NextSimulates ==
    ASSUME Inv, [Next]_vars
    PROVE  [Promise!Next]_(Promise!vars)
  <1> DEFINE funds == [v \in Vid |-> Final(chain[v])]
             sale == [v \in Vid |-> Sold(v)]
  <1>1. CASE Settles
    <2>1. \A w \in Vid : Sold(w)' = Sold(w)
      BY <1>1 DEF Settles, Sold
    <2>2. UNCHANGED <<funds, sale>>
      BY <1>1, <2>1 DEF Settles
    <2>3. QED
      BY <2>2 DEF Promise!vars, Sold
  <1>2. ASSUME NEW v \in Vid, Credits(v)
        PROVE  [Promise!Next]_(Promise!vars)
    <2>1. \A w \in Vid : Sold(w)' = Sold(w)
      BY <1>2 DEF Credits, Sold, Issued
    <2>2. sale' = sale
      BY <2>1
    <2>3. \A w \in Vid \ {v} : funds'[w] = funds[w]
      BY <1>2 DEF Credits
    <2>4. funds' = [funds EXCEPT ![v] = funds'[v]]
      BY <2>3
    <2>5. CASE Final(chain[v]) = Final(chain'[v])
      <3>1. funds' = funds
        BY <2>3, <2>5
      <3>2. QED
        BY <2>2, <3>1 DEF Promise!vars, Sold
    <2>6. CASE Final(chain[v]) # Final(chain'[v])
      <3>1. funds'[v] > funds[v]
        <4>1. Final(chain[v]) \in Nat /\ Final(chain'[v]) \in Nat
          BY NextFacts, MoneyFacts DEF Inv, TypeOK
        <4>2. QED
          BY <1>2, <2>6, <4>1 DEF Credits
      <3>2. Promise!Credit(v)
        BY <2>2, <2>4, <3>1 DEF Promise!Credit, Sold
      <3>3. QED
        BY <3>2 DEF Promise!Next
    <2>7. QED
      BY <2>5, <2>6
  <1>3. ASSUME NEW v \in Vid, Sells(v)
        PROVE  [Promise!Next]_(Promise!vars)
    <2>1. \A w \in Vid \ {v} : sale'[w] = sale[w]
      BY <1>3 DEF Sells, Sold, Issued
    <2>2. sale' = [sale EXCEPT ![v] = sale'[v]]
      BY <2>1
    <2>3. sale[v] = None
      BY <1>3 DEF Sells, Sold
    <2>4. sale'[v] = [batch |-> voucher'[v].batch, price |-> voucher'[v].price]
      BY <1>3 DEF Sells, Sold
    <2>5. sale'[v] # None
      <3>1. voucher'[v] \in Row
        BY <1>3, NextFacts DEF Inv, TypeOK, Sells, Issued
      <3>2. voucher'[v].batch \in Batch
        BY <1>3, <3>1, NextFacts DEF Inv, TypeOK, RowsOK, RowOK, Sells, Issued, Row
      <3>3. voucher'[v].price \in Prices \cup {0}
        BY <3>1 DEF Row
      <3>4. QED
        BY <2>4, <3>2, <3>3, NoneAssumption
    <2>6. /\ sale'[v].batch.size >= 1
          /\ sale'[v].batch.size * sale'[v].price <= funds[v]
      BY <1>3, <2>4 DEF Sells
    <2>7. funds' = funds
      BY <1>3 DEF Sells
    <2>8. Promise!Sell(v)
      BY <2>2, <2>3, <2>5, <2>6, <2>7 DEF Promise!Sell, Sold
    <2>9. QED
      BY <2>8 DEF Promise!Next
  <1>4. QED
    BY <1>1, <1>2, <1>3, NextFacts

\* The store, its threads and its poller implement the issuer's promise.
THEOREM Implementation == Spec => KeepsPromise
  <1>1. Inv /\ [Next]_vars => [Promise!Next]_(Promise!vars)
    BY NextSimulates
  <1>2. QED
    BY Invariance, InitSimulates, <1>1, PTL DEF Spec, KeepsPromise, Promise!Spec

-----------------------------------------------------------------------------
(* The locked price.                                                       *)

LEMMA AdvanceKeepsPrice ==
    ASSUME NEW row \in Row, NEW m \in Money, NEW when \in Window, row.price # 0
    PROVE  LET new == Advance(row, m, when) IN
           new.price = row.price \/ new.seen = 0
  <1>1. CASE row.state = "issued"
    BY <1>1 DEF Advance, Counted, Row
  <1>2. CASE row.state # "issued" /\ Total(m) = 0
    <2> DEFINE st == IF when = "quote" THEN "quoted" ELSE "expired_unpaid"
    <2>1. Advance(row, m, when) =
            [row EXCEPT !.state = st, !.seen = 0, !.confirmed = 0, !.price = 0,
                        !.owed = 0]
      BY <1>2 DEF Advance, Unpaid
    <2> HIDE DEF st
    <2>2. Advance(row, m, when).seen = 0
      BY <2>1 DEF Row
    <2>3. QED
      BY <2>2
  <1>3. CASE row.state # "issued" /\ Total(m) > 0 /\ Confirmed(m) = 0
    BY <1>3, MoneyFacts DEF Advance, Pending, Counted, Row
  <1>4. CASE row.state # "issued" /\ Total(m) > 0 /\ Confirmed(m) # 0
    <2>1. Advance(row, m, when) = Credited(row, m, when)
      BY <1>4, MoneyFacts DEF Advance
    <2>2. Credited(row, m, when).price = row.price
      BY DEF Credited, Counted, Row
    <2>3. QED
      BY <2>1, <2>2
  <1>5. QED
    BY <1>1, <1>2, <1>3, <1>4, MoneyFacts

\* An observation of any row.
LEMMA ObserveKeepsPrice ==
    ASSUME Inv, NEW v \in Vid, NEW w \in Vid, NEW m \in Money, NEW when \in Window,
           voucher[w] # None, voucher[w].price # 0, Observe(v, m, when)
    PROVE  voucher'[w].price = voucher[w].price \/ voucher'[w].seen = 0
  <1>1. voucher \in [Vid -> Row \cup {None}] /\ voucher[w] \in Row
    BY DEF Inv, TypeOK
  <1>2. voucher'[w] = IF w = v THEN Advance(voucher[w], m, when) ELSE voucher[w]
    BY <1>1 DEF Observe
  <1>3. QED
    BY <1>1, <1>2, AdvanceKeepsPrice

LEMMA StepKeepsPrice ==
    ASSUME Inv, [Next]_vars, NEW w \in Vid, voucher[w] # None, voucher[w].price # 0
    PROVE  voucher'[w].price = voucher[w].price \/ voucher'[w].seen = 0
  <1>1. voucher \in [Vid -> Row \cup {None}] /\ voucher[w] \in Row
    BY DEF Inv, TypeOK
  <1>2. CASE UNCHANGED voucher
    BY <1>2
  <1>3. ASSUME NEW h \in Handler, CreateQuote(h)
        PROVE  voucher'[w] = voucher[w]
    BY <1>1, <1>3 DEF CreateQuote
  <1>4. ASSUME NEW h \in Handler, Refresh(h)
        PROVE  voucher'[w].price = voucher[w].price \/ voucher'[w].seen = 0
    <2>1. handler[h] \in Thread /\ ThreadOK(handler[h])
      BY DEF Inv, TypeOK, ThreadsOK
    <2>2. handler[h].vid \in Vid /\ handler[h].money \in Money
      BY <1>4, <2>1 DEF Refresh, Thread, ThreadOK
    <2>3. window[handler[h].vid] \in Window
      BY <2>2 DEF Inv, TypeOK
    <2>4. Observe(handler[h].vid, handler[h].money, window[handler[h].vid])
      BY <1>4 DEF Refresh
    <2>5. QED
      BY <2>2, <2>3, <2>4, ObserveKeepsPrice
  <1>5. ASSUME NEW h \in Handler, Redeem(h)
        PROVE  voucher'[w].price = voucher[w].price
    <2>1. \/ voucher' = voucher
          \/ voucher' = [voucher EXCEPT ![handler[h].vid].state = "issued",
                                        ![handler[h].vid].batch = handler[h].batch]
      BY <1>5 DEF Redeem
    <2>2. QED
      BY <1>1, <2>1 DEF Row
  <1>6. CASE PollObserve
    <2>1. poller \in Poller /\ PollerOK
      BY DEF Inv, TypeOK
    <2>2. poller.vid \in Vid /\ poller.money \in Money
      BY <1>6, <2>1 DEF PollObserve, Poller, PollerOK
    <2>3. poller.now[poller.vid] \in Window
      BY <2>1, <2>2 DEF Poller
    <2>4. Observe(poller.vid, poller.money, poller.now[poller.vid])
      BY <1>6 DEF PollObserve
    <2>5. QED
      BY <2>2, <2>3, <2>4, ObserveKeepsPrice
  <1>7. QED
    BY <1>2, <1>3, <1>4, <1>5, <1>6
    DEF Next, vars, Chain, Operator, Request, Serve, Poll, Pay, Mine, Reorg, Elapse,
        Restart, CloseIssue, InsertEpoch, Quote, Ask, Receive, CheckIssuing, Fails,
        PollStart, PollReceive, PollFails

\* Once a confirmed payment has fixed a voucher's price, advance() changes it only
\* in an observation that finds the address empty.
THEOREM PriceLock == Spec => PriceStaysLocked
  <1>1. Inv /\ [Next]_vars =>
            [\A v \in Vid :
               (voucher[v] # None /\ voucher[v].price # 0
                   /\ voucher'[v].price # voucher[v].price)
               => voucher'[v].seen = 0]_vars
    BY StepKeepsPrice
  <1>2. QED
    BY Invariance, <1>1, PTL DEF Spec, PriceStaysLocked
=============================================================================
