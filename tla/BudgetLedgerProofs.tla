-------------------------- MODULE BudgetLedgerProofs --------------------------
(* Proofs about BudgetLedger, for any buckets, caps, reservations and prices.  *)
EXTENDS BudgetLedger, TLAPS

\* A call whose reservation is in the ledger.
Reserved1 == call.at \in {"calling", "answered", "settling"}

\* As long as a call is under way its reservation stands, and the ledger is open:
\* only a settlement closes it, and a call that is settled is over.
CallIsReserved == Reserved1 => ledger.blind[call.bucket] > 0 /\ ~ledger.halted

\* What the provider charged for everything but the call under way.
BillBefore(b) == billed[b] <= ledger.known[b] + MaxCost * (ledger.blind[b] - 1 + cut[b])

\* The bill, bucket by bucket: nothing is charged yet for a call that was not
\* answered, and no more than its price for one that was, unless it was cut off and
\* is counted so.
BillIsCovered ==
  \A b \in Buckets :
    LET own == Reserved1 /\ call.bucket = b IN
    /\ own /\ call.at = "calling" => BillBefore(b)
    /\ own /\ call.at # "calling" /\ call.price # None =>
         billed[b] <= ledger.known[b] + call.price + MaxCost * (ledger.blind[b] - 1 + cut[b])

\* The inductive invariant.
LedgerInv == LedgerTypeOK /\ CallIsReserved /\ CapsHold /\ LedgerCoversBill /\ BillIsCovered

\* Products with a reservation, more or less by one entry.
LEMMA OneEntry ==
  ASSUME NEW r \in Nat, NEW n \in Nat
  PROVE  /\ r * n \in Nat
         /\ r * (n + 1) = r * n + r
         /\ r * (n - 1) = r * n - r
  OBVIOUS

\* Sizes of what the constants give.
LEMMA PriceTyped ==
  ASSUME NEW p \in Prices
  PROVE  p \in Nat /\ p <= MaxCost /\ p # None /\ p <= Reserve + Overrun
  BY LedgerAssumption DEF Overrun

\* The file is empty at first.
LEMMA LedgerInitInv == LedgerInit => LedgerInv
  <1> SUFFICES ASSUME LedgerInit PROVE LedgerInv
    OBVIOUS
  <1>1. \A b \in Buckets : Cap[b] \in Nat /\ Reserve * 0 = 0 /\ MaxCost * 0 = 0
    BY LedgerAssumption
  <1>2. Overrun \in Nat
    BY LedgerAssumption DEF Overrun
  <1>3. LedgerTypeOK
    BY DEF LedgerInit, LedgerTypeOK
  <1>4. CallIsReserved /\ BillIsCovered
    BY DEF LedgerInit, CallIsReserved, BillIsCovered, Reserved1, Idle
  <1>5. CapsHold /\ LedgerCoversBill
    BY <1>1, <1>2 DEF LedgerInit, CapsHold, LedgerCoversBill, Booked
  <1> QED BY <1>3, <1>4, <1>5 DEF LedgerInv

\* A reservation that fits keeps the ledger within its caps.
LEMMA ReservationFits ==
  ASSUME LedgerInv, NEW b \in Buckets, Fits(b), ledger' = WithReservation(b)
  PROVE  /\ ledger' \in [known : [Buckets -> Nat], blind : [Buckets -> Nat], halted : BOOLEAN]
         /\ CapsHold'
         /\ ~ledger'.halted /\ ledger'.known = ledger.known
         /\ ledger'.blind = [ledger.blind EXCEPT ![b] = @ + 1]
  <1>1. ledger \in [known : [Buckets -> Nat], blind : [Buckets -> Nat], halted : BOOLEAN]
    BY DEF LedgerInv, LedgerTypeOK
  <1>2. /\ ledger'.known = ledger.known /\ ledger'.halted = ledger.halted
        /\ ledger'.blind = [ledger.blind EXCEPT ![b] = @ + 1]
        /\ ledger' \in [known : [Buckets -> Nat], blind : [Buckets -> Nat], halted : BOOLEAN]
    BY <1>1 DEF WithReservation
  <1>3. ASSUME NEW x \in Buckets PROVE Booked(ledger', x) <= Cap[x]
    <2>1. Reserve * (ledger.blind[b] + 1) = Reserve * ledger.blind[b] + Reserve
      BY <1>1, OneEntry, LedgerAssumption
    <2>2. Booked(ledger, x) <= Cap[x] /\ Booked(ledger, b) + Reserve <= Cap[b]
      BY DEF Fits, LedgerInv, CapsHold
    <2>3. CASE x = b
      BY <1>1, <1>2, <2>1, <2>2, <2>3, OneEntry, LedgerAssumption DEF Booked
    <2>4. CASE x # b
      BY <1>1, <1>2, <2>2, <2>4 DEF Booked
    <2> QED BY <2>3, <2>4
  <1>4. \A x \in Buckets : /\ Cap[x] \in Nat /\ Overrun \in Nat
                           /\ Booked(ledger', x) \in Nat
    BY <1>2, OneEntry, LedgerAssumption DEF Booked, Overrun
  <1>5. CapsHold'
    BY <1>3, <1>4 DEF CapsHold
  <1> QED BY <1>2, <1>5 DEF Fits

\* A settlement gives the reservation back for the price, and closes the ledger
\* when there is none, or when it brings the bucket over its cap.
LEMMA SettlementFits ==
  ASSUME LedgerInv, call.at = "settling", ledger' = WithPrice(call.bucket, call.price)
  PROVE  /\ ledger' \in [known : [Buckets -> Nat], blind : [Buckets -> Nat], halted : BOOLEAN]
         /\ CapsHold'
         /\ \A b \in Buckets :
              billed[b] <= ledger'.known[b] + MaxCost * (ledger'.blind[b] + cut[b])
  <1> DEFINE b == call.bucket
             p == call.price
             l == [ledger EXCEPT !.blind[b] = @ - 1, !.known[b] = @ + p]
  <1>1. /\ ledger \in [known : [Buckets -> Nat], blind : [Buckets -> Nat], halted : BOOLEAN]
        /\ b \in Buckets /\ p \in Prices \cup {None} /\ billed \in [Buckets -> Nat]
        /\ cut \in [Buckets -> Nat]
    BY DEF LedgerInv, LedgerTypeOK, Idle
  <1>2. ledger.blind[b] > 0 /\ ~ledger.halted
    BY DEF LedgerInv, CallIsReserved, Reserved1
  <1>3. ASSUME NEW x \in Buckets
        PROVE  /\ Cap[x] \in Nat /\ Booked(ledger, x) \in Nat
               /\ Booked(ledger, x) <= Cap[x]
               /\ billed[x] <= ledger.known[x] + MaxCost * (ledger.blind[x] + cut[x])
    <2>1. ledger.known[x] \in Nat /\ ledger.blind[x] \in Nat /\ Cap[x] \in Nat
      BY <1>1, LedgerAssumption
    <2>2. Reserve * ledger.blind[x] \in Nat
      BY <2>1, OneEntry, LedgerAssumption
    <2>3. Booked(ledger, x) \in Nat
      BY <2>1, <2>2 DEF Booked
    <2>4. Booked(ledger, x) <= Cap[x]
      BY <1>2 DEF LedgerInv, CapsHold
    <2>5. billed[x] <= ledger.known[x] + MaxCost * (ledger.blind[x] + cut[x])
      BY DEF LedgerInv, LedgerCoversBill
    <2> QED BY <2>1, <2>3, <2>4, <2>5
  <1>4. Overrun \in Nat
    BY LedgerAssumption DEF Overrun
  <1>5. CASE p = None
    <2>1. /\ ledger'.known = ledger.known /\ ledger'.blind = ledger.blind /\ ledger'.halted
          /\ ledger' \in [known : [Buckets -> Nat], blind : [Buckets -> Nat], halted : BOOLEAN]
      BY <1>1, <1>5 DEF WithPrice
    <2>2. \A x \in Buckets : Booked(ledger', x) = Booked(ledger, x)
      BY <2>1 DEF Booked
    <2> QED BY <1>3, <1>4, <2>1, <2>2 DEF CapsHold
  <1>6. CASE p # None
    <2>1. p \in Nat /\ p <= Reserve + Overrun
      BY <1>1, <1>6, PriceTyped
    <2>2. /\ l \in [known : [Buckets -> Nat], blind : [Buckets -> Nat], halted : BOOLEAN]
          /\ l.known = [ledger.known EXCEPT ![b] = @ + p]
          /\ l.blind = [ledger.blind EXCEPT ![b] = @ - 1]
          /\ l.halted = FALSE
      <3>1. /\ ledger.blind[b] - 1 \in Nat /\ ledger.known[b] + p \in Nat
        BY <1>1, <1>2, <2>1
      <3>2. /\ [ledger.known EXCEPT ![b] = @ + p] \in [Buckets -> Nat]
            /\ [ledger.blind EXCEPT ![b] = @ - 1] \in [Buckets -> Nat]
        BY <1>1, <3>1
      <3>3. l = [[ledger EXCEPT !.blind = [ledger.blind EXCEPT ![b] = @ - 1]]
                  EXCEPT !.known = [ledger.known EXCEPT ![b] = @ + p]]
        BY <1>1
      <3>4. /\ l.known = [ledger.known EXCEPT ![b] = @ + p]
            /\ l.blind = [ledger.blind EXCEPT ![b] = @ - 1]
            /\ l.halted = ledger.halted
        BY <1>1, <3>3
      <3> QED BY <1>1, <1>2, <3>2, <3>3, <3>4
    <2>3. ledger' = [l EXCEPT !.halted = @ \/ Booked(l, b) > Cap[b]]
      BY <1>6 DEF WithPrice
    <2> HIDE DEF l
    <2>4. /\ ledger'.known = l.known /\ ledger'.blind = l.blind
          /\ ledger'.halted <=> Booked(l, b) > Cap[b]
          /\ ledger' \in [known : [Buckets -> Nat], blind : [Buckets -> Nat], halted : BOOLEAN]
      BY <2>2, <2>3
    <2>5. \A x \in Buckets : Booked(ledger', x) = Booked(l, x)
      BY <2>4 DEF Booked
    <2>6. Booked(l, b) = Booked(ledger, b) + p - Reserve
      BY <1>1, <1>2, <2>1, <2>2, OneEntry, LedgerAssumption DEF Booked
    <2>7. \A x \in Buckets \ {b} : Booked(l, x) = Booked(ledger, x)
      BY <1>1, <2>2 DEF Booked
    <2>8. CapsHold'
      BY <1>1, <1>3, <1>4, <2>1, <2>4, <2>5, <2>6, <2>7, LedgerAssumption DEF CapsHold
    <2>9. ASSUME NEW x \in Buckets
          PROVE  billed[x] <= ledger'.known[x] + MaxCost * (ledger'.blind[x] + cut[x])
      <3>1. CASE x = b
        BY <1>1, <1>6, <2>2, <2>4, <3>1 DEF LedgerInv, BillIsCovered, Reserved1
      <3>2. CASE x # b
        BY <1>1, <1>3, <2>2, <2>4, <3>2
      <3> QED BY <3>1, <3>2
    <2> QED BY <2>4, <2>8, <2>9
  <1> QED BY <1>5, <1>6

\* Every step of the ledger keeps the inductive invariant.
LEMMA LedgerStep == LedgerInv /\ [LedgerNext]_ledgerVars => LedgerInv'
  <1> SUFFICES ASSUME LedgerInv, [LedgerNext]_ledgerVars PROVE LedgerInv'
    OBVIOUS
  <1>1. /\ LedgerTypeOK /\ CapsHold /\ LedgerCoversBill
        /\ ledger \in [known : [Buckets -> Nat], blind : [Buckets -> Nat], halted : BOOLEAN]
        /\ billed \in [Buckets -> Nat] /\ cut \in [Buckets -> Nat]
    BY DEF LedgerInv, LedgerTypeOK
  <1>2. CASE UNCHANGED ledgerVars
    BY <1>2
    DEF ledgerVars, LedgerInv, LedgerTypeOK, CallIsReserved, CapsHold, LedgerCoversBill,
        BillIsCovered, BillBefore, Reserved1, Booked
  <1>3. ASSUME NEW b \in Buckets, LockToReserve(b) PROVE LedgerInv'
    <2>1. /\ call' = [at |-> "reserving", bucket |-> b, price |-> None]
          /\ UNCHANGED <<ledger, billed, cut>> /\ lock' = TRUE
      BY <1>3 DEF LockToReserve
    <2>2. LedgerTypeOK'
      BY <1>1, <2>1 DEF LedgerTypeOK, Places
    <2>3. CapsHold' /\ LedgerCoversBill'
      BY <1>1, <2>1 DEF CapsHold, LedgerCoversBill, Booked
    <2>4. CallIsReserved' /\ BillIsCovered'
      BY <2>1 DEF CallIsReserved, BillIsCovered, Reserved1
    <2> QED BY <2>2, <2>3, <2>4 DEF LedgerInv
  <1>4. CASE ReserveCost
    <2> DEFINE b == call.bucket
    <2>1. /\ call.at = "reserving" /\ Fits(b) /\ ledger' = WithReservation(b)
          /\ call' = [call EXCEPT !.at = "calling"] /\ lock' = FALSE /\ UNCHANGED <<billed, cut>>
      BY <1>4 DEF ReserveCost
    <2>2. call \in [at : Places, bucket : Buckets, price : Prices \cup {None}]
      BY <1>1, <2>1 DEF LedgerTypeOK, Idle
    <2>3. /\ ledger' \in [known : [Buckets -> Nat], blind : [Buckets -> Nat], halted : BOOLEAN]
          /\ CapsHold' /\ ~ledger'.halted /\ ledger'.known = ledger.known
          /\ ledger'.blind = [ledger.blind EXCEPT ![b] = @ + 1]
      BY <2>1, <2>2, ReservationFits
    <2>4. LedgerTypeOK' /\ call'.at = "calling" /\ call'.bucket = b
      BY <1>1, <2>1, <2>2, <2>3 DEF LedgerTypeOK, Places
    <2>5. CallIsReserved'
      BY <1>1, <2>2, <2>3, <2>4 DEF CallIsReserved
    <2>6. /\ ledger'.blind[b] = ledger.blind[b] + 1 /\ ledger'.blind[b] - 1 = ledger.blind[b]
          /\ \A x \in Buckets \ {b} : ledger'.blind[x] = ledger.blind[x]
          /\ ledger.blind[b] + 1 + cut[b] = ledger.blind[b] + cut[b] + 1
          /\ MaxCost * (ledger.blind[b] + cut[b] + 1) = MaxCost * (ledger.blind[b] + cut[b]) + MaxCost
          /\ MaxCost \in Nat /\ MaxCost * (ledger.blind[b] + cut[b]) \in Nat
      <3>1. ledger.blind[b] \in Nat /\ ledger.blind[b] + cut[b] \in Nat /\ MaxCost \in Nat
        BY <1>1, <2>2, LedgerAssumption
      <3>2. MaxCost * (ledger.blind[b] + cut[b] + 1) = MaxCost * (ledger.blind[b] + cut[b]) + MaxCost
            /\ MaxCost * (ledger.blind[b] + cut[b]) \in Nat
        BY <3>1, OneEntry
      <3> QED BY <1>1, <2>2, <2>3, <3>1, <3>2
    <2>7. LedgerCoversBill'
      BY <1>1, <2>1, <2>2, <2>3, <2>6 DEF LedgerCoversBill
    <2>8. BillIsCovered'
      BY <1>1, <2>1, <2>2, <2>3, <2>4, <2>6 DEF BillIsCovered, BillBefore, LedgerCoversBill
    <2> QED BY <2>3, <2>4, <2>5, <2>7, <2>8 DEF LedgerInv
  <1>5. CASE RefuseReservation
    <2>1. call' = Idle /\ lock' = FALSE /\ UNCHANGED <<ledger, billed, cut>>
      BY <1>5 DEF RefuseReservation
    <2>2. CallIsReserved' /\ BillIsCovered'
      BY <2>1 DEF CallIsReserved, BillIsCovered, Reserved1, Idle
    <2> QED BY <1>1, <2>1, <2>2 DEF LedgerInv, LedgerTypeOK, CapsHold, LedgerCoversBill, Booked
  <1>6. ASSUME NEW cost \in Prices, NEW price \in Prices \cup {None}, Answer(cost, price)
        PROVE  LedgerInv'
    <2> DEFINE b == call.bucket
    <2>1. /\ call.at = "calling" /\ (price # None => price <= cost)
          /\ billed' = [billed EXCEPT ![b] = @ + cost]
          /\ cut' = IF IsShort(cost, price) THEN [cut EXCEPT ![b] = @ + 1] ELSE cut
          /\ call' = [call EXCEPT !.at = "answered", !.price = price]
          /\ UNCHANGED <<ledger, lock>>
      BY <1>6 DEF Answer
    <2>2. /\ call \in [at : Places, bucket : Buckets, price : Prices \cup {None}]
          /\ cost \in Nat /\ cost <= MaxCost
      BY <1>1, <2>1, PriceTyped DEF LedgerTypeOK, Idle
    <2>3. LedgerTypeOK' /\ call'.at = "answered" /\ call'.bucket = b /\ call'.price = price
      <3>1. billed[b] + cost \in Nat /\ cut[b] + 1 \in Nat
        BY <1>1, <2>2
      <3>2. billed' \in [Buckets -> Nat] /\ cut' \in [Buckets -> Nat]
        BY <1>1, <2>1, <3>1
      <3>3. /\ call' \in [at : Places, bucket : Buckets, price : Prices \cup {None}]
            /\ call'.at = "answered" /\ call'.bucket = b /\ call'.price = price
        BY <2>1, <2>2 DEF Places
      <3> QED BY <1>1, <2>1, <3>2, <3>3 DEF LedgerTypeOK
    <2>4. CallIsReserved' /\ CapsHold'
      BY <1>1, <2>1, <2>3 DEF LedgerInv, CallIsReserved, Reserved1, CapsHold, Booked
    <2>5. /\ BillBefore(b) /\ ledger.blind[b] > 0
          /\ billed'[b] = billed[b] + cost /\ ledger' = ledger
          /\ \A x \in Buckets \ {b} : billed'[x] = billed[x] /\ cut'[x] = cut[x]
      BY <1>1, <2>1, <2>2 DEF LedgerInv, BillIsCovered, Reserved1, CallIsReserved
    <2> DEFINE n == ledger.blind[b] - 1 + cut[b]
    <2>6. /\ n \in Nat /\ MaxCost \in Nat /\ MaxCost * n \in Nat
          /\ MaxCost * (n + 1) = MaxCost * n + MaxCost
          /\ MaxCost * (n + 1 + 1) = MaxCost * n + MaxCost + MaxCost
      <3>1. n \in Nat /\ n + 1 \in Nat /\ MaxCost \in Nat
        BY <1>1, <2>2, <2>5, LedgerAssumption
      <3> QED BY <3>1, OneEntry
    <2>7. /\ \/ cut'[b] = cut[b] /\ ~IsShort(cost, price)
             \/ cut'[b] = cut[b] + 1 /\ IsShort(cost, price)
          /\ ~IsShort(cost, price) /\ price # None => price = cost
          /\ price # None => price \in Nat
      BY <1>1, <2>1, <2>2, PriceTyped DEF IsShort
    <2>8. /\ ledger.known[b] \in Nat /\ billed[b] \in Nat
          /\ billed[b] <= ledger.known[b] + MaxCost * n
      BY <1>1, <2>2, <2>5 DEF BillBefore
    <2>9. \/ /\ ledger'.blind[b] + cut'[b] = n + 1 /\ ledger'.blind[b] - 1 + cut'[b] = n
             /\ ~IsShort(cost, price)
          \/ /\ ledger'.blind[b] + cut'[b] = n + 1 + 1 /\ ledger'.blind[b] - 1 + cut'[b] = n + 1
             /\ IsShort(cost, price)
      BY <1>1, <2>2, <2>5, <2>7
    <2> HIDE DEF n
    <2>10. /\ billed'[b] <= ledger'.known[b] + MaxCost * (ledger'.blind[b] + cut'[b])
           /\ price # None =>
                billed'[b] <= ledger'.known[b] + price + MaxCost * (ledger'.blind[b] - 1 + cut'[b])
      BY <2>2, <2>5, <2>6, <2>7, <2>8, <2>9
    <2>11. LedgerCoversBill'
      BY <1>1, <2>2, <2>5, <2>10 DEF LedgerCoversBill
    <2>12. BillIsCovered'
      BY <2>3, <2>10 DEF BillIsCovered
    <2> QED BY <2>3, <2>4, <2>11, <2>12 DEF LedgerInv
  <1>7. CASE LockToSettle
    <2>1. /\ call.at = "answered" /\ call' = [call EXCEPT !.at = "settling"]
          /\ UNCHANGED <<ledger, billed, cut>> /\ lock' = TRUE
      BY <1>7 DEF LockToSettle
    <2>2. call \in [at : Places, bucket : Buckets, price : Prices \cup {None}]
      BY <1>1, <2>1 DEF LedgerTypeOK, Idle
    <2>3. /\ LedgerTypeOK' /\ call'.at = "settling" /\ call'.bucket = call.bucket
          /\ call'.price = call.price
      BY <1>1, <2>1, <2>2 DEF LedgerTypeOK, Places
    <2>4. CallIsReserved' /\ BillIsCovered'
      BY <2>1, <2>3 DEF LedgerInv, CallIsReserved, BillIsCovered, Reserved1, BillBefore
    <2> QED BY <1>1, <2>1, <2>3, <2>4 DEF LedgerInv, CapsHold, LedgerCoversBill, Booked
  <1>8. CASE SettleCost
    <2>1. /\ call.at = "settling" /\ ledger' = WithPrice(call.bucket, call.price)
          /\ lock' = FALSE /\ call' = Idle /\ UNCHANGED <<billed, cut>>
      BY <1>8 DEF SettleCost
    <2>2. /\ ledger' \in [known : [Buckets -> Nat], blind : [Buckets -> Nat], halted : BOOLEAN]
          /\ CapsHold' /\ LedgerCoversBill'
      BY <2>1, SettlementFits DEF LedgerCoversBill
    <2>3. CallIsReserved' /\ BillIsCovered'
      BY <2>1 DEF CallIsReserved, BillIsCovered, Reserved1, Idle
    <2> QED BY <1>1, <2>1, <2>2, <2>3 DEF LedgerInv, LedgerTypeOK
  <1>9. CASE AbandonCall
    <2>1. call' = Idle /\ lock' = lock /\ cut' = cut
      BY <1>9 DEF AbandonCall
    <2>2. CallIsReserved' /\ BillIsCovered'
      BY <2>1 DEF CallIsReserved, BillIsCovered, Reserved1, Idle
    <2>3. CASE UNCHANGED <<ledger, billed>>
      BY <1>1, <2>1, <2>2, <2>3 DEF LedgerInv, LedgerTypeOK, CapsHold, LedgerCoversBill, Booked
    <2>4. ASSUME NEW cost \in Prices, call.at = "calling", ledger' = ledger,
                 billed' = [billed EXCEPT ![call.bucket] = @ + cost]
          PROVE  LedgerInv'
      <3> DEFINE b == call.bucket
      <3>1. b \in Buckets /\ cost \in Nat /\ cost <= MaxCost
        BY <1>1, <2>4, PriceTyped DEF LedgerTypeOK, Idle
      <3>2. BillBefore(b) /\ ledger.blind[b] > 0
        BY <2>4, <3>1 DEF LedgerInv, BillIsCovered, Reserved1, CallIsReserved
      <3>3. /\ ledger.blind[b] - 1 + cut[b] = ledger.blind[b] + cut[b] - 1
            /\ MaxCost * (ledger.blind[b] + cut[b] - 1) = MaxCost * (ledger.blind[b] + cut[b]) - MaxCost
            /\ MaxCost \in Nat /\ MaxCost * (ledger.blind[b] + cut[b]) \in Nat
        <4>1. ledger.blind[b] + cut[b] \in Nat /\ MaxCost \in Nat
          BY <1>1, <3>1, LedgerAssumption
        <4> QED BY <1>1, <3>1, <4>1, OneEntry
      <3>4. LedgerCoversBill'
        BY <1>1, <2>1, <2>4, <3>1, <3>2, <3>3 DEF LedgerCoversBill, BillBefore
      <3>5. LedgerTypeOK'
        BY <1>1, <2>1, <2>4, <3>1 DEF LedgerTypeOK
      <3> QED BY <1>1, <2>2, <2>4, <3>4, <3>5 DEF LedgerInv, CapsHold, Booked
    <2>5. ASSUME call.at = "reserving", Fits(call.bucket), billed' = billed,
                 ledger' = WithReservation(call.bucket)
          PROVE  LedgerInv'
      <3> DEFINE b == call.bucket
      <3>1. b \in Buckets
        BY <1>1, <2>5 DEF LedgerTypeOK, Idle
      <3>2. /\ ledger' \in [known : [Buckets -> Nat], blind : [Buckets -> Nat], halted : BOOLEAN]
            /\ CapsHold' /\ ledger'.known = ledger.known
            /\ ledger'.blind = [ledger.blind EXCEPT ![b] = @ + 1]
        BY <2>5, <3>1, ReservationFits
      <3>3. /\ ledger.blind[b] + 1 + cut[b] = ledger.blind[b] + cut[b] + 1
            /\ MaxCost * (ledger.blind[b] + cut[b] + 1) = MaxCost * (ledger.blind[b] + cut[b]) + MaxCost
            /\ MaxCost \in Nat /\ MaxCost * (ledger.blind[b] + cut[b]) \in Nat
        <4>1. ledger.blind[b] + cut[b] \in Nat /\ MaxCost \in Nat
          BY <1>1, <3>1, LedgerAssumption
        <4> QED BY <1>1, <3>1, <4>1, OneEntry
      <3>4. LedgerCoversBill'
        BY <1>1, <2>1, <2>5, <3>1, <3>2, <3>3 DEF LedgerCoversBill
      <3> QED BY <1>1, <2>1, <2>2, <2>5, <3>2, <3>4 DEF LedgerInv, LedgerTypeOK
    <2>6. ASSUME call.at = "settling", billed' = billed,
                 ledger' = WithPrice(call.bucket, call.price)
          PROVE  LedgerInv'
      <3>1. /\ ledger' \in [known : [Buckets -> Nat], blind : [Buckets -> Nat], halted : BOOLEAN]
            /\ CapsHold' /\ LedgerCoversBill'
        BY <2>1, <2>6, SettlementFits DEF LedgerCoversBill
      <3> QED BY <1>1, <2>1, <2>2, <2>6, <3>1 DEF LedgerInv, LedgerTypeOK
    <2> QED BY <1>9, <2>3, <2>4, <2>5, <2>6 DEF AbandonCall
  <1> QED BY <1>2, <1>3, <1>4, <1>5, <1>6, <1>7, <1>8, <1>9 DEF LedgerNext

\* The inductive invariant always holds.
LEMMA LedgerAlways == LedgerSpec => []LedgerInv
  BY LedgerInitInv, LedgerStep, PTL DEF LedgerSpec

\* The ledger, the call and the bill keep their types (budget.py).
THEOREM LedgerTypeCorrect == LedgerSpec => []LedgerTypeOK
  <1>1. LedgerInv => LedgerTypeOK
    BY DEF LedgerInv
  <1> QED BY <1>1, LedgerAlways, PTL

\* No bucket is booked beyond its cap while the ledger is open, nor ever by more
\* than what one call cost above its reservation (reserve_cost, settle_cost).
THEOREM LedgerCaps == LedgerSpec => []CapsHold
  <1>1. LedgerInv => CapsHold
    BY DEF LedgerInv
  <1> QED BY <1>1, LedgerAlways, PTL

\* What the provider charged is covered by prices, by the reservations that stand and
\* by one call's worth for each call that was cut off, whichever calls were abandoned
\* half way (invoke_opencode_json, settle_cost).
THEOREM LedgerKnowsBill == LedgerSpec => []LedgerCoversBill
  <1>1. LedgerInv => LedgerCoversBill
    BY DEF LedgerInv
  <1> QED BY <1>1, LedgerAlways, PTL

------------------------------------------------------------------------------
(* What a bucket may cost in the end.                                         *)

\* A bucket costs no more than its cap, for every reservation that stands and for one
\* call more what a call may cost above its reservation, and what was cut off.
BillNearCaps ==
  \A b \in Buckets : billed[b] <= Cap[b] + Overrun * (ledger.blind[b] + 1) + MaxCost * cut[b]

\* Whatever a bucket costs above its cap was charged for calls that were cut off.
OnlyCutsExceed == \A b \in Buckets : billed[b] <= Cap[b] + MaxCost * cut[b]

LEMMA BillIsNear == ASSUME LedgerInv PROVE BillNearCaps /\ (MaxCost <= Reserve => OnlyCutsExceed)
  <1> SUFFICES ASSUME NEW b \in Buckets
               PROVE  /\ billed[b] <= Cap[b] + Overrun * (ledger.blind[b] + 1) + MaxCost * cut[b]
                      /\ MaxCost <= Reserve => billed[b] <= Cap[b] + MaxCost * cut[b]
    BY DEF BillNearCaps, OnlyCutsExceed
  <1> DEFINE n == ledger.blind[b]
             k == ledger.known[b]
             c == cut[b]
  <1>1. /\ n \in Nat /\ k \in Nat /\ c \in Nat /\ billed[b] \in Nat /\ Cap[b] \in Nat
        /\ MaxCost \in Nat /\ Reserve \in Nat
    BY LedgerAssumption DEF LedgerInv, LedgerTypeOK
  <1>2. Overrun \in Nat /\ MaxCost <= Reserve + Overrun /\ (MaxCost <= Reserve => Overrun = 0)
    BY <1>1 DEF Overrun
  <1>3. billed[b] <= k + MaxCost * (n + c) /\ k + Reserve * n <= Cap[b] + Overrun
    BY DEF LedgerInv, LedgerCoversBill, CapsHold, Booked
  <1> HIDE DEF n, k, c
  <1>4. MaxCost * n <= (Reserve + Overrun) * n /\ (Reserve + Overrun) * n = Reserve * n + Overrun * n
    BY <1>1, <1>2
  <1>5. Overrun * (n + 1) = Overrun * n + Overrun /\ MaxCost * (n + c) = MaxCost * n + MaxCost * c
    BY <1>1, <1>2
  <1>6. /\ MaxCost * n \in Nat /\ Reserve * n \in Nat /\ Overrun * n \in Nat
        /\ (Reserve + Overrun) * n \in Nat /\ Overrun * (n + 1) \in Nat /\ MaxCost * c \in Nat
    BY <1>1, <1>2
  <1>7. billed[b] <= Cap[b] + Overrun * (n + 1) + MaxCost * c
    BY <1>1, <1>2, <1>3, <1>4, <1>5, <1>6
  <1>8. Overrun = 0 => Overrun * (n + 1) = 0
    BY <1>1
  <1>9. ASSUME MaxCost <= Reserve PROVE billed[b] <= Cap[b] + MaxCost * c
    <2> DEFINE p == Overrun * (n + 1)
               q == MaxCost * c
    <2>1. p = 0
      BY <1>2, <1>8, <1>9
    <2>2. q \in Nat /\ billed[b] <= Cap[b] + p + q
      BY <1>6, <1>7
    <2> HIDE DEF p, q
    <2>3. billed[b] <= Cap[b] + q
      BY <1>1, <2>1, <2>2
    <2> QED BY <2>3 DEF q
  <1> QED BY <1>7, <1>9 DEF n, c

\* Abandoned and unpriced calls included, the provider charges a bucket no more than its
\* cap but for what calls cost above their reservations and for calls that were cut off
\* and settled at the steps they had finished (reserve_cost, settle_cost,
\* parse_opencode_usage).
THEOREM LedgerBoundsBill == LedgerSpec => []BillNearCaps
  <1>1. LedgerInv => BillNearCaps
    BY BillIsNear
  <1> QED BY <1>1, LedgerAlways, PTL

\* With a reservation that no call exceeds, which is what the log asks to review before a
\* paid run (log.md:1971), calls that were cut off are all that can take the bill over a
\* cap, each by what one call may cost; a bucket without such a call stays within it.
THEOREM EnoughReserved == ASSUME MaxCost <= Reserve PROVE LedgerSpec => []OnlyCutsExceed
  <1>1. LedgerInv => OnlyCutsExceed
    BY BillIsNear
  <1> QED BY <1>1, LedgerAlways, PTL
==============================================================================
