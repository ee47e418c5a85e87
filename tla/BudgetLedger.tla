----------------------------- MODULE BudgetLedger -----------------------------
(***************************************************************************)
(* The file that keeps a paid benchmark run within its budget: every call  *)
(* of the model reserves a fixed amount in one of four buckets before it   *)
(* is made and is settled when it is answered, and both read, change and   *)
(* rewrite the file under a lock FILE, created with O_EXCL and removed at  *)
(* the end.  A process that dies in between leaves the lock file behind.   *)
(*                                                                         *)
(* Entries are kept as the two figures the code computes from them: what   *)
(* the calls of a bucket were settled at, and how many of its entries      *)
(* stand at their reservation, because the call is under way, was          *)
(* abandoned by a dead process, or came back without a price.  A call that *)
(* timed out or failed after some of its steps is settled at what they     *)
(* cost, whatever the step that was cut off is charged.  The total cap is  *)
(* the sum of the bucket caps (build_budget_plan): its check never decides.*)
(***************************************************************************)
EXTENDS Integers

CONSTANTS
  Buckets,    \* calibration, r2_main, r3_main, retry
  Cap,        \* bucket_caps_usd
  Reserve,    \* max_invocation_reserve_usd
  Prices,     \* what one call may cost, and what it may be settled at
  MaxCost,    \* and the most of it
  None        \* no price in the answer, no bucket

ASSUME LedgerAssumption ==
  /\ Cap \in [Buckets -> Nat]
  /\ Reserve \in Nat \ {0}
  /\ MaxCost \in Nat /\ Prices \subseteq 0..MaxCost
  /\ None \notin Nat \cup Buckets

VARIABLES
  ledger,     \* budget-ledger.json
  lock,       \* budget-ledger.json.lock exists
  call,       \* the call under way: where it stands, its bucket, its price
  billed,     \* what the provider charged, bucket by bucket
  cut         \* how many of its calls told a price below what they were charged

ledgerVars == <<ledger, lock, call, billed, cut>>

Places == {"reserving", "calling", "answered", "settling"}
Idle == [at |-> "idle", bucket |-> None, price |-> None]

LedgerTypeOK ==
  /\ ledger \in [known : [Buckets -> Nat], blind : [Buckets -> Nat], halted : BOOLEAN]
  /\ lock \in BOOLEAN
  /\ call \in {Idle} \cup [at : Places, bucket : Buckets, price : Prices \cup {None}]
  /\ billed \in [Buckets -> Nat] /\ cut \in [Buckets -> Nat]

LedgerInit ==
  /\ ledger = [known |-> [b \in Buckets |-> 0], blind |-> [b \in Buckets |-> 0],
               halted |-> FALSE]
  /\ lock = FALSE
  /\ call = Idle
  /\ billed = [b \in Buckets |-> 0] /\ cut = [b \in Buckets |-> 0]
------------------------------------------------------------------------------
\* What a bucket has used up.
Booked(l, b) == l.known[b] + Reserve * l.blind[b]

\* Defect: the last reservation may go over the cap.
FitsDefect(b) == ~ledger.halted /\ Booked(ledger, b) < Cap[b]

\* One more call may be reserved in b.
Fits(b) == ~ledger.halted /\ Booked(ledger, b) + Reserve <= Cap[b]

\* Defect: the reservation is kept by the caller.
WithReservationDefect(b) == ledger

\* The ledger with one more reservation in b.
WithReservation(b) == [ledger EXCEPT !.blind[b] = @ + 1]

\* Defect: a call without a price is a call that cost nothing.
WithPriceDefect(b, p) ==
  [ledger EXCEPT !.blind[b] = @ - 1, !.known[b] = @ + IF p = None THEN 0 ELSE p]

\* The ledger after a call in b was settled at p: without a price it keeps its
\* reservation, and the ledger takes no more calls.
WithPrice(b, p) ==
  IF p = None THEN [ledger EXCEPT !.halted = TRUE]
  ELSE LET l == [ledger EXCEPT !.blind[b] = @ - 1, !.known[b] = @ + p]
       IN  [l EXCEPT !.halted = @ \/ Booked(l, b) > Cap[b]]

LockToReserve(b) ==
  /\ call = Idle /\ ~lock
  /\ lock' = TRUE
  /\ call' = [at |-> "reserving", bucket |-> b, price |-> None]
  /\ UNCHANGED <<ledger, billed, cut>>

ReserveCost ==
  /\ call.at = "reserving" /\ Fits(call.bucket)
  /\ ledger' = WithReservation(call.bucket)
  /\ lock' = FALSE
  /\ call' = [call EXCEPT !.at = "calling"]
  /\ UNCHANGED <<billed, cut>>

RefuseReservation ==
  /\ call.at = "reserving" /\ ~Fits(call.bucket)
  /\ lock' = FALSE
  /\ call' = Idle
  /\ UNCHANGED <<ledger, billed, cut>>

\* A price that is told, and is less than the charge: the sum of the steps that had
\* finished when the call timed out or failed (parse_opencode_usage).
IsShort(cost, price) == price # None /\ price < cost

\* The call is over, and its output tells a price or does not.
Answer(cost, price) ==
  /\ call.at = "calling"
  /\ price # None => price <= cost
  /\ billed' = [billed EXCEPT ![call.bucket] = @ + cost]
  /\ cut' = IF IsShort(cost, price) THEN [cut EXCEPT ![call.bucket] = @ + 1] ELSE cut
  /\ call' = [call EXCEPT !.at = "answered", !.price = price]
  /\ UNCHANGED <<ledger, lock>>

LockToSettle ==
  /\ call.at = "answered" /\ ~lock
  /\ lock' = TRUE
  /\ call' = [call EXCEPT !.at = "settling"]
  /\ UNCHANGED <<ledger, billed, cut>>

SettleCost ==
  /\ call.at = "settling"
  /\ ledger' = WithPrice(call.bucket, call.price)
  /\ lock' = FALSE
  /\ call' = Idle
  /\ UNCHANGED <<billed, cut>>

\* The process dies: inside the lock with or without having rewritten the file,
\* during the call with or without being charged for it.
AbandonCall ==
  /\ call' = Idle
  /\ UNCHANGED <<lock, cut>>
  /\ \/ billed' = billed
     \/ \E cost \in Prices :
          call.at = "calling" /\ billed' = [billed EXCEPT ![call.bucket] = @ + cost]
  /\ \/ ledger' = ledger
     \/ call.at = "reserving" /\ Fits(call.bucket) /\ ledger' = WithReservation(call.bucket)
     \/ call.at = "settling" /\ ledger' = WithPrice(call.bucket, call.price)

LedgerNext ==
  \/ \E b \in Buckets : LockToReserve(b)
  \/ ReserveCost
  \/ RefuseReservation
  \/ \E cost \in Prices, price \in Prices \cup {None} : Answer(cost, price)
  \/ LockToSettle
  \/ SettleCost
  \/ AbandonCall

LedgerSpec == LedgerInit /\ [][LedgerNext]_ledgerVars
------------------------------------------------------------------------------
(* What the file promises (budget.py, "its budget cannot be reserved").     *)

Overrun == IF MaxCost > Reserve THEN MaxCost - Reserve ELSE 0

\* A bucket is never booked beyond its cap by more than what one call cost above
\* its reservation, and beyond its cap only when the ledger takes no more calls,
\* whatever calls were abandoned half way (reserve_cost, settle_cost).
CapsHold ==
  \A b \in Buckets :
    /\ Booked(ledger, b) <= Cap[b] + Overrun
    /\ ledger.halted \/ Booked(ledger, b) <= Cap[b]

\* The provider has charged no more than the ledger knows of and what one call may
\* cost for every entry that stands at its reservation and for every call that was cut
\* off in the middle, also after processes died before, during or after the call
\* (invoke_opencode_json): nothing else makes the bill higher than the books.
LedgerCoversBill ==
  \A b \in Buckets : billed[b] <= ledger.known[b] + MaxCost * (ledger.blind[b] + cut[b])
==============================================================================
