------------------------ MODULE EffectLifecycleProofs ------------------------
(***************************************************************************)
(* Theorems about EffectLifecycle, for every value of its constants.       *)
(*                                                                         *)
(* TypeOK goes with Memory (what a worker past its claim remembers exists),*)
(* LeaseMatchesStatus and SeparationOfDuty rest on those, and              *)
(* CompensatedMeansCancelled on what workers were told of a cancellation.  *)
(* The rest goes row by row: RowMoves lists what one step can make of one  *)
(* effect's rows and TicketMoves what it can make of the tickets, and the  *)
(* agreement of the tables, the snapshots of workers, the retry budget,    *)
(* the intents and the promise of UndoPromise follow move by move.         *)
(***************************************************************************)
EXTENDS EffectLifecycle, TLAPS

USE DEF effectVars, requestVars, ticketVars, workerVars, boundVars

\* Where a worker holds the row it selected for compensation.
Holding == Compensation \cup {"selected"}

USE DEF Holding

\* A worker that is past its selection or its query holds a row of the tables.
Memory == \A w \in Workers :
  /\ pc[w] \in Holding => job[w].effect \in Effects /\ job[w].key \in Keys
  /\ pc[w] \in {"found", "missing"} => job[w].effect \in Effects

\* The updates of a request row give request rows.
LEMMA RequestTypes ==
  ASSUME NEW r \in Request, NEW s \in Subjects
  PROVE  /\ Requested(s) \in Request
         /\ Approve(r, s) \in Request
         /\ Reject(r, s) \in Request
         /\ Renew(r, s) \in Request
<1> USE DEF Request, RequestStatus
<1>1. Requested(s) \in Request BY DEF Requested
<1>2. Approve(r, s) \in Request BY DEF Approve
<1>3. Reject(r, s) \in Request BY DEF Reject
<1>4. Renew(r, s) \in Request
  <2>1. r.auth \in Nat OBVIOUS
  <2>2. r.auth + 1 \in Nat BY <2>1
  <2>3. [[[r EXCEPT !.status = "approved"] EXCEPT !.auth = r.auth + 1] EXCEPT !.actor = s] \in Request
    BY <2>2
  <2> QED BY <2>3 DEF Renew
<1> QED BY <1>1, <1>2, <1>3, <1>4

\* Closing a request row gives a request row.
LEMMA CloseTypes ==
  ASSUME NEW r \in Request, NEW outcome \in {"completed", "failed"}
  PROVE  Close(r, outcome) \in Request
  BY DEF Close, Request, RequestStatus

\* What workers remember are rows they can have read.
LEMMA JobTypes ==
  /\ NoJob \in Job
  /\ \A e \in Effects : Inquiry(e) \in Job
  /\ TypeOK => \A e \in Effects, k \in Keys : Snapshot(e, k) \in Job
  /\ TypeOK => \A j \in Job : j.effect \in Effects => Locked(j) \in Job
<1>1. NoJob \in Job BY DEF Job, NoJob
<1>2. \A e \in Effects : Inquiry(e) \in Job BY DEF Job, Inquiry
<1>3. ASSUME TypeOK, NEW e \in Effects, NEW k \in Keys PROVE Snapshot(e, k) \in Job
  <2>1. req[e][k] \in Request BY <1>3 DEF TypeOK
  <2> QED BY <2>1 DEF Snapshot, Job, Request
<1>4. ASSUME TypeOK, NEW j \in Job, j.effect \in Effects PROVE Locked(j) \in Job
  <2>1. retry[j.effect] \in Nat BY <1>4 DEF TypeOK
  <2> QED BY <2>1 DEF Locked, Job
<1> QED BY <1>1, <1>2, <1>3, <1>4

\* Steps that are not a worker's own leave what workers remember alone.
LEMMA OthersKeepMemory ==
  ASSUME Memory, UNCHANGED <<pc, job>>
  PROVE  Memory'
  BY DEF Memory

\* Every step of the API, of people and of time keeps the types.
LEMMA OtherTypes ==
  ASSUME TypeOK, NEW e \in Effects, ApiStep(e) \/ PeopleStep(e) \/ TimeStep(e)
  PROVE  TypeOK' /\ UNCHANGED <<pc, job>>
<1> USE DEF TypeOK, EffectStatus, TicketState, ApiPhase
<1>1. CASE PrepareEffect(e) BY <1>1 DEF PrepareEffect
<1>2. CASE CreateReplied(e) BY <1>2 DEF CreateReplied, CreateTicket
<1>3. CASE CreateFailed(e)
  <2>1. CASE CreateTicket(e) /\ UNCHANGED lateCreate
    BY <1>3, <2>1 DEF CreateFailed, CreateTicket, Fault
  <2>2. CASE UNCHANGED <<ticket, cancelKey>> /\ lateCreate' \in {lateCreate, lateCreate \cup {e}}
    BY <1>3, <2>2 DEF CreateFailed, Fault
  <2> QED BY <1>3, <2>1, <2>2 DEF CreateFailed
<1>4. CASE CompleteEffect(e) BY <1>4 DEF CompleteEffect, Settle, ReleaseLease
<1>5. CASE RejectResult(e) BY <1>5 DEF RejectResult, MarkPreparedManual, ReleaseLease
<1>6. CASE ApiCrash(e) BY <1>6 DEF ApiCrash, Crash
<1>7. CASE LateCreate(e) BY <1>7 DEF LateCreate, CreateTicket
<1>8. ASSUME NEW s \in Subjects, RefuseExpired(s, e) PROVE TypeOK' /\ UNCHANGED <<pc, job>>
  BY <1>8 DEF RefuseExpired
<1>9. ASSUME NEW s \in Subjects, NEW k \in Keys, RequestUndo(s, e, k)
      PROVE  TypeOK' /\ UNCHANGED <<pc, job>>
  BY <1>9, RequestTypes DEF RequestUndo
<1>10. ASSUME NEW s \in Subjects, NEW k \in Keys, DecideUndo(s, e, k)
       PROVE  TypeOK' /\ UNCHANGED <<pc, job>>
  <2>1. CASE /\ status' = [status EXCEPT ![e] = "approved"]
             /\ req' = [req EXCEPT ![e][k] = Approve(@, s)]
    <3>1. req' \in [Effects -> [Keys -> Request]] BY <2>1, RequestTypes
    <3> QED BY <1>10, <2>1, <3>1 DEF DecideUndo
  <2>2. CASE /\ status' = [status EXCEPT ![e] = "rejected"]
             /\ req' = [req EXCEPT ![e][k] = Reject(@, s)]
    <3>1. req' \in [Effects -> [Keys -> Request]] BY <2>2, RequestTypes
    <3> QED BY <1>10, <2>2, <3>1 DEF DecideUndo
  <2> QED BY <1>10, <2>1, <2>2 DEF DecideUndo
<1>11. ASSUME NEW s \in Subjects, NEW k \in Keys, RetryFailed(s, e, k)
       PROVE  TypeOK' /\ UNCHANGED <<pc, job>>
  BY <1>11, RequestTypes DEF RetryFailed, ReleaseLease
<1>12. CASE LeaseExpires(e) BY <1>12 DEF LeaseExpires
<1>13. CASE LeaseStalls(e) BY <1>13 DEF LeaseStalls, Crash
<1>14. CASE RetryDue(e) BY <1>14 DEF RetryDue
<1>15. CASE WindowCloses(e) BY <1>15 DEF WindowCloses
<1>16. ASSUME NEW k \in Keys, AuthorizationExpires(e, k) PROVE TypeOK' /\ UNCHANGED <<pc, job>>
  BY <1>16 DEF AuthorizationExpires
<1>17. CASE ApiStep(e) BY <1>17, <1>1, <1>2, <1>3, <1>4, <1>5, <1>6, <1>7 DEF ApiStep
<1>18. CASE PeopleStep(e) BY <1>18, <1>8, <1>9, <1>10, <1>11 DEF PeopleStep
<1>19. CASE TimeStep(e) BY <1>19, <1>12, <1>13, <1>14, <1>15, <1>16 DEF TimeStep
<1> QED BY <1>17, <1>18, <1>19

\* Going to another control point, or leaving a row, is a typed step of the
\* worker's variables.
LEMMA MoveTypes ==
  ASSUME TypeOK, Memory, NEW w \in Workers, NEW p \in WorkerPhase
  PROVE  /\ GoTo(w, p) => pc' \in [Workers -> WorkerPhase] /\ job' \in [Workers -> Job]
         /\ Drop(w, p) => pc' \in [Workers -> WorkerPhase] /\ job' \in [Workers -> Job]
         /\ GoTo(w, p) /\ (p \in Holding => pc[w] \in Holding)
              /\ p \notin {"found", "missing"} => Memory'
         /\ Drop(w, p) /\ p \notin Holding \cup {"found", "missing"} => Memory'
  BY JobTypes DEF TypeOK, Memory, GoTo, Drop

\* A cancel call that is left behind names a row.
LEMMA LateTypes ==
  ASSUME TypeOK, Memory, NEW w \in Workers, MaybeLate(w)
  PROVE  lateCancel' \in SUBSET (Effects \X Keys)
<1>1. CASE UNCHANGED lateCancel BY <1>1 DEF TypeOK
<1>2. CASE pc[w] = "authorized" /\ lateCancel' = lateCancel \cup {<<job[w].effect, job[w].key>>}
  <2>1. job[w].effect \in Effects /\ job[w].key \in Keys BY <1>2 DEF Memory, Compensation
  <2>2. <<job[w].effect, job[w].key>> \in Effects \X Keys BY <2>1
  <2> QED BY <1>2, <2>2 DEF TypeOK
<1> QED BY <1>1, <1>2 DEF MaybeLate

\* A cancel call at the business API is a typed step of the tickets.
LEMMA CancelTypes ==
  ASSUME TypeOK, NEW e \in Effects, NEW k \in Keys, CancelTicket(e, k)
  PROVE  ticket' \in [Effects -> TicketState] /\ cancelKey' \in [Effects -> Keys \cup {None}]
  BY DEF TypeOK, TicketState, CancelTicket

\* Every step of a worker keeps the types and its memory.
LEMMA CompensateTypes ==
  ASSUME TypeOK, Memory, NEW w \in Workers, CompensateStep(w)
  PROVE  TypeOK' /\ Memory'
<1>1. CASE ClaimNothing(w)
  BY <1>1, MoveTypes DEF ClaimNothing, TypeOK, WorkerPhase, Compensation
<1>2. CASE Authorize(w)
  <2>1. PICK p \in {"authorized", "permanent"} : GoTo(w, p) BY <1>2 DEF Authorize
  <2>2. faults' \in Nat BY <1>2 DEF Authorize, Fault, TypeOK
  <2>3. p \in WorkerPhase /\ pc[w] \in Holding /\ p \notin {"found", "missing"}
    BY <1>2, <2>1 DEF Authorize, WorkerPhase, Compensation
  <2> QED BY <1>2, <2>1, <2>2, <2>3, MoveTypes DEF Authorize, TypeOK
<1>3. CASE CancelReplied(w)
  <2>1. PICK p \in {"succeeded", "permanent"} : GoTo(w, p) BY <1>3 DEF CancelReplied
  <2>2. job[w].effect \in Effects /\ job[w].key \in Keys
    BY <1>3 DEF CancelReplied, Memory, Compensation
  <2>3. p \in WorkerPhase /\ pc[w] \in Holding /\ p \notin {"found", "missing"}
    BY <1>3, <2>1 DEF CancelReplied, WorkerPhase, Compensation
  <2>4. ticket' \in [Effects -> TicketState] /\ cancelKey' \in [Effects -> Keys \cup {None}]
    BY <1>3, <2>2, CancelTypes DEF CancelReplied
  <2> QED BY <1>3, <2>1, <2>3, <2>4, MoveTypes DEF CancelReplied, TypeOK
<1>4. CASE CompleteWork(w)
  <2> DEFINE e == job[w].effect
             k == job[w].key
  <2>1. e \in Effects /\ k \in Keys BY <1>4 DEF CompleteWork, MayComplete, Memory, Compensation
  <2>2. Close(req[e][k], "completed") \in Request BY <2>1, CloseTypes DEF TypeOK
  <2>3. "reconcile" \in WorkerPhase /\ "reconcile" \notin Holding \cup {"found", "missing"}
    BY DEF WorkerPhase, Compensation
  <2>4. CASE OwnsLease(w)
    <3>1. req' = [req EXCEPT ![e][k] = Close(@, "completed")] BY <1>4, <2>4 DEF CompleteWork
    <3>2. req' \in [Effects -> [Keys -> Request]] BY <2>1, <2>2, <3>1 DEF TypeOK
    <3>3. status' \in [Effects -> EffectStatus]
      BY <1>4, <2>4 DEF CompleteWork, TypeOK, EffectStatus
    <3>4. owner' \in [Effects -> Workers \cup {Api, NoOne}] /\ leaseLive' \in [Effects -> BOOLEAN]
      BY <1>4, <2>4 DEF CompleteWork, TypeOK, ReleaseLease
    <3>5. /\ Drop(w, "reconcile")
          /\ UNCHANGED <<retry, due, windowOpen, lapsed, ticketVars, todo, api, granted,
                         refused, boundVars>>
      BY <1>4, <2>4 DEF CompleteWork
    <3> QED BY <2>3, <3>2, <3>3, <3>4, <3>5, MoveTypes DEF TypeOK
  <2>5. CASE ~OwnsLease(w)
    BY <1>4, <2>3, <2>5, MoveTypes DEF CompleteWork, TypeOK
  <2> QED BY <2>4, <2>5
<1>5. CASE FailWork(w)
  <2> DEFINE e == job[w].effect
             k == job[w].key
             n == job[w].retry + 1
             again == pc[w] = "retryable" /\ RetriesAgain(n)
  <2>1. e \in Effects /\ k \in Keys BY <1>5 DEF FailWork, Memory, Compensation
  <2>2. Close(req[e][k], "failed") \in Request BY <2>1, CloseTypes DEF TypeOK
  <2>3. "reconcile" \in WorkerPhase /\ "reconcile" \notin Holding \cup {"found", "missing"}
    BY DEF WorkerPhase, Compensation
  <2>4. n \in Nat BY DEF TypeOK, Job
  <2>5. CASE OwnsLease(w)
    <3>1. req' \in [Effects -> [Keys -> Request]]
      <4>1. CASE again BY <1>5, <2>5, <4>1 DEF FailWork, TypeOK
      <4>2. CASE ~again
        <5>1. req' = [req EXCEPT ![e][k] = Close(@, "failed")] BY <1>5, <2>5, <4>2 DEF FailWork
        <5> QED BY <2>1, <2>2, <5>1 DEF TypeOK
      <4> QED BY <4>1, <4>2
    <3>2. status' \in [Effects -> EffectStatus]
      BY <1>5, <2>5 DEF FailWork, TypeOK, EffectStatus
    <3>3. owner' \in [Effects -> Workers \cup {Api, NoOne}] /\ leaseLive' \in [Effects -> BOOLEAN]
      BY <1>5, <2>5 DEF FailWork, TypeOK, ReleaseLease
    <3>4. retry' \in [Effects -> Nat] /\ due' \in [Effects -> BOOLEAN]
      <4>1. retry' = [retry EXCEPT ![e] = n] /\ due' = [due EXCEPT ![e] = FALSE]
        BY <1>5, <2>5 DEF FailWork
      <4> QED BY <2>4, <4>1 DEF TypeOK
    <3>5. /\ Drop(w, "reconcile")
          /\ UNCHANGED <<windowOpen, lapsed, ticketVars, todo, api, granted, refused, boundVars>>
      BY <1>5, <2>5 DEF FailWork
    <3> QED BY <2>3, <3>1, <3>2, <3>3, <3>4, <3>5, MoveTypes DEF TypeOK
  <2>6. CASE ~OwnsLease(w) BY <1>5, <2>3, <2>6, MoveTypes DEF FailWork, TypeOK
  <2> QED BY <2>5, <2>6
<1>6. ASSUME NEW e \in Effects, NEW k \in Keys, SelectWork(w, e, k) PROVE TypeOK' /\ Memory'
  <2>1. Snapshot(e, k) \in Job BY JobTypes
  <2>2. TypeOK' BY <1>6, <2>1 DEF SelectWork, TypeOK, WorkerPhase
  <2>3. job'[w].effect = e /\ job'[w].key = k BY <1>6 DEF SelectWork, Snapshot, TypeOK
  <2>4. Memory' BY <1>6, <2>3 DEF SelectWork, TypeOK, Memory, Compensation
  <2> QED BY <2>2, <2>4
<1>7. CASE ClaimWork(w)
  <2>1. job[w] \in Job /\ job[w].effect \in Effects /\ job[w].key \in Keys
    BY <1>7 DEF ClaimWork, Memory, TypeOK
  <2>2. Locked(job[w]) \in Job BY <2>1, JobTypes
  <2>3. TypeOK'
    BY <1>7, <2>1, <2>2 DEF ClaimWork, TypeOK, EffectStatus, WorkerPhase, Compensation
  <2>4. job'[w].effect = job[w].effect /\ job'[w].key = job[w].key
    BY <1>7, <2>1 DEF ClaimWork, TypeOK, Locked, Job
  <2>5. Memory' BY <1>7, <2>1, <2>4 DEF ClaimWork, TypeOK, Memory, Compensation
  <2> QED BY <2>3, <2>5
<1>8. CASE ClaimPassed(w)
  BY <1>8, MoveTypes DEF ClaimPassed, TypeOK, WorkerPhase, Compensation
<1> QED BY <1>1, <1>2, <1>3, <1>4, <1>5, <1>6, <1>7, <1>8 DEF CompensateStep

LEMMA ReconcileTypes ==
  ASSUME TypeOK, Memory, NEW w \in Workers, ReconcileStep(w)
  PROVE  TypeOK' /\ Memory'
<1> USE DEF WorkerPhase, Compensation
<1>1. CASE ListPrepared(w) BY <1>1, MoveTypes DEF ListPrepared, Batches, TypeOK
<1>2. CASE ReconcileFound(w)
  <2>1. CASE status[job[w].effect] = "prepared"
    BY <1>2, <2>1, MoveTypes DEF ReconcileFound, TypeOK, Settle, ReleaseLease, EffectStatus
  <2>2. CASE status[job[w].effect] # "prepared"
    BY <1>2, <2>2, MoveTypes DEF ReconcileFound, TypeOK
  <2> QED BY <2>1, <2>2
<1>3. CASE ReconcileMissing(w)
  BY <1>3, MoveTypes DEF ReconcileMissing, TypeOK, MarkPreparedManual, ReleaseLease, EffectStatus
<1>4. CASE ScanDone(w) BY <1>4, MoveTypes DEF ScanDone, TypeOK
<1>5. ASSUME NEW e \in Effects, QueryEffect(w, e) PROVE TypeOK' /\ Memory'
  <2>1. todo' \in [Workers -> SUBSET Effects] BY <1>5 DEF QueryEffect, TypeOK
  <2>2. CASE pc' = [pc EXCEPT ![w] = Lookup(e)] /\ job' = [job EXCEPT ![w] = Inquiry(e)]
               /\ UNCHANGED faults
    <3>1. Lookup(e) \in {"found", "missing"} BY DEF Lookup
    <3>2. TypeOK' BY <1>5, <2>1, <2>2, <3>1, JobTypes DEF QueryEffect, TypeOK
    <3>3. job'[w].effect = e BY <2>2 DEF TypeOK, Inquiry
    <3>4. Memory' BY <2>2, <3>1, <3>3 DEF Memory, TypeOK
    <3> QED BY <3>2, <3>4
  <2>3. CASE Fault /\ UNCHANGED <<pc, job>>
    BY <1>5, <2>1, <2>3, OthersKeepMemory DEF QueryEffect, Fault, TypeOK
  <2> QED BY <1>5, <2>2, <2>3 DEF QueryEffect
<1> QED BY <1>1, <1>2, <1>3, <1>4, <1>5 DEF ReconcileStep

LEMMA TroubleTypes ==
  ASSUME TypeOK, Memory, NEW w \in Workers, WorkerRestart(w) \/ WorkerTrouble(w)
  PROVE  TypeOK' /\ Memory'
<1> USE DEF WorkerPhase, Compensation
<1>1. CASE WorkerRestart(w) BY <1>1, MoveTypes DEF WorkerRestart, TypeOK
<1>2. CASE Heartbeat(w) BY <1>2, OthersKeepMemory DEF Heartbeat, TypeOK
<1>3. CASE HeartbeatLost(w)
  <2>1. faults' \in Nat BY <1>3 DEF HeartbeatLost, Fault, TypeOK
  <2>2. lateCancel' \in SUBSET (Effects \X Keys) BY <1>3, LateTypes DEF HeartbeatLost
  <2> QED BY <1>3, <2>1, <2>2, MoveTypes DEF HeartbeatLost, TypeOK
<1>4. CASE CancelFailed(w)
  <2> DEFINE e == job[w].effect
             k == job[w].key
  <2>1. e \in Effects /\ k \in Keys BY <1>4 DEF CancelFailed, Memory
  <2>2. PICK p \in {"retryable", "permanent"} :
          /\ GoTo(w, p)
          /\ \/ CancelTicket(e, k) /\ UNCHANGED lateCancel
             \/ UNCHANGED <<ticket, cancelKey, lateCancel>>
             \/ lateCancel' = lateCancel \cup {<<e, k>>} /\ UNCHANGED <<ticket, cancelKey>>
    BY <1>4 DEF CancelFailed
  <2>3. ticket' \in [Effects -> TicketState] /\ cancelKey' \in [Effects -> Keys \cup {None}]
    BY <2>1, <2>2, CancelTypes DEF TypeOK
  <2>4. lateCancel' \in SUBSET (Effects \X Keys)
    <3>1. <<e, k>> \in Effects \X Keys BY <2>1
    <3> QED BY <2>2, <3>1 DEF TypeOK, CancelTicket
  <2>5. faults' \in Nat BY <1>4 DEF CancelFailed, Fault, TypeOK
  <2>6. pc[w] \in Compensation BY <1>4 DEF CancelFailed
  <2> QED BY <1>4, <2>2, <2>3, <2>4, <2>5, <2>6, MoveTypes DEF CancelFailed, TypeOK
<1>5. CASE WorkerCrash(w)
  <2>1. crashes' \in Nat BY <1>5 DEF WorkerCrash, Crash, TypeOK
  <2>2. lateCancel' \in SUBSET (Effects \X Keys) BY <1>5, LateTypes DEF WorkerCrash
  <2> QED BY <1>5, <2>1, <2>2, MoveTypes DEF WorkerCrash, TypeOK
<1> QED BY <1>1, <1>2, <1>3, <1>4, <1>5 DEF WorkerTrouble

\* Every reachable state is well typed: the columns hold only values the schema
\* and the code know, and workers remember only rows that can exist.
THEOREM TypeCorrect == Spec => [](TypeOK /\ Memory)
<1>1. Init => TypeOK /\ Memory
  <2> SUFFICES ASSUME Init PROVE TypeOK /\ Memory
    OBVIOUS
  <2>1. NoRequest \in Request BY DEF NoRequest, Request, RequestStatus
  <2>2. TypeOK
    BY <2>1, JobTypes DEF Init, TypeOK, EffectStatus, TicketState, ApiPhase, WorkerPhase
  <2>3. Memory BY DEF Init, Memory, Compensation
  <2> QED BY <2>2, <2>3
<1>2. TypeOK /\ Memory /\ [Next]_vars => TypeOK' /\ Memory'
  <2> SUFFICES ASSUME TypeOK, Memory, [Next]_vars PROVE TypeOK' /\ Memory'
    OBVIOUS
  <2>1. ASSUME NEW e \in Effects, ApiStep(e) \/ PeopleStep(e) \/ TimeStep(e)
        PROVE  TypeOK' /\ Memory'
    BY <2>1, OtherTypes, OthersKeepMemory
  <2>2. ASSUME NEW e \in Effects, NEW k \in Keys, LateCancel(e, k) PROVE TypeOK' /\ Memory'
    BY <2>2, CancelTypes, OthersKeepMemory DEF LateCancel, TypeOK
  <2>3. ASSUME NEW s \in Subjects, Grant(s) \/ Revoke(s) PROVE TypeOK' /\ Memory'
    BY <2>3, OthersKeepMemory DEF Grant, Revoke, TypeOK
  <2>4. ASSUME NEW w \in Workers, WorkerStep(w) \/ WorkerTrouble(w) PROVE TypeOK' /\ Memory'
    BY <2>4, CompensateTypes, ReconcileTypes, TroubleTypes DEF WorkerStep
  <2>5. CASE UNCHANGED vars BY <2>5, OthersKeepMemory DEF vars, TypeOK
  <2> QED BY <2>1, <2>2, <2>3, <2>4, <2>5 DEF Next
<1> QED BY <1>1, <1>2, PTL DEF Spec

------------------------------------------------------------------------------
(* Leases. *)

\* Steps that leave the three lease columns alone leave the agreement alone.
LEMMA OthersKeepLeases ==
  ASSUME LeaseMatchesStatus, UNCHANGED <<status, owner, leaseLive>>
  PROVE  LeaseMatchesStatus'
  BY DEF LeaseMatchesStatus

\* A row that leaves "prepared" or "compensating" gives its lease up.
LEMMA ReleasedLeases ==
  ASSUME TypeOK, LeaseMatchesStatus, NEW e \in Effects, ReleaseLease(e),
         NEW s \in EffectStatus \ {"prepared", "compensating"},
         status' = [status EXCEPT ![e] = s]
  PROVE  LeaseMatchesStatus'
  BY ConstantsAssumption DEF TypeOK, LeaseMatchesStatus, ReleaseLease

LEMMA ApiLeases ==
  ASSUME TypeOK, LeaseMatchesStatus, NEW e \in Effects, ApiStep(e)
  PROVE  LeaseMatchesStatus'
<1>1. CASE PrepareEffect(e)
  BY <1>1, ConstantsAssumption DEF PrepareEffect, TypeOK, LeaseMatchesStatus
<1>2. CASE CreateReplied(e) \/ CreateFailed(e) \/ ApiCrash(e) \/ LateCreate(e)
  BY <1>2, OthersKeepLeases DEF CreateReplied, CreateFailed, ApiCrash, LateCreate
<1>3. CASE CompleteEffect(e)
  <2>1. CASE status[e] = "prepared"
    <3>1. Settle(e) BY <1>3, <2>1 DEF CompleteEffect
    <3>2. PICK s \in {"available", "manual_required"} : status' = [status EXCEPT ![e] = s]
      BY <3>1 DEF Settle
    <3>3. s \in EffectStatus \ {"prepared", "compensating"} BY DEF EffectStatus
    <3> QED BY <3>1, <3>2, <3>3, ReleasedLeases DEF Settle
  <2>2. CASE status[e] # "prepared" BY <1>3, <2>2, OthersKeepLeases DEF CompleteEffect
  <2> QED BY <2>1, <2>2
<1>4. CASE RejectResult(e)
  BY <1>4, ReleasedLeases, OthersKeepLeases DEF RejectResult, MarkPreparedManual, EffectStatus
<1> QED BY <1>1, <1>2, <1>3, <1>4 DEF ApiStep

LEMMA PeopleLeases ==
  ASSUME TypeOK, LeaseMatchesStatus, NEW e \in Effects, PeopleStep(e)
  PROVE  LeaseMatchesStatus'
<1>1. ASSUME NEW s \in Subjects, RefuseExpired(s, e) PROVE LeaseMatchesStatus'
  BY <1>1, OthersKeepLeases DEF RefuseExpired
<1>2. ASSUME NEW s \in Subjects, NEW k \in Keys, RequestUndo(s, e, k) PROVE LeaseMatchesStatus'
  BY <1>2, ConstantsAssumption DEF RequestUndo, Undoable, TypeOK, LeaseMatchesStatus
<1>3. ASSUME NEW s \in Subjects, NEW k \in Keys, DecideUndo(s, e, k) PROVE LeaseMatchesStatus'
  <2>1. PICK d \in {"approved", "rejected"} : status' = [status EXCEPT ![e] = d]
    BY <1>3 DEF DecideUndo
  <2>2. status[e] = "undo_pending" /\ UNCHANGED <<owner, leaseLive>> BY <1>3 DEF DecideUndo
  <2> QED BY <2>1, <2>2, ConstantsAssumption DEF TypeOK, LeaseMatchesStatus
<1>4. ASSUME NEW s \in Subjects, NEW k \in Keys, RetryFailed(s, e, k) PROVE LeaseMatchesStatus'
  BY <1>4, ReleasedLeases DEF RetryFailed, EffectStatus
<1> QED BY <1>1, <1>2, <1>3, <1>4 DEF PeopleStep

LEMMA TimeLeases ==
  ASSUME TypeOK, LeaseMatchesStatus, NEW e \in Effects, TimeStep(e)
  PROVE  LeaseMatchesStatus'
<1>1. CASE LeaseExpires(e) \/ LeaseStalls(e)
  BY <1>1 DEF LeaseExpires, LeaseStalls, TypeOK, LeaseMatchesStatus
<1>2. CASE RetryDue(e) \/ WindowCloses(e) \/ \E k \in Keys : AuthorizationExpires(e, k)
  BY <1>2, OthersKeepLeases DEF RetryDue, WindowCloses, AuthorizationExpires
<1> QED BY <1>1, <1>2 DEF TimeStep

LEMMA WorkerLeases ==
  ASSUME TypeOK, Memory, LeaseMatchesStatus,
         NEW w \in Workers, WorkerStep(w) \/ WorkerTrouble(w)
  PROVE  LeaseMatchesStatus'
<1>1. CASE ClaimWork(w)
  <2>1. job[w].effect \in Effects BY <1>1 DEF ClaimWork, Memory
  <2> QED BY <1>1, <2>1, ConstantsAssumption DEF ClaimWork, TypeOK, LeaseMatchesStatus
<1>2. CASE CompleteWork(w)
  <2>1. job[w].effect \in Effects BY <1>2 DEF CompleteWork, MayComplete, Memory, Compensation
  <2>2. CASE OwnsLease(w)
    BY <1>2, <2>1, <2>2, ReleasedLeases DEF CompleteWork, EffectStatus
  <2>3. CASE ~OwnsLease(w) BY <1>2, <2>3, OthersKeepLeases DEF CompleteWork
  <2> QED BY <2>2, <2>3
<1>3. CASE FailWork(w)
  <2>1. job[w].effect \in Effects BY <1>3 DEF FailWork, Memory, Compensation
  <2>2. CASE OwnsLease(w)
    <3>1. PICK s \in {"retry_wait", "compensation_failed"} :
            status' = [status EXCEPT ![job[w].effect] = s]
      BY <1>3, <2>2 DEF FailWork
    <3> QED BY <1>3, <2>1, <2>2, <3>1, ReleasedLeases DEF FailWork, EffectStatus
  <2>3. CASE ~OwnsLease(w) BY <1>3, <2>3, OthersKeepLeases DEF FailWork
  <2> QED BY <2>2, <2>3
<1>4. CASE ReconcileFound(w)
  <2>1. job[w].effect \in Effects BY <1>4 DEF ReconcileFound, Memory
  <2>2. CASE status[job[w].effect] = "prepared"
    <3>1. Settle(job[w].effect) BY <1>4, <2>2 DEF ReconcileFound
    <3>2. PICK s \in {"available", "manual_required"} :
            status' = [status EXCEPT ![job[w].effect] = s]
      BY <3>1 DEF Settle
    <3>3. s \in EffectStatus \ {"prepared", "compensating"} BY DEF EffectStatus
    <3> QED BY <2>1, <3>1, <3>2, <3>3, ReleasedLeases DEF Settle
  <2>3. CASE status[job[w].effect] # "prepared"
    BY <1>4, <2>3, OthersKeepLeases DEF ReconcileFound
  <2> QED BY <2>2, <2>3
<1>5. CASE ReconcileMissing(w)
  <2>1. job[w].effect \in Effects BY <1>5 DEF ReconcileMissing, Memory
  <2> QED BY <1>5, <2>1, ReleasedLeases, OthersKeepLeases
          DEF ReconcileMissing, MarkPreparedManual, EffectStatus
<1>6. CASE Heartbeat(w)
  <2>1. job[w].effect \in Effects BY <1>6 DEF Heartbeat, Memory
  <2>2. owner[job[w].effect] = w BY <1>6 DEF Heartbeat, OwnsLease
  <2> QED BY <1>6, <2>1, <2>2, ConstantsAssumption DEF Heartbeat, TypeOK, LeaseMatchesStatus
<1>7. CASE \/ ClaimNothing(w) \/ Authorize(w) \/ CancelReplied(w) \/ ListPrepared(w)
           \/ ScanDone(w) \/ WorkerRestart(w) \/ HeartbeatLost(w) \/ CancelFailed(w)
           \/ WorkerCrash(w) \/ \E e \in Effects : QueryEffect(w, e)
           \/ ClaimPassed(w) \/ \E e \in Effects, k \in Keys : SelectWork(w, e, k)
  BY <1>7, OthersKeepLeases DEF ClaimNothing, SelectWork, ClaimPassed, Authorize, CancelReplied,
     ListPrepared, ScanDone, WorkerRestart, HeartbeatLost, CancelFailed, WorkerCrash, QueryEffect
<1> QED BY <1>1, <1>2, <1>3, <1>4, <1>5, <1>6, <1>7
        DEF WorkerStep, CompensateStep, ReconcileStep, WorkerTrouble

LEMMA LeaseStep ==
  ASSUME TypeOK, Memory, LeaseMatchesStatus, [Next]_vars
  PROVE  LeaseMatchesStatus'
<1>1. ASSUME NEW e \in Effects, ApiStep(e) \/ PeopleStep(e) \/ TimeStep(e)
      PROVE  LeaseMatchesStatus'
  BY <1>1, ApiLeases, PeopleLeases, TimeLeases
<1>2. ASSUME NEW w \in Workers, WorkerStep(w) \/ WorkerTrouble(w) PROVE LeaseMatchesStatus'
  BY <1>2, WorkerLeases
<1>3. CASE \/ \E e \in Effects, k \in Keys : LateCancel(e, k)
           \/ \E s \in Subjects : Grant(s) \/ Revoke(s)
           \/ UNCHANGED vars
  BY <1>3, OthersKeepLeases DEF LateCancel, Grant, Revoke, vars
<1> QED BY <1>1, <1>2, <1>3 DEF Next

\* A worker owns the lease of exactly the rows that are being compensated and the
\* API of exactly the prepared ones, so the owner check alone is enough for
\* complete_work and fail_work.
THEOREM LeaseIsStatus == Spec => []LeaseMatchesStatus
<1>1. Init => LeaseMatchesStatus
  BY ConstantsAssumption DEF Init, LeaseMatchesStatus
<1>2. TypeOK /\ Memory /\ LeaseMatchesStatus /\ [Next]_vars => LeaseMatchesStatus'
  BY LeaseStep
<1> QED BY <1>1, <1>2, TypeCorrect, PTL DEF Spec

\* Steps that leave the owners alone take no lease over; neither does a release.
LEMMA KeptLeases ==
  ASSUME TypeOK, UNCHANGED owner \/ \E e \in Effects : ReleaseLease(e)
  PROVE  \A e \in Effects : leaseLive[e] => owner'[e] \in {owner[e], NoOne}
  BY DEF TypeOK, ReleaseLease

\* A lease that has not run out is given up by its owner or ended by the state
\* machine, never taken over: two workers never both hold a row they may settle.
THEOREM LeasesAreKept == Spec => LiveLeaseIsKept
<1> DEFINE Kept == \A e \in Effects : leaseLive[e] => owner'[e] \in {owner[e], NoOne}
<1>1. TypeOK /\ Memory /\ LeaseMatchesStatus /\ [Next]_vars => [Kept]_vars
  <2> SUFFICES ASSUME TypeOK, Memory, LeaseMatchesStatus, Next PROVE Kept
    BY DEF vars
  <2>1. ASSUME NEW e \in Effects, PrepareEffect(e) PROVE Kept
    <3>1. ~leaseLive[e] BY <2>1 DEF PrepareEffect, LeaseMatchesStatus, TypeOK
    <3> QED BY <2>1, <3>1 DEF PrepareEffect, TypeOK
  <2>2. ASSUME NEW w \in Workers, ClaimWork(w) PROVE Kept
    <3>1. job[w].effect \in Effects BY <2>2 DEF ClaimWork, Memory
    <3>2. ~leaseLive[job[w].effect]
      BY <2>2, <3>1 DEF ClaimWork, Claimable, LeaseMatchesStatus, TypeOK
    <3> QED BY <2>2, <3>1, <3>2 DEF ClaimWork, TypeOK
  <2>3. ASSUME NEW e \in Effects, ApiStep(e), ~PrepareEffect(e) PROVE Kept
    BY <2>3, KeptLeases DEF ApiStep, CreateReplied, CreateFailed, CompleteEffect, Settle,
       RejectResult, MarkPreparedManual, ApiCrash, LateCreate
  <2>4. ASSUME NEW e \in Effects, PeopleStep(e) \/ TimeStep(e) PROVE Kept
    BY <2>4, KeptLeases DEF PeopleStep, RefuseExpired, RequestUndo, DecideUndo, RetryFailed,
       TimeStep, LeaseExpires, LeaseStalls, RetryDue, WindowCloses, AuthorizationExpires
  <2>5. CASE \/ \E e \in Effects, k \in Keys : LateCancel(e, k)
             \/ \E s \in Subjects : Grant(s) \/ Revoke(s)
    BY <2>5, KeptLeases DEF LateCancel, Grant, Revoke
  <2>6. ASSUME NEW w \in Workers, CompleteWork(w) \/ FailWork(w) PROVE Kept
    <3>1. job[w].effect \in Effects
      BY <2>6 DEF CompleteWork, MayComplete, FailWork, Memory, Compensation
    <3> QED BY <2>6, <3>1, KeptLeases DEF CompleteWork, FailWork
  <2>7. ASSUME NEW w \in Workers, ReconcileFound(w) \/ ReconcileMissing(w) PROVE Kept
    <3>1. job[w].effect \in Effects BY <2>7 DEF ReconcileFound, ReconcileMissing, Memory
    <3> QED BY <2>7, <3>1, KeptLeases
            DEF ReconcileFound, ReconcileMissing, Settle, MarkPreparedManual
  <2>8. ASSUME NEW w \in Workers,
               \/ ClaimNothing(w) \/ Authorize(w) \/ CancelReplied(w) \/ ListPrepared(w)
               \/ ScanDone(w) \/ WorkerRestart(w) \/ WorkerTrouble(w)
               \/ \E e \in Effects : QueryEffect(w, e)
               \/ ClaimPassed(w) \/ \E e \in Effects, k \in Keys : SelectWork(w, e, k)
        PROVE  Kept
    BY <2>8, KeptLeases DEF ClaimNothing, SelectWork, ClaimPassed, Authorize, CancelReplied,
       ListPrepared, ScanDone, WorkerRestart, WorkerTrouble, Heartbeat, HeartbeatLost,
       CancelFailed, WorkerCrash, QueryEffect
  <2> QED BY <2>1, <2>2, <2>3, <2>4, <2>5, <2>6, <2>7, <2>8
          DEF Next, WorkerStep, CompensateStep, ReconcileStep
<1> QED BY <1>1, TypeCorrect, LeaseIsStatus, PTL DEF Spec, LiveLeaseIsKept
------------------------------------------------------------------------------
(* Separation of duty. *)

SignedStatus == {"approved", "completed", "failed"}

\* A request has a requester; an approved one an approver who is someone else,
\* and an authorization.
RowInOrder(r) ==
  /\ r.status # "absent" => r.requester \in Subjects
  /\ r.status \in SignedStatus => /\ {r.requester, r.approver} \subseteq Subjects
                                  /\ r.requester # r.approver
                                  /\ r.auth # 0

RowsInOrder == \A e \in Effects, k \in Keys : RowInOrder(req[e][k])

\* Workers, calls under way and cancelled tickets go back to an approved request.
CallsAreSigned ==
  /\ \A w \in Workers : pc[w] \in Holding => Approved(job[w].effect, job[w].key)
  /\ \A e \in Effects, k \in Keys :
       <<e, k>> \in lateCancel \/ cancelKey[e] = k => Approved(e, k)

StaysSigned == \A e \in Effects, k \in Keys : Approved(e, k) => Approved(e, k)'

\* One row changes, and stays in order.
LEMMA RowUpdate ==
  ASSUME TypeOK, RowsInOrder, NEW e \in Effects, NEW k \in Keys, NEW r,
         req' = [req EXCEPT ![e][k] = r],
         RowInOrder(r), Approved(e, k) => r.status \in SignedStatus
  PROVE  RowsInOrder' /\ StaysSigned
<1>1. ASSUME NEW f \in Effects, NEW l \in Keys
      PROVE  req'[f][l] = IF f = e /\ l = k THEN r ELSE req[f][l]
  BY DEF TypeOK
<1>2. ASSUME NEW f \in Effects, NEW l \in Keys PROVE RowInOrder(req'[f][l])
  BY <1>1 DEF RowsInOrder
<1>3. ASSUME NEW f \in Effects, NEW l \in Keys, Approved(f, l) PROVE req'[f][l].status \in SignedStatus
  BY <1>1, <1>3 DEF Approved, SignedStatus
<1>4. RowsInOrder' BY <1>2 DEF RowsInOrder, RowInOrder
<1>5. StaysSigned BY <1>3 DEF StaysSigned, Approved, SignedStatus
<1> QED BY <1>4, <1>5

LEMMA RowsAlone ==
  ASSUME RowsInOrder, UNCHANGED req
  PROVE  RowsInOrder' /\ StaysSigned
  BY DEF RowsInOrder, RowInOrder, StaysSigned, Approved

\* No step brings a row out of order, or takes an approval back.
LEMMA RowsStep ==
  ASSUME TypeOK, Memory, RowsInOrder, CallsAreSigned, [Next]_vars
  PROVE  RowsInOrder' /\ StaysSigned
<1>1. ASSUME NEW e \in Effects, NEW s \in Subjects, NEW k \in Keys, RequestUndo(s, e, k)
      PROVE  RowsInOrder' /\ StaysSigned
  <2>1. RowInOrder(Requested(s)) BY DEF Requested, RowInOrder, SignedStatus
  <2>2. ~Approved(e, k) BY <1>1 DEF RequestUndo, Approved
  <2>3. req' = [req EXCEPT ![e][k] = Requested(s)] BY <1>1 DEF RequestUndo
  <2> QED BY <2>1, <2>2, <2>3, RowUpdate
<1>2. ASSUME NEW e \in Effects, NEW s \in Subjects, NEW k \in Keys, DecideUndo(s, e, k)
      PROVE  RowsInOrder' /\ StaysSigned
  <2> DEFINE r == req[e][k]
  <2>1. r \in Request /\ r.status = "pending" /\ r.requester # s /\ RowInOrder(r)
    BY <1>2 DEF DecideUndo, MayDecide, RowsInOrder, TypeOK
  <2>2. r.requester \in Subjects BY <2>1 DEF RowInOrder
  <2>3. /\ Approve(r, s).status = "approved" /\ Approve(r, s).requester = r.requester
        /\ Approve(r, s).approver = s /\ Approve(r, s).auth = 1
    BY <2>1 DEF Approve, Request
  <2>4. /\ Reject(r, s).status = "rejected" /\ Reject(r, s).requester = r.requester
    BY <2>1 DEF Reject, Request
  <2>5. RowInOrder(Approve(r, s)) BY <2>1, <2>2, <2>3 DEF RowInOrder
  <2>6. RowInOrder(Reject(r, s)) BY <2>2, <2>4 DEF RowInOrder, SignedStatus
  <2>7. ~Approved(e, k) BY <2>1 DEF Approved
  <2>8. \/ req' = [req EXCEPT ![e][k] = Approve(r, s)]
        \/ req' = [req EXCEPT ![e][k] = Reject(r, s)]
    BY <1>2 DEF DecideUndo
  <2>9. CASE req' = [req EXCEPT ![e][k] = Approve(r, s)] BY <2>5, <2>7, <2>9, RowUpdate
  <2>10. CASE req' = [req EXCEPT ![e][k] = Reject(r, s)] BY <2>6, <2>7, <2>10, RowUpdate
  <2> QED BY <2>8, <2>9, <2>10
<1>3. ASSUME NEW e \in Effects, NEW s \in Subjects, NEW k \in Keys, RetryFailed(s, e, k)
      PROVE  RowsInOrder' /\ StaysSigned
  <2> DEFINE r == req[e][k]
  <2>1. r \in Request /\ r.status = "failed" /\ RowInOrder(r)
    BY <1>3 DEF RetryFailed, RowsInOrder, TypeOK
  <2>2. /\ Renew(r, s).status = "approved" /\ Renew(r, s).requester = r.requester
        /\ Renew(r, s).approver = r.approver /\ Renew(r, s).auth # 0
    BY <2>1 DEF Renew, Request
  <2>3. RowInOrder(Renew(r, s)) BY <2>1, <2>2 DEF RowInOrder, SignedStatus
  <2>4. Renew(r, s).status \in SignedStatus BY <2>2 DEF SignedStatus
  <2>5. req' = [req EXCEPT ![e][k] = Renew(r, s)] BY <1>3 DEF RetryFailed
  <2> QED BY <2>3, <2>4, <2>5, RowUpdate
<1>4. ASSUME NEW w \in Workers, CompleteWork(w) \/ FailWork(w)
      PROVE  RowsInOrder' /\ StaysSigned
  <2> DEFINE e == job[w].effect
             k == job[w].key
             r == req[e][k]
  <2>1. pc[w] \in Holding BY <1>4 DEF CompleteWork, MayComplete, FailWork, Compensation
  <2>2. e \in Effects /\ k \in Keys /\ Approved(e, k) BY <2>1 DEF Memory, CallsAreSigned
  <2>3. r \in Request /\ RowInOrder(r) /\ r.status \in SignedStatus
    BY <2>2 DEF RowsInOrder, TypeOK, Approved, SignedStatus
  <2>4. ASSUME NEW o \in {"completed", "failed"}, req' = [req EXCEPT ![e][k] = Close(r, o)]
        PROVE  RowsInOrder' /\ StaysSigned
    <3>1. /\ Close(r, o).status = o /\ Close(r, o).requester = r.requester
          /\ Close(r, o).approver = r.approver /\ Close(r, o).auth = r.auth
      BY <2>3 DEF Close, Request
    <3>2. RowInOrder(Close(r, o)) BY <2>3, <3>1 DEF RowInOrder, SignedStatus
    <3>3. Close(r, o).status \in SignedStatus BY <3>1 DEF SignedStatus
    <3> QED BY <2>2, <2>4, <3>2, <3>3, RowUpdate
  <2>5. \/ UNCHANGED req
        \/ \E o \in {"completed", "failed"} : req' = [req EXCEPT ![e][k] = Close(r, o)]
    BY <1>4 DEF CompleteWork, FailWork
  <2> QED BY <2>4, <2>5, RowsAlone
<1>5. CASE UNCHANGED req BY <1>5, RowsAlone
<1>6. ASSUME NEW e \in Effects, ApiStep(e) \/ TimeStep(e) PROVE UNCHANGED req
  BY <1>6 DEF ApiStep, PrepareEffect, CreateReplied, CreateFailed, CompleteEffect, RejectResult,
     ApiCrash, LateCreate, TimeStep, LeaseExpires, LeaseStalls, RetryDue, WindowCloses,
     AuthorizationExpires
<1>7. ASSUME NEW w \in Workers, WorkerStep(w) \/ WorkerTrouble(w), ~CompleteWork(w), ~FailWork(w)
      PROVE  UNCHANGED req
  BY <1>7 DEF WorkerStep, CompensateStep, ReconcileStep, WorkerTrouble, ClaimNothing, Authorize,
     CancelReplied, SelectWork, ClaimWork, ClaimPassed, ListPrepared, ReconcileFound,
     ReconcileMissing, ScanDone, QueryEffect, WorkerRestart, Heartbeat, HeartbeatLost,
     CancelFailed, WorkerCrash
<1>8. ASSUME NEW e \in Effects, PeopleStep(e) PROVE RowsInOrder' /\ StaysSigned
  <2>1. ASSUME NEW s \in Subjects, RefuseExpired(s, e) PROVE UNCHANGED req
    BY <2>1 DEF RefuseExpired
  <2> QED BY <1>8, <1>1, <1>2, <1>3, <1>5, <2>1 DEF PeopleStep
<1>9. CASE \/ \E e \in Effects, k \in Keys : LateCancel(e, k)
           \/ \E s \in Subjects : Grant(s) \/ Revoke(s)
           \/ UNCHANGED vars
  <2>1. UNCHANGED req BY <1>9 DEF LateCancel, Grant, Revoke, vars
  <2> QED BY <1>5, <2>1
<1> QED BY <1>4, <1>5, <1>6, <1>7, <1>8, <1>9 DEF Next

\* Calls and memory that stay, or go, stay signed.
LEMMA CallsAlone ==
  ASSUME TypeOK, CallsAreSigned, StaysSigned, Memory,
         lateCancel' \subseteq lateCancel, UNCHANGED cancelKey,
         \A w \in Workers : pc'[w] \in Holding =>
            pc[w] \in Holding /\ job'[w] = job[w]
  PROVE  CallsAreSigned'
<1>1. ASSUME NEW w \in Workers, pc'[w] \in Holding
      PROVE  Approved(job[w].effect, job[w].key)' /\ job'[w] = job[w]
  <2>1. job[w].effect \in Effects /\ job[w].key \in Keys BY <1>1 DEF Memory
  <2>2. Approved(job[w].effect, job[w].key) /\ job'[w] = job[w] BY <1>1 DEF CallsAreSigned
  <2> QED BY <2>1, <2>2 DEF StaysSigned, Approved
<1>2. ASSUME NEW e \in Effects, NEW k \in Keys, <<e, k>> \in lateCancel' \/ cancelKey'[e] = k
      PROVE  Approved(e, k)'
  BY <1>2 DEF CallsAreSigned, StaysSigned
<1> QED BY <1>1, <1>2 DEF CallsAreSigned, Approved

\* A worker's signed call may take effect now, or be left to arrive later.
LEMMA CallsOfWorker ==
  ASSUME TypeOK, Memory, CallsAreSigned, StaysSigned, NEW w \in Workers, pc[w] \in Holding,
         NEW p \in WorkerPhase, GoTo(w, p) \/ (Drop(w, p) /\ p \notin Holding),
         lateCancel' \subseteq lateCancel \cup {<<job[w].effect, job[w].key>>},
         CancelTicket(job[w].effect, job[w].key) \/ UNCHANGED cancelKey
  PROVE  CallsAreSigned'
<1> PICK f \in Effects, l \in Keys : f = job[w].effect /\ l = job[w].key
  BY DEF Memory
<1>1. Approved(f, l) BY DEF CallsAreSigned
<1>2. Approved(f, l)' BY <1>1 DEF StaysSigned
<1>3. ASSUME NEW v \in Workers, pc'[v] \in Holding
      PROVE  pc[v] \in Holding /\ job'[v] = job[v]
  BY <1>3 DEF TypeOK, GoTo, Drop
<1>4. ASSUME NEW v \in Workers, pc'[v] \in Holding
      PROVE  Approved(job[v].effect, job[v].key)' /\ job'[v] = job[v]
  <2>1. job[v].effect \in Effects /\ job[v].key \in Keys BY <1>3, <1>4 DEF Memory
  <2>2. Approved(job[v].effect, job[v].key) /\ job'[v] = job[v] BY <1>3, <1>4 DEF CallsAreSigned
  <2> QED BY <2>1, <2>2 DEF StaysSigned, Approved
<1>5. ASSUME NEW e \in Effects, NEW k \in Keys, <<e, k>> \in lateCancel'
      PROVE  Approved(e, k)'
  <2>1. <<e, k>> \in lateCancel \/ (e = f /\ k = l) BY <1>5
  <2> QED BY <2>1, <1>2 DEF CallsAreSigned, StaysSigned
<1>6. ASSUME NEW e \in Effects, NEW k \in Keys, cancelKey'[e] = k
      PROVE  Approved(e, k)'
  <2>1. cancelKey[e] = k \/ (e = f /\ k = l) BY <1>6 DEF CancelTicket, TypeOK
  <2> QED BY <2>1, <1>2 DEF CallsAreSigned, StaysSigned
<1> QED BY <1>4, <1>5, <1>6 DEF CallsAreSigned, Approved

\* Every step keeps workers, calls and tickets within what was approved.
LEMMA CallsStep ==
  ASSUME TypeOK, Memory, CallsAreSigned, StaysSigned, [Next]_vars
  PROVE  CallsAreSigned'
<1>1. ASSUME UNCHANGED <<lateCancel, cancelKey, pc, job>> PROVE CallsAreSigned'
  BY <1>1, CallsAlone
<1>2. ASSUME NEW e \in Effects, ApiStep(e) \/ PeopleStep(e) \/ TimeStep(e)
      PROVE  UNCHANGED <<lateCancel, cancelKey, pc, job>>
  BY <1>2 DEF ApiStep, PrepareEffect, CreateReplied, CreateFailed, CompleteEffect, RejectResult,
     ApiCrash, LateCreate, CreateTicket, PeopleStep, RefuseExpired, RequestUndo, DecideUndo,
     RetryFailed, TimeStep, LeaseExpires, LeaseStalls, RetryDue, WindowCloses, AuthorizationExpires
<1>3. ASSUME NEW e \in Effects, NEW k \in Keys, LateCancel(e, k) PROVE CallsAreSigned'
  <2>1. Approved(e, k)' BY <1>3 DEF LateCancel, CallsAreSigned, StaysSigned
  <2>2. ASSUME NEW f \in Effects, NEW l \in Keys, <<f, l>> \in lateCancel' \/ cancelKey'[f] = l
        PROVE  <<f, l>> \in lateCancel \/ cancelKey[f] = l \/ (f = e /\ l = k)
    BY <1>3, <2>2 DEF LateCancel, CancelTicket, TypeOK
  <2>3. ASSUME NEW f \in Effects, NEW l \in Keys, <<f, l>> \in lateCancel' \/ cancelKey'[f] = l
        PROVE  Approved(f, l)'
    BY <2>1, <2>2, <2>3 DEF CallsAreSigned, StaysSigned
  <2>4. ASSUME NEW w \in Workers, pc'[w] \in Holding
        PROVE  Approved(job[w].effect, job[w].key)' /\ job'[w] = job[w]
    <3>1. pc[w] \in Holding /\ job'[w] = job[w] BY <1>3, <2>4 DEF LateCancel
    <3>2. job[w].effect \in Effects /\ job[w].key \in Keys BY <3>1 DEF Memory
    <3> QED BY <3>1, <3>2 DEF CallsAreSigned, StaysSigned, Approved
  <2> QED BY <2>3, <2>4 DEF CallsAreSigned, Approved
<1>4. ASSUME NEW w \in Workers, NEW e \in Effects, NEW k \in Keys,
             SelectWork(w, e, k) \/ (ClaimWork(w) /\ job[w].effect = e /\ job[w].key = k)
      PROVE  CallsAreSigned'
  <2>1. Approved(e, k) BY <1>4 DEF SelectWork, ClaimWork, CallsAreSigned, Approved
  <2>2. Approved(e, k)' BY <2>1 DEF StaysSigned
  <2>3. job'[w].effect = e /\ job'[w].key = k
    BY <1>4 DEF SelectWork, ClaimWork, Snapshot, Locked, TypeOK, Job
  <2>4. ASSUME NEW v \in Workers, v # w, pc'[v] \in Holding
        PROVE  pc[v] \in Holding /\ job'[v] = job[v]
    BY <1>4, <2>4 DEF SelectWork, ClaimWork, TypeOK
  <2>5. ASSUME NEW v \in Workers, v # w, pc'[v] \in Holding
        PROVE  Approved(job[v].effect, job[v].key)' /\ job'[v] = job[v]
    <3>1. pc[v] \in Holding /\ job'[v] = job[v] BY <2>4, <2>5
    <3>2. job[v].effect \in Effects /\ job[v].key \in Keys BY <3>1 DEF Memory
    <3> QED BY <3>1, <3>2 DEF CallsAreSigned, StaysSigned, Approved
  <2>6. \A f \in Effects, l \in Keys :
          <<f, l>> \in lateCancel' \/ cancelKey'[f] = l => Approved(f, l)'
    BY <1>4 DEF SelectWork, ClaimWork, CallsAreSigned, StaysSigned
  <2> QED BY <2>2, <2>3, <2>5, <2>6 DEF CallsAreSigned, Approved
<1>5. ASSUME NEW w \in Workers,
             \/ Authorize(w) \/ CancelReplied(w) \/ CancelFailed(w)
             \/ CompleteWork(w) \/ FailWork(w) \/ HeartbeatLost(w)
      PROVE  CallsAreSigned'
  <2>1. pc[w] \in Holding
    BY <1>5 DEF Authorize, CancelReplied, CancelFailed, CompleteWork, MayComplete, FailWork,
       HeartbeatLost, Compensation
  <2>2. PICK p \in WorkerPhase : GoTo(w, p) \/ (Drop(w, p) /\ p \notin Holding)
    BY <1>5 DEF Authorize, CancelReplied, CancelFailed, CompleteWork, FailWork, HeartbeatLost,
       WorkerPhase, Compensation
  <2>3. lateCancel' \subseteq lateCancel \cup {<<job[w].effect, job[w].key>>}
    BY <1>5 DEF Authorize, CancelReplied, CancelFailed, CompleteWork, FailWork, HeartbeatLost,
       MaybeLate
  <2>4. CancelTicket(job[w].effect, job[w].key) \/ UNCHANGED cancelKey
    BY <1>5 DEF Authorize, CancelReplied, CancelFailed, CompleteWork, FailWork, HeartbeatLost
  <2> QED BY <2>1, <2>2, <2>3, <2>4, CallsOfWorker
<1>6. ASSUME NEW w \in Workers, WorkerCrash(w) PROVE CallsAreSigned'
  <2>1. CASE pc[w] \in Holding
    <3>1. Drop(w, "stopped") /\ "stopped" \in WorkerPhase /\ "stopped" \notin Holding
      BY <1>6 DEF WorkerCrash, WorkerPhase, Compensation
    <3>2. lateCancel' \subseteq lateCancel \cup {<<job[w].effect, job[w].key>>} /\ UNCHANGED cancelKey
      BY <1>6 DEF WorkerCrash, MaybeLate
    <3> QED BY <2>1, <3>1, <3>2, CallsOfWorker
  <2>2. CASE pc[w] \notin Holding
    <3>1. UNCHANGED <<lateCancel, cancelKey>> BY <1>6, <2>2 DEF WorkerCrash, MaybeLate, Compensation
    <3>2. \A v \in Workers : pc'[v] \in Holding => pc[v] \in Holding /\ job'[v] = job[v]
      BY <1>6, <2>2 DEF WorkerCrash, Drop, TypeOK, Compensation
    <3> QED BY <3>1, <3>2, CallsAlone
  <2> QED BY <2>1, <2>2
<1>7. ASSUME NEW w \in Workers,
             \/ ClaimNothing(w) \/ ListPrepared(w) \/ ScanDone(w) \/ WorkerRestart(w)
             \/ ReconcileFound(w) \/ ReconcileMissing(w) \/ \E e \in Effects : QueryEffect(w, e)
             \/ ClaimPassed(w)
      PROVE  CallsAreSigned'
  <2>1. UNCHANGED <<lateCancel, cancelKey>>
    BY <1>7 DEF ClaimNothing, ClaimPassed, ListPrepared, ScanDone, WorkerRestart, ReconcileFound,
       ReconcileMissing, QueryEffect
  <2>2. \A v \in Workers : pc'[v] \in Holding => pc[v] \in Holding /\ job'[v] = job[v]
    BY <1>7 DEF ClaimNothing, ClaimPassed, ListPrepared, ScanDone, WorkerRestart, ReconcileFound,
       ReconcileMissing, QueryEffect, Lookup, GoTo, Drop, TypeOK, Compensation
  <2> QED BY <2>1, <2>2, CallsAlone
<1>8. ASSUME NEW w \in Workers, Heartbeat(w) PROVE UNCHANGED <<lateCancel, cancelKey, pc, job>>
  BY <1>8 DEF Heartbeat
<1>9. ASSUME NEW s \in Subjects, Grant(s) \/ Revoke(s)
      PROVE  UNCHANGED <<lateCancel, cancelKey, pc, job>>
  BY <1>9 DEF Grant, Revoke
<1>10. CASE UNCHANGED vars BY <1>1, <1>10 DEF vars
<1>11. ASSUME NEW w \in Workers, ClaimWork(w) PROVE CallsAreSigned'
  <2>1. job[w].effect \in Effects /\ job[w].key \in Keys BY <1>11 DEF ClaimWork, Memory
  <2> QED BY <1>4, <1>11, <2>1
<1> QED BY <1>1, <1>2, <1>3, <1>4, <1>5, <1>6, <1>7, <1>8, <1>9, <1>10, <1>11
        DEF Next, WorkerStep, CompensateStep, ReconcileStep, WorkerTrouble

\* Whatever is or was being compensated had been approved by someone other than
\* the person who asked for it, whoever renewed the authorization since and
\* whichever stale worker or late call acts on it.
THEOREM DutiesAreSeparate == Spec => []SeparationOfDuty
<1> DEFINE DutyInv == RowsInOrder /\ CallsAreSigned
<1>1. Init => DutyInv
  BY ConstantsAssumption DEF Init, RowsInOrder, RowInOrder, NoRequest, SignedStatus, CallsAreSigned,
     Compensation, Approved
<1>2. TypeOK /\ Memory /\ DutyInv /\ [Next]_vars => DutyInv'
  BY RowsStep, CallsStep
<1>3. DutyInv => SeparationOfDuty
  BY DEF RowsInOrder, RowInOrder, SignedStatus, CallsAreSigned, SeparationOfDuty, Approved
<1> QED BY <1>1, <1>2, <1>3, TypeCorrect, PTL DEF Spec
------------------------------------------------------------------------------
(* What "compensated" means. *)

TicketsMatch == \A e \in Effects : ticket[e] = "cancelled" <=> cancelKey[e] # None

StaysCancelled == \A e \in Effects : ticket[e] = "cancelled" => ticket'[e] = "cancelled"

\* A worker that was told of a success, and a row that says so, are right.
SuccessIsReal ==
  /\ \A w \in Workers : pc[w] = "succeeded" => ticket[job[w].effect] = "cancelled"
  /\ \A e \in Effects : status[e] = "compensated" => ticket[e] = "cancelled"

\* The business API never takes a cancellation back.
LEMMA TicketsStep ==
  ASSUME TypeOK, Memory, TicketsMatch, [Next]_vars
  PROVE  TicketsMatch' /\ StaysCancelled
<1>1. CASE UNCHANGED <<ticket, cancelKey>> BY <1>1 DEF TicketsMatch, StaysCancelled
<1>2. ASSUME NEW e \in Effects, CreateTicket(e) PROVE TicketsMatch' /\ StaysCancelled
  BY <1>2 DEF CreateTicket, TypeOK, TicketsMatch, StaysCancelled
<1>3. ASSUME NEW e \in Effects, NEW k \in Keys, CancelTicket(e, k)
      PROVE  TicketsMatch' /\ StaysCancelled
  BY <1>3, ConstantsAssumption DEF CancelTicket, TypeOK, TicketsMatch, StaysCancelled
<1>4. ASSUME NEW e \in Effects, ApiStep(e)
      PROVE  UNCHANGED <<ticket, cancelKey>> \/ CreateTicket(e)
  BY <1>4 DEF ApiStep, PrepareEffect, CreateReplied, CreateFailed, CompleteEffect, RejectResult,
     ApiCrash, LateCreate
<1>5. ASSUME NEW e \in Effects, PeopleStep(e) \/ TimeStep(e) PROVE UNCHANGED <<ticket, cancelKey>>
  BY <1>5 DEF PeopleStep, RefuseExpired, RequestUndo, DecideUndo, RetryFailed, TimeStep,
     LeaseExpires, LeaseStalls, RetryDue, WindowCloses, AuthorizationExpires
<1>6. ASSUME NEW w \in Workers, WorkerStep(w) \/ WorkerTrouble(w),
             ~CancelReplied(w), ~CancelFailed(w)
      PROVE  UNCHANGED <<ticket, cancelKey>>
  BY <1>6 DEF WorkerStep, CompensateStep, ReconcileStep, WorkerTrouble, ClaimNothing, Authorize,
     CompleteWork, FailWork, SelectWork, ClaimWork, ClaimPassed, ListPrepared, ReconcileFound,
     ReconcileMissing, ScanDone, QueryEffect, WorkerRestart, Heartbeat, HeartbeatLost, WorkerCrash
<1>7. ASSUME NEW w \in Workers, CancelReplied(w) \/ CancelFailed(w)
      PROVE  TicketsMatch' /\ StaysCancelled
  <2>1. PICK e \in Effects, k \in Keys : e = job[w].effect /\ k = job[w].key
    BY <1>7 DEF CancelReplied, CancelFailed, Memory, Compensation
  <2>2. UNCHANGED <<ticket, cancelKey>> \/ CancelTicket(e, k)
    BY <1>7, <2>1 DEF CancelReplied, CancelFailed
  <2> QED BY <2>2, <1>1, <1>3
<1>8. CASE \/ \E s \in Subjects : Grant(s) \/ Revoke(s)
           \/ UNCHANGED vars
  <2>1. UNCHANGED <<ticket, cancelKey>> BY <1>8 DEF Grant, Revoke, vars
  <2> QED BY <2>1, <1>1
<1>9. ASSUME NEW e \in Effects, NEW k \in Keys, LateCancel(e, k)
      PROVE  TicketsMatch' /\ StaysCancelled
  BY <1>9, <1>3 DEF LateCancel
<1> QED BY <1>1, <1>2, <1>4, <1>5, <1>6, <1>7, <1>8, <1>9 DEF Next

\* Only a worker that was told so records a success.
LEMMA SuccessStep ==
  ASSUME TypeOK, Memory, TicketsMatch, SuccessIsReal, StaysCancelled, [Next]_vars
  PROVE  SuccessIsReal'
<1>1. ASSUME NEW w \in Workers, pc'[w] = "succeeded" PROVE ticket'[job'[w].effect] = "cancelled"
  <2>1. CASE pc[w] = "succeeded" /\ job'[w] = job[w]
    <3>1. job[w].effect \in Effects BY <2>1 DEF Memory, Compensation
    <3> QED BY <2>1, <3>1 DEF SuccessIsReal, StaysCancelled
  <2>2. CASE CancelReplied(w)
    <3>1. PICK e \in Effects, k \in Keys : e = job[w].effect /\ k = job[w].key
      BY <2>2 DEF CancelReplied, Memory, Compensation
    <3>2. CancelAccepted(e, k) /\ CancelTicket(e, k) /\ job' = job
      BY <1>1, <2>2, <3>1 DEF CancelReplied, GoTo, TypeOK
    <3>3. ticket'[e] = "cancelled" BY <3>2 DEF CancelAccepted, CancelTicket, TypeOK
    <3> QED BY <3>1, <3>2, <3>3
  <2>3. ASSUME NEW v \in Workers, v # w, WorkerStep(v) \/ WorkerTrouble(v)
        PROVE  pc[w] = "succeeded" /\ job'[w] = job[w]
    BY <1>1, <2>3 DEF WorkerStep, CompensateStep, ReconcileStep, WorkerTrouble, ClaimNothing,
       Authorize, CancelReplied, CompleteWork, FailWork, SelectWork, ClaimWork, ClaimPassed,
       ListPrepared, ReconcileFound, ReconcileMissing, ScanDone, QueryEffect, WorkerRestart,
       Heartbeat, HeartbeatLost, CancelFailed, WorkerCrash, GoTo, Drop, TypeOK
  <2>4. ASSUME WorkerStep(w) \/ WorkerTrouble(w), ~CancelReplied(w)
        PROVE  pc[w] = "succeeded" /\ job'[w] = job[w]
    BY <1>1, <2>4 DEF WorkerStep, CompensateStep, ReconcileStep, WorkerTrouble, ClaimNothing,
       Authorize, CompleteWork, FailWork, SelectWork, ClaimWork, ClaimPassed, ListPrepared,
       ReconcileFound, ReconcileMissing, ScanDone, QueryEffect, Lookup, WorkerRestart, Heartbeat,
       HeartbeatLost, CancelFailed, WorkerCrash, GoTo, Drop, TypeOK
  <2>5. ASSUME NEW e \in Effects, ApiStep(e) \/ PeopleStep(e) \/ TimeStep(e)
        PROVE  UNCHANGED <<pc, job>>
    BY <2>5, OtherTypes
  <2>6. ASSUME \/ \E e \in Effects, k \in Keys : LateCancel(e, k)
               \/ \E s \in Subjects : Grant(s) \/ Revoke(s)
               \/ UNCHANGED vars
        PROVE  UNCHANGED <<pc, job>>
    BY <2>6 DEF LateCancel, Grant, Revoke, vars
  <2> QED BY <1>1, <2>1, <2>2, <2>3, <2>4, <2>5, <2>6 DEF Next
<1>2. ASSUME NEW e \in Effects, status'[e] = "compensated" PROVE ticket'[e] = "cancelled"
  <2>1. CASE status[e] = "compensated" BY <2>1 DEF SuccessIsReal, StaysCancelled
  <2>2. ASSUME NEW w \in Workers, CompleteWork(w), e = job[w].effect PROVE ticket'[e] = "cancelled"
    BY <2>2 DEF CompleteWork, MayComplete, SuccessIsReal, StaysCancelled
  <2>3. ASSUME NEW w \in Workers, CompleteWork(w), e # job[w].effect
        PROVE  status[e] = "compensated"
    BY <1>2, <2>3 DEF CompleteWork, TypeOK
  <2>4. ASSUME NEW w \in Workers, WorkerStep(w) \/ WorkerTrouble(w), ~CompleteWork(w)
        PROVE  status[e] = "compensated"
    BY <1>2, <2>4 DEF WorkerStep, CompensateStep, ReconcileStep, WorkerTrouble, ClaimNothing,
       Authorize, CancelReplied, FailWork, SelectWork, ClaimWork, ClaimPassed, ListPrepared,
       ReconcileFound, Settle, ReconcileMissing, MarkPreparedManual, ScanDone, QueryEffect,
       WorkerRestart, Heartbeat, HeartbeatLost, CancelFailed, WorkerCrash, TypeOK
  <2>5. ASSUME NEW f \in Effects, ApiStep(f) PROVE status[e] = "compensated"
    BY <1>2, <2>5 DEF ApiStep, PrepareEffect, CreateReplied, CreateFailed, CompleteEffect, Settle,
       RejectResult, MarkPreparedManual, ApiCrash, LateCreate, TypeOK
  <2>6. ASSUME NEW f \in Effects, PeopleStep(f) \/ TimeStep(f) PROVE status[e] = "compensated"
    BY <1>2, <2>6 DEF PeopleStep, RefuseExpired, RequestUndo, DecideUndo, RetryFailed, TimeStep,
       LeaseExpires, LeaseStalls, RetryDue, WindowCloses, AuthorizationExpires, TypeOK
  <2>7. ASSUME \/ \E f \in Effects, k \in Keys : LateCancel(f, k)
               \/ \E s \in Subjects : Grant(s) \/ Revoke(s)
               \/ UNCHANGED vars
        PROVE  UNCHANGED status
    BY <2>7 DEF LateCancel, Grant, Revoke, vars
  <2> QED BY <1>2, <2>1, <2>2, <2>3, <2>4, <2>5, <2>6, <2>7 DEF Next
<1> QED BY <1>1, <1>2 DEF SuccessIsReal

LEMMA SuccessInvariant == Spec => [](TicketsMatch /\ SuccessIsReal)
<1> DEFINE Inv == TicketsMatch /\ SuccessIsReal
<1>1. Init => Inv
  BY ConstantsAssumption DEF Init, TicketsMatch, SuccessIsReal
<1>2. TypeOK /\ Memory /\ Inv /\ [Next]_vars => Inv'
  BY TicketsStep, SuccessStep
<1> QED BY <1>1, <1>2, TypeCorrect, PTL DEF Spec

\* A row that reads "compensated" has a cancelled ticket, and a ticket is
\* cancelled by one undo request only, however many workers and calls tried.
THEOREM CompensationIsReal == Spec => []CompensatedMeansCancelled
<1>1. TicketsMatch /\ SuccessIsReal => CompensatedMeansCancelled
  BY DEF TicketsMatch, SuccessIsReal, CompensatedMeansCancelled
<1> QED BY <1>1, SuccessInvariant, PTL
------------------------------------------------------------------------------
(* What a step can make of the two rows of one effect. *)

\* The request under key k becomes r, and no other request of e changes.
PutRequest(e, k, r) == req'[e] = [req[e] EXCEPT ![k] = r]

SameRequests(e) == req'[e] = req[e]

RowStays(e) ==
  /\ status'[e] = status[e] /\ owner'[e] = owner[e] /\ retry'[e] = retry[e]
  /\ SameRequests(e)

\* prepare_effect
RowBegins(e) ==
  /\ status[e] = "absent" /\ status'[e] = "prepared"
  /\ owner'[e] = Api /\ retry'[e] = retry[e] /\ SameRequests(e)

\* Somebody knows that the ticket of e was created.
KnownCreated(e) ==
  api[e] = "created" \/ \E w \in Workers : pc[w] = "found" /\ job[w].effect = e

\* complete_effect and mark_prepared_manual
RowSettles(e) ==
  /\ status[e] = "prepared" /\ status'[e] \in {"available", "manual_required"}
  /\ status'[e] = "available" => KnownCreated(e)
  /\ owner'[e] = NoOne /\ retry'[e] = retry[e] /\ SameRequests(e)

\* request_undo
RowAsked(e) == \E s \in Subjects, k \in Keys :
  /\ status[e] = "available" /\ status'[e] = "undo_pending"
  /\ req[e][k].status = "absent" /\ PutRequest(e, k, Requested(s))
  /\ owner'[e] = owner[e] /\ retry'[e] = retry[e]

\* decide_undo
RowDecided(e) == \E s \in Subjects, k \in Keys :
  /\ status[e] = "undo_pending"
  /\ req[e][k].status = "pending" /\ MayDecide(s, e, k)
  /\ \/ status'[e] = "approved" /\ PutRequest(e, k, Approve(req[e][k], s))
     \/ status'[e] = "rejected" /\ PutRequest(e, k, Reject(req[e][k], s))
  /\ owner'[e] = owner[e] /\ retry'[e] = retry[e]

\* retry_failed
RowRenewed(e) == \E s \in Subjects, k \in Keys :
  /\ status[e] = "compensation_failed" /\ status'[e] = "approved"
  /\ req[e][k].status = "failed" /\ PutRequest(e, k, Renew(req[e][k], s))
  /\ owner'[e] = NoOne /\ retry'[e] = retry[e]

\* claim_work
RowClaimed(e) == \E w \in Workers :
  /\ pc[w] = "selected" /\ job[w].effect = e
  /\ status[e] \in {"approved", "retry_wait", "compensating"}
  /\ status'[e] = "compensating" /\ owner'[e] = w
  /\ retry'[e] = retry[e] /\ SameRequests(e)

\* complete_work
RowDone(e) == \E w \in Workers :
  /\ pc[w] = "succeeded" /\ job[w].effect = e /\ owner[e] = w
  /\ status'[e] = "compensated" /\ owner'[e] = NoOne /\ retry'[e] = retry[e]
  /\ PutRequest(e, job[w].key, Close(req[e][job[w].key], "completed"))

\* fail_work
RowFails(e) == \E w \in Workers :
  /\ pc[w] \in {"retryable", "permanent"} /\ job[w].effect = e /\ owner[e] = w
  /\ owner'[e] = NoOne /\ retry'[e] = job[w].retry + 1
  /\ \/ status'[e] = "retry_wait" /\ RetriesAgain(job[w].retry + 1) /\ SameRequests(e)
     \/ /\ status'[e] = "compensation_failed"
        /\ PutRequest(e, job[w].key, Close(req[e][job[w].key], "failed"))

RowMoves(e) ==
  \/ RowStays(e) \/ RowBegins(e) \/ RowSettles(e) \/ RowAsked(e) \/ RowDecided(e)
  \/ RowRenewed(e) \/ RowClaimed(e) \/ RowDone(e) \/ RowFails(e)

\* In one step the rows of one effect move, and those of all others stay.
OneRowMoves ==
  \/ UNCHANGED <<status, owner, retry, req>>
  \/ \E f \in Effects : RowMoves(f) /\ \A e \in Effects \ {f} : RowStays(e)

\* A row that is settled, by the API or by a reconciler.
LEMMA SettledRow ==
  ASSUME TypeOK, NEW f \in Effects, status[f] = "prepared", ReleaseLease(f),
         NEW s \in {"available", "manual_required"}, status' = [status EXCEPT ![f] = s],
         s = "available" => KnownCreated(f), UNCHANGED <<retry, req>>
  PROVE  OneRowMoves
<1>1. RowSettles(f) BY DEF RowSettles, TypeOK, ReleaseLease, SameRequests
<1>2. \A e \in Effects \ {f} : RowStays(e) BY DEF RowStays, TypeOK, ReleaseLease, SameRequests
<1> QED BY <1>1, <1>2 DEF RowMoves, OneRowMoves

\* Whatever the step, the rows of one effect at most make one of these moves.
LEMMA MovesOfStep ==
  ASSUME TypeOK, Memory, [Next]_vars
  PROVE  OneRowMoves
<1>1. ASSUME NEW f \in Effects, PrepareEffect(f) PROVE OneRowMoves
  <2>1. RowBegins(f) BY <1>1 DEF PrepareEffect, RowBegins, TypeOK, SameRequests
  <2>2. \A e \in Effects \ {f} : RowStays(e)
    BY <1>1 DEF PrepareEffect, RowStays, TypeOK, SameRequests
  <2> QED BY <2>1, <2>2 DEF RowMoves, OneRowMoves
<1>2. ASSUME NEW f \in Effects, CompleteEffect(f) PROVE OneRowMoves
  <2>1. CASE status[f] = "prepared"
    <3>1. Settle(f) /\ KnownCreated(f) /\ UNCHANGED req
      BY <1>2, <2>1 DEF CompleteEffect, KnownCreated
    <3>2. PICK s \in {"available", "manual_required"} : status' = [status EXCEPT ![f] = s]
      BY <3>1 DEF Settle
    <3> QED BY <2>1, <3>1, <3>2, SettledRow DEF Settle
  <2>2. CASE status[f] # "prepared" BY <1>2, <2>2 DEF OneRowMoves, CompleteEffect
  <2> QED BY <2>1, <2>2
<1>3. ASSUME NEW f \in Effects, MarkPreparedManual(f), UNCHANGED req
      PROVE  OneRowMoves
  <2>1. CASE status[f] = "prepared" BY <1>3, <2>1, SettledRow DEF MarkPreparedManual
  <2>2. CASE status[f] # "prepared" BY <1>3, <2>2 DEF OneRowMoves, MarkPreparedManual
  <2> QED BY <2>1, <2>2
<1>4. ASSUME NEW f \in Effects, ApiStep(f) PROVE OneRowMoves
  <2>1. CASE RejectResult(f) BY <1>3, <2>1 DEF RejectResult
  <2>2. CASE CreateReplied(f) \/ CreateFailed(f) \/ ApiCrash(f) \/ LateCreate(f)
    BY <2>2 DEF OneRowMoves, CreateReplied, CreateFailed, ApiCrash, LateCreate
  <2> QED BY <1>4, <1>1, <1>2, <2>1, <2>2 DEF ApiStep
<1>5. ASSUME NEW f \in Effects, PeopleStep(f) PROVE OneRowMoves
  <2>1. ASSUME NEW s \in Subjects, RefuseExpired(s, f) PROVE OneRowMoves
    BY <2>1 DEF OneRowMoves, RefuseExpired
  <2>2. ASSUME NEW s \in Subjects, NEW k \in Keys, RequestUndo(s, f, k)
        PROVE  OneRowMoves
    <3>1. RowAsked(f)
      BY <2>2 DEF RequestUndo, Undoable, RowAsked, PutRequest, TypeOK
    <3>2. \A e \in Effects \ {f} : RowStays(e)
      BY <2>2 DEF RequestUndo, RowStays, SameRequests, TypeOK
    <3> QED BY <3>1, <3>2 DEF RowMoves, OneRowMoves
  <2>3. ASSUME NEW s \in Subjects, NEW k \in Keys, DecideUndo(s, f, k)
        PROVE  OneRowMoves
    <3>1. RowDecided(f)
      BY <2>3 DEF DecideUndo, RowDecided, PutRequest, TypeOK
    <3>2. \A e \in Effects \ {f} : RowStays(e)
      BY <2>3 DEF DecideUndo, RowStays, SameRequests, TypeOK
    <3> QED BY <3>1, <3>2 DEF RowMoves, OneRowMoves
  <2>4. ASSUME NEW s \in Subjects, NEW k \in Keys, RetryFailed(s, f, k)
        PROVE  OneRowMoves
    <3>1. RowRenewed(f)
      BY <2>4 DEF RetryFailed, ReleaseLease, RowRenewed, PutRequest, TypeOK
    <3>2. \A e \in Effects \ {f} : RowStays(e)
      BY <2>4 DEF RetryFailed, ReleaseLease, RowStays, SameRequests, TypeOK
    <3> QED BY <3>1, <3>2 DEF RowMoves, OneRowMoves
  <2> QED BY <1>5, <2>1, <2>2, <2>3, <2>4 DEF PeopleStep
<1>6. ASSUME NEW w \in Workers, ClaimWork(w) PROVE OneRowMoves
  <2> DEFINE f == job[w].effect
  <2>1. f \in Effects BY <1>6 DEF ClaimWork, Memory
  <2>2. RowClaimed(f)
    BY <1>6, <2>1 DEF ClaimWork, Claimable, RowClaimed, SameRequests, TypeOK
  <2>3. \A e \in Effects \ {f} : RowStays(e)
    BY <1>6, <2>1 DEF ClaimWork, RowStays, SameRequests, TypeOK
  <2> QED BY <2>1, <2>2, <2>3 DEF RowMoves, OneRowMoves
<1>7. ASSUME NEW w \in Workers, CompleteWork(w) PROVE OneRowMoves
  <2> DEFINE f == job[w].effect
             k == job[w].key
  <2>1. f \in Effects /\ k \in Keys BY <1>7 DEF CompleteWork, MayComplete, Memory, Compensation
  <2>2. CASE OwnsLease(w)
    <3>1. /\ status' = [status EXCEPT ![f] = "compensated"]
          /\ ReleaseLease(f)
          /\ req' = [req EXCEPT ![f][k] = Close(@, "completed")]
          /\ UNCHANGED retry
      BY <1>7, <2>2 DEF CompleteWork
    <3>2. PutRequest(f, k, Close(req[f][k], "completed")) BY <2>1, <3>1 DEF PutRequest, TypeOK
    <3>3. RowDone(f)
      BY <1>7, <2>1, <2>2, <3>1, <3>2
         DEF CompleteWork, MayComplete, OwnsLease, ReleaseLease, RowDone, TypeOK
    <3>4. \A e \in Effects \ {f} : RowStays(e)
      BY <2>1, <3>1 DEF ReleaseLease, RowStays, SameRequests, TypeOK
    <3> QED BY <2>1, <3>3, <3>4 DEF RowMoves, OneRowMoves
  <2>3. CASE ~OwnsLease(w) BY <1>7, <2>3 DEF OneRowMoves, CompleteWork
  <2> QED BY <2>2, <2>3
<1>8. ASSUME NEW w \in Workers, FailWork(w) PROVE OneRowMoves
  <2> DEFINE f == job[w].effect
             k == job[w].key
             n == job[w].retry + 1
             again == pc[w] = "retryable" /\ RetriesAgain(n)
  <2>1. f \in Effects /\ k \in Keys BY <1>8 DEF FailWork, Memory, Compensation
  <2>2. CASE OwnsLease(w)
    <3>1. /\ status' = [status EXCEPT ![f] = IF again THEN "retry_wait" ELSE "compensation_failed"]
          /\ retry' = [retry EXCEPT ![f] = n]
          /\ ReleaseLease(f)
          /\ req' = IF again THEN req ELSE [req EXCEPT ![f][k] = Close(@, "failed")]
          /\ pc[w] \in {"retryable", "permanent"}
      BY <1>8, <2>2 DEF FailWork
    <3>2. again => SameRequests(f) BY <3>1 DEF SameRequests
    <3>3. ~again => PutRequest(f, k, Close(req[f][k], "failed"))
      BY <2>1, <3>1 DEF PutRequest, TypeOK
    <3>4. status'[f] = IF again THEN "retry_wait" ELSE "compensation_failed"
      BY <2>1, <3>1 DEF TypeOK
    <3>5. owner'[f] = NoOne /\ retry'[f] = n BY <2>1, <3>1 DEF TypeOK, ReleaseLease
    <3>6. RowFails(f)
      BY <2>1, <2>2, <3>1, <3>2, <3>3, <3>4, <3>5 DEF OwnsLease, RowFails
    <3>7. \A e \in Effects \ {f} : RowStays(e)
      BY <2>1, <3>1 DEF ReleaseLease, RowStays, SameRequests, TypeOK
    <3> QED BY <2>1, <3>6, <3>7 DEF RowMoves, OneRowMoves
  <2>3. CASE ~OwnsLease(w) BY <1>8, <2>3 DEF OneRowMoves, FailWork
  <2> QED BY <2>2, <2>3
<1>9. ASSUME NEW w \in Workers, ReconcileFound(w) PROVE OneRowMoves
  <2> DEFINE f == job[w].effect
  <2>1. f \in Effects BY <1>9 DEF ReconcileFound, Memory
  <2>2. CASE status[f] = "prepared"
    <3>1. Settle(f) /\ KnownCreated(f) /\ UNCHANGED req
      BY <1>9, <2>2 DEF ReconcileFound, KnownCreated
    <3>2. PICK s \in {"available", "manual_required"} : status' = [status EXCEPT ![f] = s]
      BY <3>1 DEF Settle
    <3> QED BY <2>1, <2>2, <3>1, <3>2, SettledRow DEF Settle
  <2>3. CASE status[f] # "prepared" BY <1>9, <2>3 DEF OneRowMoves, ReconcileFound
  <2> QED BY <2>2, <2>3
<1>10. ASSUME NEW w \in Workers, ReconcileMissing(w) PROVE OneRowMoves
  <2>1. job[w].effect \in Effects BY <1>10 DEF ReconcileMissing, Memory
  <2> QED BY <1>10, <2>1, <1>3 DEF ReconcileMissing
<1>11. ASSUME NEW w \in Workers,
              \/ ClaimNothing(w) \/ Authorize(w) \/ CancelReplied(w) \/ ListPrepared(w)
              \/ ScanDone(w) \/ WorkerRestart(w) \/ WorkerTrouble(w)
              \/ \E e \in Effects : QueryEffect(w, e)
              \/ ClaimPassed(w) \/ \E e \in Effects, k \in Keys : SelectWork(w, e, k)
       PROVE  OneRowMoves
  <2>1. UNCHANGED <<status, owner, retry, req>>
    BY <1>11 DEF ClaimNothing, SelectWork, ClaimPassed, Authorize, CancelReplied, ListPrepared,
       ScanDone, WorkerRestart, WorkerTrouble, Heartbeat, HeartbeatLost, CancelFailed, WorkerCrash,
       QueryEffect
  <2> QED BY <2>1 DEF OneRowMoves
<1>12. ASSUME \/ \E f \in Effects : TimeStep(f)
              \/ \E f \in Effects, k \in Keys : LateCancel(f, k)
              \/ \E s \in Subjects : Grant(s) \/ Revoke(s)
              \/ UNCHANGED vars
       PROVE  OneRowMoves
  <2>1. UNCHANGED <<status, owner, retry, req>>
    BY <1>12 DEF TimeStep, LeaseExpires, LeaseStalls, RetryDue, WindowCloses,
       AuthorizationExpires, LateCancel, Grant, Revoke, vars
  <2> QED BY <2>1 DEF OneRowMoves
<1> QED BY <1>4, <1>5, <1>6, <1>7, <1>8, <1>9, <1>10, <1>11, <1>12
        DEF Next, WorkerStep, CompensateStep, ReconcileStep

LEMMA MovesOfRows ==
  ASSUME TypeOK, Memory, [Next]_vars
  PROVE  \A e \in Effects : RowMoves(e)
  BY MovesOfStep DEF OneRowMoves, RowMoves, RowStays, SameRequests
------------------------------------------------------------------------------
(* The two tables. *)

\* The status of an effect fixes which requests it has.
TablesAgreeOn(e) ==
  /\ \A k, l \in Keys : req[e][k].status # "absent" /\ req[e][l].status # "absent" => k = l
  /\ \A k \in Keys : req[e][k].status # "absent" => req[e][k].status = RequestFor(status[e])
  /\ RequestFor(status[e]) # "absent" => \E k \in Keys : req[e][k].status # "absent"

\* The status moves alone, between two that ask for the same request.
LEMMA AgreementAlone ==
  ASSUME NEW e \in Effects, TablesAgreeOn(e), SameRequests(e),
         RequestFor(status'[e]) = RequestFor(status[e])
  PROVE  TablesAgreeOn(e)'
<1>1. req'[e] = req[e] BY DEF SameRequests
<1>2. RequestFor(status[e])' = RequestFor(status[e]) BY DEF RequestFor
<1> QED BY <1>1, <1>2 DEF TablesAgreeOn

\* The status moves together with the only request there is, or with the first.
LEMMA AgreementTogether ==
  ASSUME TypeOK, NEW e \in Effects, TablesAgreeOn(e), NEW k \in Keys, NEW r, PutRequest(e, k, r),
         req[e][k].status # "absent" \/ RequestFor(status[e]) = "absent",
         r.status # "absent", RequestFor(status'[e]) = r.status
  PROVE  TablesAgreeOn(e)'
<1>1. \A l \in Keys : l # k => req[e][l].status = "absent" BY DEF TablesAgreeOn
<1>2. \A l \in Keys : req'[e][l] = IF l = k THEN r ELSE req[e][l] BY DEF PutRequest, TypeOK
<1>3. RequestFor(status[e])' = r.status BY DEF RequestFor
<1> QED BY <1>1, <1>2, <1>3 DEF TablesAgreeOn

\* An effect that is being compensated has one approved request, and the worker
\* at work on it was signed for that one.
LEMMA WorkedRequest ==
  ASSUME Memory, LeaseMatchesStatus, CallsAreSigned, TablesAgree,
         NEW w \in Workers, pc[w] \in Compensation, owner[job[w].effect] = w
  PROVE  /\ job[w].effect \in Effects /\ job[w].key \in Keys
         /\ status[job[w].effect] = "compensating"
         /\ req[job[w].effect][job[w].key].status = "approved"
<1>1. job[w].effect \in Effects /\ job[w].key \in Keys BY DEF Memory
<1>2. status[job[w].effect] = "compensating" BY <1>1 DEF LeaseMatchesStatus
<1>3. req[job[w].effect][job[w].key].status # "absent" BY DEF CallsAreSigned, Approved
<1>4. req[job[w].effect][job[w].key].status = RequestFor(status[job[w].effect])
  BY <1>1, <1>3 DEF TablesAgree
<1> QED BY <1>1, <1>2, <1>4 DEF RequestFor

LEMMA TablesStep ==
  ASSUME TypeOK, Memory, LeaseMatchesStatus, CallsAreSigned, TablesAgree, [Next]_vars
  PROVE  TablesAgree'
<1> SUFFICES ASSUME NEW e \in Effects PROVE TablesAgreeOn(e)'
  BY DEF TablesAgree, TablesAgreeOn
<1>0. TablesAgreeOn(e) /\ RowMoves(e) BY MovesOfRows DEF TablesAgree, TablesAgreeOn
<1>1. CASE RowStays(e)
  <2>1. SameRequests(e) /\ status'[e] = status[e] BY <1>1 DEF RowStays
  <2> QED BY <1>0, <2>1, AgreementAlone
<1>2. CASE RowBegins(e)
  <2>1. SameRequests(e) /\ RequestFor(status'[e]) = RequestFor(status[e])
    BY <1>2 DEF RowBegins, RequestFor
  <2> QED BY <1>0, <2>1, AgreementAlone
<1>3. CASE RowSettles(e)
  <2>1. SameRequests(e) /\ RequestFor(status'[e]) = RequestFor(status[e])
    BY <1>3 DEF RowSettles, RequestFor
  <2> QED BY <1>0, <2>1, AgreementAlone
<1>4. CASE RowAsked(e)
  <2>1. PICK s \in Subjects, k \in Keys :
          status[e] = "available" /\ status'[e] = "undo_pending" /\ PutRequest(e, k, Requested(s))
    BY <1>4 DEF RowAsked
  <2>2. RequestFor(status[e]) = "absent" /\ RequestFor(status'[e]) = "pending"
    BY <2>1 DEF RequestFor
  <2>3. Requested(s).status = "pending" BY DEF Requested
  <2> QED BY <1>0, <2>1, <2>2, <2>3, AgreementTogether
<1>5. CASE RowDecided(e)
  <2>1. PICK s \in Subjects, k \in Keys :
          /\ req[e][k].status = "pending"
          /\ \/ status'[e] = "approved" /\ PutRequest(e, k, Approve(req[e][k], s))
             \/ status'[e] = "rejected" /\ PutRequest(e, k, Reject(req[e][k], s))
    BY <1>5 DEF RowDecided
  <2>2. req[e][k] \in Request BY DEF TypeOK
  <2>3. Approve(req[e][k], s).status = "approved" /\ Reject(req[e][k], s).status = "rejected"
    BY <2>2 DEF Approve, Reject, Request
  <2>4. CASE status'[e] = "approved" /\ PutRequest(e, k, Approve(req[e][k], s))
    <3>1. RequestFor(status'[e]) = "approved" BY <2>4 DEF RequestFor
    <3> QED BY <1>0, <2>1, <2>3, <2>4, <3>1, AgreementTogether
  <2>5. CASE status'[e] = "rejected" /\ PutRequest(e, k, Reject(req[e][k], s))
    <3>1. RequestFor(status'[e]) = "rejected" BY <2>5 DEF RequestFor
    <3> QED BY <1>0, <2>1, <2>3, <2>5, <3>1, AgreementTogether
  <2> QED BY <2>1, <2>4, <2>5
<1>6. CASE RowRenewed(e)
  <2>1. PICK s \in Subjects, k \in Keys :
          /\ req[e][k].status = "failed" /\ status'[e] = "approved"
          /\ PutRequest(e, k, Renew(req[e][k], s))
    BY <1>6 DEF RowRenewed
  <2>2. req[e][k] \in Request BY DEF TypeOK
  <2>3. Renew(req[e][k], s).status = "approved" BY <2>2 DEF Renew, Request
  <2>4. RequestFor(status'[e]) = "approved" BY <2>1 DEF RequestFor
  <2> QED BY <1>0, <2>1, <2>3, <2>4, AgreementTogether
<1>7. CASE RowClaimed(e)
  <2>1. SameRequests(e) /\ RequestFor(status'[e]) = RequestFor(status[e])
    BY <1>7 DEF RowClaimed, RequestFor
  <2> QED BY <1>0, <2>1, AgreementAlone
<1>8. CASE RowDone(e)
  <2>1. PICK w \in Workers :
          /\ pc[w] = "succeeded" /\ job[w].effect = e /\ owner[e] = w
          /\ status'[e] = "compensated"
          /\ PutRequest(e, job[w].key, Close(req[e][job[w].key], "completed"))
    BY <1>8 DEF RowDone
  <2>2. job[w].key \in Keys /\ req[e][job[w].key].status = "approved"
    BY <2>1, WorkedRequest DEF Compensation
  <2>3. req[e][job[w].key] \in Request BY <2>2 DEF TypeOK
  <2>4. Close(req[e][job[w].key], "completed").status = "completed" BY <2>3 DEF Close, Request
  <2>5. RequestFor(status'[e]) = "completed" BY <2>1 DEF RequestFor
  <2> QED BY <1>0, <2>1, <2>2, <2>4, <2>5, AgreementTogether
<1>9. CASE RowFails(e)
  <2>1. PICK w \in Workers :
          /\ pc[w] \in {"retryable", "permanent"} /\ job[w].effect = e /\ owner[e] = w
          /\ \/ status'[e] = "retry_wait" /\ SameRequests(e)
             \/ /\ status'[e] = "compensation_failed"
                /\ PutRequest(e, job[w].key, Close(req[e][job[w].key], "failed"))
    BY <1>9 DEF RowFails
  <2>2. job[w].key \in Keys /\ req[e][job[w].key].status = "approved" /\ status[e] = "compensating"
    BY <2>1, WorkedRequest DEF Compensation
  <2>3. req[e][job[w].key] \in Request BY <2>2 DEF TypeOK
  <2>4. Close(req[e][job[w].key], "failed").status = "failed" BY <2>3 DEF Close, Request
  <2>5. CASE status'[e] = "retry_wait" /\ SameRequests(e)
    <3>1. RequestFor(status'[e]) = RequestFor(status[e]) BY <2>2, <2>5 DEF RequestFor
    <3> QED BY <1>0, <2>5, <3>1, AgreementAlone
  <2>6. CASE /\ status'[e] = "compensation_failed"
             /\ PutRequest(e, job[w].key, Close(req[e][job[w].key], "failed"))
    <3>1. RequestFor(status'[e]) = "failed" BY <2>6 DEF RequestFor
    <3> QED BY <1>0, <2>2, <2>4, <2>6, <3>1, AgreementTogether
  <2> QED BY <2>1, <2>5, <2>6
<1> QED BY <1>0, <1>1, <1>2, <1>3, <1>4, <1>5, <1>6, <1>7, <1>8, <1>9 DEF RowMoves

\* What the later proofs rest on.
RowInv == TypeOK /\ Memory /\ LeaseMatchesStatus /\ RowsInOrder /\ CallsAreSigned /\ TablesAgree

LEMMA RowInvariant == Spec => []RowInv
<1>1. Init => RowsInOrder /\ CallsAreSigned
  BY ConstantsAssumption DEF Init, RowsInOrder, RowInOrder, NoRequest, SignedStatus, CallsAreSigned,
     Compensation, Approved
<1>2. TypeOK /\ Memory /\ RowsInOrder /\ CallsAreSigned /\ [Next]_vars
        => RowsInOrder' /\ CallsAreSigned'
  BY RowsStep, CallsStep
<1>3. Spec => [](RowsInOrder /\ CallsAreSigned)
  BY <1>1, <1>2, TypeCorrect, PTL DEF Spec
<1>4. Init => TablesAgree
  BY DEF Init, TablesAgree, NoRequest, RequestFor
<1>5. TypeOK /\ Memory /\ LeaseMatchesStatus /\ CallsAreSigned /\ TablesAgree /\ [Next]_vars
        => TablesAgree'
  BY TablesStep
<1>6. Spec => []TablesAgree
  BY <1>3, <1>4, <1>5, TypeCorrect, LeaseIsStatus, PTL DEF Spec
<1> QED BY <1>3, <1>6, TypeCorrect, LeaseIsStatus, PTL DEF RowInv

\* An effect has at most one undo request and its status is the one that request
\* stands for, so joining the tables by effect_id alone is safe.
THEOREM TablesStayTogether == Spec => []TablesAgree
  BY RowInvariant, PTL DEF RowInv

\* Settled effects stay as they are, and only a new authorization reopens a
\* permanent failure, whatever answers arrive late.
THEOREM SettledIsFinal == Spec => SettledStaysSettled
<1> DEFINE Kept(e) ==
      /\ status[e] \in {"compensated", "rejected", "manual_required"} => status'[e] = status[e]
      /\ status[e] = "compensation_failed" /\ status'[e] # status[e] =>
           \E k \in Keys : req'[e][k].auth > req[e][k].auth
<1>1. RowInv /\ [Next]_vars => [\A e \in Effects : Kept(e)]_vars
  <2> SUFFICES ASSUME RowInv, [Next]_vars, NEW e \in Effects PROVE Kept(e)
    OBVIOUS
  <2>1. RowMoves(e) BY MovesOfRows DEF RowInv
  <2>2. ASSUME NEW w \in Workers, pc[w] \in Compensation, job[w].effect = e, owner[e] = w
        PROVE  status[e] = "compensating"
    BY <2>2 DEF RowInv, LeaseMatchesStatus
  <2>3. CASE RowDone(e) \/ RowFails(e)
    <3>1. status[e] = "compensating" BY <2>2, <2>3 DEF RowDone, RowFails, Compensation
    <3> QED BY <3>1
  <2>4. CASE RowRenewed(e)
    <3>1. PICK s \in Subjects, k \in Keys :
            status[e] = "compensation_failed" /\ PutRequest(e, k, Renew(req[e][k], s))
      BY <2>4 DEF RowRenewed
    <3>2. req[e][k] \in Request /\ req[e] \in [Keys -> Request] BY DEF RowInv, TypeOK
    <3>3. Renew(req[e][k], s).auth = req[e][k].auth + 1 /\ req[e][k].auth \in Nat
      BY <3>2 DEF Renew, Request
    <3>4. req'[e][k].auth = req[e][k].auth + 1 BY <3>1, <3>2, <3>3 DEF PutRequest
    <3>5. req'[e][k].auth > req[e][k].auth BY <3>3, <3>4
    <3> QED BY <3>1, <3>5
  <2>5. CASE RowStays(e) BY <2>5 DEF RowStays
  <2>6. CASE RowBegins(e) \/ RowSettles(e) \/ RowAsked(e) \/ RowDecided(e) \/ RowClaimed(e)
    BY <2>6 DEF RowBegins, RowSettles, RowAsked, RowDecided, RowClaimed
  <2> QED BY <2>1, <2>3, <2>4, <2>5, <2>6 DEF RowMoves
<1> QED BY <1>1, RowInvariant, PTL DEF Spec, SettledStaysSettled
------------------------------------------------------------------------------
(* What workers remember. *)

\* A worker that holds a row held it before and remembers the same, or has just
\* selected or claimed it.
LEMMA MovesOfMemory ==
  ASSUME TypeOK, [Next]_vars, NEW w \in Workers, pc'[w] \in Holding
  PROVE  \/ /\ pc[w] \in Holding /\ job'[w] = job[w]
            /\ pc'[w] \in Compensation => pc[w] \in Compensation
         \/ ClaimWork(w)
         \/ \E e \in Effects, k \in Keys : SelectWork(w, e, k)
<1> DEFINE Same == /\ pc[w] \in Holding /\ job'[w] = job[w]
                   /\ pc'[w] \in Compensation => pc[w] \in Compensation
<1>1. ASSUME NEW e \in Effects, ApiStep(e) \/ PeopleStep(e) \/ TimeStep(e)
      PROVE  UNCHANGED <<pc, job>>
  BY <1>1, OtherTypes
<1>2. ASSUME \/ \E e \in Effects, k \in Keys : LateCancel(e, k)
             \/ \E s \in Subjects : Grant(s) \/ Revoke(s)
             \/ UNCHANGED vars
      PROVE  UNCHANGED <<pc, job>>
  BY <1>2 DEF LateCancel, Grant, Revoke, vars
<1>3. ASSUME NEW v \in Workers, v # w, WorkerStep(v) \/ WorkerTrouble(v)
      PROVE  pc'[w] = pc[w] /\ job'[w] = job[w]
  BY <1>3 DEF WorkerStep, CompensateStep, ReconcileStep, WorkerTrouble, ClaimNothing, Authorize,
     CancelReplied, CompleteWork, FailWork, SelectWork, ClaimWork, ClaimPassed, ListPrepared,
     ReconcileFound, ReconcileMissing, ScanDone, QueryEffect, WorkerRestart, Heartbeat,
     HeartbeatLost, CancelFailed, WorkerCrash, GoTo, Drop, TypeOK
<1>4. ASSUME Authorize(w) \/ CancelReplied(w) \/ CancelFailed(w) \/ Heartbeat(w)
      PROVE  Same
  BY <1>4 DEF Authorize, CancelReplied, CancelFailed, Heartbeat, GoTo, Compensation
<1>5. ASSUME \/ ClaimNothing(w) \/ CompleteWork(w) \/ FailWork(w) \/ ListPrepared(w)
             \/ ReconcileFound(w) \/ ReconcileMissing(w) \/ ScanDone(w) \/ WorkerRestart(w)
             \/ HeartbeatLost(w) \/ WorkerCrash(w) \/ ClaimPassed(w)
      PROVE  FALSE
  BY <1>5 DEF ClaimNothing, CompleteWork, FailWork, ListPrepared, ReconcileFound, ClaimPassed,
     ReconcileMissing, ScanDone, WorkerRestart, HeartbeatLost, WorkerCrash, GoTo, Drop, TypeOK,
     Compensation
<1>6. ASSUME NEW e \in Effects, QueryEffect(w, e) PROVE Same
  BY <1>6 DEF QueryEffect, Lookup, TypeOK, Compensation
<1> QED BY <1>1, <1>2, <1>3, <1>4, <1>5, <1>6
        DEF Next, WorkerStep, CompensateStep, ReconcileStep, WorkerTrouble

\* A request that was approved keeps the actor of each authorization, and gets
\* a new one only with a new number.
LEMMA AuthorizationsGrow ==
  ASSUME RowInv, [Next]_vars, NEW e \in Effects, NEW k \in Keys, Approved(e, k)
  PROVE  \/ req'[e][k].auth = req[e][k].auth /\ req'[e][k].actor = req[e][k].actor
         \/ req'[e][k].auth = req[e][k].auth + 1
<1>1. RowMoves(e) BY MovesOfRows DEF RowInv
<1>2. req[e] \in [Keys -> Request] /\ req[e][k].auth \in Nat BY DEF RowInv, TypeOK, Request
<1>3. CASE SameRequests(e) BY <1>3 DEF SameRequests
<1>4. ASSUME NEW l \in Keys, NEW r, PutRequest(e, l, r), l # k
      PROVE  req'[e][k] = req[e][k]
  BY <1>2, <1>4 DEF PutRequest
<1>5. CASE RowAsked(e)
  <2>1. req[e][k].status = "absent" BY <1>5 DEF RowAsked, RowInv, TablesAgree, RequestFor
  <2> QED BY <2>1 DEF Approved
<1>6. CASE RowDecided(e)
  <2>1. PICK s \in Subjects, l \in Keys :
          /\ req[e][l].status = "pending"
          /\ PutRequest(e, l, Approve(req[e][l], s)) \/ PutRequest(e, l, Reject(req[e][l], s))
    BY <1>6 DEF RowDecided
  <2>2. l # k BY <2>1 DEF Approved
  <2> QED BY <1>4, <2>1, <2>2
<1>7. CASE RowRenewed(e)
  <2>1. PICK s \in Subjects, l \in Keys : PutRequest(e, l, Renew(req[e][l], s))
    BY <1>7 DEF RowRenewed
  <2>2. CASE l = k
    <3>1. req'[e][k] = Renew(req[e][k], s) BY <1>2, <2>1, <2>2 DEF PutRequest
    <3> QED BY <1>2, <3>1 DEF Renew, Request
  <2> QED BY <1>4, <2>1, <2>2
<1>8. ASSUME NEW l \in Keys, NEW o, PutRequest(e, l, Close(req[e][l], o))
      PROVE  req'[e][k].auth = req[e][k].auth /\ req'[e][k].actor = req[e][k].actor
  <2>1. CASE l = k
    <3>1. req'[e][k] = Close(req[e][k], o) BY <1>2, <1>8, <2>1 DEF PutRequest
    <3> QED BY <1>2, <3>1 DEF Close, Request
  <2> QED BY <1>4, <1>8, <2>1
<1>9. CASE RowDone(e) \/ RowFails(e)
  <2>1. PICK w \in Workers :
          /\ pc[w] \in Compensation /\ job[w].effect = e
          /\ \/ SameRequests(e)
             \/ \E o : PutRequest(e, job[w].key, Close(req[e][job[w].key], o))
    BY <1>9 DEF RowDone, RowFails, Compensation
  <2>2. job[w].key \in Keys BY <2>1 DEF RowInv, Memory
  <2> QED BY <1>3, <1>8, <2>1, <2>2
<1> QED BY <1>1, <1>3, <1>5, <1>6, <1>7, <1>9
        DEF RowMoves, RowStays, RowBegins, RowSettles, RowClaimed

\* The authorization in a worker's memory is one of its request: the one in
\* force, or an earlier one.
Authorized(w, e, k) ==
  /\ job[w].auth \in 1..req[e][k].auth
  /\ job[w].auth = req[e][k].auth => job[w].actor = req[e][k].actor

HoldersAreAuthorized == \A w \in Workers :
  pc[w] \in Holding => Authorized(w, job[w].effect, job[w].key)

\* The retry_count in the memory of an owner is the one in the table.
OwnersCount == \A w \in Workers :
  pc[w] \in Compensation /\ OwnsLease(w) => job[w].retry = retry[job[w].effect]

LEMMA AuthorizedStep ==
  ASSUME RowInv, HoldersAreAuthorized, [Next]_vars
  PROVE  HoldersAreAuthorized'
<1> SUFFICES ASSUME NEW w \in Workers, pc'[w] \in Holding
             PROVE  Authorized(w, job[w].effect, job[w].key)'
  BY DEF HoldersAreAuthorized
<1>0. TypeOK BY DEF RowInv
<1>1. CASE pc[w] \in Holding /\ job'[w].effect = job[w].effect /\ job'[w].key = job[w].key
           /\ job'[w].auth = job[w].auth /\ job'[w].actor = job[w].actor
  <2> DEFINE e == job[w].effect
             k == job[w].key
  <2>1. e \in Effects /\ k \in Keys /\ Approved(e, k)
    BY <1>1 DEF RowInv, Memory, CallsAreSigned
  <2>2. Authorized(w, e, k) BY <1>1 DEF HoldersAreAuthorized
  <2>3. req[e][k].auth \in Nat BY <2>1 DEF RowInv, TypeOK, Request
  <2>4. \/ req'[e][k].auth = req[e][k].auth /\ req'[e][k].actor = req[e][k].actor
        \/ req'[e][k].auth = req[e][k].auth + 1
    BY <2>1, AuthorizationsGrow
  <2>5. /\ job'[w].auth \in 1..req'[e][k].auth
        /\ job'[w].auth = req'[e][k].auth => job'[w].actor = req'[e][k].actor
    BY <1>1, <2>2, <2>3, <2>4 DEF Authorized
  <2> QED BY <1>1, <2>5 DEF Authorized
<1>2. CASE ClaimWork(w)
  <2>1. pc[w] \in Holding /\ job[w] \in Job BY <1>0, <1>2 DEF ClaimWork, TypeOK
  <2>2. job'[w] = Locked(job[w]) BY <1>0, <1>2 DEF ClaimWork, TypeOK
  <2> QED BY <1>1, <2>1, <2>2 DEF Locked, Job
<1>3. ASSUME NEW e \in Effects, NEW k \in Keys, SelectWork(w, e, k)
      PROVE  Authorized(w, job[w].effect, job[w].key)'
  <2>1. req' = req /\ req[e][k].status = "approved" /\ job'[w] = Snapshot(e, k)
    BY <1>0, <1>3 DEF SelectWork, TypeOK
  <2>2. req[e][k].auth \in Nat \ {0}
    BY <1>0, <2>1 DEF TypeOK, Request, RowInv, RowsInOrder, RowInOrder, SignedStatus
  <2> QED BY <2>1, <2>2 DEF Snapshot, Authorized
<1> QED BY <1>0, <1>1, <1>2, <1>3, MovesOfMemory

LEMMA OwnersCountStep ==
  ASSUME RowInv, OwnersCount, [Next]_vars
  PROVE  OwnersCount'
<1> SUFFICES ASSUME NEW w \in Workers, pc'[w] \in Compensation, owner'[job'[w].effect] = w
             PROVE  job'[w].retry = retry'[job'[w].effect]
  BY DEF OwnersCount, OwnsLease
<1>0. TypeOK BY DEF RowInv
<1>1. CASE ClaimWork(w)
  <2>1. job[w] \in Job /\ job'[w] = Locked(job[w]) /\ retry' = retry
    BY <1>0, <1>1 DEF ClaimWork, TypeOK
  <2> QED BY <2>1 DEF Locked, Job
<1>2. ASSUME NEW e \in Effects, NEW k \in Keys, SelectWork(w, e, k) PROVE FALSE
  BY <1>0, <1>2 DEF SelectWork, TypeOK, Compensation
<1>3. CASE pc[w] \in Compensation /\ job'[w] = job[w]
  <2> DEFINE e == job[w].effect
  <2>1. e \in Effects BY <1>3 DEF RowInv, Memory
  <2>2. owner'[e] = w /\ w # Api /\ w # NoOne BY <1>3, ConstantsAssumption
  <2>3. RowMoves(e) BY <2>1, MovesOfRows DEF RowInv
  <2>4. CASE RowStays(e)
    <3>1. owner[e] = w BY <2>2, <2>4 DEF RowStays
    <3>2. job[w].retry = retry[e] BY <1>3, <3>1 DEF OwnersCount, OwnsLease
    <3> QED BY <1>3, <2>4, <3>2 DEF RowStays
  <2>5. CASE RowClaimed(e) BY <1>3, <2>2, <2>5 DEF RowClaimed, Compensation
  <2>6. CASE RowAsked(e) \/ RowDecided(e)
    <3>1. owner[e] = w /\ status[e] # "compensating" BY <2>2, <2>6 DEF RowAsked, RowDecided
    <3> QED BY <2>1, <3>1 DEF RowInv, LeaseMatchesStatus
  <2>7. CASE RowBegins(e) \/ RowSettles(e) \/ RowRenewed(e) \/ RowDone(e) \/ RowFails(e)
    BY <2>2, <2>7 DEF RowBegins, RowSettles, RowRenewed, RowDone, RowFails
  <2> QED BY <2>3, <2>4, <2>5, <2>6, <2>7 DEF RowMoves
<1> QED BY <1>0, <1>1, <1>2, <1>3, MovesOfMemory

LEMMA SnapshotInvariant == Spec => [](RowInv /\ SnapshotIsCurrent)
<1>1. Init => HoldersAreAuthorized /\ OwnersCount
  BY DEF Init, HoldersAreAuthorized, OwnersCount, Compensation
<1>2. RowInv /\ HoldersAreAuthorized /\ OwnersCount /\ [Next]_vars
        => HoldersAreAuthorized' /\ OwnersCount'
  BY AuthorizedStep, OwnersCountStep
<1>3. RowInv /\ HoldersAreAuthorized /\ OwnersCount => SnapshotIsCurrent
  <2> SUFFICES ASSUME RowInv, HoldersAreAuthorized, OwnersCount,
                      NEW w \in Workers, pc[w] \in Compensation, OwnsLease(w)
               PROVE  LET r == req[job[w].effect][job[w].key] IN
                        /\ job[w].retry = retry[job[w].effect]
                        /\ r.status = "approved"
                        /\ job[w].auth \in 1..r.auth
                        /\ job[w].auth = r.auth => job[w].actor = r.actor
    BY DEF SnapshotIsCurrent
  <2>1. req[job[w].effect][job[w].key].status = "approved"
    BY WorkedRequest DEF RowInv, OwnsLease
  <2> QED BY <2>1 DEF OwnersCount, HoldersAreAuthorized, Authorized
<1> QED BY <1>1, <1>2, <1>3, RowInvariant, PTL DEF Spec

\* What a lease owner works from is what the tables say, so fail_work may count
\* from the retry_count it remembers; only the authorization it verified may be
\* one that was renewed between the snapshot of its claim and the lock.
THEOREM OwnersAreCurrent == Spec => []SnapshotIsCurrent
  BY SnapshotInvariant, PTL
------------------------------------------------------------------------------
(* Retries. *)

LEMMA DelaysAreCounted == Len(RetryDelays) \in Nat
<1>1. CASE Delays = << >> BY <1>1 DEF RetryDelays
<1>2. CASE Delays # << >> BY <1>2, ConstantsAssumption DEF RetryDelays
<1> QED BY <1>1, <1>2

\* The failures a request has left, while it is approved and when it is closed.
WithinBudget(r, n) ==
  r.status # "absent" => n <= Len(RetryDelays) + r.auth - (IF r.status = "approved" THEN 1 ELSE 0)

\* Who is approved was authorized, and who is pending was not yet.
SignedAtAll(r) ==
  /\ r.status = "approved" => r.auth >= 1
  /\ r.status = "pending" => r.auth = 0

RetriesOn(e) ==
  /\ status[e] \in {"absent", "prepared", "available"} => retry[e] = 0
  /\ status[e] = "retry_wait" => retry[e] \in 1..Len(RetryDelays)
  /\ \A k \in Keys : WithinBudget(req[e][k], retry[e]) /\ SignedAtAll(req[e][k])

\* One request changes with the number of retries, and the others are absent.
LEMMA BudgetTogether ==
  ASSUME TypeOK, NEW e \in Effects, TablesAgreeOn(e), NEW k \in Keys, NEW r, PutRequest(e, k, r),
         req[e][k].status # "absent" \/ RequestFor(status[e]) = "absent",
         WithinBudget(r, retry'[e]), SignedAtAll(r),
         status'[e] \notin {"absent", "prepared", "available", "retry_wait"}
  PROVE  RetriesOn(e)'
<1>1. \A l \in Keys : l # k => req[e][l].status = "absent" BY DEF TablesAgreeOn
<1>2. \A l \in Keys : req'[e][l] = IF l = k THEN r ELSE req[e][l] BY DEF PutRequest, TypeOK
<1>3. ASSUME NEW l \in Keys
      PROVE  WithinBudget(req'[e][l], retry'[e]) /\ SignedAtAll(req'[e][l])
  <2>1. CASE l = k BY <1>2, <2>1
  <2>2. CASE l # k
    <3>1. req'[e][l].status = "absent" BY <1>1, <1>2, <2>2
    <3> QED BY <3>1 DEF WithinBudget, SignedAtAll
  <2> QED BY <2>1, <2>2
<1>4. WithinBudget(r, retry'[e]) <=> WithinBudget(r, retry[e])' BY DEF WithinBudget
<1> QED BY <1>3 DEF RetriesOn, WithinBudget, SignedAtAll

LEMMA RetriesStep ==
  ASSUME RowInv, SnapshotIsCurrent, NEW e \in Effects, RetriesOn(e), [Next]_vars
  PROVE  RetriesOn(e)'
<1> DEFINE L == Len(RetryDelays)
<1>0. /\ TypeOK /\ TablesAgreeOn(e) /\ RowMoves(e) /\ L \in Nat /\ retry[e] \in Nat
  BY MovesOfRows, DelaysAreCounted DEF RowInv, TablesAgree, TablesAgreeOn, TypeOK
<1>1. ASSUME NEW k \in Keys
      PROVE  /\ req[e][k] \in Request /\ req[e][k].auth \in Nat
             /\ WithinBudget(req[e][k], retry[e]) /\ SignedAtAll(req[e][k])
  BY <1>0 DEF TypeOK, RetriesOn, Request
<1>2. ASSUME SameRequests(e), retry'[e] = retry[e],
             status'[e] \in {"absent", "prepared", "available"} =>
               status[e] \in {"absent", "prepared", "available"},
             status'[e] = "retry_wait" => status[e] = "retry_wait"
      PROVE  RetriesOn(e)'
  BY <1>2 DEF RetriesOn, SameRequests, WithinBudget, SignedAtAll
<1>3. CASE RowStays(e) \/ RowBegins(e) \/ RowSettles(e) \/ RowClaimed(e)
  BY <1>2, <1>3 DEF RowStays, RowBegins, RowSettles, RowClaimed
<1>4. CASE RowAsked(e)
  <2>1. PICK s \in Subjects, k \in Keys :
          /\ status[e] = "available" /\ status'[e] = "undo_pending"
          /\ PutRequest(e, k, Requested(s)) /\ retry'[e] = retry[e]
    BY <1>4 DEF RowAsked
  <2>2. RequestFor(status[e]) = "absent" /\ retry'[e] = 0 BY <2>1 DEF RequestFor, RetriesOn
  <2>3. WithinBudget(Requested(s), 0) /\ SignedAtAll(Requested(s))
    BY <1>0 DEF WithinBudget, SignedAtAll, Requested
  <2> QED BY <1>0, <2>1, <2>2, <2>3, BudgetTogether
<1>5. CASE RowDecided(e)
  <2>1. PICK s \in Subjects, k \in Keys :
          /\ req[e][k].status = "pending" /\ retry'[e] = retry[e]
          /\ \/ status'[e] = "approved" /\ PutRequest(e, k, Approve(req[e][k], s))
             \/ status'[e] = "rejected" /\ PutRequest(e, k, Reject(req[e][k], s))
    BY <1>5 DEF RowDecided
  <2>2. req[e][k].auth = 0 /\ retry[e] <= L BY <1>0, <1>1, <2>1 DEF WithinBudget, SignedAtAll
  <2>3. /\ Approve(req[e][k], s).status = "approved" /\ Approve(req[e][k], s).auth = 1
        /\ Reject(req[e][k], s).status = "rejected" /\ Reject(req[e][k], s).auth = 0
    BY <1>1, <2>2 DEF Approve, Reject, Request
  <2>4. WithinBudget(Approve(req[e][k], s), retry[e]) /\ SignedAtAll(Approve(req[e][k], s))
    BY <1>0, <2>2, <2>3 DEF WithinBudget, SignedAtAll
  <2>5. WithinBudget(Reject(req[e][k], s), retry[e]) /\ SignedAtAll(Reject(req[e][k], s))
    BY <1>0, <2>2, <2>3 DEF WithinBudget, SignedAtAll
  <2>6. CASE status'[e] = "approved" /\ PutRequest(e, k, Approve(req[e][k], s))
    BY <1>0, <2>1, <2>4, <2>6, BudgetTogether
  <2>7. CASE status'[e] = "rejected" /\ PutRequest(e, k, Reject(req[e][k], s))
    BY <1>0, <2>1, <2>5, <2>7, BudgetTogether
  <2> QED BY <2>1, <2>6, <2>7
<1>6. CASE RowRenewed(e)
  <2>1. PICK s \in Subjects, k \in Keys :
          /\ req[e][k].status = "failed" /\ status'[e] = "approved" /\ retry'[e] = retry[e]
          /\ PutRequest(e, k, Renew(req[e][k], s))
    BY <1>6 DEF RowRenewed
  <2>2. req[e][k].auth \in Nat /\ retry[e] <= L + req[e][k].auth
    BY <1>0, <1>1, <2>1 DEF WithinBudget
  <2>3. Renew(req[e][k], s).status = "approved" /\ Renew(req[e][k], s).auth = req[e][k].auth + 1
    BY <1>1 DEF Renew, Request
  <2>4. WithinBudget(Renew(req[e][k], s), retry[e]) /\ SignedAtAll(Renew(req[e][k], s))
    BY <1>0, <2>2, <2>3 DEF WithinBudget, SignedAtAll
  <2> QED BY <1>0, <2>1, <2>4, BudgetTogether
<1>7. CASE RowDone(e)
  <2>1. PICK w \in Workers :
          /\ pc[w] = "succeeded" /\ job[w].effect = e /\ owner[e] = w
          /\ status'[e] = "compensated" /\ retry'[e] = retry[e]
          /\ PutRequest(e, job[w].key, Close(req[e][job[w].key], "completed"))
    BY <1>7 DEF RowDone
  <2> DEFINE k == job[w].key
  <2>2. k \in Keys /\ req[e][k].status = "approved"
    BY <2>1, WorkedRequest DEF Compensation, RowInv
  <2>3. req[e][k].auth \in Nat /\ retry[e] <= L + req[e][k].auth - 1
    BY <1>1, <2>2 DEF WithinBudget
  <2>4. /\ Close(req[e][k], "completed").status = "completed"
        /\ Close(req[e][k], "completed").auth = req[e][k].auth
    BY <1>1, <2>2 DEF Close, Request
  <2>5. WithinBudget(Close(req[e][k], "completed"), retry[e])
    BY <1>0, <2>3, <2>4 DEF WithinBudget
  <2>6. SignedAtAll(Close(req[e][k], "completed")) BY <2>4 DEF SignedAtAll
  <2> QED BY <1>0, <2>1, <2>2, <2>5, <2>6, BudgetTogether
<1>8. CASE RowFails(e)
  <2>1. PICK w \in Workers :
          /\ pc[w] \in {"retryable", "permanent"} /\ job[w].effect = e /\ owner[e] = w
          /\ retry'[e] = job[w].retry + 1
          /\ \/ /\ status'[e] = "retry_wait" /\ RetriesAgain(job[w].retry + 1)
                /\ SameRequests(e)
             \/ /\ status'[e] = "compensation_failed"
                /\ PutRequest(e, job[w].key, Close(req[e][job[w].key], "failed"))
    BY <1>8 DEF RowFails
  <2> DEFINE k == job[w].key
  <2>2. k \in Keys /\ req[e][k].status = "approved"
    BY <2>1, WorkedRequest DEF Compensation, RowInv
  <2>3. retry'[e] = retry[e] + 1 BY <2>1 DEF SnapshotIsCurrent, OwnsLease, Compensation
  <2>4. req[e][k].auth \in Nat /\ req[e][k].auth >= 1 /\ retry[e] <= L + req[e][k].auth - 1
    BY <1>1, <2>2 DEF WithinBudget, SignedAtAll
  <2>5. CASE /\ status'[e] = "retry_wait" /\ RetriesAgain(job[w].retry + 1)
             /\ SameRequests(e)
    <3>1. retry'[e] <= L BY <2>1, <2>5 DEF RetriesAgain
    <3>2. retry'[e] \in 1..L BY <1>0, <2>3, <3>1
    <3>3. ASSUME NEW l \in Keys PROVE WithinBudget(req'[e][l], retry'[e]) /\ SignedAtAll(req'[e][l])
      <4>1. req'[e][l] = req[e][l] BY <2>5 DEF SameRequests
      <4>2. CASE l = k BY <1>0, <2>2, <2>4, <3>1, <3>2, <4>1, <4>2 DEF WithinBudget, SignedAtAll
      <4>3. CASE l # k
        <5>1. req[e][l].status = "absent" BY <1>0, <2>2, <4>3 DEF TablesAgreeOn
        <5> QED BY <4>1, <5>1 DEF WithinBudget, SignedAtAll
      <4> QED BY <4>2, <4>3
    <3> QED BY <2>5, <3>2, <3>3 DEF RetriesOn, WithinBudget, SignedAtAll
  <2>6. CASE /\ status'[e] = "compensation_failed"
             /\ PutRequest(e, k, Close(req[e][k], "failed"))
    <3>1. /\ Close(req[e][k], "failed").status = "failed"
          /\ Close(req[e][k], "failed").auth = req[e][k].auth
      BY <1>1, <2>2 DEF Close, Request
    <3>2. WithinBudget(Close(req[e][k], "failed"), retry'[e])
      <4>1. ASSUME NEW m \in Nat, NEW l \in Nat, NEW a \in Nat, m <= l + a - 1
            PROVE  m + 1 <= l + a - 0
        BY <4>1
      <4>2. retry'[e] <= Len(RetryDelays) + req[e][k].auth - 0
        BY <1>0, <2>3, <2>4, <4>1
      <4> QED BY <3>1, <4>2 DEF WithinBudget
    <3>3. SignedAtAll(Close(req[e][k], "failed")) BY <3>1 DEF SignedAtAll
    <3> QED BY <1>0, <2>2, <2>6, <3>2, <3>3, BudgetTogether
  <2> QED BY <2>1, <2>5, <2>6
<1> QED BY <1>0, <1>3, <1>4, <1>5, <1>6, <1>7, <1>8 DEF RowMoves

\* Automatic retries are spent once for the life of a request: every failure past
\* the contract's delays costs an authorization that somebody signed.
THEOREM RetriesAreSpentOnce == Spec => []RetriesAreBounded
<1> DEFINE Inv == \A e \in Effects : RetriesOn(e)
<1>1. Init => Inv
  BY DelaysAreCounted DEF Init, RetriesOn, NoRequest, WithinBudget, SignedAtAll
<1>2. RowInv /\ SnapshotIsCurrent /\ Inv /\ [Next]_vars => Inv'
  BY RetriesStep
<1>3. Inv => RetriesAreBounded
  BY DEF RetriesOn, WithinBudget, RetriesAreBounded
<1> QED BY <1>1, <1>2, <1>3, SnapshotInvariant, PTL DEF Spec
------------------------------------------------------------------------------
(* What a step can make of the tickets. *)

\* A create call gets through, of the API or of nobody any more.
TicketOpens(e) ==
  /\ ticket[e] = "none" /\ ticket' = [ticket EXCEPT ![e] = "open"]
  /\ api[e] = "calling" \/ e \in lateCreate

\* A cancel call gets through, which somebody had approved.
TicketCloses(e) ==
  /\ ticket[e] = "open" /\ ticket' = [ticket EXCEPT ![e] = "cancelled"]
  /\ \E k \in Keys : Approved(e, k)

TicketMoves ==
  \/ ticket' = ticket
  \/ /\ \E e \in Effects : TicketOpens(e) \/ TicketCloses(e)
     /\ UNCHANGED <<status, req>>

\* Tickets move one at a time, and not together with a row.
LEMMA MovesOfTickets ==
  ASSUME TypeOK, Memory, CallsAreSigned, [Next]_vars
  PROVE  TicketMoves
<1>1. ASSUME NEW e \in Effects, CreateTicket(e), api[e] = "calling" \/ e \in lateCreate,
             UNCHANGED <<status, req>>
      PROVE  TicketMoves
  <2>1. CASE ticket[e] = "none"
    BY <1>1, <2>1 DEF CreateTicket, TicketOpens, TicketMoves
  <2>2. CASE ticket[e] # "none"
    <3>1. ticket' = ticket BY <1>1, <2>2 DEF CreateTicket, TypeOK
    <3> QED BY <3>1 DEF TicketMoves
  <2> QED BY <2>1, <2>2
<1>2. ASSUME NEW e \in Effects, NEW k \in Keys, CancelTicket(e, k), Approved(e, k),
             UNCHANGED <<status, req>>
      PROVE  TicketMoves
  <2>1. CASE ticket[e] = "open"
    BY <1>2, <2>1 DEF CancelTicket, TicketCloses, TicketMoves
  <2>2. CASE ticket[e] # "open"
    <3>1. ticket' = ticket BY <1>2, <2>2 DEF CancelTicket, TypeOK
    <3> QED BY <3>1 DEF TicketMoves
  <2> QED BY <2>1, <2>2
<1>3. ASSUME NEW e \in Effects, ApiStep(e) PROVE TicketMoves
  <2>1. CASE CreateReplied(e) \/ CreateFailed(e) \/ LateCreate(e)
    <3>1. \/ ticket' = ticket
          \/ /\ CreateTicket(e) /\ (api[e] = "calling" \/ e \in lateCreate)
             /\ UNCHANGED <<status, req>>
      BY <2>1 DEF CreateReplied, CreateFailed, LateCreate
    <3> QED BY <1>1, <3>1 DEF TicketMoves
  <2>2. CASE PrepareEffect(e) \/ CompleteEffect(e) \/ RejectResult(e) \/ ApiCrash(e)
    BY <2>2 DEF PrepareEffect, CompleteEffect, RejectResult, ApiCrash, TicketMoves
  <2> QED BY <1>3, <2>1, <2>2 DEF ApiStep
<1>4. ASSUME NEW w \in Workers, CancelReplied(w) \/ CancelFailed(w) PROVE TicketMoves
  <2>1. pc[w] \in Compensation BY <1>4 DEF CancelReplied, CancelFailed, Compensation
  <2>2. PICK e \in Effects, k \in Keys : e = job[w].effect /\ k = job[w].key
    BY <2>1 DEF Memory
  <2>3. Approved(e, k) BY <2>1, <2>2 DEF CallsAreSigned
  <2>4. /\ ticket' = ticket \/ CancelTicket(e, k)
        /\ UNCHANGED <<status, req>>
    BY <1>4, <2>2 DEF CancelReplied, CancelFailed
  <2> QED BY <1>2, <2>3, <2>4 DEF TicketMoves
<1>5. ASSUME NEW e \in Effects, NEW k \in Keys, LateCancel(e, k) PROVE TicketMoves
  BY <1>2, <1>5 DEF LateCancel, CallsAreSigned
<1>6. ASSUME NEW w \in Workers, WorkerStep(w) \/ WorkerTrouble(w),
             ~CancelReplied(w), ~CancelFailed(w)
      PROVE  ticket' = ticket
  BY <1>6 DEF WorkerStep, CompensateStep, ReconcileStep, WorkerTrouble, ClaimNothing, Authorize,
     CompleteWork, FailWork, SelectWork, ClaimWork, ClaimPassed, ListPrepared, ReconcileFound,
     ReconcileMissing, ScanDone, QueryEffect, WorkerRestart, Heartbeat, HeartbeatLost, WorkerCrash
<1>7. ASSUME \/ \E e \in Effects : PeopleStep(e) \/ TimeStep(e)
             \/ \E s \in Subjects : Grant(s) \/ Revoke(s)
             \/ UNCHANGED vars
      PROVE  ticket' = ticket
  BY <1>7 DEF PeopleStep, RefuseExpired, RequestUndo, DecideUndo, RetryFailed, TimeStep,
     LeaseExpires, LeaseStalls, RetryDue, WindowCloses, AuthorizationExpires, Grant, Revoke, vars
<1> QED BY <1>3, <1>4, <1>5, <1>6, <1>7 DEF Next, TicketMoves

\* Who says that the ticket was created is right, and before the intent is on
\* record nobody has called the business API.
IntentOn(e) ==
  /\ status[e] = "absent" => ticket[e] = "none" /\ e \notin lateCreate /\ api[e] = "idle"
  /\ status[e] \notin {"absent", "prepared", "manual_required"} => ticket[e] # "none"
  /\ api[e] = "created" => ticket[e] # "none"
  /\ \A w \in Workers : pc[w] = "found" /\ job[w].effect = e => ticket[e] # "none"

\* Only the API's own steps, and a late create call, touch what the API is doing.
LEMMA OthersKeepApi ==
  ASSUME [Next]_vars, ~ \E f \in Effects : ApiStep(f)
  PROVE  UNCHANGED <<lateCreate, api>>
<1>1. ASSUME NEW f \in Effects, PeopleStep(f) PROVE UNCHANGED <<lateCreate, api>>
  BY <1>1 DEF PeopleStep, RefuseExpired, RequestUndo, DecideUndo, RetryFailed
<1>2. ASSUME NEW f \in Effects, TimeStep(f) PROVE UNCHANGED <<lateCreate, api>>
  BY <1>2 DEF TimeStep, LeaseExpires, LeaseStalls, RetryDue, WindowCloses, AuthorizationExpires
<1>3. ASSUME NEW f \in Effects, NEW k \in Keys, LateCancel(f, k)
      PROVE  UNCHANGED <<lateCreate, api>>
  BY <1>3 DEF LateCancel
<1>4. ASSUME NEW w \in Workers, CompensateStep(w) PROVE UNCHANGED <<lateCreate, api>>
  BY <1>4 DEF CompensateStep, ClaimNothing, Authorize, CancelReplied, CompleteWork, FailWork,
     SelectWork, ClaimWork, ClaimPassed
<1>5. ASSUME NEW w \in Workers, ReconcileStep(w) PROVE UNCHANGED <<lateCreate, api>>
  BY <1>5 DEF ReconcileStep, ListPrepared, ReconcileFound, ReconcileMissing, ScanDone, QueryEffect
<1>6. ASSUME NEW w \in Workers, WorkerRestart(w) \/ WorkerTrouble(w)
      PROVE  UNCHANGED <<lateCreate, api>>
  BY <1>6 DEF WorkerRestart, WorkerTrouble, Heartbeat, HeartbeatLost, CancelFailed, WorkerCrash
<1>7. ASSUME (\E s \in Subjects : Grant(s) \/ Revoke(s)) \/ UNCHANGED vars
      PROVE  UNCHANGED <<lateCreate, api>>
  BY <1>7 DEF Grant, Revoke, vars
<1> QED BY <1>1, <1>2, <1>3, <1>4, <1>5, <1>6, <1>7 DEF Next, WorkerStep

LEMMA IntentStep ==
  ASSUME RowInv, NEW e \in Effects, IntentOn(e), [Next]_vars
  PROVE  IntentOn(e)'
<1>0. TypeOK /\ Memory /\ RowMoves(e) /\ TicketMoves
  BY MovesOfRows, MovesOfTickets DEF RowInv
<1>1. ticket[e] # "none" => ticket'[e] # "none"
  BY <1>0 DEF TicketMoves, TicketOpens, TicketCloses, TypeOK
<1>2. ASSUME status'[e] = "absent" PROVE status[e] = "absent"
  BY <1>0, <1>2 DEF RowMoves, RowStays, RowBegins, RowSettles, RowAsked, RowDecided, RowRenewed,
     RowClaimed, RowDone, RowFails
<1>3. ASSUME status'[e] = "absent"
      PROVE  ticket'[e] = "none" /\ e \notin lateCreate' /\ api'[e] = "idle"
  <2>1. status[e] = "absent" /\ ticket[e] = "none" /\ e \notin lateCreate /\ api[e] = "idle"
    BY <1>2, <1>3 DEF IntentOn
  <2>2. ticket'[e] = "none"
    BY <1>0, <2>1 DEF TicketMoves, TicketOpens, TicketCloses, TypeOK
  <2>3. ASSUME NEW f \in Effects, ApiStep(f) PROVE e \notin lateCreate' /\ api'[e] = "idle"
    BY <1>0, <1>3, <2>1, <2>3 DEF ApiStep, PrepareEffect, CreateReplied, CreateFailed,
       CompleteEffect, RejectResult, ApiCrash, LateCreate, TypeOK
  <2>4. ASSUME ~ \E f \in Effects : ApiStep(f) PROVE UNCHANGED <<lateCreate, api>>
    BY <2>4, OthersKeepApi
  <2> QED BY <2>1, <2>2, <2>3, <2>4
<1>4. ASSUME api'[e] = "created" PROVE ticket'[e] # "none"
  <2>1. CASE api[e] = "created" BY <1>1, <2>1 DEF IntentOn
  <2>2. CASE CreateReplied(e) BY <1>0, <2>2 DEF CreateReplied, CreateTicket, TypeOK
  <2>3. ASSUME NEW f \in Effects, ApiStep(f), ~CreateReplied(e), api[e] # "created" PROVE FALSE
    BY <1>0, <1>4, <2>3 DEF ApiStep, PrepareEffect, CreateReplied, CreateFailed, CompleteEffect,
       RejectResult, ApiCrash, LateCreate, TypeOK
  <2>4. ASSUME ~ \E f \in Effects : ApiStep(f) PROVE api' = api
    BY <2>4, OthersKeepApi
  <2> QED BY <1>4, <2>1, <2>2, <2>3, <2>4
<1>5. ASSUME NEW w \in Workers, pc'[w] = "found", job'[w].effect = e PROVE ticket'[e] # "none"
  <2>1. CASE pc[w] = "found" /\ job'[w] = job[w] BY <1>1, <1>5, <2>1 DEF IntentOn
  <2>2. ASSUME NEW f \in Effects, QueryEffect(w, f), pc[w] # "found" PROVE ticket'[e] # "none"
    <3>1. pc'[w] = Lookup(f) /\ job'[w] = Inquiry(f) /\ ticket' = ticket
      BY <1>0, <1>5, <2>2 DEF QueryEffect, TypeOK
    <3>2. f = e /\ Lookup(f) = "found" BY <1>5, <3>1 DEF Inquiry
    <3> QED BY <3>1, <3>2 DEF Lookup
  <2>3. ASSUME NEW v \in Workers, WorkerStep(v) \/ WorkerTrouble(v),
               ~ \E f \in Effects : QueryEffect(w, f)
        PROVE  pc[w] = "found" /\ job'[w] = job[w]
    <3>1. CASE CompensateStep(v)
      BY <1>0, <1>5, <3>1 DEF CompensateStep, ClaimNothing, Authorize, CancelReplied, CompleteWork,
         FailWork, SelectWork, ClaimWork, ClaimPassed, GoTo, Drop, TypeOK
    <3>2. CASE ReconcileStep(v)
      BY <1>0, <1>5, <2>3, <3>2 DEF ReconcileStep, ListPrepared, ReconcileFound, ReconcileMissing,
         ScanDone, QueryEffect, GoTo, Drop, TypeOK
    <3>3. CASE WorkerRestart(v) \/ WorkerTrouble(v)
      BY <1>0, <1>5, <3>3 DEF WorkerRestart, WorkerTrouble, Heartbeat, HeartbeatLost, CancelFailed,
         WorkerCrash, GoTo, Drop, TypeOK
    <3> QED BY <2>3, <3>1, <3>2, <3>3 DEF WorkerStep
  <2>4. ASSUME NEW f \in Effects, ApiStep(f) \/ PeopleStep(f) \/ TimeStep(f)
        PROVE  UNCHANGED <<pc, job>>
    BY <1>0, <2>4, OtherTypes
  <2>5. ASSUME \/ \E f \in Effects, k \in Keys : LateCancel(f, k)
               \/ \E s \in Subjects : Grant(s) \/ Revoke(s)
               \/ UNCHANGED vars
        PROVE  UNCHANGED <<pc, job>>
    BY <2>5 DEF LateCancel, Grant, Revoke, vars
  <2>6. ASSUME NEW f \in Effects, QueryEffect(w, f), pc[w] = "found" PROVE FALSE
    BY <2>6 DEF QueryEffect
  <2> QED BY <1>5, <2>1, <2>2, <2>3, <2>4, <2>5, <2>6 DEF Next
<1>6. ASSUME status'[e] \notin {"absent", "prepared", "manual_required"} PROVE ticket'[e] # "none"
  <2>1. CASE status[e] \notin {"absent", "prepared", "manual_required"}
    BY <1>1, <2>1 DEF IntentOn
  <2>2. CASE RowSettles(e)
    <3>1. KnownCreated(e) BY <1>6, <2>2 DEF RowSettles
    <3> QED BY <1>1, <3>1 DEF KnownCreated, IntentOn
  <2>3. ASSUME NEW w \in Workers, pc[w] \in Compensation, job[w].effect = e, owner[e] = w
        PROVE  status[e] = "compensating"
    BY <2>3 DEF RowInv, LeaseMatchesStatus
  <2>4. CASE RowDone(e) \/ RowFails(e)
    <3>1. status[e] = "compensating" BY <2>3, <2>4 DEF RowDone, RowFails, Compensation
    <3> QED BY <2>1, <3>1
  <2>5. CASE RowStays(e) \/ RowBegins(e) \/ RowAsked(e) \/ RowDecided(e) \/ RowRenewed(e)
             \/ RowClaimed(e)
    BY <1>6, <2>1, <2>5 DEF RowStays, RowBegins, RowAsked, RowDecided, RowRenewed, RowClaimed
  <2> QED BY <1>0, <2>2, <2>4, <2>5 DEF RowMoves
<1> QED BY <1>3, <1>4, <1>5, <1>6 DEF IntentOn

LEMMA IntentInvariant == Spec => [](RowInv /\ \A e \in Effects : IntentOn(e))
<1> DEFINE Inv == \A e \in Effects : IntentOn(e)
<1>1. Init => Inv
  BY DEF Init, IntentOn
<1>2. RowInv /\ Inv /\ [Next]_vars => Inv'
  BY IntentStep
<1> QED BY <1>1, <1>2, RowInvariant, PTL DEF Spec

\* No ticket without an intent on record, and no effect is offered for undo, or
\* undone, that has no ticket, whichever process settled it and from what answer.
THEOREM IntentComesFirst == Spec => []TicketFollowsIntent
<1>1. (\A e \in Effects : IntentOn(e)) => TicketFollowsIntent
  BY DEF IntentOn, TicketFollowsIntent
<1> QED BY <1>1, IntentInvariant, PTL
------------------------------------------------------------------------------
(* The tables, the workers and the business API keep the promise. *)

\* The only request of an effect is the one its books speak of.
LEMMA OnlyRequest ==
  ASSUME NEW rows, NEW k \in Keys, rows[k].status # "absent",
         \A l \in Keys : rows[l].status # "absent" => l = k
  PROVE  RequestOf(rows) = rows[k]
<1>1. (CHOOSE l \in Keys : rows[l].status # "absent") = k
  OBVIOUS
<1> QED BY <1>1 DEF RequestOf

\* One row of the books changes, with the rows of its effect.
LEMMA BooksOfOne ==
  ASSUME NEW f \in Effects, \A e \in Effects \ {f} : RowStays(e)
  PROVE  /\ Phases' = [Phases EXCEPT ![f] = PhaseOf(f)']
         /\ Askers' = [Askers EXCEPT ![f] = RequestOf(req'[f]).requester]
         /\ Approvers' = [Approvers EXCEPT ![f] = RequestOf(req'[f]).approver]
<1>1. \A e \in Effects \ {f} : status'[e] = status[e] /\ req'[e] = req[e]
  BY DEF RowStays, SameRequests
<1>2. \A e \in Effects \ {f} : PhaseOf(e)' = PhaseOf(e)
  BY <1>1 DEF PhaseOf
<1>3. Phases' = [Phases EXCEPT ![f] = PhaseOf(f)'] BY <1>2 DEF Phases
<1>4. Askers' = [Askers EXCEPT ![f] = RequestOf(req'[f]).requester] BY <1>1 DEF Askers
<1>5. Approvers' = [Approvers EXCEPT ![f] = RequestOf(req'[f]).approver] BY <1>1 DEF Approvers
<1> QED BY <1>3, <1>4, <1>5

\* Whoever asked and agreed stays in the books unless the step writes another.
LEMMA BooksKept ==
  ASSUME NEW f \in Effects, \A e \in Effects \ {f} : RowStays(e),
         RequestOf(req'[f]).requester = RequestOf(req[f]).requester
  PROVE  Askers' = Askers
<1>1. Askers' = [Askers EXCEPT ![f] = RequestOf(req'[f]).requester] BY BooksOfOne
<1> QED BY <1>1 DEF Askers

LEMMA ApproversKept ==
  ASSUME NEW f \in Effects, \A e \in Effects \ {f} : RowStays(e),
         RequestOf(req'[f]).approver = RequestOf(req[f]).approver
  PROVE  Approvers' = Approvers
<1>1. Approvers' = [Approvers EXCEPT ![f] = RequestOf(req'[f]).approver] BY BooksOfOne
<1> QED BY <1>1 DEF Approvers

\* A request that is written becomes the one the books speak of.
LEMMA WrittenRequest ==
  ASSUME TypeOK, TablesAgree, TablesAgree', NEW f \in Effects, NEW k \in Keys, NEW r,
         PutRequest(f, k, r), r.status # "absent"
  PROVE  /\ RequestOf(req'[f]) = r
         /\ req[f][k].status # "absent" => RequestOf(req[f]) = req[f][k]
<1>1. req'[f][k] = r BY DEF PutRequest, TypeOK
<1>2. RequestOf(req'[f]) = req'[f][k]
  <2>1. \A l \in Keys : req'[f][l].status # "absent" => l = k BY <1>1 DEF TablesAgree
  <2> QED BY <1>1, <2>1, OnlyRequest
<1>3. ASSUME req[f][k].status # "absent" PROVE RequestOf(req[f]) = req[f][k]
  <2>1. \A l \in Keys : req[f][l].status # "absent" => l = k BY <1>3 DEF TablesAgree
  <2> QED BY <1>3, <2>1, OnlyRequest
<1> QED BY <1>1, <1>2, <1>3

\* Nobody asked yet.
LEMMA UnaskedRequest ==
  ASSUME TablesAgree, NEW f \in Effects, RequestFor(status[f]) = "absent"
  PROVE  RequestOf(req[f]) = NoRequest
<1>1. \A k \in Keys : req[f][k].status = "absent" BY DEF TablesAgree
<1> QED BY <1>1 DEF RequestOf

PromiseInv == RowInv /\ TicketsMatch /\ SuccessIsReal /\ \A e \in Effects : IntentOn(e)

\* A ticket that opens or closes is the promise's Happen or Undo.
LEMMA TicketStep ==
  ASSUME PromiseInv, NEW e \in Effects, TicketOpens(e) \/ TicketCloses(e), UNCHANGED <<status, req>>
  PROVE  Promise!Next
<1>0. status[e] \in EffectStatus /\ Phases[e] = PhaseOf(e) BY DEF PromiseInv, RowInv, TypeOK, Phases
<1>1. UNCHANGED <<Phases, Askers, Approvers>> BY DEF Phases, PhaseOf, Askers, Approvers
<1>2. CASE TicketOpens(e)
  <2>1. status[e] # "absent" BY <1>2 DEF TicketOpens, PromiseInv, IntentOn
  <2>2. Phases[e] # "absent" BY <1>0, <2>1 DEF PhaseOf, EffectStatus
  <2>3. Promise!Happen(e) BY <1>1, <1>2, <2>2 DEF TicketOpens, Promise!Happen
  <2> QED BY <2>3 DEF Promise!Next
<1>3. CASE TicketCloses(e)
  <2>1. PICK k \in Keys : Approved(e, k) BY <1>3 DEF TicketCloses
  <2>2. RequestFor(status[e]) \in {"approved", "completed", "failed"}
    BY <2>1 DEF Approved, PromiseInv, RowInv, TablesAgree
  <2>3. status[e] # "compensated" BY <1>3 DEF TicketCloses, PromiseInv, SuccessIsReal
  <2>4. Phases[e] \in {"approved", "failed"}
    BY <1>0, <2>2, <2>3 DEF PhaseOf, RequestFor, EffectStatus
  <2>5. Promise!Undo(e) BY <1>1, <1>3, <2>4 DEF TicketCloses, Promise!Undo
  <2> QED BY <2>5 DEF Promise!Next
<1> QED BY <1>2, <1>3

\* A row that moves is a move of the promise, or one it does not see.
LEMMA RowStep ==
  ASSUME PromiseInv, TablesAgree', NEW f \in Effects, RowMoves(f),
         \A e \in Effects \ {f} : RowStays(e), ticket' = ticket
  PROVE  Promise!Next \/ UNCHANGED <<Phases, Askers, Approvers>>
<1>0. /\ TypeOK /\ Memory /\ LeaseMatchesStatus /\ CallsAreSigned /\ TablesAgree
      /\ Phases[f] = PhaseOf(f)
      /\ Askers[f] = RequestOf(req[f]).requester
      /\ Phases' = [Phases EXCEPT ![f] = PhaseOf(f)']
  BY BooksOfOne DEF PromiseInv, RowInv, Phases, Askers
<1>1. ASSUME SameRequests(f) PROVE Askers' = Askers /\ Approvers' = Approvers
  BY <1>1, BooksKept, ApproversKept DEF SameRequests
<1>2. ASSUME SameRequests(f), PhaseOf(f)' = PhaseOf(f)
      PROVE  UNCHANGED <<Phases, Askers, Approvers>>
  <2>1. Phases' = Phases BY <1>0, <1>2 DEF Phases
  <2> QED BY <1>1, <1>2, <2>1
<1>3. CASE RowStays(f) \/ RowClaimed(f)
  <2>1. SameRequests(f) /\ PhaseOf(f)' = PhaseOf(f) BY <1>3 DEF RowStays, RowClaimed, PhaseOf
  <2> QED BY <1>2, <2>1
<1>4. CASE RowBegins(f)
  <2>1. SameRequests(f) /\ PhaseOf(f) = "absent" /\ PhaseOf(f)' = "intended"
    BY <1>4 DEF RowBegins, PhaseOf
  <2>2. Promise!Intend(f) BY <1>0, <1>1, <2>1 DEF Promise!Intend, Promise!Move
  <2> QED BY <2>2 DEF Promise!Next
<1>5. CASE RowSettles(f)
  <2>1. SameRequests(f) /\ PhaseOf(f) = "intended" BY <1>5 DEF RowSettles, PhaseOf
  <2>2. CASE status'[f] = "available"
    <3>1. PhaseOf(f)' = "undoable" BY <2>2 DEF PhaseOf
    <3>2. ticket[f] # "none" BY <1>5, <2>2 DEF RowSettles, KnownCreated, PromiseInv, IntentOn
    <3>3. ticket[f] # "cancelled"
      <4>1. SUFFICES ASSUME ticket[f] = "cancelled" PROVE FALSE OBVIOUS
      <4>2. cancelKey[f] \in Keys BY <1>0, <4>1 DEF PromiseInv, TicketsMatch, TypeOK
      <4>3. Approved(f, cancelKey[f]) BY <1>0, <4>2 DEF CallsAreSigned
      <4>4. RequestFor(status[f]) = "absent" BY <1>5 DEF RowSettles, RequestFor
      <4> QED BY <1>0, <4>2, <4>3, <4>4 DEF Approved, TablesAgree
    <3>4. ticket[f] = "open" BY <1>0, <3>2, <3>3 DEF TypeOK, TicketState
    <3>5. Promise!Offer(f) BY <1>0, <1>1, <2>1, <3>1, <3>4 DEF Promise!Offer, Promise!Move
    <3> QED BY <3>5 DEF Promise!Next
  <2>3. CASE status'[f] = "manual_required"
    <3>1. PhaseOf(f)' = "manual" BY <2>3 DEF PhaseOf
    <3>2. Promise!GiveUp(f) BY <1>0, <1>1, <2>1, <3>1 DEF Promise!GiveUp, Promise!Move
    <3> QED BY <3>2 DEF Promise!Next
  <2> QED BY <1>5, <2>2, <2>3 DEF RowSettles
<1>6. CASE RowAsked(f)
  <2>1. PICK s \in Subjects, k \in Keys :
          status[f] = "available" /\ status'[f] = "undo_pending" /\ PutRequest(f, k, Requested(s))
    BY <1>6 DEF RowAsked
  <2>2. PhaseOf(f) = "undoable" /\ PhaseOf(f)' = "asked" BY <2>1 DEF PhaseOf
  <2>3. RequestOf(req'[f]) = Requested(s)
    BY <1>0, <2>1, WrittenRequest DEF Requested
  <2>4. RequestOf(req[f]) = NoRequest BY <1>0, <2>1, UnaskedRequest DEF RequestFor
  <2>5. Approvers' = Approvers
    BY <2>3, <2>4, ApproversKept DEF Requested, NoRequest
  <2>6. Askers' = [Askers EXCEPT ![f] = s] BY <2>3, BooksOfOne DEF Requested
  <2>7. Promise!Ask(f, s) BY <1>0, <2>2, <2>5, <2>6 DEF Promise!Ask, Promise!Move
  <2> QED BY <2>7 DEF Promise!Next
<1>7. CASE RowDecided(f)
  <2>1. PICK s \in Subjects, k \in Keys, answer \in {"approved", "rejected"} :
          /\ status[f] = "undo_pending" /\ status'[f] = answer
          /\ req[f][k].status = "pending" /\ MayDecide(s, f, k)
          /\ PutRequest(f, k, IF answer = "approved" THEN Approve(req[f][k], s)
                              ELSE Reject(req[f][k], s))
    BY <1>7 DEF RowDecided
  <2> DEFINE r == IF answer = "approved" THEN Approve(req[f][k], s) ELSE Reject(req[f][k], s)
             said == IF answer = "approved" THEN "approved" ELSE "refused"
  <2>2. req[f][k] \in Request BY <1>0 DEF TypeOK
  <2>3. r.status = answer /\ r.requester = req[f][k].requester /\ r.approver = s
    BY <2>2 DEF Approve, Reject, Request
  <2>4. PhaseOf(f) = "asked" /\ PhaseOf(f)' = said BY <2>1 DEF PhaseOf
  <2>5. RequestOf(req'[f]) = r /\ RequestOf(req[f]) = req[f][k]
    <3>1. PutRequest(f, k, r) /\ r.status # "absent" /\ req[f][k].status # "absent" BY <2>1, <2>3
    <3> HIDE DEF r
    <3> QED BY <1>0, <3>1, WrittenRequest
  <2>6. Askers' = Askers BY <2>3, <2>5, BooksKept
  <2>7. Approvers' = [Approvers EXCEPT ![f] = s] BY <2>3, <2>5, BooksOfOne
  <2>8. s # Askers[f] BY <1>0, <2>1, <2>5 DEF MayDecide
  <2>9. said \in {"approved", "refused"} OBVIOUS
  <2> HIDE DEF said
  <2>10. Promise!Decide(f, s, said)
    BY <1>0, <2>4, <2>6, <2>7, <2>8 DEF Promise!Decide, Promise!Move
  <2> QED BY <2>9, <2>10 DEF Promise!Next
<1>8. CASE RowRenewed(f)
  <2>1. PICK s \in Subjects, k \in Keys :
          /\ status[f] = "compensation_failed" /\ status'[f] = "approved"
          /\ req[f][k].status = "failed" /\ PutRequest(f, k, Renew(req[f][k], s))
    BY <1>8 DEF RowRenewed
  <2> DEFINE r == Renew(req[f][k], s)
  <2>2. req[f][k] \in Request BY <1>0 DEF TypeOK
  <2>3. /\ r.status = "approved" /\ r.requester = req[f][k].requester
        /\ r.approver = req[f][k].approver
    BY <2>2 DEF Renew, Request
  <2>4. PhaseOf(f) = "failed" /\ PhaseOf(f)' = "approved" BY <2>1 DEF PhaseOf
  <2>5. RequestOf(req'[f]) = r /\ RequestOf(req[f]) = req[f][k]
    <3>1. PutRequest(f, k, r) /\ r.status # "absent" /\ req[f][k].status # "absent" BY <2>1, <2>3
    <3> HIDE DEF r
    <3> QED BY <1>0, <3>1, WrittenRequest
  <2>6. Askers' = Askers /\ Approvers' = Approvers BY <2>3, <2>5, BooksKept, ApproversKept
  <2>7. Promise!Retry(f) BY <1>0, <2>4, <2>6 DEF Promise!Retry, Promise!Move
  <2> QED BY <2>7 DEF Promise!Next
<1>9. ASSUME NEW w \in Workers, pc[w] \in Compensation, job[w].effect = f, owner[f] = w,
             NEW outcome \in {"completed", "failed"},
             PutRequest(f, job[w].key, Close(req[f][job[w].key], outcome))
      PROVE  Askers' = Askers /\ Approvers' = Approvers
  <2> DEFINE k == job[w].key
             r == Close(req[f][k], outcome)
  <2>1. k \in Keys /\ req[f][k].status = "approved" BY <1>0, <1>9, WorkedRequest
  <2>2. req[f][k] \in Request BY <1>0, <2>1 DEF TypeOK
  <2>3. /\ r.status = outcome /\ r.requester = req[f][k].requester
        /\ r.approver = req[f][k].approver
    BY <2>2 DEF Close, Request
  <2>4. RequestOf(req'[f]) = r /\ RequestOf(req[f]) = req[f][k]
    <3>1. PutRequest(f, k, r) /\ r.status # "absent" /\ req[f][k].status # "absent"
      BY <1>9, <2>1, <2>3
    <3> HIDE DEF r
    <3> QED BY <1>0, <2>1, <3>1, WrittenRequest
  <2> QED BY <2>3, <2>4, BooksKept, ApproversKept
<1>10. CASE RowDone(f)
  <2>1. PICK w \in Workers :
          /\ pc[w] = "succeeded" /\ job[w].effect = f /\ owner[f] = w
          /\ status'[f] = "compensated"
          /\ PutRequest(f, job[w].key, Close(req[f][job[w].key], "completed"))
    BY <1>10 DEF RowDone
  <2>2. pc[w] \in Compensation BY <2>1 DEF Compensation
  <2>3. status[f] = "compensating" BY <1>0, <2>1, <2>2, WorkedRequest
  <2>4. PhaseOf(f) = "approved" /\ PhaseOf(f)' = "undone" BY <2>1, <2>3 DEF PhaseOf
  <2>5. Askers' = Askers /\ Approvers' = Approvers BY <2>1, <2>2, <1>9
  <2>6. ticket[f] = "cancelled" BY <2>1 DEF PromiseInv, SuccessIsReal
  <2>7. Promise!Report(f) BY <1>0, <2>4, <2>5, <2>6 DEF Promise!Report, Promise!Move
  <2> QED BY <2>7 DEF Promise!Next
<1>11. CASE RowFails(f)
  <2>1. PICK w \in Workers :
          /\ pc[w] \in {"retryable", "permanent"} /\ job[w].effect = f /\ owner[f] = w
          /\ \/ status'[f] = "retry_wait" /\ SameRequests(f)
             \/ /\ status'[f] = "compensation_failed"
                /\ PutRequest(f, job[w].key, Close(req[f][job[w].key], "failed"))
    BY <1>11 DEF RowFails
  <2>2. pc[w] \in Compensation BY <2>1 DEF Compensation
  <2>3. status[f] = "compensating" BY <1>0, <2>1, <2>2, WorkedRequest
  <2>4. PhaseOf(f) = "approved" BY <2>3 DEF PhaseOf
  <2>5. CASE status'[f] = "retry_wait" /\ SameRequests(f)
    <3>1. PhaseOf(f)' = "approved" BY <2>5 DEF PhaseOf
    <3> QED BY <1>2, <2>4, <2>5, <3>1
  <2>6. CASE /\ status'[f] = "compensation_failed"
             /\ PutRequest(f, job[w].key, Close(req[f][job[w].key], "failed"))
    <3>1. PhaseOf(f)' = "failed" BY <2>6 DEF PhaseOf
    <3>2. Askers' = Askers /\ Approvers' = Approvers BY <2>1, <2>2, <2>6, <1>9
    <3>3. Promise!Fail(f) BY <1>0, <2>4, <3>1, <3>2 DEF Promise!Fail, Promise!Move
    <3> QED BY <3>3 DEF Promise!Next
  <2> QED BY <2>1, <2>5, <2>6
<1> QED BY <1>3, <1>4, <1>5, <1>6, <1>7, <1>8, <1>10, <1>11 DEF RowMoves

\* Every step is a step of the promise or a stutter of it.
LEMMA PromiseStep ==
  ASSUME PromiseInv, TablesAgree', [Next]_vars
  PROVE  [Promise!Next]_(Promise!vars)
<1>0. TypeOK /\ Memory /\ CallsAreSigned BY DEF PromiseInv, RowInv
<1>1. TicketMoves /\ OneRowMoves BY <1>0, MovesOfTickets, MovesOfStep
<1>2. CASE ticket' = ticket
  <2>1. CASE UNCHANGED <<status, req>>
    <3>1. UNCHANGED <<Phases, Askers, Approvers>>
      BY <2>1 DEF Phases, PhaseOf, Askers, Approvers
    <3> QED BY <1>2, <3>1 DEF Promise!vars
  <2>2. CASE \E f \in Effects : RowMoves(f) /\ \A e \in Effects \ {f} : RowStays(e)
    <3>1. Promise!Next \/ UNCHANGED <<Phases, Askers, Approvers>> BY <1>2, <2>2, RowStep
    <3> QED BY <1>2, <3>1 DEF Promise!vars
  <2> QED BY <1>1, <2>1, <2>2 DEF OneRowMoves
<1>3. CASE ticket' # ticket
  <2>1. Promise!Next BY <1>1, <1>3, TicketStep DEF TicketMoves
  <2> QED BY <2>1
<1> QED BY <1>2, <1>3

LEMMA PromiseStart == Init => Promise!Init
<1> SUFFICES ASSUME Init PROVE Promise!Init OBVIOUS
<1>1. \A e \in Effects : PhaseOf(e) = "absent" BY DEF Init, PhaseOf
<1>2. \A e \in Effects : RequestOf(req[e]) = NoRequest BY DEF Init, RequestOf, NoRequest
<1>3. Phases = [e \in Effects |-> "absent"] BY <1>1 DEF Phases
<1>4. /\ Askers = [e \in Effects |-> NoOne]
      /\ Approvers = [e \in Effects |-> NoOne]
  BY <1>2 DEF Askers, Approvers, NoRequest
<1> QED BY <1>3, <1>4 DEF Init, Promise!Init

\* The tables, the workers and the business API implement the promise: for any
\* number of effects, people, request keys and workers an effect is undone only
\* after one person asked and another agreed, at most once, and "undone" is said
\* only of what no longer stands.
THEOREM PromiseIsKept == Spec => KeepsPromise
<1>1. Spec => []PromiseInv
  BY RowInvariant, IntentInvariant, SuccessInvariant, PTL DEF PromiseInv
<1>2. PromiseInv /\ PromiseInv' /\ [Next]_vars => [Promise!Next]_(Promise!vars)
  BY PromiseStep DEF PromiseInv, RowInv
<1> QED BY <1>1, <1>2, PromiseStart, PTL DEF Spec, KeepsPromise, Promise!Spec
==============================================================================
