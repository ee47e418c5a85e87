--------------------------- MODULE EffectLifecycle ---------------------------
(***************************************************************************)
(* The life of a governed side effect: one API request prepares an intent  *)
(* in PostgreSQL, calls the business API, and completes the intent; people *)
(* request and approve its undo; leased workers compensate it, and         *)
(* reconcile intents whose API process died.  The tables xa_effects and    *)
(* xa_undo_requests are written in transactions, so a transaction is one   *)
(* step; everything a process does between two transactions or calls is    *)
(* a separate step, and any other process may move in between.             *)
(*                                                                         *)
(* Time is abstract: a lease, a retry delay, an undo window and the        *)
(* validity of an internal authorization each end in a step of their own,  *)
(* in any order: a process may be paused for as long as it takes.          *)
(***************************************************************************)
EXTENDS Naturals, FiniteSets, Sequences

CONSTANTS
  Effects,        \* effect identifiers (xa_effects primary keys)
  Compensatable,  \* the effects whose contract says reversibility=compensatable
  Keys,           \* idempotency keys a client sends; they name undo requests
  Subjects,       \* authenticated people
  Workers,        \* compensation worker replicas
  Api,            \* lease owner "api:<trace>" of a prepared effect
  NoOne,          \* SQL NULL in a subject or lease-owner column
  None,           \* no effect or no key
  Delays,         \* retry.delays_seconds of the contract
  ListLimit,      \* rows list_prepared returns at most
  MaxRenewals,    \* bound: manual retries of one request
  MaxFaults,      \* bound: failed, lost or late calls
  MaxCrashes      \* bound: process crashes and stalls longer than a lease

ASSUME ConstantsAssumption ==
  /\ Compensatable \subseteq Effects
  /\ Delays \in Seq(Nat)
  /\ ListLimit \in Nat \ {0}
  /\ MaxRenewals \in Nat /\ MaxFaults \in Nat /\ MaxCrashes \in Nat
  /\ NoOne \notin Subjects \cup Workers \cup {Api}
  /\ Api \notin Workers
  /\ None \notin Effects \cup Keys

VARIABLES
  status,      \* xa_effects.status, "absent" before the row exists
  owner,       \* xa_effects.lease_owner
  leaseLive,   \* lease_until >= now()
  retry,       \* xa_effects.retry_count
  due,         \* next_attempt_at <= now()
  windowOpen,  \* undo_expires_at > now()
  req,         \* xa_undo_requests, by effect and idempotency key
  lapsed,      \* last internal authorization of a request to pass its exp
  ticket,      \* business API: state of the effect's ticket
  cancelKey,   \* business API: idempotency context that cancelled it
  lateCreate,  \* create calls the client gave up on, still under way
  lateCancel,  \* cancel calls the client gave up on, still under way
  api,         \* where the API request that owns the effect stands
  pc, job,     \* workers: control point, and the row they hold in memory
  todo,        \* workers: rows returned by list_prepared, not yet handled
  granted,     \* subjects with an assignment that authorizes the tools
  refused,     \* effects for which a client was told the window expired
  faults, crashes

effectVars == <<status, owner, leaseLive, retry, due, windowOpen>>
requestVars == <<req, lapsed>>
ticketVars == <<ticket, cancelKey, lateCreate, lateCancel>>
workerVars == <<pc, job, todo>>
boundVars == <<faults, crashes>>
vars == <<effectVars, requestVars, ticketVars, workerVars, api, granted, refused, boundVars>>

EffectStatus == {"absent", "prepared", "available", "manual_required", "undo_pending",
                 "approved", "rejected", "compensating", "retry_wait",
                 "compensated", "compensation_failed"}
RequestStatus == {"absent", "pending", "approved", "rejected", "completed", "failed"}
ApiPhase == {"idle", "calling", "created", "unmet", "closed"}
Compensation == {"claimed", "authorized", "succeeded", "retryable", "permanent"}
WorkerPhase == Compensation \cup {"poll", "selected", "reconcile", "scan", "found", "missing", "stopped"}
TicketState == {"none", "open", "cancelled"}

\* A row of xa_undo_requests.  auth numbers the internal authorizations issued
\* for it; actor is the identity inside the latest one (approver or retry admin).
Request == [status : RequestStatus, requester : Subjects \cup {NoOne},
            approver : Subjects \cup {NoOne}, auth : Nat, actor : Subjects \cup {NoOne}]
NoRequest == [status |-> "absent", requester |-> NoOne, approver |-> NoOne,
              auth |-> 0, actor |-> NoOne]

\* The updates of such a row.
Requested(s) == [status |-> "pending", requester |-> s, approver |-> NoOne,
                 auth |-> 0, actor |-> NoOne]
Approve(r, s) == [r EXCEPT !.status = "approved", !.approver = s, !.auth = 1, !.actor = s]
Reject(r, s) == [r EXCEPT !.status = "rejected", !.approver = s]
Renew(r, s) == [r EXCEPT !.status = "approved", !.auth = @ + 1, !.actor = s]
Close(r, outcome) == [r EXCEPT !.status = outcome]

\* What a worker remembers of the row claim_work or list_prepared returned.
Job == [effect : Effects \cup {None}, key : Keys \cup {None}, retry : Nat,
        auth : Nat, actor : Subjects \cup {NoOne}]
NoJob == [effect |-> None, key |-> None, retry |-> 0, auth |-> 0, actor |-> NoOne]
Inquiry(e) == [effect |-> e, key |-> None, retry |-> 0, auth |-> 0, actor |-> NoOne]

TypeOK ==
  /\ status \in [Effects -> EffectStatus]
  /\ owner \in [Effects -> Workers \cup {Api, NoOne}]
  /\ leaseLive \in [Effects -> BOOLEAN]
  /\ retry \in [Effects -> Nat]
  /\ due \in [Effects -> BOOLEAN]
  /\ windowOpen \in [Effects -> BOOLEAN]
  /\ req \in [Effects -> [Keys -> Request]]
  /\ lapsed \in [Effects -> [Keys -> Nat]]
  /\ ticket \in [Effects -> TicketState]
  /\ cancelKey \in [Effects -> Keys \cup {None}]
  /\ lateCreate \in SUBSET Effects
  /\ lateCancel \in SUBSET (Effects \X Keys)
  /\ api \in [Effects -> ApiPhase]
  /\ pc \in [Workers -> WorkerPhase]
  /\ job \in [Workers -> Job]
  /\ todo \in [Workers -> SUBSET Effects]
  /\ granted \in SUBSET Subjects
  /\ refused \in SUBSET Effects
  /\ faults \in Nat
  /\ crashes \in Nat

Init ==
  /\ status = [e \in Effects |-> "absent"]
  /\ owner = [e \in Effects |-> NoOne]
  /\ leaseLive = [e \in Effects |-> FALSE]
  /\ retry = [e \in Effects |-> 0]
  /\ due = [e \in Effects |-> FALSE]
  /\ windowOpen = [e \in Effects |-> TRUE]
  /\ req = [e \in Effects |-> [k \in Keys |-> NoRequest]]
  /\ lapsed = [e \in Effects |-> [k \in Keys |-> 0]]
  /\ ticket = [e \in Effects |-> "none"]
  /\ cancelKey = [e \in Effects |-> None]
  /\ lateCreate = {}
  /\ lateCancel = {}
  /\ api = [e \in Effects |-> "idle"]
  /\ pc = [w \in Workers |-> "poll"]
  /\ job = [w \in Workers |-> NoJob]
  /\ todo = [w \in Workers |-> {}]
  /\ granted = Subjects
  /\ refused = {}
  /\ faults = 0
  /\ crashes = 0

------------------------------------------------------------------------------
(* The rows: conditions and updates shared by several transactions.         *)

\* tuple(snapshot.get("retry_delays_seconds") or (5, 30, 120)): a contract
\* that lists no delays gets the default ones.
RetryDelays == IF Delays = << >> THEN <<5, 30, 120>> ELSE Delays

\* Definitions named ...Defect are plausible mistakes in the one that follows
\* them; no action uses them.

\* Defect: a live lease does not stop another worker.
ClaimableAnyLeaseDefect(e) ==
  \/ status[e] \in {"approved", "compensating"}
  \/ status[e] = "retry_wait" /\ due[e]

\* Defect: rows of dead workers are not taken over.
ClaimableNoTakeoverDefect(e) ==
  \/ status[e] = "approved"
  \/ status[e] = "retry_wait" /\ due[e]

\* The WHERE clause of claim_work.
Claimable(e) ==
  \/ status[e] = "approved"
  \/ status[e] = "retry_wait" /\ due[e]
  \/ status[e] = "compensating" /\ ~leaseLive[e]

\* The condition under which complete_work and fail_work may write.
OwnsLease(w) == owner[job[w].effect] = w

\* Defect: only rows without an owner are reconciled.
ReconcilableUnownedDefect(e) == status[e] = "prepared" /\ owner[e] = NoOne

\* The WHERE clause of list_prepared.
Reconcilable(e) == status[e] = "prepared" /\ ~leaseLive[e]

\* Its LIMIT: all rows, or as many as it allows.  They are the oldest ones; the
\* model has no ages and leaves the choice open.
Batches(rows) ==
  IF Cardinality(rows) <= ListLimit THEN {rows}
  ELSE {batch \in SUBSET rows : Cardinality(batch) = ListLimit}

\* Defect: the status is checked, the window and the state machine are not.
UndoableAgainDefect(e) == status[e] \in {"available", "undo_pending"}

\* request_undo: the effect is available and its window open.
Undoable(e) == status[e] = "available" /\ windowOpen[e]

\* Defect: anyone may decide.
MayDecideDefect(s, e, k) == req[e][k].requester # NoOne

\* decide_undo: separation of duty.
MayDecide(s, e, k) == req[e][k].requester # s

\* Defect: one retry too many.
RetriesAgainDefect(n) == n <= Len(RetryDelays) + 1

\* fail_work: whether failure number n is followed by an automatic retry.
RetriesAgain(n) == n <= Len(RetryDelays)

\* Defect: the deadline is cleared, the owner is not.
ReleaseLeaseDefect(e) ==
  /\ leaseLive' = [leaseLive EXCEPT ![e] = FALSE]
  /\ UNCHANGED owner

\* lease_owner=NULL, lease_until=NULL, heartbeat_at=NULL.
ReleaseLease(e) ==
  /\ owner' = [owner EXCEPT ![e] = NoOne]
  /\ leaseLive' = [leaseLive EXCEPT ![e] = FALSE]

\* Defect: the contract's word for reversibility is stored as the status.
SettleDefect(e) ==
  /\ status' = [status EXCEPT ![e] =
                  IF e \in Compensatable THEN "compensatable" ELSE "manual_required"]
  /\ ReleaseLease(e)
  /\ UNCHANGED <<retry, due, windowOpen>>

\* complete_effect on a prepared row: the contract decides whether it can be undone.
Settle(e) ==
  /\ status' = [status EXCEPT ![e] =
                  IF e \in Compensatable THEN "available" ELSE "manual_required"]
  /\ ReleaseLease(e)
  /\ UNCHANGED <<retry, due, windowOpen>>

\* Defect: the row is not checked to be prepared still.
MarkPreparedManualDefect(e) ==
  /\ status' = [status EXCEPT ![e] = "manual_required"]
  /\ ReleaseLease(e)
  /\ UNCHANGED <<retry, due, windowOpen>>

\* mark_prepared_manual: does nothing to a row that is no longer prepared.
MarkPreparedManual(e) ==
  IF status[e] = "prepared"
  THEN /\ status' = [status EXCEPT ![e] = "manual_required"]
       /\ ReleaseLease(e)
       /\ UNCHANGED <<retry, due, windowOpen>>
  ELSE UNCHANGED effectVars

\* Business API.  INSERT ... ON CONFLICT (create_effect_id) DO NOTHING.
CreateTicket(e) ==
  /\ ticket' = [ticket EXCEPT ![e] = IF @ = "none" THEN "open" ELSE @]
  /\ UNCHANGED cancelKey

\* Business API.  Only an open ticket changes; every other call is a replay
\* or a refusal.
CancelTicket(e, k) ==
  /\ ticket' = [ticket EXCEPT ![e] = IF @ = "open" THEN "cancelled" ELSE @]
  /\ cancelKey' = [cancelKey EXCEPT ![e] = IF ticket[e] = "open" THEN k ELSE @]

\* Business API.  The answer to that call is a success.
CancelAccepted(e, k) == \/ ticket[e] = "open"
                        \/ ticket[e] = "cancelled" /\ cancelKey[e] = k

\* Defect: an answer without a ticket counts as a ticket.
LookupDefect(e) == "found"

\* Business API.  get_by_effect.
Lookup(e) == IF ticket[e] = "none" THEN "missing" ELSE "found"

Fault == faults < MaxFaults /\ faults' = faults + 1
Crash == crashes < MaxCrashes /\ crashes' = crashes + 1
------------------------------------------------------------------------------
(* The API request that performs the side effect: service.create_ticket.    *)

\* authorize, then prepare_effect: the intent is durable before any call.
PrepareEffect(e) ==
  /\ status[e] = "absent"
  /\ granted # {}
  /\ status' = [status EXCEPT ![e] = "prepared"]
  /\ owner' = [owner EXCEPT ![e] = Api]
  /\ leaseLive' = [leaseLive EXCEPT ![e] = TRUE]
  /\ api' = [api EXCEPT ![e] = "calling"]
  /\ UNCHANGED <<retry, due, windowOpen, requestVars, ticketVars, workerVars,
                 granted, refused, boundVars>>

\* business.create_ticket answers; the contract's success predicate decides
\* whether the answer is good ("created") or not ("unmet").
CreateReplied(e) ==
  /\ api[e] = "calling"
  /\ CreateTicket(e)
  /\ \E p \in {"created", "unmet"} : api' = [api EXCEPT ![e] = p]
  /\ UNCHANGED <<effectVars, requestVars, lateCreate, lateCancel, workerVars,
                 granted, refused, boundVars>>

\* The call raises BusinessError, or the API process dies during it: the intent
\* stays prepared.  The ticket exists, does not, or will be created later.
CreateFailed(e) ==
  /\ api[e] = "calling"
  /\ Fault
  /\ api' = [api EXCEPT ![e] = "closed"]
  /\ \/ CreateTicket(e) /\ UNCHANGED lateCreate
     \/ UNCHANGED <<ticket, cancelKey, lateCreate>>
     \/ lateCreate' = lateCreate \cup {e} /\ UNCHANGED <<ticket, cancelKey>>
  /\ UNCHANGED <<effectVars, requestVars, lateCancel, workerVars, granted, refused, crashes>>

\* complete_effect by the API; a conflict leaves the row to whoever settled it.
CompleteEffect(e) ==
  /\ api[e] = "created"
  /\ IF status[e] = "prepared" THEN Settle(e) ELSE UNCHANGED effectVars
  /\ api' = [api EXCEPT ![e] = "closed"]
  /\ UNCHANGED <<requestVars, ticketVars, workerVars, granted, refused, boundVars>>

\* mark_prepared_manual by the API: the success predicate failed.
RejectResult(e) ==
  /\ api[e] = "unmet"
  /\ MarkPreparedManual(e)
  /\ api' = [api EXCEPT ![e] = "closed"]
  /\ UNCHANGED <<requestVars, ticketVars, workerVars, granted, refused, boundVars>>

\* The API process dies after the call, or the staged completion is lost.
ApiCrash(e) ==
  /\ api[e] \in {"created", "unmet"}
  /\ Crash
  /\ api' = [api EXCEPT ![e] = "closed"]
  /\ UNCHANGED <<effectVars, requestVars, ticketVars, workerVars, granted, refused, faults>>

\* The business API gets to a create call whose client is gone.
LateCreate(e) ==
  /\ e \in lateCreate
  /\ CreateTicket(e)
  /\ lateCreate' = lateCreate \ {e}
  /\ UNCHANGED <<effectVars, requestVars, lateCancel, workerVars, api, granted,
                 refused, boundVars>>
------------------------------------------------------------------------------
(* People: request, decide and retry an undo; assignments come and go.      *)

RequestUndo(s, e, k) ==
  /\ s \in granted
  /\ req[e][k].status = "absent"      \* a replay of the key only reads
  /\ Undoable(e)
  /\ req' = [req EXCEPT ![e][k] = Requested(s)]
  /\ status' = [status EXCEPT ![e] = "undo_pending"]
  /\ UNCHANGED <<owner, leaseLive, retry, due, windowOpen, lapsed, ticketVars,
                 workerVars, api, granted, refused, boundVars>>

\* The window is over.  request_undo and decide_undo write 'expired' and raise
\* ConflictError inside the same transaction, which rolls the write back.
RefuseExpired(s, e) ==
  /\ s \in granted
  /\ ~windowOpen[e]
  /\ \/ status[e] = "available"
     \/ status[e] = "undo_pending"
        /\ \E k \in Keys : req[e][k].status = "pending" /\ MayDecide(s, e, k)
  /\ refused' = refused \cup {e}
  /\ UNCHANGED <<effectVars, requestVars, ticketVars, workerVars, api, granted, boundVars>>

DecideUndo(s, e, k) ==
  /\ s \in granted
  /\ MayDecide(s, e, k)
  /\ req[e][k].status = "pending"
  /\ status[e] = "undo_pending"
  /\ windowOpen[e]
  /\ \/ /\ status' = [status EXCEPT ![e] = "approved"]
        /\ req' = [req EXCEPT ![e][k] = Approve(@, s)]
     \/ /\ status' = [status EXCEPT ![e] = "rejected"]
        /\ req' = [req EXCEPT ![e][k] = Reject(@, s)]
  /\ UNCHANGED <<owner, leaseLive, retry, due, windowOpen, lapsed, ticketVars,
                 workerVars, api, granted, refused, boundVars>>

\* undo.admin renews the execution authorization; retry_count is left alone.
RetryFailed(s, e, k) ==
  /\ s \in granted
  /\ status[e] = "compensation_failed"
  /\ req[e][k].status = "failed"
  /\ req[e][k].auth <= MaxRenewals
  /\ status' = [status EXCEPT ![e] = "approved"]
  /\ due' = [due EXCEPT ![e] = FALSE]
  /\ ReleaseLease(e)
  /\ req' = [req EXCEPT ![e][k] = Renew(@, s)]
  /\ UNCHANGED <<retry, windowOpen, lapsed, ticketVars, workerVars, api, granted,
                 refused, boundVars>>

Grant(s) ==
  /\ s \notin granted
  /\ granted' = granted \cup {s}
  /\ UNCHANGED <<effectVars, requestVars, ticketVars, workerVars, api, refused, boundVars>>

Revoke(s) ==
  /\ s \in granted
  /\ granted' = granted \ {s}
  /\ UNCHANGED <<effectVars, requestVars, ticketVars, workerVars, api, refused, boundVars>>
------------------------------------------------------------------------------
(* Time.                                                                    *)

\* The owner is a worker that is up and at work on the row: its heartbeats come
\* three times per lease, and no call it makes may take that long.
Attended(e) == \E w \in Workers : pc[w] \in Compensation /\ job[w].effect = e /\ owner[e] = w

\* Nobody renews the lease: its worker is gone, or it belongs to an API request,
\* which sends no heartbeats.
LeaseExpires(e) ==
  /\ leaseLive[e]
  /\ ~Attended(e)
  /\ leaseLive' = [leaseLive EXCEPT ![e] = FALSE]
  /\ UNCHANGED <<status, owner, retry, due, windowOpen, requestVars, ticketVars,
                 workerVars, api, granted, refused, boundVars>>

\* A worker that is up is paused, or cut off from the database, for a whole lease.
LeaseStalls(e) ==
  /\ leaseLive[e]
  /\ Attended(e)
  /\ Crash
  /\ leaseLive' = [leaseLive EXCEPT ![e] = FALSE]
  /\ UNCHANGED <<status, owner, retry, due, windowOpen, requestVars, ticketVars,
                 workerVars, api, granted, refused, faults>>

\* next_attempt_at arrives; a delay of 0 stored NULL, which never does.
RetryDue(e) ==
  /\ status[e] = "retry_wait"
  /\ ~due[e]
  /\ RetryDelays[retry[e]] > 0
  /\ due' = [due EXCEPT ![e] = TRUE]
  /\ UNCHANGED <<status, owner, leaseLive, retry, windowOpen, requestVars, ticketVars,
                 workerVars, api, granted, refused, boundVars>>

\* undo_expires_at is read by request_undo and decide_undo alone: its passing is
\* a step while one of them may still come.
WindowCloses(e) ==
  /\ status[e] \in {"prepared", "available", "undo_pending"}
  /\ windowOpen[e]
  /\ windowOpen' = [windowOpen EXCEPT ![e] = FALSE]
  /\ UNCHANGED <<status, owner, leaseLive, retry, due, requestVars, ticketVars,
                 workerVars, api, granted, refused, boundVars>>

AuthorizationExpires(e, k) ==
  /\ \E n \in (lapsed[e][k] + 1)..req[e][k].auth : lapsed' = [lapsed EXCEPT ![e][k] = n]
  /\ UNCHANGED <<effectVars, req, ticketVars, workerVars, api, granted, refused, boundVars>>
------------------------------------------------------------------------------
(* Workers: run_once, then reconcile_once, for ever.                        *)

GoTo(w, p) == pc' = [pc EXCEPT ![w] = p] /\ UNCHANGED job

\* The worker is done with its row and goes on to p.
Drop(w, p) == pc' = [pc EXCEPT ![w] = p] /\ job' = [job EXCEPT ![w] = NoJob]

\* A cancel call is under way when the worker stops waiting for it: nothing of
\* it is left, or the business API gets to it later.
MaybeLate(w) ==
  \/ UNCHANGED lateCancel
  \/ pc[w] = "authorized" /\ lateCancel' = lateCancel \cup {<<job[w].effect, job[w].key>>}

\* The request columns of two joined rows, as the statement's snapshot has them.
Snapshot(e, k) == [effect |-> e, key |-> k, retry |-> 0,
                   auth |-> req[e][k].auth, actor |-> req[e][k].actor]

\* Defect: the query does not select retry_count, so row.get() falls back to 0.
LockedDefect(j) == j

\* FOR UPDATE OF e reads the columns of the effect again, and those alone.
Locked(j) == [j EXCEPT !.retry = retry[j.effect]]

\* claim_work: the snapshot of the SELECT has a row to claim.
SelectWork(w, e, k) ==
  /\ pc[w] = "poll"
  /\ Claimable(e)
  /\ req[e][k].status = "approved"
  /\ pc' = [pc EXCEPT ![w] = "selected"]
  /\ job' = [job EXCEPT ![w] = Snapshot(e, k)]
  /\ UNCHANGED <<effectVars, requestVars, ticketVars, todo, api, granted, refused, boundVars>>

\* claim_work: the SELECT locks the effect and checks it once more; the lease is
\* written, and the row returned as it was read.
ClaimWork(w) ==
  /\ pc[w] = "selected"
  /\ LET e == job[w].effect IN
       /\ Claimable(e)
       /\ status' = [status EXCEPT ![e] = "compensating"]
       /\ owner' = [owner EXCEPT ![e] = w]
       /\ leaseLive' = [leaseLive EXCEPT ![e] = TRUE]
  /\ pc' = [pc EXCEPT ![w] = "claimed"]
  /\ job' = [job EXCEPT ![w] = Locked(@)]
  /\ UNCHANGED <<retry, due, windowOpen, requestVars, ticketVars, todo, api, granted,
                 refused, boundVars>>

\* claim_work: another transaction has changed the row since.
ClaimPassed(w) ==
  /\ pc[w] = "selected"
  /\ ~Claimable(job[w].effect)
  /\ Drop(w, "reconcile")
  /\ UNCHANGED <<effectVars, requestVars, ticketVars, todo, api, granted, refused, boundVars>>

\* claim_work finds nothing.
ClaimNothing(w) ==
  /\ pc[w] = "poll"
  /\ ~ \E e \in Effects, k \in Keys : Claimable(e) /\ req[e][k].status = "approved"
  /\ GoTo(w, "reconcile")
  /\ UNCHANGED <<effectVars, requestVars, ticketVars, todo, api, granted, refused, boundVars>>

\* The heartbeat task: renews even a lease that ran out, unless it was taken.
Heartbeat(w) ==
  /\ pc[w] \in Compensation
  /\ status[job[w].effect] = "compensating"
  /\ OwnsLease(w)
  /\ ~leaseLive[job[w].effect]
  /\ leaseLive' = [leaseLive EXCEPT ![job[w].effect] = TRUE]
  /\ UNCHANGED <<status, owner, retry, due, windowOpen, requestVars, ticketVars,
                 workerVars, api, granted, refused, boundVars>>

\* The heartbeat finds the lease taken, or fails: the local task is cancelled.
HeartbeatLost(w) ==
  /\ pc[w] \in Compensation
  /\ \/ ~(status[job[w].effect] = "compensating" /\ OwnsLease(w)) /\ UNCHANGED faults
     \/ Fault
  /\ MaybeLate(w)
  /\ Drop(w, "reconcile")
  /\ UNCHANGED <<effectVars, requestVars, ticket, cancelKey, lateCreate, todo, api,
                 granted, refused, crashes>>

\* _compensate up to the call: verify the internal authorization, authorize its
\* actor against the assignments in force, decrypt the recovery material.
\* Anything that raises here is a failure without retry.
Authorize(w) ==
  /\ pc[w] = "claimed"
  /\ \/ /\ IF /\ lapsed[job[w].effect][job[w].key] < job[w].auth
              /\ job[w].actor \in granted
           THEN GoTo(w, "authorized")
           ELSE GoTo(w, "permanent")
        /\ UNCHANGED faults
     \/ Fault /\ GoTo(w, "permanent")
  /\ UNCHANGED <<effectVars, requestVars, ticketVars, todo, api, granted, refused, crashes>>

\* business.cancel_ticket answers: 200, or 404/409, which are not retried.
CancelReplied(w) ==
  /\ pc[w] = "authorized"
  /\ GoTo(w, IF CancelAccepted(job[w].effect, job[w].key) THEN "succeeded" ELSE "permanent")
  /\ CancelTicket(job[w].effect, job[w].key)
  /\ UNCHANGED <<effectVars, requestVars, lateCreate, lateCancel, todo, api, granted,
                 refused, boundVars>>

\* The call, or the pipeline around it, fails: before the ticket changed, after,
\* or with the call still on its way.
CancelFailed(w) ==
  /\ pc[w] = "authorized"
  /\ Fault
  /\ \E p \in {"retryable", "permanent"} :
       /\ GoTo(w, p)
       /\ \/ CancelTicket(job[w].effect, job[w].key) /\ UNCHANGED lateCancel
          \/ UNCHANGED <<ticket, cancelKey, lateCancel>>
          \/ /\ p = "retryable"
             /\ lateCancel' = lateCancel \cup {<<job[w].effect, job[w].key>>}
             /\ UNCHANGED <<ticket, cancelKey>>
  /\ UNCHANGED <<effectVars, requestVars, lateCreate, todo, api, granted, refused, crashes>>

\* Defect: the downstream error that the pipeline turned into a result is dropped.
MayCompleteDefect(w) == pc[w] \in {"succeeded", "retryable"}

\* _compensate goes on to complete_work only after an allowed, successful result.
MayComplete(w) == pc[w] = "succeeded"

\* complete_work, guarded by the lease owner alone.
CompleteWork(w) ==
  /\ MayComplete(w)
  /\ LET e == job[w].effect IN
       IF OwnsLease(w)
       THEN /\ status' = [status EXCEPT ![e] = "compensated"]
            /\ ReleaseLease(e)
            /\ req' = [req EXCEPT ![e][job[w].key] = Close(@, "completed")]
            /\ UNCHANGED <<retry, due, windowOpen>>
       ELSE UNCHANGED <<effectVars, req>>
  /\ Drop(w, "reconcile")
  /\ UNCHANGED <<lapsed, ticketVars, todo, api, granted, refused, boundVars>>

\* fail_work: counts from the retry_count the claim returned.
FailWork(w) ==
  /\ pc[w] \in {"retryable", "permanent"}
  /\ LET e == job[w].effect
         n == job[w].retry + 1
         again == pc[w] = "retryable" /\ RetriesAgain(n)
     IN IF OwnsLease(w)
        THEN /\ status' = [status EXCEPT ![e] = IF again THEN "retry_wait" ELSE "compensation_failed"]
             /\ retry' = [retry EXCEPT ![e] = n]
             /\ due' = [due EXCEPT ![e] = FALSE]
             /\ ReleaseLease(e)
             /\ req' = IF again THEN req ELSE [req EXCEPT ![e][job[w].key] = Close(@, "failed")]
             /\ UNCHANGED windowOpen
        ELSE UNCHANGED <<effectVars, req>>
  /\ Drop(w, "reconcile")
  /\ UNCHANGED <<lapsed, ticketVars, todo, api, granted, refused, boundVars>>

\* The business API gets to a cancel call whose client is gone.
LateCancel(e, k) ==
  /\ <<e, k>> \in lateCancel
  /\ CancelTicket(e, k)
  /\ lateCancel' = lateCancel \ {<<e, k>>}
  /\ UNCHANGED <<effectVars, requestVars, lateCreate, workerVars, api, granted, refused, boundVars>>

\* reconcile_once: list_prepared, then one row after the other.
ListPrepared(w) ==
  /\ pc[w] = "reconcile"
  /\ \E batch \in Batches({e \in Effects : Reconcilable(e)}) :
       todo' = [todo EXCEPT ![w] = batch]
  /\ GoTo(w, "scan")
  /\ UNCHANGED <<effectVars, requestVars, ticketVars, api, granted, refused, boundVars>>

\* get_by_effect answers with the ticket or not_found.
QueryEffect(w, e) ==
  /\ pc[w] = "scan"
  /\ e \in todo[w]
  /\ todo' = [todo EXCEPT ![w] = @ \ {e}]
  /\ \/ /\ pc' = [pc EXCEPT ![w] = Lookup(e)]
        /\ job' = [job EXCEPT ![w] = Inquiry(e)]
        /\ UNCHANGED faults
     \/ Fault /\ UNCHANGED <<pc, job>>        \* any other error: next row
  /\ UNCHANGED <<effectVars, requestVars, ticketVars, api, granted, refused, crashes>>

\* complete_effect by the reconciler.  Its ConflictError is not caught: it ends
\* run_forever, and with it the process.
ReconcileFound(w) ==
  /\ pc[w] = "found"
  /\ IF status[job[w].effect] = "prepared"
     THEN Settle(job[w].effect) /\ Drop(w, "scan") /\ UNCHANGED todo
     ELSE /\ Drop(w, "stopped")
          /\ todo' = [todo EXCEPT ![w] = {}]
          /\ UNCHANGED effectVars
  /\ UNCHANGED <<requestVars, ticketVars, api, granted, refused, boundVars>>

\* mark_prepared_manual("reconcile_not_found").
ReconcileMissing(w) ==
  /\ pc[w] = "missing"
  /\ MarkPreparedManual(job[w].effect)
  /\ Drop(w, "scan")
  /\ UNCHANGED <<requestVars, ticketVars, todo, api, granted, refused, boundVars>>

ScanDone(w) ==
  /\ pc[w] = "scan"
  /\ todo[w] = {}
  /\ GoTo(w, "poll")
  /\ UNCHANGED <<effectVars, requestVars, ticketVars, todo, api, granted, refused, boundVars>>

WorkerCrash(w) ==
  /\ pc[w] # "stopped"
  /\ Crash
  /\ MaybeLate(w)
  /\ Drop(w, "stopped")
  /\ todo' = [todo EXCEPT ![w] = {}]
  /\ UNCHANGED <<effectVars, requestVars, ticket, cancelKey, lateCreate, api, granted,
                 refused, faults>>

\* restart: unless-stopped (Compose) or the Deployment (Helm).
WorkerRestart(w) ==
  /\ pc[w] = "stopped"
  /\ GoTo(w, "poll")
  /\ UNCHANGED <<effectVars, requestVars, ticketVars, todo, api, granted, refused, boundVars>>
------------------------------------------------------------------------------
ApiStep(e) == \/ PrepareEffect(e) \/ CreateReplied(e) \/ CreateFailed(e)
              \/ CompleteEffect(e) \/ RejectResult(e) \/ ApiCrash(e) \/ LateCreate(e)

PeopleStep(e) == \E s \in Subjects :
  \/ RefuseExpired(s, e)
  \/ \E k \in Keys : \/ RequestUndo(s, e, k)
                     \/ DecideUndo(s, e, k)
                     \/ RetryFailed(s, e, k)

TimeStep(e) == \/ LeaseExpires(e) \/ LeaseStalls(e) \/ RetryDue(e) \/ WindowCloses(e)
               \/ \E k \in Keys : AuthorizationExpires(e, k)

CompensateStep(w) == \/ ClaimWork(w) \/ ClaimPassed(w) \/ ClaimNothing(w)
                     \/ Authorize(w) \/ CancelReplied(w) \/ CompleteWork(w) \/ FailWork(w)
                     \/ \E e \in Effects, k \in Keys : SelectWork(w, e, k)

ReconcileStep(w) == \/ ListPrepared(w) \/ ReconcileFound(w) \/ ReconcileMissing(w)
                    \/ ScanDone(w) \/ \E e \in Effects : QueryEffect(w, e)

WorkerStep(w) == CompensateStep(w) \/ ReconcileStep(w) \/ WorkerRestart(w)

WorkerTrouble(w) == Heartbeat(w) \/ HeartbeatLost(w) \/ CancelFailed(w) \/ WorkerCrash(w)

Next ==
  \/ \E e \in Effects : ApiStep(e) \/ PeopleStep(e) \/ TimeStep(e)
  \/ \E e \in Effects, k \in Keys : LateCancel(e, k)
  \/ \E s \in Subjects : Grant(s) \/ Revoke(s)
  \/ \E w \in Workers : WorkerStep(w) \/ WorkerTrouble(w)

Spec == Init /\ [][Next]_vars

\* Every process keeps running and every timer ends; nobody has to ask for or
\* approve anything, and late calls may never arrive.
Fairness ==
  /\ \A e \in Effects : /\ WF_vars(CreateReplied(e) \/ CompleteEffect(e) \/ RejectResult(e))
                        /\ WF_vars(LeaseExpires(e))
                        /\ WF_vars(RetryDue(e))
  /\ \A w \in Workers : WF_vars(WorkerStep(w))

FairSpec == Spec /\ Fairness
------------------------------------------------------------------------------
(* Properties.                                                              *)

\* A worker owns the lease of exactly the rows being compensated, the API of
\* exactly the prepared ones, and nobody any other.  complete_work and fail_work
\* check the owner and not the status; this is why that is enough.
LeaseMatchesStatus == \A e \in Effects :
  /\ owner[e] \in Workers <=> status[e] = "compensating"
  /\ owner[e] = Api <=> status[e] = "prepared"
  /\ leaseLive[e] => owner[e] # NoOne

RequestFor(s) ==
  CASE s = "undo_pending" -> "pending"
    [] s \in {"approved", "compensating", "retry_wait"} -> "approved"
    [] s = "rejected" -> "rejected"
    [] s = "compensated" -> "completed"
    [] s = "compensation_failed" -> "failed"
    [] OTHER -> "absent"

\* The two tables agree: an effect has at most one undo request, and the status
\* of one row fixes that of the other.  claim_work joins them by effect_id alone.
TablesAgree == \A e \in Effects :
  /\ \A k, l \in Keys : req[e][k].status # "absent" /\ req[e][l].status # "absent" => k = l
  /\ \A k \in Keys : req[e][k].status # "absent" => req[e][k].status = RequestFor(status[e])
  /\ RequestFor(status[e]) # "absent" => \E k \in Keys : req[e][k].status # "absent"

Approved(e, k) == req[e][k].status \in {"approved", "completed", "failed"}

\* Whatever is or was being compensated had been approved by someone other than
\* the person who asked, also after manual retries under an admin's identity.
SeparationOfDuty == \A e \in Effects, k \in Keys :
  /\ Approved(e, k) => /\ {req[e][k].requester, req[e][k].approver} \subseteq Subjects
                       /\ req[e][k].requester # req[e][k].approver
  /\ <<e, k>> \in lateCancel \/ cancelKey[e] = k => Approved(e, k)

\* A ticket is cancelled only by the request that was approved for its effect,
\* whatever stale workers and late calls are about, and a row that reads
\* compensated has a cancelled ticket.
CompensatedMeansCancelled == \A e \in Effects :
  /\ ticket[e] = "cancelled" <=> cancelKey[e] # None
  /\ status[e] = "compensated" => ticket[e] = "cancelled"

\* The row a lease owner works from is the row in the table: fail_work may count
\* from the retry_count it remembers, and the request is still approved.  The
\* authorization alone may be one that was renewed since, never another's.
SnapshotIsCurrent == \A w \in Workers :
  pc[w] \in Compensation /\ OwnsLease(w) =>
    LET r == req[job[w].effect][job[w].key] IN
      /\ job[w].retry = retry[job[w].effect]
      /\ r.status = "approved"
      /\ job[w].auth \in 1..r.auth
      /\ job[w].auth = r.auth => job[w].actor = r.actor

\* Automatic retries are spent once for the life of a request: every failure past
\* the contract's delays costs an authorization somebody signed.
RetriesAreBounded == \A e \in Effects :
  /\ status[e] = "retry_wait" => retry[e] \in 1..Len(RetryDelays)
  /\ \A k \in Keys : req[e][k].status # "absent" =>
       retry[e] <= Len(RetryDelays) + req[e][k].auth
                     - (IF req[e][k].status = "approved" THEN 1 ELSE 0)

\* Past the intent there is a ticket to undo, and before the intent there is none.
TicketFollowsIntent == \A e \in Effects :
  /\ status[e] = "absent" => ticket[e] = "none" /\ e \notin lateCreate
  /\ status[e] \notin {"absent", "prepared", "manual_required"} => ticket[e] # "none"

\* A lease that has not run out is given up by its owner or ended by the state
\* machine, never taken over.
LiveLeaseIsKept ==
  [][\A e \in Effects : leaseLive[e] => owner'[e] \in {owner[e], NoOne}]_vars

\* An effect that is settled stays as it is, and a permanent failure is reopened
\* only by an authorization issued for it.
SettledStaysSettled ==
  [][\A e \in Effects :
       /\ status[e] \in {"compensated", "rejected", "manual_required"} => status'[e] = status[e]
       /\ status[e] = "compensation_failed" /\ status'[e] # status[e] =>
            \E k \in Keys : req'[e][k].auth > req[e][k].auth]_vars

\* Every approved undo comes to an end: done, or failed for a person to look at,
\* although workers crash, lose leases and get no answers.
ApprovedIsSettled == \A e \in Effects :
  status[e] = "approved" ~> status[e] \in {"compensated", "compensation_failed"}

\* No intent stays open: the API or a reconciler settles it.
PreparedIsSettled == \A e \in Effects : status[e] = "prepared" ~> status[e] # "prepared"

\* The documented state machine: an effect whose undo was refused because the
\* window is over is recorded as expired.
ExpiryIsRecorded == \A e \in refused : status[e] = "expired"
------------------------------------------------------------------------------
(* The abstract promise this module keeps.                                  *)

PhaseOf(e) ==
  CASE status[e] = "prepared" -> "intended"
    [] status[e] = "available" -> "undoable"
    [] status[e] = "manual_required" -> "manual"
    [] status[e] = "undo_pending" -> "asked"
    [] status[e] = "rejected" -> "refused"
    [] status[e] \in {"approved", "compensating", "retry_wait"} -> "approved"
    [] status[e] = "compensated" -> "undone"
    [] status[e] = "compensation_failed" -> "failed"
    [] OTHER -> "absent"

\* The request row of an effect: the first unique index leaves it only one.
RequestOf(rows) ==
  IF \E k \in Keys : rows[k].status # "absent"
  THEN rows[CHOOSE k \in Keys : rows[k].status # "absent"] ELSE NoRequest

Phases == [e \in Effects |-> PhaseOf(e)]
Askers == [e \in Effects |-> RequestOf(req[e]).requester]
Approvers == [e \in Effects |-> RequestOf(req[e]).approver]

Promise == INSTANCE UndoPromise WITH
  phase <- Phases, asker <- Askers, approver <- Approvers

\* The tables, the workers and the business API together keep the promise.
KeepsPromise == Promise!Spec
==============================================================================
