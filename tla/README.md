# XA-Guard: formal models of its stateful parts

XA-Guard puts itself between AI agents and the tools they call. It checks every
call with six gates, asks a person where a policy says so, keeps signed hash
chains of what happened, and, in its control plane, makes side effects
undoable: an effect is recorded before it happens, and leased workers
compensate it after one person asked for the undo and another approved it. The
repository also holds the machinery of its benchmarks, one part of which spends
money without supervision.

This directory holds TLA+ models of the parts of that system where processes,
people, crashes and lost messages meet, TLC configurations that check them on
small instances, and proofs checked by TLAPS. `PROJECT.json` maps every
definition to the lines it stands for, lists the runs, the mutants that show
each property can fail, the hazards and the theorems.

To check a model: `tlc -config EffectSafety.cfg MCEffectLifecycle.tla`.
To check the proofs: `tlapm EffectLifecycleProofs.tla`.

Paths below are relative to `src/src/xa_guard/` unless they start with `src/`.

## 1. Inventory

| Component | State it keeps | Operations | Interacts with | What is hard | What makes it correct |
|---|---|---|---|---|---|
| Effect store `control/store.py`, migrations | rows of `xa_effects`, `xa_undo_requests`, `xa_assignments` | prepare, complete, mark manual, request/decide/retry undo, claim, heartbeat, complete/fail work | control service, worker, PostgreSQL | leases, retries, two tables in step, transactions | owner and status correspond; the tables agree; settled rows stay settled |
| Control service `control/service.py`, `contracts.py`, `business.py` | none of its own | create ticket with intent first, undo, retries, reconcile, assignments | store, business API, pipeline | crash after the call; reconciler against API | no intent stays open; no ticket without intent |
| Compensation worker `control/worker.py` | the row it holds in memory | run_once, compensate, heartbeat, fail | store, business API | lease loss in mid-call, stale memory | a live lease is kept; what a lease owner remembers is current |
| Business API `reference/ticket_api.py` | tickets | idempotent create, lookup, idempotent cancel | service, worker | late and repeated calls | only an approved request cancels |
| Hash chains `control/store.py` | `xa_effect_events`, `xa_gate6_events`, `xa_chain_tails`, a tail cache per process | append (five kinds of transaction), export | everything that writes | different locks for one chain, stale caches, pool limits | a chain is linear, grows in order, every append ends |
| Approval tokens `approval.py` | registry of consumed tokens per process | issue, verify, verify and consume | pipeline, proxy | time read before the lock, pruning | one execution per token |
| Pending approvals and proxy `proxy/pending.py`, `proxy/upstream.py`, `proxy/downstream.py` | ledger file and pending calls | add, approve, reject, expire, reload | pipeline, operator | restarts, torn lines | an approved call executes at most once |
| Operator surface `proxy/operator.py`, `server.py` | CSRF tokens, sessions | list, decide | pending approvals | concurrent decisions | one decision per call |
| Gate pipeline `pipeline.py`, `gates/`, `types.py` | context of a call, taint and plan memory | evaluate, run, run after approval | all gates, audit | order, exceptions, asynchronous approval | a deny is never lost, every outcome is audited |
| File audit `gates/gate6_audit.py`, `audit/` | NDJSON chain, Merkle checkpoints, archives | append, anchor, archive, verify | pipeline | rotation, crash in mid-line | verify accepts exactly what append wrote |
| Resilience `resilience.py` | breaker state, counters | call, open, half open, close | downstream | half-open probes of several callers | bounded probes, breaker closes again |
| Governance `governance.py` | registry, quota counters | precheck, account | pipeline | counters under concurrency | limits hold |
| Policy `policy/layered.py`, `policy/monotonicity.py`, `policy/hot_reload.py` | baseline, tenant overlays, snapshot in force | load, check, swap, read | gates 2 to 4, the watcher thread | a reload between two reads of one call; the sha is of the files, the rules of the snapshot | overlays only tighten; every edit comes into force or is refused |
| Paid benchmark run `src/tools/remote-runner/supervisor.py`, `watchdog.sh`, `src/scripts/run_r2_r3_acceptance.py`, `src/bench/external/budget.py` | `state.json`, control flags, jobs' files, `budget-ledger.json` | gates, batches, jobs, model calls, breaker, halts | the provider, an operator, systemd, a watchdog | processes and the host die at any point, calls without a price, a lock that is a file | money stays within caps and after approvals; nothing is paid twice; the run ends or says why not |
| Control API, identity `control/api.py`, `control/oidc.py`, `identity.py` | JWKS cache | authenticate, route | service | key rotation | only verified principals act |
| Keys `control/crypto.py`, `key_provider.py`, `rewrap.py`, `reference/kms_api.py` | keyring | encrypt, decrypt, rewrap, sign authorizations | store, worker | rotation while effects are open | every effect stays decryptable |
| AIBOM `aibom/` | files | scan, rate, sign, drift | command line | none concurrent | signatures match |
| Detectors, SDK, integrations, console, workbench, other benchmarks, ranges, scripts | | | | | |

Not everything is modelled; section 7 says what is left and why.

## 2. Modules

| Module | Models |
|---|---|
| `EffectLifecycle` | the effect tables, the API request, people, time, workers and the business API together |
| `UndoPromise` | what all of that promises about one effect, without leases, workers, calls or tables |
| `AuditChain` | the two hash chains of a tenant under five kinds of appending transactions |
| `HashChain` | what a chain promises to its readers, without transactions, locks and caches |
| `ApprovalTokens` | approval tokens of one process, its threads and its clock |
| `LayeredPolicy` | a tenant's overlay over the baseline: what may be loaded, and what Gates 2, 4 and 3 decide under it (no state) |
| `GuardedCalls` | `ApprovalTokens` and `LayeredPolicy` composed: calls through the gates, blocked, approved and resumed, while the overlay is edited and reloaded |
| `PendingApprovals` | blocked calls, their ledger file, and the decisions on them across restarts |
| `BudgetLedger` | the ledger file that keeps a paid run within its budget |
| `PaidRun` | `BudgetLedger` inside the whole run: supervisor, orchestrator, jobs, operator, host and watchdog |
| `MC...` | constants of small instances for TLC |
| `...Proofs` | theorems about the module of that name, and their proofs (section 6) |

`GuardedCalls` extends `ApprovalTokens` and `LayeredPolicy`, and `PaidRun` extends
`BudgetLedger`; in both compositions every step of the whole is a step of the part or
leaves its variables alone, which is proved (`GuardedTokens`, `RunKeepsLedger`).
`EffectLifecycle` instantiates `UndoPromise` by a refinement mapping (`PromiseIsKept`), and
`AuditChain` instantiates `HashChain` (`Gate6Grows`).

### EffectLifecycle

`status`, `owner`, `leaseLive`, `retry`, `due` and `windowOpen` are columns of
`xa_effects`; the three Booleans stand for a comparison of a timestamp with
`now()`. `req` is `xa_undo_requests` by effect and idempotency key. `ticket` and
`cancelKey` are the business API's row. `api`, `pc`, `job` and `todo` are
control points and memories of processes. The undo window closes in a step only while
`request_undo` or `decide_undo` may still read it.

A transaction is one step. Between two transactions or calls of a process
anything may happen. The API request is `PrepareEffect`, then `CreateReplied` or
`CreateFailed`, then `CompleteEffect`, `RejectResult` or `ApiCrash`. A worker is
`SelectWork`, `ClaimWork` or `ClaimPassed`, `Authorize`, `CancelReplied` or `CancelFailed`,
then `CompleteWork` or `FailWork`, with `Heartbeat`, `HeartbeatLost` and `WorkerCrash` at
any point and `LeaseExpires` or `LeaseStalls` when nobody renews. After `run_once` it
scans the prepared rows (`ListPrepared`, `QueryEffect`, `ReconcileFound`,
`ReconcileMissing`, `ScanDone`).

One statement is two steps: `claim_work` picks its row by a snapshot of effects joined with
requests (`SelectWork`), and `FOR UPDATE OF e` waits for the effect row, reads that row
again and re-checks the condition (`ClaimWork`, or `ClaimPassed` when it no longer holds).
What it returns of the request is the snapshot's.

A call that times out may have had its effect, have none, or have it later:
`lateCreate` and `lateCancel` hold such calls and `LateCreate` and `LateCancel`
deliver them at any time. Time is a set of steps, one per timer, in any order.

Things the code does that the model keeps although they surprise:

- `request_undo` and `decide_undo` write `expired` and then raise inside the
  transaction, so the write is rolled back (`RefuseExpired` changes no row).
- `retry_failed` leaves `retry_count` alone, so a manual retry gets one attempt
  and no further automatic ones.
- A contract without delays gets 5/30/120 (`RetryDelays`), and a delay of 0
  stores a NULL that never comes due (`RetryDue`).
- A `ConflictError` of the reconciler ends the worker process
  (`ReconcileFound` goes to `stopped`, `WorkerRestart` follows).
- A heartbeat renews a lease that has already run out, unless it was taken.
- A claim that waits for its row while the undo fails and is retried by hand carries the
  older authorization of the same request. It is still an approved one, and of whoever
  asked at that time (`SnapshotIsCurrent`, `SeparationOfDuty`).

### UndoPromise

One variable per effect for the books (`phase`), one for the truth at the
business API (`ticket`), and who asked and who agreed. `EffectLifecycle` maps
its statuses to phases (`PhaseOf`) and its request rows to the one request the books
speak of (`RequestOf`); `approved`, `compensating` and `retry_wait` are one phase, so
claims, automatic retries and takeovers are stutters.

### AuditChain

`log` holds the records of a chain by `seq` with the hash they name and the
state of their transaction; the hash of record n is n. `tail` is the committed
`xa_chain_tails` row, `rowLock` and `advisory` are PostgreSQL's locks, `turn` the
asyncio locks of a process and `cache` its `_chain_tail_cache`. The five roles of
a writer are the five ways the code appends:

| Role | Code | asyncio lock | Locks | Predecessor |
|---|---|---|---|---|
| `event` | `_effect_event_conn` in a business transaction | none | advisory | last committed record |
| `note` | `_effect_event` | effect | advisory | last committed record |
| `effects` | `_persist_effect_mutations` | effect | tail row | tail row |
| `gate6` | `_flush_gate6` | gate6 | tail row | tail row |
| `audit` | the prepared and final CTEs, alone or two in one transaction | both | both tail rows | cache, checked against the rows |

A batch is one link, since its records are inserted by one statement.

`WaitsFor` and `CanGoOn` read off the guards what a writer waits for: a place in a queue of
its process, a connection, the advisory lock, a tail row. `Distance` is the order in which
the code takes these.

### HashChain

Two variables: the records a reader can see, each a hash and the hash it names, and the end
of the chain. A step makes a transaction visible: its records come after all that was
visible, in a row, the first one at the end. `AuditChain` maps the committed records and the
tail row of the Gate6 chain to them.

### ApprovalTokens

Threads of one process resume calls with tokens. `Check` reads the clock and
verifies; `Consume` is the locked section that prunes, refuses and remembers,
with the time `Check` read.

### PendingApprovals

`stage` says where a call stands; a call is in `_items` while it is `held`.
`file` is the ledger as `_load` reads it: the calls whose last readable event is
`pending_added`, and whether the last line is torn. `up`, `stage` and `recovered`
are the process; only `file` outlives it. `told`, `decided`, `refused` and `executed`
record what happened.

The proxy is one event loop and the store never awaits, so an operation is one
step. Every operation prunes first: `Stale` is what it takes out of memory and
`Swept` what that makes of the ledger. A write may fail, after part of the prune
(`PruneFails`) or in the operation's own line (`HoldFails`, `PopFails`), and the
process may die with any part of an operation written (`Die`). `Tear` leaves
nothing of a failed line or an unreadable beginning of it, which makes the next
line unreadable, too (`Line`).

`Hold` is `_call_tool` without an answer to an elicitation, `Ask` and `Answer` the
elicitation. `Approve` and `Reject` stand for `_approve_pending_approval` and for
`Operator.decide`, which do the same to the store. `RunAfterApproval` is the resume
with the token just issued, so it needs no registry of consumed tokens.

### LayeredPolicy

An overlay is a record (an *edition*) of what its files may say of one tool: rules by
id, a risk, a capability, patterns that compile or do not, and whether the files load
at all. `Monotonic` is the conjunction of the checks of `monotonicity.py`
(`RulesAreNew`, `RiskIsKept`, `CapIsKept`), and `Effective` what the layering makes of an
edition: itself, or the bare baseline when it is refused. `Risk`, `Cap`, `Sensitive`,
`RuleList` and `Compiled` are the getters the gates call, `Verdict` the decision under
one edition, and `Floor` the decision under the baseline alone. Rules match upward in
risk and taint, as those of `gate3_rules.yaml` do.

### GuardedCalls

`disk` is the overlay directory and stands for its sha as well; `snapshot` is the layer
in force. `Edit` is an operator, `Load` and `Swap` the two halves of `reload` (the files
are read before the lock is taken), `WatcherCrashes` the exception that ends the thread.
A call goes `Start`, `ReadRisk` (Gate 2), `ReadCap` (Gate 4), `Scan`, `ReadRules`,
`ReadSha`, `Judge` (Gate 3, where the predicates are read), `Conclude`. Each read of the policy source is a
step, because the source takes its lock for each one and the watcher may swap in between.
`engine` is the compiled engine of the rego backend, which is kept while the sha stays the
same. `Approve` signs a token for the sha of the files; `ResumeApproved`, the same reads
again, `Reverify` and `ConsumeAndExecute` are `run_after_approval`.

One caller is enough: the proxy is one event loop, and from the first gate to the
consumption of a token nothing awaits, so calls do not interleave with each other,
only with the watcher. Governance, provenance, Gates 1 and 5 and the outbound half of
Gate 4 can only refuse a call besides.

### BudgetLedger

Every model call reserves a fixed amount in one of four buckets before it is made, and is
settled when it is answered: `LockToReserve`, `ReserveCost` or `RefuseReservation`, `Answer`,
`LockToSettle`, `SettleCost`, and `AbandonCall` for a process that dies anywhere in between.
`lock` is a lock *file*: it outlives the process that made it. `ledger.known` and
`ledger.blind` are the two sums the code makes of its entries, `billed` what the provider
really charged.

What a call is settled at need not be what it costs. Without a price it keeps its
reservation and halts the ledger. A call that timed out or failed after some of its steps is
settled at their sum (`parse_opencode_usage`), and the step that was cut off may be charged
all the same: `IsShort` is such a price, and `cut` counts such calls, bucket by bucket.

### PaidRun

`state` and `control` are the supervisor's files, `job` those of the jobs, and `ledger` and
`lock` those of `BudgetLedger`; all else is memory of processes (`sup`, `orch`, `child`) and is
lost with them (`PowerLoss`, `WatchdogRestart`, `StopCommand`). A step is
what lies between two writes of files: a gate's flag is consumed (`ConsumeGate`) before the
phase is saved (`SavePhase`), and a job's result is written by the job's own process before
the orchestrator records the attempt (`RecordAttempt`).
`BatchComplete`, `BatchOk`, `BatchFailed`, `BatchBlocked`, `QuotaPause` and `BatchCrashed`
are what the supervisor does with each exit of a batch, its breaker included. An orchestrator
that is killed by a signal (`OrchestratorCrashes`) counts as a crash; one that raises
(`OrchestratorRaises`) exits with 1 and is taken for a batch with failed jobs. While
`control.changed`, the config is not the one the plan was made of: each paid batch raises, and
each free command fails, until it is put back (`ConfigChanges`, `ConfigRestored`). `fresh` is
a history variable: the jobs that failed for good within the breaker's window.

## 3. Runs

| Run | Instance | Shows |
|---|---|---|
| `effect_safety` | 1 effect, 2 keys, 2 people, 2 workers, 1 automatic and 1 manual retry, 1 fault, 1 crash or stall, claims whose snapshot is older than their lock | types, leases, tables, separation of duty, tickets, memories, retries, intents; no live lease is taken, settled rows stay; `UndoPromise` is implemented |
| `effect_liveness` | 1 effect, 1 key, 1 worker, 1 automatic and 1 manual retry, 2 faults, 2 crashes | approved undos and open intents come to an end through repeated failures |
| `effect_expiry` | 1 effect, 1 worker | violated: `expired` is never stored |
| `chain_safety` | a Gate6 flusher, an audit flusher and undo events on 2 processes with 1 connection each, 2 records a chain, 2 aborts or deaths | the Gate6 chain implements `HashChain`, on both chains no record hangs on a hash that is not there, nobody waits in a circle, every append ends |
| `chain_fork` | an event and a batch of effects, 2 records | violated: the Effect chain forks |
| `guarded_calls` | 2 calls, 1 caller, 1 token, 5 editions, 2 edits, both backends, 2 ticks, lifetime 1 | nothing is executed below the baseline's floor, the overlay on disk is in force once the watcher has settled, every edit takes effect |
| `guarded_approval` | the same with 3 editions and the python backend | violated: a token is accepted under a policy that was not in force when the person approved |
| `tokens_once` | 3 threads, 2 tokens, 4 ticks, lifetime 2 | while it is valid a token executes once, whatever stands between a thread's look at the clock and its lock |
| `tokens_replay` | 3 threads, 2 tokens, 4 ticks, lifetime 2 | violated: a second execution at the moment of expiry |
| `pending_safety` | 3 calls, one that the ledger cannot keep whole, 2 deaths, 1 failed write, 2 torn lines | one execution or refusal per call, and one more for each torn line; one broken promise for each torn line; incomplete calls execute at home, once |
| `pending_replay` | the same with 1 torn line | violated: a torn line swallows a removal, the call executes again |
| `paid_run` | 3 jobs, 4 buckets with room for one call, in `r3_main` for three, prices below and above the reservation, every threshold 2, 1 fault, 1 death, 1 cleared halt | caps, bill, approvals, results and halts hold; a burst halts; the run ends, halts, or stays in a phase for a job that failed for good or for a changed config |

Why these bounds. Effects do not interact in the database (claims skip locked
rows, and a reconciler's rows are independent), so one effect with two workers
shows what races for a row can do; the theorems cover any number. Two keys are the
least for two requests for one effect. One crash is enough for a takeover, by the other
worker or by the same one. One automatic delay and one manual retry reach every combination of
the two, since later retries repeat the cycle. Liveness is checked with one
worker, which takes its own row over when it is restarted, and so has room for two faults and
two crashes: enough to use up the automatic retry, fail, and crash again after the manual one.
A second worker only adds another that may take a row; what two of them do to each other is
`effect_safety` and the theorems. For the chains, two records allow an
append that follows another one, or an abort, on each chain; two processes allow stale
caches, and a pool of one the wait for a connection while a lock is held. For tokens, a
third thread is needed to prune while two others race, a lifetime of 2 separates "valid"
from "about to expire", and 4 ticks go past every expiry. For guarded calls, two edits
allow one before and one during a reload or a call, and an edit that is undone; the
editions are one of each kind: none, one that tightens by rules and a limit, one by risk
with broken patterns, one that is refused, and one that does not load. For pending calls,
the second death comes after a recovery; one failed or torn line is enough to part the
ledger from the memory, a second torn line shows that each one counts once, and three calls
let a prune remove two and fail between them. For
the paid run, one job in each bucket, two tries of a turn and two attempts of a job are the
least at which a retry, a second batch and a failure for good exist; a cap of one
reservation makes a bucket refuse, and one of three lets a call be cut off, or cost more than
its reservation, and others follow. A fault is an answer without its price or with a part of
it, a refused quota, a drifted lock, a changed config, a sample that is not affordable, an
exception, or the first of a row of crashes: the rest of the row is free, so that the crash
loop is reached.

Named bounds: `MaxRenewals`, `MaxFaults`, `MaxCrashes` (effects), `MaxRecords`, `MaxAborts`
(chains), `MaxClock`, `MaxAccepts` (tokens), `MaxEdits` (overlays), `MaxDeaths`, `MaxFaults`,
`MaxTears` (pending), `MaxTurns`, `MaxFaults`, `MaxDeaths`, `MaxRevives` (paid run; its
`MaxTries`, `MaxAttempts` and thresholds are parameters of the code). Symmetry is used in
`effect_safety`, the pending runs and those of the tokens, which check no liveness. Deadlock is
checked in the effect runs; elsewhere it is switched off because appends, edits and the clock
stop at their bounds, all calls may be over, and a paid run may be sealed or halted.

Every property of a passing run has a mutant in `PROJECT.json`: a mistake in one
definition, written next to it with the suffix `Defect`, under which TLC finds
the property violated.

## 4. Fairness

`EffectLifecycle!Fairness`: an API request that got its answer goes on (its task is
scheduled), a lease nobody renews runs out, a retry delay ends, and each worker
keeps taking steps, a restart included (`restart: unless-stopped` in Compose, a
Deployment in Helm). Nothing obliges people to ask or approve, late calls to
arrive, assignments to be granted or a failed call to be answered. A worker's
fairness is weak and for the worker as a whole: the code gives no more.

`AuditChain!FairSpec`: strong fairness of the steps that wait for something.
asyncio locks, the asyncpg pool and PostgreSQL's lock queues serve in order of
arrival, so a waiter is passed over only finitely often. Steps that wait for
nothing have weak fairness.

`GuardedCalls!GuardFairSpec`: the watcher is a thread and goes on with a reload it can make
(`Load`, `Swap`). Nothing obliges operators to edit or approve, or callers to call;
`EditsTakeEffect` allows for a watcher that died.

`PaidRun!Fairness`: each process goes on, since the provider answers or a timeout ends the
call; systemd restarts the supervisor (`Restart`); the operator opens each gate in the end,
which is the purpose of the run. Nobody is obliged to clear a halt or to put a changed config
back. The watchdog may kill
live batches, as often as `MaxDeaths` allows: without a bound it could do so for ever, see
section 5.

## 5. What the checks found

1. **`expired` is never stored** (`effect_expiry`). The architecture document draws
   the state (`src/docs/architecture/agent-identity-and-undo.md:55`).
   `request_undo` (`control/store.py:1520`) and `decide_undo`
   (`control/store.py:1618`) write it and raise `ConflictError` inside the same
   transaction, which rolls it back.
2. **The Effect chain forks** (`chain_fork`). The same document (line 61) says the
   advisory lock is the final point of mutual exclusion.
   `_effect_event_conn` takes only that lock; the batching paths take only the
   tail row. An undo event and a batch of effects of one tenant, even in one
   process, name the same predecessor. It takes both kinds of locks: a chain whose writers
   all lock its tail row, or all take the advisory lock, never forks (`OneKindNeverForks`).
   The Gate6 chain is one.
3. **A token executes twice at its expiry** (`tokens_replay`). `verify_approval`
   accepts up to and including `expires_at`; the registry of consumed tokens
   forgets at `expires_at <= checked_at`, with a time read before the lock.
4. **A torn line lets an approved call execute twice** (`pending_replay`).
   `_append_event` (`proxy/pending.py:381`) appends to whatever the file ends with; the line
   after a torn one is skipped by `_load` with it. If it is a `pending_removed`, the
   call is pending again after a restart, can be approved again and gets a new token.
   The work log says that approving again does not execute again
   (`src/src/xa_guard/proxy/.log/worklog.md:42`), and so does a test's name
   (`src/tests/unit/test_pending_ledger.py:139`). Without torn lines it is true (`WholeLedger`),
   and each torn line buys a call at most one more execution (`OutcomesAreCounted`).

5. **A token is accepted under a policy nobody approved it for** (`guarded_approval`). A token is
   bound to `effective_bundle_sha`, which hashes the files as they are now
   (`policy/layered.py:442`, `pipeline.py:97`), while the gates judge by the snapshot. Who approves
   between an edit and its reload approves what the old policy asked, and the token holds
   under the new one. The comment at `pipeline.py:465` says "under the exact same bound
   policy/context". Nothing falls below the baseline that way (`NothingBelowFloor` is proved).

What else came up while modelling. Each point follows from the modelled code and no
run is spent on it:

- The watchdog judges by `health.json`, which nothing writes while a batch runs
  (`run_logged`): a batch longer than its patience is killed and restarted.
- The ledger's lock file outlives a process that dies holding it. From then on every
  reservation times out and the run halts as `budget_exhausted`, also after the halt is
  cleared, until somebody deletes the file (`ExhaustedHasACause` names the three causes).
- A call that comes back without a price halts the ledger for good.
- A quota pause, an exhausted budget or a crash of the orchestrator resets the attempts of
  the job at hand, so `MaxAttempts` bounds consecutive failures only.
- When only jobs that failed for good are left, the phase loops without an alert
  (`RunEnds` needs that disjunct).
- An uncaught exception of the orchestrator exits with 1, which the supervisor takes for a batch
  with failed jobs (`supervisor.py:549`): crashes count from nothing again, and the breaker sees
  that nothing ran. A config that was changed raises in every batch
  (`run_r2_r3_acceptance.py:1182`), and the phase loops without a halt until it is put back
  (`RaisesEachTime`, the other disjunct of `RunEnds`). The runner's README (line 117) says that
  a changed config is exit 3, a failed lock, and the comment at `supervisor.py:579` expects
  uncaught exceptions there.
- A call that timed out or failed is settled at what its finished steps cost, and the ledger goes
  on (`opencode_bridge.py:188`, `:237`, `:260`). `src/log.md:1964` says that a timeout fails
  closed as a call without a price, which holds only of one without any finished step. The
  budget that is "absolutely not exceeded" (`src/docs/acceptance/R2-R3矩阵自动验收使用说明.md:208`)
  may so be exceeded by what one call costs for each such call (`OnlyCutsExceed`).
- Old failures count as a burst. `run_phase_batches` reads the state, lets `breaker_check` read,
  mark and save it, and then saves its own older copy over it (`supervisor.py:554`). Jobs that
  failed days apart look new each time, and two of them halt the run; the runner's README
  (line 38) says two within 30 minutes. No burst is missed that way (`BurstHalts`), and two
  jobs did fail for good (`BurstsAreFailures`).
- An approval flag that is consumed by a process that dies before it saves the phase is
  lost, and must be given again.
- Gate 3's rego engine is replaced when the sha changes; between an edit and its reload it
  is compiled from the old rules under the new sha, and stays (`src/log.md:2911` and the
  README, line 276, take the sha as the policy's identity). Audit records name that sha, too.
- A call may read risk from one snapshot and rules from another. It never falls below the
  baseline, but an edit that renames a rule can let a call through that both the old and
  the new overlay deny.
- Patterns that do not compile are replaced by the built-in list, baseline included
  (`policy/layered.py:229`); `src/docs/delivery/CODE-MAP.md:27` says that the baseline cannot be
  weakened. `Floor` counts only the patterns that both lists have for this reason.
- An overlay that is refused is dropped, where `policy/monotonicity.py:28` speaks of keeping the
  old version; and the checks do not look at the taint of outputs.
- An exception in the watcher ends its thread silently: edits no longer arrive.
- In the store: one bad item of a batch fails the whole batch (`control/store.py:542`);
  `mark_prepared_manual` writes row and event in two transactions (`:1439`); a claim and the
  audit flusher lock rows and tails in opposite orders, which PostgreSQL resolves by an abort
  (`:1674`); a retry delay of 0 stores NULL (`:1745`); staged pre-audit records are lost with
  their process (`:1909`).

## 6. Proofs

Proved for every value of the constants that satisfies the named assumption of
the module: `ConstantsAssumption`, `TokensAssumption`, `PendingAssumption`,
`ChainAssumption`, `PolicyAssumption`, `CallsAssumption`, `LedgerAssumption`,
`PaidRunAssumption`. They say that SQL NULL is no subject and `Api` no worker, that
delays, caps, prices and lifetimes are numbers in their ranges, that identifiers of
different kinds differ, that jobs belong to one manifest and are finitely many, and that
rules and editions are well formed. TLC evaluates them in each run.

Every safety invariant and action property of a passing run is proved, and so is the
refinement of `UndoPromise`. What is proved of no instance but by TLC: the liveness
properties (`ApprovedIsSettled`, `PreparedIsSettled`, `EveryAppendEnds`, `EditsTakeEffect`,
`RunEnds`), which with ENABLED are out of TLAPS's reach, as are induction over data and
RECURSIVE operators, of which there are none.

**EffectLifecycleProofs**

- `TypeCorrect`: `Spec => [](TypeOK /\ Memory)`. `Memory` says that a worker past
  its claim holds an effect and a key that exist; without it
  `status[job[w].effect]` has no known type, so `TypeOK` alone is not inductive.
- `LeaseIsStatus`: `LeaseMatchesStatus` is inductive relative to the types. This is
  the reason why `complete_work` and `fail_work` may check the owner alone.
- `LeasesAreKept`: from the same invariant: each action either leaves an owner alone,
  clears it, or sets it where no lease is live.
- `DutiesAreSeparate`: strengthened by the facts that rows of requests move only along
  their life (requested, decided, closed, renewed), and that a worker on its way to a
  cancel call, or such a call under way, stands for an approved request.
- `CompensationIsReal`: strengthened by "a worker that saw a success saw its own
  cancellation", which nothing can undo, because a cancelled ticket never changes.
- The rest goes row by row. `MovesOfStep` shows that in one step the rows of one effect
  at most make one of nine moves (`RowMoves`: begins, settles, is asked for, decided,
  renewed, claimed, done, fails, stays); `MovesOfTickets` does the same for tickets.
  From those follow `TablesStayTogether` and `SettledIsFinal`; `OwnersAreCurrent`
  (`SnapshotIsCurrent`) in two halves: whoever holds a row or a snapshot of it stands for an
  authorization that was given (`HoldersAreAuthorized`, since authorizations only grow,
  `AuthorizationsGrow`), and an owner's count is the row's (`OwnersCount`, since the lock
  reads it again and whatever changes it takes the row from its owner);
  `RetriesAreSpentOnce`, since the counter a worker reports is the one it claimed; and
  `IntentComesFirst`, since whoever settles an effect knows of its ticket (`IntentOn`).
- `PromiseIsKept`: `Spec => KeepsPromise`. Each row move is a move of `UndoPromise` or none;
  a ticket moves alone and is its `Happen` or `Undo`. This needs most of the above: an offer
  needs a ticket that nobody cancelled (intents and signed calls), an undo needs an
  approval that still stands (tables and success), a report needs a cancellation.

**ApprovalTokensProofs**

- `TokensTypeCorrect` and `TokensExecuteOnce` (`OnceWhileValid`), from an invariant that
  says: times threads remember are not in the future, a held token was issued, and a token
  that was accepted is in the registry for as long as it is valid. The last one holds
  because pruning compares with a time that is not later than the clock.
- `PromptCallersExecuteOnce`: what remains of `OnceEver` (item 3 of section 5): if no caller
  consumes a token at its expiry or later, a token executes once, whatever the clock does
  afterwards. Only the wait between reading the clock and the lock can break the promise.

**LayeredPolicyProofs**

- `OverlayOnlyTightens`: whatever passes the monotonicity checks, `Verdict(k, e) >= Floor(k)`.

**GuardedCallsProofs**

- `GuardedTokens`: the composition implements `ApprovalTokens`; `GuardedOnce` is then
  `TokensExecuteOnce`; TLC checks the race of threads in `tokens_once`.
- `GuardTypeCorrect`; `SettledIsInForce`, from "what a reload has loaded is what is on disk, or
  changes are pending".
- `FloorHolds` (`NothingBelowFloor`), although reads come from different snapshots. The
  invariant says that every snapshot in force or on its way is sound (`PolicyIsSound`), that
  the rules of a kept engine contain the baseline's (`EngineIsGrounded`), and, stage by
  stage, that what a call has read so far is no weaker than the baseline's reading
  (`CallIsCovered`). It is the upward closure of rules that lets readings of different
  snapshots be combined.
- `OrderlyApprovals`: what remains of item 5 of section 5. If overlays are edited only while no
  resumed call is in the gates, and calls are approved and resumed only when the last edit
  is in force (`Orderly`, a discipline the code does not enforce), a token that a call needs was
  given under the policy the call was judged by. `Agreed` says why: a quiet policy is told by
  its hash, and a call on its way keeps the policy quiet.

**PendingApprovalsProofs**

- `TypeCorrect`: the types, after lemmas on what a prune, a line and a failed line
  make of the ledger (`SweptFile`, `LineFile`, `FailedFile`), which all proofs share.
- `VolatileCallsRunAtHome`: for any number of torn lines. The invariant `Home` says that a
  call which was never held is in no ledger, that what is held and not recovered has not
  run, that an approved call may run (`MayRun`), and that memory is empty while no
  process is up.
- `OutcomesAreCounted` (`OneOutcome`): the invariant `WorthBound` adds up what a call is worth:
  the executions and refusals it had, one that an approval, the memory or the ledger may
  still bring, and one for a ledger that ends in a torn line, since the next line, a removal
  perhaps, is lost with it. No step but the tearing of a line adds to the sum. That the
  ledger counts and not the memory alone is what makes it inductive: a dead process brings
  back what is in the ledger.
- `PromisesAreCounted` (`PromisePerTear`): only a call that is held behind a torn line breaks a
  promise (`BrokenStep`), and that line is then no longer at the end.
- `WholeLedger`: what remains of the two claims of item 4 in section 5 while no line is torn.

**AuditChainProofs**

All follow from one invariant, `ChainInv`, of five parts: the types; `Locks` (who holds a
tail row or the advisory lock is in a transaction that needs it, and who is done holds
none); `Turns` (the same of asyncio locks, which are taken in order); `Standing` (what records, tails
and readers hang on is committed, or of the same transaction); and `OneAtATime`, which says of
every chain whose writers are of one kind that one transaction at most has open records,
that these are a row after what is committed, and that its holder knows the last hash.

- `ChainInvariant`, `ChainTypeCorrect`, `LinksStand`.
- `OneKindNeverForks`, for any chain of one kind (`OneKind`), and `Gate6NeverForks`, its instance.
  The Effect chain mixes kinds, which is what `chain_fork` shows.
- `Gate6Grows`: `AuditChain` refines `HashChain`. A step that commits shows what its transaction
  appended, which `OneAtATime` puts in a row at the end; any other step is a stutter.
- `NobodyWaitsInACircle`: whoever cannot go on waits for writers at work, and these are nearer
  to their end (`Distance`). `SomebodyCanGoOn`: so while any of them is at work, what one of
  them needs next is free. `CanGoOn` repeats the guards of its next step, since ENABLED is out
  of reach, and that every append ends under fairness (`EveryAppendEnds`) is left to TLC.

**BudgetLedgerProofs and PaidRunProofs**

- `LedgerTypeCorrect`, `LedgerCaps` (`CapsHold`), `LedgerKnowsBill` (`LedgerCoversBill`), from
  `LedgerInv`: a call past its reservation is one of the blind entries of its bucket, and
  the bill is covered bucket by bucket: by settled prices and, for each reservation that
  stands and each call that was cut off, by the most a call may cost.
- `LedgerBoundsBill`: from both, the provider charges a bucket no more than its cap and, for each
  reservation that stands and one call more, what a call may cost above its reservation, and
  for each call that was cut off what a call may cost.
  `EnoughReserved` and `RunExceedsByCutsOnly`: with `MaxCost <= Reserve` only the calls that
  were cut off remain: a bucket none of whose calls was cut off stays within its cap. Nothing in the code checks that hypothesis; the log asks a person to review it
  before a paid run (`src/log.md:1971`), and the runs use prices on both sides of it.
- `RunKeepsLedger`: `PaidRun` implements `BudgetLedger`, so `RunHoldsCaps` and `RunKnowsBill` follow.
- `RunTypeCorrect`, `ApprovalComesFirst`, `ResultsComeFirst`, `ResultsArePaidOnce`, `HaltsHold`,
  `ExhaustionIsReal`, `TerminalIsTerminal`, `BurstsHalt`, `BurstsAreFailures`, from `RunInv`: processes are nested
  (`Nested`) and belong to the phase (`OfThePhase`), a batch holds only jobs worth running
  (`Worth`), a phase that is over has its results (`ResultsAreIn`), its gates are used (`GatesAreUsed`)
  and nothing was billed before (`PaidAfterApproval`), a blocked exit has a cause on record
  (`CauseIsKnown`), and what the breaker remembers has failed for good (`FreshIsSeen`). The last theorem is
  what remains of the runner's claim about bursts: one may be an old one counted again, but as
  many jobs as that did fail for good.

Each proof has a step per action and cites only the definitions it needs.

## 7. What is not modelled

- Cryptography, hashing and canonical JSON: a hash is an opaque value, a
  signature is right or the step fails.
- Most of the repository by lines is user interface, benchmarks, ranges and acceptance
  scripts without shared state; the map covers the control plane's core, the proxy's
  approvals, the policy layers and the paid run.
- The SQL of listings, exports and migrations.
- A statement other than the claim is one step.
- The ages of rows, and so the order in which `claim_work` and `list_prepared` pick them: any
  eligible row may be next, and any `ListLimit` rows (20 in the code) may be listed. The
  theorems hold for every limit; TLC's instances have one effect, and do not show whether
  20 intents whose lookup always fails hide the younger ones.
- A transaction of `AuditChain` that locks both tail rows does so in one step, as one
  statement of the code does; in which order it takes the two is not told apart.
- Locks on effect rows in `AuditChain`: their deadlocks with tail rows are the
  `Abort` action, as PostgreSQL ends them.
- In `EffectLifecycle`, whatever the gates decide inside the pipeline that runs around a
  call: `Authorize` and `CancelFailed` may fail for any reason.
- In `GuardedCalls`: other tenants, the
  fallback for rego bundles that do not compile, trigger lists, and what only refuses
  (governance, provenance, Gates 1 and 5, the outbound half of Gate 4). An edition stands for
  all the files of an overlay.
- In `PaidRun`: the seal itself, the pause command, the planning commands, the order of the
  manifest and the arithmetic of the samples; a write of a state file that fails, and an
  orchestrator that is killed alone while the process of its job goes on; the clock, cooldowns and quota windows are
  delays before the next step.
- The bytes of the pending ledger: a torn line is never a complete event (it would need
  only the newline to be missing), what a process wrote survives it (there is no `fsync`, so
  a power failure may lose more), and a line torn within a multi-byte character, which keeps
  `_load` from reading anything, is left out. One proxy per ledger: sharing it is a
  documented gap (`src/docs/evidence/l3-hitl-pending-approval-2026-06-18.md:83`).
- The operator's session, tenant and separation-of-duty checks: they refuse without
  changing anything.
- The components that have no module yet; `PROJECT.json` gives a reason for each.
  User interfaces, benchmarks, ranges and acceptance scripts stay out.

## 8. Plan

Done: `EffectLifecycle`, `UndoPromise`, `AuditChain`, `ApprovalTokens`, `PendingApprovals`,
`LayeredPolicy`, `GuardedCalls`, `BudgetLedger` and `PaidRun`, each with its proofs, the
refinements and compositions between them included. In order of importance, what is left:

1. The ages of rows, for the order in which `list_prepared` and `claim_work` pick them.
2. `EffectAudit`: staged pre-audit, batches of prepare and complete, the events written in
   separate transactions; composes rows and chains; property: a settled effect has its
   events, in order.
3. `PendingApprovals` composed with `ApprovalTokens`, where a replayed request meets the registry.
4. `GatePipeline`: exceptions of gates, the audit of every outcome, taint and plan memory.
5. `Resilience` (half-open probes), `FileChain` (rotation and a crash in mid-line),
   `Rewrap` (rotation while effects are open), `JwksCache`, governance quotas, and
   `MerkleTree`, a pure algorithm checked against a reference definition.
