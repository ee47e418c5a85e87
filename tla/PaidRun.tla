------------------------------- MODULE PaidRun -------------------------------
(***************************************************************************)
(* An unattended benchmark run that costs money: supervisor.py moves       *)
(* through its phases and starts batches of run_r2_r3_acceptance.py, which *)
(* runs one job at a time, whose model calls are paid from BudgetLedger.   *)
(* An operator opens the three gates and clears halts.  The host loses     *)
(* power, a watchdog restarts what looks stuck, calls fail, and everything *)
(* but the files is lost with the processes.                               *)
(*                                                                         *)
(* A batch takes any of the pending jobs: the manifest fixes an order that *)
(* no property depends on.  Waiting for the clock, the network, a cooldown *)
(* or a quota window is a delay before the next step.                      *)
(***************************************************************************)
EXTENDS BudgetLedger, FiniteSets, Functions

CONSTANTS
  CalibrationJobs, R2Jobs, R3Jobs,  \* the jobs of the two manifests
  MaxTurns,      \* bound: model turns of one job
  MaxTries,      \* max_turn_retries: calls for one turn
  MaxAttempts,   \* max_job_resume_attempts
  MaxJobs, ReducedJobs,             \* batch sizes
  TerminalMax, AtRiskMax, BadMax, CrashMax,  \* thresholds of the breaker
  MaxFaults,     \* bound: answers without a price or with a part of it, quota refusals,
                 \* orchestrators that raise or start to crash, drifted locks, changed configs,
                 \* budgets that do not reach
  MaxDeaths,     \* bound: power losses and restarts under way
  MaxRevives     \* bound: halts an operator clears

Jobs == CalibrationJobs \cup R2Jobs \cup R3Jobs
Gates == {"calibration", "freeze", "main"}

ASSUME PaidRunAssumption ==
  /\ Buckets = {"calibration", "r2_main", "r3_main", "retry"}
  /\ IsFiniteSet(Jobs)
  /\ CalibrationJobs \cap (R2Jobs \cup R3Jobs) = {} /\ R2Jobs \cap R3Jobs = {}
  /\ None \notin Jobs
  /\ {MaxTurns, MaxTries, MaxAttempts, MaxJobs, ReducedJobs} \subseteq Nat \ {0}
  /\ {TerminalMax, AtRiskMax, BadMax, CrashMax} \subseteq Nat \ {0}
  /\ {MaxFaults, MaxDeaths, MaxRevives} \subseteq Nat

VARIABLES
  state,      \* the supervisor's state.json: phase, batch size, terminal_seen
  control,    \* what the operator can touch: gate flags, used flags, HALT.json, and
              \* whether the local config is another than the plan was made of
  sup,        \* the supervisor process
  orch,       \* the orchestrator process
  child,      \* the process that runs one job
  job,        \* jobs/<id>/state.json and result.json
  priced,     \* calibration jobs with a settled entry in the ledger
  stale,      \* health.json is older than the watchdog's patience
  fresh,      \* jobs that became FAILED_TERMINAL within the breaker's window
  count       \* what the bounds count

runVars == <<state, control, sup, orch, child, job, priced, stale, fresh, count>>
vars == <<runVars, ledgerVars>>

PaidPhases == {"CALIBRATION", "MAIN"}
Commands == {"FREEZE", "AGGREGATE", "VERIFY"}
Phases == PaidPhases \cup Commands \cup {"READY", "CALIB_DONE", "FROZEN", "MAIN_DONE", "AWAIT_SEAL"}
Statuses == {"none", "infra_error", "FAILED_TERMINAL", "NOT_RUN_BUDGET",
             "PAUSED_PROVIDER_QUOTA", "complete"}
Exits == {"", "complete", "ok", "failed", "budget", "drift", "quota", "crash"}
Halts == {"none", "failed_terminal_burst", "infra_error_pileup", "bad_batch_streak",
          "budget_exhausted", "execution_lock_failed", "crash_loop",
          "freeze_inconclusive", "freeze_failed", "aggregate_failed", "verify_failed"}
SupervisorPlaces == {"down", "loop", "save", "command", "batch"}

Down == [at |-> "down", to |-> "READY", bad |-> 0, crashes |-> 0]
Awake == [Down EXCEPT !.at = "loop"]
NoBatch == [at |-> "none", left |-> {}, rest |-> {}, ran |-> 0, failed |-> 0,
            terminal |-> FALSE, exit |-> ""]
NoChild == [job |-> None, turn |-> 0, try |-> 0, said |-> "", code |-> ""]

TypeOK ==
  /\ LedgerTypeOK
  /\ state \in [phase : Phases, wide : BOOLEAN, seen : [Jobs -> {"no", "recent", "old"}]]
  /\ control \in [armed : SUBSET Gates, used : SUBSET Gates, halt : Halts, changed : BOOLEAN]
  /\ sup \in [at : SupervisorPlaces, to : Phases, bad : Nat, crashes : Nat]
  /\ orch \in [at : {"none", "next", "running", "done"}, left : SUBSET Jobs,
               rest : SUBSET Jobs, ran : Nat, failed : Nat, terminal : BOOLEAN, exit : Exits]
  /\ child \in {NoChild} \cup
       [job : Jobs, turn : 1..MaxTurns, try : 1..MaxTries, said : {"", "ok", "bad", "quota"},
        code : {"", "ok", "fail", "budget", "quota"}]
  /\ job \in [Jobs -> [status : Statuses, attempts : 0..MaxAttempts, result : BOOLEAN]]
  /\ priced \in SUBSET CalibrationJobs
  /\ stale \in BOOLEAN
  /\ fresh \in SUBSET Jobs
  /\ count \in [faults : 0..MaxFaults, deaths : 0..MaxDeaths, revives : 0..MaxRevives]

Init ==
  /\ LedgerInit
  /\ state = [phase |-> "READY", wide |-> TRUE, seen |-> [j \in Jobs |-> "no"]]
  /\ control = [armed |-> {}, used |-> {}, halt |-> "none", changed |-> FALSE]
  /\ sup = Down /\ orch = NoBatch /\ child = NoChild
  /\ job = [j \in Jobs |-> [status |-> "none", attempts |-> 0, result |-> FALSE]]
  /\ priced = {} /\ stale = FALSE /\ fresh = {}
  /\ count = [faults |-> 0, deaths |-> 0, revives |-> 0]

Fault == count.faults < MaxFaults /\ count' = [count EXCEPT !.faults = @ + 1]
------------------------------------------------------------------------------
(* One job: its model turns, each with its tries.                           *)

PhaseJobs(p) == IF p = "CALIBRATION" THEN CalibrationJobs ELSE R2Jobs \cup R3Jobs

MainBucket(j) ==
  IF j \in CalibrationJobs THEN "calibration" ELSE IF j \in R2Jobs THEN "r2_main" ELSE "r3_main"

\* budget_bucket_for_attempt.
BucketOf(j, try) == IF try = 1 THEN MainBucket(j) ELSE "retry"

Calling == child # NoChild /\ child.code = ""

ExitsWith(code) == child' = [child EXCEPT !.code = code, !.said = ""]

\* The lock file of a dead process: reserve_cost gives up after ten seconds.
LockTimesOut ==
  /\ Calling /\ call = Idle /\ lock
  /\ ExitsWith("budget")
  /\ UNCHANGED <<ledgerVars, state, control, sup, orch, job, priced, stale, fresh, count>>

BeginCall ==
  /\ Calling /\ LockToReserve(BucketOf(child.job, child.try))
  /\ UNCHANGED runVars

Reserved ==
  /\ ReserveCost
  /\ UNCHANGED runVars

Refused ==
  /\ RefuseReservation
  /\ ExitsWith("budget")
  /\ UNCHANGED <<state, control, sup, orch, job, priced, stale, fresh, count>>

\* The call came back, with a response or without, and with its price or without.
\* One that timed out or failed has no response, and its price is what the steps it
\* had finished cost.  One that reads like a quota refusal before its first step is
\* settled at nothing.
CallReturns(cost) ==
  /\ \/ \E said \in {"ok", "bad"} :
          /\ child' = [child EXCEPT !.said = said]
          /\ \/ Answer(cost, cost) /\ UNCHANGED count
             \/ Answer(cost, None) /\ Fault
     \/ /\ \E price \in Prices : IsShort(cost, price) /\ Answer(cost, price)
        /\ child' = [child EXCEPT !.said = "bad"]
        /\ Fault
     \/ /\ 0 \in Prices /\ Answer(cost, 0)
        /\ child' = [child EXCEPT !.said = "quota"]
        /\ Fault
  /\ UNCHANGED <<state, control, sup, orch, job, priced, stale, fresh>>

BeginSettle ==
  /\ LockToSettle
  /\ UNCHANGED runVars

\* Jobs with a settled entry once this call is settled.
PricedNow ==
  IF call.bucket = "calibration" /\ call.price # None THEN priced \cup {child.job} ELSE priced

\* settle_cost, and what the caller makes of the response.  The last turn writes
\* result.json.
Settled ==
  /\ SettleCost
  /\ priced' = PricedNow
  /\ \/ /\ child.said = "ok" /\ child.turn < MaxTurns
        /\ child' = [child EXCEPT !.turn = @ + 1, !.try = 1, !.said = ""]
        /\ UNCHANGED job
     \/ /\ child.said = "ok"
        /\ job' = [job EXCEPT ![child.job].result = TRUE]
        /\ ExitsWith("ok")
     \/ /\ child.said = "bad" /\ child.try < MaxTries
        /\ child' = [child EXCEPT !.try = @ + 1, !.said = ""]
        /\ UNCHANGED job
     \/ /\ child.said = "bad" /\ child.try = MaxTries
        /\ ExitsWith("fail")
        /\ UNCHANGED job
     \/ /\ child.said = "quota"
        /\ ExitsWith("quota")
        /\ UNCHANGED job
  /\ UNCHANGED <<state, control, sup, orch, stale, fresh, count>>
------------------------------------------------------------------------------
(* One batch: run_jobs.                                                     *)

\* Defect: only the word in the file makes a job terminal or complete.
IsDoneDefect(j) == job[j].status = "complete"

\* _result_matches.
IsDone(j) == job[j].result

Counted(j) == IF job[j].status = "infra_error" THEN job[j].attempts ELSE 0

\* Defect: the number of attempts alone decides, and a terminal job has none left to count.
IsTerminalDefect(j) == Counted(j) >= MaxAttempts

IsTerminal(j) == job[j].status = "FAILED_TERMINAL" \/ Counted(j) >= MaxAttempts

Pending(p) == {j \in PhaseJobs(p) : ~IsDone(j) /\ ~IsTerminal(j)}
Terminal(p) == {j \in PhaseJobs(p) : ~IsDone(j) /\ IsTerminal(j)}

Ended(exit) == [orch EXCEPT !.at = "done", !.left = {}, !.rest = {}, !.exit = exit]

\* The batch is the first max_jobs pending jobs.
Batch(p, width) ==
  {[NoBatch EXCEPT !.at = "next", !.left = left, !.rest = Pending(p), !.terminal = Terminal(p) # {}] :
     left \in {s \in SUBSET Pending(p) :
                 \/ Cardinality(s) = width
                 \/ s = Pending(p) /\ Cardinality(s) < width}}

\* Defect: a phase is over when nothing is left to try.
StartedDefect(p, width) ==
  IF Pending(p) = {} THEN {Ended("complete")} ELSE Batch(p, width)

\* Without pending jobs, nothing is run: the phase is complete, or it failed.
Started(p, width) ==
  IF Pending(p) = {} THEN {Ended(IF Terminal(p) = {} THEN "complete" ELSE "failed")}
  ELSE Batch(p, width)

\* _write_not_run_budget: jobs without a state file.
NotRun(S) ==
  [j \in Jobs |-> IF j \in S /\ job[j].status = "none"
                  THEN [job[j] EXCEPT !.status = "NOT_RUN_BUDGET"] ELSE job[j]]

\* The next job is skipped, refused for want of budget, or run.
NextJob(j) ==
  /\ orch.at = "next" /\ j \in orch.left
  /\ LET on == [orch EXCEPT !.left = @ \ {j}, !.rest = @ \ {j}] IN
     \/ IsDone(j) /\ orch' = on /\ UNCHANGED <<child, job>>
     \/ /\ ~IsDone(j) /\ ~Fits(MainBucket(j))
        /\ orch' = Ended("budget")
        /\ job' = NotRun(orch.rest)
        /\ UNCHANGED child
     \/ /\ ~IsDone(j) /\ Fits(MainBucket(j))
        /\ orch' = [on EXCEPT !.at = "running", !.ran = @ + 1]
        /\ child' = [job |-> j, turn |-> 1, try |-> 1, said |-> "", code |-> ""]
        /\ UNCHANGED job
  /\ UNCHANGED <<ledgerVars, state, control, sup, priced, stale, fresh, count>>

\* The job's state file after an attempt; a status other than infra_error and
\* FAILED_TERMINAL makes the next batch count from nothing.
Attempt(j, status) ==
  [job EXCEPT ![j].status = status,
              ![j].attempts = IF status \in {"infra_error", "FAILED_TERMINAL"} THEN Counted(j) + 1 ELSE 0]

FailedStatus(j) == IF Counted(j) + 1 >= MaxAttempts THEN "FAILED_TERMINAL" ELSE "infra_error"

\* The job's process has ended: its attempt is recorded.
RecordAttempt ==
  /\ orch.at = "running" /\ child # NoChild /\ child.code # ""
  /\ LET j == child.job IN
     \/ /\ child.code = "ok"
        /\ job' = Attempt(j, "complete")
        /\ orch' = [orch EXCEPT !.at = "next"]
        /\ UNCHANGED fresh
     \/ /\ child.code = "budget"
        /\ LET after == Attempt(j, "NOT_RUN_BUDGET") IN
           job' = [k \in Jobs |-> IF k = j THEN after[j] ELSE NotRun(orch.rest)[k]]
        /\ orch' = Ended("budget")
        /\ UNCHANGED fresh
     \/ /\ child.code = "quota"
        /\ job' = Attempt(j, "PAUSED_PROVIDER_QUOTA")
        /\ orch' = Ended("quota")
        /\ UNCHANGED fresh
     \/ /\ child.code = "fail"
        /\ job' = Attempt(j, FailedStatus(j))
        /\ orch' = [orch EXCEPT !.at = "next", !.failed = @ + 1]
        /\ fresh' = IF FailedStatus(j) = "FAILED_TERMINAL" THEN fresh \cup {j} ELSE fresh
  /\ child' = NoChild
  /\ UNCHANGED <<ledgerVars, state, control, sup, priced, stale, count>>

EndBatch ==
  /\ orch.at = "next" /\ orch.left = {}
  /\ orch' = Ended(IF orch.failed > 0 \/ orch.terminal THEN "failed" ELSE "ok")
  /\ UNCHANGED <<ledgerVars, state, control, sup, child, job, priced, stale, fresh, count>>

\* A signal ends the orchestrator between two jobs.  The bound counts the first of a
\* row of crashes, whose length is the supervisor's to limit.
OrchestratorCrashes ==
  /\ orch.at = "next"
  /\ orch' = Ended("crash")
  /\ IF sup.crashes = 0 THEN Fault ELSE UNCHANGED count
  /\ UNCHANGED <<ledgerVars, state, control, sup, child, job, priced, stale, fresh>>

\* An exception that main does not catch, such as a manifest that is not there, ends
\* it with 1, the exit code of a batch with failures.
OrchestratorRaises ==
  /\ orch.at = "next"
  /\ orch' = Ended("failed")
  /\ Fault
  /\ UNCHANGED <<ledgerVars, state, control, sup, child, job, priced, stale, fresh>>
------------------------------------------------------------------------------
(* The supervisor's loop.                                                   *)

\* Defect: the second gate is asked for twice.
GateOfDefect == [READY |-> "calibration", CALIB_DONE |-> "freeze", FROZEN |-> "freeze"]

GateOf == [READY |-> "calibration", CALIB_DONE |-> "freeze", FROZEN |-> "main"]

\* Defect: the phase of a batch is returned also when nothing is pending.
AfterDefect == [READY |-> "CALIBRATION", CALIB_DONE |-> "FREEZE", FROZEN |-> "MAIN",
                CALIBRATION |-> "CALIBRATION", MAIN |-> "MAIN", MAIN_DONE |-> "AGGREGATE",
                FREEZE |-> "FROZEN", AGGREGATE |-> "VERIFY", VERIFY |-> "AWAIT_SEAL"]

After == [READY |-> "CALIBRATION", CALIB_DONE |-> "FREEZE", FROZEN |-> "MAIN",
          CALIBRATION |-> "CALIB_DONE", MAIN |-> "MAIN_DONE", MAIN_DONE |-> "AGGREGATE",
          FREEZE |-> "FROZEN", AGGREGATE |-> "VERIFY", VERIFY |-> "AWAIT_SEAL"]

\* Defect: HALT.json is read once, when the service starts.
LoopingDefect == sup.at = "loop"

\* The loop takes a step: no HALT.json.
Looping == sup.at = "loop" /\ control.halt = "none"
MovesOn == sup' = [sup EXCEPT !.at = "save", !.to = After[state.phase]]
HaltWith(reason) == control' = [control EXCEPT !.halt = reason]

\* consume_gate moves the flag; the phase is saved in the next step.
ConsumeGate ==
  /\ Looping /\ state.phase \in DOMAIN GateOf
  /\ LET g == GateOf[state.phase] IN
     /\ g \in control.armed
     /\ control' = [control EXCEPT !.armed = @ \ {g}, !.used = @ \cup {g}]
  /\ MovesOn
  /\ UNCHANGED <<ledgerVars, state, orch, child, job, priced, stale, fresh, count>>

SavePhase ==
  /\ sup.at = "save"
  /\ state' = [state EXCEPT !.phase = sup.to]
  /\ sup' = [sup EXCEPT !.at = "loop"]
  /\ UNCHANGED <<ledgerVars, control, orch, child, job, priced, stale, fresh, count>>

MainDone ==
  /\ Looping /\ state.phase = "MAIN_DONE"
  /\ MovesOn
  /\ UNCHANGED <<ledgerVars, state, control, orch, child, job, priced, stale, fresh, count>>

\* Clock and network are fine: budget-resume starts.  With another config than the
\* plan's it raises, and does so each time.
StartBatch ==
  /\ Looping /\ state.phase \in PaidPhases
  /\ sup' = [sup EXCEPT !.at = "batch"]
  /\ \/ control.changed /\ orch' = Ended("failed") /\ UNCHANGED count
     \/ /\ ~control.changed /\ UNCHANGED count
        /\ orch' \in Started(state.phase, IF state.wide THEN MaxJobs ELSE ReducedJobs)
     \/ ~control.changed /\ Pending(state.phase) # {} /\ orch' = Ended("drift") /\ Fault
  /\ UNCHANGED <<ledgerVars, state, control, child, job, priced, stale, fresh>>

\* The free commands.
StartCommand ==
  /\ Looping /\ state.phase \in Commands
  /\ sup' = [sup EXCEPT !.at = "command"]
  /\ UNCHANGED <<ledgerVars, state, control, orch, child, job, priced, stale, fresh, count>>

SumOver(f) == FoldFunction(LAMBDA x, y : x + y, 0, f)
WithinTotal == SumOver([b \in Buckets |-> Booked(ledger, b)]) <= SumOver(Cap)

CommandHalts(reason) == HaltWith(reason) /\ sup' = [sup EXCEPT !.at = "loop"]
CommandDone == MovesOn /\ UNCHANGED control

\* budget-freeze needs the config of the plan and a price for every calibration job,
\* and may find that the floor is not affordable.
AllPriced == CalibrationJobs \subseteq priced
CanFreeze == AllPriced /\ ~control.changed
FreezeEnds ==
  \/ CanFreeze /\ CommandDone /\ UNCHANGED count
  \/ CanFreeze /\ CommandHalts("freeze_inconclusive") /\ Fault
  \/ ~CanFreeze /\ CommandHalts("freeze_failed") /\ UNCHANGED count

\* budget-aggregate reports what there is; a missed target is an outcome, too.
AggregateEnds ==
  /\ IF control.changed THEN CommandHalts("aggregate_failed") ELSE CommandDone
  /\ UNCHANGED count

\* budget-verify fails when the ledger is over the total cap.
VerifyEnds ==
  /\ IF WithinTotal /\ ~control.changed THEN CommandDone ELSE CommandHalts("verify_failed")
  /\ UNCHANGED count

FinishCommand ==
  /\ sup.at = "command"
  /\ \/ state.phase = "FREEZE" /\ FreezeEnds
     \/ state.phase = "AGGREGATE" /\ AggregateEnds
     \/ state.phase = "VERIFY" /\ VerifyEnds
  /\ UNCHANGED <<ledgerVars, state, orch, child, job, priced, stale, fresh>>
------------------------------------------------------------------------------
(* What the supervisor makes of a batch's exit code.                        *)

\* Back in the loop with these counters.
Exited(exit) == sup.at = "batch" /\ orch.at = "done" /\ orch.exit = exit
BackWith(bad, crashes) ==
  /\ sup' = [sup EXCEPT !.at = "loop", !.bad = bad, !.crashes = crashes]
  /\ orch' = NoBatch /\ stale' = FALSE
  /\ UNCHANGED <<ledgerVars, child, job, priced, fresh, count>>

BatchComplete ==
  /\ Exited("complete")
  /\ sup' = [sup EXCEPT !.at = "save", !.to = After[state.phase], !.bad = 0, !.crashes = 0]
  /\ state' = [state EXCEPT !.wide = TRUE]
  /\ orch' = NoBatch /\ stale' = FALSE
  /\ UNCHANGED <<ledgerVars, control, child, job, priced, fresh, count>>

BatchOk ==
  /\ Exited("ok")
  /\ state' = [state EXCEPT !.wide = TRUE]
  /\ BackWith(0, 0)
  /\ UNCHANGED control

\* terminal_seen with the jobs that are terminal now; which of it is recent.
SeenNow ==
  [j \in Jobs |-> IF state.seen[j] = "no" /\ job[j].status = "FAILED_TERMINAL"
                  THEN "recent" ELSE state.seen[j]]
RecentlyTerminal == {j \in Jobs : SeenNow[j] = "recent"}
AtRisk == {j \in Jobs : job[j].status = "infra_error" /\ job[j].attempts = 1}

BadNow == IF orch.ran > 0 /\ 2 * orch.failed >= orch.ran THEN sup.bad + 1 ELSE 0

\* Defect: the breaker trips one job late.
BurstNowDefect == Cardinality(RecentlyTerminal) > TerminalMax

BurstNow == Cardinality(RecentlyTerminal) >= TerminalMax

\* A batch with failed jobs, or one that raised: crashes count from nothing again, and
\* breaker_check sees what was run.  When it does not trip, the state read before the check is
\* saved over what the check has saved: terminal_seen is lost.
BatchFailed ==
  /\ Exited("failed")
  /\ \/ /\ BurstNow
        /\ HaltWith("failed_terminal_burst")
        /\ state' = [state EXCEPT !.seen = SeenNow]
        /\ BackWith(sup.bad, 0)
     \/ /\ ~BurstNow /\ Cardinality(AtRisk) >= AtRiskMax
        /\ HaltWith("infra_error_pileup")
        /\ state' = [state EXCEPT !.seen = SeenNow]
        /\ BackWith(sup.bad, 0)
     \/ /\ ~BurstNow /\ Cardinality(AtRisk) < AtRiskMax /\ BadNow >= BadMax
        /\ HaltWith("bad_batch_streak")
        /\ state' = [state EXCEPT !.seen = SeenNow]
        /\ BackWith(BadNow, 0)
     \/ /\ ~BurstNow /\ Cardinality(AtRisk) < AtRiskMax /\ BadNow < BadMax
        /\ state' = [state EXCEPT !.wide = FALSE]
        /\ BackWith(BadNow, 0)
        /\ UNCHANGED control

\* Defect: a quota refusal is a budget that is used up.
BatchBlockedDefect ==
  /\ \/ Exited("budget") /\ HaltWith("budget_exhausted")
     \/ Exited("quota") /\ HaltWith("budget_exhausted")
     \/ Exited("drift") /\ HaltWith("execution_lock_failed")
  /\ BackWith(sup.bad, sup.crashes)
  /\ UNCHANGED state

BatchBlocked ==
  /\ \/ Exited("budget") /\ HaltWith("budget_exhausted")
     \/ Exited("drift") /\ HaltWith("execution_lock_failed")
  /\ BackWith(sup.bad, sup.crashes)
  /\ UNCHANGED state

QuotaPause ==
  /\ Exited("quota")
  /\ BackWith(sup.bad, sup.crashes)
  /\ UNCHANGED <<state, control>>

\* Any other exit code, which is that of a signal.
BatchCrashed ==
  /\ Exited("crash")
  /\ BackWith(sup.bad, sup.crashes + 1)
  /\ IF sup.crashes + 1 >= CrashMax THEN HaltWith("crash_loop") ELSE UNCHANGED control
  /\ UNCHANGED state
------------------------------------------------------------------------------
(* The operator, the host and the watchdog.                                 *)

\* runnerctl approve: at any time, once, and again for a gate that was lost with
\* the process that had consumed it.
Approve(g) ==
  /\ g \notin control.armed
  /\ g \in control.used => state.phase \in DOMAIN GateOf /\ g = GateOf[state.phase] /\ sup.at = "loop"
  /\ control' = [control EXCEPT !.armed = @ \cup {g}]
  /\ UNCHANGED <<ledgerVars, state, sup, orch, child, job, priced, stale, fresh, count>>

\* runnerctl revive clears the halt and restarts the service.
Revive ==
  /\ control.halt # "none"
  /\ count.revives < MaxRevives
  /\ control' = [control EXCEPT !.halt = "none"]
  /\ sup' = Awake
  /\ count' = [count EXCEPT !.revives = @ + 1]
  /\ UNCHANGED <<ledgerVars, state, orch, child, job, priced, stale, fresh>>

\* The local config is edited, and put back.  The commands read it as they start, so
\* it makes no difference whether that is now or while the command before them ran.
ConfigChanges ==
  /\ ~control.changed /\ sup.at = "loop"
  /\ control' = [control EXCEPT !.changed = TRUE]
  /\ Fault
  /\ UNCHANGED <<ledgerVars, state, sup, orch, child, job, priced, stale, fresh>>

ConfigRestored ==
  /\ control.changed /\ sup.at = "loop"
  /\ control' = [control EXCEPT !.changed = FALSE]
  /\ UNCHANGED <<ledgerVars, state, sup, orch, child, job, priced, stale, fresh, count>>

\* Thirty minutes pass between two batches.
WindowPasses ==
  /\ sup.at = "loop" /\ fresh # {}
  /\ fresh' = {}
  /\ state' = [state EXCEPT !.seen = [j \in Jobs |-> IF @[j] = "recent" THEN "old" ELSE @[j]]]
  /\ UNCHANGED <<ledgerVars, control, sup, orch, child, job, priced, stale, count>>

\* Every process of the service is gone; a settled entry may have been written.
ProcessesGone ==
  /\ count.deaths < MaxDeaths
  /\ count' = [count EXCEPT !.deaths = @ + 1]
  /\ orch' = NoBatch /\ child' = NoChild
  /\ AbandonCall
  /\ priced' = IF call.at = "settling" /\ ledger' # ledger THEN PricedNow ELSE priced
  /\ UNCHANGED <<state, job, fresh>>

PowerLoss ==
  /\ sup.at # "down"
  /\ ProcessesGone
  /\ sup' = Down
  /\ UNCHANGED <<control, stale>>

\* systemd starts the service after a boot or an exit, the watchdog when both failed.
Restart ==
  /\ sup.at = "down"
  /\ sup' = Awake /\ stale' = FALSE
  /\ UNCHANGED <<ledgerVars, state, control, orch, child, job, priced, fresh, count>>

\* run_logged writes no heartbeat.
HealthAges ==
  /\ sup.at = "batch" /\ orch.at # "done" /\ ~stale
  /\ stale' = TRUE
  /\ UNCHANGED <<ledgerVars, state, control, sup, orch, child, job, priced, fresh, count>>

\* systemctl restart: SIGTERM ends the batch, which counts as an abnormal exit.
WatchdogRestart ==
  /\ stale /\ sup.at = "batch" /\ orch.at # "done"
  /\ ProcessesGone
  /\ IF sup.crashes + 1 >= CrashMax THEN HaltWith("crash_loop") ELSE UNCHANGED control
  /\ sup' = Awake /\ stale' = FALSE

\* systemctl stop during a free command: the command fails, and its failure halts.
StopCommand ==
  /\ sup.at = "command"
  /\ ProcessesGone
  /\ HaltWith([FREEZE |-> "freeze_failed", AGGREGATE |-> "aggregate_failed",
               VERIFY |-> "verify_failed"][state.phase])
  /\ sup' = Down
  /\ UNCHANGED stale
------------------------------------------------------------------------------
ChildNext ==
  \/ LockTimesOut \/ BeginCall \/ Reserved \/ Refused \/ BeginSettle \/ Settled
  \/ \E cost \in Prices : CallReturns(cost)

OrchestratorNext == (\E j \in Jobs : NextJob(j)) \/ RecordAttempt \/ EndBatch

SupervisorNext ==
  \/ ConsumeGate \/ SavePhase \/ MainDone \/ StartBatch \/ StartCommand \/ FinishCommand
  \/ BatchComplete \/ BatchOk \/ BatchFailed \/ BatchBlocked \/ QuotaPause \/ BatchCrashed

OperatorNext == (\E g \in Gates : Approve(g)) \/ Revive \/ ConfigChanges \/ ConfigRestored

HostNext ==
  WindowPasses \/ PowerLoss \/ Restart \/ HealthAges \/ WatchdogRestart \/ StopCommand
  \/ OrchestratorCrashes \/ OrchestratorRaises

Next == ChildNext \/ OrchestratorNext \/ SupervisorNext \/ OperatorNext \/ HostNext

Spec == Init /\ [][Next]_vars

\* Processes that run go on, the provider answers or the call times out, systemd
\* restarts the service, and the operator opens each gate in the end.  Nothing is
\* assumed of halts being cleared or of a changed config being put back.
Fairness ==
  /\ WF_vars(ChildNext) /\ WF_vars(OrchestratorNext) /\ WF_vars(SupervisorNext)
  /\ WF_vars(Restart)
  /\ \A g \in Gates : WF_vars(Approve(g))

FairSpec == Spec /\ Fairness
------------------------------------------------------------------------------
(* Properties.                                                              *)

LaterThan(p) ==
  CASE p = "CALIBRATION" -> {"CALIB_DONE", "FREEZE", "FROZEN", "MAIN", "MAIN_DONE",
                             "AGGREGATE", "VERIFY", "AWAIT_SEAL"}
    [] p = "MAIN"        -> {"MAIN_DONE", "AGGREGATE", "VERIFY", "AWAIT_SEAL"}

\* Money is spent in a bucket only after every approval the phases ask for before
\* it, also when a flag was consumed by a process that died before it had saved the
\* phase (consume_gate, step; README of the runner: the three gates are where money
\* is spent).
PaidAfterApproval ==
  /\ billed["calibration"] + billed["retry"] > 0 => "calibration" \in control.used
  /\ billed["r2_main"] + billed["r3_main"] > 0 => control.used = Gates

\* A phase is left only when every job of its manifest has a result: nothing is
\* aggregated with a job missing, failed for good or not run (run_jobs, step).
NothingAggregatedEarly ==
  \A p \in PaidPhases : state.phase \in LaterThan(p) => \A j \in PhaseJobs(p) : job[j].result

\* A job that has its result is never paid again, whatever its state file says and
\* whenever the processes died (_result_matches).
CompletedIsNotPaidAgain == Calling => ~job[child.job].result

\* A job that failed for good is never paid again and stays failed, through quota
\* pauses, exhausted budgets and restarts (run_jobs).
TerminalStays ==
  [][\A j \in Jobs : job[j].status = "FAILED_TERMINAL" =>
       job'[j].status = "FAILED_TERMINAL" /\ child'.job # j]_vars

\* While a halt stands nothing runs, so nothing is spent (cmd_run, halt).
HaltedSpendsNothing == control.halt # "none" => orch = NoBatch /\ child = NoChild /\ call = Idle

\* "budget_exhausted" has one of three causes: a bucket has no room, a call came
\* back without a price, or a dead process left the ledger's lock file behind
\* (_is_budget_block, reserve_cost).
ExhaustedHasACause ==
  control.halt = "budget_exhausted" =>
    ledger.halted \/ lock \/ \E b \in Buckets : ~Fits(b)

\* Two jobs that fail for good within the window, and are noticed by the check
\* after a batch, stop the run (breaker_check).
BurstHalts ==
  [][Exited("failed") /\ sup'.at = "loop" /\ orch' = NoBatch
       /\ Cardinality(fresh) >= TerminalMax
     => control'.halt = "failed_terminal_burst"]_vars

\* While the config is not the plan's, a paid phase does not end: each batch raises at
\* once, with 1, and is taken for one with failures.
RaisesEachTime == control.changed /\ state.phase \in PaidPhases

\* The run comes to its end, or stands halted, or keeps a phase open for a job that
\* failed for good or for a config that was changed (cmd_run, step, run_jobs, main).
RunEnds ==
  <>[](\/ state.phase = "AWAIT_SEAL" \/ control.halt # "none"
       \/ \E j \in Jobs : job[j].status = "FAILED_TERMINAL"
       \/ RaisesEachTime)
==============================================================================
