---------------------------- MODULE PaidRunProofs ----------------------------
(* Proofs about PaidRun, for any jobs, turns, tries, batch sizes, thresholds   *)
(* and bounds.                                                                 *)
EXTENDS PaidRun, BudgetLedgerProofs, FiniteSetTheorems

StateType == [phase : Phases, wide : BOOLEAN, seen : [Jobs -> {"no", "recent", "old"}]]
ControlType == [armed : SUBSET Gates, used : SUBSET Gates, halt : Halts,
                changed : BOOLEAN]
SupType == [at : SupervisorPlaces, to : Phases, bad : Nat, crashes : Nat]
OrchType == [at : {"none", "next", "running", "done"}, left : SUBSET Jobs, rest : SUBSET Jobs,
             ran : Nat, failed : Nat, terminal : BOOLEAN, exit : Exits]
ChildType == [job : Jobs, turn : 1..MaxTurns, try : 1..MaxTries, said : {"", "ok", "bad", "quota"},
              code : {"", "ok", "fail", "budget", "quota"}]
JobType == [Jobs -> [status : Statuses, attempts : 0..MaxAttempts, result : BOOLEAN]]
CountType == [faults : 0..MaxFaults, deaths : 0..MaxDeaths, revives : 0..MaxRevives]

Types ==
  /\ LedgerTypeOK /\ state \in StateType /\ control \in ControlType
  /\ sup \in SupType /\ orch \in OrchType /\ child \in {NoChild} \cup ChildType
  /\ job \in JobType /\ priced \in SUBSET CalibrationJobs /\ stale \in BOOLEAN
  /\ fresh \in SUBSET Jobs /\ count \in CountType

LEMMA Typed == (TypeOK <=> Types) /\ (TypeOK' <=> Types')
  BY DEF Types, TypeOK, StateType, ControlType, SupType, OrchType, ChildType, JobType, CountType

\* Processes run inside one another: the supervisor waits for a batch, the batch for
\* a job, the job for its call; and a halt is noticed between two commands.
Nested ==
  /\ sup.at # "batch" => orch = NoBatch
  /\ orch.at # "running" => child = NoChild
  /\ ~Calling => call = Idle
  /\ control.halt # "none" => sup.at \in {"loop", "down"}
  /\ sup.at = "batch" => state.phase \in PaidPhases
  /\ sup.at = "command" => state.phase \in Commands
  /\ sup.at = "save" => state.phase # "AWAIT_SEAL" /\ sup.to = After[state.phase]

\* What is run, and what is left to run, is worth running.
Worth ==
  /\ \A j \in orch.left : ~IsTerminal(j)
  /\ child # NoChild => ~IsTerminal(child.job) /\ child.job \notin orch.left
  /\ Calling => ~job[child.job].result

\* The jobs of a batch are those of the phase, and the call is the child's.
OfThePhase ==
  /\ sup.at = "batch" => orch.left \subseteq PhaseJobs(state.phase)
  /\ child # NoChild => child.job \in PhaseJobs(state.phase)
  /\ call # Idle => call.bucket = BucketOf(child.job, child.try)

------------------------------------------------------------------------------
(* The paid run keeps its ledger as BudgetLedger says.                        *)

\* Every step of the run is a step of the ledger or leaves it alone.
LEMMA RunStepsLedger == [Next]_vars => [LedgerNext]_ledgerVars
  <1> SUFFICES ASSUME [Next]_vars PROVE [LedgerNext]_ledgerVars
    OBVIOUS
  <1> USE DEF runVars, ledgerVars
  <1>1. CASE UNCHANGED vars
    BY <1>1 DEF vars
  <1>2. ASSUME ChildNext PROVE [LedgerNext]_ledgerVars
    <2>1. ASSUME NEW cost \in Prices, CallReturns(cost) PROVE LedgerNext
      BY <2>1 DEF CallReturns, LedgerNext
    <2>2. CASE BeginCall
      <3>1. PICK b : b = BucketOf(child.job, child.try) /\ LockToReserve(b)
        BY <2>2 DEF BeginCall
      <3>2. b \in Buckets
        BY <3>1, PaidRunAssumption DEF BucketOf, MainBucket
      <3> QED BY <3>1, <3>2 DEF LedgerNext
    <2>3. CASE Reserved \/ Refused \/ BeginSettle \/ Settled
      BY <2>3 DEF Reserved, Refused, BeginSettle, Settled, LedgerNext
    <2>4. CASE LockTimesOut
      BY <2>4 DEF LockTimesOut
    <2> QED BY <1>2, <2>1, <2>2, <2>3, <2>4 DEF ChildNext
  <1>3. CASE OrchestratorNext \/ OperatorNext
    BY <1>3
    DEF OrchestratorNext, NextJob, RecordAttempt, EndBatch, OperatorNext, Approve, Revive,
        ConfigChanges, ConfigRestored
  <1>4. CASE SupervisorNext
    BY <1>4
    DEF SupervisorNext, ConsumeGate, SavePhase, MainDone, StartBatch, StartCommand,
        FinishCommand, BatchComplete, BatchOk, BatchFailed, BatchBlocked, QuotaPause,
        BatchCrashed, BackWith
  <1>5. CASE HostNext
    BY <1>5
    DEF HostNext, WindowPasses, PowerLoss, Restart, HealthAges, WatchdogRestart, StopCommand,
        OrchestratorCrashes, OrchestratorRaises, ProcessesGone, LedgerNext
  <1> QED BY <1>1, <1>2, <1>3, <1>4, <1>5 DEF Next

\* So does the whole run.
THEOREM RunKeepsLedger == Spec => LedgerSpec
  <1>1. Init => LedgerInit
    BY DEF Init
  <1> QED BY <1>1, RunStepsLedger, PTL DEF Spec, LedgerSpec

\* Buckets are booked within their caps in the run, too, with all its processes,
\* deaths and restarts (reserve_cost, settle_cost).
THEOREM RunHoldsCaps == Spec => []CapsHold
  BY RunKeepsLedger, LedgerCaps, PTL

\* And the provider never charged more than the ledger accounts for, but for calls that
\* timed out or failed half way (invoke_opencode_json).
THEOREM RunKnowsBill == Spec => []LedgerCoversBill
  BY RunKeepsLedger, LedgerKnowsBill, PTL

\* When no call costs more than its reservation, calls that were cut off are all that can
\* take a run over what its plan allows to spend, with all its processes, deaths, restarts
\* and abandoned calls: each by what one call may cost, in its own bucket.
THEOREM RunExceedsByCutsOnly == ASSUME MaxCost <= Reserve PROVE Spec => []OnlyCutsExceed
  BY RunKeepsLedger, EnoughReserved, PTL
------------------------------------------------------------------------------
(* Types.                                                                     *)

\* Phases follow one another as long as the run is not at its end.
LEMMA PhasesFollow ==
  /\ PaidPhases \cup Commands \cup DOMAIN GateOf \cup {"MAIN_DONE"} = DOMAIN After
  /\ DOMAIN After = Phases \ {"AWAIT_SEAL"}
  /\ \A p \in DOMAIN After : After[p] \in Phases
  /\ \A p \in DOMAIN GateOf : GateOf[p] \in Gates
  BY DEF After, GateOf, Phases, PaidPhases, Commands, Gates

\* What a batch starts with.
LEMMA Starts ==
  ASSUME orch \in OrchType, NEW p \in PaidPhases, NEW width, NEW o \in Started(p, width)
  PROVE  /\ o \in OrchType
         /\ o.at \in {"next", "done"}
         /\ o.left \subseteq Pending(p)
         /\ o.at = "done" => o.exit \in {"complete", "failed"}
         /\ o.exit = "complete" => Pending(p) = {} /\ Terminal(p) = {}
  <1>1. CASE Pending(p) = {}
    <2>1. o = Ended(IF Terminal(p) = {} THEN "complete" ELSE "failed")
      BY <1>1 DEF Started
    <2> QED BY <1>1, <2>1 DEF Ended, OrchType, Exits
  <1>2. CASE Pending(p) # {}
    <2>1. Pending(p) \subseteq Jobs
      BY DEF Pending, PhaseJobs, Jobs
    <2>2. PICK left \in SUBSET Pending(p) :
            o = [NoBatch EXCEPT !.at = "next", !.left = left, !.rest = Pending(p),
                                !.terminal = Terminal(p) # {}]
      BY <1>2 DEF Started, Batch
    <2> QED BY <2>1, <2>2 DEF NoBatch, OrchType, Exits
  <1> QED BY <1>1, <1>2

\* Statuses and counters of a recorded attempt.
LEMMA AttemptTyped ==
  ASSUME job \in JobType, NEW j \in Jobs, ~IsTerminal(j), NEW status \in Statuses
  PROVE  /\ Attempt(j, status) \in JobType
         /\ Attempt(j, status)[j].status = status
         /\ Attempt(j, status)[j].result = job[j].result
         /\ \A k \in Jobs \ {j} : Attempt(j, status)[k] = job[k]
  <1>1. /\ MaxAttempts \in Nat \ {0} /\ job[j] \in [status : Statuses, attempts : 0..MaxAttempts, result : BOOLEAN]
    BY PaidRunAssumption DEF JobType
  <1>2. Counted(j) \in Nat /\ Counted(j) < MaxAttempts
    BY <1>1 DEF IsTerminal, Counted
  <1> DEFINE n == IF status \in {"infra_error", "FAILED_TERMINAL"} THEN Counted(j) + 1 ELSE 0
  <1>3. n \in 0..MaxAttempts
    BY <1>1, <1>2
  <1> HIDE DEF n
  <1> DEFINE f == [job EXCEPT ![j] = [[job[j] EXCEPT !.status = status] EXCEPT !.attempts = n]]
  <1>4. Attempt(j, status) = f
    <2> DEFINE g == [job EXCEPT ![j] = [job[j] EXCEPT !.status = status]]
    <2>1. Attempt(j, status) = [g EXCEPT ![j].attempts = n]
      BY DEF Attempt, n
    <2>2. g[j] = [job[j] EXCEPT !.status = status]
      BY DEF JobType
    <2>3. [g EXCEPT ![j].attempts = n] = [g EXCEPT ![j] = [g[j] EXCEPT !.attempts = n]]
      OBVIOUS
    <2> QED BY <2>1, <2>2, <2>3
  <1>5. /\ f[j] = [[job[j] EXCEPT !.status = status] EXCEPT !.attempts = n]
        /\ \A k \in Jobs \ {j} : f[k] = job[k]
    BY DEF JobType
  <1>6. f[j] \in [status : Statuses, attempts : 0..MaxAttempts, result : BOOLEAN]
    <2>1. PICK r \in [status : Statuses, attempts : 0..MaxAttempts, result : BOOLEAN] :
            r = [job[j] EXCEPT !.status = status]
      BY <1>1
    <2>2. [r EXCEPT !.attempts = n] \in [status : Statuses, attempts : 0..MaxAttempts, result : BOOLEAN]
      BY <1>3
    <2> QED BY <1>5, <2>1, <2>2
  <1>7. f \in JobType
    BY <1>6 DEF JobType
  <1>8. f[j].status = status /\ f[j].result = job[j].result
    BY <1>1, <1>5
  <1> QED BY <1>4, <1>5, <1>7, <1>8

\* Jobs that were not run keep everything but a status they did not have.
LEMMA NotRunTyped ==
  ASSUME job \in JobType, NEW S
  PROVE  /\ NotRun(S) \in JobType
         /\ \A k \in Jobs : /\ NotRun(S)[k].result = job[k].result
                            /\ NotRun(S)[k].attempts = job[k].attempts
                            /\ \/ NotRun(S)[k].status = job[k].status
                               \/ /\ job[k].status = "none"
                                  /\ NotRun(S)[k].status = "NOT_RUN_BUDGET"
  <1>1. ASSUME NEW k \in Jobs
        PROVE  /\ NotRun(S)[k] \in [status : Statuses, attempts : 0..MaxAttempts, result : BOOLEAN]
               /\ NotRun(S)[k].result = job[k].result
               /\ NotRun(S)[k].attempts = job[k].attempts
               /\ \/ NotRun(S)[k].status = job[k].status
                  \/ job[k].status = "none" /\ NotRun(S)[k].status = "NOT_RUN_BUDGET"
    BY DEF NotRun, JobType, Statuses
  <1>2. NotRun(S) \in JobType
    BY <1>1 DEF NotRun, JobType
  <1> QED BY <1>1, <1>2

\* A batch that has ended.
LEMMA EndedTyped ==
  ASSUME orch \in OrchType, NEW exit \in Exits
  PROVE  /\ Ended(exit) \in OrchType
         /\ Ended(exit).at = "done" /\ Ended(exit).left = {} /\ Ended(exit).exit = exit
  BY DEF Ended, OrchType

\* A child that goes on, or ends.
LEMMA ChildTyped ==
  ASSUME child \in {NoChild} \cup ChildType, child # NoChild
  PROVE  /\ child \in ChildType /\ child.job \in Jobs
         /\ \A code \in {"ok", "fail", "budget", "quota"} :
              /\ [child EXCEPT !.code = code, !.said = ""] \in ChildType
              /\ [child EXCEPT !.code = code, !.said = ""].code = code
              /\ [child EXCEPT !.code = code, !.said = ""].job = child.job
              /\ [child EXCEPT !.code = code, !.said = ""].try = child.try
  BY DEF ChildType

\* A call that is under way is a running child's.
LEMMA CallIsMade ==
  ASSUME Nested, call.at # "idle"
  PROVE  Calling /\ child # NoChild
  <1>1. call # Idle
    BY DEF Idle
  <1> QED BY <1>1 DEF Nested, Calling

\* Calls of the bucket "calibration" are those of calibration jobs.
LEMMA PricedTyped ==
  ASSUME Types, Nested, OfThePhase, call.at = "settling"
  PROVE  PricedNow \in SUBSET CalibrationJobs
  <1>1. call # Idle
    BY DEF Idle
  <1>2. call.bucket = "calibration" => child.job \in CalibrationJobs
    BY <1>1 DEF OfThePhase, BucketOf, MainBucket
  <1> QED BY <1>2 DEF PricedNow, Types

\* The steps of a job's process keep the types.
LEMMA ChildKeepsTypes ==
  ASSUME TypeOK, LedgerTypeOK', Nested, OfThePhase, ChildNext
  PROVE  TypeOK'
  <1>1. /\ state \in StateType /\ control \in ControlType /\ sup \in SupType /\ orch \in OrchType
        /\ child \in {NoChild} \cup ChildType /\ job \in JobType /\ priced \in SUBSET CalibrationJobs
        /\ stale \in BOOLEAN /\ fresh \in SUBSET Jobs /\ count \in CountType
    BY Typed DEF Types
  <1>2. SUFFICES /\ child' \in {NoChild} \cup ChildType /\ job' \in JobType
                 /\ priced' \in SUBSET CalibrationJobs /\ count' \in CountType
                 /\ UNCHANGED <<state, control, sup, orch, stale, fresh>>
    BY <1>1, Typed DEF Types
  <1>3. CASE LockTimesOut
    <2>1. child # NoChild /\ child' = [child EXCEPT !.code = "budget", !.said = ""]
      BY <1>3 DEF LockTimesOut, Calling, ExitsWith
    <2>2. child' \in ChildType
      BY <1>1, <2>1, ChildTyped
    <2> QED BY <1>1, <1>3, <2>2 DEF LockTimesOut
  <1>4. CASE BeginCall \/ Reserved \/ BeginSettle
    BY <1>1, <1>4 DEF BeginCall, Reserved, BeginSettle, runVars
  <1>5. CASE Refused
    <2>1. child # NoChild /\ child' = [child EXCEPT !.code = "budget", !.said = ""]
      BY <1>5, CallIsMade DEF Refused, RefuseReservation, ExitsWith
    <2>2. child' \in ChildType
      BY <1>1, <2>1, ChildTyped
    <2> QED BY <1>1, <1>5, <2>2 DEF Refused
  <1>6. ASSUME NEW cost \in Prices, CallReturns(cost)
        PROVE  child' \in ChildType /\ count' \in CountType
               /\ UNCHANGED <<state, control, sup, orch, job, priced, stale, fresh>>
    <2>1. child \in ChildType
      BY <1>1, <1>6, CallIsMade DEF CallReturns, Answer
    <2>2. PICK said \in {"ok", "bad", "quota"} : child' = [child EXCEPT !.said = said]
      BY <1>6 DEF CallReturns
    <2>3. child' \in ChildType
      BY <2>1, <2>2 DEF ChildType
    <2>4. count' = count \/ Fault
      BY <1>6 DEF CallReturns
    <2>5. count' \in CountType
      BY <1>1, <2>4, PaidRunAssumption DEF Fault, CountType
    <2> QED BY <1>6, <2>3, <2>5 DEF CallReturns
  <1>7. CASE Settled
    <2>1. child \in ChildType /\ child # NoChild /\ call # Idle
      BY <1>1, <1>7, CallIsMade DEF Settled, SettleCost, Idle
    <2>2. priced' \in SUBSET CalibrationJobs
      <3>1. call.bucket = "calibration" => child.job \in CalibrationJobs
        BY <2>1 DEF OfThePhase, BucketOf, MainBucket
      <3> QED BY <1>1, <1>7, <3>1 DEF Settled, PricedNow
    <2>3. job' \in JobType
      <3>1. job' = job \/ job' = [job EXCEPT ![child.job] = [job[child.job] EXCEPT !.result = TRUE]]
        BY <1>1, <1>7 DEF Settled, JobType
      <3>2. child.job \in Jobs
        BY <2>1 DEF ChildType
      <3> QED BY <1>1, <3>1, <3>2 DEF JobType
    <2>4. child' \in ChildType
      <3>1. /\ MaxTurns \in Nat \ {0} /\ MaxTries \in Nat \ {0}
            /\ child.turn \in 1..MaxTurns /\ child.try \in 1..MaxTries
        BY <2>1, PaidRunAssumption DEF ChildType
      <3>2. CASE child.said = "ok" /\ child.turn < MaxTurns
                 /\ child' = [child EXCEPT !.turn = @ + 1, !.try = 1, !.said = ""]
        <4>1. child.turn + 1 \in 1..MaxTurns /\ 1 \in 1..MaxTries
          BY <3>1, <3>2
        <4> QED BY <2>1, <3>2, <4>1 DEF ChildType
      <3>3. CASE child.said = "bad" /\ child.try < MaxTries
                 /\ child' = [child EXCEPT !.try = @ + 1, !.said = ""]
        <4>1. child.try + 1 \in 1..MaxTries
          BY <3>1, <3>3
        <4> QED BY <2>1, <3>3, <4>1 DEF ChildType
      <3>4. CASE \E code \in {"ok", "fail", "quota"} : ExitsWith(code)
        BY <2>1, <3>4 DEF ExitsWith, ChildType
      <3> QED BY <1>7, <3>2, <3>3, <3>4 DEF Settled
    <2> QED BY <1>7, <2>2, <2>3, <2>4, <1>1 DEF Settled
  <1> QED BY <1>1, <1>3, <1>4, <1>5, <1>6, <1>7 DEF ChildNext

\* So do the steps of a batch.
LEMMA OrchestratorKeepsTypes ==
  ASSUME TypeOK, LedgerTypeOK', Worth, OrchestratorNext
  PROVE  TypeOK'
  <1>1. Types
    BY Typed
  <1>2. SUFFICES /\ orch' \in OrchType /\ child' \in {NoChild} \cup ChildType /\ job' \in JobType
                 /\ fresh' \in SUBSET Jobs
                 /\ UNCHANGED <<state, control, sup, priced, stale, count>>
    BY <1>1, Typed DEF Types
  <1>3. \A exit \in Exits : Ended(exit) \in OrchType
    BY <1>1, EndedTyped DEF Types
  <1>4. ASSUME NEW j \in Jobs, NextJob(j)
        PROVE  /\ orch' \in OrchType /\ child' \in {NoChild} \cup ChildType /\ job' \in JobType
               /\ UNCHANGED <<state, control, sup, priced, stale, fresh, count>>
    <2> DEFINE on == [orch EXCEPT !.left = @ \ {j}, !.rest = @ \ {j}]
    <2>1. on \in OrchType
      BY <1>1 DEF Types, OrchType
    <2>2. CASE orch' = on /\ UNCHANGED <<child, job>>
      BY <1>1, <1>4, <2>1, <2>2 DEF NextJob, Types
    <2>3. CASE orch' = Ended("budget") /\ job' = NotRun(orch.rest) /\ UNCHANGED child
      <3>1. orch' \in OrchType /\ job' \in JobType
        BY <1>1, <1>3, <2>3, NotRunTyped DEF Types, Exits
      <3> QED BY <1>1, <1>4, <2>3, <3>1 DEF NextJob, Types
    <2>4. CASE /\ orch' = [on EXCEPT !.at = "running", !.ran = @ + 1]
               /\ child' = [job |-> j, turn |-> 1, try |-> 1, said |-> "", code |-> ""]
               /\ UNCHANGED job
      <3>1. orch' \in OrchType
        <4> HIDE DEF on
        <4>1. on.ran + 1 \in Nat
          BY <2>1 DEF OrchType
        <4> QED BY <2>1, <2>4, <4>1 DEF OrchType
      <3>2. 1 \in 1..MaxTurns /\ 1 \in 1..MaxTries
        BY PaidRunAssumption
      <3>3. child' \in ChildType
        BY <2>4, <3>2 DEF ChildType
      <3> QED BY <1>1, <1>4, <2>4, <3>1, <3>3 DEF NextJob, Types
    <2> QED BY <1>4, <2>2, <2>3, <2>4 DEF NextJob
  <1>5. CASE RecordAttempt
    <2>1. child # NoChild /\ child \in ChildType /\ child.job \in Jobs /\ ~IsTerminal(child.job)
      BY <1>1, <1>5 DEF RecordAttempt, Types, ChildType, Worth
    <2>2. \A status \in Statuses : Attempt(child.job, status) \in JobType
      BY <1>1, <2>1, AttemptTyped DEF Types
    <2>3. job' \in JobType
      <3>1. CASE child.code \in {"ok", "quota", "fail"}
        BY <1>5, <2>2, <3>1 DEF RecordAttempt, Statuses, FailedStatus
      <3>2. CASE child.code = "budget"
        <4>1. Attempt(child.job, "NOT_RUN_BUDGET") \in JobType /\ NotRun(orch.rest) \in JobType
          BY <1>1, <2>2, NotRunTyped DEF Statuses, Types
        <4>2. job' = [k \in Jobs |-> IF k = child.job THEN Attempt(child.job, "NOT_RUN_BUDGET")[child.job]
                                     ELSE NotRun(orch.rest)[k]]
          BY <1>5, <3>2 DEF RecordAttempt
        <4> QED BY <2>1, <4>1, <4>2 DEF JobType
      <3> QED BY <1>5, <3>1, <3>2 DEF RecordAttempt
    <2>4. orch' \in OrchType
      <3>1. [orch EXCEPT !.at = "next"] \in OrchType
        BY <1>1 DEF Types, OrchType
      <3>2. [orch EXCEPT !.at = "next", !.failed = @ + 1] \in OrchType
        <4>1. orch \in OrchType /\ orch.failed + 1 \in Nat
          BY <1>1 DEF Types, OrchType
        <4> QED BY <4>1 DEF OrchType
      <3> QED BY <1>3, <1>5, <3>1, <3>2 DEF RecordAttempt, Exits
    <2>5. fresh' \in SUBSET Jobs
      BY <1>1, <1>5, <2>1 DEF RecordAttempt, Types
    <2> QED BY <1>5, <2>3, <2>4, <2>5 DEF RecordAttempt
  <1>6. CASE EndBatch
    BY <1>1, <1>3, <1>6 DEF EndBatch, Exits, Types
  <1> QED BY <1>1, <1>4, <1>5, <1>6 DEF OrchestratorNext, Types

\* Of the supervisor's steps.
LEMMA SupervisorKeepsTypes ==
  ASSUME TypeOK, Nested, SupervisorNext
  PROVE  TypeOK'
  <1>1. Types
    BY Typed
  <1>2. SUFFICES /\ state' \in StateType /\ control' \in ControlType /\ sup' \in SupType
                 /\ orch' \in OrchType /\ count' \in CountType /\ stale' \in BOOLEAN
                 /\ UNCHANGED <<ledgerVars, child, job, priced, fresh>>
    <2>1. LedgerTypeOK'
      BY <1>1, <1>2 DEF Types, LedgerTypeOK, ledgerVars
    <2> QED BY <1>1, <1>2, <2>1, Typed DEF Types
  <1>3. NoBatch \in OrchType
    BY DEF NoBatch, OrchType, Exits
  <1>4. /\ \A halt \in Halts : [control EXCEPT !.halt = halt] \in ControlType
        /\ \A bad \in Nat, crashes \in Nat :
             [sup EXCEPT !.at = "loop", !.bad = bad, !.crashes = crashes] \in SupType
        /\ \A at \in SupervisorPlaces : [sup EXCEPT !.at = at] \in SupType
        /\ \A wide \in BOOLEAN : [state EXCEPT !.wide = wide] \in StateType
        /\ sup.bad \in Nat /\ sup.crashes \in Nat
    BY <1>1 DEF Types, ControlType, SupType, StateType, SupervisorPlaces
  <1>5. state.phase \in DOMAIN After /\ MovesOn => sup' \in SupType
    BY <1>1, PhasesFollow DEF MovesOn, Types, SupType, SupervisorPlaces
  <1>6. Fault => count' \in CountType
    BY <1>1, PaidRunAssumption DEF Fault, Types, CountType
  <1>7. CASE ConsumeGate
    <2>1. state.phase \in DOMAIN GateOf /\ GateOf[state.phase] \in Gates /\ state.phase \in DOMAIN After
      BY <1>7, PhasesFollow DEF ConsumeGate
    <2>2. control' \in ControlType
      BY <1>1, <1>7, <2>1 DEF ConsumeGate, Types, ControlType
    <2> QED BY <1>1, <1>5, <1>7, <2>1, <2>2 DEF ConsumeGate, Types
  <1>8. CASE SavePhase
    <2>1. state' \in StateType /\ sup' \in SupType
      BY <1>1, <1>8 DEF SavePhase, Types, StateType, SupType, SupervisorPlaces
    <2> QED BY <1>1, <1>8, <2>1 DEF SavePhase, Types
  <1>9. CASE MainDone
    BY <1>1, <1>5, <1>9, PhasesFollow DEF MainDone, Types
  <1>10. CASE StartBatch
    <2>1. state.phase \in PaidPhases /\ orch \in OrchType
      BY <1>1, <1>10 DEF StartBatch, Types
    <2>2. orch' \in OrchType
      BY <1>10, <2>1, Starts, EndedTyped DEF StartBatch, Exits
    <2>3. count' \in CountType
      BY <1>1, <1>6, <1>10 DEF StartBatch, Types
    <2>4. sup' \in SupType
      BY <1>4, <1>10 DEF StartBatch, SupervisorPlaces
    <2> QED BY <1>1, <1>10, <2>2, <2>3, <2>4 DEF StartBatch, Types
  <1>11. CASE StartCommand
    BY <1>1, <1>4, <1>11 DEF StartCommand, Types, SupervisorPlaces
  <1>12. CASE FinishCommand
    <2>1. state.phase \in DOMAIN After
      BY <1>12, PhasesFollow DEF FinishCommand, Commands
    <2>2. ASSUME NEW halt \in Halts, CommandHalts(halt)
          PROVE  control' \in ControlType /\ sup' \in SupType
      BY <1>4, <2>2 DEF CommandHalts, HaltWith, SupervisorPlaces
    <2>3. ASSUME CommandDone PROVE control' \in ControlType /\ sup' \in SupType
      BY <1>1, <1>5, <2>1, <2>3 DEF CommandDone, Types
    <2>4. control' \in ControlType /\ sup' \in SupType
      BY <1>12, <2>2, <2>3 DEF FinishCommand, FreezeEnds, AggregateEnds, VerifyEnds, Halts
    <2>5. count' = count \/ Fault
      BY <1>12 DEF FinishCommand, FreezeEnds, AggregateEnds, VerifyEnds
    <2> QED BY <1>1, <1>6, <1>12, <2>4, <2>5 DEF FinishCommand, Types
  <1>13. CASE BatchComplete
    <2>1. state.phase \in DOMAIN After
      BY <1>13, PhasesFollow DEF BatchComplete, Exited, Nested
    <2>2. sup' \in SupType
      BY <1>1, <1>13, <2>1, PhasesFollow DEF BatchComplete, Types, SupType, SupervisorPlaces
    <2> QED BY <1>1, <1>3, <1>4, <1>13, <2>2 DEF BatchComplete, Types
  <1>14. ASSUME NEW bad \in Nat, NEW crashes \in Nat, BackWith(bad, crashes)
         PROVE  /\ sup' \in SupType /\ orch' \in OrchType /\ count' \in CountType
                /\ stale' \in BOOLEAN /\ UNCHANGED <<ledgerVars, child, job, priced, fresh>>
    BY <1>1, <1>3, <1>4, <1>14 DEF BackWith, Types
  <1>15. CASE BatchOk
    BY <1>1, <1>4, <1>14, <1>15 DEF BatchOk, Types
  <1>16. CASE BatchFailed
    <2>1. BadNow \in Nat
      BY <1>1 DEF BadNow, Types, SupType, OrchType
    <2>2. SeenNow \in [Jobs -> {"no", "recent", "old"}]
      BY <1>1 DEF SeenNow, Types, StateType
    <2>3. [state EXCEPT !.seen = SeenNow] \in StateType
      BY <1>1, <2>2 DEF Types, StateType
    <2>4. state' \in StateType /\ control' \in ControlType
      BY <1>1, <1>4, <1>16, <2>3 DEF BatchFailed, HaltWith, Halts, Types
    <2>5. \E bad \in Nat, crashes \in Nat : BackWith(bad, crashes)
      BY <1>4, <1>16, <2>1 DEF BatchFailed
    <2> QED BY <1>14, <2>4, <2>5
  <1>17. CASE BatchBlocked
    BY <1>1, <1>4, <1>14, <1>17 DEF BatchBlocked, HaltWith, Halts, Types
  <1>18. CASE QuotaPause
    BY <1>1, <1>4, <1>14, <1>18 DEF QuotaPause, Types
  <1>19. CASE BatchCrashed
    <2>1. BackWith(sup.bad, sup.crashes + 1)
      BY <1>19 DEF BatchCrashed
    <2>2. control' \in ControlType /\ state' = state
      BY <1>1, <1>4, <1>19 DEF BatchCrashed, HaltWith, Halts, Types
    <2>3. sup.bad \in Nat /\ sup.crashes + 1 \in Nat
      <3>1. sup.bad \in Nat /\ sup.crashes \in Nat
        BY <1>4
      <3> QED BY <3>1
    <2> QED BY <1>1, <1>14, <2>1, <2>2, <2>3 DEF Types
  <1> QED BY <1>7, <1>8, <1>9, <1>10, <1>11, <1>12, <1>13, <1>15, <1>16, <1>17, <1>18, <1>19
          DEF SupervisorNext

\* And those of the operator and the host.
LEMMA OutsideKeepsTypes ==
  ASSUME TypeOK, LedgerTypeOK', Nested, OfThePhase, OperatorNext \/ HostNext
  PROVE  TypeOK'
  <1>1. Types
    BY Typed
  <1>2. SUFFICES /\ state' \in StateType /\ control' \in ControlType /\ sup' \in SupType
                 /\ orch' \in OrchType /\ child' \in {NoChild} \cup ChildType
                 /\ count' \in CountType /\ stale' \in BOOLEAN /\ fresh' \in SUBSET Jobs
                 /\ priced' \in SUBSET CalibrationJobs /\ UNCHANGED job
    BY <1>1, Typed DEF Types
  <1>3. NoBatch \in OrchType /\ Down \in SupType /\ Awake \in SupType
    BY DEF NoBatch, OrchType, Exits, Down, Awake, SupType, SupervisorPlaces, Phases
  <1>4. \A halt \in Halts : [control EXCEPT !.halt = halt] \in ControlType
    BY <1>1 DEF Types, ControlType
  <1>5. CASE OperatorNext
    <2>1. ASSUME NEW g \in Gates, Approve(g)
          PROVE  control' \in ControlType /\ UNCHANGED <<state, sup, orch, child, job, priced, stale, fresh, count>>
      BY <1>1, <2>1 DEF Approve, Types, ControlType
    <2>2. CASE Revive
      <3>1. count' \in CountType
        BY <1>1, <2>2, PaidRunAssumption DEF Revive, Types, CountType
      <3> QED BY <1>1, <1>3, <1>4, <2>2, <3>1 DEF Revive, Types, Halts
    <2>3. CASE ConfigChanges \/ ConfigRestored
      <3>1. control' \in ControlType
        BY <1>1, <2>3 DEF ConfigChanges, ConfigRestored, Types, ControlType
      <3>2. count' \in CountType
        BY <1>1, <2>3, PaidRunAssumption DEF ConfigChanges, ConfigRestored, Fault, Types, CountType
      <3> QED BY <1>1, <2>3, <3>1, <3>2 DEF ConfigChanges, ConfigRestored, Types
    <2> QED BY <1>1, <1>5, <2>1, <2>2, <2>3 DEF OperatorNext, Types
  <1>6. CASE WindowPasses
    <2>1. state' \in StateType
      BY <1>1, <1>6 DEF WindowPasses, Types, StateType
    <2> QED BY <1>1, <1>6, <2>1 DEF WindowPasses, Types
  <1>7. CASE Restart \/ HealthAges
    BY <1>1, <1>3, <1>7 DEF Restart, HealthAges, Types
  <1>8. CASE OrchestratorCrashes \/ OrchestratorRaises
    <2>1. count' \in CountType
      BY <1>1, <1>8, PaidRunAssumption
      DEF OrchestratorCrashes, OrchestratorRaises, Fault, Types, CountType
    <2>2. orch' \in OrchType
      BY <1>1, <1>8, EndedTyped DEF OrchestratorCrashes, OrchestratorRaises, Exits, Types
    <2> QED BY <1>1, <1>8, <2>1, <2>2 DEF OrchestratorCrashes, OrchestratorRaises, Types
  <1>9. ASSUME ProcessesGone
        PROVE  /\ orch' \in OrchType /\ child' \in {NoChild} \cup ChildType
               /\ count' \in CountType /\ UNCHANGED <<state, job, fresh>>
    BY <1>1, <1>3, <1>9, PaidRunAssumption DEF ProcessesGone, Types, CountType
  <1>10. ASSUME ProcessesGone PROVE priced' \in SUBSET CalibrationJobs
    <2>1. CASE call.at = "settling"
      BY <1>1, <1>10, <2>1, PricedTyped DEF ProcessesGone, Types
    <2>2. CASE call.at # "settling"
      BY <1>1, <1>10, <2>2 DEF ProcessesGone, Types
    <2> QED BY <2>1, <2>2
  <1>11. CASE PowerLoss
    BY <1>1, <1>3, <1>9, <1>10, <1>11 DEF PowerLoss, Types
  <1>12. CASE WatchdogRestart
    BY <1>1, <1>3, <1>4, <1>9, <1>10, <1>12 DEF WatchdogRestart, HaltWith, Halts, Types
  <1>13. CASE StopCommand
    <2>1. state.phase \in Commands
      BY <1>13 DEF StopCommand, Nested
    <2>2. control' \in ControlType
      BY <1>4, <1>13, <2>1 DEF StopCommand, HaltWith, Halts, Commands
    <2> QED BY <1>1, <1>3, <1>9, <1>10, <1>13, <2>2 DEF StopCommand, Types
  <1> QED BY <1>5, <1>6, <1>7, <1>8, <1>11, <1>12, <1>13 DEF HostNext
------------------------------------------------------------------------------
(* What happens to jobs.                                                      *)

\* A job as good as left alone: at most it is noted as not run.
LeftAlone(j) ==
  /\ job'[j].result = job[j].result
  /\ job'[j].attempts = job[j].attempts
  /\ \/ job'[j].status = job[j].status
     \/ job[j].status = "none" /\ job'[j].status = "NOT_RUN_BUDGET"

KeepsItsPlace(j) ==
  /\ job[j].result => job'[j].result
  /\ child = NoChild \/ child.job # j => LeftAlone(j)

LEMMA LeftAloneTerminal ==
  ASSUME NEW j \in Jobs, LeftAlone(j), job \in JobType
  PROVE  IsTerminal(j)' <=> IsTerminal(j)
  <1>1. Counted(j)' = Counted(j)
    BY DEF LeftAlone, Counted
  <1> QED BY <1>1 DEF LeftAlone, IsTerminal

\* Only the job that runs changes for itself, and no result is ever taken back.
LEMMA JobSteps ==
  ASSUME Types, Nested, Worth, [Next]_vars, NEW j \in Jobs
  PROVE  KeepsItsPlace(j)
  <1>1. CASE job' = job
    BY <1>1 DEF KeepsItsPlace, LeftAlone
  <1>2. CASE Settled
    <2>1. child # NoChild
      BY <1>2, CallIsMade DEF Settled, SettleCost
    <2>2. child.job \in Jobs
      BY <2>1 DEF Types, ChildType
    <2>3. CASE job' = [job EXCEPT ![child.job].result = TRUE]
      <3>1. job' = [job EXCEPT ![child.job] = [job[child.job] EXCEPT !.result = TRUE]]
        BY <2>3 DEF Types, JobType
      <3> QED BY <2>1, <2>2, <3>1 DEF KeepsItsPlace, LeftAlone, Types, JobType
    <2> QED BY <1>1, <1>2, <2>3 DEF Settled
  <1>3. ASSUME NEW k \in Jobs, NextJob(k)
        PROVE  KeepsItsPlace(j)
    <2>1. CASE job' = NotRun(orch.rest)
      BY <2>1, NotRunTyped DEF KeepsItsPlace, LeftAlone, Types
    <2> QED BY <1>1, <1>3, <2>1 DEF NextJob
  <1>4. CASE RecordAttempt
    <2>1. child # NoChild /\ child.job \in Jobs /\ ~IsTerminal(child.job)
      BY <1>4 DEF RecordAttempt, Types, ChildType, Worth
    <2>2. ASSUME NEW status \in Statuses, job' = Attempt(child.job, status)
          PROVE  KeepsItsPlace(j)
      BY <2>1, <2>2, AttemptTyped DEF KeepsItsPlace, LeftAlone, Types
    <2>3. CASE child.code = "budget"
      <3>1. job' = [k \in Jobs |-> IF k = child.job THEN Attempt(child.job, "NOT_RUN_BUDGET")[child.job]
                                   ELSE NotRun(orch.rest)[k]]
        BY <1>4, <2>3 DEF RecordAttempt
      <3>2. "NOT_RUN_BUDGET" \in Statuses
        BY DEF Statuses
      <3> QED BY <2>1, <3>1, <3>2, AttemptTyped, NotRunTyped DEF KeepsItsPlace, LeftAlone, Types
    <2>4. CASE child.code # "budget"
      BY <1>4, <2>1, <2>2, <2>4 DEF RecordAttempt, FailedStatus, Statuses
    <2> QED BY <2>1, <2>3, <2>4
  <1>5. CASE LockTimesOut \/ BeginCall \/ Reserved \/ Refused \/ BeginSettle
             \/ (\E cost \in Prices : CallReturns(cost)) \/ EndBatch
    BY <1>1, <1>5
    DEF LockTimesOut, BeginCall, Reserved, Refused, BeginSettle, CallReturns, EndBatch, runVars
  <1>6. CASE SupervisorNext
    BY <1>1, <1>6
    DEF SupervisorNext, ConsumeGate, SavePhase, MainDone, StartBatch, StartCommand,
        FinishCommand, BatchComplete, BatchOk, BatchFailed, BatchBlocked, QuotaPause,
        BatchCrashed, BackWith
  <1>7. CASE OperatorNext \/ HostNext
    BY <1>1, <1>7
    DEF OperatorNext, Approve, Revive, ConfigChanges, ConfigRestored, HostNext, WindowPasses,
        PowerLoss, Restart, HealthAges, WatchdogRestart, StopCommand, OrchestratorCrashes,
        OrchestratorRaises, ProcessesGone
  <1>8. CASE UNCHANGED vars
    BY <1>1, <1>8 DEF vars, runVars
  <1> QED BY <1>2, <1>3, <1>4, <1>5, <1>6, <1>7, <1>8 DEF Next, ChildNext, OrchestratorNext

------------------------------------------------------------------------------
(* Who runs inside whom.                                                      *)

\* No batch, no child, no call.
LEMMA Nobody ==
  /\ NoBatch.at = "none" /\ NoBatch.left = {} /\ NoBatch.exit = ""
  /\ NoChild.job = None /\ NoChild.code = "" /\ None \notin Jobs
  /\ Idle.at = "idle" /\ Idle.bucket = None
  BY PaidRunAssumption DEF NoBatch, NoChild, Idle

\* A batch that is over, or gone, takes its job with it.
LEMMA NoBatchNested ==
  ASSUME Nested, orch.at # "running"
  PROVE  child = NoChild /\ call = Idle /\ ~Calling
  BY DEF Nested, Calling

\* The supervisor moves between batches: nobody else is there.
LEMMA SupervisorIsAlone ==
  ASSUME Types, Nested, SupervisorNext
  PROVE  /\ orch.at # "running" /\ child = NoChild /\ call = Idle
         /\ UNCHANGED <<ledgerVars, child, job, priced, fresh>>
  <1>1. orch.at # "running"
    <2>1. CASE ConsumeGate \/ SavePhase \/ MainDone \/ StartBatch \/ StartCommand \/ FinishCommand
      <3>1. sup.at \in {"loop", "save", "command"}
        BY <2>1
        DEF ConsumeGate, SavePhase, MainDone, StartBatch, StartCommand, FinishCommand, Looping
      <3> QED BY <3>1, Nobody DEF Nested
    <2>2. CASE BatchComplete \/ BatchOk \/ BatchFailed \/ BatchBlocked \/ QuotaPause \/ BatchCrashed
      BY <2>2
      DEF BatchComplete, BatchOk, BatchFailed, BatchBlocked, QuotaPause, BatchCrashed, Exited
    <2> QED BY <2>1, <2>2 DEF SupervisorNext
  <1>2. UNCHANGED <<ledgerVars, child, job, priced, fresh>>
    BY DEF SupervisorNext, ConsumeGate, SavePhase, MainDone, StartBatch, StartCommand,
           FinishCommand, BatchComplete, BatchOk, BatchFailed, BatchBlocked, QuotaPause,
           BatchCrashed, BackWith
  <1> QED BY <1>1, <1>2, NoBatchNested

\* A job's process stays the process of its job, and nobody else moves.
LEMMA ChildStays ==
  ASSUME Types, Nested, ChildNext
  PROVE  /\ child # NoChild /\ child \in ChildType /\ child' # NoChild /\ child'.job = child.job
         /\ UNCHANGED <<state, control, sup, orch, stale, fresh>>
         /\ Calling' => Calling
  <1>1. child # NoChild /\ UNCHANGED <<state, control, sup, orch, stale, fresh>> /\ Calling
    BY CallIsMade
    DEF ChildNext, LockTimesOut, BeginCall, Reserved, Refused, CallReturns, BeginSettle,
        Settled, Calling, ReserveCost, RefuseReservation, Answer, LockToSettle, SettleCost,
        runVars
  <1>2. child \in ChildType /\ child.job \in Jobs
    BY <1>1 DEF Types, ChildType
  <1>3. child'.job = child.job
    <2>1. CASE child' = child
      BY <2>1
    <2>2. CASE \E code \in {"ok", "fail", "budget", "quota"} : ExitsWith(code)
      BY <1>2, <2>2 DEF ExitsWith, ChildType
    <2>3. ASSUME NEW cost \in Prices, CallReturns(cost) PROVE child'.job = child.job
      BY <1>2, <2>3 DEF CallReturns, ChildType
    <2>4. CASE Settled
      BY <1>2, <2>2, <2>4 DEF Settled, ChildType
    <2> QED BY <2>1, <2>2, <2>3, <2>4
            DEF ChildNext, LockTimesOut, BeginCall, Reserved, Refused, BeginSettle, runVars
  <1>4. child' # NoChild
    BY <1>2, <1>3, Nobody
  <1> QED BY <1>1, <1>2, <1>3, <1>4

\* The next job is passed over, refused, or started.
LEMMA NextJobSteps ==
  ASSUME orch \in OrchType, NEW j \in Jobs, NextJob(j)
  PROVE  /\ orch.at = "next" /\ j \in orch.left
         /\ UNCHANGED <<ledgerVars, state, control, sup, priced, stale, fresh, count>>
         /\ \/ /\ IsDone(j) /\ UNCHANGED <<child, job>>
               /\ orch'.at = "next" /\ orch'.left = orch.left \ {j}
            \/ /\ ~Fits(MainBucket(j)) /\ child' = child /\ job' = NotRun(orch.rest)
               /\ orch' = Ended("budget")
            \/ /\ ~IsDone(j) /\ job' = job /\ child'.job = j /\ child'.code = ""
               /\ orch'.at = "running" /\ orch'.left = orch.left \ {j}
  <1> DEFINE on == [orch EXCEPT !.left = @ \ {j}, !.rest = @ \ {j}]
  <1>1. on \in OrchType /\ on.left = orch.left \ {j} /\ on.at = orch.at
    BY DEF OrchType
  <1>2. orch.at = "next"
    BY DEF NextJob
  <1>3. orch' = on => orch'.at = "next" /\ orch'.left = orch.left \ {j}
    BY <1>1, <1>2
  <1>4. orch' = [on EXCEPT !.at = "running", !.ran = @ + 1] =>
          orch'.at = "running" /\ orch'.left = orch.left \ {j}
    <2> HIDE DEF on
    <2> QED BY <1>1 DEF OrchType
  <1>5. ASSUME child' = [job |-> j, turn |-> 1, try |-> 1, said |-> "", code |-> ""]
        PROVE  child'.job = j /\ child'.code = ""
    <2>1. [job |-> j, turn |-> 1, try |-> 1, said |-> "", code |-> ""].job = j
      OBVIOUS
    <2>2. [job |-> j, turn |-> 1, try |-> 1, said |-> "", code |-> ""].code = ""
      OBVIOUS
    <2> QED BY <1>5, <2>1, <2>2
  <1> QED BY <1>3, <1>4, <1>5 DEF NextJob

\* The operator and the host either leave the processes alone or end them all.
LEMMA OutsideSteps ==
  ASSUME Types, Nested, OperatorNext \/ HostNext
  PROVE  /\ state'.phase = state.phase /\ control'.used = control.used /\ UNCHANGED job
         /\ \/ /\ UNCHANGED <<child, ledgerVars, priced>> /\ (fresh' = fresh \/ fresh' = {})
               /\ \/ UNCHANGED orch
                  \/ orch.at = "next" /\ orch' \in {Ended("crash"), Ended("failed")}
               /\ \/ sup' = sup
                  \/ sup' = Awake
            \/ ProcessesGone /\ sup' \in {Awake, Down}
  <1>1. ASSUME NEW g \in Gates, Approve(g)
        PROVE  control'.used = control.used
    BY <1>1 DEF Approve, Types, ControlType
  <1>2. ASSUME NEW halt, HaltWith(halt) PROVE control'.used = control.used
    BY <1>2 DEF HaltWith, Types, ControlType
  <1>3. CASE OperatorNext
    <2>1. CASE Revive
      <3>1. control'.used = control.used
        BY <1>2, <2>1 DEF Revive, HaltWith
      <3> QED BY <2>1, <3>1 DEF Revive
    <2>2. CASE ConfigChanges \/ ConfigRestored
      BY <2>2 DEF ConfigChanges, ConfigRestored, Types, ControlType
    <2> QED BY <1>1, <1>3, <2>1, <2>2 DEF OperatorNext, Approve
  <1>4. CASE WindowPasses
    BY <1>4 DEF WindowPasses, Types, StateType
  <1>5. CASE Restart \/ HealthAges \/ OrchestratorCrashes \/ OrchestratorRaises
    BY <1>5 DEF Restart, HealthAges, OrchestratorCrashes, OrchestratorRaises
  <1>6. CASE PowerLoss
    BY <1>6 DEF PowerLoss, ProcessesGone
  <1>7. CASE WatchdogRestart
    <2>1. control'.used = control.used
      BY <1>2, <1>7 DEF WatchdogRestart
    <2> QED BY <1>7, <2>1 DEF WatchdogRestart, ProcessesGone
  <1>8. CASE StopCommand
    <2>1. control'.used = control.used
      BY <1>2, <1>8 DEF StopCommand
    <2> QED BY <1>8, <2>1 DEF StopCommand, ProcessesGone
  <1> QED BY <1>3, <1>4, <1>5, <1>6, <1>7, <1>8 DEF HostNext

LEMMA NestedStep ==
  ASSUME Types, Nested, [Next]_vars
  PROVE  Nested'
  <1>1. CASE UNCHANGED vars
    BY <1>1 DEF vars, runVars, ledgerVars, Nested, Calling
  <1>2. CASE ChildNext
    <2>1. UNCHANGED <<state, control, sup, orch>> /\ child # NoChild
      BY <1>2, CallIsMade
      DEF ChildNext, LockTimesOut, BeginCall, Reserved, Refused, CallReturns, BeginSettle,
          Settled, Calling, ReserveCost, RefuseReservation, Answer, LockToSettle, SettleCost,
          runVars
    <2>2. ~Calling' => call' = Idle
      <3>1. CASE LockTimesOut
        BY <3>1 DEF LockTimesOut, ledgerVars
      <3>2. CASE BeginCall
        BY <3>2 DEF BeginCall, Calling, runVars
      <3>3. CASE Reserved
        BY <3>3, CallIsMade DEF Reserved, ReserveCost, Calling, runVars
      <3>4. CASE BeginSettle
        BY <3>4, CallIsMade DEF BeginSettle, LockToSettle, Calling, runVars
      <3>5. CASE Refused
        BY <3>5 DEF Refused, RefuseReservation
      <3>6. CASE Settled
        BY <3>6 DEF Settled, SettleCost
      <3>7. ASSUME NEW cost \in Prices, CallReturns(cost) PROVE Calling'
        <4>1. Calling /\ child \in ChildType
          BY <3>7, CallIsMade DEF CallReturns, Answer, Types
        <4>2. PICK said \in {"ok", "bad", "quota"} : child' = [child EXCEPT !.said = said]
          BY <3>7 DEF CallReturns
        <4>3. child'.code = "" /\ child'.job \in Jobs
          BY <4>1, <4>2 DEF Calling, ChildType
        <4>4. child' # NoChild
          BY <4>3, Nobody
        <4> QED BY <4>3, <4>4 DEF Calling
      <3> QED BY <1>2, <3>1, <3>2, <3>3, <3>4, <3>5, <3>6, <3>7 DEF ChildNext
    <2> QED BY <2>1, <2>2 DEF Nested
  <1>3. CASE OrchestratorNext
    <2>1. UNCHANGED <<state, control, sup, call>> /\ sup.at = "batch"
      <3>1. orch.at \in {"next", "running"} /\ UNCHANGED <<state, control, sup, ledgerVars>>
        BY <1>3 DEF OrchestratorNext, NextJob, RecordAttempt, EndBatch
      <3>2. orch # NoBatch
        BY <3>1, Nobody
      <3> QED BY <3>1, <3>2 DEF Nested, ledgerVars
    <2>2. orch'.at # "running" => child' = NoChild
      BY <1>3 DEF OrchestratorNext, NextJob, RecordAttempt, EndBatch, Nested, Types, OrchType
    <2>3. call = Idle
      BY <1>3, NoBatchNested
      DEF OrchestratorNext, NextJob, RecordAttempt, EndBatch, Nested, Calling
    <2> QED BY <2>1, <2>2, <2>3 DEF Nested
  <1>4. CASE SupervisorNext
    <2>2. child = NoChild /\ call = Idle
      BY <1>4, SupervisorIsAlone
    <2>3. UNCHANGED <<child, call>>
      BY <1>4, SupervisorIsAlone DEF ledgerVars
    <2>4. SUFFICES /\ sup'.at # "batch" => orch' = NoBatch
                   /\ control'.halt # "none" => sup'.at \in {"loop", "down"}
                   /\ sup'.at = "batch" => state'.phase \in PaidPhases
                   /\ sup'.at = "command" => state'.phase \in Commands
                   /\ sup'.at = "save" => state'.phase # "AWAIT_SEAL" /\ sup'.to = After[state'.phase]
      BY <2>2, <2>3 DEF Nested
    <2>5. /\ sup \in SupType /\ state \in StateType /\ control \in ControlType
      BY DEF Types
    <2>6. ASSUME NEW at \in SupervisorPlaces
          PROVE  [sup EXCEPT !.at = at].at = at
      BY <2>5 DEF SupType
    <2>7. MovesOn => sup'.at = "save" /\ sup'.to = After[state.phase]
      BY <2>5 DEF MovesOn, SupType
    <2>8. ASSUME NEW bad, NEW crashes, BackWith(bad, crashes)
          PROVE  sup'.at = "loop" /\ orch' = NoBatch
      BY <2>5, <2>8 DEF BackWith, SupType
    <2>9. CASE ConsumeGate
      <3>1. /\ orch' = NoBatch /\ control'.halt = "none" /\ state' = state
            /\ state.phase # "AWAIT_SEAL"
        BY <1>4, <2>5, <2>9 DEF ConsumeGate, Looping, Nested, ControlType, GateOf
      <3>2. MovesOn
        BY <2>9 DEF ConsumeGate
      <3> QED BY <2>7, <3>1, <3>2
    <2>10. CASE SavePhase
      <3>1. sup'.at = "loop" /\ orch' = NoBatch
        BY <2>5, <2>10 DEF SavePhase, SupType, Nested
      <3> QED BY <3>1
    <2>11. CASE MainDone
      <3>1. /\ orch' = NoBatch /\ control'.halt = "none" /\ state' = state
            /\ state.phase # "AWAIT_SEAL" /\ MovesOn
        BY <2>11 DEF MainDone, Looping, Nested
      <3> QED BY <2>7, <3>1
    <2>12. CASE StartBatch
      <3>1. sup'.at = "batch" /\ control'.halt = "none" /\ state' = state /\ state.phase \in PaidPhases
        BY <2>6, <2>12 DEF StartBatch, Looping, SupervisorPlaces
      <3> QED BY <3>1
    <2>13. CASE StartCommand
      <3>1. /\ sup'.at = "command" /\ control'.halt = "none" /\ state' = state
            /\ state.phase \in Commands /\ orch' = NoBatch
        BY <2>6, <2>13 DEF StartCommand, Looping, SupervisorPlaces, Nested
      <3> QED BY <3>1
    <2>14. CASE FinishCommand
      <3>1. orch' = NoBatch /\ state' = state /\ state.phase \in Commands /\ control.halt = "none"
        BY <2>14 DEF FinishCommand, Nested
      <3>2. ASSUME NEW halt, CommandHalts(halt) PROVE sup'.at = "loop"
        BY <2>6, <3>2 DEF CommandHalts, SupervisorPlaces
      <3>3. (MovesOn /\ control' = control) \/ sup'.at = "loop"
        BY <2>14, <3>2 DEF FinishCommand, FreezeEnds, AggregateEnds, VerifyEnds, CommandDone
      <3>4. state.phase # "AWAIT_SEAL"
        BY <3>1 DEF Commands
      <3> QED BY <2>7, <3>1, <3>3, <3>4
    <2>15. CASE BatchComplete
      <3>1. sup.at = "batch" /\ state.phase \in PaidPhases /\ control.halt = "none"
        BY <2>15 DEF BatchComplete, Exited, Nested
      <3>2. sup'.at = "save" /\ sup'.to = After[state.phase]
        BY <2>5, <2>15 DEF BatchComplete, SupType
      <3>3. state'.phase = state.phase
        BY <2>5, <2>15 DEF BatchComplete, StateType
      <3>4. orch' = NoBatch /\ control' = control
        BY <2>15 DEF BatchComplete
      <3> QED BY <3>1, <3>2, <3>3, <3>4 DEF PaidPhases
    <2>16. CASE BatchOk \/ BatchFailed \/ BatchBlocked \/ QuotaPause \/ BatchCrashed
      <3>1. \E bad, crashes : BackWith(bad, crashes)
        BY <2>16 DEF BatchOk, BatchFailed, BatchBlocked, QuotaPause, BatchCrashed
      <3> QED BY <2>8, <3>1
    <2> QED BY <1>4, <2>9, <2>10, <2>11, <2>12, <2>13, <2>14, <2>15, <2>16 DEF SupervisorNext
  <1>5. CASE OperatorNext
    <2>1. ASSUME NEW g \in Gates, Approve(g) PROVE Nested'
      <3>1. control'.halt = control.halt
        BY <2>1 DEF Approve, Types, ControlType
      <3> QED BY <2>1, <3>1 DEF Approve, ledgerVars, Nested, Calling
    <2>2. CASE Revive
      <3>1. /\ orch' = orch /\ child' = child /\ call' = call /\ state' = state /\ sup' = Awake
            /\ control.halt # "none"
        BY <2>2 DEF Revive, ledgerVars
      <3>2. orch = NoBatch
        BY <3>1 DEF Nested
      <3> QED BY <3>1, <3>2 DEF Nested, Calling, Awake, Down
    <2>3. CASE ConfigChanges \/ ConfigRestored
      <3>1. control'.halt = control.halt
        BY <2>3 DEF ConfigChanges, ConfigRestored, Types, ControlType
      <3> QED BY <2>3, <3>1 DEF ConfigChanges, ConfigRestored, ledgerVars, Nested, Calling
    <2> QED BY <1>5, <2>1, <2>2, <2>3 DEF OperatorNext
  <1>6. CASE HostNext
    <2>1. CASE WindowPasses
      <3>1. state'.phase = state.phase
        BY <2>1 DEF WindowPasses, Types, StateType
      <3> QED BY <2>1, <3>1 DEF WindowPasses, ledgerVars, Nested, Calling
    <2>2. CASE Restart
      <3>1. orch = NoBatch
        BY <2>2 DEF Restart, Nested
      <3> QED BY <2>2, <3>1 DEF Restart, ledgerVars, Nested, Calling, Awake, Down
    <2>3. CASE HealthAges
      BY <2>3 DEF HealthAges, ledgerVars, Nested, Calling
    <2>4. CASE OrchestratorCrashes \/ OrchestratorRaises
      <3>1. sup.at = "batch" /\ child = NoChild /\ call = Idle
        BY <2>4, NoBatchNested, Nobody DEF OrchestratorCrashes, OrchestratorRaises, Nested
      <3> QED BY <2>4, <3>1
              DEF OrchestratorCrashes, OrchestratorRaises, ledgerVars, Nested, Calling
    <2>5. ASSUME ProcessesGone
          PROVE  orch' = NoBatch /\ child' = NoChild /\ call' = Idle /\ state' = state
      BY <2>5 DEF ProcessesGone, AbandonCall
    <2>6. CASE PowerLoss \/ WatchdogRestart \/ StopCommand
      <3>1. ProcessesGone /\ sup'.at \in {"loop", "down"}
        BY <2>6 DEF PowerLoss, WatchdogRestart, StopCommand, Down, Awake
      <3> QED BY <2>5, <3>1 DEF Nested
    <2> QED BY <1>6, <2>1, <2>2, <2>3, <2>4, <2>6 DEF HostNext
  <1> QED BY <1>1, <1>2, <1>3, <1>4, <1>5, <1>6 DEF Next
------------------------------------------------------------------------------
(* Whose jobs and calls they are.                                             *)

LEMMA OfThePhaseStep ==
  ASSUME Types, Nested, OfThePhase, [Next]_vars
  PROVE  OfThePhase'
  <1>1. CASE UNCHANGED vars
    BY <1>1 DEF vars, runVars, ledgerVars, OfThePhase
  <1>2. CASE ChildNext
    <2>1. /\ child # NoChild /\ child \in ChildType /\ child'.job = child.job
          /\ UNCHANGED <<state, sup, orch>>
      BY <1>2, ChildStays
    <2>2. call' # Idle => call'.bucket = BucketOf(child'.job, child'.try)
      <3>1. CASE LockTimesOut
        BY <3>1 DEF LockTimesOut, ledgerVars
      <3>2. CASE BeginCall
        BY <3>2 DEF BeginCall, LockToReserve, runVars
      <3>3. CASE Refused \/ Settled
        BY <3>3 DEF Refused, RefuseReservation, Settled, SettleCost
      <3>4. CASE Reserved \/ BeginSettle
        <4>1. call # Idle /\ child' = child
          BY <3>4, Nobody DEF Reserved, ReserveCost, BeginSettle, LockToSettle, runVars
        <4>2. call'.bucket = call.bucket
          BY <3>4, <4>1
          DEF Reserved, ReserveCost, BeginSettle, LockToSettle, Types, LedgerTypeOK
        <4> QED BY <4>1, <4>2 DEF OfThePhase
      <3>5. ASSUME NEW cost \in Prices, CallReturns(cost)
            PROVE  call'.bucket = BucketOf(child'.job, child'.try)
        <4>1. call # Idle /\ call'.bucket = call.bucket
          BY <3>5, Nobody DEF CallReturns, Answer, Types, LedgerTypeOK
        <4>2. child'.try = child.try
          BY <2>1, <3>5 DEF CallReturns, ChildType
        <4> QED BY <2>1, <4>1, <4>2 DEF OfThePhase
      <3> QED BY <1>2, <3>1, <3>2, <3>3, <3>4, <3>5 DEF ChildNext
    <2> QED BY <2>1, <2>2 DEF OfThePhase
  <1>3. ASSUME NEW j \in Jobs, NextJob(j) PROVE OfThePhase'
    <2>1. /\ sup.at = "batch" /\ child = NoChild /\ call = Idle /\ j \in orch.left
          /\ orch \in OrchType /\ UNCHANGED <<state, sup, call>>
      BY <1>3, NoBatchNested, Nobody DEF NextJob, Nested, Types, ledgerVars
    <2>2. orch'.left \subseteq orch.left
      BY <1>3, <2>1, NextJobSteps, EndedTyped DEF Exits
    <2>3. child' = NoChild \/ child'.job = j
      BY <1>3, <2>1, NextJobSteps
    <2> QED BY <2>1, <2>2, <2>3 DEF OfThePhase
  <1>4. CASE RecordAttempt \/ EndBatch
    <2>1. /\ sup.at = "batch" /\ call = Idle /\ child' = NoChild
          /\ orch \in OrchType /\ UNCHANGED <<state, sup, call>>
      BY <1>4, NoBatchNested, Nobody
      DEF RecordAttempt, EndBatch, Nested, Calling, Types, ledgerVars
    <2>2. orch'.left \subseteq orch.left
      BY <1>4, <2>1, EndedTyped DEF RecordAttempt, EndBatch, OrchType, Exits
    <2> QED BY <2>1, <2>2 DEF OfThePhase
  <1>5. CASE SupervisorNext
    <2>1. child' = NoChild /\ call' = Idle
      BY <1>5, SupervisorIsAlone DEF ledgerVars
    <2>2. ASSUME sup'.at = "batch" PROVE orch'.left \subseteq PhaseJobs(state'.phase)
      <3>1. CASE StartBatch
        <4>1. state.phase \in PaidPhases /\ state' = state /\ orch \in OrchType
          BY <3>1 DEF StartBatch, Types
        <4>2. orch'.left \subseteq Pending(state.phase)
          BY <3>1, <4>1, Starts, EndedTyped DEF StartBatch, Exits
        <4> QED BY <4>1, <4>2 DEF Pending
      <3>2. CASE ~StartBatch
        <4>1. orch' = NoBatch
          BY <1>5, <3>2
          DEF SupervisorNext, ConsumeGate, SavePhase, MainDone, StartCommand, FinishCommand,
              BatchComplete, BatchOk, BatchFailed, BatchBlocked, QuotaPause, BatchCrashed,
              BackWith, Looping, Nested
        <4> QED BY <4>1, Nobody
      <3> QED BY <3>1, <3>2
    <2> QED BY <2>1, <2>2 DEF OfThePhase
  <1>6. CASE OperatorNext \/ HostNext
    <2>1. CASE ProcessesGone
      BY <2>1, Nobody DEF ProcessesGone, AbandonCall, OfThePhase
    <2>2. CASE ~ProcessesGone
      <3>1. /\ state'.phase = state.phase /\ UNCHANGED <<child, call>>
            /\ orch' = orch \/ orch' \in {Ended("crash"), Ended("failed")}
            /\ sup'.at = "batch" => sup.at = "batch"
        BY <1>6, <2>2, OutsideSteps DEF ledgerVars, Awake, Down
      <3>2. orch'.left \subseteq orch.left
        BY <3>1, EndedTyped DEF Types, Exits
      <3> QED BY <3>1, <3>2 DEF OfThePhase
    <2> QED BY <2>1, <2>2
  <1> QED BY <1>1, <1>2, <1>3, <1>4, <1>5, <1>6 DEF Next, OrchestratorNext

------------------------------------------------------------------------------
(* What is worth running.                                                     *)

LEMMA WorthStep ==
  ASSUME Types, Nested, Worth, [Next]_vars
  PROVE  Worth'
  <1>1. CASE UNCHANGED vars
    BY <1>1 DEF vars, runVars, Worth, IsTerminal, Counted, Calling
  <1>2. ASSUME NEW j \in Jobs, ~IsTerminal(j), child = NoChild \/ child.job # j
        PROVE  ~IsTerminal(j)' /\ (~job[j].result => ~job'[j].result)
    <2>1. LeftAlone(j)
      BY <1>2, JobSteps DEF KeepsItsPlace
    <2> QED BY <1>2, <2>1, LeftAloneTerminal DEF LeftAlone, Types
  <1>3. orch.left \subseteq Jobs
    BY DEF Types, OrchType
  <1>4. CASE ChildNext
    <2>1. /\ child # NoChild /\ child \in ChildType /\ child'.job = child.job /\ child.job \in Jobs
          /\ orch' = orch /\ child' # NoChild /\ (Calling' => Calling)
      BY <1>4, ChildStays DEF ChildType
    <2>2. \A j \in orch.left : ~IsTerminal(j)'
      BY <1>2, <1>3, <2>1 DEF Worth
    <2>3. job' = job \/ (Settled /\ job' = [job EXCEPT ![child.job].result = TRUE] /\ ExitsWith("ok"))
      BY <1>4
      DEF ChildNext, LockTimesOut, BeginCall, Reserved, Refused, CallReturns, BeginSettle,
          Settled, runVars
    <2>4. ~IsTerminal(child.job)'
      <3>1. job'[child.job].status = job[child.job].status
            /\ job'[child.job].attempts = job[child.job].attempts
        BY <2>1, <2>3 DEF Types, JobType
      <3> QED BY <2>1, <3>1 DEF Worth, IsTerminal, Counted
    <2>5. Calling' => ~job'[child'.job].result
      <3>1. ASSUME ExitsWith("ok") PROVE ~Calling'
        BY <2>1, <3>1 DEF Calling, ExitsWith, ChildType
      <3>2. ASSUME Calling' PROVE job' = job /\ ~job[child.job].result
        BY <2>1, <2>3, <3>1, <3>2 DEF Worth
      <3> QED BY <2>1, <3>2
    <2> QED BY <2>1, <2>2, <2>4, <2>5 DEF Worth
  <1>5. ASSUME NEW j \in Jobs, NextJob(j) PROVE Worth'
    <2>1. child = NoChild /\ j \in orch.left /\ orch \in OrchType
      BY <1>5, NoBatchNested DEF NextJob, Types
    <2>2. \A k \in orch.left : ~IsTerminal(k)'
      BY <1>2, <1>3, <2>1 DEF Worth
    <2>3. orch'.left \subseteq orch.left \ {j} \/ (orch'.left = {} /\ child' = NoChild)
      BY <1>5, <2>1, NextJobSteps, EndedTyped DEF Exits
    <2>4. child' = NoChild \/ (child'.job = j /\ ~IsDone(j) /\ job' = job)
      BY <1>5, <2>1, NextJobSteps
    <2> QED BY <2>1, <2>2, <2>3, <2>4 DEF Worth, IsDone, Calling
  <1>6. CASE RecordAttempt \/ EndBatch
    <2>1. child' = NoChild /\ orch \in OrchType
      BY <1>6 DEF RecordAttempt, EndBatch, Nested, Types
    <2>2. orch'.left \subseteq orch.left
      BY <1>6, <2>1, EndedTyped DEF RecordAttempt, EndBatch, OrchType, Exits
    <2>3. \A j \in orch.left : child = NoChild \/ child.job # j
      BY DEF Worth
    <2>4. \A j \in orch.left : ~IsTerminal(j)'
      BY <1>2, <1>3, <2>3 DEF Worth
    <2> QED BY <2>1, <2>2, <2>4 DEF Worth, Calling
  <1>7. CASE SupervisorNext
    <2>1. child' = NoChild /\ child = NoChild /\ job' = job
      BY <1>7, SupervisorIsAlone
    <2>2. \A j \in orch'.left : ~IsTerminal(j)
      <3>1. CASE StartBatch
        <4>1. state.phase \in PaidPhases /\ orch \in OrchType
          BY <3>1 DEF StartBatch, Types
        <4>2. orch'.left \subseteq Pending(state.phase)
          BY <3>1, <4>1, Starts, EndedTyped DEF StartBatch, Exits
        <4> QED BY <4>2 DEF Pending
      <3>2. CASE ~StartBatch
        <4>1. orch' = orch \/ orch' = NoBatch
          BY <1>7, <3>2
          DEF SupervisorNext, ConsumeGate, SavePhase, MainDone, StartCommand, FinishCommand,
              BatchComplete, BatchOk, BatchFailed, BatchBlocked, QuotaPause, BatchCrashed,
              BackWith
        <4> QED BY <4>1, Nobody DEF Worth
      <3> QED BY <3>1, <3>2
    <2> QED BY <2>1, <2>2 DEF Worth, IsTerminal, Counted, Calling
  <1>8. CASE OperatorNext \/ HostNext
    <2>1. CASE ProcessesGone
      BY <2>1, Nobody DEF ProcessesGone, Worth, Calling
    <2>2. CASE ~ProcessesGone
      <3>1. /\ UNCHANGED <<child, job>>
            /\ orch' = orch \/ orch' \in {Ended("crash"), Ended("failed")}
        BY <1>8, <2>2, OutsideSteps
      <3>2. orch'.left \subseteq orch.left
        BY <3>1, EndedTyped DEF Types, Exits
      <3> QED BY <3>1, <3>2 DEF Worth, IsTerminal, Counted, Calling
    <2> QED BY <2>1, <2>2
  <1> QED BY <1>1, <1>4, <1>5, <1>6, <1>7, <1>8 DEF Next, OrchestratorNext
------------------------------------------------------------------------------
(* Results are in before a phase is over.                                     *)

AllDone(p) == \A j \in PhaseJobs(p) : IsDone(j)
Over(p) == state.phase \in LaterThan(p) \/ (sup.at = "save" /\ sup.to \in LaterThan(p))

ResultsAreIn ==
  /\ \A p \in PaidPhases : Over(p) => AllDone(p)
  /\ orch.at = "done" /\ orch.exit = "complete" => AllDone(state.phase)

\* Only a paid phase leads to where its results are needed.
LEMMA LaterPhases ==
  ASSUME NEW p \in PaidPhases, NEW q \in DOMAIN After, After[q] \in LaterThan(p)
  PROVE  q \in LaterThan(p) \/ (q = p /\ q \in PaidPhases)
  BY DEF After, LaterThan, PaidPhases

LEMMA ResultsAreInStep ==
  ASSUME Types, Nested, Worth, ResultsAreIn, [Next]_vars
  PROVE  ResultsAreIn'
  <1>1. ASSUME NEW p \in PaidPhases, AllDone(p) PROVE AllDone(p)'
    <2>1. ASSUME NEW j \in PhaseJobs(p) PROVE job[j].result => job'[j].result
      <3>1. j \in Jobs
        BY <2>1 DEF PhaseJobs, Jobs
      <3> QED BY <3>1, JobSteps DEF KeepsItsPlace
    <2> QED BY <1>1, <2>1 DEF AllDone, IsDone
  <1>2. SUFFICES /\ \A p \in PaidPhases : Over(p)' => Over(p) \/ AllDone(p)
                 /\ orch'.at = "done" /\ orch'.exit = "complete" =>
                      state'.phase \in PaidPhases /\ AllDone(state'.phase)
    BY <1>1 DEF ResultsAreIn
  <1>3. CASE UNCHANGED <<state, sup, orch>>
    <2>1. orch.at = "done" => state.phase \in PaidPhases
      BY Nobody DEF Nested
    <2> QED BY <1>3, <2>1 DEF Over, ResultsAreIn
  <1>4. CASE ChildNext \/ UNCHANGED vars
    BY <1>3, <1>4, ChildStays DEF vars, runVars
  <1>5. CASE OrchestratorNext
    <2>1. /\ UNCHANGED <<state, sup>>
          /\ orch'.at = "done" => orch'.exit \in {"budget", "quota", "failed", "ok"}
      <3>1. ASSUME NEW j \in Jobs, NextJob(j)
            PROVE  UNCHANGED <<state, sup>> /\ (orch'.at = "done" => orch'.exit = "budget")
        BY <3>1, NextJobSteps, EndedTyped DEF Types, Exits
      <3>2. CASE RecordAttempt
        <4>1. orch'.at = "next" \/ orch' = Ended("budget") \/ orch' = Ended("quota")
          BY <3>2 DEF RecordAttempt, Types, OrchType
        <4> QED BY <3>2, <4>1, EndedTyped DEF RecordAttempt, Types, Exits
      <3>3. CASE EndBatch
        BY <3>3, EndedTyped DEF EndBatch, Types, Exits
      <3> QED BY <1>5, <3>1, <3>2, <3>3 DEF OrchestratorNext
    <2> QED BY <2>1 DEF Over
  <1>6. CASE SupervisorNext
    <2>1. sup \in SupType /\ state \in StateType /\ orch \in OrchType
      BY DEF Types
    <2>2. ASSUME MovesOn, state' = state, state.phase \in DOMAIN After \ PaidPhases, NEW p \in PaidPhases
          PROVE  Over(p)' => Over(p)
      <3>1. sup'.to = After[state.phase]
        BY <2>1, <2>2 DEF MovesOn, SupType
      <3> QED BY <2>2, <3>1, LaterPhases DEF Over
    <2>3. CASE ConsumeGate \/ MainDone
      <3>1. state.phase \in DOMAIN After \ PaidPhases
        BY <2>3, PhasesFollow DEF ConsumeGate, MainDone, GateOf, PaidPhases
      <3>2. MovesOn /\ state' = state /\ orch' = orch /\ sup.at = "loop"
        BY <2>3 DEF ConsumeGate, MainDone, Looping
      <3>3. orch'.at # "done"
        BY <3>2, Nobody DEF Nested
      <3> QED BY <2>2, <3>1, <3>2, <3>3
    <2>4. CASE SavePhase
      <3>1. state'.phase = sup.to /\ sup'.at = "loop" /\ sup.at = "save" /\ orch' = orch
        BY <2>1, <2>4 DEF SavePhase, SupType, StateType
      <3>2. orch'.at # "done"
        BY <3>1, Nobody DEF Nested
      <3> QED BY <3>1, <3>2 DEF Over
    <2>5. CASE StartBatch
      <3>1. state' = state /\ sup'.at = "batch" /\ state.phase \in PaidPhases
        BY <2>1, <2>5 DEF StartBatch, SupType
      <3>2. ASSUME orch'.exit = "complete" PROVE AllDone(state.phase)
        <4>1. Ended("drift").exit = "drift" /\ Ended("failed").exit = "failed"
          BY <2>1, EndedTyped DEF Exits
        <4>2. Pending(state.phase) = {} /\ Terminal(state.phase) = {}
          BY <2>1, <2>5, <3>1, <3>2, <4>1, Starts DEF StartBatch
        <4> QED BY <4>2 DEF Pending, Terminal, AllDone
      <3> QED BY <3>1, <3>2 DEF Over
    <2>6. CASE StartCommand
      <3>1. state' = state /\ orch' = orch /\ sup'.at = "command" /\ sup.at = "loop"
        BY <2>1, <2>6 DEF StartCommand, Looping, SupType
      <3>2. orch'.at # "done"
        BY <3>1, Nobody DEF Nested
      <3> QED BY <3>1, <3>2 DEF Over
    <2>7. CASE FinishCommand
      <3>1. /\ state' = state /\ orch' = orch /\ sup.at = "command"
            /\ state.phase \in DOMAIN After \ PaidPhases
        BY <2>7, PhasesFollow DEF FinishCommand, Commands, PaidPhases
      <3>2. orch'.at # "done"
        BY <3>1, Nobody DEF Nested
      <3>3. ASSUME NEW halt, CommandHalts(halt) PROVE sup'.at = "loop"
        BY <2>1, <3>3 DEF CommandHalts, SupType
      <3>4. MovesOn \/ sup'.at = "loop"
        BY <2>7, <3>3 DEF FinishCommand, FreezeEnds, AggregateEnds, VerifyEnds, CommandDone
      <3> QED BY <2>2, <3>1, <3>2, <3>4 DEF Over
    <2>8. CASE BatchComplete
      <3>1. /\ state.phase \in PaidPhases /\ state'.phase = state.phase /\ orch' = NoBatch
            /\ sup'.to = After[state.phase] /\ AllDone(state.phase)
        BY <2>1, <2>8 DEF BatchComplete, Exited, Nested, SupType, StateType, ResultsAreIn
      <3>2. \A p \in PaidPhases : Over(p)' => Over(p) \/ p = state.phase
        BY <3>1, PhasesFollow, LaterPhases DEF Over
      <3> QED BY <3>1, <3>2, Nobody
    <2>9. CASE BatchOk \/ BatchFailed \/ BatchBlocked \/ QuotaPause \/ BatchCrashed
      <3>1. \E bad, crashes : BackWith(bad, crashes)
        BY <2>9 DEF BatchOk, BatchFailed, BatchBlocked, QuotaPause, BatchCrashed
      <3>2. sup'.at = "loop" /\ orch' = NoBatch
        BY <2>1, <3>1 DEF BackWith, SupType
      <3>3. state'.phase = state.phase
        BY <2>1, <2>9 DEF BatchOk, BatchFailed, BatchBlocked, QuotaPause, BatchCrashed, StateType
      <3> QED BY <3>2, <3>3, Nobody DEF Over
    <2> QED BY <1>6, <2>3, <2>4, <2>5, <2>6, <2>7, <2>8, <2>9 DEF SupervisorNext
  <1>7. CASE OperatorNext \/ HostNext
    <2>1. state'.phase = state.phase /\ (sup' = sup \/ sup'.at # "save")
      BY <1>7, OutsideSteps DEF Awake, Down
    <2>2. orch' = NoBatch \/ orch' = orch \/ orch' \in {Ended("crash"), Ended("failed")}
      BY <1>7, OutsideSteps DEF ProcessesGone
    <2>3. Ended("crash").exit = "crash" /\ Ended("failed").exit = "failed"
      BY EndedTyped DEF Types, Exits
    <2>4. orch.at = "done" => state.phase \in PaidPhases
      BY Nobody DEF Nested
    <2> QED BY <2>1, <2>2, <2>3, <2>4, Nobody DEF Over, ResultsAreIn
  <1> QED BY <1>4, <1>5, <1>6, <1>7 DEF Next

------------------------------------------------------------------------------
(* Approvals come before money.                                               *)

\* The gates a phase asks for before it.
Needed(q) ==
  CASE q = "READY" -> {}
    [] q \in {"CALIBRATION", "CALIB_DONE"} -> {"calibration"}
    [] q \in {"FREEZE", "FROZEN"} -> {"calibration", "freeze"}
    [] OTHER -> Gates

GatesAreUsed ==
  /\ Needed(state.phase) \subseteq control.used
  /\ sup.at = "save" => Needed(sup.to) \subseteq control.used

LEMMA NeededGates ==
  /\ \A q \in DOMAIN GateOf : Needed(After[q]) \subseteq Needed(q) \cup {GateOf[q]}
  /\ \A q \in DOMAIN After \ DOMAIN GateOf : Needed(After[q]) \subseteq Needed(q)
  /\ \A q \in PaidPhases : "calibration" \in Needed(q)
  /\ Needed("MAIN") = Gates
  BY DEF After, GateOf, Needed, Gates, PaidPhases

LEMMA GatesAreUsedStep ==
  ASSUME Types, Nested, GatesAreUsed, [Next]_vars
  PROVE  GatesAreUsed'
  <1>1. /\ sup \in SupType /\ state \in StateType /\ control \in ControlType
    BY DEF Types
  <1>2. CASE UNCHANGED <<state, control, sup>>
    BY <1>2 DEF GatesAreUsed
  <1>3. CASE UNCHANGED vars \/ ChildNext \/ OrchestratorNext
    BY <1>2, <1>3, ChildStays
    DEF OrchestratorNext, NextJob, RecordAttempt, EndBatch, vars, runVars
  <1>4. CASE OperatorNext \/ HostNext
    BY <1>4, OutsideSteps DEF GatesAreUsed, Awake, Down
  <1>5. CASE SupervisorNext
    <2>1. ASSUME NEW halt, HaltWith(halt) PROVE control'.used = control.used
      BY <1>1, <2>1 DEF HaltWith, ControlType
    <2>2. CASE ConsumeGate
      <3>1. /\ state' = state /\ sup'.to = After[state.phase] /\ state.phase \in DOMAIN GateOf
            /\ control'.used = control.used \cup {GateOf[state.phase]}
        BY <1>1, <2>2 DEF ConsumeGate, MovesOn, SupType, ControlType
      <3> QED BY <3>1, NeededGates DEF GatesAreUsed
    <2>3. ASSUME MovesOn, state' = state, control' = control,
                 state.phase \in DOMAIN After \ DOMAIN GateOf
          PROVE  GatesAreUsed'
      <3>1. sup'.to = After[state.phase]
        BY <1>1, <2>3 DEF MovesOn, SupType
      <3> QED BY <2>3, <3>1, NeededGates DEF GatesAreUsed
    <2>4. ASSUME sup'.at # "save", state'.phase = state.phase, control'.used = control.used
          PROVE  GatesAreUsed'
      BY <2>4 DEF GatesAreUsed
    <2>5. CASE SavePhase
      <3>1. state'.phase = sup.to /\ sup'.at = "loop" /\ sup.at = "save" /\ control' = control
        BY <1>1, <2>5 DEF SavePhase, SupType, StateType
      <3> QED BY <3>1 DEF GatesAreUsed
    <2>6. CASE MainDone
      <3>1. state.phase \in DOMAIN After \ DOMAIN GateOf
        BY <2>6 DEF MainDone, After, GateOf
      <3> QED BY <2>3, <2>6, <3>1 DEF MainDone
    <2>7. CASE StartBatch \/ StartCommand
      <3>1. sup'.at # "save"
        BY <1>1, <2>7 DEF StartBatch, StartCommand, SupType
      <3> QED BY <2>4, <2>7, <3>1 DEF StartBatch, StartCommand
    <2>8. CASE FinishCommand
      <3>1. state' = state /\ state.phase \in DOMAIN After \ DOMAIN GateOf
        BY <2>8 DEF FinishCommand, After, GateOf
      <3>2. ASSUME NEW halt, CommandHalts(halt) PROVE sup'.at = "loop" /\ control'.used = control.used
        BY <1>1, <2>1, <3>2 DEF CommandHalts, SupType
      <3>3. (MovesOn /\ control' = control) \/ (sup'.at = "loop" /\ control'.used = control.used)
        BY <2>8, <3>2 DEF FinishCommand, FreezeEnds, AggregateEnds, VerifyEnds, CommandDone
      <3> QED BY <2>3, <2>4, <3>1, <3>3
    <2>9. CASE BatchComplete
      <3>1. /\ state'.phase = state.phase /\ sup'.to = After[state.phase] /\ control' = control
            /\ state.phase \in DOMAIN After \ DOMAIN GateOf
        BY <1>1, <2>9
        DEF BatchComplete, Exited, Nested, SupType, StateType, PaidPhases, After, GateOf
      <3> QED BY <3>1, NeededGates DEF GatesAreUsed
    <2>10. CASE BatchOk \/ BatchFailed \/ BatchBlocked \/ QuotaPause \/ BatchCrashed
      <3>1. \E bad, crashes : BackWith(bad, crashes)
        BY <2>10 DEF BatchOk, BatchFailed, BatchBlocked, QuotaPause, BatchCrashed
      <3>2. sup'.at = "loop"
        BY <1>1, <3>1 DEF BackWith, SupType
      <3>3. state'.phase = state.phase
        BY <1>1, <2>10 DEF BatchOk, BatchFailed, BatchBlocked, QuotaPause, BatchCrashed, StateType
      <3>4. control'.used = control.used
        BY <2>1, <2>10 DEF BatchOk, BatchFailed, BatchBlocked, QuotaPause, BatchCrashed
      <3> QED BY <2>4, <3>2, <3>3, <3>4
    <2> QED BY <1>5, <2>2, <2>5, <2>6, <2>7, <2>8, <2>9, <2>10 DEF SupervisorNext
  <1> QED BY <1>3, <1>4, <1>5 DEF Next

\* A gate that was used stays so.
LEMMA UsedGates ==
  ASSUME Types, Nested, [Next]_vars
  PROVE  control.used \subseteq control'.used /\ control'.used \subseteq Gates
  <1>1. control \in ControlType
    BY DEF Types
  <1>2. ASSUME NEW halt, HaltWith(halt) PROVE control'.used = control.used
    BY <1>1, <1>2 DEF HaltWith, ControlType
  <1>3. CASE UNCHANGED control
    BY <1>1, <1>3 DEF ControlType
  <1>4. CASE UNCHANGED vars \/ ChildNext \/ OrchestratorNext
    BY <1>3, <1>4, ChildStays
    DEF OrchestratorNext, NextJob, RecordAttempt, EndBatch, vars, runVars
  <1>5. CASE OperatorNext \/ HostNext
    BY <1>1, <1>5, OutsideSteps DEF ControlType
  <1>6. CASE ConsumeGate
    <2>1. GateOf[state.phase] \in Gates
      BY <1>6, PhasesFollow DEF ConsumeGate
    <2> QED BY <1>1, <1>6, <2>1 DEF ConsumeGate, ControlType
  <1>7. ASSUME SupervisorNext, ~ConsumeGate
        PROVE  UNCHANGED control \/ \E halt \in Halts : HaltWith(halt)
    BY <1>7
    DEF SupervisorNext, SavePhase, MainDone, StartBatch, StartCommand, FinishCommand,
        FreezeEnds, AggregateEnds, VerifyEnds, CommandHalts, CommandDone, BatchComplete,
        BatchOk, BatchFailed, BatchBlocked, QuotaPause, BatchCrashed, Halts
  <1> QED BY <1>1, <1>2, <1>3, <1>4, <1>5, <1>6, <1>7 DEF Next, ControlType

\* Money that is spent now is spent in a bucket of the phase.
LEMMA PaidAfterApprovalStep ==
  ASSUME Types, Nested, OfThePhase, GatesAreUsed, PaidAfterApproval, [Next]_vars
  PROVE  PaidAfterApproval'
  <1>1. control.used \subseteq control'.used /\ control'.used \subseteq Gates
    BY UsedGates
  <1>2. billed' = billed \/ (call.at = "calling" /\ \E cost \in Prices :
                               billed' = [billed EXCEPT ![call.bucket] = @ + cost])
    BY RunStepsLedger
    DEF LedgerNext, ledgerVars, LockToReserve, ReserveCost, RefuseReservation, Answer,
        LockToSettle, SettleCost, AbandonCall
  <1>3. billed \in [Buckets -> Nat] /\ Buckets = {"calibration", "r2_main", "r3_main", "retry"}
    BY PaidRunAssumption DEF Types, LedgerTypeOK
  <1>4. CASE billed' = billed
    BY <1>1, <1>4 DEF PaidAfterApproval
  <1>5. ASSUME call.at = "calling", NEW cost \in Prices,
               billed' = [billed EXCEPT ![call.bucket] = @ + cost]
        PROVE  PaidAfterApproval'
    <2>1. /\ child # NoChild /\ call # Idle /\ sup.at = "batch" /\ state.phase \in PaidPhases
          /\ call.bucket \in Buckets /\ call.bucket = BucketOf(child.job, child.try)
          /\ child.job \in PhaseJobs(state.phase)
      BY <1>3, <1>5, CallIsMade, Nobody DEF Nested, OfThePhase, BucketOf, MainBucket
    <2>2. "calibration" \in control.used
      BY <2>1, NeededGates DEF GatesAreUsed
    <2>3. ASSUME call.bucket \in {"r2_main", "r3_main"} PROVE control.used = Gates
      <3>1. child.job \notin CalibrationJobs
        BY <2>1, <2>3 DEF BucketOf, MainBucket
      <3>2. state.phase = "MAIN"
        BY <2>1, <3>1 DEF PhaseJobs, PaidPhases
      <3>3. control.used \subseteq Gates
        BY <1>1
      <3> QED BY <3>2, <3>3, NeededGates DEF GatesAreUsed
    <2>4. \A b \in Buckets \ {call.bucket} : billed'[b] = billed[b]
      BY <1>3, <1>5
    <2>5. CASE call.bucket \in {"r2_main", "r3_main"}
      BY <1>1, <2>2, <2>3, <2>5 DEF PaidAfterApproval
    <2>6. CASE call.bucket \in {"calibration", "retry"}
      BY <1>1, <1>3, <2>2, <2>4, <2>6 DEF PaidAfterApproval
    <2> QED BY <1>3, <2>1, <2>5, <2>6
  <1> QED BY <1>2, <1>4, <1>5
------------------------------------------------------------------------------
(* Why a budget is exhausted.                                                 *)

Exhausted == ledger.halted \/ lock \/ \E b \in Buckets : ~Fits(b)
SaysExhausted ==
  \/ child.code = "budget"
  \/ orch.at = "done" /\ orch.exit = "budget"
  \/ control.halt = "budget_exhausted"
CauseIsKnown == SaysExhausted => Exhausted

\* The ledger is left alone while no job runs.
LEMMA LedgerRests ==
  ASSUME Types, Nested, [Next]_vars, ~Calling
  PROVE  UNCHANGED <<ledger, lock>>
  <1>1. call = Idle
    BY DEF Nested
  <1>2. CASE ChildNext
    <2>1. call.at # "idle" \/ Calling
      BY <1>2
      DEF ChildNext, LockTimesOut, BeginCall, Reserved, ReserveCost, Refused, RefuseReservation,
          CallReturns, Answer, BeginSettle, LockToSettle, Settled, SettleCost
    <2> QED BY <1>1, <2>1, Nobody
  <1>3. CASE SupervisorNext
    BY <1>3, SupervisorIsAlone DEF ledgerVars
  <1>4. CASE OperatorNext \/ HostNext
    <2>1. UNCHANGED ledgerVars \/ AbandonCall
      BY <1>4, OutsideSteps DEF ProcessesGone
    <2> QED BY <1>1, <2>1, Nobody DEF AbandonCall, ledgerVars
  <1>5. CASE UNCHANGED vars \/ OrchestratorNext
    BY <1>5 DEF OrchestratorNext, NextJob, RecordAttempt, EndBatch, vars, ledgerVars
  <1> QED BY <1>2, <1>3, <1>4, <1>5 DEF Next

LEMMA CauseIsKnownStep ==
  ASSUME Types, Nested, OfThePhase, CauseIsKnown, [Next]_vars
  PROVE  CauseIsKnown'
  <1>1. ASSUME UNCHANGED <<ledger, lock>>, Exhausted PROVE Exhausted'
    BY <1>1 DEF Exhausted, Fits, Booked
  <1>2. SaysExhausted => ~Calling
    <2>1. ASSUME orch.at = "done" PROVE ~Calling
      BY <2>1, NoBatchNested
    <2>2. ASSUME control.halt = "budget_exhausted" PROVE ~Calling
      BY <2>2, NoBatchNested, Nobody DEF Nested
    <2> QED BY <2>1, <2>2 DEF SaysExhausted, Calling
  <1>3. CASE SaysExhausted
    BY <1>1, <1>2, <1>3, LedgerRests DEF CauseIsKnown
  <1>4. ASSUME ~SaysExhausted, SaysExhausted' PROVE Exhausted'
    <2>1. CASE ChildNext
      <3>1. UNCHANGED <<orch, control>> /\ child \in ChildType
        BY <2>1, ChildStays
      <3>2. child'.code = "budget" /\ child.code # "budget"
        BY <1>4, <3>1 DEF SaysExhausted
      <3>3. LockTimesOut \/ Refused
        <4>1. ASSUME NEW code \in {"ok", "fail", "quota"}, ExitsWith(code) PROVE FALSE
          BY <3>1, <3>2, <4>1 DEF ExitsWith, ChildType
        <4>2. ASSUME Settled PROVE FALSE
          BY <3>1, <3>2, <4>1, <4>2 DEF Settled, ChildType
        <4>3. ASSUME NEW cost \in Prices, CallReturns(cost) PROVE FALSE
          BY <3>1, <3>2, <4>3 DEF CallReturns, ChildType
        <4> QED BY <2>1, <3>2, <4>2, <4>3
                DEF ChildNext, BeginCall, Reserved, BeginSettle, runVars
      <3>4. CASE LockTimesOut
        BY <3>4 DEF LockTimesOut, ledgerVars, Exhausted
      <3>5. CASE Refused
        <4>1. call.bucket \in Buckets /\ ~Fits(call.bucket) /\ ledger' = ledger
          BY <3>5, Nobody DEF Refused, RefuseReservation, Types, LedgerTypeOK
        <4> QED BY <4>1 DEF Exhausted, Fits, Booked
      <3> QED BY <3>3, <3>4, <3>5
    <2>2. ASSUME NEW j \in Jobs, NextJob(j) PROVE Exhausted'
      <3>1. UNCHANGED <<control, ledger, lock>> /\ orch \in OrchType
        BY <2>2 DEF NextJob, ledgerVars, Types
      <3>2. ~Fits(MainBucket(j))
        BY <1>4, <2>2, <3>1, NextJobSteps DEF SaysExhausted
      <3>3. MainBucket(j) \in Buckets
        BY PaidRunAssumption DEF MainBucket
      <3> QED BY <3>1, <3>2, <3>3 DEF Exhausted, Fits, Booked
    <2>3. CASE RecordAttempt
      <3>1. control' = control /\ child' = NoChild /\ orch \in OrchType
        BY <2>3 DEF RecordAttempt, Types
      <3>2. child.code # "budget" => orch'.at = "next" \/ orch' = Ended("quota")
        BY <2>3, <3>1 DEF RecordAttempt, OrchType
      <3>3. Ended("quota").exit = "quota"
        BY <3>1, EndedTyped DEF Exits
      <3> QED BY <1>4, <3>1, <3>2, <3>3, Nobody DEF SaysExhausted
    <2>4. CASE EndBatch
      <3>1. Ended("failed").exit = "failed" /\ Ended("ok").exit = "ok"
        BY EndedTyped DEF Types, Exits
      <3> QED BY <1>4, <2>4, <3>1 DEF EndBatch, SaysExhausted
    <2>5. CASE SupervisorNext
      <3>1. child' = NoChild /\ control \in ControlType /\ orch \in OrchType
        BY <2>5, SupervisorIsAlone DEF Types
      <3>2. ASSUME NEW halt \in Halts \ {"budget_exhausted"}, HaltWith(halt)
            PROVE  control'.halt # "budget_exhausted"
        BY <3>1, <3>2 DEF HaltWith, ControlType
      <3>3. CASE StartBatch
        <4>1. state.phase \in PaidPhases /\ control' = control
          BY <3>3 DEF StartBatch
        <4>2. orch'.at = "done" => orch'.exit # "budget"
          BY <3>1, <3>3, <4>1, Starts, EndedTyped DEF StartBatch, Exits
        <4> QED BY <1>4, <3>1, <4>1, <4>2, Nobody DEF SaysExhausted
      <3>4. CASE ~StartBatch
        <4>1. orch' = orch \/ orch' = NoBatch
          BY <2>5, <3>4
          DEF SupervisorNext, ConsumeGate, SavePhase, MainDone, StartCommand, FinishCommand,
              BatchComplete, BatchOk, BatchFailed, BatchBlocked, QuotaPause, BatchCrashed,
              BackWith
        <4>2. control'.halt # "budget_exhausted"
          <5>1. CASE BatchBlocked
            BY <1>4, <5>1, <3>1 DEF BatchBlocked, Exited, SaysExhausted, HaltWith, ControlType
          <5>2. CASE ConsumeGate
            BY <1>4, <5>2, <3>1 DEF ConsumeGate, SaysExhausted, ControlType
          <5>3. CASE ~BatchBlocked /\ ~ConsumeGate
            <6>1. UNCHANGED control \/ \E halt \in Halts \ {"budget_exhausted"} : HaltWith(halt)
              BY <2>5, <5>3
              DEF SupervisorNext, SavePhase, MainDone, StartBatch, StartCommand, FinishCommand,
                  FreezeEnds, AggregateEnds, VerifyEnds, CommandHalts, CommandDone,
                  BatchComplete, BatchOk, BatchFailed, QuotaPause, BatchCrashed, Halts
            <6> QED BY <1>4, <3>2, <6>1 DEF SaysExhausted
          <5> QED BY <5>1, <5>2, <5>3
        <4> QED BY <1>4, <3>1, <4>1, <4>2, Nobody DEF SaysExhausted
      <3> QED BY <3>3, <3>4
    <2>6. CASE OperatorNext \/ HostNext
      <3>1. control \in ControlType
        BY DEF Types
      <3>2. child' = child \/ child' = NoChild
        BY <2>6, OutsideSteps DEF ProcessesGone
      <3>3. orch' = orch \/ orch' = NoBatch \/ orch' = Ended("crash") \/ orch' = Ended("failed")
        BY <2>6, OutsideSteps DEF ProcessesGone
      <3>4. Ended("crash").exit = "crash" /\ Ended("failed").exit = "failed"
        BY EndedTyped DEF Types, Exits
      <3>5. control'.halt # "budget_exhausted"
        <4>1. CASE \E g \in Gates : Approve(g)
          BY <1>4, <3>1, <4>1 DEF Approve, SaysExhausted, ControlType
        <4>2. CASE Revive
          BY <3>1, <4>2 DEF Revive, ControlType
        <4>3. CASE UNCHANGED control
          BY <1>4, <4>3 DEF SaysExhausted
        <4>4. ASSUME NEW halt \in Halts \ {"budget_exhausted"}, HaltWith(halt)
              PROVE  control'.halt # "budget_exhausted"
          BY <3>1, <4>4 DEF HaltWith, ControlType
        <4>5. CASE StopCommand
          <5>1. state.phase \in Commands
            BY <4>5 DEF StopCommand, Nested
          <5>2. \E halt \in Halts \ {"budget_exhausted"} : HaltWith(halt)
            BY <4>5, <5>1 DEF StopCommand, Commands, Halts
          <5> QED BY <4>4, <5>2
        <4>6. CASE WatchdogRestart
          BY <4>3, <4>4, <4>6 DEF WatchdogRestart, Halts
        <4>7. CASE ConfigChanges \/ ConfigRestored
          BY <1>4, <3>1, <4>7 DEF ConfigChanges, ConfigRestored, SaysExhausted, ControlType
        <4> QED BY <2>6, <4>1, <4>2, <4>3, <4>5, <4>6, <4>7
                DEF OperatorNext, HostNext, WindowPasses, PowerLoss, Restart, HealthAges,
                    OrchestratorCrashes, OrchestratorRaises
      <3> QED BY <1>4, <3>2, <3>3, <3>4, <3>5, Nobody DEF SaysExhausted
    <2>7. CASE UNCHANGED vars
      BY <1>4, <2>7 DEF vars, runVars, SaysExhausted
    <2> QED BY <2>1, <2>2, <2>3, <2>4, <2>5, <2>6, <2>7 DEF Next, OrchestratorNext
  <1> QED BY <1>3, <1>4 DEF CauseIsKnown

------------------------------------------------------------------------------
(* Jobs that failed for good.                                                 *)

\* Nothing makes such a job run again.
LEMMA TerminalStep ==
  ASSUME Types, Nested, Worth, [Next]_vars, NEW j \in Jobs, job[j].status = "FAILED_TERMINAL"
  PROVE  job'[j].status = "FAILED_TERMINAL" /\ child'.job # j
  <1>1. IsTerminal(j)
    BY DEF IsTerminal
  <1>2. child = NoChild \/ child.job # j
    BY <1>1 DEF Worth
  <1>3. job'[j].status = "FAILED_TERMINAL"
    BY <1>2, JobSteps DEF KeepsItsPlace, LeftAlone
  <1>4. child.job # j
    BY <1>2, Nobody
  <1>5. CASE ChildNext
    BY <1>3, <1>4, <1>5, ChildStays
  <1>6. ASSUME NEW k \in Jobs, NextJob(k) PROVE child'.job # j
    <2>1. k \in orch.left /\ (child' = child \/ child'.job = k)
      BY <1>6, NextJobSteps DEF Types
    <2> QED BY <1>1, <1>4, <2>1 DEF Worth
  <1>7. CASE UNCHANGED child \/ child' = NoChild
    BY <1>3, <1>4, <1>7, Nobody
  <1>8. CASE SupervisorNext \/ OperatorNext \/ HostNext \/ UNCHANGED vars \/ RecordAttempt \/ EndBatch
    BY <1>7, <1>8, SupervisorIsAlone, OutsideSteps
    DEF ProcessesGone, RecordAttempt, EndBatch, vars, runVars
  <1> QED BY <1>3, <1>5, <1>6, <1>8 DEF Next, OrchestratorNext

\* What the breaker remembers of a job, and what it will notice.
FreshIsSeen ==
  \A j \in Jobs :
    /\ state.seen[j] # "no" => job[j].status = "FAILED_TERMINAL"
    /\ j \in fresh => job[j].status = "FAILED_TERMINAL" /\ state.seen[j] # "old"

LEMMA FreshIsSeenStep ==
  ASSUME Types, Nested, Worth, FreshIsSeen, [Next]_vars
  PROVE  FreshIsSeen'
  <1>1. /\ state \in StateType /\ fresh \subseteq Jobs
    BY DEF Types
  <1>2. \A j \in Jobs : job[j].status = "FAILED_TERMINAL" => job'[j].status = "FAILED_TERMINAL"
    BY TerminalStep
  <1>3. ASSUME state'.seen = state.seen, fresh' \subseteq fresh PROVE FreshIsSeen'
    BY <1>2, <1>3 DEF FreshIsSeen
  <1>4. CASE UNCHANGED vars \/ ChildNext \/ EndBatch
    BY <1>3, <1>4, ChildStays DEF EndBatch, vars, runVars
  <1>5. CASE \E j \in Jobs : NextJob(j)
    BY <1>3, <1>5 DEF NextJob
  <1>6. CASE RecordAttempt
    <2>1. /\ child.job \in Jobs /\ ~IsTerminal(child.job) /\ state' = state
      BY <1>6 DEF RecordAttempt, Worth, Types, ChildType
    <2>2. CASE fresh' = fresh
      BY <1>3, <2>1, <2>2
    <2>3. CASE fresh' # fresh
      <3>1. /\ fresh' = fresh \cup {child.job} /\ job' = Attempt(child.job, "FAILED_TERMINAL")
        BY <1>6, <2>3 DEF RecordAttempt
      <3>2. job'[child.job].status = "FAILED_TERMINAL"
        BY <2>1, <3>1, AttemptTyped DEF Types, Statuses
      <3>3. state.seen[child.job] = "no"
        BY <2>1 DEF FreshIsSeen, IsTerminal
      <3> QED BY <1>2, <2>1, <3>1, <3>2, <3>3 DEF FreshIsSeen
    <2> QED BY <2>2, <2>3
  <1>7. CASE SupervisorNext
    <2>1. fresh' = fresh /\ job' = job
      BY <1>7, SupervisorIsAlone
    <2>2. state'.seen = state.seen \/ state'.seen = SeenNow
      BY <1>1, <1>7
      DEF SupervisorNext, ConsumeGate, SavePhase, MainDone, StartBatch, StartCommand,
          FinishCommand, BatchComplete, BatchOk, BatchFailed, BatchBlocked, QuotaPause,
          BatchCrashed, StateType
    <2>3. CASE state'.seen = SeenNow
      <3>1. \A j \in Jobs : SeenNow[j] = IF state.seen[j] = "no" /\ job[j].status = "FAILED_TERMINAL"
                                         THEN "recent" ELSE state.seen[j]
        BY DEF SeenNow
      <3> QED BY <2>1, <2>3, <3>1 DEF FreshIsSeen
    <2> QED BY <1>3, <2>1, <2>2, <2>3
  <1>8. CASE OperatorNext \/ HostNext
    <2>1. CASE WindowPasses
      <3>1. fresh' = {} /\ job' = job
        BY <2>1 DEF WindowPasses
      <3>2. \A j \in Jobs : state'.seen[j] # "no" => state.seen[j] # "no"
        BY <1>1, <2>1 DEF WindowPasses, StateType
      <3> QED BY <3>1, <3>2 DEF FreshIsSeen
    <2>2. CASE ~WindowPasses
      <3>1. state' = state /\ fresh' = fresh
        BY <1>8, <2>2
        DEF OperatorNext, Approve, Revive, ConfigChanges, ConfigRestored, HostNext, PowerLoss,
            Restart, HealthAges, WatchdogRestart, StopCommand, OrchestratorCrashes,
            OrchestratorRaises, ProcessesGone
      <3> QED BY <1>3, <3>1
    <2> QED BY <2>1, <2>2
  <1> QED BY <1>4, <1>5, <1>6, <1>7, <1>8 DEF Next, OrchestratorNext

\* The breaker counts every job that failed for good within the window.
LEMMA BurstStep ==
  ASSUME Types, Nested, FreshIsSeen, [Next]_vars, Exited("failed"), sup'.at = "loop",
         orch' = NoBatch, Cardinality(fresh) >= TerminalMax
  PROVE  control'.halt = "failed_terminal_burst"
  <1>1. /\ sup.at = "batch" /\ orch.at = "done" /\ orch.exit = "failed" /\ orch # orch'
        /\ control \in ControlType
    BY Nobody DEF Exited, Types
  <1>2. BurstNow
    <2>1. fresh \subseteq RecentlyTerminal
      <3>1. ASSUME NEW j \in fresh PROVE SeenNow[j] = "recent"
        <4>1. /\ j \in Jobs /\ job[j].status = "FAILED_TERMINAL"
              /\ state.seen[j] \in {"no", "recent", "old"} /\ state.seen[j] # "old"
          BY <3>1 DEF Types, StateType, FreshIsSeen
        <4> QED BY <4>1 DEF SeenNow
      <3> QED BY <3>1 DEF RecentlyTerminal, Types
    <2>2. IsFiniteSet(RecentlyTerminal)
      BY PaidRunAssumption, FS_Subset DEF RecentlyTerminal
    <2>3. /\ Cardinality(fresh) \in Nat /\ Cardinality(RecentlyTerminal) \in Nat
          /\ Cardinality(fresh) <= Cardinality(RecentlyTerminal)
      BY <2>1, <2>2, FS_Subset, FS_CardinalityType
    <2> QED BY <2>3, PaidRunAssumption DEF BurstNow
  <1>3. CASE SupervisorNext
    <2>1. BatchFailed
      BY <1>1, <1>3
      DEF SupervisorNext, ConsumeGate, SavePhase, MainDone, StartBatch, StartCommand,
          FinishCommand, BatchComplete, BatchOk, BatchBlocked, QuotaPause, BatchCrashed,
          Exited, Looping
    <2>2. HaltWith("failed_terminal_burst")
      BY <1>2, <2>1 DEF BatchFailed
    <2> QED BY <1>1, <2>2 DEF HaltWith, ControlType
  <1>4. ~(OperatorNext \/ HostNext)
    <2>1. ~ \E g \in Gates : Approve(g)
      BY <1>1 DEF Approve
    <2>2. ~(Revive \/ WindowPasses \/ Restart \/ HealthAges \/ WatchdogRestart \/ StopCommand)
      BY <1>1 DEF Revive, WindowPasses, Restart, HealthAges, WatchdogRestart, StopCommand
    <2>3. ~(PowerLoss \/ OrchestratorCrashes \/ OrchestratorRaises)
      BY <1>1 DEF PowerLoss, OrchestratorCrashes, OrchestratorRaises, Down
    <2>4. ~(ConfigChanges \/ ConfigRestored)
      BY <1>1 DEF ConfigChanges, ConfigRestored
    <2> QED BY <2>1, <2>2, <2>3, <2>4 DEF OperatorNext, HostNext
  <1>5. ~(UNCHANGED vars \/ ChildNext \/ OrchestratorNext)
    <2>1. ~ChildNext
      BY <1>1, ChildStays
    <2>2. ~OrchestratorNext
      BY <1>1 DEF OrchestratorNext, NextJob, RecordAttempt, EndBatch
    <2> QED BY <1>1, <2>1, <2>2 DEF vars, runVars
  <1> QED BY <1>3, <1>4, <1>5 DEF Next

\* Only a failed batch halts the run for a burst, and what its breaker counted are
\* jobs that failed for good.
LEMMA BurstIsCounted ==
  ASSUME Types, Nested, FreshIsSeen, [Next]_vars,
         control.halt # "failed_terminal_burst", control'.halt = "failed_terminal_burst"
  PROVE  Cardinality({j \in Jobs : job[j].status = "FAILED_TERMINAL"}) >= TerminalMax
  <1>1. control \in ControlType
    BY DEF Types
  <1>2. \A r \in Halts : HaltWith(r) => r = "failed_terminal_burst"
    BY <1>1 DEF HaltWith, ControlType
  <1>3. control' # control
    OBVIOUS
  <1>4. BurstNow => Cardinality({j \in Jobs : job[j].status = "FAILED_TERMINAL"}) >= TerminalMax
    <2> DEFINE T == {j \in Jobs : job[j].status = "FAILED_TERMINAL"}
    <2>1. RecentlyTerminal \subseteq T
      BY DEF RecentlyTerminal, SeenNow, FreshIsSeen
    <2>2. IsFiniteSet(T)
      BY PaidRunAssumption, FS_Subset
    <2>3. /\ Cardinality(RecentlyTerminal) \in Nat /\ Cardinality(T) \in Nat
          /\ Cardinality(RecentlyTerminal) <= Cardinality(T)
      BY <2>1, <2>2, FS_Subset, FS_CardinalityType
    <2> HIDE DEF T
    <2>4. BurstNow => Cardinality(T) >= TerminalMax
      BY <2>3, PaidRunAssumption DEF BurstNow
    <2> QED BY <2>4 DEF T
  <1>5. ~(UNCHANGED vars \/ ChildNext \/ OrchestratorNext)
    BY <1>3, ChildStays
    DEF vars, runVars, OrchestratorNext, NextJob, RecordAttempt, EndBatch
  <1>6. ~OperatorNext
    BY <1>1 DEF OperatorNext, Approve, Revive, ConfigChanges, ConfigRestored, ControlType
  <1>7. ~HostNext
    <2>1. ~StopCommand
      <3>1. sup.at = "command" => state.phase \in Commands
        BY DEF Nested
      <3> QED BY <1>2, <3>1 DEF StopCommand, Commands, Halts
    <2>2. ~WatchdogRestart
      BY <1>2, <1>3 DEF WatchdogRestart, Halts
    <2> QED BY <1>3, <2>1, <2>2
            DEF HostNext, WindowPasses, PowerLoss, Restart, HealthAges, OrchestratorCrashes,
                OrchestratorRaises
  <1>8. SupervisorNext => BatchFailed
    <2>1. ~ConsumeGate
      BY <1>1 DEF ConsumeGate, ControlType
    <2>2. ~FinishCommand
      BY <1>2, <1>3
      DEF FinishCommand, FreezeEnds, AggregateEnds, VerifyEnds, CommandHalts, CommandDone, Halts
    <2>3. ~BatchBlocked /\ ~BatchCrashed
      BY <1>2, <1>3 DEF BatchBlocked, BatchCrashed, Halts
    <2>4. ~(SavePhase \/ MainDone \/ StartBatch \/ StartCommand \/ BatchComplete \/ BatchOk \/ QuotaPause)
      BY <1>3
      DEF SavePhase, MainDone, StartBatch, StartCommand, BatchComplete, BatchOk, QuotaPause
    <2> QED BY <2>1, <2>2, <2>3, <2>4 DEF SupervisorNext
  <1>9. BatchFailed => BurstNow
    BY <1>2, <1>3 DEF BatchFailed, Halts
  <1> QED BY <1>4, <1>5, <1>6, <1>7, <1>8, <1>9 DEF Next
------------------------------------------------------------------------------
(* The inductive invariant of the run, and what follows from it.              *)

RunInv ==
  /\ TypeOK /\ LedgerInv /\ Nested /\ OfThePhase /\ Worth
  /\ ResultsAreIn /\ GatesAreUsed /\ PaidAfterApproval /\ CauseIsKnown /\ FreshIsSeen

LEMMA RunInitInv == Init => RunInv
  <1> SUFFICES ASSUME Init PROVE RunInv
    OBVIOUS
  <1> USE DEF Init
  <1>1. LedgerInv /\ LedgerTypeOK
    BY LedgerInitInv DEF LedgerInv
  <1>2. TypeOK
    <2>1. state \in StateType /\ control \in ControlType
      BY DEF StateType, ControlType, Phases, Halts
    <2>2. sup \in SupType /\ orch \in OrchType
      BY DEF SupType, OrchType, Down, NoBatch, SupervisorPlaces, Phases, Exits
    <2>3. job \in JobType /\ count \in CountType
      BY PaidRunAssumption DEF JobType, CountType, Statuses
    <2> QED BY <1>1, <2>1, <2>2, <2>3, Typed DEF Types
  <1>3. call = Idle /\ billed = [b \in Buckets |-> 0]
    BY DEF LedgerInit
  <1>4. Nested /\ OfThePhase /\ Worth
    BY <1>3, Nobody DEF Nested, OfThePhase, Worth, Calling, Down
  <1>5. ResultsAreIn
    <2>1. \A p \in PaidPhases : "READY" \notin LaterThan(p)
      BY DEF PaidPhases, LaterThan
    <2> QED BY <2>1, Nobody DEF ResultsAreIn, Over, Down
  <1>6. GatesAreUsed /\ PaidAfterApproval
    BY <1>3, PaidRunAssumption DEF GatesAreUsed, Needed, Down, PaidAfterApproval
  <1>7. CauseIsKnown /\ FreshIsSeen
    BY Nobody DEF CauseIsKnown, SaysExhausted, FreshIsSeen
  <1> QED BY <1>1, <1>2, <1>4, <1>5, <1>6, <1>7 DEF RunInv

LEMMA RunStep == RunInv /\ [Next]_vars => RunInv'
  <1> SUFFICES ASSUME RunInv, [Next]_vars PROVE RunInv'
    OBVIOUS
  <1>1. /\ TypeOK /\ Types /\ LedgerInv /\ Nested /\ OfThePhase /\ Worth /\ ResultsAreIn
        /\ GatesAreUsed /\ PaidAfterApproval /\ CauseIsKnown /\ FreshIsSeen
    BY Typed DEF RunInv
  <1>2. LedgerInv' /\ LedgerTypeOK'
    BY <1>1, RunStepsLedger, LedgerStep DEF LedgerInv
  <1>3. TypeOK'
    <2>1. CASE UNCHANGED vars
      BY <1>1, <2>1, <1>2, Typed DEF vars, runVars, Types
    <2> QED BY <1>1, <1>2, <2>1, ChildKeepsTypes, OrchestratorKeepsTypes, SupervisorKeepsTypes,
               OutsideKeepsTypes DEF Next
  <1>4. Nested' /\ OfThePhase' /\ Worth'
    BY <1>1, NestedStep, OfThePhaseStep, WorthStep
  <1>5. ResultsAreIn' /\ GatesAreUsed' /\ PaidAfterApproval'
    BY <1>1, ResultsAreInStep, GatesAreUsedStep, PaidAfterApprovalStep
  <1>6. CauseIsKnown' /\ FreshIsSeen'
    BY <1>1, CauseIsKnownStep, FreshIsSeenStep
  <1> QED BY <1>2, <1>3, <1>4, <1>5, <1>6 DEF RunInv

LEMMA RunAlways == Spec => []RunInv
  BY RunInitInv, RunStep, PTL DEF Spec

\* The run's files, processes and bounds keep their types: the supervisor never
\* leaves a phase it has no successor for, and no job is tried more often than
\* MaxAttempts (step, run_jobs).
THEOREM RunTypeCorrect == Spec => []TypeOK
  <1>1. RunInv => TypeOK
    BY DEF RunInv
  <1> QED BY <1>1, RunAlways, PTL

\* No bucket is charged before every gate that the phases ask for before it was
\* opened by the operator (consume_gate, step).
THEOREM ApprovalComesFirst == Spec => []PaidAfterApproval
  <1>1. RunInv => PaidAfterApproval
    BY DEF RunInv
  <1> QED BY <1>1, RunAlways, PTL

\* A paid phase is left with a result of each of its jobs (run_jobs, step).
THEOREM ResultsComeFirst == Spec => []NothingAggregatedEarly
  <1>1. RunInv => NothingAggregatedEarly
    BY DEF RunInv, ResultsAreIn, Over, AllDone, IsDone, NothingAggregatedEarly
  <1> QED BY <1>1, RunAlways, PTL

\* No job with a result is paid again (_result_matches).
THEOREM ResultsArePaidOnce == Spec => []CompletedIsNotPaidAgain
  <1>1. RunInv => CompletedIsNotPaidAgain
    BY DEF RunInv, Worth, CompletedIsNotPaidAgain
  <1> QED BY <1>1, RunAlways, PTL

\* While a halt stands no batch, no job and no call is under way (cmd_run, halt).
THEOREM HaltsHold == Spec => []HaltedSpendsNothing
  <1>1. Nested => HaltedSpendsNothing
    BY NoBatchNested, Nobody DEF Nested, HaltedSpendsNothing
  <1>2. RunInv => HaltedSpendsNothing
    BY <1>1 DEF RunInv
  <1> QED BY <1>2, RunAlways, PTL

\* A run halted for its budget has a ledger that is closed, full or locked
\* (_is_budget_block, reserve_cost).
THEOREM ExhaustionIsReal == Spec => []ExhaustedHasACause
  <1>1. RunInv => ExhaustedHasACause
    BY DEF RunInv, CauseIsKnown, SaysExhausted, Exhausted, ExhaustedHasACause
  <1> QED BY <1>1, RunAlways, PTL

\* A job that failed for good stays failed and is never run again (run_jobs).
THEOREM TerminalIsTerminal == Spec => TerminalStays
  <1>1. RunInv /\ [Next]_vars =>
          [\A j \in Jobs : job[j].status = "FAILED_TERMINAL" =>
             job'[j].status = "FAILED_TERMINAL" /\ child'.job # j]_vars
    BY TerminalStep, Typed DEF RunInv
  <1> QED BY <1>1, RunAlways, PTL DEF Spec, TerminalStays

\* TerminalMax jobs that fail for good within the window halt the run at the end of
\* their batch (breaker_check).
THEOREM BurstsHalt == Spec => BurstHalts
  <1>1. RunInv /\ [Next]_vars =>
          [Exited("failed") /\ sup'.at = "loop" /\ orch' = NoBatch
             /\ Cardinality(fresh) >= TerminalMax
           => control'.halt = "failed_terminal_burst"]_vars
    BY BurstStep, Typed DEF RunInv
  <1> QED BY <1>1, RunAlways, PTL DEF Spec, BurstHalts

\* Whatever restarts have made of terminal_seen and however often a burst was
\* counted, the run halts for one only if as many jobs as that failed for good, in
\* whatever time (breaker_check).
THEOREM BurstsAreFailures ==
  Spec => [][control.halt # "failed_terminal_burst" /\ control'.halt = "failed_terminal_burst"
               => Cardinality({j \in Jobs : job[j].status = "FAILED_TERMINAL"}) >= TerminalMax]_vars
  <1>1. RunInv /\ [Next]_vars =>
          [control.halt # "failed_terminal_burst" /\ control'.halt = "failed_terminal_burst"
             => Cardinality({j \in Jobs : job[j].status = "FAILED_TERMINAL"}) >= TerminalMax]_vars
    BY BurstIsCounted, Typed DEF RunInv
  <1> QED BY <1>1, RunAlways, PTL DEF Spec
==============================================================================
