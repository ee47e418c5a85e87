----------------------------- MODULE GuardedCalls -----------------------------
(***************************************************************************)
(* Tool calls through Gates 2, 4 and 3 while the overlay of their tenant   *)
(* is edited and reloaded, and the resumption of a blocked call with an    *)
(* approval token.  Every read of the policy source is a step of its own:  *)
(* the watcher is a thread, and replaces the snapshot between any two.     *)
(* The sha of the policy, which Gate3's cache, the approval token and the  *)
(* audit record carry, is computed from the files on disk when it is asked *)
(* for, while the rules come from the snapshot in memory.  Governance,     *)
(* provenance and Gates 1 and 5 can only refuse a call besides.            *)
(***************************************************************************)
EXTENDS ApprovalTokens, LayeredPolicy

CONSTANTS
  Backends,  \* the values of gate3's backend option: "python", "rego"
  NoSha,     \* the sha of Gate3's engine before there is one
  MaxEdits   \* bound: edits of the overlay

ASSUME CallsAssumption ==
  /\ Calls # {}
  /\ Backends \subseteq {"python", "rego"}
  /\ NoSha \notin Editions
  /\ MaxEdits \in Nat

VARIABLES
  backend,   \* the backend of Gate3, fixed when the process starts
  disk,      \* the tenant's overlay directory; stands for its sha as well
  edits,     \* how often it was edited
  pending,   \* the watcher has not delivered the last changes
  watcher,   \* "waiting" in watch(), "loaded" in reload() before the lock, "dead"
  loaded,    \* new_snapshot of that reload
  snapshot,  \* the tenant's layer in the snapshot in force
  engine,    \* _layered_rego: the rules it was made of and _layered_rego_bundle_sha
  at,        \* what the call of a caller does next
  ctx,       \* its GateContext
  blocked,   \* calls that wait for approval, with the taint of their context
  bound      \* what a token is signed for; inForce is a history variable

policyVars == <<disk, edits, pending, watcher, loaded, snapshot>>
callVars == <<engine, at, ctx, blocked, bound>>
guardVars == <<vars, backend, policyVars, callVars>>

Stages == {"none", "gate2", "gate4", "scan", "gate3", "sha", "predicates", "judged",
           "execute"}

\* A GateContext at the start of a run, or reset by run_after_approval.  The
\* fields judgedBy and approvedUnder are history: the snapshot Gate3 ended with,
\* and the one that was in force when a person approved the call.
Fresh(k) == [call |-> k, verdict |-> ALLOW, risk |-> 0, taint |-> 0, cap |-> NoCap,
             rules |-> {}, sha |-> Bare, judgedBy |-> Bare, approvedUnder |-> {}]

\* No call: what the fields hold between two calls does not matter.
Idle == Fresh(CHOOSE k \in Calls : TRUE)

\* Rules by their id, as a policy source lists them.
Ids == DOMAIN BaseRules \cup OwnIds \cup UNION {DOMAIN e.rules : e \in Editions}
RuleSets == SUBSET (Ids \X Rule)

Context == [call : Calls, verdict : Decisions, risk : Levels, taint : Levels,
            cap : Capability \cup {NoCap}, rules : RuleSets, sha : Editions,
            judgedBy : Editions, approvedUnder : SUBSET Editions]

GuardTypeOK ==
  /\ backend \in Backends
  /\ disk \in Editions /\ loaded \in Editions /\ snapshot \in Editions
  /\ edits \in 0..MaxEdits /\ pending \in BOOLEAN
  /\ watcher \in {"waiting", "loaded", "dead"}
  /\ engine \in [sha : Editions \cup {NoSha}, rules : RuleSets]
  /\ at \in [Callers -> Stages]
  /\ ctx \in [Callers -> Context]
  /\ blocked \subseteq [call : Calls, taint : Levels]
  /\ bound \in [Tokens -> [call : Calls, taint : Levels, sha : Editions,
                           inForce : Editions]]

GuardInit ==
  /\ Init
  /\ backend \in Backends
  /\ disk \in {e \in Editions : e.loads # "torn"}
  /\ edits = 0 /\ pending = FALSE /\ watcher = "waiting"
  /\ snapshot = Effective(disk) /\ loaded = snapshot
  /\ engine = [sha |-> NoSha, rules |-> {}]
  /\ at = [c \in Callers |-> "none"]
  /\ ctx = [c \in Callers |-> Idle]
  /\ bound = [t \in Tokens |-> [call |-> Idle.call, taint |-> 0, sha |-> Bare,
                                inForce |-> Bare]]
  /\ blocked = {}
------------------------------------------------------------------------------
(* The overlay directory, the watcher and the policy source.                *)

\* effective_bundle_sha: the files of the layers in force, as they are now.
BundleSha == IF snapshot = Bare THEN Bare ELSE disk

\* An operator writes the tenant's files, or a part of them.
Edit(e) ==
  /\ edits < MaxEdits /\ e # disk
  /\ disk' = e /\ edits' = edits + 1 /\ pending' = TRUE
  /\ UNCHANGED <<vars, backend, watcher, loaded, snapshot, callVars>>

\* reload, up to the lock.  A file that is no YAML makes it give up; a layer that
\* is refused, at load or by the monotonicity checks, leaves the new snapshot
\* without an overlay.  Changes made from here on are delivered later.
Load ==
  /\ watcher = "waiting" /\ pending
  /\ pending' = FALSE
  /\ IF disk.loads = "torn"
     THEN UNCHANGED <<watcher, loaded>>
     ELSE watcher' = "loaded" /\ loaded' = Effective(disk)
  /\ UNCHANGED <<vars, backend, disk, edits, snapshot, callVars>>

\* Defect: the swap forgets the changes that came while the files were read.
SwapDefect ==
  /\ watcher = "loaded"
  /\ snapshot' = loaded /\ watcher' = "waiting" /\ pending' = FALSE
  /\ UNCHANGED <<vars, backend, disk, edits, loaded, callVars>>

\* reload, under the lock.
Swap ==
  /\ watcher = "loaded"
  /\ snapshot' = loaded /\ watcher' = "waiting"
  /\ UNCHANGED <<vars, backend, disk, edits, pending, loaded, callVars>>

\* watch raises: the thread ends, and nothing starts another.
WatcherCrashes ==
  /\ watcher = "waiting"
  /\ watcher' = "dead"
  /\ UNCHANGED <<vars, backend, disk, edits, pending, loaded, snapshot, callVars>>
------------------------------------------------------------------------------
(* The gates.  Only the caller's own stage and context change.              *)

\* The caller goes on to stage s, with these changes to its context.
Proceed(c, s, new) ==
  /\ at' = [at EXCEPT ![c] = s]
  /\ ctx' = [ctx EXCEPT ![c] = new]

\* append_revalidated: in a resumed call the token satisfies what only asks for
\* an approval; in a first run nothing does.
Appended(c, decision) ==
  Stricter(ctx[c].verdict,
           IF pc[c] = "resumed" /\ decision = REQUIRE_APPROVAL THEN ALLOW ELSE decision)

\* Pipeline.run
Start(c, k) ==
  /\ at[c] = "none" /\ pc[c] = "idle"
  /\ Proceed(c, "gate2", Fresh(k))
  /\ UNCHANGED <<vars, backend, policyVars, engine, blocked, bound>>

\* run_after_approval: verify_approval, with the policy's sha as it is now.
ResumeApproved(c, t) ==
  /\ at[c] = "none" /\ bound[t].sha = BundleSha
  /\ Resume(c, t)
  /\ Proceed(c, "gate2", Fresh(bound[t].call))
  /\ UNCHANGED <<backend, policyVars, engine, blocked, bound>>

\* Gate2Plan.evaluate
ReadRisk(c) ==
  /\ at[c] = "gate2"
  /\ Proceed(c, "gate4", [ctx[c] EXCEPT !.risk = Risk(snapshot),
                                        !.verdict = Appended(c, Gate2(Risk(snapshot)))])
  /\ UNCHANGED <<vars, backend, policyVars, engine, blocked, bound>>

\* Gate4Taint.evaluate: _current_caps
ReadCap(c) ==
  /\ at[c] = "gate4"
  /\ Proceed(c, "scan", [ctx[c] EXCEPT !.cap = Cap(snapshot)])
  /\ UNCHANGED <<vars, backend, policyVars, engine, blocked, bound>>

\* Gate4Taint.evaluate: _infer_taint with _current_pattern, and the decision.
Scan(c) ==
  LET taint == Taint(ctx[c].call, Sensitive(snapshot)) IN
  /\ at[c] = "scan"
  /\ Proceed(c, "gate3",
       [ctx[c] EXCEPT !.taint = taint,
                      !.verdict = Appended(c, Gate4(ctx[c].call, ctx[c].cap, taint))])
  /\ UNCHANGED <<vars, backend, policyVars, engine, blocked, bound>>

\* Gate3Policy._current_view: rules, sha and predicates, one after the other.
ReadRules(c) ==
  /\ at[c] = "gate3"
  /\ Proceed(c, "sha", [ctx[c] EXCEPT !.rules = RuleList(snapshot)])
  /\ UNCHANGED <<vars, backend, policyVars, engine, blocked, bound>>

ReadSha(c) ==
  /\ at[c] = "sha"
  /\ Proceed(c, "predicates", [ctx[c] EXCEPT !.sha = BundleSha])
  /\ UNCHANGED <<vars, backend, policyVars, engine, blocked, bound>>

\* _layered_rego_engine: the cached engine, if the sha is that of the files.
EngineFor(c) == IF engine.sha = ctx[c].sha THEN engine
                ELSE [sha |-> ctx[c].sha, rules |-> ctx[c].rules]

\* The predicates by id: of the snapshot in force now, or of the engine.
Predicates(c) ==
  IF backend = "python" THEN Compiled(snapshot)
  ELSE LET rules == EngineFor(c).rules IN
       [i \in {r[1] : r \in rules} |-> (CHOOSE r \in rules : r[1] = i)[2]]

\* Gate3Policy.evaluate
Judge(c) ==
  /\ at[c] = "predicates"
  /\ engine' = IF backend = "rego" THEN EngineFor(c) ELSE engine
  /\ Proceed(c, "judged",
       [ctx[c] EXCEPT !.verdict = Appended(c, Gate3(ctx[c].rules, Predicates(c), ctx[c].call,
                                                    ctx[c].risk, ctx[c].taint)),
                      !.judgedBy = snapshot])
  /\ UNCHANGED <<vars, backend, policyVars, blocked, bound>>

\* The governance, the provenance or Gate1 denies the call, before Gate2.
Refused(c) ==
  /\ at[c] = "gate2"
  /\ Proceed(c, "none", Idle)
  /\ IF pc[c] = "idle" THEN UNCHANGED vars ELSE Deny(c)
  /\ UNCHANGED <<backend, policyVars, engine, blocked, bound>>
------------------------------------------------------------------------------
(* After the gates.                                                         *)

\* The end of a first run: it is executed, denied, or waits for an approval.
Conclude(c) ==
  /\ at[c] = "judged" /\ pc[c] = "idle"
  /\ IF ctx[c].verdict < REQUIRE_APPROVAL
     THEN Proceed(c, "execute", ctx[c])
     ELSE Proceed(c, "none", Idle)
  /\ blocked' = IF ctx[c].verdict = REQUIRE_APPROVAL
                THEN blocked \cup {[call |-> ctx[c].call, taint |-> ctx[c].taint]}
                ELSE blocked
  /\ UNCHANGED <<vars, backend, policyVars, engine, bound>>

\* issue_bound_approval, when a person approves a blocked call.
Approve(t) ==
  /\ Issue(t)
  /\ \E b \in blocked :
       bound' = [bound EXCEPT ![t] = [call |-> b.call, taint |-> b.taint, sha |-> BundleSha,
                                      inForce |-> snapshot]]
  /\ UNCHANGED <<backend, policyVars, engine, at, ctx, blocked>>

\* The token against the taint and the sha after revalidation: approval_bindings.
StillBound(c) == bound[held[c]].taint = ctx[c].taint /\ bound[held[c]].sha = BundleSha

\* run_after_approval, after the gates: a denial, or verify_and_consume_approval.
Reverify(c) ==
  /\ at[c] = "judged" /\ pc[c] = "resumed"
  /\ IF ctx[c].verdict # DENY /\ StillBound(c) THEN Check(c) ELSE Deny(c)
  /\ IF pc'[c] = "checked" THEN UNCHANGED <<at, ctx>> ELSE Proceed(c, "none", Idle)
  /\ UNCHANGED <<backend, policyVars, engine, blocked, bound>>

\* verify_and_consume_approval, under its lock; then Gate5 and the tool.
ConsumeAndExecute(c) ==
  /\ at[c] = "judged"
  /\ Consume(c)
  /\ IF held[c] \in Kept(c)
     THEN Proceed(c, "none", Idle)
     ELSE Proceed(c, "execute", [ctx[c] EXCEPT !.approvedUnder = {bound[held[c]].inForce}])
  /\ UNCHANGED <<backend, policyVars, engine, blocked, bound>>

\* The tool has answered, and Gate6 has its record.
Finish(c) ==
  /\ at[c] = "execute"
  /\ Proceed(c, "none", Idle)
  /\ UNCHANGED <<vars, backend, policyVars, engine, blocked, bound>>

\* Time passes for the tokens.
Wait == Tick /\ UNCHANGED <<backend, policyVars, callVars>>

GuardNext ==
  \/ Wait \/ Load \/ Swap \/ WatcherCrashes
  \/ \E e \in Editions : Edit(e)
  \/ \E t \in Tokens : Approve(t)
  \/ \E c \in Callers :
       \/ \E k \in Calls : Start(c, k)
       \/ \E t \in Tokens : ResumeApproved(c, t)
       \/ Refused(c) \/ ReadRisk(c) \/ ReadCap(c) \/ Scan(c) \/ ReadRules(c)
       \/ ReadSha(c) \/ Judge(c) \/ Conclude(c) \/ Reverify(c)
       \/ ConsumeAndExecute(c) \/ Finish(c)

GuardSpec == GuardInit /\ [][GuardNext]_guardVars

\* The watcher is a thread of a running process.
GuardFairSpec == GuardSpec /\ WF_guardVars(Load \/ Swap)
------------------------------------------------------------------------------
(* Properties.                                                              *)

\* Whatever is edited and reloaded while a call goes through the gates, and
\* whichever snapshots it read its risk, its limits, its rules and its predicates
\* from: what the baseline denies is not executed, and what the baseline wants a
\* person to approve is executed with a token only.
NothingBelowFloor ==
  \A c \in Callers : at[c] = "execute" =>
    /\ Floor(ctx[c].call) # DENY
    /\ Floor(ctx[c].call) = REQUIRE_APPROVAL => ctx[c].approvedUnder # {}

\* When the watcher has nothing left to do, the overlay on disk is in force, or it
\* was refused: no edit is lost between two reloads, and no reload undoes one.
SettledMeansInForce ==
  watcher = "waiting" /\ ~pending /\ disk.loads # "torn" => snapshot = Effective(disk)

\* The overlay on disk does not stay out of force for good, unless it cannot be
\* read, is refused, or the watcher is gone.
EditsTakeEffect ==
  []<>(snapshot = Effective(disk) \/ disk.loads = "torn" \/ watcher = "dead")

\* A token satisfies approval-only outcomes under the policy it was approved
\* under: when a call needs its token at execution, the policy it was judged by is
\* the one that was in force when the person approved.
ApprovedUnderThatPolicy ==
  \A c \in Callers :
    at[c] = "execute" /\ Verdict(ctx[c].call, ctx[c].judgedBy) = REQUIRE_APPROVAL =>
      ctx[c].approvedUnder \subseteq {ctx[c].judgedBy}
==============================================================================
