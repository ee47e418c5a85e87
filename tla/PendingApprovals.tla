--------------------------- MODULE PendingApprovals ---------------------------
(***************************************************************************)
(* Blocked tool calls that wait for a person: PendingApprovalStore, with   *)
(* its JSON Lines ledger, and the decisions on its items.  One proxy       *)
(* process runs one event loop, so a handler that does not await is one    *)
(* step; the process may die in the middle of it, a write may fail, and a  *)
(* new process reads the ledger.                                           *)
(*                                                                         *)
(* The ledger is what _load makes of it: the calls whose last readable     *)
(* event is pending_added, and whether it ends in a torn line.  A line     *)
(* that is appended to a torn one is unreadable with it.  A torn line is   *)
(* never a complete event, and what was written survives a dead process.   *)
(***************************************************************************)
EXTENDS Naturals, FiniteSets

CONSTANTS
  Calls,      \* tool calls that need an approval, by trace_id
  Volatile,   \* calls with a verified identity, provenance, a history or secret
              \* arguments: context_to_dict does not keep what they need to run
  MaxDeaths,  \* bound: dead processes
  MaxFaults,  \* bound: failed writes
  MaxTears    \* bound: lines of which only a part was written

ASSUME PendingAssumption ==
  /\ Volatile \subseteq Calls
  /\ MaxDeaths \in Nat /\ MaxFaults \in Nat /\ MaxTears \in Nat

VARIABLES
  up,         \* the process runs
  stage,      \* where a call stands; "held" means it is in _items
  recovered,  \* recovered_from_ledger
  file,       \* the ledger
  expired,    \* expires_at <= now
  told,       \* calls whose client was told to wait
  decided,    \* calls an operator took out of the store
  refused,    \* calls rejected by a person, or closed because of a restart
  executed,   \* how often a call reached the tool
  deaths, faults, tears

historyVars == <<told, decided, refused, executed>>
boundVars == <<deaths, faults, tears>>
vars == <<up, stage, recovered, file, expired, historyVars, boundVars>>

InMemory == {"asking", "held", "approved"}

TypeOK ==
  /\ up \in BOOLEAN
  /\ stage \in [Calls -> InMemory \cup {"new", "over", "lost"}]
  /\ recovered \in SUBSET Calls
  /\ file \in [calls : SUBSET Calls, torn : BOOLEAN]
  /\ expired \in SUBSET Calls
  /\ told \in SUBSET Calls
  /\ decided \in SUBSET Calls
  /\ refused \in SUBSET Calls
  /\ executed \in [Calls -> Nat]
  /\ deaths \in Nat /\ faults \in Nat /\ tears \in Nat

Init ==
  /\ up = TRUE
  /\ stage = [c \in Calls |-> "new"]
  /\ recovered = {}
  /\ file = [calls |-> {}, torn |-> FALSE]
  /\ expired = {}
  /\ told = {} /\ decided = {} /\ refused = {}
  /\ executed = [c \in Calls |-> 0]
  /\ deaths = 0 /\ faults = 0 /\ tears = 0
------------------------------------------------------------------------------
(* The ledger.                                                              *)

\* One event line; calls is what a reader would find if the line is readable.
Line(f, calls) == [calls |-> IF f.torn THEN f.calls ELSE calls, torn |-> FALSE]

\* Defect: the ledger is opened for writing, not for appending.
AddedDefect(f, c) == Line(f, {c})

Added(f, c) == Line(f, f.calls \cup {c})

\* Defect: only the memory forgets.
RemovedDefect(f, c) == f

Removed(f, c) == Line(f, f.calls \ {c})

\* What _prune takes out of memory first, in every operation of the store.
Stale == {c \in expired : stage[c] = "held"}

\* The ledger after the removals of S were written; a torn line hides one of them.
Swept(S) ==
  IF S = {} THEN {file}
  ELSE {[calls |-> file.calls \ T, torn |-> FALSE] :
          T \in IF file.torn THEN {S \ {c} : c \in S} ELSE {S}}

\* Defect: expiry is a state nobody else knows.
MovedDefect(S, c, p) ==
  [d \in Calls |-> IF d = c THEN p ELSE IF d \in S THEN "expired" ELSE stage[d]]

\* Where calls stand after the items of S were pruned and c went on to p.
Moved(S, c, p) == [d \in Calls |-> IF d = c THEN p ELSE IF d \in S THEN "over" ELSE stage[d]]

\* Part of one more line is written, or none of it.
Tear(f) ==
  \/ file' = f /\ UNCHANGED tears
  \/ tears < MaxTears /\ tears' = tears + 1 /\ file' = [f EXCEPT !.torn = TRUE]
------------------------------------------------------------------------------
(* The call, and the person at its client.                                  *)

\* pipeline.run asks for an approval, and the client can ask its user.
Ask(c) ==
  /\ up
  /\ stage[c] = "new"
  /\ stage' = [stage EXCEPT ![c] = "asking"]
  /\ UNCHANGED <<up, recovered, file, expired, historyVars, boundVars>>

\* The user answers the elicitation.
Answer(c) ==
  /\ up
  /\ stage[c] = "asking"
  /\ \/ stage' = [stage EXCEPT ![c] = "approved"] /\ UNCHANGED refused
     \/ stage' = [stage EXCEPT ![c] = "over"] /\ refused' = refused \cup {c}
  /\ UNCHANGED <<up, recovered, file, expired, told, decided, executed, boundVars>>

\* No elicitation, or no answer to it: PendingApprovalStore.add.
Hold(c) ==
  /\ up
  /\ stage[c] \in {"new", "asking"}
  /\ stage' = Moved(Stale, c, "held")
  /\ \E f \in Swept(Stale) : file' = Added(f, c)
  /\ told' = told \cup {c}
  /\ UNCHANGED <<up, recovered, expired, decided, refused, executed, boundVars>>

\* The line cannot be written: the item is in memory, the client gets an error.
HoldFails(c) ==
  /\ up
  /\ stage[c] \in {"new", "asking"}
  /\ faults < MaxFaults
  /\ faults' = faults + 1
  /\ stage' = Moved(Stale, c, "held")
  /\ \E f \in Swept(Stale) : Tear(f)
  /\ UNCHANGED <<up, recovered, expired, historyVars, deaths>>
------------------------------------------------------------------------------
(* Operators: list, approve, reject.                                        *)

\* list: only the prune leaves a trace.
List ==
  /\ up
  /\ Stale # {}
  /\ stage' = [c \in Calls |-> IF c \in Stale THEN "over" ELSE stage[c]]
  /\ file' \in Swept(Stale)
  /\ UNCHANGED <<up, recovered, expired, historyVars, boundVars>>

\* Any operation stops in its prune when a removal cannot be written: the items
\* pruned so far are out of memory.
PruneFails ==
  /\ up
  /\ faults < MaxFaults
  /\ faults' = faults + 1
  /\ \E c \in Stale : \E S \in SUBSET (Stale \ {c}) :
       /\ stage' = Moved(S, c, "over")
       /\ \E f \in Swept(S) : Tear(f)
  /\ UNCHANGED <<up, recovered, expired, historyVars, deaths>>

\* pop: the item leaves the memory, then the removal is written.
Pop(c) ==
  /\ up
  /\ stage[c] = "held"
  /\ c \notin expired
  /\ \E f \in Swept(Stale) : file' = Removed(f, c)
  /\ decided' = decided \cup {c}

\* Defect: what was recovered is taken to be complete.
MayRunDefect(c) == TRUE

\* A recovered call is closed if the ledger did not keep all of it.
MayRun(c) == ~(c \in recovered /\ c \in Volatile)

Approve(c) ==
  /\ Pop(c)
  /\ IF MayRun(c)
     THEN stage' = Moved(Stale, c, "approved") /\ UNCHANGED refused
     ELSE stage' = Moved(Stale, c, "over") /\ refused' = refused \cup {c}
  /\ UNCHANGED <<up, recovered, expired, told, executed, boundVars>>

Reject(c) ==
  /\ Pop(c)
  /\ stage' = Moved(Stale, c, "over")
  /\ refused' = refused \cup {c}
  /\ UNCHANGED <<up, recovered, expired, told, executed, boundVars>>

\* The removal cannot be written: the decision fails after the item left memory.
PopFails(c) ==
  /\ up
  /\ stage[c] = "held"
  /\ c \notin expired
  /\ faults < MaxFaults
  /\ faults' = faults + 1
  /\ stage' = Moved(Stale, c, "lost")
  /\ \E f \in Swept(Stale) : Tear(f)
  /\ UNCHANGED <<up, recovered, expired, historyVars, deaths>>
------------------------------------------------------------------------------
\* run_after_approval with a fresh token: the gates deny, or the tool is called.
RunAfterApproval(c) ==
  /\ up
  /\ stage[c] = "approved"
  /\ stage' = [stage EXCEPT ![c] = "over"]
  /\ \/ executed' = [executed EXCEPT ![c] = @ + 1]
     \/ UNCHANGED executed
  /\ UNCHANGED <<up, recovered, file, expired, told, decided, refused, boundVars>>

Expire(c) ==
  /\ stage[c] \notin {"new", "asking"}
  /\ c \notin expired
  /\ expired' = expired \cup {c}
  /\ UNCHANGED <<up, stage, recovered, file, historyVars, boundVars>>

\* The process dies, idle or within an operation that wrote some of its lines.
Die ==
  /\ up
  /\ deaths < MaxDeaths
  /\ deaths' = deaths + 1
  /\ up' = FALSE
  /\ stage' = [c \in Calls |-> IF stage[c] \in InMemory THEN "lost" ELSE stage[c]]
  /\ \E S \in SUBSET Stale : \E f \in Swept(S) : Tear(f)
  /\ UNCHANGED <<recovered, expired, historyVars, faults>>

\* _load: what was added, not removed, and has not expired.
Loaded == file.calls \ expired

Restart ==
  /\ ~up
  /\ up' = TRUE
  /\ stage' = [c \in Calls |-> IF c \in Loaded THEN "held" ELSE stage[c]]
  /\ recovered' = Loaded
  /\ UNCHANGED <<file, expired, historyVars, boundVars>>

Next ==
  \/ \E c \in Calls :
       \/ Ask(c) \/ Answer(c) \/ Hold(c) \/ HoldFails(c)
       \/ Approve(c) \/ Reject(c) \/ PopFails(c)
       \/ RunAfterApproval(c) \/ Expire(c)
  \/ List \/ PruneFails \/ Die \/ Restart

Spec == Init /\ [][Next]_vars
------------------------------------------------------------------------------
(* Properties.                                                              *)

\* No call is executed twice, as the work log and a test's name say.
ExecutesOnce == \A c \in Calls : executed[c] <= 1

Bit(b) == IF b THEN 1 ELSE 0

\* A call has one outcome, an execution or a refusal, and each torn line buys it at
\* most one more: however often the process dies and writes fail, with no line torn
\* a call is executed once at most, and a refused one never, by no later process
\* either, because a removal is in the ledger before the decision takes effect.
OneOutcome == \A c \in Calls : executed[c] + Bit(c \in refused) <= 1 + tears

\* Calls whose client was told to wait for a person, and nobody will see them.
Broken == {c \in told : c \notin expired \cup decided \cup file.calls}

\* Each torn line breaks at most one promise: with none, a call whose client was told
\* to wait is in the ledger until it expires or an operator takes it; no death and no
\* failed write of another call loses it.
PromisePerTear == Cardinality(Broken) <= tears

\* A call whose identity, provenance, history or secrets are not in the ledger
\* is executed by the process that received it or not at all, and once, whatever
\* happens to the ledger.
VolatileRunsAtHome ==
  [][\A c \in Volatile : executed'[c] # executed[c] => c \notin recovered /\ executed[c] = 0]_vars
==============================================================================
