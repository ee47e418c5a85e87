----------------------------- MODULE LayeredPolicy -----------------------------
(***************************************************************************)
(* The layered policy as Gates 2, 4 and 3 see it for the calls of one      *)
(* tenant to one registered tool: an immutable baseline and the tenant's   *)
(* overlay, which is merged only if it passes the monotonicity checks.     *)
(* Risks, taints and decisions are numbers in their order of strictness.   *)
(* What a rule or a pattern says is the set of calls it matches; a rule    *)
(* may also ask for a risk and a taint, as "at least", which is the only   *)
(* way the rules of policies/baseline use them.                            *)
(***************************************************************************)
EXTENDS Integers

CONSTANTS
  Calls,        \* the calls: their arguments, sources and references
  OwnIds,       \* rule ids that start with tenant::<tenant_id>::
  BaseRules,    \* the rules of the baseline, by id
  BaseCap,      \* the tool in gate4_capabilities.yaml
  BaseMatches,  \* the calls that a sensitive pattern of the baseline matches
  BuiltIn,      \* the calls that Gate4's own _SENSITIVE_PATTERNS matches
  SourceTaint,  \* the taint of a call's sources
  Unresolved,   \* the calls with a reference that cannot be resolved
  RedDecision,  \* what elicitation_fallback makes of a red tool
  Editions      \* the contents of the overlay directory an operator may write

Undeclared == -1

\* Decision, in the order of Gate3._aggregate and of GateContext.append.
ALLOW == 0
WARN == 1
REQUIRE_APPROVAL == 2
DENY == 3
Decisions == ALLOW..DENY

\* RiskLevel and TaintLabel: green, yellow, red; PUBLIC, INTERNAL, CONFIDENTIAL.
Levels == 0..2
Confidential == 2

Rule == [hits : SUBSET Calls, risk : Levels, taint : Levels, enforce : Decisions]
Capability == [limit : Levels, external : BOOLEAN, risk : Levels]
NoCap == [limit |-> Undeclared, external |-> FALSE, risk |-> Undeclared]

\* The overlay of a tenant that has none.
Bare == [loads |-> "ok", rules |-> [i \in {} |-> ALLOW], risk |-> Undeclared,
         cap |-> NoCap, patterns |-> "none", matches |-> {}]

ASSUME PolicyAssumption ==
  /\ DOMAIN BaseRules # {}  \* without any, Gate3 falls back to a file of its own
  /\ \A i \in DOMAIN BaseRules : BaseRules[i] \in Rule
  /\ OwnIds \cap DOMAIN BaseRules = {}
  /\ BaseCap \in Capability
  /\ BaseMatches \subseteq Calls /\ BuiltIn \subseteq Calls /\ Unresolved \subseteq Calls
  /\ SourceTaint \in [Calls -> Levels]
  /\ RedDecision \in {WARN, REQUIRE_APPROVAL, DENY}
  /\ Bare \in Editions
  /\ \A e \in Editions :
       /\ e.loads \in {"ok", "refused", "torn"}
       /\ \A i \in DOMAIN e.rules : e.rules[i] \in Rule
       /\ e.risk \in Levels \cup {Undeclared}
       /\ e.cap \in Capability \cup {NoCap}
       /\ e.patterns \in {"none", "added", "copied", "broken"}
       /\ e.matches \subseteq Calls
------------------------------------------------------------------------------
(* Loading and merging an overlay.                                          *)

\* _compile_layer: tool_risks.yaml first, then the risk_level of the capability.
LayerRisk(e) == IF e.risk # Undeclared THEN e.risk ELSE e.cap.risk

\* Defect: an overlay may reuse the ids of the baseline.
RulesAreNewDefect(e) == \A i \in DOMAIN e.rules : i \in OwnIds \cup DOMAIN BaseRules

\* check_rules
RulesAreNew(e) == \A i \in DOMAIN e.rules : i \notin DOMAIN BaseRules /\ i \in OwnIds

\* check_tool_risks
RiskIsKept(e) == LayerRisk(e) = Undeclared \/ LayerRisk(e) >= BaseCap.risk

\* check_tool_capabilities
CapIsKept(e) ==
  e.cap = NoCap \/ /\ e.cap.limit <= BaseCap.limit
                   /\ BaseCap.external => e.cap.external
                   /\ e.cap.risk >= BaseCap.risk

\* _merge_with_monotonicity, with check_sensitive_patterns.
Monotonic(e) ==
  RulesAreNew(e) /\ RiskIsKept(e) /\ CapIsKept(e) /\ e.patterns # "copied"

\* _build_snapshot: the tenant's layer in the new snapshot.
Effective(e) == IF e.loads = "ok" /\ Monotonic(e) THEN e ELSE Bare
------------------------------------------------------------------------------
(* What the gates read from the overlay in force (_view).                   *)

\* Defect: the risk the overlay declares, without the baseline's.
RiskDefect(e) == LayerRisk(e)

\* get_tool_risks
Risk(e) == IF LayerRisk(e) # Undeclared THEN LayerRisk(e) ELSE BaseCap.risk

\* get_tool_capabilities
Cap(e) == IF e.cap # NoCap THEN e.cap ELSE BaseCap

\* get_sensitive_pattern: a union that does not compile is None, and Gate4 then
\* falls back to its built-in list.
Sensitive(e) == IF e.patterns = "broken" THEN BuiltIn ELSE BaseMatches \cup e.matches

\* get_policy_rules: a list, in which an id may occur twice.
RuleList(e) == {<<i, BaseRules[i]>> : i \in DOMAIN BaseRules}
               \cup {<<i, e.rules[i]>> : i \in DOMAIN e.rules}

\* get_compiled_predicates: the overlay's predicate replaces one of the same id.
Compiled(e) == [i \in DOMAIN BaseRules \cup DOMAIN e.rules |->
                  IF i \in DOMAIN e.rules THEN e.rules[i] ELSE BaseRules[i]]
------------------------------------------------------------------------------
(* The gates.                                                               *)

\* A predicate, evaluated on a call with the risk and the taint of its context.
Matches(p, k, risk, taint) == k \in p.hits /\ risk >= p.risk /\ taint >= p.taint

\* GateContext.append, for the decisions of several gates.
Stricter(d1, d2) == IF d1 >= d2 THEN d1 ELSE d2

\* Gate2Plan.evaluate
Gate2(risk) == IF risk = 0 THEN ALLOW ELSE IF risk = 1 THEN WARN ELSE RedDecision

\* Gate4Taint._infer_taint
Taint(k, sensitive) == IF k \in sensitive THEN Confidential ELSE SourceTaint[k]

\* Gate4Taint.evaluate, INBOUND
Gate4(k, cap, taint) ==
  IF taint > cap.limit \/ (cap.external /\ k \in Unresolved) THEN DENY ELSE ALLOW

\* Gate3Policy.evaluate: the rules read first, with the predicates found for them.
Gate3(rules, predicates, k, risk, taint) ==
  LET hits == {r \in rules : /\ r[1] \in DOMAIN predicates
                             /\ Matches(predicates[r[1]], k, risk, taint)}
      Enforced(d) == \E r \in hits : r[2].enforce = d
  IN IF Enforced(DENY) THEN DENY
     ELSE IF Enforced(REQUIRE_APPROVAL) THEN REQUIRE_APPROVAL
     ELSE IF Enforced(WARN) THEN WARN ELSE ALLOW

\* What the three gates decide for a call under one overlay.
Verdict(k, e) ==
  LET taint == Taint(k, Sensitive(e)) IN
  Stricter(Gate2(Risk(e)),
           Stricter(Gate4(k, Cap(e), taint),
                    Gate3(RuleList(e), Compiled(e), k, Risk(e), taint)))

\* What they decide for it at least, whatever the overlay: the baseline with no
\* more than the patterns that the built-in list has as well.
Floor(k) ==
  LET taint == Taint(k, BaseMatches \cap BuiltIn) IN
  Stricter(Gate2(BaseCap.risk),
           Stricter(Gate4(k, BaseCap, taint),
                    Gate3(RuleList(Bare), Compiled(Bare), k, BaseCap.risk, taint)))
==============================================================================
