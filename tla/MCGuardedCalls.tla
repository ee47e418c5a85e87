---------------------------- MODULE MCGuardedCalls ----------------------------
(* Small instances of GuardedCalls for TLC: a yellow tool that may reach the
   outside, with one baseline rule that wants an approval, and one that denies. *)
EXTENDS GuardedCalls

CONSTANTS c1, t1, noToken, noSha

OneCaller == {c1}
OneToken == {t1}

BothBackends == {"python", "rego"}
PythonBackend == {"python"}

\* A call the baseline wants approved, and one with a secret, which it denies.
TwoCalls == {"plain", "secret"}
Taints == [k \in TwoCalls |-> 0]
SecretOnly == {"secret"}

ToolCap == [limit |-> 1, external |-> TRUE, risk |-> 1]
RuleFor(calls, taint, decision) ==
  [hits |-> calls, risk |-> 1, taint |-> taint, enforce |-> decision]
BaselineRules == [i \in {"ask", "ban"} |->
  IF i = "ask" THEN RuleFor({"plain"}, 0, REQUIRE_APPROVAL)
               ELSE RuleFor(TwoCalls, 2, DENY)]

TenantIds == {"own1", "own2"}

\* Overlays that come into force: one asks for another approval, one denies with a
\* tighter limit, one makes the tool red and has a pattern that does not compile.
Asks == [Bare EXCEPT !.rules = [i \in {"own1"} |-> RuleFor({"plain"}, 0, REQUIRE_APPROVAL)]]
Denies == [Bare EXCEPT !.rules = [i \in {"own2"} |-> RuleFor({"plain"}, 0, DENY)],
                       !.cap = [ToolCap EXCEPT !.limit = 0]]
Raises == [Bare EXCEPT !.risk = 2, !.patterns = "broken"]
\* Overlays that do not: a rule with an id of the baseline, and half a file.
Overrides == [Bare EXCEPT !.rules = [i \in {"ask"} |-> RuleFor({}, 0, REQUIRE_APPROVAL)]]
Torn == [Bare EXCEPT !.loads = "torn"]

AllKinds == {Bare, Denies, Raises, Overrides, Torn}
TwoAsking == {Bare, Asks, Raises}
==============================================================================
