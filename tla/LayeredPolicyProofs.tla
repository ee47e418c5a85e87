-------------------------- MODULE LayeredPolicyProofs --------------------------
(* What the operators of LayeredPolicy return, and why no overlay that passes  *)
(* the monotonicity checks brings a decision below the baseline's.             *)
EXTENDS LayeredPolicy, TLAPS

\* An overlay in force: one of the editions, and it passed the checks.
Sound(e) == e \in Editions /\ Monotonic(e)

\* The taint a call has whatever the overlay: the one Floor is stated with.
FloorTaint(k) == Taint(k, BaseMatches \cap BuiltIn)

\* A limit, and a way to the outside, at least as strict as the baseline's.
CapStands(cap) == /\ cap \in Capability
                  /\ cap.limit <= BaseCap.limit
                  /\ BaseCap.external => cap.external

\* A list of rules in which those of the baseline are as they were, and alone
\* with their ids.
Grounded(rules) ==
  \A i \in DOMAIN BaseRules : /\ <<i, BaseRules[i]>> \in rules
                              /\ \A r \in rules : r[1] = i => r = <<i, BaseRules[i]>>

\* Predicates in which those of the baseline are as they were.
PredicatesStand(p) == DOMAIN BaseRules \subseteq DOMAIN p
                      /\ \A i \in DOMAIN BaseRules : p[i] = BaseRules[i]
------------------------------------------------------------------------------
(* Values.                                                                    *)

\* The empty overlay passes every check.
LEMMA BareIsSound == Sound(Bare)
  BY PolicyAssumption
  DEF Sound, Bare, Monotonic, RulesAreNew, RiskIsKept, LayerRisk, CapIsKept, NoCap

\* A snapshot holds an edition that passed the checks, or none.
LEMMA EffectiveIsSound ==
  ASSUME NEW e \in Editions
  PROVE  Sound(Effective(e))
  BY BareIsSound DEF Effective, Sound

\* The gates read a level and a capability, whatever the overlay leaves out.
LEMMA ReadsAreTyped ==
  ASSUME NEW e \in Editions
  PROVE  Risk(e) \in Levels /\ Cap(e) \in Capability /\ LayerRisk(e) \in Levels \cup {Undeclared}
  <1>1. /\ BaseCap \in Capability
        /\ e.risk \in Levels \cup {Undeclared} /\ e.cap \in Capability \cup {NoCap}
    BY PolicyAssumption
  <1>2. LayerRisk(e) \in Levels \cup {Undeclared}
    BY <1>1 DEF LayerRisk, Capability, NoCap
  <1> QED BY <1>1, <1>2 DEF Risk, Cap, Capability

\* The decision of Gate 2.
LEMMA Gate2Typed ==
  ASSUME NEW r \in Levels
  PROVE  Gate2(r) \in Decisions
  BY PolicyAssumption DEF Gate2, Decisions, Levels, ALLOW, WARN, REQUIRE_APPROVAL, DENY

\* The taint of a call.
LEMMA TaintTyped ==
  ASSUME NEW k \in Calls, NEW S
  PROVE  Taint(k, S) \in Levels
  BY PolicyAssumption DEF Taint, Levels, Confidential

\* The decisions of Gates 3 and 4.
LEMMA GatesTyped ==
  ASSUME NEW k, NEW cap, NEW taint, NEW rules, NEW p, NEW risk
  PROVE  Gate4(k, cap, taint) \in Decisions /\ Gate3(rules, p, k, risk, taint) \in Decisions
  BY DEF Gate4, Gate3, Decisions, ALLOW, WARN, REQUIRE_APPROVAL, DENY

\* Of two decisions one is kept, and neither is stricter.
LEMMA StricterIsUpper ==
  ASSUME NEW d1 \in Decisions, NEW d2 \in Decisions
  PROVE  /\ Stricter(d1, d2) \in {d1, d2} /\ Stricter(d1, d2) \in Decisions
         /\ Stricter(d1, d2) >= d1 /\ Stricter(d1, d2) >= d2
  BY DEF Stricter, Decisions, ALLOW, DENY
------------------------------------------------------------------------------
(* Monotonicity: each of the gates, and what it reads of a sound overlay.     *)

\* The risk of a tool is not lowered.
LEMMA RiskIsFloored ==
  ASSUME NEW e, Sound(e)
  PROVE  Risk(e) >= BaseCap.risk
  <1>1. BaseCap.risk \in Levels
    BY PolicyAssumption DEF Capability
  <1>2. LayerRisk(e) = Undeclared \/ LayerRisk(e) >= BaseCap.risk
    BY DEF Sound, Monotonic, RiskIsKept
  <1> QED BY <1>1, <1>2 DEF Risk, Levels

\* Nor is its capability widened.
LEMMA CapIsFloored ==
  ASSUME NEW e, Sound(e)
  PROVE  CapStands(Cap(e))
  <1>1. BaseCap \in Capability /\ e.cap \in Capability \cup {NoCap}
    BY PolicyAssumption DEF Sound
  <1>2. CapIsKept(e)
    BY DEF Sound, Monotonic
  <1>3. CASE e.cap = NoCap
    BY <1>1, <1>3 DEF Cap, CapStands, Capability, Levels
  <1>4. CASE e.cap # NoCap
    BY <1>1, <1>2, <1>4 DEF Cap, CapStands, CapIsKept
  <1> QED BY <1>3, <1>4

\* The patterns that the built-in list shares with the baseline always count.
LEMMA TaintIsFloored ==
  ASSUME NEW e, NEW k \in Calls
  PROVE  Taint(k, Sensitive(e)) >= FloorTaint(k)
  <1>1. SourceTaint[k] \in Levels
    BY PolicyAssumption
  <1> QED BY <1>1 DEF FloorTaint, Taint, Sensitive, Levels, Confidential

\* The rules of the baseline are in every list, once.
LEMMA RulesAreGrounded ==
  ASSUME NEW e, Sound(e)
  PROVE  Grounded(RuleList(e))
  <1>1. \A i \in DOMAIN e.rules : i \notin DOMAIN BaseRules
    BY DEF Sound, Monotonic, RulesAreNew
  <1> QED BY <1>1 DEF Grounded, RuleList

\* And so are their predicates.
LEMMA CompiledStands ==
  ASSUME NEW e, Sound(e)
  PROVE  PredicatesStand(Compiled(e))
  <1>1. \A i \in DOMAIN e.rules : i \notin DOMAIN BaseRules
    BY DEF Sound, Monotonic, RulesAreNew
  <1> QED BY <1>1 DEF PredicatesStand, Compiled

\* A higher risk is no reason for a milder decision of Gate 2.
LEMMA Gate2IsMonotonic ==
  ASSUME NEW r1 \in Levels, NEW r2 \in Levels, r1 <= r2
  PROVE  Gate2(r1) <= Gate2(r2)
  BY PolicyAssumption DEF Gate2, Levels, ALLOW, WARN, REQUIRE_APPROVAL, DENY

\* A stricter capability and a higher taint are none for Gate 4.
LEMMA Gate4IsMonotonic ==
  ASSUME NEW k, NEW cap, CapStands(cap), NEW t1 \in Levels, NEW t2 \in Levels, t1 <= t2
  PROVE  Gate4(k, BaseCap, t1) <= Gate4(k, cap, t2)
  BY PolicyAssumption DEF CapStands, Gate4, Capability, Levels, ALLOW, DENY

\* And more rules, a higher risk and a higher taint are none for Gate 3.
LEMMA Gate3IsMonotonic ==
  ASSUME NEW k, NEW rules, Grounded(rules), NEW p, PredicatesStand(p),
         NEW r1 \in Levels, NEW r2 \in Levels, r1 <= r2,
         NEW t1 \in Levels, NEW t2 \in Levels, t1 <= t2
  PROVE  Gate3(RuleList(Bare), Compiled(Bare), k, r1, t1) <= Gate3(rules, p, k, r2, t2)
  <1> DEFINE base == {r \in RuleList(Bare) : /\ r[1] \in DOMAIN Compiled(Bare)
                                             /\ Matches(Compiled(Bare)[r[1]], k, r1, t1)}
             hits == {r \in rules : r[1] \in DOMAIN p /\ Matches(p[r[1]], k, r2, t2)}
             BaseEnforces(d) == \E r \in base : r[2].enforce = d
             Enforces(d) == \E r \in hits : r[2].enforce = d
  <1>1. ASSUME NEW r \in base PROVE r \in hits
    <2>1. DOMAIN Bare.rules = {} /\ PredicatesStand(Compiled(Bare))
      BY CompiledStands, BareIsSound DEF Bare
    <2>2. PICK i \in DOMAIN BaseRules : r = <<i, BaseRules[i]>>
      BY <2>1 DEF RuleList
    <2>3. r \in rules /\ i \in DOMAIN p /\ p[i] = BaseRules[i]
      BY <2>2 DEF Grounded, PredicatesStand
    <2>4. Matches(BaseRules[i], k, r1, t1)
      BY <2>1, <2>2 DEF PredicatesStand
    <2>5. BaseRules[i].risk \in Levels /\ BaseRules[i].taint \in Levels
      BY PolicyAssumption DEF Rule
    <2>6. Matches(BaseRules[i], k, r2, t2)
      BY <2>4, <2>5 DEF Matches, Levels
    <2> QED BY <2>2, <2>3, <2>6
  <1>2. \A d : BaseEnforces(d) => Enforces(d)
    BY <1>1
  <1>3. Gate3(RuleList(Bare), Compiled(Bare), k, r1, t1)
          = IF BaseEnforces(DENY) THEN DENY
            ELSE IF BaseEnforces(REQUIRE_APPROVAL) THEN REQUIRE_APPROVAL
            ELSE IF BaseEnforces(WARN) THEN WARN ELSE ALLOW
    BY DEF Gate3
  <1>4. Gate3(rules, p, k, r2, t2)
          = IF Enforces(DENY) THEN DENY
            ELSE IF Enforces(REQUIRE_APPROVAL) THEN REQUIRE_APPROVAL
            ELSE IF Enforces(WARN) THEN WARN ELSE ALLOW
    BY DEF Gate3
  <1> HIDE DEF BaseEnforces, Enforces
  <1> QED BY <1>2, <1>3, <1>4 DEF ALLOW, WARN, REQUIRE_APPROVAL, DENY

\* Every sound overlay, whole: a call never fares better than under the floor.
THEOREM OverlayOnlyTightens ==
  \A k \in Calls : \A e \in Editions : Monotonic(e) => Verdict(k, e) >= Floor(k)
  <1> SUFFICES ASSUME NEW k \in Calls, NEW e, Sound(e)
               PROVE  Verdict(k, e) >= Floor(k)
    BY DEF Sound
  <1> DEFINE t == Taint(k, Sensitive(e))
             f2 == Gate2(BaseCap.risk)
             f4 == Gate4(k, BaseCap, FloorTaint(k))
             f3 == Gate3(RuleList(Bare), Compiled(Bare), k, BaseCap.risk, FloorTaint(k))
             v2 == Gate2(Risk(e))
             v4 == Gate4(k, Cap(e), t)
             v3 == Gate3(RuleList(e), Compiled(e), k, Risk(e), t)
  <1>1. /\ BaseCap.risk \in Levels /\ Risk(e) \in Levels
        /\ t \in Levels /\ FloorTaint(k) \in Levels
    BY PolicyAssumption, ReadsAreTyped, TaintTyped DEF Sound, FloorTaint, Capability
  <1>2. Risk(e) >= BaseCap.risk /\ t >= FloorTaint(k)
    BY RiskIsFloored, TaintIsFloored
  <1>3. /\ f2 \in Decisions /\ f3 \in Decisions /\ f4 \in Decisions
        /\ v2 \in Decisions /\ v3 \in Decisions /\ v4 \in Decisions
    BY <1>1, Gate2Typed, GatesTyped
  <1>4. f2 <= v2
    BY <1>1, <1>2, Gate2IsMonotonic DEF Levels
  <1>5. f4 <= v4
    BY <1>1, <1>2, CapIsFloored, Gate4IsMonotonic DEF Levels
  <1>6. f3 <= v3
    BY <1>1, <1>2, RulesAreGrounded, CompiledStands, Gate3IsMonotonic DEF Levels
  <1>7. Floor(k) = Stricter(f2, Stricter(f4, f3)) /\ Verdict(k, e) = Stricter(v2, Stricter(v4, v3))
    BY DEF Floor, Verdict, FloorTaint
  <1> HIDE DEF f2, f3, f4, v2, v3, v4
  <1> QED BY <1>3, <1>4, <1>5, <1>6, <1>7 DEF Stricter, Decisions, ALLOW, DENY
==============================================================================
