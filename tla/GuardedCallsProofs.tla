-------------------------- MODULE GuardedCallsProofs --------------------------
(* Proofs about GuardedCalls, for any calls, rules, overlays and callers.      *)
EXTENDS GuardedCalls, ApprovalTokensProofs, LayeredPolicyProofs

------------------------------------------------------------------------------
(* A guarded call uses its token as ApprovalTokens says.                      *)

\* Every step is a step of the tokens, or leaves them alone.
LEMMA TokenStep == [GuardNext]_guardVars => [Next]_vars
  <1> SUFFICES ASSUME [GuardNext]_guardVars PROVE [Next]_vars
    OBVIOUS
  <1>1. CASE Wait
    BY <1>1 DEF Wait, Next
  <1>2. CASE Load \/ Swap \/ WatcherCrashes \/ \E e \in Editions : Edit(e)
    BY <1>2 DEF Load, Swap, WatcherCrashes, Edit
  <1>3. CASE \E t \in Tokens : Approve(t)
    BY <1>3 DEF Approve, Next
  <1>4. ASSUME NEW c \in Callers, NEW t \in Tokens, ResumeApproved(c, t) PROVE Next
    BY <1>4 DEF ResumeApproved, Next
  <1>5. ASSUME NEW c \in Callers, Refused(c) \/ Reverify(c) PROVE [Next]_vars
    BY <1>5 DEF Refused, Reverify, Next
  <1>6. ASSUME NEW c \in Callers, ConsumeAndExecute(c) PROVE Next
    BY <1>6 DEF ConsumeAndExecute, Next
  <1>7. ASSUME NEW c \in Callers,
               \/ \E k \in Calls : Start(c, k)
               \/ ReadRisk(c) \/ ReadCap(c) \/ Scan(c) \/ ReadRules(c) \/ ReadSha(c)
               \/ Judge(c) \/ Conclude(c) \/ Finish(c)
        PROVE  UNCHANGED vars
    BY <1>7 DEF Start, ReadRisk, ReadCap, Scan, ReadRules, ReadSha, Judge, Conclude, Finish
  <1>8. CASE UNCHANGED guardVars
    BY <1>8 DEF guardVars
  <1> QED BY <1>1, <1>2, <1>3, <1>4, <1>5, <1>6, <1>7, <1>8 DEF GuardNext

\* Calls through the gates implement ApprovalTokens.
THEOREM GuardedTokens == GuardSpec => Spec
  <1>1. GuardInit => Init
    BY DEF GuardInit
  <1> QED BY <1>1, TokenStep, PTL DEF GuardSpec, Spec

\* Whatever is reloaded while a call is resumed, its token executes once.
THEOREM GuardedOnce == GuardSpec => []OnceWhileValid
  BY GuardedTokens, TokensExecuteOnce, PTL
------------------------------------------------------------------------------
(* No edit of an overlay is lost or undone.                                   *)

\* What a reload has read is what is on disk, unless the watcher will hear of more.
LoadedIsCurrent == watcher = "loaded" /\ ~pending => loaded = Effective(disk)

\* Both hold at first.
LEMMA SettledInit == GuardInit => SettledMeansInForce /\ LoadedIsCurrent
  BY DEF GuardInit, SettledMeansInForce, LoadedIsCurrent

\* An edit makes the watcher pending; a reload reads all there is, or nothing.
LEMMA SettledStep ==
  SettledMeansInForce /\ LoadedIsCurrent /\ [GuardNext]_guardVars
    => SettledMeansInForce' /\ LoadedIsCurrent'
  <1> SUFFICES ASSUME SettledMeansInForce, LoadedIsCurrent, [GuardNext]_guardVars
               PROVE  SettledMeansInForce' /\ LoadedIsCurrent'
    OBVIOUS
  <1> USE DEF SettledMeansInForce, LoadedIsCurrent
  <1>1. CASE UNCHANGED policyVars
    BY <1>1 DEF policyVars
  <1>2. CASE Load
    BY <1>2 DEF Load
  <1>3. CASE Swap
    BY <1>3 DEF Swap
  <1>4. CASE WatcherCrashes
    BY <1>4 DEF WatcherCrashes
  <1>5. CASE \E e \in Editions : Edit(e)
    BY <1>5 DEF Edit
  <1>6. CASE \E t \in Tokens : Approve(t)
    BY <1>1, <1>6 DEF Approve
  <1>7. ASSUME NEW c \in Callers,
               \/ \E k \in Calls : Start(c, k)
               \/ \E t \in Tokens : ResumeApproved(c, t)
               \/ Refused(c) \/ ReadRisk(c) \/ ReadCap(c) \/ Scan(c) \/ ReadRules(c)
               \/ ReadSha(c) \/ Judge(c) \/ Conclude(c) \/ Reverify(c)
               \/ ConsumeAndExecute(c) \/ Finish(c)
        PROVE  UNCHANGED policyVars
    BY <1>7 DEF Start, ResumeApproved, Refused, ReadRisk, ReadCap, Scan, ReadRules,
                ReadSha, Judge, Conclude, Reverify, ConsumeAndExecute, Finish
  <1> QED BY <1>1, <1>2, <1>3, <1>4, <1>5, <1>6, <1>7 DEF GuardNext, Wait, guardVars

\* Whenever the watcher has nothing left to do, the overlay on disk is in force,
\* however many edits were made, and at whatever moments of its reloads.
THEOREM SettledIsInForce == GuardSpec => []SettledMeansInForce
  BY SettledInit, SettledStep, PTL DEF GuardSpec
------------------------------------------------------------------------------
(* Types.                                                                     *)

\* The tokens' invariant holds of guarded calls.
LEMMA TokensHold == GuardSpec => []Inv
  BY GuardedTokens, AlwaysInv, PTL

\* A list of rules is a set of rules by id.
LEMMA RuleListTyped ==
  ASSUME NEW e \in Editions
  PROVE  RuleList(e) \in RuleSets
  <1>1. /\ \A i \in DOMAIN BaseRules : BaseRules[i] \in Rule
        /\ \A i \in DOMAIN e.rules : e.rules[i] \in Rule
    BY PolicyAssumption
  <1>2. DOMAIN BaseRules \subseteq Ids /\ DOMAIN e.rules \subseteq Ids
    BY DEF Ids
  <1> QED BY <1>1, <1>2 DEF RuleList, RuleSets

\* The context of a new call.
LEMMA FreshTyped ==
  ASSUME NEW k \in Calls
  PROVE  Fresh(k) \in Context
  <1>1. Bare \in Editions
    BY PolicyAssumption
  <1>2. {} \in RuleSets
    BY DEF RuleSets
  <1> QED BY <1>1, <1>2 DEF Fresh, Context, Decisions, Levels, ALLOW, DENY

\* What a caller holds between two calls.
LEMMA IdleTyped == Idle \in Context /\ Idle.call \in Calls
  <1>1. (CHOOSE k \in Calls : TRUE) \in Calls
    BY CallsAssumption
  <1> QED BY <1>1, FreshTyped DEF Idle, Fresh

\* A gate's decision is appended to the caller's.
LEMMA AppendedTyped ==
  ASSUME NEW c \in Callers, ctx[c] \in Context, NEW d \in Decisions
  PROVE  Appended(c, d) \in Decisions
  <1>1. ctx[c].verdict \in Decisions /\ ALLOW \in Decisions
    BY DEF Context, Decisions, ALLOW, DENY
  <1> QED BY <1>1, StricterIsUpper DEF Appended

\* The sha of the policy is the sha of an edition.
LEMMA BundleShaTyped == GuardTypeOK => BundleSha \in Editions
  BY PolicyAssumption DEF GuardTypeOK, BundleSha

\* The type of the engine and of the blocked calls, which some callers change.
EngineTyped == engine \in [sha : Editions \cup {NoSha}, rules : RuleSets]
BlockedTyped == blocked \subseteq [call : Calls, taint : Levels]

\* A caller that goes on keeps the types, if its new context is one.
LEMMA ProceedTyped ==
  ASSUME GuardTypeOK, NEW c \in Callers, NEW s \in Stages, NEW new \in Context,
         Proceed(c, s, new), UNCHANGED <<backend, policyVars, bound>>,
         EngineTyped', BlockedTyped'
  PROVE  GuardTypeOK'
  <1>1. at' \in [Callers -> Stages] /\ ctx' \in [Callers -> Context]
    BY DEF GuardTypeOK, Proceed
  <1> QED BY <1>1 DEF GuardTypeOK, policyVars, EngineTyped, BlockedTyped

\* At first.
LEMMA TypeInit == GuardInit => GuardTypeOK
  <1> SUFFICES ASSUME GuardInit PROVE GuardTypeOK
    OBVIOUS
  <1>1. disk \in Editions /\ Effective(disk) \in Editions /\ Bare \in Editions
    BY PolicyAssumption, EffectiveIsSound DEF GuardInit, Sound
  <1>2. engine \in [sha : Editions \cup {NoSha}, rules : RuleSets]
    BY DEF GuardInit, RuleSets
  <1>3. at \in [Callers -> Stages] /\ ctx \in [Callers -> Context]
    BY IdleTyped DEF GuardInit, Stages
  <1>4. bound \in [Tokens -> [call : Calls, taint : Levels, sha : Editions, inForce : Editions]]
    BY <1>1, IdleTyped DEF GuardInit, Levels
  <1>5. edits \in 0..MaxEdits
    <2>1. edits = 0 /\ MaxEdits \in Nat
      BY CallsAssumption DEF GuardInit
    <2> QED BY <2>1
  <1>6. /\ backend \in Backends /\ snapshot \in Editions /\ loaded \in Editions
        /\ pending \in BOOLEAN /\ watcher \in {"waiting", "loaded", "dead"}
    BY <1>1 DEF GuardInit
  <1>7. blocked \subseteq [call : Calls, taint : Levels]
    BY DEF GuardInit
  <1> QED BY <1>1, <1>2, <1>3, <1>4, <1>5, <1>6, <1>7 DEF GuardTypeOK

\* The operator and the watcher handle editions only.
LEMMA PolicyTyped ==
  ASSUME GuardTypeOK, Load \/ Swap \/ WatcherCrashes \/ \E e \in Editions : Edit(e)
  PROVE  GuardTypeOK'
  <1>1. Effective(disk) \in Editions
    BY EffectiveIsSound DEF GuardTypeOK, Sound
  <1>2. CASE Load
    BY <1>1, <1>2 DEF GuardTypeOK, Load, callVars
  <1>3. CASE Swap
    BY <1>3 DEF GuardTypeOK, Swap, callVars
  <1>4. CASE WatcherCrashes
    BY <1>4 DEF GuardTypeOK, WatcherCrashes, callVars
  <1>5. CASE \E e \in Editions : Edit(e)
    BY <1>5, CallsAssumption DEF GuardTypeOK, Edit, callVars
  <1> QED BY <1>2, <1>3, <1>4, <1>5

\* A person binds a token to the call, the sha and the snapshot.
LEMMA ApproveTyped ==
  ASSUME GuardTypeOK, NEW t \in Tokens, Approve(t)
  PROVE  GuardTypeOK'
  <1>1. BundleSha \in Editions /\ snapshot \in Editions
    BY BundleShaTyped DEF GuardTypeOK
  <1>2. PICK b \in blocked :
          bound' = [bound EXCEPT ![t] = [call |-> b.call, taint |-> b.taint,
                                         sha |-> BundleSha, inForce |-> snapshot]]
    BY DEF Approve
  <1>3. b.call \in Calls /\ b.taint \in Levels
    BY DEF GuardTypeOK
  <1>4. bound' \in [Tokens -> [call : Calls, taint : Levels, sha : Editions, inForce : Editions]]
    BY <1>1, <1>2, <1>3 DEF GuardTypeOK
  <1> QED BY <1>4 DEF GuardTypeOK, Approve, policyVars

\* A caller that starts, resumes, is refused or has finished.
LEMMA EndsTyped ==
  ASSUME GuardTypeOK, NEW c \in Callers,
         \/ \E k \in Calls : Start(c, k)
         \/ \E t \in Tokens : ResumeApproved(c, t)
         \/ Refused(c) \/ Finish(c)
  PROVE  GuardTypeOK'
  <1>1. EngineTyped /\ BlockedTyped
    BY DEF GuardTypeOK, EngineTyped, BlockedTyped
  <1>2. \A t \in Tokens : bound[t].call \in Calls
    BY DEF GuardTypeOK
  <1>3. "none" \in Stages /\ "gate2" \in Stages
    BY DEF Stages
  <1>4. CASE \E k \in Calls : Start(c, k)
    BY <1>1, <1>3, <1>4, FreshTyped, ProceedTyped DEF Start, EngineTyped, BlockedTyped
  <1>5. CASE \E t \in Tokens : ResumeApproved(c, t)
    BY <1>1, <1>2, <1>3, <1>5, FreshTyped, ProceedTyped
    DEF ResumeApproved, EngineTyped, BlockedTyped
  <1>6. CASE Refused(c)
    BY <1>1, <1>3, <1>6, IdleTyped, ProceedTyped DEF Refused, EngineTyped, BlockedTyped
  <1>7. CASE Finish(c)
    BY <1>1, <1>3, <1>7, IdleTyped, ProceedTyped DEF Finish, EngineTyped, BlockedTyped
  <1> QED BY <1>4, <1>5, <1>6, <1>7

\* A caller that goes through the gates.
LEMMA GatesTypeOK ==
  ASSUME GuardTypeOK, NEW c \in Callers,
         ReadRisk(c) \/ ReadCap(c) \/ Scan(c) \/ ReadRules(c) \/ ReadSha(c) \/ Judge(c)
  PROVE  GuardTypeOK'
  <1>1. EngineTyped /\ BlockedTyped /\ ctx[c] \in Context /\ snapshot \in Editions
    BY DEF GuardTypeOK, EngineTyped, BlockedTyped
  <1>2. {"gate4", "scan", "gate3", "sha", "predicates", "judged"} \subseteq Stages
    BY DEF Stages
  <1>3. CASE ReadRisk(c)
    <2> DEFINE d == Appended(c, Gate2(Risk(snapshot)))
               new == [ctx[c] EXCEPT !.risk = Risk(snapshot), !.verdict = d]
    <2>1. Risk(snapshot) \in Levels /\ d \in Decisions
      BY <1>1, ReadsAreTyped, Gate2Typed, AppendedTyped
    <2>2. new \in Context
      BY <1>1, <2>1 DEF Context
    <2>3. /\ Proceed(c, "gate4", new)
          /\ UNCHANGED <<backend, policyVars, engine, blocked, bound>>
      BY <1>3 DEF ReadRisk
    <2> QED BY <1>1, <1>2, <2>2, <2>3, ProceedTyped DEF EngineTyped, BlockedTyped
  <1>4. CASE ReadCap(c)
    <2> DEFINE new == [ctx[c] EXCEPT !.cap = Cap(snapshot)]
    <2>1. new \in Context
      BY <1>1, ReadsAreTyped DEF Context
    <2>2. /\ Proceed(c, "scan", new)
          /\ UNCHANGED <<backend, policyVars, engine, blocked, bound>>
      BY <1>4 DEF ReadCap
    <2> QED BY <1>1, <1>2, <2>1, <2>2, ProceedTyped DEF EngineTyped, BlockedTyped
  <1>5. CASE Scan(c)
    <2> DEFINE t == Taint(ctx[c].call, Sensitive(snapshot))
               d == Appended(c, Gate4(ctx[c].call, ctx[c].cap, t))
               new == [ctx[c] EXCEPT !.taint = t, !.verdict = d]
    <2>1. ctx[c].call \in Calls
      BY <1>1 DEF Context
    <2>2. t \in Levels /\ d \in Decisions
      BY <1>1, <2>1, TaintTyped, GatesTyped, AppendedTyped
    <2>3. new \in Context
      BY <1>1, <2>2 DEF Context
    <2>4. /\ Proceed(c, "gate3", new)
          /\ UNCHANGED <<backend, policyVars, engine, blocked, bound>>
      BY <1>5 DEF Scan
    <2> QED BY <1>1, <1>2, <2>3, <2>4, ProceedTyped DEF EngineTyped, BlockedTyped
  <1>6. CASE ReadRules(c)
    <2> DEFINE new == [ctx[c] EXCEPT !.rules = RuleList(snapshot)]
    <2>1. new \in Context
      BY <1>1, RuleListTyped DEF Context
    <2>2. /\ Proceed(c, "sha", new)
          /\ UNCHANGED <<backend, policyVars, engine, blocked, bound>>
      BY <1>6 DEF ReadRules
    <2> QED BY <1>1, <1>2, <2>1, <2>2, ProceedTyped DEF EngineTyped, BlockedTyped
  <1>7. CASE ReadSha(c)
    <2> DEFINE new == [ctx[c] EXCEPT !.sha = BundleSha]
    <2>1. new \in Context
      BY <1>1, BundleShaTyped DEF Context
    <2>2. /\ Proceed(c, "predicates", new)
          /\ UNCHANGED <<backend, policyVars, engine, blocked, bound>>
      BY <1>7 DEF ReadSha
    <2> QED BY <1>1, <1>2, <2>1, <2>2, ProceedTyped DEF EngineTyped, BlockedTyped
  <1>8. CASE Judge(c)
    <2> DEFINE d == Appended(c, Gate3(ctx[c].rules, Predicates(c), ctx[c].call,
                                      ctx[c].risk, ctx[c].taint))
               new == [ctx[c] EXCEPT !.verdict = d, !.judgedBy = snapshot]
    <2>1. d \in Decisions
      BY <1>1, GatesTyped, AppendedTyped
    <2>2. new \in Context
      BY <1>1, <2>1 DEF Context
    <2>3. EngineFor(c) \in [sha : Editions \cup {NoSha}, rules : RuleSets]
      BY <1>1 DEF EngineFor, EngineTyped, Context
    <2>4. /\ Proceed(c, "judged", new)
          /\ engine' = engine \/ engine' = EngineFor(c)
          /\ UNCHANGED <<backend, policyVars, blocked, bound>>
      BY <1>8 DEF Judge
    <2> QED BY <1>1, <1>2, <2>2, <2>3, <2>4, ProceedTyped DEF EngineTyped, BlockedTyped
  <1> QED BY <1>3, <1>4, <1>5, <1>6, <1>7, <1>8

\* A caller that is through the gates.
LEMMA OutcomeTyped ==
  ASSUME GuardTypeOK, Inv, NEW c \in Callers,
         Conclude(c) \/ Reverify(c) \/ ConsumeAndExecute(c)
  PROVE  GuardTypeOK'
  <1>1. EngineTyped /\ BlockedTyped /\ ctx[c] \in Context /\ Idle \in Context
    BY IdleTyped DEF GuardTypeOK, EngineTyped, BlockedTyped
  <1>2. {"none", "execute"} \subseteq Stages
    BY DEF Stages
  <1>3. CASE Conclude(c)
    <2>1. [call |-> ctx[c].call, taint |-> ctx[c].taint] \in [call : Calls, taint : Levels]
      BY <1>1 DEF Context
    <2>2. BlockedTyped'
      BY <1>1, <1>3, <2>1 DEF Conclude, BlockedTyped
    <2>3. PICK s \in {"none", "execute"}, new \in {ctx[c], Idle} : Proceed(c, s, new)
      BY <1>3 DEF Conclude
    <2>4. UNCHANGED <<backend, policyVars, engine, bound>>
      BY <1>3 DEF Conclude
    <2> QED BY <1>1, <1>2, <2>2, <2>3, <2>4, ProceedTyped DEF EngineTyped
  <1>4. CASE Reverify(c)
    <2>1. UNCHANGED <<backend, policyVars, engine, blocked, bound>>
      BY <1>4 DEF Reverify
    <2>2. CASE UNCHANGED <<at, ctx>>
      BY <2>1, <2>2 DEF GuardTypeOK, policyVars
    <2>3. CASE Proceed(c, "none", Idle)
      BY <1>1, <1>2, <2>1, <2>3, ProceedTyped DEF EngineTyped, BlockedTyped
    <2> QED BY <1>4, <2>2, <2>3 DEF Reverify
  <1>5. CASE ConsumeAndExecute(c)
    <2> DEFINE new == [ctx[c] EXCEPT !.approvedUnder = {bound[held[c]].inForce}]
    <2>1. held[c] \in Tokens
      BY <1>5 DEF ConsumeAndExecute, Consume, Inv, Remembers
    <2>2. bound[held[c]].inForce \in Editions
      BY <2>1 DEF GuardTypeOK
    <2>3. new \in Context
      BY <1>1, <2>2 DEF Context
    <2>4. /\ Proceed(c, "none", Idle) \/ Proceed(c, "execute", new)
          /\ UNCHANGED <<backend, policyVars, engine, blocked, bound>>
      BY <1>5 DEF ConsumeAndExecute
    <2> QED BY <1>1, <1>2, <2>3, <2>4, ProceedTyped DEF EngineTyped, BlockedTyped
  <1> QED BY <1>3, <1>4, <1>5

\* Every step keeps the types.
LEMMA TypeStep == GuardTypeOK /\ Inv /\ [GuardNext]_guardVars => GuardTypeOK'
  <1> SUFFICES ASSUME GuardTypeOK, Inv, [GuardNext]_guardVars PROVE GuardTypeOK'
    OBVIOUS
  <1>1. CASE Wait \/ UNCHANGED guardVars
    BY <1>1 DEF GuardTypeOK, Wait, guardVars, policyVars, callVars
  <1>2. CASE GuardNext /\ ~Wait
    BY <1>2, PolicyTyped, ApproveTyped, EndsTyped, GatesTypeOK, OutcomeTyped DEF GuardNext
  <1> QED BY <1>1, <1>2

\* Overlays, contexts, engines and tokens keep their types, for any calls, rules
\* and overlays and any number of callers and edits.
THEOREM GuardTypeCorrect == GuardSpec => []GuardTypeOK
  BY TypeInit, TypeStep, TokensHold, PTL DEF GuardSpec
------------------------------------------------------------------------------
(* Nothing is executed below the floor.                                       *)

\* Only sound overlays are in force, or about to be.
PolicyIsSound == Monotonic(snapshot) /\ Monotonic(loaded)

\* What a caller's verdict owes to a decision of the floor: a first run is at least
\* as strict, and a resumed one is denied if the floor denies.
Covers(c, d) == IF pc[c] = "idle" THEN ctx[c].verdict >= d
                ELSE d = DENY => ctx[c].verdict = DENY

\* The floor of each gate.
Floor2 == Gate2(BaseCap.risk)
Floor4(k) == Gate4(k, BaseCap, FloorTaint(k))
Floor3(k) == Gate3(RuleList(Bare), Compiled(Bare), k, BaseCap.risk, FloorTaint(k))

\* A caller on its way: what it has read is at least as strict as the baseline,
\* and its verdict covers the floors of the gates behind it.
CallIsCovered(c) ==
  LET k == ctx[c].call IN
  /\ at[c] \in {"gate4", "scan", "gate3", "sha", "predicates"} =>
       ctx[c].risk >= BaseCap.risk /\ Covers(c, Floor2)
  /\ at[c] = "scan" => CapStands(ctx[c].cap)
  /\ at[c] \in {"gate3", "sha", "predicates"} =>
       ctx[c].taint >= FloorTaint(k) /\ Covers(c, Floor4(k))
  /\ at[c] \in {"sha", "predicates"} => Grounded(ctx[c].rules)
  /\ at[c] = "judged" => Covers(c, Floor(k))
  /\ pc[c] = "checked" => at[c] = "judged" /\ ctx[c].verdict # DENY
  /\ at[c] = "execute" => /\ Floor(k) # DENY
                          /\ Floor(k) = REQUIRE_APPROVAL => ctx[c].approvedUnder # {}

\* Whatever it was made of, Gate3's engine holds the baseline's rules.
EngineIsGrounded == engine.sha # NoSha => Grounded(engine.rules)

\* The inductive invariant, beside GuardTypeOK and the tokens' Inv.
FloorInv == PolicyIsSound /\ EngineIsGrounded /\ \A c \in Callers : CallIsCovered(c)

\* The floors are decisions, and the strictest of them is the floor.
LEMMA FloorIsOfGates ==
  ASSUME NEW k \in Calls
  PROVE  /\ Floor2 \in Decisions /\ Floor4(k) \in Decisions /\ Floor3(k) \in Decisions
         /\ BaseCap.risk \in Levels /\ FloorTaint(k) \in Levels
         /\ Floor(k) = Stricter(Floor2, Stricter(Floor4(k), Floor3(k)))
  <1>1. BaseCap.risk \in Levels /\ FloorTaint(k) \in Levels
    BY PolicyAssumption, TaintTyped DEF Capability, FloorTaint
  <1> QED BY <1>1, Gate2Typed, GatesTyped DEF Floor2, Floor4, Floor3, Floor, FloorTaint

\* A caller that does not move stays covered.
LEMMA OthersStayCovered ==
  ASSUME NEW c, CallIsCovered(c), pc'[c] = pc[c], at'[c] = at[c], ctx'[c] = ctx[c]
  PROVE  CallIsCovered(c)'
  BY DEF CallIsCovered, Covers

\* A decision that is appended is covered if the gate was as strict as its floor,
\* and what was covered before remains so.
LEMMA AppendedCovers ==
  ASSUME NEW c \in Callers, ctx[c].verdict \in Decisions, pc[c] # "checked",
         pc'[c] = pc[c], NEW d \in Decisions, ctx'[c].verdict = Appended(c, d),
         NEW f \in Decisions, f <= d \/ Covers(c, f)
  PROVE  Covers(c, f)'
  BY DEF Covers, Appended, Stricter, Decisions, ALLOW, REQUIRE_APPROVAL, DENY

\* The context of the caller that moves, and nothing of the others.
LEMMA ProceedMoves ==
  ASSUME GuardTypeOK, NEW c \in Callers, NEW s, NEW new, Proceed(c, s, new)
  PROVE  /\ at'[c] = s /\ ctx'[c] = new
         /\ \A d \in Callers \ {c} : at'[d] = at[d] /\ ctx'[d] = ctx[d]
  BY DEF GuardTypeOK, Proceed

\* The predicates Gate3 finds are those of a sound overlay, or of a grounded list.
LEMMA PredicatesAreSound ==
  ASSUME GuardTypeOK, FloorInv, NEW c \in Callers, at[c] = "predicates"
  PROVE  /\ PredicatesStand(Predicates(c))
         /\ EngineFor(c).sha # NoSha => Grounded(EngineFor(c).rules)
  <1>1. Grounded(ctx[c].rules) /\ ctx[c].sha \in Editions
    BY DEF FloorInv, CallIsCovered, GuardTypeOK, Context
  <1>2. Grounded(EngineFor(c).rules)
    BY <1>1, CallsAssumption DEF EngineFor, FloorInv, EngineIsGrounded
  <1>3. CASE backend = "python"
    BY <1>2, <1>3, CompiledStands DEF Predicates, FloorInv, PolicyIsSound, Sound, GuardTypeOK
  <1>4. CASE backend # "python"
    <2> DEFINE R == EngineFor(c).rules
               p == [i \in {r[1] : r \in R} |-> (CHOOSE r \in R : r[1] = i)[2]]
    <2>1. Predicates(c) = p
      BY <1>4 DEF Predicates
    <2>2. ASSUME NEW i \in DOMAIN BaseRules
          PROVE  i \in DOMAIN p /\ p[i] = BaseRules[i]
      <3>1. <<i, BaseRules[i]>> \in R /\ \A r \in R : r[1] = i => r = <<i, BaseRules[i]>>
        BY <1>2 DEF Grounded
      <3>2. <<i, BaseRules[i]>>[1] = i /\ <<i, BaseRules[i]>>[2] = BaseRules[i]
        OBVIOUS
      <3>3. (CHOOSE r \in R : r[1] = i) = <<i, BaseRules[i]>>
        <4>1. \E r \in R : r[1] = i
          BY <3>1, <3>2
        <4>2. (CHOOSE r \in R : r[1] = i) \in R /\ (CHOOSE r \in R : r[1] = i)[1] = i
          BY <4>1
        <4> QED BY <3>1, <4>2
      <3>4. i \in {r[1] : r \in R}
        BY <3>1, <3>2
      <3> QED BY <3>2, <3>3, <3>4
    <2> HIDE DEF p
    <2>3. PredicatesStand(p)
      BY <2>2 DEF PredicatesStand
    <2> QED BY <1>2, <2>1, <2>3
  <1> QED BY <1>2, <1>3, <1>4

\* The steps of the first two gates.
LEMMA FirstGatesCovered ==
  ASSUME GuardTypeOK, FloorInv, NEW c \in Callers, ReadRisk(c) \/ ReadCap(c) \/ Scan(c)
  PROVE  CallIsCovered(c)'
  <1> DEFINE k == ctx[c].call
  <1>1. /\ CallIsCovered(c) /\ Sound(snapshot) /\ snapshot \in Editions
        /\ ctx[c] \in Context /\ k \in Calls /\ ctx[c].verdict \in Decisions
    BY DEF FloorInv, PolicyIsSound, Sound, GuardTypeOK, Context
  <1>2. /\ Floor2 \in Decisions /\ Floor4(k) \in Decisions
        /\ BaseCap.risk \in Levels /\ FloorTaint(k) \in Levels
    BY <1>1, FloorIsOfGates
  <1>3. pc'[c] = pc[c]
    BY DEF ReadRisk, ReadCap, Scan, vars
  <1>4. CASE ReadRisk(c)
    <2> DEFINE r == Risk(snapshot)
               new == [ctx[c] EXCEPT !.risk = r, !.verdict = Appended(c, Gate2(r))]
    <2>1. at[c] = "gate2" /\ at'[c] = "gate4" /\ ctx'[c] = new
      BY <1>4, ProceedMoves DEF ReadRisk
    <2>2. /\ ctx'[c].risk = r /\ ctx'[c].verdict = Appended(c, Gate2(r))
          /\ ctx'[c].call = k
      BY <1>1, <2>1 DEF Context
    <2>3. pc[c] # "checked"
      BY <1>1, <2>1 DEF CallIsCovered
    <2>4. r \in Levels /\ r >= BaseCap.risk
      BY <1>1, ReadsAreTyped, RiskIsFloored
    <2>5. Gate2(r) \in Decisions /\ Floor2 <= Gate2(r)
      BY <1>2, <2>4, Gate2Typed, Gate2IsMonotonic DEF Floor2, Levels
    <2>6. Covers(c, Floor2)'
      BY <1>1, <1>2, <1>3, <2>2, <2>3, <2>5, AppendedCovers
    <2> QED BY <1>3, <2>1, <2>2, <2>3, <2>4, <2>6 DEF CallIsCovered
  <1>5. CASE ReadCap(c)
    <2> DEFINE new == [ctx[c] EXCEPT !.cap = Cap(snapshot)]
    <2>1. at[c] = "gate4" /\ at'[c] = "scan" /\ ctx'[c] = new
      BY <1>5, ProceedMoves DEF ReadCap
    <2>2. /\ ctx'[c].cap = Cap(snapshot) /\ ctx'[c].risk = ctx[c].risk
          /\ ctx'[c].verdict = ctx[c].verdict /\ ctx'[c].call = k
      BY <1>1, <2>1 DEF Context
    <2>3. CapStands(ctx'[c].cap)
      BY <1>1, <2>2, CapIsFloored
    <2>4. ctx'[c].risk >= BaseCap.risk /\ Covers(c, Floor2)'
      BY <1>1, <1>3, <2>1, <2>2 DEF CallIsCovered, Covers
    <2>5. pc[c] # "checked"
      BY <1>1, <2>1 DEF CallIsCovered
    <2> QED BY <1>3, <2>1, <2>3, <2>4, <2>5 DEF CallIsCovered
  <1>6. CASE Scan(c)
    <2> DEFINE t == Taint(k, Sensitive(snapshot))
               d == Gate4(k, ctx[c].cap, t)
               new == [ctx[c] EXCEPT !.taint = t, !.verdict = Appended(c, d)]
    <2>1. at[c] = "scan" /\ at'[c] = "gate3" /\ ctx'[c] = new
      BY <1>6, ProceedMoves DEF Scan
    <2>2. /\ ctx'[c].taint = t /\ ctx'[c].verdict = Appended(c, d)
          /\ ctx'[c].risk = ctx[c].risk /\ ctx'[c].call = k
      BY <1>1, <2>1 DEF Context
    <2>3. pc[c] # "checked" /\ CapStands(ctx[c].cap) /\ Covers(c, Floor2)
      BY <1>1, <2>1 DEF CallIsCovered
    <2>4. t \in Levels /\ t >= FloorTaint(k) /\ d \in Decisions
      BY <1>1, TaintTyped, TaintIsFloored, GatesTyped
    <2>5. Floor4(k) <= d
      BY <1>2, <2>3, <2>4, Gate4IsMonotonic DEF Floor4, Levels
    <2>6. Covers(c, Floor2)' /\ Covers(c, Floor4(k))'
      BY <1>1, <1>2, <1>3, <2>2, <2>3, <2>4, <2>5, AppendedCovers
    <2>7. ctx'[c].risk >= BaseCap.risk
      BY <1>1, <2>1, <2>2 DEF CallIsCovered
    <2> QED BY <1>3, <2>1, <2>2, <2>3, <2>4, <2>6, <2>7 DEF CallIsCovered
  <1> QED BY <1>4, <1>5, <1>6

\* The steps of Gate 3.
LEMMA Gate3Covered ==
  ASSUME GuardTypeOK, FloorInv, NEW c \in Callers, ReadRules(c) \/ ReadSha(c) \/ Judge(c)
  PROVE  CallIsCovered(c)' /\ EngineIsGrounded'
  <1> DEFINE k == ctx[c].call
  <1>1. /\ CallIsCovered(c) /\ Sound(snapshot) /\ EngineIsGrounded
        /\ ctx[c] \in Context /\ k \in Calls /\ ctx[c].verdict \in Decisions
        /\ ctx[c].risk \in Levels /\ ctx[c].taint \in Levels
    BY DEF FloorInv, PolicyIsSound, Sound, GuardTypeOK, Context
  <1>2. pc'[c] = pc[c]
    BY DEF ReadRules, ReadSha, Judge, vars
  <1>3. CASE ReadRules(c)
    <2> DEFINE new == [ctx[c] EXCEPT !.rules = RuleList(snapshot)]
    <2>1. at[c] = "gate3" /\ at'[c] = "sha" /\ ctx'[c] = new /\ engine' = engine
      BY <1>3, ProceedMoves DEF ReadRules
    <2>2. /\ ctx'[c].rules = RuleList(snapshot) /\ ctx'[c].risk = ctx[c].risk
          /\ ctx'[c].taint = ctx[c].taint /\ ctx'[c].verdict = ctx[c].verdict
          /\ ctx'[c].call = k
      BY <1>1, <2>1 DEF Context
    <2>3. Grounded(ctx'[c].rules)
      BY <1>1, <2>2, RulesAreGrounded
    <2> QED BY <1>1, <1>2, <2>1, <2>2, <2>3 DEF CallIsCovered, Covers, EngineIsGrounded
  <1>4. CASE ReadSha(c)
    <2> DEFINE new == [ctx[c] EXCEPT !.sha = BundleSha]
    <2>1. at[c] = "sha" /\ at'[c] = "predicates" /\ ctx'[c] = new /\ engine' = engine
      BY <1>4, ProceedMoves DEF ReadSha
    <2>2. /\ ctx'[c].rules = ctx[c].rules /\ ctx'[c].risk = ctx[c].risk
          /\ ctx'[c].taint = ctx[c].taint /\ ctx'[c].verdict = ctx[c].verdict
          /\ ctx'[c].call = k
      BY <1>1, <2>1 DEF Context
    <2> QED BY <1>1, <1>2, <2>1, <2>2 DEF CallIsCovered, Covers, EngineIsGrounded
  <1>5. CASE Judge(c)
    <2> DEFINE d == Gate3(ctx[c].rules, Predicates(c), k, ctx[c].risk, ctx[c].taint)
               new == [ctx[c] EXCEPT !.verdict = Appended(c, d), !.judgedBy = snapshot]
    <2>1. /\ at[c] = "predicates" /\ at'[c] = "judged" /\ ctx'[c] = new
          /\ engine' = engine \/ engine' = EngineFor(c)
      BY <1>5, ProceedMoves DEF Judge
    <2>2. ctx'[c].verdict = Appended(c, d) /\ ctx'[c].call = k
      BY <1>1, <2>1 DEF Context
    <2>3. /\ pc[c] # "checked" /\ Grounded(ctx[c].rules)
          /\ ctx[c].risk >= BaseCap.risk /\ ctx[c].taint >= FloorTaint(k)
          /\ Covers(c, Floor2) /\ Covers(c, Floor4(k))
      BY <1>1, <2>1 DEF CallIsCovered
    <2>4. /\ Floor2 \in Decisions /\ Floor4(k) \in Decisions /\ Floor3(k) \in Decisions
          /\ BaseCap.risk \in Levels /\ FloorTaint(k) \in Levels
      BY <1>1, FloorIsOfGates
    <2>5. PredicatesStand(Predicates(c)) /\ EngineIsGrounded'
      BY <1>1, <2>1, PredicatesAreSound DEF EngineIsGrounded
    <2>6. d \in Decisions
      BY GatesTyped
    <2>7. Floor3(k) <= d
      BY <1>1, <2>3, <2>4, <2>5, Gate3IsMonotonic DEF Floor3, Levels
    <2>8. Covers(c, Floor2)' /\ Covers(c, Floor4(k))' /\ Covers(c, Floor3(k))'
      BY <1>1, <1>2, <2>2, <2>3, <2>4, <2>6, <2>7, AppendedCovers
    <2>9. /\ Stricter(Floor4(k), Floor3(k)) \in {Floor4(k), Floor3(k)}
          /\ Floor(k) \in {Floor2, Stricter(Floor4(k), Floor3(k))}
      BY <1>1, <2>4, FloorIsOfGates, StricterIsUpper
    <2>10. Covers(c, Floor(k))'
      BY <2>2, <2>8, <2>9
    <2> QED BY <1>2, <2>1, <2>2, <2>3, <2>5, <2>10 DEF CallIsCovered
  <1> QED BY <1>3, <1>4, <1>5

\* A caller that starts, resumes, is refused or has finished.
LEMMA EndsCovered ==
  ASSUME GuardTypeOK, Inv, FloorInv, NEW c \in Callers,
         \/ \E k \in Calls : Start(c, k)
         \/ \E t \in Tokens : ResumeApproved(c, t)
         \/ Refused(c) \/ Finish(c)
  PROVE  CallIsCovered(c)'
  <1>1. CallIsCovered(c) /\ pc \in [Callers -> {"idle", "resumed", "checked"}]
    BY DEF FloorInv, Inv, TypeOK
  <1>2. at'[c] \in {"none", "gate2"}
    BY ProceedMoves DEF Start, ResumeApproved, Refused, Finish
  <1>3. pc'[c] # "checked"
    <2>1. CASE \E k \in Calls : Start(c, k)
      BY <2>1 DEF Start, vars
    <2>2. CASE \E t \in Tokens : ResumeApproved(c, t)
      BY <1>1, <2>2 DEF ResumeApproved, Resume
    <2>3. CASE Refused(c) /\ UNCHANGED vars
      BY <1>1, <2>3 DEF Refused, vars, CallIsCovered
    <2>4. CASE Refused(c) /\ Deny(c)
      BY <1>1, <2>4 DEF Deny, Leave
    <2>5. CASE Finish(c)
      BY <1>1, <2>5 DEF Finish, vars, CallIsCovered
    <2> QED BY <2>1, <2>2, <2>3, <2>4, <2>5 DEF Refused
  <1> QED BY <1>2, <1>3 DEF CallIsCovered

\* A caller that is through the gates: where the floor denies nobody goes on, and
\* where it asks for an approval only a token does.
LEMMA OutcomeCovered ==
  ASSUME GuardTypeOK, Inv, FloorInv, NEW c \in Callers,
         Conclude(c) \/ Reverify(c) \/ ConsumeAndExecute(c)
  PROVE  CallIsCovered(c)'
  <1> DEFINE k == ctx[c].call
  <1>1. /\ CallIsCovered(c) /\ pc \in [Callers -> {"idle", "resumed", "checked"}]
        /\ ctx[c] \in Context /\ k \in Calls /\ ctx[c].verdict \in Decisions
        /\ Floor(k) \in Decisions
    BY FloorIsOfGates, StricterIsUpper DEF FloorInv, Inv, TypeOK, GuardTypeOK, Context
  <1>2. at[c] = "judged" /\ Covers(c, Floor(k))
    BY <1>1 DEF Conclude, Reverify, ConsumeAndExecute, CallIsCovered
  <1>3. CASE Conclude(c)
    <2>1. pc[c] = "idle" /\ pc'[c] = pc[c]
      BY <1>3 DEF Conclude, vars
    <2>2. CASE ctx[c].verdict < REQUIRE_APPROVAL
      <3>1. at'[c] = "execute" /\ ctx'[c] = ctx[c]
        BY <1>3, <2>2, ProceedMoves DEF Conclude
      <3>2. Floor(k) # DENY /\ Floor(k) # REQUIRE_APPROVAL
        BY <1>1, <1>2, <2>1, <2>2 DEF Covers, Decisions, ALLOW, REQUIRE_APPROVAL, DENY
      <3> QED BY <2>1, <3>1, <3>2 DEF CallIsCovered
    <2>3. CASE ~(ctx[c].verdict < REQUIRE_APPROVAL)
      <3>1. at'[c] = "none"
        BY <1>3, <2>3, ProceedMoves DEF Conclude
      <3> QED BY <2>1, <3>1 DEF CallIsCovered
    <2> QED BY <2>2, <2>3
  <1>4. CASE Reverify(c)
    <2>1. CASE pc'[c] = "checked"
      <3>1. at' = at /\ ctx' = ctx
        BY <1>4, <2>1 DEF Reverify
      <3>2. ctx[c].verdict # DENY
        BY <1>1, <1>4, <2>1 DEF Reverify, Deny, Leave
      <3>3. Covers(c, Floor(k))'
        BY <1>2, <1>4, <2>1, <3>1 DEF Covers, Reverify
      <3> QED BY <1>2, <2>1, <3>1, <3>2, <3>3 DEF CallIsCovered
    <2>2. CASE pc'[c] # "checked"
      <3>1. at'[c] = "none"
        BY <1>4, <2>2, ProceedMoves DEF Reverify
      <3> QED BY <2>2, <3>1 DEF CallIsCovered
    <2> QED BY <2>1, <2>2
  <1>5. CASE ConsumeAndExecute(c)
    <2> DEFINE new == [ctx[c] EXCEPT !.approvedUnder = {bound[held[c]].inForce}]
    <2>1. pc[c] = "checked" /\ pc'[c] = "idle"
      BY <1>1, <1>5 DEF ConsumeAndExecute, Consume, Leave
    <2>2. Floor(k) # DENY
      BY <1>1, <1>2, <2>1 DEF Covers, CallIsCovered
    <2>3. CASE held[c] \in Kept(c)
      <3>1. at'[c] = "none"
        BY <1>5, <2>3, ProceedMoves DEF ConsumeAndExecute
      <3> QED BY <2>1, <3>1 DEF CallIsCovered
    <2>4. CASE held[c] \notin Kept(c)
      <3>1. at'[c] = "execute" /\ ctx'[c] = new
        BY <1>5, <2>4, ProceedMoves DEF ConsumeAndExecute
      <3>2. ctx'[c].approvedUnder # {} /\ ctx'[c].call = k
        BY <1>1, <3>1 DEF Context
      <3> QED BY <2>1, <2>2, <3>1, <3>2 DEF CallIsCovered
    <2> QED BY <2>3, <2>4
  <1> QED BY <1>3, <1>4, <1>5

\* Every step of the policy keeps it sound, and leaves the callers alone.
LEMMA PolicyCovered ==
  ASSUME GuardTypeOK, FloorInv, Load \/ Swap \/ WatcherCrashes \/ \E e \in Editions : Edit(e)
  PROVE  FloorInv'
  <1>1. Monotonic(Effective(disk))
    BY EffectiveIsSound DEF GuardTypeOK, Sound
  <1>2. PolicyIsSound'
    BY <1>1 DEF FloorInv, PolicyIsSound, Load, Swap, WatcherCrashes, Edit
  <1>3. UNCHANGED <<vars, callVars>>
    BY DEF Load, Swap, WatcherCrashes, Edit
  <1>4. EngineIsGrounded'
    BY <1>3 DEF FloorInv, EngineIsGrounded, callVars
  <1>5. ASSUME NEW c \in Callers PROVE CallIsCovered(c)'
    BY <1>3, OthersStayCovered DEF FloorInv, vars, callVars
  <1> QED BY <1>2, <1>4, <1>5 DEF FloorInv

\* A step of one caller leaves the policy and the other callers alone.
LEMMA CallerCovered ==
  ASSUME GuardTypeOK, Inv, FloorInv, NEW c \in Callers,
         \/ \E k \in Calls : Start(c, k)
         \/ \E t \in Tokens : ResumeApproved(c, t)
         \/ Refused(c) \/ ReadRisk(c) \/ ReadCap(c) \/ Scan(c) \/ ReadRules(c)
         \/ ReadSha(c) \/ Judge(c) \/ Conclude(c) \/ Reverify(c)
         \/ ConsumeAndExecute(c) \/ Finish(c)
  PROVE  FloorInv'
  <1>1. CallIsCovered(c)'
    BY FirstGatesCovered, Gate3Covered, EndsCovered, OutcomeCovered
  <1>2. UNCHANGED policyVars
    BY DEF Start, ResumeApproved, Refused, ReadRisk, ReadCap, Scan, ReadRules,
           ReadSha, Judge, Conclude, Reverify, ConsumeAndExecute, Finish
  <1>3. EngineIsGrounded'
    <2>1. CASE Judge(c)
      BY <2>1, Gate3Covered
    <2>2. CASE ~Judge(c)
      <3>1. UNCHANGED engine
        BY <2>2 DEF Start, ResumeApproved, Refused, ReadRisk, ReadCap, Scan, ReadRules,
                    ReadSha, Conclude, Reverify, ConsumeAndExecute, Finish
      <3> QED BY <3>1 DEF FloorInv, EngineIsGrounded
    <2> QED BY <2>1, <2>2
  <1>4. ASSUME NEW d \in Callers \ {c} PROVE CallIsCovered(d)'
    <2>1. pc \in [Callers -> {"idle", "resumed", "checked"}]
      BY DEF Inv, TypeOK
    <2>2. pc'[d] = pc[d]
      BY <2>1
      DEF Start, ResumeApproved, Refused, ReadRisk, ReadCap, Scan, ReadRules,
          ReadSha, Judge, Conclude, Reverify, ConsumeAndExecute, Finish,
          Resume, Deny, Check, Consume, Leave, vars
    <2>3. UNCHANGED <<at, ctx>> \/ \E s, new : Proceed(c, s, new)
      <3>1. CASE \/ ReadRisk(c) \/ ReadCap(c) \/ Scan(c) \/ ReadRules(c)
                 \/ ReadSha(c) \/ Judge(c)
        BY <3>1 DEF ReadRisk, ReadCap, Scan, ReadRules, ReadSha, Judge
      <3>2. CASE \/ \E k \in Calls : Start(c, k)
                 \/ \E t \in Tokens : ResumeApproved(c, t)
                 \/ Refused(c) \/ Finish(c)
        BY <3>2 DEF Start, ResumeApproved, Refused, Finish
      <3>3. CASE Conclude(c) \/ Reverify(c) \/ ConsumeAndExecute(c)
        BY <3>3 DEF Conclude, Reverify, ConsumeAndExecute
      <3> QED BY <3>1, <3>2, <3>3
    <2>4. at'[d] = at[d] /\ ctx'[d] = ctx[d]
      BY <2>3, ProceedMoves
    <2> QED BY <2>2, <2>4, OthersStayCovered DEF FloorInv
  <1> QED BY <1>1, <1>2, <1>3, <1>4 DEF FloorInv, PolicyIsSound, policyVars

\* At first nobody is on the way.
LEMMA FloorInit == GuardInit => FloorInv
  <1> SUFFICES ASSUME GuardInit PROVE FloorInv
    OBVIOUS
  <1>1. disk \in Editions /\ snapshot = Effective(disk) /\ loaded = snapshot
    BY DEF GuardInit
  <1>2. PolicyIsSound
    BY <1>1, EffectiveIsSound DEF PolicyIsSound, Sound
  <1>3. engine = [sha |-> NoSha, rules |-> {}]
    BY DEF GuardInit
  <1>4. \A c \in Callers : at[c] = "none" /\ pc[c] = "idle"
    BY DEF GuardInit, Init
  <1> QED BY <1>2, <1>3, <1>4 DEF FloorInv, EngineIsGrounded, CallIsCovered

\* Every step keeps the floor.
LEMMA FloorStep == GuardTypeOK /\ Inv /\ FloorInv /\ [GuardNext]_guardVars => FloorInv'
  <1> SUFFICES ASSUME GuardTypeOK, Inv, FloorInv, [GuardNext]_guardVars PROVE FloorInv'
    OBVIOUS
  <1>1. CASE Wait \/ UNCHANGED guardVars \/ \E t \in Tokens : Approve(t)
    <2>1. UNCHANGED <<pc, at, ctx, engine, snapshot, loaded>>
      BY <1>1
      DEF Wait, Tick, Approve, Issue, guardVars, vars, policyVars, callVars
    <2>2. ASSUME NEW c \in Callers PROVE CallIsCovered(c)'
      BY <2>1, OthersStayCovered DEF FloorInv
    <2> QED BY <2>1, <2>2 DEF FloorInv, PolicyIsSound, EngineIsGrounded
  <1>2. CASE GuardNext /\ ~Wait /\ ~\E t \in Tokens : Approve(t)
    BY <1>2, PolicyCovered, CallerCovered DEF GuardNext
  <1> QED BY <1>1, <1>2

\* Whatever is edited and reloaded while a call goes through the gates: what the
\* baseline denies is not executed, and what it wants approved only with a token;
\* for any calls, rules and overlays and any number of callers and edits.
THEOREM FloorHolds == GuardSpec => []NothingBelowFloor
  <1>1. FloorInv => NothingBelowFloor
    BY DEF FloorInv, CallIsCovered, NothingBelowFloor
  <1> QED BY <1>1, FloorInit, FloorStep, GuardTypeCorrect, TokensHold, PTL DEF GuardSpec
------------------------------------------------------------------------------
(* When a token stands for the policy a person approved under.                *)

\* No change is on its way from the files to the policy in force.
Quiet == watcher # "loaded" /\ ~pending /\ snapshot = Effective(disk)

\* A discipline the code does not enforce: overlays are edited only while no
\* resumed call is in the gates, and calls are approved and resumed only when the
\* last edit is in force.
Orderly ==
  /\ \A e \in Editions : Edit(e) => \A c \in Callers : pc[c] = "idle"
  /\ \A t \in Tokens : Approve(t) => Quiet
  /\ \A c \in Callers, t \in Tokens : ResumeApproved(c, t) => Quiet

\* What a token is signed for tells the policy that was in force.
TokensTell == \A t \in Tokens : bound[t].inForce = Effective(bound[t].sha)

\* A resumed call sees one policy, and a token that is checked carries its sha.
CallAgrees(c) ==
  /\ pc[c] # "idle" => Quiet
  /\ pc[c] # "idle" /\ at[c] = "judged" => ctx[c].judgedBy = snapshot
  /\ pc[c] = "checked" => at[c] = "judged" /\ bound[held[c]].sha = BundleSha
  /\ IF at[c] = "execute" THEN ctx[c].approvedUnder \subseteq {ctx[c].judgedBy}
                          ELSE ctx[c].approvedUnder = {}

Agreed == TokensTell /\ \A c \in Callers : CallAgrees(c)

\* The sha of a quiet policy tells the policy.
LEMMA ShaTells == Quiet => Effective(BundleSha) = snapshot
  BY DEF Quiet, BundleSha, Effective

LEMMA AgreedInit == GuardInit => Agreed
  BY DEF GuardInit, Init, Agreed, TokensTell, CallAgrees, Idle, Fresh, Effective

\* Nobody resumes a call while the policy moves.
LEMMA PolicyAgrees ==
  ASSUME GuardTypeOK, Agreed, Orderly,
         Load \/ Swap \/ WatcherCrashes \/ \E e \in Editions : Edit(e)
  PROVE  Agreed'
  <1>1. UNCHANGED <<vars, callVars>>
    BY DEF Load, Swap, WatcherCrashes, Edit
  <1>2. TokensTell'
    BY <1>1 DEF Agreed, TokensTell, callVars
  <1>3. ASSUME NEW c \in Callers PROVE CallAgrees(c)'
    <2>1. CallAgrees(c) /\ pc' = pc /\ held' = held /\ at' = at /\ ctx' = ctx /\ bound' = bound
      BY <1>1 DEF Agreed, vars, callVars
    <2>2. CASE pc[c] = "idle"
      BY <2>1, <2>2 DEF CallAgrees
    <2>3. CASE pc[c] # "idle"
      <3>1. Quiet /\ WatcherCrashes
        BY <2>1, <2>3 DEF CallAgrees, Orderly, Quiet, Load, Swap
      <3>2. Quiet' /\ snapshot' = snapshot /\ BundleSha' = BundleSha
        BY <3>1 DEF WatcherCrashes, Quiet, BundleSha
      <3> QED BY <2>1, <3>2 DEF CallAgrees
    <2> QED BY <2>2, <2>3
  <1> QED BY <1>2, <1>3 DEF Agreed

\* A person approves under the policy the files describe.
LEMMA ApproveAgrees ==
  ASSUME GuardTypeOK, Inv, Agreed, NEW t \in Tokens, Approve(t), Quiet
  PROVE  Agreed'
  <1>1. PICK b \in blocked :
          bound' = [bound EXCEPT ![t] = [call |-> b.call, taint |-> b.taint,
                                         sha |-> BundleSha, inForce |-> snapshot]]
    BY DEF Approve
  <1>2. TokensTell'
    BY <1>1, ShaTells DEF Agreed, TokensTell, GuardTypeOK
  <1>3. ASSUME NEW c \in Callers PROVE CallAgrees(c)'
    <2>1. /\ CallAgrees(c) /\ pc' = pc /\ held' = held /\ at' = at /\ ctx' = ctx
          /\ Quiet' /\ snapshot' = snapshot /\ BundleSha' = BundleSha
      BY DEF Agreed, Approve, Issue, policyVars, Quiet, BundleSha
    <2>2. pc[c] = "checked" => held[c] \in Tokens /\ Issued(held[c])
      BY DEF Inv, Remembers, CarriesIssued
    <2>3. pc[c] = "checked" => bound'[held[c]] = bound[held[c]]
      BY <1>1, <2>2 DEF Approve, Issue, GuardTypeOK
    <2> QED BY <2>1, <2>3 DEF CallAgrees
  <1> QED BY <1>2, <1>3 DEF Agreed

\* The caller that moves agrees, and the policy and the others stay as they are.
LEMMA OthersAgree ==
  ASSUME GuardTypeOK, Agreed, NEW c \in Callers, UNCHANGED <<policyVars, bound>>,
         \A d \in Callers \ {c} : /\ at'[d] = at[d] /\ ctx'[d] = ctx[d]
                                  /\ pc'[d] = pc[d] /\ held'[d] = held[d],
         CallAgrees(c)'
  PROVE  Agreed'
  <1>1. Quiet' = Quiet /\ snapshot' = snapshot /\ BundleSha' = BundleSha /\ bound' = bound
    BY DEF policyVars, Quiet, BundleSha
  <1>2. TokensTell'
    BY <1>1 DEF Agreed, TokensTell
  <1>3. ASSUME NEW d \in Callers \ {c} PROVE CallAgrees(d)'
    BY <1>1, <1>3 DEF Agreed, CallAgrees
  <1> QED BY <1>2, <1>3 DEF Agreed

\* The step of a caller, by what it does to its own stage and token.
LEMMA CallerAgrees ==
  ASSUME GuardTypeOK, Inv, Agreed, Orderly, NEW c \in Callers,
         \/ \E k \in Calls : Start(c, k)
         \/ \E t \in Tokens : ResumeApproved(c, t)
         \/ Refused(c) \/ ReadRisk(c) \/ ReadCap(c) \/ Scan(c) \/ ReadRules(c)
         \/ ReadSha(c) \/ Judge(c) \/ Conclude(c) \/ Reverify(c)
         \/ ConsumeAndExecute(c) \/ Finish(c)
  PROVE  Agreed'
  <1>1. /\ CallAgrees(c) /\ ctx[c] \in Context
        /\ pc \in [Callers -> {"idle", "resumed", "checked"}]
        /\ held \in [Callers -> Tokens \cup {NoToken}]
        /\ Idle.approvedUnder = {} /\ \A k \in Calls : Fresh(k).approvedUnder = {}
    BY DEF Agreed, GuardTypeOK, Inv, TypeOK, Idle, Fresh
  <1>2. UNCHANGED <<policyVars, bound>>
    BY DEF Start, ResumeApproved, Refused, ReadRisk, ReadCap, Scan, ReadRules, ReadSha, Judge,
           Conclude, Reverify, ConsumeAndExecute, Finish
  <1>3. /\ snapshot' = snapshot /\ BundleSha' = BundleSha /\ bound' = bound
        /\ Quiet => Quiet'
    BY <1>2 DEF policyVars, Quiet, BundleSha
  <1>4. \A d \in Callers \ {c} : /\ at'[d] = at[d] /\ ctx'[d] = ctx[d]
                                 /\ pc'[d] = pc[d] /\ held'[d] = held[d]
    <2>1. \A d \in Callers \ {c} : at'[d] = at[d] /\ ctx'[d] = ctx[d]
      BY DEF GuardTypeOK, Proceed, Start, ResumeApproved, Refused, ReadRisk, ReadCap, Scan,
             ReadRules, ReadSha, Judge, Conclude, Reverify, ConsumeAndExecute, Finish
    <2>2. \A d \in Callers \ {c} : pc'[d] = pc[d] /\ held'[d] = held[d]
      BY <1>1 DEF vars, Resume, Deny, Check, Consume, Leave, Start, ResumeApproved, Refused,
                  ReadRisk, ReadCap, Scan, ReadRules, ReadSha, Judge, Conclude, Reverify,
                  ConsumeAndExecute, Finish
    <2> QED BY <2>1, <2>2
  <1>5. CallAgrees(c)'
    <2>1. CASE \E k \in Calls : Start(c, k)
      BY <1>1, <2>1, ProceedMoves DEF Start, vars, CallAgrees
    <2>2. CASE \E t \in Tokens : ResumeApproved(c, t)
      <3>1. PICK t \in Tokens : ResumeApproved(c, t)
        BY <2>2
      <3>2. Fresh(bound[t].call).approvedUnder = {}
        BY DEF Fresh
      <3>3. at'[c] = "gate2" /\ ctx'[c].approvedUnder = {} /\ pc'[c] = "resumed"
        BY <1>1, <3>1, <3>2, ProceedMoves DEF ResumeApproved, Resume
      <3>4. Quiet'
        BY <1>3, <3>1 DEF Orderly
      <3> QED BY <3>3, <3>4 DEF CallAgrees
    <2>3. CASE Refused(c) \/ Finish(c)
      <3>1. at'[c] = "none" /\ ctx'[c] = Idle
        BY <2>3, ProceedMoves DEF Refused, Finish
      <3>2. pc'[c] = "idle" \/ (pc'[c] = pc[c] /\ pc[c] # "checked")
        BY <1>1, <2>3 DEF Refused, Finish, Deny, Leave, vars, CallAgrees
      <3> QED BY <1>1, <1>3, <3>1, <3>2 DEF CallAgrees
    <2>4. CASE ReadRisk(c) \/ ReadCap(c) \/ Scan(c) \/ ReadRules(c) \/ ReadSha(c) \/ Judge(c)
      <3>1. pc' = pc /\ pc[c] # "checked" /\ at[c] # "execute"
        BY <1>1, <2>4 DEF ReadRisk, ReadCap, Scan, ReadRules, ReadSha, Judge, vars, CallAgrees
      <3>2. CASE ReadRisk(c) \/ ReadCap(c) \/ Scan(c) \/ ReadRules(c) \/ ReadSha(c)
        <4>1. at'[c] \in {"gate4", "scan", "gate3", "sha", "predicates"}
          BY <3>2, ProceedMoves DEF ReadRisk, ReadCap, Scan, ReadRules, ReadSha
        <4>2. ctx'[c].approvedUnder = ctx[c].approvedUnder
          <5>1. CASE ReadRisk(c)
            <6>1. ctx'[c] = [ctx[c] EXCEPT !.risk = Risk(snapshot),
                                     !.verdict = Appended(c, Gate2(Risk(snapshot)))]
              BY <5>1, ProceedMoves DEF ReadRisk
            <6> QED BY <1>1, <6>1 DEF Context
          <5>2. CASE ReadCap(c)
            <6>1. ctx'[c] = [ctx[c] EXCEPT !.cap = Cap(snapshot)]
              BY <5>2, ProceedMoves DEF ReadCap
            <6> QED BY <1>1, <6>1 DEF Context
          <5>3. CASE Scan(c)
            <6> DEFINE t == Taint(ctx[c].call, Sensitive(snapshot))
                       d == Appended(c, Gate4(ctx[c].call, ctx[c].cap, t))
            <6>1. ctx'[c] = [ctx[c] EXCEPT !.taint = t, !.verdict = d]
              BY <5>3, ProceedMoves DEF Scan
            <6> HIDE DEF t, d
            <6> QED BY <1>1, <6>1 DEF Context
          <5>4. CASE ReadRules(c)
            <6>1. ctx'[c] = [ctx[c] EXCEPT !.rules = RuleList(snapshot)]
              BY <5>4, ProceedMoves DEF ReadRules
            <6> QED BY <1>1, <6>1 DEF Context
          <5>5. CASE ReadSha(c)
            <6>1. ctx'[c] = [ctx[c] EXCEPT !.sha = BundleSha]
              BY <5>5, ProceedMoves DEF ReadSha
            <6> QED BY <1>1, <6>1 DEF Context
          <5> QED BY <3>2, <5>1, <5>2, <5>3, <5>4, <5>5
        <4> QED BY <1>1, <1>3, <3>1, <4>1, <4>2 DEF CallAgrees
      <3>3. CASE Judge(c)
        <4>1. at'[c] = "judged"
          BY <3>3, ProceedMoves DEF Judge
        <4>2. ctx'[c].approvedUnder = ctx[c].approvedUnder /\ ctx'[c].judgedBy = snapshot
          <5> DEFINE d == Appended(c, Gate3(ctx[c].rules, Predicates(c), ctx[c].call,
                                            ctx[c].risk, ctx[c].taint))
          <5>1. ctx'[c] = [ctx[c] EXCEPT !.verdict = d, !.judgedBy = snapshot]
            BY <3>3, ProceedMoves DEF Judge
          <5> HIDE DEF d
          <5> QED BY <1>1, <5>1 DEF Context
        <4> QED BY <1>1, <1>3, <3>1, <4>1, <4>2 DEF CallAgrees
      <3> QED BY <2>4, <3>2, <3>3
    <2>5. CASE Conclude(c)
      <3>1. pc'[c] = "idle" /\ ctx[c].approvedUnder = {}
        BY <1>1, <2>5 DEF Conclude, vars, CallAgrees
      <3>2. \/ at'[c] = "execute" /\ ctx'[c] = ctx[c]
            \/ at'[c] = "none" /\ ctx'[c] = Idle
        BY <2>5, ProceedMoves DEF Conclude
      <3> QED BY <1>1, <3>1, <3>2 DEF CallAgrees
    <2>6. CASE Reverify(c)
      <3>1. CASE pc'[c] = "checked"
        <4>1. at' = at /\ ctx' = ctx /\ at[c] = "judged" /\ pc[c] = "resumed"
          BY <2>6, <3>1 DEF Reverify
        <4>2. bound[held[c]].sha = BundleSha /\ held' = held
          BY <1>1, <2>6, <3>1 DEF Reverify, StillBound, Deny, Check, Leave
        <4> QED BY <1>1, <1>3, <4>1, <4>2 DEF CallAgrees
      <3>2. CASE pc'[c] # "checked"
        <4>1. at'[c] = "none" /\ ctx'[c] = Idle
          BY <2>6, <3>2, ProceedMoves DEF Reverify
        <4>2. pc'[c] = "idle"
          BY <1>1, <2>6, <3>2 DEF Reverify, Deny, Check, Leave
        <4> QED BY <1>1, <4>1, <4>2 DEF CallAgrees
      <3> QED BY <3>1, <3>2
    <2>7. CASE ConsumeAndExecute(c)
      <3>1. pc[c] = "checked" /\ pc'[c] = "idle" /\ held[c] \in Tokens
        BY <1>1, <2>7 DEF ConsumeAndExecute, Consume, Leave, Inv, Remembers
      <3>2. bound[held[c]].inForce = snapshot /\ ctx[c].judgedBy = snapshot
        BY <1>1, <3>1, ShaTells DEF CallAgrees, Agreed, TokensTell
      <3>3. CASE held[c] \in Kept(c)
        <4>1. at'[c] = "none" /\ ctx'[c] = Idle
          BY <2>7, <3>3, ProceedMoves DEF ConsumeAndExecute
        <4> QED BY <1>1, <3>1, <4>1 DEF CallAgrees
      <3>4. CASE held[c] \notin Kept(c)
        <4>1. /\ at'[c] = "execute"
              /\ ctx'[c] = [ctx[c] EXCEPT !.approvedUnder = {bound[held[c]].inForce}]
          BY <2>7, <3>4, ProceedMoves DEF ConsumeAndExecute
        <4>2. ctx'[c].approvedUnder = {snapshot} /\ ctx'[c].judgedBy = snapshot
          BY <1>1, <3>2, <4>1 DEF Context
        <4> QED BY <3>1, <4>1, <4>2 DEF CallAgrees
      <3> QED BY <3>3, <3>4
    <2> QED BY <2>1, <2>2, <2>3, <2>4, <2>5, <2>6, <2>7
  <1> QED BY <1>2, <1>4, <1>5, OthersAgree

LEMMA AgreedStep ==
  GuardTypeOK /\ Inv /\ Agreed /\ [GuardNext]_guardVars /\ [Orderly]_guardVars => Agreed'
  <1> SUFFICES ASSUME GuardTypeOK, Inv, Agreed, [GuardNext]_guardVars, [Orderly]_guardVars
               PROVE  Agreed'
    OBVIOUS
  <1>1. CASE Wait \/ UNCHANGED guardVars
    <2>1. UNCHANGED <<pc, held, policyVars, callVars>>
      BY <1>1 DEF Wait, Tick, guardVars, vars
    <2> QED BY <2>1 DEF policyVars, callVars, Agreed, TokensTell, CallAgrees, Quiet, BundleSha
  <1>2. CASE GuardNext /\ ~Wait /\ Orderly
    BY <1>2, PolicyAgrees, ApproveAgrees, CallerAgrees DEF GuardNext, Orderly
  <1> QED BY <1>1, <1>2

\* Where overlays are edited, calls approved and calls resumed in good order, a
\* token that a call needs was given under the policy the call was judged by, as
\* Pipeline.run_after_approval says.  Without that order it need not be
\* (guarded_approval).
THEOREM OrderlyApprovals ==
  GuardSpec /\ [][Orderly]_guardVars => []ApprovedUnderThatPolicy
  <1>1. Agreed => ApprovedUnderThatPolicy
    BY DEF Agreed, CallAgrees, ApprovedUnderThatPolicy
  <1> QED BY <1>1, AgreedInit, AgreedStep, GuardTypeCorrect, TokensHold, PTL DEF GuardSpec
==============================================================================
