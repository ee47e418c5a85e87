-------------------------- MODULE ApprovalTokensProofs --------------------------
(* Proofs about ApprovalTokens, for any callers, tokens and length of validity. *)
EXTENDS ApprovalTokens, TLAPS

\* A caller on its way carries a token, and the time it remembers is past.
Remembers == \A c \in Callers : /\ checkedAt[c] <= clock
                                /\ pc[c] # "idle" => held[c] \in Tokens

\* What was accepted had been issued, and if it is still valid it is still in the
\* registry: a clock read earlier prunes no more than one read now.
Registered == \A t \in Tokens :
  accepted[t] > 0 => Issued(t) /\ (clock < expiry[t] => t \in consumed)

\* Nobody carries a token that was not issued.
CarriesIssued == \A c \in Callers : held[c] \in Tokens => Issued(held[c])

\* The inductive invariant.
Inv == TypeOK /\ Remembers /\ CarriesIssued /\ Registered /\ OnceWhileValid

\* The inductive invariant holds at first.
LEMMA InitInv == Init => Inv
  BY TokensAssumption
  DEF Init, Inv, TypeOK, Remembers, CarriesIssued, Registered, OnceWhileValid, Issued

\* The clock only makes tokens expire.
LEMMA TickInv == Inv /\ Tick => Inv'
  BY DEF Inv, TypeOK, Remembers, CarriesIssued, Registered, OnceWhileValid, Issued, Tick

\* A token that is issued was never accepted before.
LEMMA IssueInv ==
  ASSUME Inv, NEW t \in Tokens, Issue(t)
  PROVE  Inv'
  <1>1. ExpiresAt \in Nat \ {0}
    BY TokensAssumption DEF Inv, TypeOK, ExpiresAt
  <1>2. TypeOK' /\ Remembers' /\ CarriesIssued'
    BY <1>1 DEF Inv, TypeOK, Remembers, CarriesIssued, Issued, Issue
  <1>3. accepted[t] = 0
    BY DEF Inv, TypeOK, Registered, Issue
  <1>4. Registered' /\ OnceWhileValid'
    BY <1>1, <1>3 DEF Inv, TypeOK, Registered, OnceWhileValid, Issued, Issue
  <1> QED BY <1>2, <1>4 DEF Inv

\* A caller that resumes a call, or is denied, moves nothing but itself.
LEMMA CallerInv ==
  ASSUME Inv, NEW c \in Callers, Deny(c) \/ \E t \in Tokens : Resume(c, t)
  PROVE  Inv'
  <1>1. CASE Deny(c)
    BY <1>1, TokensAssumption
    DEF Inv, TypeOK, Remembers, CarriesIssued, Registered, OnceWhileValid, Issued, Deny, Leave
  <1>2. CASE \E t \in Tokens : Resume(c, t)
    BY <1>2
    DEF Inv, TypeOK, Remembers, CarriesIssued, Registered, OnceWhileValid, Issued, Resume, Good
  <1> QED BY <1>1, <1>2

\* The time that is remembered is the present one.
LEMMA CheckInv ==
  ASSUME Inv, NEW c \in Callers, Check(c)
  PROVE  Inv'
  <1>1. TypeOK' /\ Remembers' /\ CarriesIssued'
    BY TokensAssumption DEF Inv, TypeOK, Remembers, CarriesIssued, Issued, Check, Leave
  <1>2. Registered' /\ OnceWhileValid'
    BY DEF Inv, Registered, OnceWhileValid, Issued, Check
  <1> QED BY <1>1, <1>2 DEF Inv

\* Pruning spares every token that is still valid, so a second acceptance comes
\* after the end of the validity.
LEMMA ConsumeInv ==
  ASSUME Inv, NEW c \in Callers, Consume(c)
  PROVE  Inv'
  <1> DEFINE t == held[c]
  <1>1. t \in Tokens /\ Issued(t) /\ checkedAt[c] <= clock
    BY DEF Inv, Remembers, CarriesIssued, Consume
  <1>2. TypeOK' /\ Remembers' /\ CarriesIssued'
    BY <1>1, TokensAssumption
    DEF Inv, TypeOK, Remembers, CarriesIssued, Issued, Consume, Leave, Kept
  <1>3. \A u \in Tokens : u \in consumed /\ clock < expiry[u] => u \in Kept(c)
    BY <1>1 DEF Inv, TypeOK, Kept
  <1>4. CASE t \in Kept(c)
    <2>1. consumed' = Kept(c) /\ accepted' = accepted /\ clock' = clock /\ expiry' = expiry
      BY <1>4 DEF Consume
    <2> QED BY <2>1, <1>2, <1>3 DEF Inv, Registered, OnceWhileValid, Issued
  <1>5. CASE t \notin Kept(c)
    <2>1. /\ consumed' = Kept(c) \cup {t}
          /\ accepted' = [accepted EXCEPT ![t] = @ + 1]
          /\ clock' = clock /\ expiry' = expiry
      BY <1>5 DEF Consume
    <2>2. Registered'
      BY <2>1, <1>1, <1>3 DEF Inv, TypeOK, Registered, Issued
    <2>3. clock < expiry[t] => accepted[t] = 0
      BY <1>1, <1>3, <1>5 DEF Inv, TypeOK, Registered
    <2>4. OnceWhileValid'
      BY <2>1, <2>3, <1>1 DEF Inv, TypeOK, OnceWhileValid
    <2> QED BY <1>2, <2>2, <2>4 DEF Inv
  <1> QED BY <1>4, <1>5

\* Every step keeps the inductive invariant.
LEMMA NextInv == Inv /\ [Next]_vars => Inv'
  <1> SUFFICES ASSUME Inv, [Next]_vars PROVE Inv'
    OBVIOUS
  <1>1. CASE Tick
    BY <1>1, TickInv
  <1>2. CASE \E t \in Tokens : Issue(t)
    BY <1>2, IssueInv
  <1>3. CASE \E c \in Callers : Deny(c) \/ Check(c) \/ Consume(c) \/ \E t \in Tokens : Resume(c, t)
    BY <1>3, CallerInv, CheckInv, ConsumeInv
  <1>4. CASE UNCHANGED vars
    BY <1>4
    DEF Inv, TypeOK, Remembers, CarriesIssued, Registered, OnceWhileValid, Issued, vars
  <1> QED BY <1>1, <1>2, <1>3, <1>4 DEF Next

\* The inductive invariant always holds.
LEMMA AlwaysInv == Spec => []Inv
  BY InitInv, NextInv, PTL DEF Spec

\* The clock, the expiries, the registry and the callers keep their types.
THEOREM TokensTypeCorrect == Spec => []TypeOK
  <1>1. Inv => TypeOK
    BY DEF Inv
  <1> QED BY <1>1, AlwaysInv, PTL

\* While a token is valid it lets one call execute at most, however many threads
\* present it and whatever clock readings they prune the registry with.
THEOREM TokensExecuteOnce == Spec => []OnceWhileValid
  <1>1. Inv => OnceWhileValid
    BY DEF Inv
  <1> QED BY <1>1, AlwaysInv, PTL

\* Time that passes between reading the clock and taking the lock is all that lets a
\* token execute twice: if callers take the lock before their token has expired, it
\* executes once, as the head of the module promises (verify_and_consume_approval).
THEOREM PromptCallersExecuteOnce ==
  Spec /\ [][\A c \in Callers : Consume(c) => clock < expiry[held[c]]]_vars => []OnceEver
  <1> DEFINE Prompt == \A c \in Callers : Consume(c) => clock < expiry[held[c]]
  <1>1. Init => OnceEver
    BY DEF Init, OnceEver
  <1>2. ASSUME Inv, Inv', OnceEver, [Next]_vars, [Prompt]_vars PROVE OnceEver'
    <2>1. ASSUME NEW c \in Callers, Consume(c), Prompt PROVE OnceEver'
      <3>1. held[c] \in Tokens /\ clock < expiry[held[c]]
        BY <1>2, <2>1 DEF Inv, Remembers, Consume
      <3>2. clock' < expiry'[held[c]]
        BY <3>1, <2>1 DEF Consume
      <3>3. accepted'[held[c]] <= 1
        BY <1>2, <3>1, <3>2 DEF Inv, OnceWhileValid
      <3>4. \A t \in Tokens \ {held[c]} : accepted'[t] = accepted[t]
        BY <1>2, <2>1 DEF Consume, Inv, TypeOK
      <3> QED BY <1>2, <3>3, <3>4 DEF OnceEver
    <2>2. CASE accepted' = accepted
      BY <1>2, <2>2 DEF OnceEver
    <2>3. \/ accepted' = accepted
          \/ Prompt /\ \E c \in Callers : Consume(c)
      BY <1>2 DEF Next, Tick, Issue, Deny, Check, Resume, vars
    <2> QED BY <2>1, <2>2, <2>3
  <1> QED BY <1>1, <1>2, AlwaysInv, PTL DEF Spec
================================================================================
