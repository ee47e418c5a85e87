---------------------------- MODULE ApprovalTokens ----------------------------
(***************************************************************************)
(* Human approval tokens of one process: a token is issued when a person   *)
(* approves a blocked call, is verified when the call is resumed, and is   *)
(* verified again and consumed, after the gates have run once more, just   *)
(* before the tool executes.  Callers are threads.  Time is read before    *)
(* the lock that guards the registry of consumed tokens is taken, so any   *)
(* amount of it may pass in between.  The signature binds a token to its   *)
(* call; a token is presented here only with the call it was signed for.   *)
(***************************************************************************)
EXTENDS Naturals

CONSTANTS
  Callers,     \* threads that resume approved calls
  Tokens,      \* approval tokens
  NoToken,     \* a caller without one
  TTL,         \* ticks from issued_at to expires_at
  MaxClock,    \* bound: ticks of the clock
  MaxAccepts   \* bound: a token accepted this often is presented no more

ASSUME TokensAssumption ==
  /\ NoToken \notin Tokens
  /\ TTL \in Nat \ {0}
  /\ MaxClock \in Nat /\ MaxAccepts \in Nat

VARIABLES
  clock,      \* datetime.now
  expiry,     \* expires_at of a token, 0 before it is issued
  consumed,   \* _CONSUMED_TOKENS
  pc,         \* where a caller stands
  held,       \* the token of the call it resumes
  checkedAt,  \* checked_at: the time it verified the token at
  accepted    \* how often a token let a call execute

vars == <<clock, expiry, consumed, pc, held, checkedAt, accepted>>

TypeOK ==
  /\ clock \in Nat
  /\ expiry \in [Tokens -> Nat]
  /\ consumed \in SUBSET Tokens
  /\ pc \in [Callers -> {"idle", "resumed", "checked"}]
  /\ held \in [Callers -> Tokens \cup {NoToken}]
  /\ checkedAt \in [Callers -> Nat]
  /\ accepted \in [Tokens -> Nat]

Init ==
  /\ clock = 0
  /\ expiry = [t \in Tokens |-> 0]
  /\ consumed = {}
  /\ pc = [c \in Callers |-> "idle"]
  /\ held = [c \in Callers |-> NoToken]
  /\ checkedAt = [c \in Callers |-> 0]
  /\ accepted = [t \in Tokens |-> 0]
------------------------------------------------------------------------------
Issued(t) == expiry[t] # 0

\* verify_approval: a token is good up to and including the moment it expires.
Good(t) == Issued(t) /\ clock <= expiry[t]

\* Defect: the end of the validity is counted backwards.
ExpiresAtDefect == clock - TTL

\* issue_approval: now + timedelta(seconds=ttl_seconds).
ExpiresAt == clock + TTL

\* Defect: what is about to expire is forgotten, too.
KeptDefect(c) == {t \in consumed : expiry[t] > checkedAt[c] + 1}

\* The registry after the caller pruned it, by the time it remembers.
Kept(c) == {t \in consumed : expiry[t] > checkedAt[c]}

\* The caller is done with its call, or refused.
Leave(c) == pc' = [pc EXCEPT ![c] = "idle"] /\ held' = [held EXCEPT ![c] = NoToken]
------------------------------------------------------------------------------
Tick ==
  /\ clock < MaxClock
  /\ clock' = clock + 1
  /\ UNCHANGED <<expiry, consumed, pc, held, checkedAt, accepted>>

Issue(t) ==
  /\ ~Issued(t)
  /\ expiry' = [expiry EXCEPT ![t] = ExpiresAt]
  /\ UNCHANGED <<clock, consumed, pc, held, checkedAt, accepted>>

\* run_after_approval, up to the gates: any call that carries the token.
Resume(c, t) ==
  /\ pc[c] = "idle"
  /\ Good(t)
  /\ accepted[t] < MaxAccepts
  /\ pc' = [pc EXCEPT ![c] = "resumed"]
  /\ held' = [held EXCEPT ![c] = t]
  /\ UNCHANGED <<clock, expiry, consumed, checkedAt, accepted>>

\* The governance and the gates deny the call: the token is not consumed.
Deny(c) ==
  /\ pc[c] = "resumed"
  /\ Leave(c)
  /\ UNCHANGED <<clock, expiry, consumed, checkedAt, accepted>>

\* verify_and_consume_approval, before the lock.
Check(c) ==
  /\ pc[c] = "resumed"
  /\ IF Good(held[c])
     THEN /\ checkedAt' = [checkedAt EXCEPT ![c] = clock]
          /\ pc' = [pc EXCEPT ![c] = "checked"]
          /\ UNCHANGED held
     ELSE Leave(c) /\ UNCHANGED checkedAt
  /\ UNCHANGED <<clock, expiry, consumed, accepted>>

\* verify_and_consume_approval, under the lock: prune, refuse a replay, remember.
Consume(c) ==
  /\ pc[c] = "checked"
  /\ IF held[c] \in Kept(c)
     THEN consumed' = Kept(c) /\ UNCHANGED accepted
     ELSE /\ consumed' = Kept(c) \cup {held[c]}
          /\ accepted' = [accepted EXCEPT ![held[c]] = @ + 1]
  /\ Leave(c)
  /\ UNCHANGED <<clock, expiry, checkedAt>>

Next ==
  \/ Tick
  \/ \E t \in Tokens : Issue(t)
  \/ \E c \in Callers : \/ Deny(c) \/ Check(c) \/ Consume(c)
                        \/ \E t \in Tokens : Resume(c, t)

Spec == Init /\ [][Next]_vars
------------------------------------------------------------------------------
(* Properties.                                                              *)

\* While a token is valid it lets one call execute at most, whichever threads
\* present it and prune the registry with times they read earlier.
OnceWhileValid == \A t \in Tokens : clock < expiry[t] => accepted[t] <= 1

\* A token never executes twice, as the head of the module promises.
OnceEver == \A t \in Tokens : accepted[t] <= 1
==============================================================================
