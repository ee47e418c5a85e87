------------------------ MODULE PendingApprovalsProofs ------------------------
(***************************************************************************)
(* Theorems about PendingApprovals, for any calls, deaths and faults.      *)
(*                                                                         *)
(* VolatileRunsAtHome holds whatever happens to the ledger.  The others    *)
(* count: a torn line is worth one outcome of a call and one promise, and  *)
(* a ledger that ends in a torn line has that yet to spend.                *)
(***************************************************************************)
EXTENDS PendingApprovals, FiniteSetTheorems, TLAPS

USE DEF historyVars, boundVars, InMemory

Files == [calls : SUBSET Calls, torn : BOOLEAN]

Stages == InMemory \cup {"new", "over", "lost"}

LEMMA StaleCalls ==
  TypeOK => /\ Stale \in SUBSET Calls
            /\ Stale \subseteq expired
            /\ \A c \in Stale : stage[c] = "held"
BY DEF Stale, TypeOK

\* A prune removes what it prunes from the ledger, and nothing else.
LEMMA SweptFile ==
  ASSUME file \in Files, NEW S \in SUBSET Calls, NEW f \in Swept(S)
  PROVE  /\ f \in Files
         /\ f.calls \subseteq file.calls
         /\ file.calls \ f.calls \subseteq S
         /\ ~file.torn => ~f.torn
<1>1. CASE S = {} BY <1>1 DEF Swept, Files
<1>2. CASE S # {}
  <2>1. PICK T \in SUBSET S : f = [calls |-> file.calls \ T, torn |-> FALSE]
    BY <1>2 DEF Swept
  <2> QED BY <2>1 DEF Files
<1> QED BY <1>1, <1>2

\* An event line keeps what the ledger says of other calls.
LEMMA LineFile ==
  ASSUME NEW f \in Files, NEW c \in Calls
  PROVE  /\ Added(f, c) \in Files /\ Removed(f, c) \in Files
         /\ ~Added(f, c).torn /\ ~Removed(f, c).torn
         /\ f.calls \subseteq Added(f, c).calls /\ Added(f, c).calls \subseteq f.calls \cup {c}
         /\ Removed(f, c).calls \subseteq f.calls /\ f.calls \ {c} \subseteq Removed(f, c).calls
         /\ ~f.torn => c \in Added(f, c).calls /\ c \notin Removed(f, c).calls
BY DEF Added, Removed, Line, Files

\* A ledger ends in a torn line because it did before, or because one more was torn.
TornOrSo ==
  \/ tears' = tears /\ (file'.torn => file.torn)
  \/ tears' = tears + 1

\* A line that fails, after some removals of a prune, adds nothing to the ledger.
LEMMA FailedFile ==
  ASSUME TypeOK, NEW S \in SUBSET Stale, NEW f \in Swept(S), Tear(f)
  PROVE  /\ file' \in Files /\ tears' \in Nat
         /\ file'.calls \subseteq file.calls
         /\ file.calls \ file'.calls \subseteq Stale
         /\ TornOrSo
<1>0. file \in Files /\ tears \in Nat /\ S \in SUBSET Calls
  BY StaleCalls DEF TypeOK, Files
<1>1. /\ f \in Files /\ f.calls \subseteq file.calls
      /\ file.calls \ f.calls \subseteq S /\ (~file.torn => ~f.torn)
  BY <1>0, SweptFile
<1> USE DEF TornOrSo
<1>2. CASE file' = f /\ UNCHANGED tears BY <1>0, <1>1, <1>2
<1>3. CASE tears < MaxTears /\ tears' = tears + 1 /\ file' = [f EXCEPT !.torn = TRUE]
  <2>1. tears' = tears + 1 /\ tears' \in Nat BY <1>0, <1>3
  <2>2. file' \in Files /\ file'.calls = f.calls BY <1>1, <1>3 DEF Files
  <2> QED BY <1>1, <2>1, <2>2
<1> QED BY <1>2, <1>3 DEF Tear

\* The prune moves only what it takes out of memory.
LEMMA MovedCalls ==
  ASSUME TypeOK, NEW S \in SUBSET Calls, NEW c \in Calls, NEW p \in Stages,
         stage' = Moved(S, c, p)
  PROVE  /\ stage' \in [Calls -> Stages]
         /\ stage'[c] = p
         /\ \A d \in Calls \ {c} : stage'[d] = IF d \in S THEN "over" ELSE stage[d]
BY DEF Moved, TypeOK, Stages
------------------------------------------------------------------------------
(* What each kind of step does to the calls in memory and in the ledger.    *)

LEMMA HoldStep ==
  ASSUME TypeOK, NEW c \in Calls, Hold(c)
  PROVE  /\ file' \in Files
         /\ file'.calls \subseteq file.calls \cup {c}
         /\ file.calls \ file'.calls \subseteq Stale
         /\ ~file'.torn
         /\ ~file.torn => c \in file'.calls
         /\ stage' \in [Calls -> Stages] /\ stage'[c] = "held"
         /\ \A d \in Calls \ {c} : stage'[d] = IF d \in Stale THEN "over" ELSE stage[d]
<1>0. file \in Files /\ Stale \in SUBSET Calls /\ "held" \in Stages
  BY StaleCalls DEF TypeOK, Files, Stages
<1>1. PICK f \in Swept(Stale) : file' = Added(f, c) BY DEF Hold
<1>2. /\ f \in Files /\ f.calls \subseteq file.calls
      /\ file.calls \ f.calls \subseteq Stale /\ (~file.torn => ~f.torn)
  BY <1>0, SweptFile
<1>3. /\ file' \in Files /\ ~file'.torn
      /\ f.calls \subseteq file'.calls /\ file'.calls \subseteq f.calls \cup {c}
      /\ ~f.torn => c \in file'.calls
  BY <1>1, <1>2, LineFile
<1>4. stage' = Moved(Stale, c, "held") BY DEF Hold
<1> QED BY <1>0, <1>2, <1>3, <1>4, MovedCalls

LEMMA PopStep ==
  ASSUME TypeOK, NEW c \in Calls, Pop(c)
  PROVE  /\ file' \in Files
         /\ file'.calls \subseteq file.calls
         /\ file.calls \ file'.calls \subseteq Stale \cup {c}
         /\ ~file'.torn
         /\ ~file.torn => c \notin file'.calls
<1>0. file \in Files /\ Stale \in SUBSET Calls
  BY StaleCalls DEF TypeOK, Files
<1>1. PICK f \in Swept(Stale) : file' = Removed(f, c) BY DEF Pop
<1>2. /\ f \in Files /\ f.calls \subseteq file.calls
      /\ file.calls \ f.calls \subseteq Stale /\ (~file.torn => ~f.torn)
  BY <1>0, SweptFile
<1> QED BY <1>1, <1>2, LineFile

\* HoldFails and PopFails: a line fails after the prune.
LEMMA FailStep ==
  ASSUME TypeOK, NEW c \in Calls, NEW p \in Stages,
         stage' = Moved(Stale, c, p), \E f \in Swept(Stale) : Tear(f)
  PROVE  /\ file' \in Files /\ tears' \in Nat
         /\ file'.calls \subseteq file.calls
         /\ file.calls \ file'.calls \subseteq Stale
         /\ TornOrSo
         /\ stage' \in [Calls -> Stages] /\ stage'[c] = p
         /\ \A d \in Calls \ {c} : stage'[d] = IF d \in Stale THEN "over" ELSE stage[d]
BY StaleCalls, FailedFile, MovedCalls

\* PruneFails: whatever was pruned was held and stale.
LEMMA PruneStep ==
  ASSUME TypeOK, PruneFails
  PROVE  /\ file' \in Files /\ tears' \in Nat
         /\ file'.calls \subseteq file.calls
         /\ file.calls \ file'.calls \subseteq Stale
         /\ TornOrSo
         /\ stage' \in [Calls -> Stages]
         /\ \A d \in Calls : stage'[d] # stage[d] => stage'[d] = "over"
<1>1. PICK c \in Stale : \E S \in SUBSET (Stale \ {c}) :
        stage' = Moved(S, c, "over") /\ \E f \in Swept(S) : Tear(f)
  BY DEF PruneFails
<1>2. PICK S \in SUBSET (Stale \ {c}) :
        stage' = Moved(S, c, "over") /\ \E f \in Swept(S) : Tear(f)
  BY <1>1
<1>3. S \in SUBSET Calls /\ S \in SUBSET Stale /\ c \in Calls /\ "over" \in Stages
  BY StaleCalls DEF Stages
<1>4. /\ stage' \in [Calls -> Stages] /\ stage'[c] = "over"
      /\ \A d \in Calls \ {c} : stage'[d] = IF d \in S THEN "over" ELSE stage[d]
  BY <1>2, <1>3, MovedCalls
<1> QED BY <1>2, <1>3, <1>4, FailedFile

LEMMA DieStep ==
  ASSUME TypeOK, Die
  PROVE  /\ file' \in Files /\ tears' \in Nat
         /\ file'.calls \subseteq file.calls
         /\ file.calls \ file'.calls \subseteq Stale
         /\ TornOrSo
         /\ stage' \in [Calls -> Stages]
         /\ \A d \in Calls : stage'[d] = IF stage[d] \in InMemory THEN "lost" ELSE stage[d]
<1>1. PICK S \in SUBSET Stale : \E f \in Swept(S) : Tear(f) BY DEF Die
<1>2. stage' = [c \in Calls |-> IF stage[c] \in InMemory THEN "lost" ELSE stage[c]]
  BY DEF Die
<1>3. stage' \in [Calls -> Stages]
  BY <1>2 DEF TypeOK, Stages
<1>4. \A d \in Calls : stage'[d] = IF stage[d] \in InMemory THEN "lost" ELSE stage[d]
  BY <1>2
<1> QED BY <1>1, <1>3, <1>4, FailedFile

LEMMA ListStep ==
  ASSUME TypeOK, List
  PROVE  /\ file' \in Files
         /\ file'.calls \subseteq file.calls
         /\ file.calls \ file'.calls \subseteq Stale
         /\ ~file.torn => ~file'.torn
         /\ stage' \in [Calls -> Stages]
         /\ \A d \in Calls : stage'[d] = IF d \in Stale THEN "over" ELSE stage[d]
<1>1. file \in Files /\ Stale \in SUBSET Calls
  BY StaleCalls DEF TypeOK, Files
<1>2. file' \in Swept(Stale) BY DEF List
<1> QED BY <1>1, <1>2, SweptFile DEF List, TypeOK, Stages
------------------------------------------------------------------------------
LEMMA Types == TypeOK /\ [Next]_vars => TypeOK'
<1> SUFFICES ASSUME TypeOK, [Next]_vars PROVE TypeOK'
  OBVIOUS
<1> USE PendingAssumption DEF TypeOK, Files, Stages
<1>1. ASSUME NEW c \in Calls, Ask(c) PROVE TypeOK' BY <1>1 DEF Ask
<1>2. ASSUME NEW c \in Calls, Answer(c) PROVE TypeOK' BY <1>2 DEF Answer
<1>3. ASSUME NEW c \in Calls, Hold(c) PROVE TypeOK'
  <2>1. stage' \in [Calls -> Stages] /\ file' \in Files BY <1>3, HoldStep
  <2> QED BY <1>3, <2>1 DEF Hold
<1>4. ASSUME NEW c \in Calls, HoldFails(c) PROVE TypeOK'
  <2>1. stage' \in [Calls -> Stages] /\ file' \in Files /\ tears' \in Nat
    BY <1>4, FailStep DEF HoldFails
  <2> QED BY <1>4, <2>1 DEF HoldFails
<1>5. ASSUME NEW c \in Calls, Approve(c) PROVE TypeOK'
  <2>1. file' \in Files BY <1>5, PopStep DEF Approve
  <2>2. stage' = Moved(Stale, c, "approved") \/ stage' = Moved(Stale, c, "over")
    BY <1>5 DEF Approve
  <2>3. stage' \in [Calls -> Stages] BY <2>2, StaleCalls, MovedCalls
  <2> QED BY <1>5, <2>1, <2>3 DEF Approve, Pop
<1>6. ASSUME NEW c \in Calls, Reject(c) PROVE TypeOK'
  <2>1. file' \in Files BY <1>6, PopStep DEF Reject
  <2>2. stage' \in [Calls -> Stages] BY <1>6, StaleCalls, MovedCalls DEF Reject
  <2> QED BY <1>6, <2>1, <2>2 DEF Reject, Pop
<1>7. ASSUME NEW c \in Calls, PopFails(c) PROVE TypeOK'
  <2>1. stage' \in [Calls -> Stages] /\ file' \in Files /\ tears' \in Nat
    BY <1>7, FailStep DEF PopFails
  <2> QED BY <1>7, <2>1 DEF PopFails
<1>8. ASSUME NEW c \in Calls, RunAfterApproval(c) PROVE TypeOK'
  BY <1>8 DEF RunAfterApproval
<1>9. ASSUME NEW c \in Calls, Expire(c) PROVE TypeOK' BY <1>9 DEF Expire
<1>10. CASE List
  <2>1. stage' \in [Calls -> Stages] /\ file' \in Files BY <1>10, ListStep
  <2> QED BY <1>10, <2>1 DEF List
<1>11. CASE PruneFails
  <2>1. stage' \in [Calls -> Stages] /\ file' \in Files /\ tears' \in Nat
    BY <1>11, PruneStep
  <2> QED BY <1>11, <2>1 DEF PruneFails
<1>12. CASE Die
  <2>1. stage' \in [Calls -> Stages] /\ file' \in Files /\ tears' \in Nat
    BY <1>12, DieStep
  <2>2. up' = FALSE /\ deaths' = deaths + 1 BY Zenon, <1>12 DEF Die
  <2>3. UNCHANGED <<recovered, expired, told, decided, refused, executed, faults>>
    BY <1>12 DEF Die
  <2>4. up' \in BOOLEAN BY Zenon, <2>2
  <2>5. deaths' \in Nat BY <2>2
  <2> QED BY <2>1, <2>3, <2>4, <2>5
<1>13. CASE Restart BY <1>13 DEF Restart, Loaded
<1>14. CASE UNCHANGED vars BY <1>14 DEF vars
<1> QED
  BY <1>1, <1>2, <1>3, <1>4, <1>5, <1>6, <1>7, <1>8, <1>9, <1>10, <1>11, <1>12, <1>13, <1>14
  DEF Next

\* All variables of the store, the ledger and the history keep their types.
THEOREM TypeCorrect == Spec => []TypeOK
<1>1. Init => TypeOK BY PendingAssumption DEF Init, TypeOK
<1> QED BY <1>1, Types, PTL DEF Spec
------------------------------------------------------------------------------
(* Calls that the ledger does not keep whole.                               *)

\* A call that was never held is in no ledger; what the process that received it
\* holds has not run; a recovered call is approved only if nothing of it is missing;
\* and memory does not survive a process.
HomeOf(c) ==
  /\ stage[c] \in {"new", "asking"} =>
       executed[c] = 0 /\ c \notin file.calls /\ c \notin recovered
  /\ stage[c] \in {"held", "approved"} /\ c \notin recovered => executed[c] = 0
  /\ stage[c] = "approved" => MayRun(c)
  /\ ~up => stage[c] \notin InMemory

Home == \A c \in Calls : HomeOf(c)

LEMMA HomeStep == TypeOK /\ Home /\ [Next]_vars => Home'
<1> SUFFICES ASSUME TypeOK, Home, [Next]_vars, NEW d \in Calls PROVE HomeOf(d)'
  BY DEF Home
<1> USE DEF HomeOf, MayRun
<1>0. HomeOf(d) BY DEF Home
<1>1. ASSUME NEW c \in Calls, Ask(c) PROVE HomeOf(d)'
  BY <1>0, <1>1 DEF Ask, TypeOK
<1>2. ASSUME NEW c \in Calls, Answer(c) PROVE HomeOf(d)'
  BY <1>0, <1>2 DEF Answer, TypeOK
<1>3. ASSUME NEW c \in Calls, Hold(c) PROVE HomeOf(d)'
  BY <1>0, <1>3, HoldStep, StaleCalls DEF Hold
<1>4. ASSUME NEW c \in Calls, HoldFails(c) PROVE HomeOf(d)'
  <2>1. /\ file'.calls \subseteq file.calls /\ stage'[c] = "held"
        /\ \A e \in Calls \ {c} : stage'[e] = IF e \in Stale THEN "over" ELSE stage[e]
    BY <1>4, FailStep DEF HoldFails, Stages
  <2> QED BY <1>0, <1>4, <2>1, StaleCalls DEF HoldFails
<1>5. ASSUME NEW c \in Calls, Approve(c) PROVE HomeOf(d)'
  <2>1. file'.calls \subseteq file.calls BY <1>5, PopStep DEF Approve
  <2>2. \A e \in Calls \ {c} : stage'[e] = IF e \in Stale THEN "over" ELSE stage[e]
    BY <1>5, StaleCalls, MovedCalls DEF Approve, Stages
  <2>3. stage'[c] = IF MayRun(c) THEN "approved" ELSE "over"
    <3>1. CASE MayRun(c)
      <4>1. stage' = Moved(Stale, c, "approved") BY <1>5, <3>1 DEF Approve
      <4>2. stage'[c] = "approved" BY <4>1, StaleCalls, MovedCalls DEF Stages
      <4> QED BY <3>1, <4>2
    <3>2. CASE ~MayRun(c)
      <4>1. stage' = Moved(Stale, c, "over") BY <1>5, <3>2 DEF Approve
      <4>2. stage'[c] = "over" BY <4>1, StaleCalls, MovedCalls DEF Stages
      <4> QED BY <3>2, <4>2
    <3> QED BY <3>1, <3>2
  <2> QED BY <1>0, <1>5, <2>1, <2>2, <2>3, StaleCalls DEF Approve, Pop
<1>6. ASSUME NEW c \in Calls, Reject(c) PROVE HomeOf(d)'
  <2>1. file'.calls \subseteq file.calls BY <1>6, PopStep DEF Reject
  <2>2. stage'[c] = "over"
        /\ \A e \in Calls \ {c} : stage'[e] = IF e \in Stale THEN "over" ELSE stage[e]
    BY <1>6, StaleCalls, MovedCalls DEF Reject, Stages
  <2> QED BY <1>0, <1>6, <2>1, <2>2, StaleCalls DEF Reject, Pop
<1>7. ASSUME NEW c \in Calls, PopFails(c) PROVE HomeOf(d)'
  <2>1. /\ file'.calls \subseteq file.calls /\ stage'[c] = "lost"
        /\ \A e \in Calls \ {c} : stage'[e] = IF e \in Stale THEN "over" ELSE stage[e]
    BY <1>7, FailStep DEF PopFails, Stages
  <2> QED BY <1>0, <1>7, <2>1, StaleCalls DEF PopFails
<1>8. ASSUME NEW c \in Calls, RunAfterApproval(c) PROVE HomeOf(d)'
  BY <1>0, <1>8 DEF RunAfterApproval, TypeOK
<1>9. ASSUME NEW c \in Calls, Expire(c) PROVE HomeOf(d)' BY <1>0, <1>9 DEF Expire
<1>10. CASE List BY <1>0, <1>10, ListStep, StaleCalls DEF List
<1>11. CASE PruneFails BY <1>0, <1>11, PruneStep DEF PruneFails
<1>12. CASE Die
  <2>1. up' = FALSE /\ UNCHANGED <<recovered, executed>> BY <1>12 DEF Die
  <2> QED BY <1>0, <1>12, <2>1, DieStep
<1>13. CASE Restart BY <1>0, <1>13 DEF Restart, Loaded, TypeOK
<1>14. CASE UNCHANGED vars BY <1>0, <1>14 DEF vars
<1> QED
  BY <1>1, <1>2, <1>3, <1>4, <1>5, <1>6, <1>7, <1>8, <1>9, <1>10, <1>11, <1>12, <1>13, <1>14
  DEF Next

\* Only RunAfterApproval executes a call, an approved one, and once.
LEMMA Executions ==
  ASSUME TypeOK, [Next]_vars, NEW c \in Calls, executed'[c] # executed[c]
  PROVE  stage[c] = "approved" /\ executed'[c] = executed[c] + 1
BY DEF Next, vars, Ask, Answer, Hold, HoldFails, Approve, Reject, Pop, PopFails,
       RunAfterApproval, Expire, List, PruneFails, Die, Restart, TypeOK

\* A call with a verified identity, provenance, a history or secret arguments runs in
\* the process that received it or not at all, and once, however many lines are torn.
THEOREM VolatileCallsRunAtHome == Spec => VolatileRunsAtHome
<1>1. Init => Home BY DEF Init, Home, HomeOf
<1>2. TypeOK /\ Home /\ [Next]_vars =>
        [\A c \in Volatile : executed'[c] # executed[c] => c \notin recovered /\ executed[c] = 0]_vars
  <2> SUFFICES ASSUME TypeOK, Home, [Next]_vars, NEW c \in Volatile, executed'[c] # executed[c]
               PROVE  c \notin recovered /\ executed[c] = 0
    OBVIOUS
  <2>1. c \in Calls BY PendingAssumption
  <2>2. stage[c] = "approved" BY <2>1, Executions
  <2> QED BY <2>1, <2>2 DEF Home, HomeOf, MayRun
<1> QED BY <1>1, <1>2, HomeStep, TypeCorrect, PTL DEF Spec, VolatileRunsAtHome
------------------------------------------------------------------------------
(* What a torn line is worth.                                               *)

\* The outcomes of a call, and those it may still have: from its approval, from the
\* ledger or from the memory it waits in, and from a torn line at the end.
Worth(c) ==
  executed[c] + Bit(c \in refused) + Bit(stage[c] = "approved")
    + Bit(c \in file.calls \/ stage[c] \in {"new", "asking", "held"})
    + Bit(file.torn)

WorthBound == \A c \in Calls : Worth(c) <= 1 + tears

LEMMA WorthStep ==
  ASSUME TypeOK, Home, [Next]_vars, NEW d \in Calls
  PROVE  Worth(d)' <= Worth(d) + (tears' - tears)
<1> USE DEF Worth, Bit
<1>0. /\ HomeOf(d) /\ tears \in Nat /\ executed \in [Calls -> Nat]
      /\ stage \in [Calls -> Stages]
  BY DEF Home, TypeOK, Stages
<1>a. \A c \in Stale : c \in Calls /\ stage[c] = "held" BY StaleCalls
<1>1. ASSUME NEW c \in Calls, Ask(c) PROVE Worth(d)' <= Worth(d) + (tears' - tears)
  BY <1>0, <1>1 DEF Ask
<1>2. ASSUME NEW c \in Calls, Answer(c) PROVE Worth(d)' <= Worth(d) + (tears' - tears)
  <2>1. stage[c] = "asking" /\ UNCHANGED <<file, executed, tears>> BY <1>2 DEF Answer
  <2>2. \/ stage' = [stage EXCEPT ![c] = "approved"] /\ UNCHANGED refused
        \/ stage' = [stage EXCEPT ![c] = "over"] /\ refused' = refused \cup {c}
    BY <1>2 DEF Answer
  <2>3. CASE d = c
    <3>1. d \notin file.calls BY <1>0, <2>1, <2>3 DEF HomeOf
    <3> QED BY <1>0, <2>1, <2>2, <2>3, <3>1
  <2>4. CASE d # c BY <1>0, <2>1, <2>2, <2>4
  <2> QED BY <2>3, <2>4
<1>3. ASSUME NEW c \in Calls, Hold(c) PROVE Worth(d)' <= Worth(d) + (tears' - tears)
  <2>1. /\ file'.calls \subseteq file.calls \cup {c} /\ ~file'.torn /\ stage'[c] = "held"
        /\ \A e \in Calls \ {c} : stage'[e] = IF e \in Stale THEN "over" ELSE stage[e]
    BY <1>3, HoldStep
  <2>2. stage[c] \in {"new", "asking"} /\ UNCHANGED <<executed, refused, tears>>
    BY <1>3 DEF Hold
  <2> QED BY <1>0, <1>a, <2>1, <2>2
<1>4. ASSUME NEW c \in Calls, HoldFails(c) PROVE Worth(d)' <= Worth(d) + (tears' - tears)
  <2>1. /\ file'.calls \subseteq file.calls /\ TornOrSo /\ stage'[c] = "held"
        /\ \A e \in Calls \ {c} : stage'[e] = IF e \in Stale THEN "over" ELSE stage[e]
    BY <1>4, FailStep DEF HoldFails, Stages
  <2>2. stage[c] \in {"new", "asking"} /\ UNCHANGED <<executed, refused>>
    BY <1>4 DEF HoldFails
  <2> QED BY <1>0, <1>a, <2>1, <2>2 DEF TornOrSo
<1>5. ASSUME NEW c \in Calls, Approve(c) PROVE Worth(d)' <= Worth(d) + (tears' - tears)
  <2>1. /\ file'.calls \subseteq file.calls /\ ~file'.torn
        /\ ~file.torn => c \notin file'.calls
    BY <1>5, PopStep DEF Approve
  <2>2. \A e \in Calls \ {c} : stage'[e] = IF e \in Stale THEN "over" ELSE stage[e]
    BY <1>5, StaleCalls, MovedCalls DEF Approve, Stages
  <2>3. \/ stage'[c] = "approved" /\ UNCHANGED refused
        \/ stage'[c] = "over" /\ refused' = refused \cup {c}
    <3>1. CASE stage' = Moved(Stale, c, "approved") /\ UNCHANGED refused
      BY <3>1, StaleCalls, MovedCalls DEF Stages
    <3>2. CASE stage' = Moved(Stale, c, "over") /\ refused' = refused \cup {c}
      BY <3>2, StaleCalls, MovedCalls DEF Stages
    <3> QED BY <1>5, <3>1, <3>2 DEF Approve
  <2>4. stage[c] = "held" /\ UNCHANGED <<executed, tears>> BY <1>5 DEF Approve, Pop
  <2>5. CASE d = c BY <1>0, <2>1, <2>3, <2>4, <2>5
  <2>6. CASE d # c BY <1>0, <1>a, <2>1, <2>2, <2>3, <2>4, <2>6
  <2> QED BY <2>5, <2>6
<1>6. ASSUME NEW c \in Calls, Reject(c) PROVE Worth(d)' <= Worth(d) + (tears' - tears)
  <2>1. /\ file'.calls \subseteq file.calls /\ ~file'.torn
        /\ ~file.torn => c \notin file'.calls
    BY <1>6, PopStep DEF Reject
  <2>2. stage'[c] = "over"
        /\ \A e \in Calls \ {c} : stage'[e] = IF e \in Stale THEN "over" ELSE stage[e]
    BY <1>6, StaleCalls, MovedCalls DEF Reject, Stages
  <2>3. stage[c] = "held" /\ refused' = refused \cup {c} /\ UNCHANGED <<executed, tears>>
    BY <1>6 DEF Reject, Pop
  <2>4. CASE d = c BY <1>0, <2>1, <2>2, <2>3, <2>4
  <2>5. CASE d # c BY <1>0, <1>a, <2>1, <2>2, <2>3, <2>5
  <2> QED BY <2>4, <2>5
<1>7. ASSUME NEW c \in Calls, PopFails(c) PROVE Worth(d)' <= Worth(d) + (tears' - tears)
  <2>1. /\ file'.calls \subseteq file.calls /\ TornOrSo /\ stage'[c] = "lost"
        /\ \A e \in Calls \ {c} : stage'[e] = IF e \in Stale THEN "over" ELSE stage[e]
    BY <1>7, FailStep DEF PopFails, Stages
  <2>2. UNCHANGED <<executed, refused>> BY <1>7 DEF PopFails
  <2> QED BY <1>0, <1>a, <2>1, <2>2 DEF TornOrSo
<1>8. ASSUME NEW c \in Calls, RunAfterApproval(c)
      PROVE  Worth(d)' <= Worth(d) + (tears' - tears)
  <2>1. /\ stage[c] = "approved" /\ stage' = [stage EXCEPT ![c] = "over"]
        /\ executed' = [executed EXCEPT ![c] = @ + 1] \/ UNCHANGED executed
        /\ UNCHANGED <<file, refused, tears>>
    BY <1>8 DEF RunAfterApproval
  <2>2. CASE d = c
    <3>1. executed'[d] <= executed[d] + 1 /\ executed'[d] \in Nat
      BY <1>0, <2>1, <2>2
    <3> QED BY <1>0, <2>1, <2>2, <3>1
  <2>3. CASE d # c BY <1>0, <2>1, <2>3
  <2> QED BY <2>2, <2>3
<1>9. ASSUME NEW c \in Calls, Expire(c) PROVE Worth(d)' <= Worth(d) + (tears' - tears)
  BY <1>0, <1>9 DEF Expire
<1>10. CASE List
  <2>1. UNCHANGED <<executed, refused, tears>> BY <1>10 DEF List
  <2> QED BY <1>0, <1>a, <1>10, <2>1, ListStep
<1>11. CASE PruneFails
  <2>1. UNCHANGED <<executed, refused>> BY <1>11 DEF PruneFails
  <2> QED BY <1>0, <1>11, <2>1, PruneStep DEF TornOrSo
<1>12. CASE Die
  <2>1. UNCHANGED <<executed, refused>> BY <1>12 DEF Die
  <2> QED BY <1>0, <1>12, <2>1, DieStep DEF TornOrSo
<1>13. CASE Restart
  <2>1. /\ stage'[d] = IF d \in Loaded THEN "held" ELSE stage[d]
        /\ UNCHANGED <<file, executed, refused, tears>>
    BY <1>0, <1>13 DEF Restart
  <2> QED BY <1>0, <2>1 DEF Loaded
<1>14. CASE UNCHANGED vars BY <1>0, <1>14 DEF vars
<1> QED
  BY <1>1, <1>2, <1>3, <1>4, <1>5, <1>6, <1>7, <1>8, <1>9, <1>10, <1>11, <1>12, <1>13, <1>14
  DEF Next

\* A call has one outcome, and each torn line buys it at most one more, however often
\* the process dies and writes fail: the removal is in the ledger before the tool is
\* called or the refusal counts.
THEOREM OutcomesAreCounted == Spec => []OneOutcome
<1>1. Init => Home BY DEF Init, Home, HomeOf
<1>2. Init => WorthBound BY DEF Init, WorthBound, Worth, Bit
<1>3. TypeOK /\ TypeOK' /\ Home /\ WorthBound /\ [Next]_vars => WorthBound'
  <2> SUFFICES ASSUME TypeOK, TypeOK', Home, WorthBound, [Next]_vars, NEW d \in Calls
               PROVE  Worth(d)' <= 1 + tears'
    BY DEF WorthBound
  <2>1. Worth(d)' <= Worth(d) + (tears' - tears) BY WorthStep
  <2>2. Worth(d) <= 1 + tears BY DEF WorthBound
  <2>3. tears \in Nat /\ tears' \in Nat /\ Worth(d) \in Int /\ Worth(d)' \in Int
    BY DEF TypeOK, Worth, Bit
  <2> QED BY <2>1, <2>2, <2>3
<1>4. TypeOK /\ WorthBound => OneOutcome
  BY DEF TypeOK, WorthBound, Worth, Bit, OneOutcome
<1> QED BY <1>1, <1>2, <1>3, <1>4, HomeStep, TypeCorrect, PTL DEF Spec
------------------------------------------------------------------------------
\* A ledger that ends in a torn line has one promise yet to break: the next.
PromiseBound == IsFiniteSet(Broken) /\ Cardinality(Broken) + Bit(file.torn) <= tears

\* Only holding a call behind a torn line breaks a promise.
LEMMA BrokenStep ==
  ASSUME TypeOK, [Next]_vars
  PROVE  \/ Broken' \subseteq Broken /\ TornOrSo
         \/ /\ \E c \in Calls : Broken' \subseteq Broken \cup {c}
            /\ file.torn /\ ~file'.torn /\ tears' = tears
<1> DEFINE Kept == Broken' \subseteq Broken /\ TornOrSo
<1> USE DEF Broken
<1>a. Stale \subseteq expired /\ tears \in Nat BY StaleCalls DEF TypeOK
<1>1. ASSUME UNCHANGED <<file, tears, told>>, expired \subseteq expired', decided' = decided
      PROVE  Kept
  BY <1>1 DEF TornOrSo
<1>2. ASSUME NEW c \in Calls, Hold(c)
      PROVE  \/ Kept
             \/ Broken' \subseteq Broken \cup {c} /\ file.torn /\ ~file'.torn /\ tears' = tears
  <2>1. /\ file.calls \ file'.calls \subseteq Stale
        /\ ~file'.torn /\ (~file.torn => c \in file'.calls)
    BY <1>2, HoldStep
  <2>2. told' = told \cup {c} /\ UNCHANGED <<expired, decided, tears>> BY <1>2 DEF Hold
  <2>3. Broken' \subseteq Broken \cup {c} BY <1>a, <2>1, <2>2
  <2>4. ~file.torn => Broken' \subseteq Broken BY <1>a, <2>1, <2>2
  <2> QED BY <2>1, <2>2, <2>3, <2>4 DEF TornOrSo
<1>3. ASSUME file.calls \ file'.calls \subseteq Stale, TornOrSo, UNCHANGED <<told, expired, decided>>
      PROVE  Kept
  BY <1>3, <1>a
<1>4. ASSUME NEW c \in Calls, HoldFails(c) PROVE Kept
  <2>1. file.calls \ file'.calls \subseteq Stale /\ TornOrSo
    BY <1>4, FailStep DEF HoldFails, Stages
  <2> QED BY <1>3, <1>4, <2>1 DEF HoldFails
<1>5. ASSUME NEW c \in Calls, Pop(c), UNCHANGED <<told, expired, tears>> PROVE Kept
  <2>1. file.calls \ file'.calls \subseteq Stale \cup {c} /\ ~file'.torn
    BY <1>5, PopStep
  <2>2. decided' = decided \cup {c} BY <1>5 DEF Pop
  <2> QED BY <1>5, <1>a, <2>1, <2>2 DEF TornOrSo
<1>6. ASSUME NEW c \in Calls, Approve(c) \/ Reject(c) PROVE Kept
  BY <1>5, <1>6 DEF Approve, Reject
<1>7. ASSUME NEW c \in Calls, PopFails(c) PROVE Kept
  <2>1. file.calls \ file'.calls \subseteq Stale /\ TornOrSo
    BY <1>7, FailStep DEF PopFails, Stages
  <2> QED BY <1>3, <1>7, <2>1 DEF PopFails
<1>8. CASE List
  <2>1. file.calls \ file'.calls \subseteq Stale /\ TornOrSo
    BY <1>8, ListStep DEF List, TornOrSo
  <2> QED BY <1>3, <1>8, <2>1 DEF List
<1>9. CASE PruneFails
  <2>1. UNCHANGED <<told, expired, decided>> BY <1>9 DEF PruneFails
  <2> QED BY <1>3, <1>9, <2>1, PruneStep
<1>10. CASE Die
  <2>1. UNCHANGED <<told, expired, decided>> BY <1>10 DEF Die
  <2> QED BY <1>3, <1>10, <2>1, DieStep
<1>11. ASSUME NEW c \in Calls, Ask(c) \/ Answer(c) \/ RunAfterApproval(c) \/ Expire(c)
       PROVE  Kept
  BY <1>1, <1>11 DEF Ask, Answer, RunAfterApproval, Expire
<1>12. CASE Restart BY <1>1, <1>12 DEF Restart
<1>13. CASE UNCHANGED vars BY <1>1, <1>13 DEF vars
<1> QED
  BY <1>2, <1>4, <1>6, <1>7, <1>8, <1>9, <1>10, <1>11, <1>12, <1>13 DEF Next

LEMMA PromiseStep == TypeOK /\ TypeOK' /\ PromiseBound /\ [Next]_vars => PromiseBound'
<1> SUFFICES ASSUME TypeOK, TypeOK', PromiseBound, [Next]_vars PROVE PromiseBound'
  OBVIOUS
<1> USE DEF PromiseBound, Bit
<1>0. /\ tears \in Nat /\ IsFiniteSet(Broken) /\ Cardinality(Broken) \in Nat
      /\ Cardinality(Broken) + Bit(file.torn) <= tears
  BY FS_CardinalityType DEF TypeOK
<1>1. CASE Broken' \subseteq Broken /\ TornOrSo
  <2>1. IsFiniteSet(Broken') /\ Cardinality(Broken') <= Cardinality(Broken)
        /\ Cardinality(Broken') \in Nat
    BY <1>0, <1>1, FS_Subset, FS_CardinalityType
  <2> QED BY <1>0, <1>1, <2>1 DEF TornOrSo
<1>2. CASE /\ \E c \in Calls : Broken' \subseteq Broken \cup {c}
           /\ file.torn /\ ~file'.torn /\ tears' = tears
  <2>1. PICK c \in Calls : Broken' \subseteq Broken \cup {c} BY <1>2
  <2>2. IsFiniteSet(Broken \cup {c}) /\ Cardinality(Broken \cup {c}) <= Cardinality(Broken) + 1
    <3>1. Cardinality(Broken \cup {c})
            = IF c \in Broken THEN Cardinality(Broken) ELSE Cardinality(Broken) + 1
      BY <1>0, FS_AddElement
    <3>2. IsFiniteSet(Broken \cup {c}) BY <1>0, FS_AddElement
    <3> HIDE DEF PromiseBound, Bit
    <3> QED BY <1>0, <3>1, <3>2
  <2>3. IsFiniteSet(Broken') /\ Cardinality(Broken') <= Cardinality(Broken \cup {c})
    BY <2>1, <2>2, FS_Subset
  <2>4. Cardinality(Broken') \in Nat /\ Cardinality(Broken \cup {c}) \in Nat
    BY <2>2, <2>3, FS_CardinalityType
  <2> QED BY <1>0, <1>2, <2>2, <2>3, <2>4
<1> QED BY <1>1, <1>2, BrokenStep

\* Each torn line breaks at most one promise made to a client, however many calls,
\* deaths and failed writes there are.
THEOREM PromisesAreCounted == Spec => []PromisePerTear
<1>1. Init => PromiseBound
  <2> SUFFICES ASSUME Init PROVE PromiseBound OBVIOUS
  <2>1. Broken = {} /\ tears = 0 /\ ~file.torn BY DEF Init, Broken
  <2> QED BY <2>1, FS_EmptySet DEF PromiseBound, Bit
<1>2. TypeOK /\ PromiseBound => PromisePerTear
  <2> SUFFICES ASSUME TypeOK, PromiseBound PROVE PromisePerTear OBVIOUS
  <2> QED BY FS_CardinalityType DEF TypeOK, PromiseBound, PromisePerTear, Bit
<1> QED BY <1>1, <1>2, PromiseStep, TypeCorrect, PTL DEF Spec
------------------------------------------------------------------------------
\* While no line is torn, a call is not executed twice, and a refused one never.
COROLLARY WholeLedger ==
  Spec => [](tears = 0 => ExecutesOnce /\ \A c \in refused : executed[c] = 0)
<1>1. TypeOK /\ OneOutcome =>
        (tears = 0 => ExecutesOnce /\ \A c \in refused : executed[c] = 0)
  BY DEF TypeOK, OneOutcome, ExecutesOnce, Bit
<1> QED BY <1>1, OutcomesAreCounted, TypeCorrect, PTL
==============================================================================
