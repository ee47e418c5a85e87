-------------------------- MODULE AuditChainProofs --------------------------
(* Proofs about AuditChain, for any processes, writers of any kind, connections, *)
(* records and aborts.                                                           *)
EXTENDS AuditChain, FiniteSetTheorems, WellFoundedInduction, TLAPS

------------------------------------------------------------------------------
(* Greatest elements.                                                         *)

IsMax(x, S) == x \in S /\ \A y \in S : y <= x

LEMMA MaxIsMax ==
  ASSUME NEW S \in SUBSET Nat, NEW x, IsMax(x, S)
  PROVE  Max(S) = x
  <1>1. \A y \in S : (\A z \in S : y >= z) => y = x
    BY DEF IsMax
  <1>2. x \in S /\ \A z \in S : x >= z
    BY DEF IsMax
  <1> QED BY <1>1, <1>2 DEF Max

\* A set of numbers up to n has a greatest one: that above which the fewest are.
LEMMA MaxExists ==
  ASSUME NEW n \in Nat, NEW S \in SUBSET (0..n), S # {}
  PROVE  IsMax(Max(S), S)
  <1> DEFINE Above(x) == {y \in S : y > x}
             T == {Above(x) : x \in S}
  <1>1. IsFiniteSet(S)
    <2>1. IsFiniteSet(0..n)
      BY FS_Interval
    <2>2. S \subseteq 0..n
      OBVIOUS
    <2> QED BY <2>1, <2>2, FS_Subset
  <1>2. T \subseteq FiniteSubsetsOf(S) /\ T # {}
    <2>1. \A x \in S : Above(x) \in SUBSET S
      OBVIOUS
    <2>2. FiniteSubsetsOf(S) = SUBSET S
      BY <1>1, FS_FiniteSubsetsOfFinite
    <2>3. T \subseteq SUBSET S
      BY <2>1
    <2>4. T # {}
      OBVIOUS
    <2> QED BY <2>2, <2>3, <2>4
  <1>3. PICK U \in T : \A V \in T : ~(<<V, U>> \in StrictSubsetOrdering(S))
    <2> HIDE DEF T
    <2>1. IsWellFoundedOn(StrictSubsetOrdering(S), FiniteSubsetsOf(S))
      BY FS_StrictSubsetOrderingWellFounded
    <2> QED BY <1>2, <2>1, WFMin
  <1>4. PICK x \in S : U = Above(x)
    BY <1>3
  <1>5. ASSUME NEW y \in Above(x) PROVE FALSE
    <2>1. Above(y) \subseteq Above(x) /\ y \notin Above(y) /\ y \in S
      <3>1. S \subseteq Int /\ x \in Int /\ y \in S /\ y \in Int /\ y > x
        BY <1>4, <1>5
      <3>2. \A z \in S : z > y => z > x
        BY <3>1
      <3>3. ~(y > y)
        BY <3>1
      <3>4. Above(y) \subseteq Above(x)
        BY <3>2
      <3>5. y \notin Above(y)
        BY <3>3
      <3> QED BY <3>1, <3>4, <3>5
    <2>2. <<Above(y), U>> \in StrictSubsetOrdering(S)
      BY <1>4, <1>5, <2>1 DEF StrictSubsetOrdering
    <2> QED BY <1>3, <2>1, <2>2
  <1>6. IsMax(x, S)
    BY <1>4, <1>5 DEF IsMax
  <1> QED BY <1>6, MaxIsMax

------------------------------------------------------------------------------
(* The log of a chain.                                                        *)

Live(c) == {n \in DOMAIN log[c] : log[c][n].state # "aborted"}
OpenOf(w, c) == {n \in DOMAIN log[c] : log[c][n].by = w /\ log[c][n].state = "open"}

\* What is live is committed or open.
LEMMA LiveRecords ==
  ASSUME TypeOK, NEW c \in Chains
  PROVE  /\ Live(c) = Committed(c) \cup UNION {OpenOf(w, c) : w \in Writers}
         /\ Live(c) \in SUBSET (1..Len(log[c])) /\ Len(log[c]) \in Nat
         /\ Committed(c) \in SUBSET Live(c)
         /\ \A n \in DOMAIN log[c] : log[c][n] \in Record /\ n \in Nat \ {0}
  <1>1. log[c] \in Seq(Record)
    BY DEF TypeOK
  <1>2. /\ DOMAIN log[c] = 1..Len(log[c]) /\ Len(log[c]) \in Nat
        /\ \A n \in DOMAIN log[c] : log[c][n] \in Record /\ n \in Nat \ {0}
    BY <1>1
  <1>3. \A n \in DOMAIN log[c] : /\ log[c][n].by \in Writers
                                 /\ log[c][n].state \in {"open", "committed", "aborted"}
    BY <1>2 DEF Record
  <1> QED BY <1>2, <1>3 DEF Live, Committed, OpenOf

LEMMA LastCommittedIsLast ==
  ASSUME TypeOK, NEW c \in Chains
  PROVE  LastCommitted(c) \in Nat /\ IsMax(LastCommitted(c), Committed(c) \cup {0})
  <1>1. /\ Committed(c) \cup {0} \in SUBSET (0..Len(log[c])) /\ Len(log[c]) \in Nat
    BY LiveRecords
  <1> DEFINE S == Committed(c) \cup {0}
             k == Len(log[c])
  <1>2. S \in SUBSET (0..k) /\ k \in Nat /\ S # {} /\ S \subseteq Nat
    BY <1>1
  <1>3. IsMax(Max(S), S)
    <2> HIDE DEF S, k
    <2> QED BY <1>2, MaxExists
  <1> QED BY <1>2, <1>3 DEF LastCommitted, IsMax

\* One more record of w at the end of a chain, after hash p.
LEMMA Appended ==
  ASSUME TypeOK, NEW c \in Chains, NEW w \in Writers, NEW p \in Hashes,
         log'[c] = Append(log[c], [prev |-> p, by |-> w, state |-> "open"])
  PROVE  /\ log'[c] \in Seq(Record)
         /\ DOMAIN log'[c] = DOMAIN log[c] \cup {Len(log[c]) + 1}
         /\ \A n \in DOMAIN log[c] : log'[c][n] = log[c][n] /\ n < Len(log[c]) + 1
         /\ log'[c][Len(log[c]) + 1] = [prev |-> p, by |-> w, state |-> "open"]
         /\ Committed(c)' = Committed(c)
         /\ Live(c)' = Live(c) \cup {Len(log[c]) + 1}
         /\ OpenOf(w, c)' = OpenOf(w, c) \cup {Len(log[c]) + 1}
         /\ \A v \in Writers \ {w} : OpenOf(v, c)' = OpenOf(v, c)
  <1> DEFINE r == [prev |-> p, by |-> w, state |-> "open"]
  <1>1. log[c] \in Seq(Record) /\ r \in Record
    BY DEF TypeOK, Record
  <1>2. r.by = w /\ r.state = "open"
    OBVIOUS
  <1> HIDE DEF r
  <1>3. log'[c] = Append(log[c], r)
    BY DEF r
  <1>4. /\ log'[c] \in Seq(Record) /\ Len(log'[c]) = Len(log[c]) + 1 /\ Len(log[c]) \in Nat
        /\ \A n \in 1..Len(log[c]) : log'[c][n] = log[c][n]
        /\ log'[c][Len(log[c]) + 1] = r
    BY <1>1, <1>3
  <1>5. DOMAIN log[c] = 1..Len(log[c]) /\ DOMAIN log'[c] = 1..(Len(log[c]) + 1)
    BY <1>1, <1>4
  <1>6. /\ DOMAIN log'[c] = DOMAIN log[c] \cup {Len(log[c]) + 1}
        /\ \A n \in DOMAIN log[c] : log'[c][n] = log[c][n] /\ n < Len(log[c]) + 1
    BY <1>4, <1>5
  <1>7. Committed(c)' = Committed(c) /\ Live(c)' = Live(c) \cup {Len(log[c]) + 1}
    BY <1>2, <1>4, <1>6 DEF Committed, Live
  <1>8. /\ OpenOf(w, c)' = OpenOf(w, c) \cup {Len(log[c]) + 1}
        /\ \A v \in Writers \ {w} : OpenOf(v, c)' = OpenOf(v, c)
    BY <1>2, <1>4, <1>6 DEF OpenOf
  <1> QED BY <1>4, <1>6, <1>7, <1>8 DEF r

\* The open records of some writers are committed, or aborted.
LEMMA FinishedRecords ==
  ASSUME TypeOK, NEW who \in SUBSET Writers, NEW end \in {"committed", "aborted"},
         log' = Finished(log, who, end), NEW c \in Chains
  PROVE  /\ log'[c] \in Seq(Record)
         /\ DOMAIN log'[c] = DOMAIN log[c]
         /\ \A n \in DOMAIN log[c] : /\ log'[c][n].prev = log[c][n].prev
                                     /\ log'[c][n].by = log[c][n].by
                                     /\ \/ log'[c][n] = log[c][n]
                                        \/ /\ log[c][n].by \in who /\ log[c][n].state = "open"
                                           /\ log'[c][n].state = end
         /\ Committed(c) \subseteq Committed(c)'
         /\ \A w \in who : /\ OpenOf(w, c)' = {}
                           /\ end = "committed" => OpenOf(w, c) \subseteq Committed(c)'
         /\ \A w \in Writers \ who : OpenOf(w, c)' = OpenOf(w, c)
         /\ end = "aborted" => Committed(c)' = Committed(c)
         /\ end = "committed" => Live(c)' = Live(c)
         /\ Live(c)' \subseteq Live(c)
         /\ Committed(c)' \subseteq Committed(c) \cup UNION {OpenOf(w, c) : w \in who}
  <1>1. log[c] \in Seq(Record)
    BY DEF TypeOK
  <1>2. /\ DOMAIN log[c] = 1..Len(log[c]) /\ Len(log[c]) \in Nat
        /\ \A n \in DOMAIN log[c] : log[c][n] \in Record
    BY <1>1
  <1>3. log'[c] = [n \in DOMAIN log[c] |->
                     IF log[c][n].by \in who /\ log[c][n].state = "open"
                     THEN [log[c][n] EXCEPT !.state = end] ELSE log[c][n]]
    BY DEF Finished
  <1>4. DOMAIN log'[c] = DOMAIN log[c]
    BY <1>3
  <1>5. ASSUME NEW n \in DOMAIN log[c]
        PROVE  /\ log'[c][n] \in Record
               /\ log'[c][n].prev = log[c][n].prev
               /\ log'[c][n].by = log[c][n].by
               /\ log[c][n].by \in who /\ log[c][n].state = "open" => log'[c][n].state = end
               /\ ~(log[c][n].by \in who /\ log[c][n].state = "open") => log'[c][n] = log[c][n]
    BY <1>2, <1>3, <1>5 DEF Record
  <1>6. log'[c] \in Seq(Record)
    <2>1. log'[c] = [n \in 1..Len(log[c]) |-> log'[c][n]]
      BY <1>2, <1>3, <1>4
    <2>2. log'[c] \in [1..Len(log[c]) -> Record]
      BY <1>2, <1>5, <2>1
    <2> QED BY <1>2, <2>2
  <1>7. /\ Committed(c) \subseteq Committed(c)'
        /\ end = "aborted" => Committed(c)' = Committed(c)
        /\ Committed(c)' \subseteq Committed(c) \cup UNION {OpenOf(w, c) : w \in who}
    BY <1>4, <1>5 DEF Committed, OpenOf
  <1>8. /\ \A w \in who : /\ OpenOf(w, c)' = {}
                          /\ end = "committed" => OpenOf(w, c) \subseteq Committed(c)'
        /\ \A w \in Writers \ who : OpenOf(w, c)' = OpenOf(w, c)
    BY <1>4, <1>5 DEF Committed, OpenOf
  <1>9. Live(c)' \subseteq Live(c) /\ (end = "committed" => Live(c)' = Live(c))
    BY <1>4, <1>5 DEF Live
  <1> QED BY <1>4, <1>5, <1>6, <1>7, <1>8, <1>9

\* A transaction that commits makes all it appended visible, and nothing else.
LEMMA CommittedRecords ==
  ASSUME TypeOK, NEW w \in Writers, log' = Finished(log, {w}, "committed"), NEW c \in Chains
  PROVE  /\ log'[c] \in Seq(Record)
         /\ DOMAIN log'[c] = DOMAIN log[c]
         /\ \A n \in DOMAIN log[c] : log'[c][n].prev = log[c][n].prev
         /\ Committed(c) \subseteq Committed(c)'
         /\ Committed(c)' \subseteq Committed(c) \cup OpenOf(w, c)
         /\ OpenOf(w, c)' = {} /\ OpenOf(w, c) \subseteq Committed(c)'
         /\ \A v \in Writers \ {w} : OpenOf(v, c)' = OpenOf(v, c)
         /\ Live(c)' = Live(c)
  <1> DEFINE mine(n) == log[c][n].by = w /\ log[c][n].state = "open"
  <1>1. log[c] \in Seq(Record)
    BY DEF TypeOK
  <1>2. /\ DOMAIN log[c] = 1..Len(log[c]) /\ Len(log[c]) \in Nat
        /\ \A n \in DOMAIN log[c] : log[c][n] \in Record
    BY <1>1
  <1>3. log'[c] = [n \in DOMAIN log[c] |->
                     IF mine(n) THEN [log[c][n] EXCEPT !.state = "committed"] ELSE log[c][n]]
    BY DEF Finished
  <1>4. DOMAIN log'[c] = DOMAIN log[c]
    BY <1>3
  <1>5. ASSUME NEW n \in DOMAIN log[c]
        PROVE  /\ log'[c][n] \in Record
               /\ log'[c][n].prev = log[c][n].prev /\ log'[c][n].by = log[c][n].by
               /\ mine(n) => log'[c][n].state = "committed"
               /\ ~mine(n) => log'[c][n] = log[c][n]
    BY <1>2, <1>3, <1>5 DEF Record
  <1>6. log'[c] \in Seq(Record)
    <2>1. log'[c] = [n \in 1..Len(log[c]) |-> log'[c][n]]
      BY <1>2, <1>3, <1>4
    <2>2. log'[c] \in [1..Len(log[c]) -> Record]
      BY <1>2, <1>5, <2>1
    <2>3. \A m \in Nat : \A s \in [1..m -> Record] : s \in Seq(Record)
      OBVIOUS
    <2> QED BY <1>2, <2>2, <2>3
  <1>7. /\ Committed(c) \subseteq Committed(c)'
        /\ Committed(c)' \subseteq Committed(c) \cup OpenOf(w, c)
    BY <1>4, <1>5 DEF Committed, OpenOf
  <1>8. /\ OpenOf(w, c)' = {} /\ OpenOf(w, c) \subseteq Committed(c)'
        /\ \A v \in Writers \ {w} : OpenOf(v, c)' = OpenOf(v, c)
    BY <1>4, <1>5 DEF Committed, OpenOf
  <1>9. Live(c)' = Live(c)
    BY <1>4, <1>5 DEF Live
  <1> QED BY <1>4, <1>5, <1>6, <1>7, <1>8, <1>9

\* w appends, after hashes it took from somewhere.
LEMMA InsertedRecords ==
  ASSUME TypeOK, NEW w \in Writers, NEW from \in [Chains -> Hashes],
         log' = Inserted(w, from)
  PROVE  /\ log' \in [Chains -> Seq(Record)]
         /\ \A c \in ChainsOf(w) \cap Chains :
              log'[c] = Append(log[c], [prev |-> from[c], by |-> w, state |-> "open"])
         /\ \A c \in Chains \ ChainsOf(w) : log'[c] = log[c]
  <1>1. \A c \in Chains : log[c] \in Seq(Record) /\ from[c] \in Hashes
    BY DEF TypeOK
  <1>3. \A c \in Chains :
          log'[c] = IF c \in ChainsOf(w)
                    THEN Append(log[c], [prev |-> from[c], by |-> w, state |-> "open"]) ELSE log[c]
    BY DEF Inserted
  <1>4. \A c \in Chains : log'[c] \in Seq(Record)
    <2>1. ASSUME NEW c \in Chains, c \in ChainsOf(w) PROVE log'[c] \in Seq(Record)
      <3>1. log'[c] = Append(log[c], [prev |-> from[c], by |-> w, state |-> "open"])
        BY <1>3, <2>1
      <3>2. from[c] \in Hashes
        BY <1>1
      <3> QED BY <3>1, <3>2, Appended
    <2>2. ASSUME NEW c \in Chains, c \notin ChainsOf(w) PROVE log'[c] \in Seq(Record)
      BY <1>1, <1>3, <2>2
    <2> QED BY <2>1, <2>2
  <1>5. log' = [c \in Chains |-> log'[c]]
    BY DEF Inserted
  <1> QED BY <1>3, <1>4, <1>5

LEMMA ReleasedLocks ==
  ASSUME TypeOK, NEW who \in SUBSET Writers, Release(who)
  PROVE  /\ rowLock' \in [Chains -> Writers \cup {Nobody}]
         /\ advisory' \in Writers \cup {Nobody}
         /\ turn' \in [Processes -> [Chains -> Writers \cup {Nobody}]]
         /\ base' \in [Writers -> [Chains -> Hashes]]
         /\ next' \in [Writers -> [Chains -> Hashes]]
         /\ \A c \in Chains : rowLock'[c] = IF rowLock[c] \in who THEN Nobody ELSE rowLock[c]
         /\ advisory' = IF advisory \in who THEN Nobody ELSE advisory
         /\ \A p \in Processes, c \in Chains :
              turn'[p][c] = IF turn[p][c] \in who THEN Nobody ELSE turn[p][c]
         /\ \A w \in Writers \ who : base'[w] = base[w] /\ next'[w] = next[w]
  <1>1. Empty \in [Chains -> Hashes]
    BY DEF Empty, Hashes
  <1>2. \A p \in Processes : turn[p] \in [Chains -> Writers \cup {Nobody}]
    BY DEF TypeOK
  <1>3. turn' \in [Processes -> [Chains -> Writers \cup {Nobody}]]
    <2>1. \A p \in Processes, c \in Chains :
            (IF turn[p][c] \in who THEN Nobody ELSE turn[p][c]) \in Writers \cup {Nobody}
      BY <1>2
    <2> QED BY <2>1 DEF Release
  <1>4. /\ rowLock' \in [Chains -> Writers \cup {Nobody}]
        /\ advisory' \in Writers \cup {Nobody}
        /\ \A c \in Chains : rowLock'[c] = IF rowLock[c] \in who THEN Nobody ELSE rowLock[c]
        /\ advisory' = IF advisory \in who THEN Nobody ELSE advisory
        /\ \A p \in Processes, c \in Chains :
             turn'[p][c] = IF turn[p][c] \in who THEN Nobody ELSE turn[p][c]
    BY DEF Release, TypeOK
  <1>5. /\ base' \in [Writers -> [Chains -> Hashes]]
        /\ next' \in [Writers -> [Chains -> Hashes]]
        /\ \A w \in Writers \ who : base'[w] = base[w] /\ next'[w] = next[w]
    BY <1>1 DEF Release, TypeOK
  <1> QED BY <1>3, <1>4, <1>5

LEMMA RolledBackRecords ==
  ASSUME TypeOK, NEW who \in SUBSET Writers, NEW end \in {"committed", "aborted"},
         log' = Finished(log, who, end)
  PROVE  log' \in [Chains -> Seq(Record)]
  <1>1. \A c \in Chains : log'[c] \in Seq(Record)
    BY FinishedRecords
  <1>2. log' = [c \in Chains |-> log'[c]]
    BY DEF Finished
  <1> QED BY <1>1, <1>2

------------------------------------------------------------------------------
(* Types.                                                                     *)

LEMMA ChainsOfAWriter ==
  ASSUME ChainAssumption, NEW w \in Writers
  PROVE  /\ ChainsOf(w) \in SUBSET Chains
         /\ Role[w] = "audit" => ChainsOf(w) = Chains
         /\ Role[w] = "gate6" => ChainsOf(w) = {"gate6"}
         /\ Role[w] \in {"event", "note", "effects"} => ChainsOf(w) = {"effect"}
         /\ Role[w] \in Roles /\ Home[w] \in Processes
  BY DEF ChainAssumption, ChainsOf, Chains, Roles

LEMMA TypeInit == ASSUME ChainAssumption, Init PROVE TypeOK
  <1>1. Empty \in [Chains -> Hashes] /\ Unread \in Hashes
    BY DEF Empty, Hashes
  <1>2. << >> \in Seq(Record)
    OBVIOUS
  <1> QED BY <1>1, <1>2 DEF Init, TypeOK, WriterPhase

LEMMA TypeStep == ASSUME ChainAssumption, TypeOK, Next PROVE TypeOK'
  <1>1. /\ Unread \in Hashes /\ Ghost \in Hashes
        /\ [c \in Chains |-> Unread] \in [Chains -> Hashes]
        /\ [c \in Chains |-> Ghost] \in [Chains -> Hashes]
    BY DEF Hashes
  <1>2. \A c \in Chains : Len(log[c]) \in Nat /\ Len(log[c]) + 1 \in Hashes
    <2>1. \A c \in Chains : Len(log[c]) \in Nat
      BY LiveRecords
    <2> QED BY <2>1 DEF Hashes
  <1>3. \A c \in Chains : LastCommitted(c) \in Hashes
    BY LastCommittedIsLast DEF Hashes
  <1>4. \A w \in Writers : \A c \in Chains : Visible(w, c) \in Hashes
    BY DEF Visible, TypeOK
  <1>5. \A w \in Writers : base[w] \in [Chains -> Hashes] /\ next[w] \in [Chains -> Hashes]
    BY DEF TypeOK
  <1>6. \A p \in Processes : /\ cache[p] \in [Chains -> Hashes]
                             /\ turn[p] \in [Chains -> Writers \cup {Nobody}]
    BY DEF TypeOK
  <1>7. \A w \in Writers : ChainsOf(w) \in SUBSET Chains /\ Home[w] \in Processes
    BY ChainsOfAWriter
  <1>8. ASSUME NEW w \in Writers, Enqueue(w) PROVE TypeOK'
    BY <1>8 DEF Enqueue, Becomes, TypeOK, WriterPhase, dbVars
  <1>9. ASSUME NEW w \in Writers, NEW c \in Chains, TakeTurn(w, c) PROVE TypeOK'
    <2>1. turn' \in [Processes -> [Chains -> Writers \cup {Nobody}]]
      <3>1. [turn[Home[w]] EXCEPT ![c] = w] \in [Chains -> Writers \cup {Nobody}]
        BY <1>6, <1>7
      <3>2. turn' = [turn EXCEPT ![Home[w]] = [turn[Home[w]] EXCEPT ![c] = w]]
        BY <1>9 DEF TakeTurn
      <3> QED BY <3>1, <3>2 DEF TypeOK
    <2> QED BY <1>9, <2>1 DEF TakeTurn, TypeOK, dbVars, auditVars
  <1>10. ASSUME NEW w \in Writers, BeginTx(w) PROVE TypeOK'
    BY <1>10 DEF BeginTx, Becomes, TypeOK, WriterPhase, InTx, dbVars, auditVars
  <1>11. ASSUME NEW w \in Writers, LockAdvisory(w) PROVE TypeOK'
    BY <1>11 DEF LockAdvisory, Becomes, TypeOK, WriterPhase, InTx, auditVars
  <1>12. ASSUME NEW w \in Writers, ReadLast(w) PROVE TypeOK'
    <2>1. base' \in [Writers -> [Chains -> Hashes]]
      <3>1. [base[w] EXCEPT !["effect"] = LastCommitted("effect")] \in [Chains -> Hashes]
        BY <1>3, <1>5 DEF Chains
      <3>2. base' = [base EXCEPT ![w] = [base[w] EXCEPT !["effect"] = LastCommitted("effect")]]
        BY <1>12 DEF ReadLast
      <3> QED BY <3>1, <3>2 DEF TypeOK
    <2> QED BY <1>12, <2>1 DEF ReadLast, Becomes, TypeOK, WriterPhase, InTx, dbVars, auditVars
  <1>13. ASSUME NEW w \in Writers, LockTail(w) PROVE TypeOK'
    <2>1. PICK c \in ChainsOf(w) : /\ rowLock' = [rowLock EXCEPT ![c] = w]
                                   /\ base' = [base EXCEPT ![w][c] = tail[c]]
                                   /\ next' = [next EXCEPT ![w][c] = tail[c]]
      BY <1>13 DEF LockTail
    <2>2. c \in Chains /\ tail[c] \in Hashes
      BY <1>7 DEF TypeOK
    <2>3. base' \in [Writers -> [Chains -> Hashes]]
      <3>1. [base[w] EXCEPT ![c] = tail[c]] \in [Chains -> Hashes]
        BY <1>5, <2>2
      <3>2. base' = [base EXCEPT ![w] = [base[w] EXCEPT ![c] = tail[c]]]
        BY <2>1
      <3> QED BY <3>1, <3>2 DEF TypeOK
    <2>4. next' \in [Writers -> [Chains -> Hashes]]
      <3>1. [next[w] EXCEPT ![c] = tail[c]] \in [Chains -> Hashes]
        BY <1>5, <2>2
      <3>2. next' = [next EXCEPT ![w] = [next[w] EXCEPT ![c] = tail[c]]]
        BY <2>1
      <3> QED BY <3>1, <3>2 DEF TypeOK
    <2> QED BY <1>13, <2>1, <2>2, <2>3, <2>4
            DEF LockTail, Becomes, TypeOK, WriterPhase, InTx, auditVars
  <1>14. ASSUME NEW w \in Writers, Insert(w) PROVE TypeOK'
    <2>1. log' \in [Chains -> Seq(Record)]
      BY <1>5, <1>14, InsertedRecords DEF Insert
    <2>2. next' \in [Writers -> [Chains -> Hashes]]
      <3>1. next' = [next EXCEPT ![w] =
               [c \in Chains |-> IF c \in ChainsOf(w) THEN Len(log[c]) + 1 ELSE next[w][c]]]
        BY <1>14 DEF Insert, TypeOK
      <3> QED BY <1>2, <1>5, <3>1 DEF TypeOK
    <2> QED BY <1>14, <2>1, <2>2 DEF Insert, Becomes, TypeOK, WriterPhase, InTx, auditVars
  <1>15. ASSUME NEW w \in Writers, WriteTail(w) PROVE TypeOK'
    <2>1. cache' \in [Processes -> [Chains -> Hashes]]
      <3>1. cache' = [cache EXCEPT ![Home[w]] =
               [c \in Chains |-> IF c \in ChainsOf(w) THEN Unread ELSE cache[Home[w]][c]]]
        BY <1>7, <1>15 DEF WriteTail, TypeOK
      <3> QED BY <1>1, <1>6, <1>7, <3>1 DEF TypeOK
    <2> QED BY <1>15, <2>1 DEF WriteTail, Becomes, TypeOK, WriterPhase, InTx, auditVars
  <1>16. ASSUME NEW w \in Writers, ReadCache(w) PROVE TypeOK'
    <2>1. PICK pair \in [Chains -> Hashes] : /\ base' = [base EXCEPT ![w] = pair]
                                             /\ cache' = [cache EXCEPT ![Home[w]] = pair]
      <3>1. [c \in Chains |-> Visible(w, c)] \in [Chains -> Hashes]
        BY <1>4
      <3> QED BY <1>6, <1>7, <1>16, <3>1 DEF ReadCache
    <2> QED BY <1>16, <2>1 DEF ReadCache, Becomes, TypeOK, WriterPhase, InTx, dbVars, auditVars
  <1>17. ASSUME NEW w \in Writers, SwapTails(w) PROVE TypeOK'
    <2>1. log' \in [Chains -> Seq(Record)]
      BY <1>5, <1>17, InsertedRecords DEF SwapTails
    <2>2. [c \in Chains |-> Len(log[c]) + 1] \in [Chains -> Hashes]
      BY <1>2
    <2> QED BY <1>17, <2>1, <2>2
            DEF SwapTails, LockTails, Becomes, TypeOK, WriterPhase, InTx
  <1>18. ASSUME NEW w \in Writers, SwapNothing(w) PROVE TypeOK'
    BY <1>1, <1>18 DEF SwapNothing, LockTails, Becomes, TypeOK, WriterPhase, InTx
  <1>19. ASSUME NEW w \in Writers, SwapConflict(w) PROVE TypeOK'
    <2>1. [c \in Chains |-> Visible(w, c)] \in [Chains -> Hashes]
      BY <1>4
    <2> QED BY <1>19, <2>1 DEF SwapConflict, LockTails, Becomes, TypeOK, WriterPhase, InTx, auditVars
  <1>20. ASSUME NEW who \in SUBSET Writers, Rollback(who),
                pc' \in [Writers -> WriterPhase], cache' \in [Processes -> [Chains -> Hashes]],
                part' = part, retried' \in [Writers -> BOOLEAN], settled' = settled, aborts' \in Nat
         PROVE  TypeOK'
    <2>1. log' \in [Chains -> Seq(Record)] /\ tail' = tail
      BY <1>20, RolledBackRecords DEF Rollback
    <2>2. /\ rowLock' \in [Chains -> Writers \cup {Nobody}]
          /\ advisory' \in Writers \cup {Nobody}
          /\ turn' \in [Processes -> [Chains -> Writers \cup {Nobody}]]
          /\ base' \in [Writers -> [Chains -> Hashes]]
          /\ next' \in [Writers -> [Chains -> Hashes]]
      <3>1. Release(who)
        BY <1>20 DEF Rollback
      <3> QED BY <3>1, ReleasedLocks
    <2> QED BY <1>20, <2>1, <2>2 DEF TypeOK
  <1>21. ASSUME NEW w \in Writers, Retry(w) PROVE TypeOK'
    <2>1. /\ pc' \in [Writers -> WriterPhase] /\ retried' \in [Writers -> BOOLEAN]
          /\ cache' \in [Processes -> [Chains -> Hashes]] /\ part' = part /\ settled' = settled
          /\ aborts' \in Nat
      BY <1>21 DEF Retry, Becomes, TypeOK, WriterPhase, InTx
    <2>2. CASE part[w] = "alone"
      BY <1>20, <1>21, <2>1, <2>2 DEF Retry
    <2>3. CASE part[w] # "alone"
      BY <1>21, <2>1, <2>3 DEF Retry, TypeOK, dbVars
    <2> QED BY <2>2, <2>3
  <1>22. ASSUME NEW w \in Writers, GiveUp(w) \/ Abort(w) PROVE TypeOK'
    <2>1. /\ pc' \in [Writers -> WriterPhase] /\ retried' \in [Writers -> BOOLEAN]
          /\ cache' \in [Processes -> [Chains -> Hashes]] /\ part' = part /\ settled' = settled
          /\ aborts' \in Nat /\ Rollback({w})
      <3>1. CASE GiveUp(w)
        BY <3>1 DEF GiveUp, Becomes, TypeOK, WriterPhase, auditVars
      <3>2. CASE Abort(w)
        <4>1. aborts' \in Nat
          BY <3>2 DEF Abort, TypeOK
        <4> QED BY <3>2, <4>1 DEF Abort, Becomes, TypeOK, WriterPhase, auditVars
      <3> QED BY <1>22, <3>1, <3>2
    <2> QED BY <1>20, <2>1
  <1>23. ASSUME NEW w \in Writers, Commit(w) PROVE TypeOK'
    <2>1. log' \in [Chains -> Seq(Record)]
      BY <1>23, RolledBackRecords DEF Commit
    <2>2. tail' \in [Chains -> Hashes]
      BY <1>5, <1>23 DEF Commit, TypeOK
    <2>3. /\ rowLock' \in [Chains -> Writers \cup {Nobody}]
          /\ advisory' \in Writers \cup {Nobody}
          /\ turn' \in [Processes -> [Chains -> Writers \cup {Nobody}]]
          /\ base' \in [Writers -> [Chains -> Hashes]]
          /\ next' \in [Writers -> [Chains -> Hashes]]
      <3>1. Release({w})
        BY <1>23 DEF Commit
      <3> QED BY <3>1, ReleasedLocks
    <2> QED BY <1>23, <2>1, <2>2, <2>3 DEF Commit, Becomes, TypeOK, WriterPhase, auditVars
  <1>24. ASSUME NEW p \in Processes, ProcessDies(p) PROVE TypeOK'
    <2> DEFINE who == {w \in Writers : Home[w] = p}
    <2>1. Rollback(who) /\ pc' = [w \in Writers |-> IF w \in who THEN "idle" ELSE pc[w]]
      BY <1>24 DEF ProcessDies
    <2>2. /\ pc' \in [Writers -> WriterPhase] /\ retried' \in [Writers -> BOOLEAN]
          /\ cache' \in [Processes -> [Chains -> Hashes]] /\ part' = part /\ settled' = settled
          /\ aborts' \in Nat
      BY <1>1, <1>24, <2>1 DEF ProcessDies, TypeOK, WriterPhase, auditVars
    <2>3. who \in SUBSET Writers
      OBVIOUS
    <2> QED BY <1>20, <2>1, <2>2, <2>3
  <1> QED BY <1>8, <1>9, <1>10, <1>11, <1>12, <1>13, <1>14, <1>15, <1>16, <1>17, <1>18, <1>19,
             <1>21, <1>22, <1>23, <1>24 DEF Next, Waiting, Running

------------------------------------------------------------------------------
(* The inductive invariant.                                                   *)

\* Who holds a tail row is in a transaction that appends to that chain: from the read
\* on where it was read under the lock, once the tail is written elsewhere.  The audit
\* flusher holds both rows or none.  The advisory lock is held from its own step on.
Locking(w) ==
  /\ \A c \in Chains : (rowLock[c] = w => pc[w] \in InTx /\ c \in ChainsOf(w))
  /\ (Role[w] \in {"effects", "gate6"} =>
       \A c \in ChainsOf(w) : (rowLock[c] = w <=> pc[w] \in {"read", "inserted", "written"}))
  /\ (Role[w] \in {"event", "note"} => \A c \in Chains : (rowLock[c] = w => pc[w] = "written"))
  /\ (Role[w] = "audit" => (rowLock["effect"] = w <=> rowLock["gate6"] = w))
  /\ (advisory = w <=> /\ Role[w] \in {"event", "note"}
                       /\ pc[w] \in {"advised", "read", "inserted", "written"})
  /\ (pc[w] = "written" => /\ ~settled[w]
                           /\ \A c \in ChainsOf(w) : rowLock[c] = w)
  /\ (Role[w] # "audit" => ~settled[w] /\ pc[w] # "conflict")
  /\ (Role[w] = "audit" => pc[w] # "inserted")
  /\ (pc[w] = "advised" => Role[w] \in {"event", "note"})
  /\ (settled[w] => part[w] # "second")

Locks == \A w \in Writers : Locking(w)

\* Turns are of writers at work, in their process and on their chains, and taken in order.
Turning(w) == \A p \in Processes, c \in Chains :
  turn[p][c] = w => /\ p = Home[w] /\ c \in TurnsOf(w) /\ pc[w] # "idle"
                    /\ (c = "gate6" /\ "effect" \in TurnsOf(w) => turn[p]["effect"] = w)

Turns == \A w \in Writers : Turning(w)

\* What a record may hang on: what is committed, nothing, or for a record that is
\* not committed yet one of the same transaction.
Ground(c) == Committed(c) \cup {0}

Rooted(c) ==
  /\ tail[c] \in Ground(c)
  /\ \A n \in Committed(c) : log[c][n].prev \in Ground(c) /\ log[c][n].prev \in 0..(n - 1)
  /\ \A w \in Writers : \A n \in OpenOf(w, c) :
       log[c][n].prev \in Ground(c) \cup OpenOf(w, c) /\ log[c][n].prev \in 0..(n - 1)

\* The hashes a transaction is about to use are such ones.
Grounded(w, c) ==
  /\ (Role[w] # "audit" /\ pc[w] = "read" /\ c \in ChainsOf(w) => base[w][c] \in Ground(c))
  /\ (pc[w] \in {"inserted", "written"} /\ c \in ChainsOf(w) => next[w][c] \in OpenOf(w, c))
  /\ (rowLock[c] = w /\ ~settled[w] => next[w][c] \in Ground(c) \cup OpenOf(w, c))

Standing == \A c \in Chains : Rooted(c) /\ \A w \in Writers : Grounded(w, c)

\* Which lock serialises a chain: that of its tail row, or the advisory one.  A chain
\* all whose writers take the same one has one writer at a time.
ByRow(c) == \A w \in Writers : c \in ChainsOf(w) => Role[w] \notin {"event", "note"}
ByAdvisory(c) == \A w \in Writers : c \in ChainsOf(w) => Role[w] \in {"event", "note"}
OneKind(c) == ByRow(c) \/ ByAdvisory(c)

\* Who may have open records there.
Holds(w, c) == IF ByRow(c) THEN rowLock[c] = w
               ELSE c \in ChainsOf(w) /\ advisory = w /\ pc[w] \in {"inserted", "written"}

\* One transaction at a time has open records, those after all that is committed; each
\* record follows the last one before it.
InARow(c) ==
  /\ \A n \in Live(c) : IsMax(log[c][n].prev, {m \in Live(c) : m < n} \cup {0})
  /\ \A w \in Writers : \A n \in OpenOf(w, c) : Holds(w, c) /\ \A m \in Committed(c) : m < n
  /\ IsMax(tail[c], Ground(c))

\* Who holds the lock knows the last record, its own included.
KnowsRow(w, c) ==
  /\ (rowLock[c] = w /\ ~settled[w] => IsMax(next[w][c], Live(c) \cup {0}))
  /\ (Role[w] # "audit" /\ c \in ChainsOf(w) /\ pc[w] = "read" => base[w][c] = next[w][c])

KnowsLast(w, c) ==
  c \in ChainsOf(w) =>
    /\ (pc[w] = "read" => IsMax(base[w][c], Live(c) \cup {0}))
    /\ (pc[w] \in {"inserted", "written"} => IsMax(next[w][c], Live(c) \cup {0}))

Knows(w, c) == IF ByRow(c) THEN KnowsRow(w, c) ELSE KnowsLast(w, c)

OneAtATime == \A c \in Chains : OneKind(c) => InARow(c) /\ \A w \in Writers : Knows(w, c)

ChainInv == TypeOK /\ Locks /\ Turns /\ Standing /\ OneAtATime

LEMMA KindsStay ==
  ASSUME NEW c \in Chains
  PROVE  ByRow(c)' = ByRow(c) /\ ByAdvisory(c)' = ByAdvisory(c) /\ OneKind(c)' = OneKind(c)
  BY DEF ByRow, ByAdvisory, OneKind, ChainsOf

\* A step that changes no record and no tail leaves the sets of records alone.
LEMMA SameRecords ==
  ASSUME log' = log, tail' = tail, NEW c \in Chains
  PROVE  /\ Committed(c)' = Committed(c) /\ Live(c)' = Live(c) /\ Ground(c)' = Ground(c)
         /\ \A w \in Writers : OpenOf(w, c)' = OpenOf(w, c)
         /\ (Rooted(c) => Rooted(c)')
  BY DEF Committed, Live, Ground, OpenOf, Rooted

LEMMA ChainInit == ASSUME ChainAssumption, Init PROVE ChainInv
  <1>1. TypeOK
    BY TypeInit
  <1>2. /\ \A w \in Writers, c \in Chains : rowLock[c] # w
        /\ \A w \in Writers : pc[w] = "idle" /\ ~settled[w] /\ advisory # w
        /\ \A w \in Writers, p \in Processes, c \in Chains : turn[p][c] # w
    BY DEF Init, ChainAssumption
  <1>3. Locks /\ Turns
    <2>1. "effect" \in Chains /\ "gate6" \in Chains
      BY DEF Chains
    <2>2. ASSUME NEW w \in Writers PROVE Locking(w)
      <3>1. /\ pc[w] = "idle" /\ ~settled[w] /\ advisory # w
            /\ \A c \in Chains : rowLock[c] # w
        BY <1>2
      <3>2. ChainsOf(w) \subseteq Chains
        BY ChainsOfAWriter
      <3> QED BY <2>1, <3>1, <3>2 DEF Locking
    <2> QED BY <1>2, <2>2 DEF Locks, Turns, Turning
  <1>4. \A c \in Chains : /\ log[c] = << >> /\ tail[c] = 0
                          /\ Committed(c) = {} /\ Live(c) = {} /\ Ground(c) = {0}
                          /\ \A w \in Writers : OpenOf(w, c) = {}
    BY DEF Init, Empty, Committed, Live, Ground, OpenOf
  <1>5. Standing
    BY <1>2, <1>4 DEF Standing, Rooted, Grounded
  <1>6. OneAtATime
    BY <1>2, <1>4 DEF OneAtATime, InARow, Knows, KnowsRow, KnowsLast, IsMax
  <1> QED BY <1>1, <1>3, <1>5, <1>6 DEF ChainInv

------------------------------------------------------------------------------
(* Transactions that fail.                                                    *)

\* Rolling back some writers' transactions keeps the invariant.
LEMMA RollbackKeeps ==
  ASSUME ChainAssumption, ChainInv, NEW who \in SUBSET Writers, Rollback(who),
         \A w \in who : pc'[w] \in {"idle", "queued"},
         \A w \in Writers \ who : pc'[w] = pc[w],
         settled' = settled, part' = part
  PROVE  Locks' /\ Turns' /\ Standing' /\ OneAtATime'
  <1>1. /\ TypeOK /\ Locks /\ Turns /\ Standing /\ OneAtATime /\ Nobody \notin Writers
        /\ log' = Finished(log, who, "aborted") /\ tail' = tail
        /\ \A c \in Chains : rowLock'[c] = IF rowLock[c] \in who THEN Nobody ELSE rowLock[c]
        /\ advisory' = IF advisory \in who THEN Nobody ELSE advisory
        /\ \A p \in Processes, c \in Chains :
             turn'[p][c] = IF turn[p][c] \in who THEN Nobody ELSE turn[p][c]
        /\ \A w \in Writers \ who : base'[w] = base[w] /\ next'[w] = next[w]
    <2>1. Release(who)
      BY DEF Rollback
    <2> QED BY <2>1, ReleasedLocks DEF Rollback, ChainInv, ChainAssumption
  <1>2. /\ \A w \in Writers, c \in Chains : rowLock'[c] = w <=> rowLock[c] = w /\ w \notin who
        /\ \A w \in Writers : advisory' = w <=> advisory = w /\ w \notin who
    BY <1>1
  <1>3. \A c \in Chains :
          /\ DOMAIN log'[c] = DOMAIN log[c] /\ Committed(c)' = Committed(c)
          /\ Ground(c)' = Ground(c) /\ Live(c)' \subseteq Live(c)
          /\ \A n \in DOMAIN log[c] : log'[c][n].prev = log[c][n].prev
          /\ \A w \in who : OpenOf(w, c)' = {}
          /\ \A w \in Writers \ who : OpenOf(w, c)' = OpenOf(w, c)
    BY <1>1, FinishedRecords DEF Ground
  <1>4. Locks'
    <2>1. ASSUME NEW w \in who PROVE Locking(w)'
      <3>1. Locking(w)
        BY <1>1 DEF Locks
      <3>2. pc'[w] \in {"idle", "queued"} /\ settled'[w] = settled[w] /\ part'[w] = part[w]
        OBVIOUS
      <3>3. advisory' # w /\ \A c \in Chains : rowLock'[c] # w
        BY <1>2
      <3>4. ChainsOf(w)' = ChainsOf(w) /\ ChainsOf(w) \subseteq Chains
        BY ChainsOfAWriter DEF ChainsOf
      <3> QED BY <3>1, <3>2, <3>3, <3>4 DEF Locking, Chains
    <2>2. ASSUME NEW w \in Writers \ who PROVE Locking(w)'
      <3>1. Locking(w)
        BY <1>1 DEF Locks
      <3>2. /\ pc'[w] = pc[w] /\ settled'[w] = settled[w] /\ part'[w] = part[w]
            /\ ChainsOf(w)' = ChainsOf(w)
        BY DEF ChainsOf
      <3>3. (advisory' = w <=> advisory = w) /\ \A c \in Chains : rowLock'[c] = w <=> rowLock[c] = w
        BY <1>2
      <3>4. ChainsOf(w) \subseteq Chains
        BY ChainsOfAWriter
      <3> QED BY <3>1, <3>2, <3>3, <3>4 DEF Locking, Chains
    <2> QED BY <2>1, <2>2 DEF Locks
  <1>9. Turns'
    <2>1. ASSUME NEW w \in Writers PROVE Turning(w)'
      <3>1. Turning(w) /\ TurnsOf(w)' = TurnsOf(w)
        BY <1>1 DEF Turns, TurnsOf, ChainsOf
      <3>2. \A p \in Processes, c \in Chains : turn'[p][c] = w <=> turn[p][c] = w /\ w \notin who
        BY <1>1
      <3>3. w \notin who => pc'[w] = pc[w]
        OBVIOUS
      <3> QED BY <3>1, <3>2, <3>3 DEF Turning, Chains
    <2> QED BY <2>1 DEF Turns
  <1>5. ASSUME NEW c \in Chains PROVE Rooted(c)'
    <2>1. Rooted(c) /\ Committed(c) \subseteq DOMAIN log[c]
      BY <1>1 DEF Standing, Committed
    <2>2. \A w \in Writers : OpenOf(w, c)' \subseteq OpenOf(w, c) /\ OpenOf(w, c) \subseteq DOMAIN log[c]
      BY <1>3 DEF OpenOf
    <2>3. tail'[c] \in Ground(c)'
      BY <1>1, <1>3, <2>1 DEF Rooted
    <2>4. \A n \in Committed(c)' : log'[c][n].prev \in Ground(c)' /\ log'[c][n].prev \in 0..(n - 1)
      BY <1>3, <2>1 DEF Rooted
    <2>5. ASSUME NEW w \in Writers, NEW n \in OpenOf(w, c)'
          PROVE  log'[c][n].prev \in Ground(c)' \cup OpenOf(w, c)' /\ log'[c][n].prev \in 0..(n - 1)
      <3>1. w \notin who
        BY <1>3, <2>5
      <3>2. n \in OpenOf(w, c) /\ OpenOf(w, c)' = OpenOf(w, c)
        BY <1>3, <2>5, <3>1
      <3> QED BY <1>3, <2>1, <2>2, <3>2 DEF Rooted
    <2> QED BY <2>3, <2>4, <2>5 DEF Rooted
  <1>6. ASSUME NEW c \in Chains, NEW w \in Writers PROVE Grounded(w, c)'
    <2>1. CASE w \in who
      BY <1>2, <2>1 DEF Grounded
    <2>2. CASE w \notin who
      <3>1. Grounded(w, c)
        BY <1>1 DEF Standing
      <3>2. /\ pc'[w] = pc[w] /\ settled'[w] = settled[w] /\ ChainsOf(w)' = ChainsOf(w)
            /\ base'[w] = base[w] /\ next'[w] = next[w]
        BY <1>1, <2>2 DEF ChainsOf
      <3>3. Ground(c)' = Ground(c) /\ OpenOf(w, c)' = OpenOf(w, c)
        BY <1>3, <2>2
      <3>4. rowLock'[c] = w <=> rowLock[c] = w
        BY <1>2, <2>2
      <3> QED BY <3>1, <3>2, <3>3, <3>4 DEF Grounded
    <2> QED BY <2>1, <2>2
  <1>7. ASSUME NEW g \in Chains, OneKind(g)
        PROVE  InARow(g)' /\ \A w \in Writers : Knows(w, g)'
    <2>1. /\ InARow(g) /\ \A w \in Writers : Knows(w, g)
          /\ ByRow(g)' = ByRow(g) /\ (~ByRow(g) => ByAdvisory(g))
      BY <1>1, <1>7, KindsStay DEF OneAtATime, OneKind
    <2>2. \A w \in Writers : Holds(w, g)' <=> Holds(w, g) /\ w \notin who
      <3>1. \A w \in who : ~(pc'[w] \in {"inserted", "written"})
        OBVIOUS
      <3>2. \A w \in Writers : ChainsOf(w)' = ChainsOf(w)
        BY DEF ChainsOf
      <3> QED BY <1>2, <2>1, <3>1, <3>2 DEF Holds
    <2>3. CASE \E v \in who : Holds(v, g)
      <3>1. PICK v \in who : Holds(v, g)
        BY <2>3
      <3>2. \A w \in Writers : w # v => ~Holds(w, g)
        BY <3>1 DEF Holds
      <3>3. \A w \in Writers : OpenOf(w, g)' = {}
        BY <1>3, <2>1, <3>1, <3>2 DEF InARow
      <3>4. Live(g)' = Committed(g)'
        <4>1. log'[g] \in Seq(Record)
          BY <1>1, FinishedRecords
        <4>2. \A n \in DOMAIN log'[g] : log'[g][n] \in Record
          BY <4>1
        <4>3. \A n \in DOMAIN log'[g] : /\ log'[g][n].by \in Writers
                                        /\ log'[g][n].state \in {"open", "committed", "aborted"}
          BY <4>2 DEF Record
        <4> QED BY <3>3, <4>3 DEF Live, Committed, OpenOf
      <3>5. ASSUME NEW n \in Live(g)'
            PROVE  IsMax(log'[g][n].prev, {m \in Live(g)' : m < n} \cup {0})
        <4>1. n \in Committed(g) /\ n \in Live(g) /\ n \in DOMAIN log[g] /\ n \in Nat
          BY <1>1, <1>3, <3>4, <3>5, LiveRecords
        <4>2. IsMax(log[g][n].prev, {m \in Live(g) : m < n} \cup {0})
          BY <2>1, <4>1 DEF InARow
        <4>3. \A m \in Live(g) : m \in Committed(g) \/ \E w \in Writers : m \in OpenOf(w, g)
          BY <1>1, LiveRecords
        <4>4. \A m \in Live(g) : m \in Nat
          BY <1>1, LiveRecords
        <4>5. \A w \in Writers : \A m \in OpenOf(w, g) : n < m
          BY <2>1, <4>1 DEF InARow
        <4>6. \A m \in Live(g) : m < n => m \in Committed(g)
          <5>1. \A m \in Live(g) : n < m => ~(m < n)
            BY <4>1, <4>4
          <5> QED BY <4>3, <4>5, <5>1
        <4>7. \A m \in Committed(g) : m \in Live(g)
          BY <1>1, LiveRecords
        <4>8. {m \in Live(g)' : m < n} = {m \in Live(g) : m < n}
          BY <1>3, <3>4, <4>6, <4>7
        <4> QED BY <1>3, <4>1, <4>2, <4>8
      <3>6. InARow(g)'
        <4>1. IsMax(tail'[g], Ground(g)')
          BY <1>1, <1>3, <2>1 DEF InARow
        <4> QED BY <3>3, <3>5, <4>1 DEF InARow
      <3>7. ASSUME NEW w \in Writers PROVE Knows(w, g)'
        <4>1. Locking(w)' /\ Role[w] \in Roles
          BY <1>4, ChainsOfAWriter DEF Locks
        <4>2. CASE ByRow(g)
          <5>1. rowLock'[g] # w
            BY <1>1, <1>2, <3>1, <4>2 DEF Holds
          <5>2. Role[w] # "audit" /\ g \in ChainsOf(w)' => pc'[w] # "read"
            BY <2>1, <4>1, <4>2, <5>1 DEF Locking, ByRow, Roles
          <5> QED BY <2>1, <4>2, <5>1, <5>2 DEF Knows, KnowsRow
        <4>3. CASE ~ByRow(g)
          <5>1. advisory' # w
            BY <1>1, <3>1, <4>3 DEF Holds
          <5>2. g \in ChainsOf(w)' => Role[w] \in {"event", "note"}
            BY <2>1, <4>3 DEF ByAdvisory, ChainsOf
          <5> QED BY <2>1, <4>1, <4>3, <5>1, <5>2 DEF Knows, KnowsLast, Locking
        <4> QED BY <4>2, <4>3
      <3> QED BY <3>6, <3>7
    <2>4. CASE \A v \in who : ~Holds(v, g)
      <3>1. \A w \in who : OpenOf(w, g) = {}
        BY <2>1, <2>4 DEF InARow
      <3>2. log'[g] = log[g]
        <4>1. \A n \in DOMAIN log[g] : ~(log[g][n].by \in who /\ log[g][n].state = "open")
          BY <3>1 DEF OpenOf
        <4>2. log'[g] = [n \in DOMAIN log[g] |-> log[g][n]]
          BY <1>1, <4>1 DEF Finished
        <4>3. log[g] \in Seq(Record)
          BY <1>1 DEF TypeOK
        <4> QED BY <4>2, <4>3
      <3>3. /\ Live(g)' = Live(g) /\ Committed(g)' = Committed(g) /\ Ground(g)' = Ground(g)
            /\ \A w \in Writers : OpenOf(w, g)' = OpenOf(w, g)
        BY <3>2 DEF Live, Committed, Ground, OpenOf
      <3>4. \A w \in Writers : Holds(w, g)' <=> Holds(w, g)
        BY <2>2, <2>4
      <3>5. InARow(g)'
        BY <1>1, <2>1, <3>2, <3>3, <3>4 DEF InARow
      <3>6. ASSUME NEW w \in Writers PROVE Knows(w, g)'
        <4>1. ChainsOf(w)' = ChainsOf(w) /\ Knows(w, g)
          BY <2>1 DEF ChainsOf
        <4>2. CASE w \in who
          BY <1>2, <4>2 DEF Knows, KnowsRow, KnowsLast
        <4>3. CASE w \notin who
          <5>1. /\ pc'[w] = pc[w] /\ settled'[w] = settled[w]
                /\ base'[w] = base[w] /\ next'[w] = next[w]
            BY <1>1, <4>3
          <5>2. rowLock'[g] = w <=> rowLock[g] = w
            BY <1>2, <4>3
          <5> QED BY <2>1, <3>3, <4>1, <5>1, <5>2 DEF Knows, KnowsRow, KnowsLast
        <4> QED BY <4>2, <4>3
      <3> QED BY <3>5, <3>6
    <2> QED BY <2>3, <2>4
  <1>8. OneAtATime'
    BY <1>7, KindsStay DEF OneAtATime
  <1> QED BY <1>4, <1>5, <1>6, <1>8, <1>9 DEF Standing

------------------------------------------------------------------------------
(* Locks.                                                                     *)

\* What a step that touches only the transaction of w has to show.
LEMMA LocksOfOne ==
  ASSUME Locks, NEW w \in Writers, Locking(w)',
         \A v \in Writers \ {w} : /\ pc'[v] = pc[v] /\ settled'[v] = settled[v]
                                  /\ part'[v] = part[v] /\ (advisory' = v <=> advisory = v),
         \A v \in Writers \ {w}, c \in Chains : rowLock'[c] = v <=> rowLock[c] = v,
         ChainAssumption
  PROVE  Locks'
  <1>1. SUFFICES ASSUME NEW v \in Writers, v # w PROVE Locking(v)'
    BY DEF Locks
  <1>2. Locking(v) /\ ChainsOf(v)' = ChainsOf(v) /\ ChainsOf(v) \subseteq Chains
    BY ChainsOfAWriter DEF Locks, ChainsOf
  <1>3. /\ pc'[v] = pc[v] /\ settled'[v] = settled[v] /\ part'[v] = part[v]
        /\ (advisory' = v <=> advisory = v)
        /\ \A c \in Chains : rowLock'[c] = v <=> rowLock[c] = v
    BY <1>1
  <1> QED BY <1>2, <1>3 DEF Locking, Chains

LEMMA LocksStep ==
  ASSUME ChainAssumption, TypeOK, Locks, NEW w \in Writers,
         \/ Enqueue(w) \/ (\E c \in Chains : TakeTurn(w, c)) \/ BeginTx(w) \/ LockAdvisory(w)
         \/ ReadLast(w) \/ LockTail(w) \/ Insert(w) \/ WriteTail(w) \/ ReadCache(w)
         \/ SwapTails(w) \/ SwapNothing(w) \/ SwapConflict(w) \/ Commit(w)
         \/ (Retry(w) /\ part[w] # "alone")
  PROVE  Locks'
  <1>1. /\ Locking(w) /\ ChainsOf(w)' = ChainsOf(w) /\ ChainsOf(w) \subseteq Chains
        /\ (Role[w] = "audit" => ChainsOf(w) = Chains)
        /\ (Role[w] = "gate6" => ChainsOf(w) = {"gate6"})
        /\ (Role[w] \in {"event", "note", "effects"} => ChainsOf(w) = {"effect"})
        /\ Role[w] \in Roles /\ Nobody \notin Writers
        /\ "gate6" \in Chains /\ "effect" \in Chains
    BY ChainsOfAWriter DEF Locks, ChainsOf, ChainAssumption, Chains
  <1>2. /\ pc \in [Writers -> WriterPhase] /\ settled \in [Writers -> BOOLEAN]
        /\ rowLock \in [Chains -> Writers \cup {Nobody}]
        /\ part \in [Writers -> {"alone", "first", "second"}]
    BY DEF TypeOK
  <1>3. CASE Enqueue(w)
    <2>1. Locking(w)'
      BY <1>1, <1>2, <1>3 DEF Enqueue, Becomes, dbVars, Locking, InTx
    <2>2. /\ \A v \in Writers \ {w} : /\ pc'[v] = pc[v] /\ settled'[v] = settled[v]
                                      /\ part'[v] = part[v] /\ (advisory' = v <=> advisory = v)
          /\ rowLock' = rowLock
      BY <1>2, <1>3 DEF Enqueue, Becomes, dbVars
    <2> QED BY <2>1, <2>2, LocksOfOne
  <1>4. CASE BeginTx(w)
    <2>1. Locking(w)'
      BY <1>1, <1>2, <1>4 DEF BeginTx, Becomes, dbVars, auditVars, Locking, InTx
    <2>2. /\ \A v \in Writers \ {w} : /\ pc'[v] = pc[v] /\ settled'[v] = settled[v]
                                      /\ part'[v] = part[v] /\ (advisory' = v <=> advisory = v)
          /\ rowLock' = rowLock
      BY <1>2, <1>4 DEF BeginTx, Becomes, dbVars, auditVars
    <2> QED BY <2>1, <2>2, LocksOfOne
  <1>5. CASE LockAdvisory(w)
    <2>1. Locking(w)'
      BY <1>1, <1>2, <1>5 DEF LockAdvisory, Becomes, auditVars, Locking, InTx
    <2>2. /\ \A v \in Writers \ {w} : /\ pc'[v] = pc[v] /\ settled'[v] = settled[v]
                                      /\ part'[v] = part[v] /\ (advisory' = v <=> advisory = v)
          /\ rowLock' = rowLock
      BY <1>2, <1>5 DEF LockAdvisory, Becomes, auditVars
    <2> QED BY <2>1, <2>2, LocksOfOne
  <1>6. CASE ReadLast(w)
    <2>1. Locking(w)'
      BY <1>1, <1>2, <1>6 DEF ReadLast, Becomes, dbVars, auditVars, Locking, InTx
    <2>2. /\ \A v \in Writers \ {w} : /\ pc'[v] = pc[v] /\ settled'[v] = settled[v]
                                      /\ part'[v] = part[v] /\ (advisory' = v <=> advisory = v)
          /\ rowLock' = rowLock
      BY <1>2, <1>6 DEF ReadLast, Becomes, dbVars, auditVars
    <2> QED BY <2>1, <2>2, LocksOfOne
  <1>7. CASE ReadCache(w)
    <2>1. Locking(w)'
      BY <1>1, <1>2, <1>7 DEF ReadCache, Becomes, dbVars, auditVars, Locking, InTx
    <2>2. /\ \A v \in Writers \ {w} : /\ pc'[v] = pc[v] /\ settled'[v] = settled[v]
                                      /\ part'[v] = part[v] /\ (advisory' = v <=> advisory = v)
          /\ rowLock' = rowLock
      BY <1>2, <1>7 DEF ReadCache, Becomes, dbVars, auditVars
    <2> QED BY <2>1, <2>2, LocksOfOne
  <1>8. CASE \E c \in Chains : TakeTurn(w, c)
    BY <1>8 DEF TakeTurn, dbVars, auditVars, Locks, Locking, ChainsOf
  <1>9. CASE LockTail(w)
    <2>1. PICK c \in ChainsOf(w) : CanLock(w, c) /\ rowLock' = [rowLock EXCEPT ![c] = w]
      BY <1>9 DEF LockTail
    <2>2. /\ pc' = [pc EXCEPT ![w] = "read"] /\ settled' = settled /\ pc[w] = "open"
          /\ Role[w] \in {"effects", "gate6"} /\ part' = part /\ advisory' = advisory
      BY <1>9 DEF LockTail, Becomes, auditVars
    <2>3. Locking(w)'
      BY <1>1, <1>2, <2>1, <2>2 DEF Locking, InTx
    <2>4. \A v \in Writers \ {w}, d \in Chains : rowLock'[d] = v <=> rowLock[d] = v
      BY <1>1, <1>2, <2>1 DEF CanLock
    <2>5. \A v \in Writers \ {w} : /\ pc'[v] = pc[v] /\ settled'[v] = settled[v]
                                   /\ part'[v] = part[v] /\ (advisory' = v <=> advisory = v)
      BY <1>2, <2>2
    <2> QED BY <2>3, <2>4, <2>5, LocksOfOne
  <1>10. CASE Insert(w)
    <2>1. Locking(w)'
      BY <1>1, <1>2, <1>10 DEF Insert, Becomes, auditVars, Locking, InTx
    <2>2. /\ \A v \in Writers \ {w} : /\ pc'[v] = pc[v] /\ settled'[v] = settled[v]
                                      /\ part'[v] = part[v] /\ (advisory' = v <=> advisory = v)
          /\ rowLock' = rowLock
      BY <1>2, <1>10 DEF Insert, Becomes, auditVars
    <2> QED BY <2>1, <2>2, LocksOfOne
  <1>11. CASE WriteTail(w)
    <2>1. /\ rowLock' = [c \in Chains |-> IF c \in ChainsOf(w) THEN w ELSE rowLock[c]]
          /\ \A c \in ChainsOf(w) : rowLock[c] \in {Nobody, w}
          /\ pc' = [pc EXCEPT ![w] = "written"] /\ settled' = settled /\ pc[w] = "inserted"
          /\ part' = part /\ advisory' = advisory
      BY <1>11 DEF WriteTail, Becomes, auditVars, CanLock
    <2>2. Role[w] # "audit"
      BY <1>1, <2>1 DEF Locking
    <2>3. Locking(w)'
      BY <1>1, <1>2, <2>1, <2>2 DEF Locking, InTx
    <2>4. \A v \in Writers \ {w}, d \in Chains : rowLock'[d] = v <=> rowLock[d] = v
      BY <1>1, <1>2, <2>1
    <2>5. \A v \in Writers \ {w} : /\ pc'[v] = pc[v] /\ settled'[v] = settled[v]
                                   /\ part'[v] = part[v] /\ (advisory' = v <=> advisory = v)
      BY <1>2, <2>1
    <2> QED BY <2>3, <2>4, <2>5, LocksOfOne
  <1>12. CASE SwapTails(w)
    <2>1. /\ rowLock' = [c \in Chains |-> w] /\ Role[w] = "audit" /\ pc[w] = "read"
          /\ \A c \in Chains : rowLock[c] \in {Nobody, w}
      BY <1>12 DEF SwapTails, LockTails, CanLock
    <2>2. Locking(w)'
      BY <1>1, <1>2, <1>12, <2>1 DEF SwapTails, Becomes, auditVars, Locking, InTx
    <2>3. \A v \in Writers \ {w} : /\ pc'[v] = pc[v] /\ settled'[v] = settled[v]
                                   /\ part'[v] = part[v] /\ (advisory' = v <=> advisory = v)
      BY <1>2, <1>12 DEF SwapTails, Becomes, auditVars
    <2>4. \A v \in Writers \ {w}, d \in Chains : rowLock'[d] = v <=> rowLock[d] = v
      BY <1>1, <1>2, <2>1
    <2> QED BY <2>2, <2>3, <2>4, LocksOfOne
  <1>13. CASE SwapNothing(w)
    <2>1. /\ rowLock' = [c \in Chains |-> w] /\ Role[w] = "audit" /\ pc[w] = "read"
          /\ \A c \in Chains : rowLock[c] \in {Nobody, w}
      BY <1>13 DEF SwapNothing, LockTails, CanLock
    <2>2. Locking(w)'
      BY <1>1, <1>2, <1>13, <2>1 DEF SwapNothing, Becomes, auditVars, Locking, InTx
    <2>3. \A v \in Writers \ {w} : /\ pc'[v] = pc[v] /\ settled'[v] = settled[v]
                                   /\ part'[v] = part[v] /\ (advisory' = v <=> advisory = v)
      BY <1>2, <1>13 DEF SwapNothing, Becomes, auditVars
    <2>4. \A v \in Writers \ {w}, d \in Chains : rowLock'[d] = v <=> rowLock[d] = v
      BY <1>1, <1>2, <2>1
    <2> QED BY <2>2, <2>3, <2>4, LocksOfOne
  <1>14. CASE SwapConflict(w)
    <2>1. /\ rowLock' = [c \in Chains |-> w] /\ Role[w] = "audit" /\ pc[w] = "read"
          /\ \A c \in Chains : rowLock[c] \in {Nobody, w}
      BY <1>14 DEF SwapConflict, LockTails, CanLock
    <2>2. Locking(w)'
      BY <1>1, <1>2, <1>14, <2>1 DEF SwapConflict, Becomes, auditVars, Locking, InTx
    <2>3. \A v \in Writers \ {w} : /\ pc'[v] = pc[v] /\ settled'[v] = settled[v]
                                   /\ part'[v] = part[v] /\ (advisory' = v <=> advisory = v)
      BY <1>2, <1>14 DEF SwapConflict, Becomes, auditVars
    <2>4. \A v \in Writers \ {w}, d \in Chains : rowLock'[d] = v <=> rowLock[d] = v
      BY <1>1, <1>2, <2>1
    <2> QED BY <2>2, <2>3, <2>4, LocksOfOne
  <1>15. CASE Commit(w)
    <2>1. /\ Release({w}) /\ pc' = [pc EXCEPT ![w] = "idle"] /\ settled' = settled
          /\ part' = part
      BY <1>15 DEF Commit, Becomes, auditVars
    <2>2. /\ \A c \in Chains : rowLock'[c] = IF rowLock[c] = w THEN Nobody ELSE rowLock[c]
          /\ advisory' = IF advisory = w THEN Nobody ELSE advisory
      BY <2>1, ReleasedLocks
    <2>3. Locking(w)'
      BY <1>1, <1>2, <2>1, <2>2 DEF Locking, InTx
    <2>4. \A v \in Writers \ {w}, d \in Chains : rowLock'[d] = v <=> rowLock[d] = v
      BY <1>1, <2>2
    <2>5. \A v \in Writers \ {w} : /\ pc'[v] = pc[v] /\ settled'[v] = settled[v]
                                   /\ part'[v] = part[v] /\ (advisory' = v <=> advisory = v)
      BY <1>1, <1>2, <2>1, <2>2
    <2> QED BY <2>3, <2>4, <2>5, LocksOfOne
  <1>16. CASE Retry(w) /\ part[w] # "alone"
    <2>1. /\ pc' = [pc EXCEPT ![w] = "open"] /\ settled' = settled /\ rowLock' = rowLock
          /\ pc[w] = "conflict" /\ part' = part /\ advisory' = advisory
      BY <1>16 DEF Retry, Becomes, dbVars
    <2>2. Locking(w)'
      BY <1>1, <1>2, <2>1 DEF Locking, InTx
    <2>3. \A v \in Writers \ {w} : /\ pc'[v] = pc[v] /\ settled'[v] = settled[v]
                                   /\ part'[v] = part[v] /\ (advisory' = v <=> advisory = v)
      BY <1>2, <2>1
    <2> QED BY <2>1, <2>2, <2>3, LocksOfOne
  <1> QED BY <1>3, <1>4, <1>5, <1>6, <1>7, <1>8, <1>9, <1>10, <1>11, <1>12, <1>13, <1>14, <1>15, <1>16

------------------------------------------------------------------------------
(* What records hang on.                                                      *)

LEMMA GroundIsBelow ==
  ASSUME TypeOK, NEW c \in Chains
  PROVE  /\ \A x \in Ground(c) : x \in 0..Len(log[c])
         /\ \A v \in Writers : \A x \in OpenOf(v, c) : x \in 0..Len(log[c])
         /\ Len(log[c]) \in Nat
  <1>1. log[c] \in Seq(Record)
    BY DEF TypeOK
  <1>2. DOMAIN log[c] = 1..Len(log[c]) /\ Len(log[c]) \in Nat
    BY <1>1
  <1> QED BY <1>2 DEF Ground, Committed, OpenOf

\* What a step that touches only the transaction of w has to show.
LEMMA StandingOfOne ==
  ASSUME Standing, NEW w \in Writers,
         \A v \in Writers \ {w} : /\ pc'[v] = pc[v] /\ settled'[v] = settled[v]
                                  /\ base'[v] = base[v] /\ next'[v] = next[v],
         \A v \in Writers \ {w}, c \in Chains : rowLock'[c] = v <=> rowLock[c] = v,
         \A c \in Chains : /\ Committed(c) \subseteq Committed(c)'
                           /\ \A v \in Writers \ {w} : OpenOf(v, c)' = OpenOf(v, c)
                           /\ Rooted(c)' /\ Grounded(w, c)'
  PROVE  Standing'
  <1>1. ASSUME NEW c \in Chains, NEW v \in Writers, v # w PROVE Grounded(v, c)'
    <2>1. Grounded(v, c) /\ ChainsOf(v)' = ChainsOf(v)
      BY DEF Standing, ChainsOf
    <2>2. /\ pc'[v] = pc[v] /\ settled'[v] = settled[v]
          /\ base'[v] = base[v] /\ next'[v] = next[v] /\ (rowLock'[c] = v <=> rowLock[c] = v)
          /\ Ground(c) \subseteq Ground(c)' /\ OpenOf(v, c)' = OpenOf(v, c)
      BY <1>1 DEF Ground
    <2> QED BY <2>1, <2>2 DEF Grounded
  <1>2. ASSUME NEW c \in Chains, NEW v \in Writers, v = w PROVE Grounded(v, c)'
    <2>1. Grounded(w, c)'
      OBVIOUS
    <2> QED BY <1>2, <2>1 DEF Grounded, ChainsOf, Ground, OpenOf, Committed
  <1>3. \A c \in Chains : Rooted(c)'
    OBVIOUS
  <1> QED BY <1>1, <1>2, <1>3 DEF Standing

LEMMA RootedAppend ==
  ASSUME TypeOK, NEW c \in Chains, NEW w \in Writers, NEW p \in Ground(c) \cup OpenOf(w, c),
         Rooted(c), tail' = tail,
         log'[c] = Append(log[c], [prev |-> p, by |-> w, state |-> "open"])
  PROVE  /\ Rooted(c)' /\ Committed(c)' = Committed(c)
         /\ Len(log[c]) + 1 \in OpenOf(w, c)'
         /\ \A v \in Writers \ {w} : OpenOf(v, c)' = OpenOf(v, c)
  <1> DEFINE k == Len(log[c])
  <1>1. p \in 0..k /\ k \in Nat /\ p \in Hashes
    BY GroundIsBelow DEF Hashes
  <1>2. /\ Committed(c)' = Committed(c) /\ Ground(c)' = Ground(c)
        /\ OpenOf(w, c)' = OpenOf(w, c) \cup {k + 1}
        /\ \A v \in Writers \ {w} : OpenOf(v, c)' = OpenOf(v, c)
        /\ \A n \in DOMAIN log[c] : log'[c][n] = log[c][n]
        /\ log'[c][k + 1].prev = p
    <2>1. log'[c][k + 1] = [prev |-> p, by |-> w, state |-> "open"]
      BY <1>1, Appended
    <2>2. log'[c][k + 1].prev = p
      BY <2>1
    <2>3. /\ Committed(c)' = Committed(c)
          /\ OpenOf(w, c)' = OpenOf(w, c) \cup {k + 1}
          /\ \A v \in Writers \ {w} : OpenOf(v, c)' = OpenOf(v, c)
          /\ \A n \in DOMAIN log[c] : log'[c][n] = log[c][n]
      BY <1>1, Appended
    <2> QED BY <2>2, <2>3 DEF Ground
  <1>3. Committed(c) \subseteq DOMAIN log[c] /\ \A v \in Writers : OpenOf(v, c) \subseteq DOMAIN log[c]
    BY DEF Committed, OpenOf
  <1> HIDE DEF k
  <1>4. \A n \in Committed(c)' : log'[c][n].prev \in Ground(c)' /\ log'[c][n].prev \in 0..(n - 1)
    BY <1>2, <1>3 DEF Rooted
  <1>5. ASSUME NEW v \in Writers, NEW n \in OpenOf(v, c)'
        PROVE  log'[c][n].prev \in Ground(c)' \cup OpenOf(v, c)' /\ log'[c][n].prev \in 0..(n - 1)
    <2>1. CASE n \in OpenOf(v, c)
      BY <1>2, <1>3, <2>1 DEF Rooted
    <2>2. CASE n \notin OpenOf(v, c)
      <3>1. v = w /\ n = k + 1
        BY <1>2, <1>5, <2>2
      <3>2. p \in 0..(n - 1)
        BY <1>1, <3>1
      <3> QED BY <1>2, <3>1, <3>2
    <2> QED BY <2>1, <2>2
  <1>6. tail'[c] \in Ground(c)'
    BY <1>2 DEF Rooted
  <1> QED BY <1>2, <1>4, <1>5, <1>6 DEF Rooted, k

\* Any step of w that neither writes a record nor ends its transaction.
LEMMA StandingQuiet ==
  ASSUME Standing, NEW w \in Writers, log' = log, tail' = tail,
         \A v \in Writers \ {w} : /\ pc'[v] = pc[v] /\ settled'[v] = settled[v]
                                  /\ base'[v] = base[v] /\ next'[v] = next[v],
         \A v \in Writers \ {w}, c \in Chains : rowLock'[c] = v <=> rowLock[c] = v,
         \A c \in Chains : Grounded(w, c)'
  PROVE  Standing'
  <1>1. \A c \in Chains : /\ Committed(c)' = Committed(c) /\ Rooted(c)'
                          /\ \A v \in Writers : OpenOf(v, c)' = OpenOf(v, c)
    BY SameRecords DEF Standing
  <1> QED BY <1>1, StandingOfOne

\* A step that touches nothing of what Standing speaks of.
LEMMA StandingSame ==
  ASSUME Standing, UNCHANGED <<log, tail, pc, settled, base, next, rowLock>>
  PROVE  Standing'
  <1>1. ASSUME NEW c \in Chains, NEW w \in Writers PROVE Grounded(w, c)'
    <2>1. Ground(c)' = Ground(c) /\ OpenOf(w, c)' = OpenOf(w, c)
      BY SameRecords
    <2> QED BY <2>1 DEF Standing, Grounded, ChainsOf
  <1>2. ASSUME NEW c \in Chains PROVE Rooted(c)'
    BY SameRecords DEF Standing
  <1> QED BY <1>1, <1>2 DEF Standing

LEMMA StandingStep ==
  ASSUME ChainAssumption, TypeOK, Locks, Standing, NEW w \in Writers,
         \/ Enqueue(w) \/ (\E c \in Chains : TakeTurn(w, c)) \/ BeginTx(w) \/ LockAdvisory(w)
         \/ ReadLast(w) \/ LockTail(w) \/ Insert(w) \/ WriteTail(w) \/ ReadCache(w)
         \/ SwapTails(w) \/ SwapNothing(w) \/ SwapConflict(w) \/ Commit(w)
         \/ (Retry(w) /\ part[w] # "alone")
  PROVE  Standing'
  <1>1. /\ Locking(w) /\ ChainsOf(w)' = ChainsOf(w) /\ ChainsOf(w) \subseteq Chains
        /\ (Role[w] = "audit" => ChainsOf(w) = Chains)
        /\ (Role[w] = "gate6" => ChainsOf(w) = {"gate6"})
        /\ (Role[w] \in {"event", "note", "effects"} => ChainsOf(w) = {"effect"})
        /\ Role[w] \in Roles /\ Nobody \notin Writers
    BY ChainsOfAWriter DEF Locks, ChainsOf, ChainAssumption
  <1>2. /\ pc \in [Writers -> WriterPhase] /\ settled \in [Writers -> BOOLEAN]
        /\ rowLock \in [Chains -> Writers \cup {Nobody}]
        /\ base \in [Writers -> [Chains -> Hashes]] /\ next \in [Writers -> [Chains -> Hashes]]
        /\ base[w] \in [Chains -> Hashes] /\ next[w] \in [Chains -> Hashes]
    BY DEF TypeOK
  <1>3. \A c \in Chains : /\ Grounded(w, c) /\ Rooted(c) /\ tail[c] \in Ground(c)
                          /\ (rowLock[c] = w => pc[w] \in InTx /\ c \in ChainsOf(w))
    BY <1>1 DEF Standing, Rooted, Locking
  <1>4. \A c \in Chains : log' = log => Ground(c)' = Ground(c) /\ OpenOf(w, c)' = OpenOf(w, c)
    BY DEF Ground, Committed, OpenOf
  <1>5. CASE Enqueue(w)
    <2>1. \A c \in Chains : Grounded(w, c)'
      BY <1>1, <1>2, <1>3, <1>4, <1>5 DEF Enqueue, Becomes, dbVars, Grounded, InTx
    <2>2. /\ \A v \in Writers \ {w} : pc'[v] = pc[v] /\ settled'[v] = settled[v]
          /\ rowLock' = rowLock /\ log' = log /\ tail' = tail /\ base' = base /\ next' = next
      BY <1>2, <1>5 DEF Enqueue, Becomes, dbVars
    <2> QED BY <2>1, <2>2, StandingQuiet
  <1>6. CASE BeginTx(w)
    <2>1. \A c \in Chains : Grounded(w, c)'
      BY <1>1, <1>2, <1>3, <1>4, <1>6 DEF BeginTx, Becomes, dbVars, auditVars, Grounded, InTx
    <2>2. /\ \A v \in Writers \ {w} : pc'[v] = pc[v] /\ settled'[v] = settled[v]
          /\ rowLock' = rowLock /\ log' = log /\ tail' = tail /\ base' = base /\ next' = next
      BY <1>2, <1>6 DEF BeginTx, Becomes, dbVars, auditVars
    <2> QED BY <2>1, <2>2, StandingQuiet
  <1>7. CASE LockAdvisory(w)
    <2>1. \A c \in Chains : Grounded(w, c)'
      BY <1>1, <1>2, <1>3, <1>4, <1>7 DEF LockAdvisory, Becomes, auditVars, Grounded, InTx
    <2>2. /\ \A v \in Writers \ {w} : pc'[v] = pc[v] /\ settled'[v] = settled[v]
          /\ rowLock' = rowLock /\ log' = log /\ tail' = tail /\ base' = base /\ next' = next
      BY <1>2, <1>7 DEF LockAdvisory, Becomes, auditVars
    <2> QED BY <2>1, <2>2, StandingQuiet
  <1>8. CASE \E c \in Chains : TakeTurn(w, c)
    <2>1. UNCHANGED <<log, tail, pc, settled, base, next, rowLock>>
      BY <1>8 DEF TakeTurn, dbVars, auditVars
    <2> QED BY <2>1, StandingSame
  <1>9. CASE ReadLast(w)
    <2>1. /\ pc' = [pc EXCEPT ![w] = "read"] /\ pc[w] = "advised" /\ settled' = settled
          /\ base' = [base EXCEPT ![w]["effect"] = LastCommitted("effect")]
          /\ rowLock' = rowLock /\ log' = log /\ tail' = tail /\ next' = next
      BY <1>9 DEF ReadLast, Becomes, dbVars, auditVars
    <2>2. LastCommitted("effect") \in Ground("effect") /\ "effect" \in Chains
      BY LastCommittedIsLast DEF IsMax, Ground, Chains
    <2>3. ChainsOf(w) = {"effect"}
      BY <1>1, <2>1 DEF Locking
    <2>4. base'[w]["effect"] = LastCommitted("effect")
      BY <1>2, <2>1, <2>2
    <2>5. \A c \in Chains : Grounded(w, c)'
      BY <1>1, <1>2, <1>3, <1>4, <2>1, <2>2, <2>3, <2>4 DEF Grounded
    <2>6. \A v \in Writers \ {w} : pc'[v] = pc[v] /\ base'[v] = base[v]
      BY <1>2, <2>1
    <2> QED BY <2>1, <2>5, <2>6, StandingQuiet
  <1>10. CASE LockTail(w)
    <2>1. PICK d \in ChainsOf(w) : /\ CanLock(w, d) /\ rowLock' = [rowLock EXCEPT ![d] = w]
                                   /\ base' = [base EXCEPT ![w][d] = tail[d]]
                                   /\ next' = [next EXCEPT ![w][d] = tail[d]]
      BY <1>10 DEF LockTail
    <2>2. /\ pc' = [pc EXCEPT ![w] = "read"] /\ settled' = settled /\ log' = log /\ tail' = tail
          /\ ChainsOf(w) = {d} /\ d \in Chains /\ pc[w] = "open"
      BY <1>1, <1>10, <2>1 DEF LockTail, Becomes, auditVars
    <2>3. /\ base'[w][d] = tail[d] /\ next'[w][d] = tail[d]
          /\ \A c \in Chains \ {d} : rowLock'[c] # w
      BY <1>2, <1>3, <2>1, <2>2
    <2>4. \A c \in Chains : Grounded(w, c)'
      BY <1>1, <1>2, <1>3, <1>4, <2>2, <2>3 DEF Grounded
    <2>5. /\ \A v \in Writers \ {w} : pc'[v] = pc[v] /\ base'[v] = base[v] /\ next'[v] = next[v]
          /\ \A v \in Writers \ {w}, c \in Chains : rowLock'[c] = v <=> rowLock[c] = v
      BY <1>1, <1>2, <2>1, <2>2 DEF CanLock
    <2> QED BY <2>2, <2>4, <2>5, StandingQuiet
  <1>11. CASE WriteTail(w)
    <2>1. /\ rowLock' = [c \in Chains |-> IF c \in ChainsOf(w) THEN w ELSE rowLock[c]]
          /\ \A c \in ChainsOf(w) : rowLock[c] \in {Nobody, w}
          /\ pc' = [pc EXCEPT ![w] = "written"] /\ settled' = settled /\ pc[w] = "inserted"
          /\ log' = log /\ tail' = tail /\ base' = base /\ next' = next
      BY <1>11 DEF WriteTail, Becomes, auditVars, CanLock
    <2>2. \A c \in Chains : Grounded(w, c)'
      BY <1>1, <1>2, <1>3, <1>4, <2>1 DEF Grounded
    <2>3. /\ \A v \in Writers \ {w} : pc'[v] = pc[v]
          /\ \A v \in Writers \ {w}, c \in Chains : rowLock'[c] = v <=> rowLock[c] = v
      BY <1>1, <1>2, <2>1
    <2> QED BY <2>1, <2>2, <2>3, StandingQuiet
  <1>12. CASE ReadCache(w)
    <2>1. /\ pc' = [pc EXCEPT ![w] = "read"] /\ Role[w] = "audit" /\ settled' = settled
          /\ rowLock' = rowLock /\ log' = log /\ tail' = tail /\ next' = next
          /\ \A v \in Writers \ {w} : base'[v] = base[v]
      BY <1>2, <1>12 DEF ReadCache, Becomes, dbVars, auditVars
    <2>2. \A c \in Chains : Grounded(w, c)'
      BY <1>1, <1>2, <1>3, <1>4, <2>1 DEF Grounded
    <2>3. \A v \in Writers \ {w} : pc'[v] = pc[v]
      BY <1>2, <2>1
    <2> QED BY <2>1, <2>2, <2>3, StandingQuiet
  <1>13. CASE SwapNothing(w)
    <2>1. /\ rowLock' = [c \in Chains |-> w] /\ \A c \in Chains : rowLock[c] \in {Nobody, w}
          /\ pc' = [pc EXCEPT ![w] = "conflict"] /\ settled' = [settled EXCEPT ![w] = TRUE]
          /\ next' = [next EXCEPT ![w] = [c \in Chains |-> Ghost]]
          /\ log' = log /\ tail' = tail /\ base' = base
      BY <1>13 DEF SwapNothing, LockTails, CanLock, Becomes
    <2>2. \A c \in Chains : Grounded(w, c)'
      BY <1>2, <2>1 DEF Grounded
    <2>3. /\ \A v \in Writers \ {w} : pc'[v] = pc[v] /\ settled'[v] = settled[v] /\ next'[v] = next[v]
          /\ \A v \in Writers \ {w}, c \in Chains : rowLock'[c] = v <=> rowLock[c] = v
      BY <1>1, <1>2, <2>1
    <2> QED BY <2>1, <2>2, <2>3, StandingQuiet
  <1>14. CASE SwapConflict(w)
    <2>1. /\ rowLock' = [c \in Chains |-> w] /\ \A c \in Chains : rowLock[c] \in {Nobody, w}
          /\ pc' = [pc EXCEPT ![w] = "conflict"] /\ settled' = settled
          /\ next' = [next EXCEPT ![w] = [c \in Chains |-> Visible(w, c)]]
          /\ log' = log /\ tail' = tail /\ base' = base
      BY <1>14 DEF SwapConflict, LockTails, CanLock, Becomes, auditVars
    <2>2. \A c \in Chains : next'[w][c] = Visible(w, c)
      BY <1>2, <2>1
    <2>3. \A c \in Chains : Grounded(w, c)'
      BY <1>1, <1>2, <1>3, <1>4, <2>1, <2>2 DEF Grounded, Visible
    <2>4. /\ \A v \in Writers \ {w} : pc'[v] = pc[v] /\ next'[v] = next[v]
          /\ \A v \in Writers \ {w}, c \in Chains : rowLock'[c] = v <=> rowLock[c] = v
      BY <1>1, <1>2, <2>1
    <2> QED BY <2>1, <2>3, <2>4, StandingQuiet
  <1>15. CASE Retry(w) /\ part[w] # "alone"
    <2>1. /\ pc' = [pc EXCEPT ![w] = "open"] /\ settled' = settled /\ rowLock' = rowLock
          /\ log' = log /\ tail' = tail /\ base' = base /\ next' = next
      BY <1>15 DEF Retry, Becomes, dbVars
    <2>2. \A c \in Chains : Grounded(w, c)'
      BY <1>2, <1>3, <1>4, <2>1 DEF Grounded
    <2>3. \A v \in Writers \ {w} : pc'[v] = pc[v]
      BY <1>2, <2>1
    <2> QED BY <2>1, <2>2, <2>3, StandingQuiet
  <1>16. CASE Insert(w)
    <2>1. /\ log' = Inserted(w, base[w]) /\ tail' = tail /\ rowLock' = rowLock
          /\ settled' = settled /\ base' = base /\ Role[w] # "audit" /\ pc[w] = "read"
          /\ pc' = [pc EXCEPT ![w] = "inserted"]
          /\ \A c \in ChainsOf(w) : next'[w][c] = Len(log[c]) + 1
          /\ \A c \in Chains \ ChainsOf(w) : next'[w][c] = next[w][c]
          /\ \A v \in Writers \ {w} : next'[v] = next[v]
      BY <1>1, <1>2, <1>16 DEF Insert, Becomes, auditVars
    <2>2. ASSUME NEW c \in Chains
          PROVE  /\ Committed(c) \subseteq Committed(c)'
                 /\ \A v \in Writers \ {w} : OpenOf(v, c)' = OpenOf(v, c)
                 /\ Rooted(c)' /\ Grounded(w, c)'
      <3>1. CASE c \in ChainsOf(w)
        <4>1. base[w][c] \in Ground(c)
          BY <1>3, <2>1, <3>1 DEF Grounded
        <4>2. log'[c] = Append(log[c], [prev |-> base[w][c], by |-> w, state |-> "open"])
          BY <1>2, <2>1, <3>1, InsertedRecords
        <4>3. /\ Rooted(c)' /\ Committed(c)' = Committed(c) /\ Len(log[c]) + 1 \in OpenOf(w, c)'
              /\ \A v \in Writers \ {w} : OpenOf(v, c)' = OpenOf(v, c)
          BY <1>3, <2>1, <4>1, <4>2, RootedAppend
        <4>4. Grounded(w, c)'
          BY <1>2, <2>1, <3>1, <4>3 DEF Grounded
        <4> QED BY <4>3, <4>4
      <3>2. CASE c \notin ChainsOf(w)
        <4>1. log'[c] = log[c]
          BY <1>2, <2>1, <3>2, InsertedRecords
        <4>2. /\ Committed(c)' = Committed(c) /\ Ground(c)' = Ground(c)
              /\ \A v \in Writers : OpenOf(v, c)' = OpenOf(v, c)
          BY <4>1 DEF Committed, OpenOf, Ground
        <4>3. Rooted(c)'
          BY <1>3, <2>1, <4>1, <4>2 DEF Rooted
        <4>4. Grounded(w, c)'
          BY <1>1, <1>3, <2>1, <3>2, <4>2 DEF Grounded
        <4> QED BY <4>2, <4>3, <4>4
      <3> QED BY <3>1, <3>2
    <2>3. \A v \in Writers \ {w} : pc'[v] = pc[v]
      BY <1>2, <2>1
    <2> QED BY <2>1, <2>2, <2>3, StandingOfOne
  <1>17. CASE SwapTails(w)
    <2>1. /\ log' = Inserted(w, base[w]) /\ tail' = tail /\ rowLock' = [c \in Chains |-> w]
          /\ \A c \in Chains : rowLock[c] \in {Nobody, w}
          /\ settled' = settled /\ ~settled[w] /\ base' = base /\ Role[w] = "audit"
          /\ (pc' = [pc EXCEPT ![w] = "open"] \/ pc' = [pc EXCEPT ![w] = "written"])
          /\ \A c \in Chains : Visible(w, c) = base[w][c]
          /\ next' = [next EXCEPT ![w] = [c \in Chains |-> Len(log[c]) + 1]]
      BY <1>17 DEF SwapTails, LockTails, TailsMatch, CanLock, Becomes
    <2>2. ASSUME NEW c \in Chains
          PROVE  /\ Committed(c) \subseteq Committed(c)'
                 /\ \A v \in Writers \ {w} : OpenOf(v, c)' = OpenOf(v, c)
                 /\ Rooted(c)' /\ Grounded(w, c)'
      <3>1. base[w][c] \in Ground(c) \cup OpenOf(w, c)
        BY <1>3, <2>1 DEF Visible, Grounded
      <3>2. log'[c] = Append(log[c], [prev |-> base[w][c], by |-> w, state |-> "open"])
        <4>1. c \in ChainsOf(w) \cap Chains
          BY <1>1, <2>1
        <4> QED BY <1>2, <2>1, <4>1, InsertedRecords
      <3>3. /\ Rooted(c)' /\ Committed(c)' = Committed(c) /\ Len(log[c]) + 1 \in OpenOf(w, c)'
            /\ \A v \in Writers \ {w} : OpenOf(v, c)' = OpenOf(v, c)
        BY <1>3, <2>1, <3>1, <3>2, RootedAppend
      <3>4. next'[w][c] = Len(log[c]) + 1
        BY <1>2, <2>1
      <3>5. Grounded(w, c)'
        BY <1>2, <2>1, <3>3, <3>4 DEF Grounded
      <3> QED BY <3>3, <3>5
    <2>3. /\ \A v \in Writers \ {w} : pc'[v] = pc[v] /\ next'[v] = next[v]
          /\ \A v \in Writers \ {w}, c \in Chains : rowLock'[c] = v <=> rowLock[c] = v
      BY <1>1, <1>2, <2>1
    <2> QED BY <2>1, <2>2, <2>3, StandingOfOne
  <1>18. CASE Commit(w)
    <2>1. /\ log' = Finished(log, {w}, "committed") /\ settled' = settled
          /\ tail' = [c \in Chains |-> IF c \in ChainsOf(w) THEN next[w][c] ELSE tail[c]]
          /\ pc' = [pc EXCEPT ![w] = "idle"] /\ pc[w] = "written" /\ Release({w})
      BY <1>18 DEF Commit, Becomes, auditVars
    <2>2. /\ \A c \in Chains : rowLock'[c] = IF rowLock[c] = w THEN Nobody ELSE rowLock[c]
          /\ \A v \in Writers \ {w} : base'[v] = base[v] /\ next'[v] = next[v]
      BY <2>1, ReleasedLocks
    <2>3. ASSUME NEW c \in Chains
          PROVE  /\ Committed(c) \subseteq Committed(c)'
                 /\ \A v \in Writers \ {w} : OpenOf(v, c)' = OpenOf(v, c)
                 /\ Rooted(c)' /\ Grounded(w, c)'
      <3>1. /\ DOMAIN log'[c] = DOMAIN log[c] /\ Committed(c) \subseteq Committed(c)'
            /\ \A n \in DOMAIN log[c] : log'[c][n].prev = log[c][n].prev
            /\ OpenOf(w, c)' = {} /\ OpenOf(w, c) \subseteq Committed(c)'
            /\ \A v \in Writers \ {w} : OpenOf(v, c)' = OpenOf(v, c)
            /\ Committed(c)' \subseteq Committed(c) \cup OpenOf(w, c)
        BY <2>1, CommittedRecords
      <3>2. Ground(c) \cup OpenOf(w, c) \subseteq Ground(c)'
        BY <3>1 DEF Ground
      <3>3. tail'[c] \in Ground(c)'
        BY <1>3, <2>1, <3>2 DEF Grounded
      <3>4. Committed(c) \subseteq DOMAIN log[c] /\ \A v \in Writers : OpenOf(v, c) \subseteq DOMAIN log[c]
        BY DEF Committed, OpenOf
      <3>5. \A n \in Committed(c)' : log'[c][n].prev \in Ground(c)' /\ log'[c][n].prev \in 0..(n - 1)
        BY <1>3, <3>1, <3>2, <3>4 DEF Rooted
      <3>6. \A v \in Writers : \A n \in OpenOf(v, c)' :
              log'[c][n].prev \in Ground(c)' \cup OpenOf(v, c)' /\ log'[c][n].prev \in 0..(n - 1)
        BY <1>3, <3>1, <3>2, <3>4 DEF Rooted
      <3>7. Rooted(c)'
        BY <3>3, <3>5, <3>6 DEF Rooted
      <3>8. rowLock'[c] # w /\ pc'[w] = "idle"
        BY <1>1, <1>2, <2>1, <2>2
      <3>9. Grounded(w, c)'
        BY <3>8 DEF Grounded
      <3> QED BY <3>1, <3>7, <3>9
    <2>4. /\ \A v \in Writers \ {w} : pc'[v] = pc[v]
          /\ \A v \in Writers \ {w}, c \in Chains : rowLock'[c] = v <=> rowLock[c] = v
      BY <1>1, <1>2, <2>1, <2>2
    <2> QED BY <2>1, <2>2, <2>3, <2>4, StandingOfOne
  <1> QED BY <1>5, <1>6, <1>7, <1>8, <1>9, <1>10, <1>11, <1>12, <1>13, <1>14, <1>15, <1>16, <1>17, <1>18

------------------------------------------------------------------------------
(* Chains with one kind of writers: one transaction at a time.                *)

LEMMA KindOfAWriter ==
  ASSUME ChainAssumption, NEW c \in Chains, OneKind(c), NEW w \in Writers
  PROVE  /\ ByRow(c)' = ByRow(c) /\ ChainsOf(w)' = ChainsOf(w)
         /\ (c \in ChainsOf(w) =>
              IF ByRow(c) THEN Role[w] \in {"effects", "gate6", "audit"}
              ELSE Role[w] \in {"event", "note"} /\ c = "effect")
  <1>1. ByRow(c)' = ByRow(c) /\ ChainsOf(w)' = ChainsOf(w)
    BY KindsStay DEF ChainsOf
  <1>2. /\ Role[w] \in Roles
        /\ (Role[w] \in {"event", "note", "effects"} => ChainsOf(w) = {"effect"})
    BY ChainsOfAWriter
  <1> QED BY <1>1, <1>2 DEF OneKind, ByRow, ByAdvisory, Roles

\* When nobody may have open records, all that is live is committed.
LEMMA NobodyHolds ==
  ASSUME TypeOK, NEW c \in Chains, InARow(c), \A v \in Writers : ~Holds(v, c)
  PROVE  Live(c) = Committed(c)
  <1>1. \A v \in Writers : OpenOf(v, c) = {}
    BY DEF InARow
  <1>2. /\ Live(c) = Committed(c) \cup UNION {OpenOf(v, c) : v \in Writers}
        /\ Committed(c) \subseteq Live(c)
    BY LiveRecords
  <1>3. \A m \in Live(c) : m \in Committed(c)
    BY <1>1, <1>2
  <1> QED BY <1>2, <1>3

\* Whoever may take the tail row sees the hash of the last live record.
LEMMA VisibleIsLast ==
  ASSUME ChainAssumption, TypeOK, NEW c \in Chains, ByRow(c), InARow(c),
         NEW w \in Writers, Knows(w, c), CanLock(w, c), ~settled[w]
  PROVE  IsMax(Visible(w, c), Live(c) \cup {0})
  <1>1. CASE rowLock[c] = w
    BY <1>1 DEF Knows, KnowsRow, Visible
  <1>2. CASE rowLock[c] = Nobody
    <2>1. \A v \in Writers : ~Holds(v, c)
      BY <1>2 DEF Holds, ChainAssumption
    <2>2. Live(c) = Committed(c)
      BY <2>1, NobodyHolds
    <2>3. Visible(w, c) = tail[c]
      BY <1>2 DEF Visible, ChainAssumption
    <2> QED BY <2>2, <2>3 DEF InARow, Ground
  <1> QED BY <1>1, <1>2 DEF CanLock

\* A record appended after the last live one.
LEMMA InARowAppend ==
  ASSUME TypeOK, NEW g \in Chains, InARow(g), NEW w \in Writers, NEW p,
         IsMax(p, Live(g) \cup {0}), \A v \in Writers \ {w} : ~Holds(v, g),
         log'[g] = Append(log[g], [prev |-> p, by |-> w, state |-> "open"]),
         tail' = tail, Holds(w, g)'
  PROVE  /\ InARow(g)'
         /\ IsMax(Len(log[g]) + 1, Live(g)' \cup {0})
  <1> DEFINE k == Len(log[g])
  <1>2. /\ Live(g) \in SUBSET (1..k) /\ k \in Nat /\ Committed(g) \in SUBSET Live(g)
        /\ Live(g) \subseteq DOMAIN log[g]
    BY LiveRecords DEF Live
  <1>3. p \in 0..k /\ p \in Hashes
    BY <1>2 DEF IsMax, Hashes
  <1>4. /\ \A n \in DOMAIN log[g] : log'[g][n] = log[g][n]
        /\ log'[g][k + 1] = [prev |-> p, by |-> w, state |-> "open"]
        /\ Committed(g)' = Committed(g) /\ Live(g)' = Live(g) \cup {k + 1}
        /\ OpenOf(w, g)' = OpenOf(w, g) \cup {k + 1}
        /\ \A v \in Writers \ {w} : OpenOf(v, g)' = OpenOf(v, g)
    BY <1>3, Appended
  <1>5. log'[g][k + 1].prev = p
    BY <1>4
  <1> HIDE DEF k
  <1>6. \A m \in Live(g) : m < k + 1 /\ m \in Nat
    BY <1>2
  <1>7. ASSUME NEW n \in Live(g)'
        PROVE  IsMax(log'[g][n].prev, {m \in Live(g)' : m < n} \cup {0})
    <2>1. CASE n \in Live(g)
      <3>1. IsMax(log[g][n].prev, {m \in Live(g) : m < n} \cup {0})
        BY <2>1 DEF InARow
      <3>2. ~(k + 1 < n)
        BY <1>2, <1>6, <2>1
      <3>3. {m \in Live(g)' : m < n} = {m \in Live(g) : m < n}
        BY <1>4, <3>2
      <3> QED BY <1>2, <1>4, <2>1, <3>1, <3>3
    <2>2. CASE n \notin Live(g)
      <3>1. n = k + 1
        BY <1>4, <1>7, <2>2
      <3>2. ~(n < n)
        BY <1>2, <3>1
      <3>3. {m \in Live(g)' : m < n} = Live(g)
        BY <1>4, <1>6, <3>1, <3>2
      <3> QED BY <1>5, <3>1, <3>3
    <2> QED BY <2>1, <2>2
  <1>8. \A v \in Writers : \A n \in OpenOf(v, g)' : Holds(v, g)' /\ \A m \in Committed(g)' : m < n
    <2>1. \A v \in Writers \ {w} : OpenOf(v, g) = {}
      BY DEF InARow
    <2>2. \A n \in OpenOf(w, g)' : n \in OpenOf(w, g) \/ n = k + 1
      BY <1>4
    <2>3. \A m \in Committed(g)' : m < k + 1
      BY <1>2, <1>4, <1>6
    <2>4. \A n \in OpenOf(w, g)' : \A m \in Committed(g)' : m < n
      BY <1>4, <2>2, <2>3 DEF InARow
    <2>5. \A v \in Writers \ {w} : OpenOf(v, g)' = {}
      BY <1>4, <2>1
    <2> QED BY <2>4, <2>5
  <1>9. IsMax(tail'[g], Ground(g)')
    BY <1>4 DEF InARow, Ground
  <1>10. InARow(g)'
    BY <1>7, <1>8, <1>9 DEF InARow
  <1>11. IsMax(k + 1, Live(g)' \cup {0})
    BY <1>2, <1>4, <1>6 DEF IsMax
  <1> QED BY <1>10, <1>11 DEF k

\* Any step of w that neither writes a record of the chain nor ends its transaction there.
LEMMA OneAtATimeQuiet ==
  ASSUME ChainAssumption, NEW c \in Chains, OneKind(c), InARow(c),
         \A v \in Writers : Knows(v, c), NEW w \in Writers,
         log'[c] = log[c], tail'[c] = tail[c],
         \A v \in Writers \ {w} : /\ pc'[v] = pc[v] /\ settled'[v] = settled[v]
                                  /\ base'[v] = base[v] /\ next'[v] = next[v]
                                  /\ (rowLock'[c] = v <=> rowLock[c] = v)
                                  /\ (advisory' = v <=> advisory = v),
         Holds(w, c) => Holds(w, c)',
         Knows(w, c)'
  PROVE  InARow(c)' /\ \A v \in Writers : Knows(v, c)'
  <1>1. /\ Committed(c)' = Committed(c) /\ Live(c)' = Live(c) /\ Ground(c)' = Ground(c)
        /\ \A v \in Writers : OpenOf(v, c)' = OpenOf(v, c)
    BY DEF Committed, Live, Ground, OpenOf
  <1>2. \A v \in Writers : Holds(v, c) => Holds(v, c)'
    <2>1. ASSUME NEW v \in Writers, v # w, Holds(v, c) PROVE Holds(v, c)'
      <3>1. ByRow(c)' = ByRow(c) /\ ChainsOf(v)' = ChainsOf(v)
        BY KindOfAWriter
      <3> QED BY <2>1, <3>1 DEF Holds
    <2> QED BY <2>1
  <1>3. InARow(c)'
    BY <1>1, <1>2 DEF InARow
  <1>4. ASSUME NEW v \in Writers, v # w PROVE Knows(v, c)'
    <2>1. Knows(v, c) /\ ByRow(c)' = ByRow(c) /\ ChainsOf(v)' = ChainsOf(v)
      BY KindOfAWriter
    <2>2. /\ pc'[v] = pc[v] /\ settled'[v] = settled[v]
          /\ base'[v] = base[v] /\ next'[v] = next[v]
          /\ (rowLock'[c] = v <=> rowLock[c] = v)
      BY <1>4
    <2> QED BY <1>1, <2>1, <2>2 DEF Knows, KnowsRow, KnowsLast
  <1> QED BY <1>3, <1>4

\* Who does not have the lock has nothing to know, and keeps what it took for its own.
LEMMA OthersKnow ==
  ASSUME ChainAssumption, Locks, NEW c \in Chains, OneKind(c), NEW v \in Writers, Knows(v, c),
         pc'[v] = pc[v], base'[v] = base[v], next'[v] = next[v],
         IF ByRow(c) THEN rowLock'[c] # v ELSE advisory # v
  PROVE  Knows(v, c)'
  <1>1. /\ ByRow(c)' = ByRow(c) /\ ChainsOf(v)' = ChainsOf(v)
        /\ (~ByRow(c) /\ c \in ChainsOf(v) => Role[v] \in {"event", "note"})
    BY KindOfAWriter
  <1>2. Locking(v)
    BY DEF Locks
  <1>3. CASE ByRow(c)
    BY <1>1, <1>3 DEF Knows, KnowsRow
  <1>4. CASE ~ByRow(c)
    BY <1>1, <1>2, <1>4 DEF Knows, KnowsLast, Locking
  <1> QED BY <1>3, <1>4

\* Steps that append nothing and end nothing.
LEMMA QuietSteps ==
  ASSUME ChainAssumption, TypeOK, Locks, NEW c \in Chains, OneKind(c), InARow(c),
         \A v \in Writers : Knows(v, c), NEW w \in Writers,
         \/ Enqueue(w) \/ (\E d \in Chains : TakeTurn(w, d)) \/ BeginTx(w) \/ LockAdvisory(w)
         \/ ReadLast(w) \/ LockTail(w) \/ WriteTail(w) \/ ReadCache(w)
         \/ SwapNothing(w) \/ SwapConflict(w) \/ (Retry(w) /\ part[w] # "alone")
  PROVE  InARow(c)' /\ \A v \in Writers : Knows(v, c)'
  <1>1. /\ Locking(w) /\ Knows(w, c) /\ ChainsOf(w) \subseteq Chains
        /\ (Role[w] = "audit" => ChainsOf(w) = Chains)
        /\ (Role[w] = "gate6" => ChainsOf(w) = {"gate6"})
        /\ (Role[w] \in {"event", "note", "effects"} => ChainsOf(w) = {"effect"})
        /\ Role[w] \in Roles /\ Nobody \notin Writers
    BY ChainsOfAWriter DEF Locks, ChainAssumption
  <1>2. /\ pc \in [Writers -> WriterPhase] /\ settled \in [Writers -> BOOLEAN]
        /\ rowLock \in [Chains -> Writers \cup {Nobody}]
        /\ base \in [Writers -> [Chains -> Hashes]] /\ next \in [Writers -> [Chains -> Hashes]]
        /\ base[w] \in [Chains -> Hashes] /\ next[w] \in [Chains -> Hashes]
    BY DEF TypeOK
  <1>3. /\ ByRow(c)' = ByRow(c) /\ ChainsOf(w)' = ChainsOf(w)
        /\ (c \in ChainsOf(w) =>
             IF ByRow(c) THEN Role[w] \in {"effects", "gate6", "audit"}
             ELSE Role[w] \in {"event", "note"} /\ c = "effect")
    BY KindOfAWriter
  <1>4. log'[c] = log[c] => Live(c)' = Live(c)
    BY DEF Live
  <1>5. CASE Enqueue(w) \/ (\E d \in Chains : TakeTurn(w, d)) \/ BeginTx(w) \/ LockAdvisory(w)
    <2>1. /\ log' = log /\ tail' = tail /\ rowLock' = rowLock /\ base' = base /\ next' = next
          /\ pc[w] \in {"idle", "queued", "open"} /\ pc'[w] \in {"queued", "open", "advised"}
          /\ (pc[w] = "idle" \/ settled'[w] = settled[w])
          /\ \A v \in Writers \ {w} : /\ pc'[v] = pc[v] /\ settled'[v] = settled[v]
                                      /\ (advisory' = v <=> advisory = v)
      <3>1. CASE Enqueue(w)
        BY <1>2, <3>1 DEF Enqueue, Becomes, dbVars
      <3>2. CASE \E d \in Chains : TakeTurn(w, d)
        BY <1>2, <3>2 DEF TakeTurn, dbVars, auditVars
      <3>3. CASE BeginTx(w)
        BY <1>2, <3>3 DEF BeginTx, Becomes, dbVars, auditVars
      <3>4. CASE LockAdvisory(w)
        BY <1>1, <1>2, <3>4 DEF LockAdvisory, Becomes, auditVars
      <3> QED BY <1>5, <3>1, <3>2, <3>3, <3>4
    <2>2. Holds(w, c) => Holds(w, c)'
      BY <1>3, <2>1 DEF Holds
    <2>3. pc[w] = "idle" => rowLock[c] # w
      BY <1>1 DEF Locking, InTx
    <2>4. Knows(w, c)'
      BY <1>1, <1>3, <1>4, <2>1, <2>3 DEF Knows, KnowsRow, KnowsLast
    <2> QED BY <2>1, <2>2, <2>4, OneAtATimeQuiet
  <1>6. CASE ReadLast(w)
    <2>1. /\ pc' = [pc EXCEPT ![w] = "read"] /\ pc[w] = "advised" /\ settled' = settled
          /\ base' = [base EXCEPT ![w]["effect"] = LastCommitted("effect")] /\ advisory' = advisory
          /\ rowLock' = rowLock /\ log' = log /\ tail' = tail /\ next' = next
      BY <1>6 DEF ReadLast, Becomes, dbVars, auditVars
    <2>2. /\ Role[w] \in {"event", "note"} /\ advisory = w /\ rowLock[c] # w
          /\ ChainsOf(w) = {"effect"}
      BY <1>1, <2>1 DEF Locking
    <2>3. c \in ChainsOf(w) => IsMax(base'[w][c], Live(c) \cup {0})
      <3>1. SUFFICES ASSUME c \in ChainsOf(w) PROVE IsMax(base'[w][c], Live(c) \cup {0})
        OBVIOUS
      <3>2. ~ByRow(c) /\ c = "effect"
        BY <1>3, <2>2, <3>1
      <3>3. \A v \in Writers : ~Holds(v, c)
        BY <2>1, <2>2, <3>2 DEF Holds
      <3>4. Live(c) = Committed(c)
        BY <3>3, NobodyHolds
      <3>5. base'[w][c] = LastCommitted(c)
        BY <1>2, <2>1, <3>2
      <3> QED BY <3>4, <3>5, LastCommittedIsLast
    <2>4. ~Holds(w, c)
      BY <2>1, <2>2 DEF Holds
    <2>5. pc'[w] = "read" /\ \A v \in Writers \ {w} : pc'[v] = pc[v] /\ base'[v] = base[v]
      BY <1>2, <2>1
    <2>6. Knows(w, c)'
      <3>1. CASE ByRow(c)
        BY <1>3, <2>1, <2>2, <3>1 DEF Knows, KnowsRow
      <3>2. CASE ~ByRow(c)
        BY <1>3, <1>4, <2>1, <2>3, <2>5, <3>2 DEF Knows, KnowsLast
      <3> QED BY <3>1, <3>2
    <2> QED BY <2>1, <2>4, <2>5, <2>6, OneAtATimeQuiet
  <1>7. CASE LockTail(w)
    <2>1. PICK d \in ChainsOf(w) : /\ CanLock(w, d) /\ rowLock' = [rowLock EXCEPT ![d] = w]
                                   /\ base' = [base EXCEPT ![w][d] = tail[d]]
                                   /\ next' = [next EXCEPT ![w][d] = tail[d]]
      BY <1>7 DEF LockTail
    <2>2. /\ pc' = [pc EXCEPT ![w] = "read"] /\ settled' = settled /\ log' = log /\ tail' = tail
          /\ ChainsOf(w) = {d} /\ d \in Chains /\ pc[w] = "open" /\ Role[w] \in {"effects", "gate6"}
          /\ advisory' = advisory
      BY <1>1, <1>7, <2>1 DEF LockTail, Becomes, auditVars
    <2>3. base'[w][d] = tail[d] /\ next'[w][d] = tail[d] /\ rowLock'[d] = w
      BY <1>2, <2>1, <2>2
    <2>4. rowLock[c] # w
      BY <1>1, <2>2 DEF Locking
    <2>5. ~Holds(w, c)
      BY <2>2, <2>4 DEF Holds
    <2>6. Knows(w, c)'
      <3>1. CASE c = d
        <4>1. ByRow(c) /\ ~settled[w]
          BY <1>1, <1>3, <2>2, <3>1 DEF Locking
        <4>2. Visible(w, c) = tail[c]
          BY <2>4 DEF Visible
        <4>3. IsMax(tail[c], Live(c) \cup {0})
          BY <1>1, <2>1, <3>1, <4>1, <4>2, VisibleIsLast
        <4> QED BY <1>3, <1>4, <2>2, <2>3, <3>1, <4>1, <4>3 DEF Knows, KnowsRow
      <3>2. CASE c # d
        <4>1. rowLock'[c] # w /\ c \notin ChainsOf(w)
          BY <1>2, <2>1, <2>2, <2>4, <3>2
        <4> QED BY <1>3, <4>1 DEF Knows, KnowsRow, KnowsLast
      <3> QED BY <3>1, <3>2
    <2>7. /\ \A v \in Writers \ {w} : pc'[v] = pc[v] /\ base'[v] = base[v] /\ next'[v] = next[v]
          /\ \A v \in Writers \ {w} : rowLock'[c] = v <=> rowLock[c] = v
      BY <1>1, <1>2, <2>1, <2>2 DEF CanLock
    <2> QED BY <2>2, <2>5, <2>6, <2>7, OneAtATimeQuiet
  <1>8. CASE WriteTail(w)
    <2>1. /\ rowLock' = [d \in Chains |-> IF d \in ChainsOf(w) THEN w ELSE rowLock[d]]
          /\ \A d \in ChainsOf(w) : rowLock[d] \in {Nobody, w}
          /\ pc' = [pc EXCEPT ![w] = "written"] /\ settled' = settled /\ pc[w] = "inserted"
          /\ log' = log /\ tail' = tail /\ base' = base /\ next' = next /\ advisory' = advisory
      BY <1>8 DEF WriteTail, Becomes, auditVars, CanLock
    <2>2. /\ pc'[w] = "written" /\ rowLock'[c] = IF c \in ChainsOf(w) THEN w ELSE rowLock[c]
          /\ \A v \in Writers \ {w} : pc'[v] = pc[v]
          /\ \A v \in Writers \ {w} : rowLock'[c] = v <=> rowLock[c] = v
      BY <1>1, <1>2, <2>1
    <2>3. Holds(w, c) => Holds(w, c)'
      BY <1>3, <2>1, <2>2 DEF Holds
    <2>4. ByRow(c) => (rowLock'[c] = w <=> rowLock[c] = w)
      BY <1>1, <1>3, <2>1, <2>2 DEF Locking
    <2>5. Knows(w, c)'
      <3>1. CASE ByRow(c)
        BY <1>1, <1>3, <1>4, <2>1, <2>2, <2>4, <3>1 DEF Knows, KnowsRow
      <3>2. CASE ~ByRow(c)
        BY <1>1, <1>3, <1>4, <2>1, <2>2, <3>2 DEF Knows, KnowsLast
      <3> QED BY <3>1, <3>2
    <2> QED BY <2>1, <2>2, <2>3, <2>5, OneAtATimeQuiet
  <1>9. CASE ReadCache(w)
    <2>1. /\ pc' = [pc EXCEPT ![w] = "read"] /\ Role[w] = "audit" /\ settled' = settled
          /\ rowLock' = rowLock /\ log' = log /\ tail' = tail /\ next' = next
          /\ advisory' = advisory /\ pc[w] = "open"
          /\ \A v \in Writers \ {w} : base'[v] = base[v]
      BY <1>2, <1>9 DEF ReadCache, Becomes, dbVars, auditVars
    <2>2. ByRow(c)
      BY <1>1, <1>3, <2>1
    <2>3. Knows(w, c)' /\ (Holds(w, c) => Holds(w, c)')
      BY <1>1, <1>3, <1>4, <2>1, <2>2 DEF Knows, KnowsRow, Holds
    <2>4. \A v \in Writers \ {w} : pc'[v] = pc[v]
      BY <1>2, <2>1
    <2> QED BY <2>1, <2>3, <2>4, OneAtATimeQuiet
  <1>10. CASE SwapNothing(w) \/ SwapConflict(w)
    <2>1. /\ rowLock' = [d \in Chains |-> w] /\ \A d \in Chains : CanLock(w, d)
          /\ \A d \in Chains : rowLock[d] \in {Nobody, w}
          /\ pc' = [pc EXCEPT ![w] = "conflict"] /\ Role[w] = "audit"
          /\ log' = log /\ tail' = tail /\ base' = base /\ advisory' = advisory
      BY <1>10 DEF SwapNothing, SwapConflict, LockTails, CanLock, Becomes
    <2>2. ByRow(c)
      BY <1>1, <1>3, <2>1
    <2>3. \A v \in Writers \ {w} : settled'[v] = settled[v] /\ next'[v] = next[v]
      BY <1>2, <1>10 DEF SwapNothing, SwapConflict, auditVars
    <2>4. ~settled'[w] => IsMax(next'[w][c], Live(c) \cup {0})
      <3>1. CASE SwapNothing(w)
        BY <1>2, <3>1 DEF SwapNothing
      <3>2. CASE SwapConflict(w)
        <4>1. settled'[w] = settled[w] /\ next'[w][c] = Visible(w, c)
          BY <1>2, <3>2 DEF SwapConflict, auditVars
        <4>2. ~settled[w] => IsMax(Visible(w, c), Live(c) \cup {0})
          BY <1>1, <2>1, <2>2, VisibleIsLast
        <4> QED BY <4>1, <4>2
      <3> QED BY <1>10, <3>1, <3>2
    <2>5. Knows(w, c)' /\ Holds(w, c)'
      BY <1>2, <1>3, <1>4, <2>1, <2>2, <2>4 DEF Knows, KnowsRow, Holds
    <2>6. \A v \in Writers \ {w} : pc'[v] = pc[v] /\ (rowLock'[c] = v <=> rowLock[c] = v)
      BY <1>1, <1>2, <2>1
    <2> QED BY <2>1, <2>3, <2>5, <2>6, OneAtATimeQuiet
  <1>11. CASE Retry(w) /\ part[w] # "alone"
    <2>1. /\ pc' = [pc EXCEPT ![w] = "open"] /\ settled' = settled /\ rowLock' = rowLock
          /\ log' = log /\ tail' = tail /\ base' = base /\ next' = next
          /\ advisory' = advisory /\ pc[w] = "conflict"
      BY <1>11 DEF Retry, Becomes, dbVars
    <2>2. pc'[w] = "open" /\ \A v \in Writers \ {w} : pc'[v] = pc[v]
      BY <1>2, <2>1
    <2>3. Holds(w, c) => Holds(w, c)'
      BY <1>3, <2>1 DEF Holds
    <2>4. Knows(w, c)'
      BY <1>1, <1>3, <1>4, <2>1, <2>2 DEF Knows, KnowsRow, KnowsLast
    <2> QED BY <2>1, <2>2, <2>3, <2>4, OneAtATimeQuiet
  <1> QED BY <1>5, <1>6, <1>7, <1>8, <1>9, <1>10, <1>11

\* Steps that append.
LEMMA AppendSteps ==
  ASSUME ChainAssumption, TypeOK, Locks, NEW c \in Chains, OneKind(c), InARow(c),
         \A v \in Writers : Knows(v, c), NEW w \in Writers, Insert(w) \/ SwapTails(w)
  PROVE  InARow(c)' /\ \A v \in Writers : Knows(v, c)'
  <1>1. /\ Locking(w) /\ Knows(w, c) /\ ChainsOf(w) \subseteq Chains
        /\ (Role[w] = "audit" => ChainsOf(w) = Chains)
        /\ Role[w] \in Roles /\ Nobody \notin Writers
    BY ChainsOfAWriter DEF Locks, ChainAssumption
  <1>2. /\ pc \in [Writers -> WriterPhase] /\ settled \in [Writers -> BOOLEAN]
        /\ rowLock \in [Chains -> Writers \cup {Nobody}]
        /\ base \in [Writers -> [Chains -> Hashes]] /\ next \in [Writers -> [Chains -> Hashes]]
        /\ base[w] \in [Chains -> Hashes] /\ next[w] \in [Chains -> Hashes]
    BY DEF TypeOK
  <1>3. /\ ByRow(c)' = ByRow(c) /\ ChainsOf(w)' = ChainsOf(w)
        /\ (c \in ChainsOf(w) =>
             IF ByRow(c) THEN Role[w] \in {"effects", "gate6", "audit"}
             ELSE Role[w] \in {"event", "note"} /\ c = "effect")
    BY KindOfAWriter
  <1>4. CASE Insert(w)
    <2>1. /\ log' = Inserted(w, base[w]) /\ tail' = tail /\ rowLock' = rowLock
          /\ settled' = settled /\ base' = base /\ Role[w] # "audit" /\ pc[w] = "read"
          /\ pc' = [pc EXCEPT ![w] = "inserted"] /\ advisory' = advisory
          /\ (c \in ChainsOf(w) => next'[w][c] = Len(log[c]) + 1)
          /\ (c \notin ChainsOf(w) => next'[w][c] = next[w][c])
          /\ \A v \in Writers \ {w} : next'[v] = next[v]
      BY <1>1, <1>2, <1>4 DEF Insert, Becomes, auditVars
    <2>2. pc'[w] = "inserted" /\ \A v \in Writers \ {w} : pc'[v] = pc[v]
      BY <1>2, <2>1
    <2>3. CASE c \in ChainsOf(w)
      <3>1. IF ByRow(c) THEN rowLock[c] = w ELSE advisory = w
        BY <1>1, <1>3, <2>1, <2>3 DEF Locking
      <3>2. ~settled[w]
        BY <1>1, <2>1 DEF Locking
      <3>3. IsMax(base[w][c], Live(c) \cup {0})
        BY <1>1, <2>1, <2>3, <3>1, <3>2 DEF Knows, KnowsRow, KnowsLast
      <3>4. log'[c] = Append(log[c], [prev |-> base[w][c], by |-> w, state |-> "open"])
        <4>1. c \in ChainsOf(w) \cap Chains
          BY <2>3
        <4> QED BY <1>2, <2>1, <4>1, InsertedRecords
      <3>5. Holds(w, c)' /\ \A v \in Writers \ {w} : ~Holds(v, c)
        BY <1>3, <2>1, <2>2, <2>3, <3>1 DEF Holds
      <3>6. InARow(c)' /\ IsMax(Len(log[c]) + 1, Live(c)' \cup {0})
        BY <2>1, <3>3, <3>4, <3>5, InARowAppend
      <3>7. Knows(w, c)'
        BY <1>3, <2>1, <2>2, <2>3, <3>6 DEF Knows, KnowsRow, KnowsLast
      <3>8. ASSUME NEW v \in Writers, v # w PROVE Knows(v, c)'
        <4>1. base'[v] = base[v] /\ next'[v] = next[v] /\ pc'[v] = pc[v]
          BY <2>1, <2>2, <3>8
        <4>2. IF ByRow(c) THEN rowLock'[c] # v ELSE advisory # v
          BY <2>1, <3>1, <3>8
        <4> QED BY <4>1, <4>2, OthersKnow
      <3> QED BY <3>6, <3>7, <3>8
    <2>4. CASE c \notin ChainsOf(w)
      <3>1. log'[c] = log[c]
        <4>1. c \in Chains \ ChainsOf(w)
          BY <2>4
        <4> QED BY <1>2, <2>1, <4>1, InsertedRecords
      <3>2. rowLock[c] # w
        BY <1>1, <2>4 DEF Locking
      <3>3. (Holds(w, c) => Holds(w, c)') /\ Knows(w, c)'
        BY <1>3, <2>1, <2>4, <3>2 DEF Knows, KnowsRow, KnowsLast, Holds
      <3> QED BY <2>1, <2>2, <3>1, <3>3, OneAtATimeQuiet
    <2> QED BY <2>3, <2>4
  <1>5. CASE SwapTails(w)
    <2>1. /\ log' = Inserted(w, base[w]) /\ tail' = tail /\ rowLock' = [d \in Chains |-> w]
          /\ \A d \in Chains : CanLock(w, d)
          /\ settled' = settled /\ ~settled[w] /\ base' = base /\ Role[w] = "audit"
          /\ (pc' = [pc EXCEPT ![w] = "open"] \/ pc' = [pc EXCEPT ![w] = "written"])
          /\ \A d \in Chains : Visible(w, d) = base[w][d]
          /\ next' = [next EXCEPT ![w] = [d \in Chains |-> Len(log[d]) + 1]]
      BY <1>5 DEF SwapTails, LockTails, TailsMatch, Becomes
    <2>2. c \in ChainsOf(w) /\ ByRow(c)
      BY <1>1, <1>3, <2>1
    <2>3. IsMax(base[w][c], Live(c) \cup {0})
      <3>1. IsMax(Visible(w, c), Live(c) \cup {0})
        BY <1>1, <2>1, <2>2, VisibleIsLast
      <3> QED BY <2>1, <3>1
    <2>4. log'[c] = Append(log[c], [prev |-> base[w][c], by |-> w, state |-> "open"])
      <3>1. c \in ChainsOf(w) \cap Chains
        BY <2>2
      <3> QED BY <1>2, <2>1, <3>1, InsertedRecords
    <2>5. rowLock'[c] = w /\ rowLock[c] \in {Nobody, w}
      BY <2>1 DEF CanLock
    <2>6. Holds(w, c)' /\ \A v \in Writers \ {w} : ~Holds(v, c)
      BY <1>1, <1>3, <2>2, <2>5 DEF Holds
    <2>7. InARow(c)' /\ IsMax(Len(log[c]) + 1, Live(c)' \cup {0})
      BY <2>1, <2>3, <2>4, <2>6, InARowAppend
    <2>8. Knows(w, c)'
      <3>1. next'[w][c] = Len(log[c]) + 1
        BY <1>2, <2>1
      <3> QED BY <1>3, <2>1, <2>2, <2>7, <3>1 DEF Knows, KnowsRow
    <2>9. ASSUME NEW v \in Writers, v # w PROVE Knows(v, c)'
      <3>1. base'[v] = base[v] /\ next'[v] = next[v] /\ pc'[v] = pc[v]
        BY <1>2, <2>1, <2>9
      <3>2. IF ByRow(c) THEN rowLock'[c] # v ELSE advisory # v
        BY <2>2, <2>5, <2>9
      <3> QED BY <3>1, <3>2, OthersKnow
    <2> QED BY <2>7, <2>8, <2>9
  <1> QED BY <1>4, <1>5

\* A commit makes all that is open on a chain visible, at its end.
LEMMA CommitStep ==
  ASSUME ChainAssumption, TypeOK, Locks, NEW c \in Chains, OneKind(c), InARow(c),
         \A v \in Writers : Knows(v, c), NEW w \in Writers, Commit(w)
  PROVE  /\ InARow(c)' /\ \A v \in Writers : Knows(v, c)'
         /\ \A n \in DOMAIN log[c] : log'[c][n].prev = log[c][n].prev
         /\ IF c \in ChainsOf(w) THEN /\ Live(c)' = Live(c) /\ Committed(c)' = Live(c)
                                      /\ tail'[c] = next[w][c]
            ELSE log'[c] = log[c] /\ tail'[c] = tail[c]
  <1>1. /\ Locking(w) /\ Knows(w, c) /\ ChainsOf(w) \subseteq Chains
        /\ Role[w] \in Roles /\ Nobody \notin Writers
    BY ChainsOfAWriter DEF Locks, ChainAssumption
  <1>2. pc \in [Writers -> WriterPhase] /\ log[c] \in Seq(Record) /\ advisory \in Writers \cup {Nobody}
    BY DEF TypeOK
  <1>3. /\ ByRow(c)' = ByRow(c) /\ ChainsOf(w)' = ChainsOf(w)
        /\ (c \in ChainsOf(w) =>
             IF ByRow(c) THEN Role[w] \in {"effects", "gate6", "audit"}
             ELSE Role[w] \in {"event", "note"} /\ c = "effect")
    BY KindOfAWriter
  <1>4. /\ log' = Finished(log, {w}, "committed") /\ settled' = settled
        /\ tail' = [d \in Chains |-> IF d \in ChainsOf(w) THEN next[w][d] ELSE tail[d]]
        /\ pc' = [pc EXCEPT ![w] = "idle"] /\ pc[w] = "written" /\ Release({w})
    BY DEF Commit, Becomes, auditVars
  <1>5. /\ rowLock'[c] = IF rowLock[c] = w THEN Nobody ELSE rowLock[c]
        /\ advisory' = IF advisory = w THEN Nobody ELSE advisory
        /\ \A v \in Writers \ {w} : base'[v] = base[v] /\ next'[v] = next[v]
    BY <1>4, ReleasedLocks
  <1>6. pc'[w] = "idle" /\ \A v \in Writers \ {w} : pc'[v] = pc[v]
    BY <1>2, <1>4
  <1>7. Knows(w, c)'
    BY <1>1, <1>3, <1>5, <1>6 DEF Knows, KnowsRow, KnowsLast
  <1>9. \A n \in DOMAIN log[c] : log'[c][n].prev = log[c][n].prev
    BY <1>4, CommittedRecords
  <1>10. CASE c \in ChainsOf(w)
    <2>1. /\ rowLock[c] = w /\ ~settled[w] /\ Holds(w, c)
          /\ (~ByRow(c) => advisory = w)
      BY <1>1, <1>3, <1>4, <1>10 DEF Locking, Holds
    <2>2. IsMax(next[w][c], Live(c) \cup {0})
      BY <1>1, <1>4, <1>10, <2>1 DEF Knows, KnowsRow, KnowsLast
    <2>3. DOMAIN log'[c] = DOMAIN log[c] /\ Live(c)' = Live(c)
      BY <1>4, CommittedRecords
    <2>4. /\ OpenOf(w, c)' = {}
          /\ \A v \in Writers \ {w} : OpenOf(v, c)' = OpenOf(v, c)
      BY <1>4, CommittedRecords
    <2>5. \A v \in Writers : OpenOf(v, c)' = {}
      <3>1. \A v \in Writers \ {w} : ~Holds(v, c)
        BY <2>1 DEF Holds
      <3> QED BY <2>4, <3>1 DEF InARow
    <2>6. Committed(c)' = Live(c)'
      <3>1. log'[c] \in Seq(Record)
        BY <1>4, CommittedRecords
      <3>2. \A n \in DOMAIN log'[c] : log'[c][n] \in Record
        BY <3>1
      <3>3. \A n \in DOMAIN log'[c] : /\ log'[c][n].by \in Writers
                                      /\ log'[c][n].state \in {"open", "committed", "aborted"}
        BY <3>2 DEF Record
      <3> QED BY <2>5, <3>3 DEF Live, Committed, OpenOf
    <2>7. tail'[c] = next[w][c]
      BY <1>4, <1>10
    <2>8. IsMax(tail'[c], Ground(c)')
      BY <2>2, <2>3, <2>6, <2>7 DEF Ground
    <2>9. \A n \in Live(c)' : IsMax(log'[c][n].prev, {m \in Live(c)' : m < n} \cup {0})
      <3>1. Live(c) \subseteq DOMAIN log[c]
        BY DEF Live
      <3> QED BY <1>9, <2>3, <3>1 DEF InARow
    <2>10. InARow(c)'
      BY <2>5, <2>8, <2>9 DEF InARow
    <2>11. ASSUME NEW v \in Writers, v # w PROVE Knows(v, c)'
      <3>1. base'[v] = base[v] /\ next'[v] = next[v] /\ pc'[v] = pc[v]
        BY <1>5, <1>6, <2>11
      <3>2. IF ByRow(c) THEN rowLock'[c] # v ELSE advisory # v
        BY <1>1, <1>5, <2>1, <2>11
      <3> QED BY <3>1, <3>2, OthersKnow
    <2> QED BY <1>7, <1>9, <1>10, <2>3, <2>6, <2>7, <2>10, <2>11
  <1>11. CASE c \notin ChainsOf(w)
    <2>1. rowLock[c] # w /\ ~Holds(w, c)
      BY <1>1, <1>11 DEF Locking, Holds
    <2>2. OpenOf(w, c) = {}
      BY <2>1 DEF InARow
    <2>3. log'[c] = log[c]
      <3>1. \A n \in DOMAIN log[c] : ~(log[c][n].by \in {w} /\ log[c][n].state = "open")
        BY <2>2 DEF OpenOf
      <3>2. log'[c] = [n \in DOMAIN log[c] |-> log[c][n]]
        BY <1>4, <3>1 DEF Finished
      <3> QED BY <1>2, <3>2
    <2>4. tail'[c] = tail[c]
      BY <1>4, <1>11
    <2>5. InARow(c)' /\ \A v \in Writers : Knows(v, c)'
      <3>1. \A v \in Writers \ {w} : /\ pc'[v] = pc[v] /\ settled'[v] = settled[v]
                                     /\ base'[v] = base[v] /\ next'[v] = next[v]
                                     /\ (rowLock'[c] = v <=> rowLock[c] = v)
                                     /\ (advisory' = v <=> advisory = v)
        BY <1>1, <1>4, <1>5, <1>6
      <3> QED BY <1>7, <2>1, <2>3, <2>4, <3>1, OneAtATimeQuiet
    <2> QED BY <1>9, <1>11, <2>3, <2>4, <2>5
  <1> QED BY <1>10, <1>11

------------------------------------------------------------------------------
(* asyncio locks.                                                             *)

LEMMA TurnsStep ==
  ASSUME ChainAssumption, TypeOK, Turns, NEW w \in Writers,
         \/ Enqueue(w) \/ (\E c \in Chains : TakeTurn(w, c)) \/ BeginTx(w) \/ LockAdvisory(w)
         \/ ReadLast(w) \/ LockTail(w) \/ Insert(w) \/ WriteTail(w) \/ ReadCache(w)
         \/ SwapTails(w) \/ SwapNothing(w) \/ SwapConflict(w) \/ Commit(w)
         \/ (Retry(w) /\ part[w] # "alone")
  PROVE  Turns'
  <1>1. /\ turn \in [Processes -> [Chains -> Writers \cup {Nobody}]] /\ pc \in [Writers -> WriterPhase]
        /\ Home[w] \in Processes /\ Nobody \notin Writers
    BY ChainsOfAWriter DEF TypeOK, ChainAssumption
  <1>2. \A v \in Writers : TurnsOf(v)' = TurnsOf(v) /\ Turning(v)
    BY DEF Turns, TurnsOf, ChainsOf
  <1>3. CASE \E c \in Chains : TakeTurn(w, c)
    <2>1. PICK c \in Chains : TakeTurn(w, c)
      BY <1>3
    <2>2. /\ pc' = pc /\ pc[w] = "queued" /\ c \in TurnsOf(w) /\ turn[Home[w]][c] = Nobody
          /\ (c = "gate6" /\ "effect" \in TurnsOf(w) => turn[Home[w]]["effect"] = w)
          /\ turn' = [turn EXCEPT ![Home[w]][c] = w]
      BY <2>1 DEF TakeTurn
    <2>3. \A p \in Processes, d \in Chains :
            turn'[p][d] = IF p = Home[w] /\ d = c THEN w ELSE turn[p][d]
      BY <1>1, <2>2
    <2>4. "effect" \in Chains
      BY DEF Chains
    <2>5. \A v \in Writers : Turning(v)'
      BY <1>1, <1>2, <2>2, <2>3, <2>4 DEF Turning
    <2> QED BY <2>5 DEF Turns
  <1>4. CASE Commit(w)
    <2>1. pc' = [pc EXCEPT ![w] = "idle"] /\ Release({w})
      BY <1>4 DEF Commit, Becomes
    <2>2. \A p \in Processes, c \in Chains : turn'[p][c] = IF turn[p][c] = w THEN Nobody ELSE turn[p][c]
      BY <2>1, ReleasedLocks
    <2>3. "effect" \in Chains /\ \A v \in Writers \ {w} : pc'[v] = pc[v]
      BY <1>1, <2>1 DEF Chains
    <2>4. \A v \in Writers : Turning(v)'
      BY <1>1, <1>2, <2>2, <2>3 DEF Turning
    <2> QED BY <2>4 DEF Turns
  <1>5. ASSUME turn' = turn, \A v \in Writers \ {w} : pc'[v] = pc[v], pc'[w] # "idle" PROVE Turns'
    BY <1>2, <1>5 DEF Turns, Turning
  <1>6. CASE ~Commit(w) /\ ~(\E c \in Chains : TakeTurn(w, c))
    <2>1. CASE Enqueue(w) \/ BeginTx(w) \/ LockAdvisory(w) \/ ReadLast(w) \/ LockTail(w) \/ Insert(w)
      BY <1>1, <1>5, <2>1 DEF Enqueue, BeginTx, LockAdvisory, ReadLast, LockTail, Insert, Becomes
    <2>2. CASE \/ WriteTail(w) \/ ReadCache(w) \/ SwapTails(w) \/ SwapNothing(w) \/ SwapConflict(w)
               \/ (Retry(w) /\ part[w] # "alone")
      <3>1. turn' = turn /\ \E p \in WriterPhase \ {"idle"} : pc' = [pc EXCEPT ![w] = p]
        BY <2>2 DEF WriteTail, ReadCache, SwapTails, SwapNothing, SwapConflict, Retry, Becomes,
                    WriterPhase, InTx
      <3> QED BY <1>1, <1>5, <3>1
    <2> QED BY <1>6, <2>1, <2>2
  <1> QED BY <1>3, <1>4, <1>6

------------------------------------------------------------------------------
(* The theorems.                                                              *)

LEMMA OneAtATimeStep ==
  ASSUME ChainAssumption, TypeOK, Locks, OneAtATime, NEW w \in Writers,
         \/ Enqueue(w) \/ (\E c \in Chains : TakeTurn(w, c)) \/ BeginTx(w) \/ LockAdvisory(w)
         \/ ReadLast(w) \/ LockTail(w) \/ Insert(w) \/ WriteTail(w) \/ ReadCache(w)
         \/ SwapTails(w) \/ SwapNothing(w) \/ SwapConflict(w) \/ Commit(w)
         \/ (Retry(w) /\ part[w] # "alone")
  PROVE  OneAtATime'
  <1>1. ASSUME NEW c \in Chains, OneKind(c) PROVE InARow(c)' /\ \A v \in Writers : Knows(v, c)'
    <2>1. InARow(c) /\ \A v \in Writers : Knows(v, c)
      BY <1>1 DEF OneAtATime
    <2>2. CASE Insert(w) \/ SwapTails(w)
      BY <1>1, <2>1, <2>2, AppendSteps
    <2>3. CASE Commit(w)
      BY <1>1, <2>1, <2>3, CommitStep
    <2>4. CASE ~(Insert(w) \/ SwapTails(w) \/ Commit(w))
      BY <1>1, <2>1, <2>4, QuietSteps
    <2> QED BY <2>2, <2>3, <2>4
  <1>2. \A c \in Chains : OneKind(c)' = OneKind(c)
    BY KindsStay
  <1> QED BY <1>1, <1>2 DEF OneAtATime

\* A step of a writer, or one that rolls transactions back.
LEMMA StepsOfTwoSorts ==
  ASSUME ChainAssumption, TypeOK, Next
  PROVE  \/ \E who \in SUBSET Writers :
               /\ Rollback(who) /\ settled' = settled /\ part' = part
               /\ \A w \in who : pc'[w] \in {"idle", "queued"}
               /\ \A w \in Writers \ who : pc'[w] = pc[w]
         \/ \E w \in Writers :
               \/ Enqueue(w) \/ (\E c \in Chains : TakeTurn(w, c)) \/ BeginTx(w) \/ LockAdvisory(w)
               \/ ReadLast(w) \/ LockTail(w) \/ Insert(w) \/ WriteTail(w) \/ ReadCache(w)
               \/ SwapTails(w) \/ SwapNothing(w) \/ SwapConflict(w) \/ Commit(w)
               \/ (Retry(w) /\ part[w] # "alone")
  <1> DEFINE Fails(who) == /\ Rollback(who) /\ settled' = settled /\ part' = part
                           /\ \A w \in who : pc'[w] \in {"idle", "queued"}
                           /\ \A w \in Writers \ who : pc'[w] = pc[w]
  <1>1. ASSUME NEW w \in Writers, GiveUp(w) \/ Abort(w) \/ (Retry(w) /\ part[w] = "alone")
        PROVE  \E who \in SUBSET Writers : Fails(who)
    <2>1. /\ Rollback({w}) /\ settled' = settled /\ part' = part
          /\ (pc' = [pc EXCEPT ![w] = "idle"] \/ pc' = [pc EXCEPT ![w] = "queued"])
      BY <1>1 DEF GiveUp, Abort, Retry, Becomes, auditVars
    <2>2. \A v \in Writers \ {w} : pc'[v] = pc[v]
      BY <2>1 DEF TypeOK
    <2>3. pc'[w] \in {"idle", "queued"} /\ {w} \in SUBSET Writers
      BY <2>1 DEF TypeOK
    <2>4. Fails({w})
      BY <2>1, <2>2, <2>3
    <2> QED BY <2>3, <2>4
  <1>2. ASSUME NEW p \in Processes, ProcessDies(p) PROVE \E who \in SUBSET Writers : Fails(who)
    <2> DEFINE who == {w \in Writers : Home[w] = p}
    <2>1. /\ Rollback(who) /\ settled' = settled /\ part' = part
          /\ pc' = [w \in Writers |-> IF w \in who THEN "idle" ELSE pc[w]]
      BY <1>2 DEF ProcessDies, auditVars
    <2>2. who \in SUBSET Writers
      OBVIOUS
    <2>3. Fails(who)
      BY <2>1, <2>2
    <2> QED BY <2>2, <2>3
  <1> QED BY <1>1, <1>2 DEF Next, Waiting, Running

LEMMA ChainStep == ASSUME ChainAssumption, ChainInv, [Next]_vars PROVE ChainInv'
  <1>1. TypeOK /\ Locks /\ Turns /\ Standing /\ OneAtATime
    BY DEF ChainInv
  <1>2. CASE UNCHANGED vars
    <2>1. /\ log' = log /\ tail' = tail /\ rowLock' = rowLock /\ pc' = pc /\ settled' = settled
          /\ base' = base /\ next' = next /\ part' = part /\ turn' = turn /\ advisory' = advisory
      BY <1>2 DEF vars, dbVars, auditVars
    <2>2. TypeOK'
      BY <1>1, <1>2 DEF TypeOK, vars, dbVars, auditVars
    <2>3. Locks' /\ Turns'
      BY <1>1, <2>1 DEF Locks, Locking, Turns, Turning, TurnsOf, ChainsOf
    <2>4. Standing'
      BY <1>1, <2>1, StandingSame
    <2>5. OneAtATime'
      <3>1. ASSUME NEW c \in Chains
            PROVE  /\ Committed(c)' = Committed(c) /\ Live(c)' = Live(c) /\ Ground(c)' = Ground(c)
                   /\ ByRow(c)' = ByRow(c) /\ OneKind(c)' = OneKind(c)
                   /\ \A w \in Writers : /\ OpenOf(w, c)' = OpenOf(w, c) /\ ChainsOf(w)' = ChainsOf(w)
                                         /\ Holds(w, c)' = Holds(w, c)
        <4>1. ByRow(c)' = ByRow(c) /\ OneKind(c)' = OneKind(c)
          BY KindsStay
        <4> QED BY <2>1, <4>1, SameRecords DEF ChainsOf, Holds
      <3>2. \A c \in Chains : InARow(c)' = InARow(c)
        BY <2>1, <3>1 DEF InARow
      <3>3. ASSUME NEW c \in Chains, NEW w \in Writers PROVE Knows(w, c)' = Knows(w, c)
        <4>1. /\ Live(c)' = Live(c) /\ ByRow(c)' = ByRow(c) /\ ChainsOf(w)' = ChainsOf(w)
          BY <3>1
        <4>2. KnowsRow(w, c)' = KnowsRow(w, c)
          BY <2>1, <4>1 DEF KnowsRow
        <4>3. KnowsLast(w, c)' = KnowsLast(w, c)
          BY <2>1, <4>1 DEF KnowsLast
        <4> QED BY <4>1, <4>2, <4>3 DEF Knows
      <3>4. ASSUME NEW c \in Chains, OneKind(c)' PROVE InARow(c)' /\ \A w \in Writers : Knows(w, c)'
        <4>1. OneKind(c)
          BY <3>1, <3>4
        <4>2. InARow(c) /\ \A w \in Writers : Knows(w, c)
          BY <1>1, <4>1 DEF OneAtATime
        <4> QED BY <3>2, <3>3, <4>2
      <3> QED BY <3>4 DEF OneAtATime
    <2> QED BY <2>2, <2>3, <2>4, <2>5 DEF ChainInv
  <1>3. ASSUME Next PROVE ChainInv'
    <2>1. TypeOK'
      BY <1>1, <1>3, TypeStep
    <2>2. ASSUME NEW who \in SUBSET Writers, Rollback(who), settled' = settled, part' = part,
                 \A w \in who : pc'[w] \in {"idle", "queued"},
                 \A w \in Writers \ who : pc'[w] = pc[w]
          PROVE  ChainInv'
      BY <2>1, <2>2, RollbackKeeps DEF ChainInv
    <2>3. ASSUME NEW w \in Writers,
                 \/ Enqueue(w) \/ (\E c \in Chains : TakeTurn(w, c)) \/ BeginTx(w) \/ LockAdvisory(w)
                 \/ ReadLast(w) \/ LockTail(w) \/ Insert(w) \/ WriteTail(w) \/ ReadCache(w)
                 \/ SwapTails(w) \/ SwapNothing(w) \/ SwapConflict(w) \/ Commit(w)
                 \/ (Retry(w) /\ part[w] # "alone")
          PROVE  ChainInv'
      <3>1. Locks'
        BY <1>1, <2>3, LocksStep
      <3>2. Turns'
        BY <1>1, <2>3, TurnsStep
      <3>3. Standing'
        BY <1>1, <2>3, StandingStep
      <3>4. OneAtATime'
        BY <1>1, <2>3, OneAtATimeStep
      <3> QED BY <2>1, <3>1, <3>2, <3>3, <3>4 DEF ChainInv
    <2> QED BY <1>1, <1>3, <2>2, <2>3, StepsOfTwoSorts
  <1> QED BY <1>2, <1>3

\* The inductive invariant holds in every reachable state.
THEOREM ChainInvariant == Spec => []ChainInv
  <1>1. Init => ChainInv
    BY ChainInit, ChainAssumption
  <1>2. ChainInv /\ [Next]_vars => ChainInv'
    BY ChainStep, ChainAssumption
  <1> QED BY <1>1, <1>2, PTL DEF Spec

\* Types: logs are sequences of records, locks are held by writers.
THEOREM ChainTypeCorrect == Spec => []TypeOK
  <1>1. ChainInv => TypeOK
    BY DEF ChainInv
  <1> QED BY <1>1, ChainInvariant, ChainAssumption, PTL

\* On either chain, nothing committed hangs on a hash that was rolled back.
THEOREM LinksStand == Spec => []EveryLinkStands
  <1>1. ChainInv => EveryLinkStands
    BY DEF ChainInv, Standing, Rooted, Ground, EveryLinkStands
  <1> QED BY <1>1, ChainInvariant, ChainAssumption, PTL

\* What the invariant says of a chain with one kind of writers.
LEMMA InARowIsLinear ==
  ASSUME ChainInv, NEW c \in Chains, OneKind(c)
  PROVE  Linear(c)
  <1>1. TypeOK /\ InARow(c)
    BY DEF ChainInv, OneAtATime
  <1>2. /\ Live(c) \in SUBSET Nat /\ Committed(c) \in SUBSET Live(c)
        /\ \A m \in Live(c) : m \in Committed(c) \/ \E w \in Writers : m \in OpenOf(w, c)
    <2>1. Live(c) \in SUBSET (1..Len(log[c])) /\ Len(log[c]) \in Nat
      BY <1>1, LiveRecords
    <2>2. Live(c) \in SUBSET Nat
      BY <2>1
    <2>3. \A m \in Live(c) : m \in Committed(c) \/ \E w \in Writers : m \in OpenOf(w, c)
      BY <1>1, LiveRecords
    <2> QED BY <1>1, <2>2, <2>3, LiveRecords
  <1>3. ASSUME NEW n \in Committed(c)
        PROVE  log[c][n].prev = Max({m \in Committed(c) : m < n} \cup {0})
    <2>1. \A w \in Writers : \A m \in OpenOf(w, c) : n < m
      BY <1>1, <1>3 DEF InARow
    <2>2. \A m \in Live(c) : n < m => ~(m < n)
      BY <1>2, <1>3
    <2>3. {m \in Live(c) : m < n} = {m \in Committed(c) : m < n}
      BY <1>2, <2>1, <2>2
    <2>4. IsMax(log[c][n].prev, {m \in Committed(c) : m < n} \cup {0})
      <3>1. n \in Live(c)
        BY <1>2, <1>3
      <3>2. IsMax(log[c][n].prev, {m \in Live(c) : m < n} \cup {0})
        BY <1>1, <3>1 DEF InARow
      <3> QED BY <2>3, <3>2
    <2>5. {m \in Committed(c) : m < n} \cup {0} \in SUBSET Nat
      BY <1>2
    <2> QED BY <2>4, <2>5, MaxIsMax
  <1>4. tail[c] = LastCommitted(c)
    <2>1. IsMax(tail[c], Committed(c) \cup {0})
      BY <1>1 DEF InARow, Ground
    <2>2. Committed(c) \cup {0} \in SUBSET Nat
      BY <1>2
    <2> QED BY <2>1, <2>2, MaxIsMax DEF LastCommitted
  <1> QED BY <1>3, <1>4 DEF Linear

\* A chain all whose writers take the same lock, the row of the tail or the advisory
\* one, never forks, for any number of replicas, writers, connections and failures.
\* The forks of the Effect chain come from mixing the two alone.
THEOREM OneKindNeverForks == ASSUME NEW c \in Chains, OneKind(c) PROVE Spec => []Linear(c)
  <1>1. ChainInv => Linear(c)
    BY InARowIsLinear
  <1> QED BY <1>1, ChainInvariant, ChainAssumption, PTL

\* Events and notes go to the Effect chain, so the Gate6 chain has one kind of writers.
LEMMA Gate6ByRow == ASSUME ChainAssumption PROVE ByRow("gate6") /\ OneKind("gate6")
  BY ChainsOfAWriter DEF ByRow, OneKind

\* The Gate6 chain of a tenant never forks, whatever kinds of writers there are.
THEOREM Gate6NeverForks == Spec => []Linear("gate6")
  <1>1. "gate6" \in Chains /\ OneKind("gate6")
    BY Gate6ByRow, ChainAssumption DEF Chains
  <1>2. ChainInv => Linear("gate6")
    BY <1>1, InARowIsLinear
  <1> QED BY <1>2, ChainInvariant, ChainAssumption, PTL

------------------------------------------------------------------------------
(* The Gate6 chain refines HashChain.                                         *)

\* Nothing that readers see changes but by a commit.
LEMMA OnlyCommitsShow ==
  ASSUME ChainAssumption, ChainInv, [Next]_vars, NEW c \in Chains, OneKind(c),
         \A w \in Writers : Commit(w) => c \notin ChainsOf(w)
  PROVE  RecordsOf(c)' = RecordsOf(c) /\ tail'[c] = tail[c]
  <1> USE DEF ChainInv
  <1>1. ASSUME Committed(c)' = Committed(c), tail'[c] = tail[c],
               \A n \in Committed(c) : log'[c][n].prev = log[c][n].prev
        PROVE  RecordsOf(c)' = RecordsOf(c) /\ tail'[c] = tail[c]
    BY <1>1 DEF RecordsOf
  <1>2. CASE log' = log /\ tail' = tail
    BY <1>1, <1>2 DEF Committed
  <1>3. ASSUME NEW who \in SUBSET Writers, Rollback(who)
        PROVE  RecordsOf(c)' = RecordsOf(c) /\ tail'[c] = tail[c]
    <2>1. log' = Finished(log, who, "aborted") /\ tail' = tail
      BY <1>3 DEF Rollback
    <2>2. /\ Committed(c)' = Committed(c)
          /\ \A n \in DOMAIN log[c] : log'[c][n].prev = log[c][n].prev
      BY <2>1, FinishedRecords
    <2> QED BY <1>1, <2>1, <2>2 DEF Committed
  <1>4. ASSUME NEW w \in Writers, Insert(w) \/ SwapTails(w)
        PROVE  RecordsOf(c)' = RecordsOf(c) /\ tail'[c] = tail[c]
    <2>1. log' = Inserted(w, base[w]) /\ base[w] \in [Chains -> Hashes] /\ tail' = tail
      BY <1>4 DEF Insert, SwapTails, TypeOK
    <2>2. CASE c \in ChainsOf(w)
      <3>1. /\ log'[c] = Append(log[c], [prev |-> base[w][c], by |-> w, state |-> "open"])
            /\ base[w][c] \in Hashes
        BY <2>1, <2>2, InsertedRecords
      <3>2. Committed(c)' = Committed(c) /\ \A n \in DOMAIN log[c] : log'[c][n] = log[c][n]
        BY <3>1, Appended
      <3> QED BY <1>1, <2>1, <3>2 DEF Committed
    <2>3. CASE c \notin ChainsOf(w)
      <3>1. log'[c] = log[c]
        BY <2>1, <2>3, InsertedRecords
      <3> QED BY <1>1, <2>1, <3>1 DEF Committed
    <2> QED BY <2>2, <2>3
  <1>5. ASSUME NEW w \in Writers, Commit(w)
        PROVE  RecordsOf(c)' = RecordsOf(c) /\ tail'[c] = tail[c]
    <2>1. InARow(c) /\ \A v \in Writers : Knows(v, c)
      BY DEF OneAtATime
    <2>2. log'[c] = log[c] /\ tail'[c] = tail[c]
      BY <1>5, <2>1, CommitStep
    <2> QED BY <1>1, <2>2 DEF Committed
  <1>6. ASSUME NEW w \in Writers,
               \/ Enqueue(w) \/ (\E d \in Chains : TakeTurn(w, d)) \/ BeginTx(w) \/ LockAdvisory(w)
               \/ ReadLast(w) \/ LockTail(w) \/ WriteTail(w) \/ ReadCache(w)
               \/ SwapNothing(w) \/ SwapConflict(w) \/ (Retry(w) /\ part[w] # "alone")
        PROVE  log' = log /\ tail' = tail
    BY <1>6 DEF Enqueue, TakeTurn, BeginTx, LockAdvisory, ReadLast, LockTail, WriteTail,
                ReadCache, SwapNothing, SwapConflict, Retry, dbVars
  <1>7. CASE Next
    BY <1>2, <1>3, <1>4, <1>5, <1>6, <1>7, StepsOfTwoSorts
  <1>8. CASE UNCHANGED vars
    BY <1>2, <1>8 DEF vars, dbVars
  <1> QED BY <1>7, <1>8

\* A commit adds the records of its transaction, in a row, at the end.
LEMMA CommitsExtend ==
  ASSUME ChainAssumption, ChainInv, NEW w \in Writers, Commit(w), "gate6" \in ChainsOf(w)
  PROVE  Gate6Log!Extend
  <1> DEFINE g == "gate6"
             O == Live(g) \ Committed(g)
  <1>1. /\ g \in Chains /\ OneKind(g) /\ ByRow(g) /\ TypeOK /\ Locks
        /\ InARow(g) /\ \A v \in Writers : Knows(v, g)
        /\ Grounded(w, g)
    BY Gate6ByRow DEF ChainInv, OneAtATime, Standing, Chains
  <1> HIDE DEF g
  <1>2. g \in ChainsOf(w)
    BY DEF g
  <1>3. /\ \A n \in DOMAIN log[g] : log'[g][n].prev = log[g][n].prev
        /\ Committed(g)' = Live(g) /\ tail'[g] = next[w][g]
    BY <1>1, <1>2, CommitStep
  <1>4. /\ Live(g) \in SUBSET Nat /\ Live(g) \in SUBSET DOMAIN log[g]
        /\ Committed(g) \in SUBSET Live(g) /\ \A n \in Live(g) : n > 0
        /\ \A n \in O : \E v \in Writers : n \in OpenOf(v, g)
    <2>1. /\ \A n \in DOMAIN log[g] : n \in Nat \ {0}
          /\ Live(g) = Committed(g) \cup UNION {OpenOf(v, g) : v \in Writers}
          /\ Committed(g) \in SUBSET Live(g)
      BY <1>1, LiveRecords
    <2>2. Live(g) \in SUBSET DOMAIN log[g]
      BY DEF Live
    <2> QED BY <2>1, <2>2
  <1>5. /\ RecordsOf(g) = {[hash |-> n, prev |-> log[g][n].prev] : n \in Committed(g)}
        /\ RecordsOf(g)' = {[hash |-> n, prev |-> log[g][n].prev] : n \in Live(g)}
    BY <1>3, <1>4 DEF RecordsOf
  <1>6. RecordsOf(g)' \ RecordsOf(g) = {[hash |-> n, prev |-> log[g][n].prev] : n \in O}
    BY <1>4, <1>5
  <1>7. {r.hash : r \in RecordsOf(g)' \ RecordsOf(g)} = O
    <2>1. ASSUME NEW n \in O PROVE n \in {r.hash : r \in RecordsOf(g)' \ RecordsOf(g)}
      <3>1. [hash |-> n, prev |-> log[g][n].prev] \in RecordsOf(g)' \ RecordsOf(g)
        BY <1>6
      <3>2. [hash |-> n, prev |-> log[g][n].prev].hash = n
        OBVIOUS
      <3> QED BY <3>1, <3>2
    <2>2. ASSUME NEW r \in RecordsOf(g)' \ RecordsOf(g) PROVE r.hash \in O
      BY <1>6
    <2> HIDE DEF O
    <2> QED BY <2>1, <2>2
  <1>8. tail[g] \in Committed(g) \cup {0} /\ \A m \in Committed(g) \cup {0} : m <= tail[g]
    BY <1>1 DEF InARow, IsMax, Ground
  <1>9. ASSUME NEW n \in O PROVE n > tail[g]
    <2>1. \A m \in Committed(g) : m < n
      BY <1>1, <1>4, <1>9 DEF InARow
    <2> QED BY <1>4, <1>8, <1>9, <2>1
  <1>10. ASSUME NEW n \in O
         PROVE  LET p == log[g][n].prev
                    S == {tail[g]} \cup {h \in O : h < n}
                IN p \in S /\ \A x \in S : x <= p
    <2> DEFINE p == log[g][n].prev
    <2>1. IsMax(p, {m \in Live(g) : m < n} \cup {0})
      BY <1>1, <1>10 DEF InARow
    <2>2. /\ ((p \in Live(g) /\ p < n) \/ p = 0) /\ (\A m \in Live(g) : m < n => m <= p) /\ 0 <= p
      BY <2>1 DEF IsMax
    <2>3. p \in Nat /\ tail[g] \in Nat /\ n \in Nat /\ n > tail[g]
      BY <1>4, <1>8, <1>9, <1>10, <2>2
    <2> HIDE DEF p
    <2>4. tail[g] <= p
      BY <1>4, <1>8, <2>2, <2>3
    <2>5. p \in O \/ p = tail[g]
      BY <1>4, <1>8, <2>2, <2>3, <2>4
    <2>6. \A h \in O : h < n => h <= p
      BY <2>2
    <2>7. p \in O => p < n
      BY <1>4, <2>2
    <2> QED BY <2>4, <2>5, <2>6, <2>7, <2>3 DEF p
  <1>11. tail'[g] \in O /\ \A x \in O : x <= tail'[g]
    <2>1. pc[w] = "written"
      BY DEF Commit
    <2>2. rowLock[g] = w /\ ~settled[w]
      BY <1>1, <1>2, <2>1 DEF Locks, Locking
    <2>3. IsMax(next[w][g], Live(g) \cup {0})
      BY <1>1, <2>2 DEF Knows, KnowsRow
    <2>4. next[w][g] \in OpenOf(w, g)
      BY <1>1, <1>2, <2>1 DEF Grounded
    <2>5. next[w][g] \in O
      BY <2>4 DEF OpenOf, Live, Committed
    <2> QED BY <1>3, <2>3, <2>5 DEF IsMax
  <1>12. RecordsOf(g) \subseteq RecordsOf(g)'
    BY <1>4, <1>5
  <1>13. ASSUME NEW r \in RecordsOf(g)' \ RecordsOf(g)
         PROVE  /\ r.hash > tail[g]
                /\ LET S == {tail[g]} \cup {h \in O : h < r.hash}
                   IN r.prev \in S /\ \A x \in S : x <= r.prev
    <2>1. PICK n \in O : r = [hash |-> n, prev |-> log[g][n].prev]
      BY <1>6
    <2>2. r.hash = n /\ r.prev = log[g][n].prev
      BY <2>1
    <2> HIDE DEF O
    <2> QED BY <1>9, <1>10, <2>2
  <1> HIDE DEF O
  <1> QED BY <1>7, <1>11, <1>12, <1>13 DEF Gate6Log!Extend, Gate6Log!New, Gate6Log!Hashes,
                                          Gate6Log!IsLast, g

\* What readers and exporters see of the Gate6 chain only grows, by whole transactions
\* in a row, although the audit flushers trust caches that may be stale or hold hashes
\* that were rolled back.
THEOREM Gate6Grows == Spec => Gate6OnlyGrows
  <1>1. Init => Gate6Log!ChainInit
    <2>1. ASSUME Init PROVE log["gate6"] = << >> /\ tail["gate6"] = 0
      BY <2>1 DEF Init, Empty, Chains
    <2>2. ASSUME Init PROVE Committed("gate6") = {}
      BY <2>1, <2>2 DEF Committed
    <2> QED BY <2>1, <2>2 DEF Gate6Log!ChainInit, RecordsOf
  <1>2. ASSUME ChainAssumption, ChainInv, [Next]_vars
        PROVE  [Gate6Log!Extend]_(Gate6Log!chainVars)
    <2>1. "gate6" \in Chains /\ OneKind("gate6")
      BY <1>2, Gate6ByRow DEF Chains
    <2>2. CASE \E w \in Writers : Commit(w) /\ "gate6" \in ChainsOf(w)
      BY <1>2, <2>2, CommitsExtend
    <2>3. CASE \A w \in Writers : Commit(w) => "gate6" \notin ChainsOf(w)
      BY <1>2, <2>1, <2>3, OnlyCommitsShow DEF Gate6Log!chainVars
    <2> QED BY <2>2, <2>3
  <1>3. ChainInv /\ [Next]_vars => [Gate6Log!Extend]_(Gate6Log!chainVars)
    BY <1>2, ChainAssumption
  <1> QED BY <1>1, <1>3, ChainInvariant, ChainAssumption, PTL DEF Spec, Gate6OnlyGrows, Gate6Log!ChainSpec

------------------------------------------------------------------------------
(* Nobody waits in a circle.                                                  *)

\* A writer that waits for its turn or for a connection has no lock of the database.
LEMMA QueuedHasNoLock ==
  ASSUME ChainInv, NEW w \in Writers, pc[w] = "queued"
  PROVE  (\A c \in Chains : rowLock[c] # w) /\ advisory # w /\ pc[w] \notin InTx
  <1>1. Locking(w)
    BY DEF ChainInv, Locks
  <1> QED BY <1>1 DEF Locking, InTx

LEMMA WaitsForNearer ==
  ASSUME ChainAssumption, ChainInv, NEW w \in Writers, NEW v \in Writers, WaitsFor(w, v)
  PROVE  pc[v] # "idle" /\ Distance(v) < Distance(w)
  <1>1. Locking(w) /\ Locking(v) /\ Turning(v)
    BY DEF ChainInv, Locks, Turns
  <1>2. /\ ChainsOf(w) \subseteq Chains /\ TurnsOf(w) \subseteq Chains /\ TurnsOf(v) \subseteq Chains
        /\ Role[w] \in Roles /\ "effect" \in Chains /\ "gate6" \in Chains
        /\ Home[w] \in Processes
        /\ (Role[w] = "audit" => ChainsOf(w) = Chains)
    BY ChainsOfAWriter DEF TurnsOf, Chains
  <1>3. CASE pc[w] = "queued" /\ \E c \in Chains : NextTurn(w, c) /\ turn[Home[w]][c] = v
    <2>1. PICK c \in Chains : NextTurn(w, c) /\ turn[Home[w]][c] = v
      BY <1>3
    <2>2. /\ Home[w] = Home[v] /\ c \in TurnsOf(v) /\ pc[v] # "idle"
          /\ (c = "gate6" /\ "effect" \in TurnsOf(v) => turn[Home[v]]["effect"] = v)
      BY <1>1, <1>2, <2>1 DEF Turning
    <2>3. ~HasTurns(w) /\ Distance(w) \in {4, 5}
      BY <1>3, <2>1, QueuedHasNoLock DEF NextTurn, HasTurns, Distance
    <2>4. CASE c = "effect"
      <3>1. Distance(w) = 5
        BY <1>3, <2>1, <2>3, <2>4, QueuedHasNoLock DEF NextTurn, Distance
      <3>2. Distance(v) \in 0..4
        BY <2>1, <2>2, <2>4 DEF Distance
      <3> QED BY <2>2, <3>1, <3>2
    <2>5. CASE c = "gate6"
      <3>1. HasTurns(v)
        BY <1>2, <2>1, <2>2, <2>5 DEF HasTurns, Chains
      <3>2. Distance(v) \in 0..3
        BY <3>1 DEF Distance
      <3> QED BY <2>2, <2>3, <3>2
    <2> QED BY <2>4, <2>5 DEF Chains
  <1>4. CASE pc[w] = "queued" /\ HasTurns(w) /\ Home[v] = Home[w] /\ pc[v] \in InTx
    <2>1. Distance(w) = 3
      BY <1>4, QueuedHasNoLock DEF Distance
    <2>2. Distance(v) \in 0..2 /\ pc[v] # "idle"
      BY <1>4 DEF Distance, InTx
    <2> QED BY <2>1, <2>2
  <1>5. CASE pc[w] = "open" /\ Role[w] \in {"event", "note"} /\ advisory = v
    <2>1. Distance(w) = 2
      BY <1>1, <1>5 DEF Distance, Locking, InTx
    <2>2. Distance(v) \in 0..1 /\ pc[v] # "idle"
      BY <1>1, <1>5 DEF Distance, Locking
    <2> QED BY <2>1, <2>2
  <1>6. CASE NeedsRows(w) /\ v # w /\ \E c \in ChainsOf(w) : rowLock[c] = v
    <2>1. PICK c \in ChainsOf(w) : rowLock[c] = v
      BY <1>6
    <2>2. Distance(v) = 0 /\ pc[v] # "idle"
      BY <1>1, <1>2, <2>1 DEF Distance, Locking, InTx
    <2>3. \A d \in Chains : rowLock[d] # w
      <3>1. CASE Role[w] = "audit"
        BY <1>1, <1>2, <1>6, <2>1, <3>1 DEF Locking, Chains
      <3>2. CASE Role[w] \in {"effects", "gate6"}
        BY <1>1, <1>2, <1>6, <2>1, <3>2 DEF Locking, NeedsRows
      <3>3. CASE Role[w] \in {"event", "note"}
        BY <1>1, <1>6, <3>3 DEF Locking, NeedsRows
      <3> QED BY <1>2, <3>1, <3>2, <3>3 DEF Roles
    <2>4. Distance(w) \in 1..5
      BY <2>3 DEF Distance
    <2> QED BY <2>2, <2>4
  <1> QED BY <1>3, <1>4, <1>5, <1>6 DEF WaitsFor

LEMMA GoesOnOrWaits ==
  ASSUME ChainAssumption, ChainInv, NEW w \in Writers, pc[w] # "idle", ~CanGoOn(w)
  PROVE  \E v \in Writers : WaitsFor(w, v)
  <1>1. /\ turn \in [Processes -> [Chains -> Writers \cup {Nobody}]]
        /\ rowLock \in [Chains -> Writers \cup {Nobody}] /\ advisory \in Writers \cup {Nobody}
    BY DEF ChainInv, TypeOK
  <1>2. /\ ChainsOf(w) \subseteq Chains /\ TurnsOf(w) \subseteq Chains /\ Home[w] \in Processes
        /\ "effect" \in Chains
    BY ChainsOfAWriter DEF TurnsOf, Chains
  <1>3. CASE pc[w] = "queued" /\ HasTurns(w)
    <2> DEFINE Busy == {v \in Writers : Home[v] = Home[w] /\ pc[v] \in InTx}
    <2>1. ~(Cardinality(Busy) < PoolSize)
      BY <1>3 DEF CanGoOn, NeedsRows
    <2>2. Busy # {}
      BY <2>1, FS_EmptySet DEF ChainAssumption
    <2> QED BY <1>3, <2>2 DEF WaitsFor
  <1>4. CASE pc[w] = "queued" /\ ~HasTurns(w)
    <2>1. PICK c \in Chains : NextTurn(w, c)
      <3>1. PICK d \in TurnsOf(w) : turn[Home[w]][d] # w
        BY <1>4 DEF HasTurns
      <3>2. CASE "effect" \in TurnsOf(w) /\ turn[Home[w]]["effect"] # w
        <4>1. NextTurn(w, "effect")
          BY <3>2 DEF NextTurn
        <4> QED BY <1>2, <4>1
      <3>3. CASE ~("effect" \in TurnsOf(w) /\ turn[Home[w]]["effect"] # w)
        <4>1. NextTurn(w, d)
          BY <3>1, <3>3 DEF NextTurn
        <4> QED BY <1>2, <4>1
      <3> QED BY <3>2, <3>3
    <2>2. turn[Home[w]][c] # Nobody
      BY <1>4, <2>1 DEF CanGoOn, NeedsRows
    <2>3. turn[Home[w]][c] \in Writers
      BY <1>1, <1>2, <2>2
    <2> QED BY <1>4, <2>1, <2>3 DEF WaitsFor
  <1>5. CASE pc[w] = "open" /\ Role[w] \in {"event", "note"}
    <2>1. advisory # Nobody
      BY <1>5 DEF CanGoOn, NeedsRows
    <2> QED BY <1>1, <1>5, <2>1 DEF WaitsFor
  <1>6. CASE NeedsRows(w) /\ pc[w] # "queued" /\ ~(pc[w] = "open" /\ Role[w] \in {"event", "note"})
    <2>1. PICK c \in ChainsOf(w) : ~CanLock(w, c)
      BY <1>6 DEF CanGoOn
    <2>2. rowLock[c] \in Writers /\ rowLock[c] # w
      BY <1>1, <1>2, <2>1 DEF CanLock
    <2> QED BY <1>6, <2>1, <2>2 DEF WaitsFor
  <1>7. CASE ~NeedsRows(w) /\ pc[w] # "queued" /\ ~(pc[w] = "open" /\ Role[w] \in {"event", "note"})
    BY <1>7 DEF CanGoOn
  <1> QED BY <1>3, <1>4, <1>5, <1>6, <1>7

\* asyncio locks, connections, the advisory lock and tail rows are never waited for in
\* a circle, for any number of processes, writers and connections.
THEOREM NobodyWaitsInACircle == Spec => []NoCircularWait
  <1>1. ASSUME ChainAssumption, ChainInv PROVE NoCircularWait
    BY <1>1, WaitsForNearer, GoesOnOrWaits DEF NoCircularWait
  <1>2. ChainInv => NoCircularWait
    BY <1>1, ChainAssumption
  <1> QED BY <1>2, ChainInvariant, ChainAssumption, PTL

\* As long as any writer is at work, all that one of them needs is free: the writers of
\* a tenant never stand still together.
THEOREM SomebodyCanGoOn ==
  Spec => []((\E w \in Writers : pc[w] # "idle") => \E w \in Writers : CanGoOn(w))
  <1>1. ASSUME NoCircularWait, NEW u \in Writers, pc[u] # "idle"
        PROVE  \E w \in Writers : CanGoOn(w)
    <2> DEFINE Nearness == {5 - Distance(w) : w \in {v \in Writers : pc[v] # "idle"}}
    <2>1. \A w \in Writers : Distance(w) \in 0..5
      BY DEF Distance
    <2>2. Nearness \in SUBSET (0..5) /\ Nearness # {}
      BY <1>1, <2>1
    <2>3. IsMax(Max(Nearness), Nearness)
      <3> HIDE DEF Nearness
      <3> QED BY <2>2, MaxExists
    <2>4. PICK w \in Writers : pc[w] # "idle" /\ Max(Nearness) = 5 - Distance(w)
      BY <2>3 DEF IsMax
    <2>5. \A v \in Writers : pc[v] # "idle" => 5 - Distance(v) <= 5 - Distance(w)
      BY <2>3, <2>4 DEF IsMax
    <2>6. ~(\E v \in Writers : WaitsFor(w, v))
      BY <1>1, <2>1, <2>5 DEF NoCircularWait
    <2> QED BY <1>1, <2>4, <2>6 DEF NoCircularWait
  <1>2. NoCircularWait => ((\E w \in Writers : pc[w] # "idle") => \E w \in Writers : CanGoOn(w))
    BY <1>1
  <1> QED BY <1>2, NobodyWaitsInACircle, PTL
=============================================================================
