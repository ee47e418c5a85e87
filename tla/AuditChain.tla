------------------------------ MODULE AuditChain ------------------------------
(***************************************************************************)
(* The two hash chains of one tenant in PostgreSQL: xa_effect_events and   *)
(* xa_gate6_events.  Each record names the record_hash of the one before   *)
(* it, and xa_chain_tails keeps the last hash of each chain.  Several       *)
(* processes (API replicas, workers) append through transactions of five   *)
(* kinds, which find the end of a chain in three different ways:           *)
(*                                                                         *)
(*   event    _effect_event_conn inside a business transaction             *)
(*   note     the same, in a transaction of its own (_effect_event)        *)
(*   effects  _persist_effect_mutations                                    *)
(*   gate6    _flush_gate6                                                 *)
(*   audit    _persist_prepared/_final_effect_audits_cte, on both chains   *)
(*                                                                         *)
(* A batch is one link: its records are inserted by one statement, each    *)
(* naming the one before.  The hash of the n-th record of a chain is n,    *)
(* and 0 is the empty tail.  A transaction may be aborted at any step, by  *)
(* an error or as the victim of a deadlock on rows this module leaves out. *)
(***************************************************************************)
EXTENDS Integers, Sequences, FiniteSets, FiniteSetsExt

CONSTANTS
  Processes,   \* control-plane processes
  Writers,     \* tasks that append
  Home, Role,  \* the process of a writer, and its kind of transaction
  Nobody,      \* no holder of a lock
  PoolSize,    \* connections of a process
  MaxRecords,  \* bound: records inserted into one chain
  MaxAborts    \* bound: aborted transactions and dead processes

Chains == {"effect", "gate6"}
Roles == {"event", "note", "effects", "gate6", "audit"}

ASSUME ChainAssumption ==
  /\ Home \in [Writers -> Processes]
  /\ Role \in [Writers -> Roles]
  /\ Nobody \notin Writers
  /\ PoolSize \in Nat \ {0}
  /\ MaxRecords \in Nat /\ MaxAborts \in Nat

VARIABLES
  log,       \* the records of a chain, by seq
  tail,      \* committed xa_chain_tails.tail_hash
  rowLock,   \* transaction that locked the row of xa_chain_tails
  advisory,  \* transaction that holds pg_advisory_xact_lock(effect-chain)
  turn,      \* asyncio locks _chain_locks, by process
  cache,     \* _chain_tail_cache, by process
  pc,        \* where a writer stands
  base,      \* the hashes its records follow
  next,      \* the tail hashes it writes
  part,      \* audit: which CTE of a batch it is at
  retried,   \* audit: the one retry is spent
  settled,   \* audit: an effect of the batch is no longer prepared
  aborts

dbVars == <<log, tail, rowLock, advisory>>
auditVars == <<part, retried, settled>>
vars == <<dbVars, turn, cache, pc, base, next, auditVars, aborts>>

Unread == -1  \* not in the cache
Ghost == -2   \* hash of a record that was computed but never inserted
Null == -3    \* no hash at all

Hashes == Nat \cup {Unread, Ghost}
Record == [prev : Hashes, by : Writers, state : {"open", "committed", "aborted"}]
InTx == {"open", "advised", "read", "inserted", "written", "conflict"}
WriterPhase == {"idle", "queued"} \cup InTx

TypeOK ==
  /\ log \in [Chains -> Seq(Record)]
  /\ tail \in [Chains -> Hashes]
  /\ rowLock \in [Chains -> Writers \cup {Nobody}]
  /\ advisory \in Writers \cup {Nobody}
  /\ turn \in [Processes -> [Chains -> Writers \cup {Nobody}]]
  /\ cache \in [Processes -> [Chains -> Hashes]]
  /\ pc \in [Writers -> WriterPhase]
  /\ base \in [Writers -> [Chains -> Hashes]]
  /\ next \in [Writers -> [Chains -> Hashes]]
  /\ part \in [Writers -> {"alone", "first", "second"}]
  /\ retried \in [Writers -> BOOLEAN]
  /\ settled \in [Writers -> BOOLEAN]
  /\ aborts \in Nat

Empty == [c \in Chains |-> 0]

Init ==
  /\ log = [c \in Chains |-> << >>]
  /\ tail = Empty
  /\ rowLock = [c \in Chains |-> Nobody]
  /\ advisory = Nobody
  /\ turn = [p \in Processes |-> [c \in Chains |-> Nobody]]
  /\ cache = [p \in Processes |-> [c \in Chains |-> Unread]]
  /\ pc = [w \in Writers |-> "idle"]
  /\ base = [w \in Writers |-> Empty]
  /\ next = [w \in Writers |-> Empty]
  /\ part = [w \in Writers |-> "alone"]
  /\ retried = [w \in Writers |-> FALSE]
  /\ settled = [w \in Writers |-> FALSE]
  /\ aborts = 0
------------------------------------------------------------------------------
\* The chains a writer appends to, and the asyncio locks it takes for that.
ChainsOf(w) == CASE Role[w] = "audit" -> Chains
                 [] Role[w] = "gate6" -> {"gate6"}
                 [] OTHER -> {"effect"}
TurnsOf(w) == IF Role[w] = "event" THEN {} ELSE ChainsOf(w)

HasTurns(w) == \A c \in TurnsOf(w) : turn[Home[w]][c] = w

Committed(c) == {n \in DOMAIN log[c] : log[c][n].state = "committed"}

\* Defect: the NULL of an empty chain is not turned into the empty hash.
LastCommittedDefect(c) == IF Committed(c) = {} THEN Null ELSE Max(Committed(c))

\* SELECT record_hash ... ORDER BY seq DESC LIMIT 1, at READ COMMITTED.
LastCommitted(c) == Max(Committed(c) \cup {0})

\* The tail row as a transaction sees it: its own update, or the committed one.
Visible(w, c) == IF rowLock[c] = w THEN next[w][c] ELSE tail[c]

CanLock(w, c) == rowLock[c] \in {Nobody, w}

\* INSERT into the chains of w, after the records in from.
Inserted(w, from) == [c \in Chains |->
  IF c \in ChainsOf(w)
  THEN Append(log[c], [prev |-> from[c], by |-> w, state |-> "open"]) ELSE log[c]]

Finished(l, who, state) ==
  [c \in Chains |-> [n \in DOMAIN l[c] |->
     IF l[c][n].by \in who /\ l[c][n].state = "open"
     THEN [l[c][n] EXCEPT !.state = state] ELSE l[c][n]]]

\* Defect: the advisory lock is taken for the session, not the transaction.
ReleaseDefect(who) ==
  /\ rowLock' = [c \in Chains |-> IF rowLock[c] \in who THEN Nobody ELSE rowLock[c]]
  /\ UNCHANGED advisory
  /\ turn' = [p \in Processes |-> [c \in Chains |->
                IF turn[p][c] \in who THEN Nobody ELSE turn[p][c]]]
  /\ base' = [w \in Writers |-> IF w \in who THEN Empty ELSE base[w]]
  /\ next' = [w \in Writers |-> IF w \in who THEN Empty ELSE next[w]]

\* The transactions of who are over: their locks are free, the asyncio locks
\* too, since the context managers nest.
Release(who) ==
  /\ rowLock' = [c \in Chains |-> IF rowLock[c] \in who THEN Nobody ELSE rowLock[c]]
  /\ advisory' = IF advisory \in who THEN Nobody ELSE advisory
  /\ turn' = [p \in Processes |-> [c \in Chains |->
                IF turn[p][c] \in who THEN Nobody ELSE turn[p][c]]]
  /\ base' = [w \in Writers |-> IF w \in who THEN Empty ELSE base[w]]
  /\ next' = [w \in Writers |-> IF w \in who THEN Empty ELSE next[w]]

Rollback(who) ==
  /\ log' = Finished(log, who, "aborted")
  /\ UNCHANGED tail
  /\ Release(who)

Becomes(w, p) == pc' = [pc EXCEPT ![w] = p]
------------------------------------------------------------------------------
\* There is something to append.  A batch of the audit flusher is one CTE, or
\* completed and new effects together: two CTEs in one transaction.
Enqueue(w) ==
  /\ pc[w] = "idle"
  /\ \A c \in ChainsOf(w) : Len(log[c]) < MaxRecords
  /\ Becomes(w, "queued")
  /\ \E b \in (IF Role[w] = "audit" THEN {"alone", "first"} ELSE {"alone"}) :
       part' = [part EXCEPT ![w] = b]
  /\ retried' = [retried EXCEPT ![w] = FALSE]
  /\ settled' = [settled EXCEPT ![w] = FALSE]
  /\ UNCHANGED <<dbVars, turn, cache, base, next, aborts>>

\* async with self._chain_lock(...): effect before gate6.
TakeTurn(w, c) ==
  /\ pc[w] = "queued"
  /\ c \in TurnsOf(w)
  /\ turn[Home[w]][c] = Nobody
  /\ c = "gate6" /\ "effect" \in TurnsOf(w) => turn[Home[w]]["effect"] = w
  /\ turn' = [turn EXCEPT ![Home[w]][c] = w]
  /\ UNCHANGED <<dbVars, cache, pc, base, next, auditVars, aborts>>

\* pool.acquire and conn.transaction, after the asyncio locks.
BeginTx(w) ==
  /\ pc[w] = "queued"
  /\ HasTurns(w)
  /\ Cardinality({v \in Writers : Home[v] = Home[w] /\ pc[v] \in InTx}) < PoolSize
  /\ Becomes(w, "open")
  /\ UNCHANGED <<dbVars, turn, cache, base, next, auditVars, aborts>>

\* event, note: SELECT pg_advisory_xact_lock.
LockAdvisory(w) ==
  /\ pc[w] = "open"
  /\ Role[w] \in {"event", "note"}
  /\ advisory = Nobody
  /\ advisory' = w
  /\ Becomes(w, "advised")
  /\ UNCHANGED <<log, tail, rowLock, turn, cache, base, next, auditVars, aborts>>

\* event, note: the last committed record, and no look at the tail row.
ReadLast(w) ==
  /\ pc[w] = "advised"
  /\ base' = [base EXCEPT ![w]["effect"] = LastCommitted("effect")]
  /\ Becomes(w, "read")
  /\ UNCHANGED <<dbVars, turn, cache, next, auditVars, aborts>>

\* Defect: the tail row is read without FOR UPDATE.
LockTailDefect(w) ==
  /\ pc[w] = "open"
  /\ Role[w] \in {"effects", "gate6"}
  /\ \E c \in ChainsOf(w) :
       /\ base' = [base EXCEPT ![w][c] = tail[c]]
       /\ next' = [next EXCEPT ![w][c] = tail[c]]
  /\ Becomes(w, "read")
  /\ UNCHANGED <<dbVars, turn, cache, auditVars, aborts>>

\* effects, gate6: SELECT tail_hash ... FOR UPDATE, and no advisory lock.
LockTail(w) ==
  /\ pc[w] = "open"
  /\ Role[w] \in {"effects", "gate6"}
  /\ \E c \in ChainsOf(w) :
       /\ CanLock(w, c)
       /\ rowLock' = [rowLock EXCEPT ![c] = w]
       /\ base' = [base EXCEPT ![w][c] = tail[c]]
       /\ next' = [next EXCEPT ![w][c] = tail[c]]
  /\ Becomes(w, "read")
  /\ UNCHANGED <<log, tail, advisory, turn, cache, auditVars, aborts>>

\* event, note, effects, gate6: INSERT; seq is taken here.
Insert(w) ==
  /\ pc[w] = "read"
  /\ Role[w] # "audit"
  /\ log' = Inserted(w, base[w])
  /\ next' = [next EXCEPT ![w] = [c \in Chains |-> IF c \in ChainsOf(w) THEN Len(log[c]) + 1 ELSE @[c]]]
  /\ Becomes(w, "inserted")
  /\ UNCHANGED <<tail, rowLock, advisory, turn, cache, base, auditVars, aborts>>

\* _write_chain_tail: the UPDATE waits for the row; the cache entry goes.
WriteTail(w) ==
  /\ pc[w] = "inserted"
  /\ \A c \in ChainsOf(w) : CanLock(w, c)
  /\ rowLock' = [c \in Chains |-> IF c \in ChainsOf(w) THEN w ELSE rowLock[c]]
  /\ cache' = [cache EXCEPT ![Home[w]] =
                 [c \in Chains |-> IF c \in ChainsOf(w) THEN Unread ELSE @[c]]]
  /\ Becomes(w, "written")
  /\ UNCHANGED <<log, tail, advisory, turn, base, next, auditVars, aborts>>

\* audit: _cached_tail_pair; if either entry is missing, both are read.
ReadCache(w) ==
  /\ pc[w] = "open"
  /\ Role[w] = "audit"
  /\ LET known == cache[Home[w]]
         pair == IF \E c \in Chains : known[c] = Unread
                 THEN [c \in Chains |-> Visible(w, c)] ELSE known
     IN /\ base' = [base EXCEPT ![w] = pair]
        /\ cache' = [cache EXCEPT ![Home[w]] = pair]
  /\ Becomes(w, "read")
  /\ UNCHANGED <<dbVars, turn, next, auditVars, aborts>>

LockTails(w) ==
  /\ pc[w] = "read"
  /\ Role[w] = "audit"
  /\ \A c \in Chains : CanLock(w, c)
  /\ rowLock' = [c \in Chains |-> w]

\* Defect: valid_tails compares nothing.
TailsMatchDefect(w) == TRUE

\* valid_tails: both locked rows still hold the expected hashes.
TailsMatch(w) == \A c \in Chains : Visible(w, c) = base[w][c]

\* audit: the CTE moves both tails and inserts its records.  The cache follows
\* before the commit.
SwapTails(w) ==
  /\ LockTails(w)
  /\ TailsMatch(w)
  /\ ~settled[w]
  /\ log' = Inserted(w, base[w])
  /\ next' = [next EXCEPT ![w] = [c \in Chains |-> Len(log[c]) + 1]]
  /\ cache' = [cache EXCEPT ![Home[w]] = [c \in Chains |-> Len(log[c]) + 1]]
  /\ IF part[w] = "first"
     THEN part' = [part EXCEPT ![w] = "second"] /\ Becomes(w, "open")
     ELSE UNCHANGED part /\ Becomes(w, "written")
  /\ retried' = [retried EXCEPT ![w] = FALSE]
  /\ UNCHANGED <<tail, advisory, turn, base, settled, aborts>>

\* audit: the tails moved, but an effect was settled by someone else, so no
\* record is inserted; the refresh then caches the transaction's own tails.
SwapNothing(w) ==
  /\ LockTails(w)
  /\ TailsMatch(w)
  /\ part[w] # "second"
  /\ settled' = [settled EXCEPT ![w] = TRUE]
  /\ next' = [next EXCEPT ![w] = [c \in Chains |-> Ghost]]
  /\ cache' = [cache EXCEPT ![Home[w]] = [c \in Chains |-> Ghost]]
  /\ Becomes(w, "conflict")
  /\ UNCHANGED <<log, tail, advisory, turn, base, part, retried, aborts>>

\* audit: a tail is not the expected one; _refresh_tail_pair.
SwapConflict(w) ==
  /\ LockTails(w)
  /\ ~TailsMatch(w)
  /\ next' = [next EXCEPT ![w] = [c \in Chains |-> Visible(w, c)]]
  /\ cache' = [cache EXCEPT ![Home[w]] = [c \in Chains |-> Visible(w, c)]]
  /\ Becomes(w, "conflict")
  /\ UNCHANGED <<log, tail, advisory, turn, base, auditVars, aborts>>

\* except _ChainTailConflict: once more.  A CTE of its own starts over in a new
\* transaction; in a mixed batch the retry stays in the open one.
Retry(w) ==
  /\ pc[w] = "conflict"
  /\ ~retried[w]
  /\ retried' = [retried EXCEPT ![w] = TRUE]
  /\ IF part[w] = "alone"
     THEN Rollback({w}) /\ Becomes(w, "queued")
     ELSE Becomes(w, "open") /\ UNCHANGED <<dbVars, turn, base, next>>
  /\ UNCHANGED <<cache, part, settled, aborts>>

\* The second conflict fails the batch.
GiveUp(w) ==
  /\ pc[w] = "conflict"
  /\ retried[w]
  /\ Rollback({w})
  /\ Becomes(w, "idle")
  /\ UNCHANGED <<cache, auditVars, aborts>>

Commit(w) ==
  /\ pc[w] = "written"
  /\ log' = Finished(log, {w}, "committed")
  /\ tail' = [c \in Chains |-> IF c \in ChainsOf(w) THEN next[w][c] ELSE tail[c]]
  /\ Release({w})
  /\ Becomes(w, "idle")
  /\ UNCHANGED <<cache, auditVars, aborts>>

\* Any statement may fail, the commit included.
Abort(w) ==
  /\ pc[w] \in InTx
  /\ aborts < MaxAborts
  /\ aborts' = aborts + 1
  /\ Rollback({w})
  /\ Becomes(w, "idle")
  /\ UNCHANGED <<cache, auditVars>>

\* A process dies: PostgreSQL rolls its transactions back; its memory is gone.
ProcessDies(p) ==
  /\ aborts < MaxAborts
  /\ aborts' = aborts + 1
  /\ LET who == {w \in Writers : Home[w] = p}
     IN /\ Rollback(who)
        /\ pc' = [w \in Writers |-> IF w \in who THEN "idle" ELSE pc[w]]
  /\ cache' = [cache EXCEPT ![p] = [c \in Chains |-> Unread]]
  /\ UNCHANGED auditVars
------------------------------------------------------------------------------
Waiting(w) == \/ \E c \in Chains : TakeTurn(w, c)
              \/ BeginTx(w) \/ LockAdvisory(w) \/ LockTail(w) \/ WriteTail(w)
              \/ SwapTails(w) \/ SwapNothing(w) \/ SwapConflict(w)

Running(w) == \/ ReadLast(w) \/ Insert(w) \/ ReadCache(w) \/ Retry(w) \/ GiveUp(w) \/ Commit(w)

Next == \/ \E w \in Writers : Enqueue(w) \/ Waiting(w) \/ Running(w) \/ Abort(w)
        \/ \E p \in Processes : ProcessDies(p)

Spec == Init /\ [][Next]_vars

\* asyncio locks, the pool and PostgreSQL's lock queues serve in order of
\* arrival, so nobody waits for ever while others come and go.
FairSpec == Spec /\ \A w \in Writers : SF_vars(Waiting(w)) /\ WF_vars(Running(w))
------------------------------------------------------------------------------
(* Properties.                                                              *)

\* What is committed is one chain in the order of seq, and the tail row is its end.
Linear(c) ==
  /\ \A n \in Committed(c) :
       log[c][n].prev = Max({m \in Committed(c) : m < n} \cup {0})
  /\ tail[c] = LastCommitted(c)

\* The Effect chain never forks.  The architecture document says the advisory lock
\* ensures it across processes and replicas.
EffectIsLinear == Linear("effect")

\* On either chain a record follows a record that is there, or starts the chain:
\* nothing hangs on a hash that was rolled back.
EveryLinkStands == \A c \in Chains :
  /\ tail[c] \in Committed(c) \cup {0}
  /\ \A n \in Committed(c) : log[c][n].prev \in 0..(n - 1)
                             /\ log[c][n].prev \in Committed(c) \cup {0}

\* A chain as a reader sees it.
RecordsOf(c) == {[hash |-> n, prev |-> log[c][n].prev] : n \in Committed(c)}
Gate6Log == INSTANCE HashChain WITH records <- RecordsOf("gate6"), end <- tail["gate6"]

\* The Gate6 chain never forks and only grows, a whole transaction at a time, although
\* only tail rows are locked and the audit flushers trust caches that may be stale or
\* hold hashes that were rolled back.  An exporter that goes on from the last record it
\* saw misses none.
Gate6OnlyGrows == Gate6Log!ChainSpec

\* The turn on c comes next for w: effect before gate6.
NextTurn(w, c) == /\ c \in TurnsOf(w) /\ turn[Home[w]][c] # w
                  /\ c = "gate6" /\ "effect" \in TurnsOf(w) => turn[Home[w]]["effect"] = w

\* w is about to lock tail rows.
NeedsRows(w) == \/ pc[w] = "open" /\ Role[w] \in {"effects", "gate6"}
                \/ pc[w] = "read" /\ Role[w] = "audit"
                \/ pc[w] = "inserted"

\* What w needs for its next step, v has: an asyncio lock, a connection, the
\* advisory lock or a tail row.
WaitsFor(w, v) ==
  \/ pc[w] = "queued" /\ \E c \in Chains : NextTurn(w, c) /\ turn[Home[w]][c] = v
  \/ pc[w] = "queued" /\ HasTurns(w) /\ Home[v] = Home[w] /\ pc[v] \in InTx
  \/ pc[w] = "open" /\ Role[w] \in {"event", "note"} /\ advisory = v
  \/ NeedsRows(w) /\ v # w /\ \E c \in ChainsOf(w) : rowLock[c] = v

\* All that w needs is free.
CanGoOn(w) ==
  /\ pc[w] # "idle"
  /\ pc[w] = "queued" =>
       \/ \E c \in Chains : NextTurn(w, c) /\ turn[Home[w]][c] = Nobody
       \/ /\ HasTurns(w)
          /\ Cardinality({v \in Writers : Home[v] = Home[w] /\ pc[v] \in InTx}) < PoolSize
  /\ pc[w] = "open" /\ Role[w] \in {"event", "note"} => advisory = Nobody
  /\ NeedsRows(w) => \A c \in ChainsOf(w) : CanLock(w, c)

\* How far a writer is from the end of what it may have to wait for.
Distance(w) ==
  IF \E c \in Chains : rowLock[c] = w THEN 0
  ELSE IF advisory = w THEN 1
  ELSE IF pc[w] \in InTx THEN 2
  ELSE IF HasTurns(w) THEN 3
  ELSE IF turn[Home[w]]["effect"] = w THEN 4
  ELSE 5

\* Locks of four kinds are taken in three orders, and connections are short, but no
\* writers ever wait for one another in a circle: whoever cannot go on waits, only
\* for writers at work, and these are nearer to their end.
NoCircularWait ==
  /\ \A w, v \in Writers : WaitsFor(w, v) => pc[v] # "idle" /\ Distance(v) < Distance(w)
  /\ \A w \in Writers : pc[w] # "idle" => CanGoOn(w) \/ \E v \in Writers : WaitsFor(w, v)

\* Every append comes to an end, committed or failed: no set of writers waits for
\* one another, with as few connections as there may be.
EveryAppendEnds == \A w \in Writers : pc[w] # "idle" ~> pc[w] = "idle"
==============================================================================
