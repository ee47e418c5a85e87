------------------------------ MODULE HashChain ------------------------------
(***************************************************************************)
(* What a hash chain promises to whoever reads or exports it, whatever     *)
(* transactions, locks and caches stand behind it.  A record is a hash and *)
(* the hash it names; hashes are numbered in the order of seq.             *)
(***************************************************************************)
EXTENDS Integers

VARIABLES
  records,  \* the records a reader can see
  end       \* the hash the next record will name

chainVars == <<records, end>>

IsLast(h, S) == h \in S /\ \A x \in S : x <= h

ChainInit == records = {} /\ end = 0

New == records' \ records
Hashes(S) == {r.hash : r \in S}

\* A transaction becomes visible.  Its records come after all that was visible, the
\* first names the end of the chain and each other one the one before it.
Extend ==
  /\ records \subseteq records'
  /\ \A r \in New :
       /\ r.hash > end
       /\ IsLast(r.prev, {end} \cup {h \in Hashes(New) : h < r.hash})
  /\ IsLast(end', Hashes(New))

ChainSpec == ChainInit /\ [][Extend]_chainVars
==============================================================================
