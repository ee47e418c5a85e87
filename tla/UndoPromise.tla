----------------------------- MODULE UndoPromise -----------------------------
(***************************************************************************)
(* What the control plane promises about one side effect, with no leases,  *)
(* workers, calls or tables: a side effect that can be undone is undone    *)
(* only after one person asked for it and another agreed, the undo takes   *)
(* hold at most once, and "undone" is never said of an effect that still   *)
(* stands.                                                                 *)
(***************************************************************************)
CONSTANTS Effects, Subjects, NoOne

VARIABLES
  phase,     \* what the books say of an effect
  ticket,    \* what is true of it at the business API
  asker,     \* who asked for the undo
  approver   \* who agreed or refused

vars == <<phase, ticket, asker, approver>>

Init ==
  /\ phase = [e \in Effects |-> "absent"]
  /\ ticket = [e \in Effects |-> "none"]
  /\ asker = [e \in Effects |-> NoOne]
  /\ approver = [e \in Effects |-> NoOne]

Move(e, from, to) == phase[e] = from /\ phase' = [phase EXCEPT ![e] = to]

Intend(e) == Move(e, "absent", "intended") /\ UNCHANGED <<ticket, asker, approver>>

\* The side effect happens only after the intent is on record, and may happen
\* long after the record was closed for manual treatment.
Happen(e) ==
  /\ phase[e] # "absent"
  /\ ticket[e] = "none"
  /\ ticket' = [ticket EXCEPT ![e] = "open"]
  /\ UNCHANGED <<phase, asker, approver>>

\* "Can be undone" is said only of what has happened.
Offer(e) ==
  /\ ticket[e] = "open"
  /\ Move(e, "intended", "undoable")
  /\ UNCHANGED <<ticket, asker, approver>>

GiveUp(e) == Move(e, "intended", "manual") /\ UNCHANGED <<ticket, asker, approver>>

Ask(e, s) ==
  /\ Move(e, "undoable", "asked")
  /\ asker' = [asker EXCEPT ![e] = s]
  /\ UNCHANGED <<ticket, approver>>

Decide(e, s, answer) ==
  /\ Move(e, "asked", answer)
  /\ s # asker[e]
  /\ approver' = [approver EXCEPT ![e] = s]
  /\ UNCHANGED <<ticket, asker>>

Undo(e) ==
  /\ phase[e] \in {"approved", "failed"}
  /\ ticket[e] = "open"
  /\ ticket' = [ticket EXCEPT ![e] = "cancelled"]
  /\ UNCHANGED <<phase, asker, approver>>

Report(e) ==
  /\ ticket[e] = "cancelled"
  /\ Move(e, "approved", "undone")
  /\ UNCHANGED <<ticket, asker, approver>>

Fail(e) == Move(e, "approved", "failed") /\ UNCHANGED <<ticket, asker, approver>>

Retry(e) == Move(e, "failed", "approved") /\ UNCHANGED <<ticket, asker, approver>>

Next == \E e \in Effects :
  \/ Intend(e) \/ Happen(e) \/ Offer(e) \/ GiveUp(e)
  \/ Undo(e) \/ Report(e) \/ Fail(e) \/ Retry(e)
  \/ \E s \in Subjects : \/ Ask(e, s)
                         \/ \E answer \in {"approved", "refused"} : Decide(e, s, answer)

Spec == Init /\ [][Next]_vars
==============================================================================
