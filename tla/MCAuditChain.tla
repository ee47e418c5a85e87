----------------------------- MODULE MCAuditChain -----------------------------
(* Small instances of AuditChain for TLC. *)
EXTENDS AuditChain, TLC

CONSTANTS api1, api2, event1, event2, gate1, audit2, effects1, nobody

TwoProcesses == {api1, api2}

\* A Gate6 flusher of one API process, the audit flusher and the undo requests of
\* another, which share a connection: every kind of lock, and every chain has
\* writers that exclude each other and writers that do not.
MixedKinds == {gate1, audit2, event2}
\* One undo request and one new effect, in one process.
TwoKinds == {event1, effects1}

HomeOf(w) == IF w \in {audit2, event2} THEN api2 ELSE api1
RoleOf(w) == CASE w = audit2 -> "audit"
               [] w \in {event1, event2} -> "event"
               [] w = effects1 -> "effects"
               [] w = gate1 -> "gate6"
Homes == [w \in Writers |-> HomeOf(w)]
RolesOf == [w \in Writers |-> RoleOf(w)]
==============================================================================
