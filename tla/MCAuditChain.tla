---------------------------- MODULE MCAuditChain ----------------------------
(* Small instances of AuditChain: two server instances.                     *)
EXTENDS AuditChain, TLC

CONSTANTS i1, i2, r1, r2, v1, v2, g1, a1, a2, e1, e2

\* Names that end in 1 are at home on the first instance.
HomeOfAll == [x \in Recorders \cup Jobs |-> IF x \in {r1, v1, g1, a1} THEN i1 ELSE i2]

\* Nothing tells one event from another.
EventsAlike == Permutations(Events)

=============================================================================
