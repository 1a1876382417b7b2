--------------------------- MODULE MCIdempotency ---------------------------
(* Idempotency on a small instance: four requests, two on each instance.   *)
EXTENDS Idempotency, TLC

CONSTANTS r1, r2, r3, r4, i1, i2

MCHomeOf == [r \in Requests |-> IF r \in {r1, r2} THEN i1 ELSE i2]

\* The requests of an instance are interchangeable.
Symmetry == Permutations({r1, r2}) \cup Permutations({r3, r4})
=============================================================================
