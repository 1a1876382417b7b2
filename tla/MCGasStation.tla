---------------------------- MODULE MCGasStation ----------------------------
(* GasStation on small instances, and the mistakes its properties exclude. *)
EXTENDS GasStation

CONSTANTS i1, i2, s1, p1, p2, r1, r2, r3

\* Two inner transactions of one student.
MCOwner == [i \in {i1, i2} |-> s1]

\* The second costs twice as much; the quota below pays for either twice, but not for all.
MCFee == [i \in {i1, i2} |-> IF i = i1 THEN 1 ELSE 2]

\* Two requests on one pod, and a third on another pod with the first one's transaction.
MCPod == [r \in {r1, r2, r3} |-> IF r = r3 THEN p2 ELSE p1]
MCInner == [r \in {r1, r2, r3} |-> IF r = r2 THEN i2 ELSE i1]
=============================================================================
