--------------------------- MODULE MCStateChannel ---------------------------
(* Small instances of StateChannel.                                         *)
EXTENDS StateChannel, TLC

CONSTANTS c1, m1, m2

MCReward == 2

\* Requests are interchangeable, and so are transaction hashes.
Symmetry == Permutations(Requests) \cup Permutations(TxIds)

Signed(c, n, ms, student, final) ==
    [channel |-> c, sequence |-> n, milestones |-> ms, student |-> student,
     mentor |-> 1, isFinal |-> final, signedBy |-> Parties]

\* Two rival first states, successors that keep or drop the milestone of one of
\* them, a final one, and one whose split is more than the reward.
RivalStates ==
    {Signed(c1, 1, {m1}, 0, FALSE), Signed(c1, 1, {m2}, 1, FALSE),
     Signed(c1, 2, {m1}, 1, FALSE), Signed(c1, 2, {m1, m2}, 1, TRUE),
     Signed(c1, 2, {m1, m2}, 2, FALSE), Signed(c1, 3, {m1, m2}, 1, FALSE)}

\* A final state that answers a dispute.
FinalStates == {Signed(c1, 1, {m1}, 0, FALSE), Signed(c1, 2, {m1}, 0, TRUE)}

=============================================================================
