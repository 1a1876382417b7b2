---------------------------- MODULE MCMerkleRoot ----------------------------
(* All pairs of lists of up to six hashes.                                  *)
EXTENDS MerkleRoot

CONSTANTS h1, h2

Short == UNION {[1 .. n -> Leaves] : n \in 1 .. 6}

=============================================================================
