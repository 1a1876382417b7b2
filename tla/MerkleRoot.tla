----------------------------- MODULE MerkleRoot -----------------------------
(***************************************************************************)
(* computeMerkleRoot of services/tamperEvidentAuditService.ts, run side by *)
(* side on two lists of one length: the entry hashes of a range when it    *)
(* was anchored and when verifyAnchorLocally recomputes it, which compares *)
(* the counts too.  A parent's hash stands for its two children.           *)
(***************************************************************************)
EXTENDS Naturals, Sequences

CONSTANTS
    Leaves,     \* entry hashes
    Lists       \* the lists of them that are considered

ASSUME ListsOK == Lists \subseteq Seq(Leaves) \ {<<>>}

VARIABLES
    leaves,     \* the two lists
    levels      \* the level each computation has reached

vars == <<leaves, levels>>

Sides == {"anchored", "local"}

Init ==
    /\ leaves \in [Sides -> Lists]
    /\ Len(leaves["anchored"]) = Len(leaves["local"])
    /\ levels = leaves

\* Mutant: an odd node at the end of a level is left out.
OddDropped(s) == [i \in 1 .. Len(s) \div 2 |-> <<s[2 * i - 1], s[2 * i]>>]

\* An odd node at the end of a level is paired with itself.
Parents(s) ==
    [i \in 1 .. (Len(s) + 1) \div 2 |-> <<s[2 * i - 1], s[IF 2 * i <= Len(s) THEN 2 * i ELSE 2 * i - 1]>>]

\* One round of the while loop, on both sides.
Climb ==
    /\ Len(levels["anchored"]) > 1
    /\ levels' = [x \in Sides |-> Parents(levels[x])]
    /\ UNCHANGED leaves

Spec == Init /\ [][Climb]_vars

-----------------------------------------------------------------------------

\* A change of any entry hash of the range, at any place, reaches the root: on
\* every level, and so at the root, the two sides differ if the lists do.
RootTellsRange == levels["anchored"] = levels["local"] <=> leaves["anchored"] = leaves["local"]

=============================================================================
