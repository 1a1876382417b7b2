-------------------------- MODULE MCLedgerIngestion --------------------------
(* Small instances of LedgerIngestion.                                      *)
EXTENDS LedgerIngestion

CONSTANTS a, b

Ledger(n, hash, prev) == [number |-> n, hash |-> hash, prev |-> prev]

\* Ledger n of the history that turns from branch a to branch b at number f.
Branch(n, f) == Ledger(n, IF n < f THEN <<a, n>> ELSE <<b, n>>,
                          IF n <= f THEN <<a, n - 1>> ELSE <<b, n - 1>>)

Straight(len) == {Branch(n, len + 1) : n \in 1 .. len}
Parting(len, f) == {Branch(n, f) : n \in 1 .. len}

\* Ids of the operations of ledger n start with n.  The ledger before the fork
\* has none; operation 2 moves no value; the rivals share operation 1.
MCOpsOf == [l \in Ledgers |->
    {10 * l.number + i : i \in IF l.number = 1 THEN {}
                                ELSE IF l = Branch(2, 2) THEN 1 .. 3 ELSE 1 .. 2}]
MCPaymentOps == {10 * n + i : n \in 1 .. 5, i \in {1, 3}}

\* Two members that part after the first ledger: one ledger on one side, two
\* on the other.
TwoMembers == {"h1", "h2"}
ShallowLedgers == Straight(2) \cup Parting(3, 2)
ShallowHistory == [v \in TwoMembers |-> IF v = "h1" THEN Straight(2) ELSE Parting(3, 2)]

=============================================================================
