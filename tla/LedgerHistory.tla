---------------------------- MODULE LedgerHistory ----------------------------
(***************************************************************************)
(* What the ingestion of Stellar ledgers promises its readers.  The        *)
(* indexed ledgers are a stack in the order of their sequences.  A ledger  *)
(* comes onto the stack at the top and without payments, and they are      *)
(* credited to it one after the other while it is on top.  Ledgers leave   *)
(* from the top, after everything credited to them was taken back.  A      *)
(* payment is credited to one ledger at a time.                            *)
(***************************************************************************)
EXTENDS Naturals

CONSTANTS
    Ledgers,        \* ledger records, each with its number
    IdsAt           \* number -> the ids of operations a ledger of that number can have

VARIABLES
    indexed,        \* the ledgers on the stack
    credited        \* pairs <<ledger, operation>>

vars == <<indexed, credited>>

Init ==
    /\ indexed = {}
    /\ credited = {}

\* What remains when the stack is cut is below all that goes.
IsCut(kept) == \A m \in kept, d \in indexed \ kept : m.number < d.number

\* What is credited to the ledgers above a cut is taken back.
TakeBack(kept) ==
    /\ IsCut(kept)
    /\ credited' = {p \in credited : p[1] \in kept}
    /\ UNCHANGED indexed

\* Ledgers to which nothing is credited leave the top.
Drop(kept) ==
    /\ IsCut(kept)
    /\ \A p \in credited : p[1] \in kept
    /\ indexed' = kept
    /\ UNCHANGED credited

Push(l) ==
    /\ \A m \in indexed : m.number < l.number
    /\ indexed' = indexed \cup {l}
    /\ UNCHANGED credited

Credit(l) ==
    /\ \A m \in indexed : m.number <= l.number
    /\ \E o \in IdsAt[l.number] :
            /\ \A p \in credited : p[2] # o
            /\ credited' = credited \cup {<<l, o>>}
    /\ UNCHANGED indexed

Next ==
    \/ \E kept \in SUBSET indexed : TakeBack(kept) \/ Drop(kept)
    \/ \E l \in Ledgers \ indexed : Push(l)
    \/ \E l \in indexed : Credit(l)

Spec == Init /\ [][Next]_vars

=============================================================================
