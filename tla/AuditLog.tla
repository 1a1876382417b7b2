------------------------------ MODULE AuditLog ------------------------------
(***************************************************************************)
(* What the audit chain promises while its tables are left alone: a log    *)
(* that only grows, and a mark of how much of it is sealed on the ledger,  *)
(* which never passes the end of the log.  The mark moves forward, except  *)
(* that the record of a seal may be taken back, of each seal once.         *)
(***************************************************************************)
EXTENDS Naturals, Sequences

CONSTANTS Events, Seals

VARIABLES
    log,        \* the events recorded, in order
    sealed,     \* how many of them a published Merkle root covers
    recalled    \* the seals whose record was taken back

vars == <<log, sealed, recalled>>

Init ==
    /\ log = <<>>
    /\ sealed = 0
    /\ recalled = {}

Record(e) ==
    /\ log' = Append(log, e)
    /\ UNCHANGED <<sealed, recalled>>

Seal(n) ==
    /\ sealed < n
    /\ n <= Len(log)
    /\ sealed' = n
    /\ UNCHANGED <<log, recalled>>

TakeBack(k) ==
    /\ k \notin recalled
    /\ recalled' = recalled \cup {k}
    /\ sealed' \in 0 .. sealed
    /\ UNCHANGED log

Next ==
    \/ \E e \in Events : Record(e)
    \/ \E n \in 1 .. Len(log) : Seal(n)
    \/ \E k \in Seals : TakeBack(k)

Spec == Init /\ [][Next]_vars

=============================================================================
