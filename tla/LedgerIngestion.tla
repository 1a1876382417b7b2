--------------------------- MODULE LedgerIngestion ---------------------------
(***************************************************************************)
(* The ingestion of Stellar ledgers and their payments into Postgres:      *)
(* jobs/horizonLedgerIngestionEngine.ts, fed by any number of              *)
(* jobs/horizonLedgerIngestionWorker.ts polling a load-balanced pool of    *)
(* Horizon servers.                                                        *)
(*                                                                         *)
(* Every request of a worker may be answered by another member of the      *)
(* pool.  A member knows one history of ledgers, up to the tip it has      *)
(* caught up with; the histories of two members may part.  An engine call  *)
(* is a transaction that takes the advisory lock of the chain first and    *)
(* keeps it to the end, but the client that horizonLedgerIngestionCron     *)
(* passes runs every model operation outside of it (db/index.ts): each     *)
(* write commits by itself, and is an action here.  torn is history: no    *)
(* code reads it.                                                          *)
(***************************************************************************)
EXTENDS Naturals, FiniteSets

CONSTANTS
    Workers,        \* worker processes
    Members,        \* members of the Horizon pool
    Ledgers,        \* the ledgers any of them may serve
    History,        \* member -> the ledgers of its history
    OpsOf,          \* ledger -> the ids of its operations
    PaymentOps,     \* those of the operations that move value
    PageSize,       \* operations on a page (limit=200)
    BatchSize,      \* ledgers of a poll
    StartSequence,  \* where an empty index starts, or Unset
    Unset,
    Faults,         \* which of {"fetch", "db", "crash"} occur
    MaxFaults       \* how often, in all

Operations == UNION {OpsOf[l] : l \in Ledgers}

ASSUME LedgersOK ==
    \A l \in Ledgers : l.number \in Nat \ {0}

\* A history has one ledger for each number.
ASSUME HistoryOK ==
    /\ History \in [Members -> SUBSET Ledgers]
    /\ \A v \in Members : \A l, m \in History[v] : l.number = m.number => l = m

\* Horizon's operation ids start with the sequence of their ledger.
ASSUME OpsOK ==
    /\ OpsOf \in [Ledgers -> SUBSET Nat]
    /\ \A l, m \in Ledgers : OpsOf[l] \cap OpsOf[m] # {} => l.number = m.number

ASSUME BoundsOK ==
    /\ PageSize \in Nat \ {0} /\ BatchSize \in Nat \ {0} /\ MaxFaults \in Nat
    /\ Unset \notin Nat
    /\ StartSequence \in Nat \cup {Unset}

VARIABLES
    status,     \* ledger -> its row in processed_blocks
    events,     \* rows of bridge_events: an operation and the ledger it belongs to
    torn,       \* ledgers in force whose payments a failure cut short (history)
    tip,        \* member -> the last sequence it serves
    pc,         \* worker -> the await it is at
    cursor,     \* worker -> the sequence it polls after
    batch,      \* worker -> the ledgers of its poll not yet dealt with
    served,     \* worker -> the payments it has fetched for the next of them, not yet written
    faults      \* faults so far

index  == <<status, events, torn>>
locals == <<pc, cursor, batch, served>>
vars   == <<status, events, torn, tip, pc, cursor, batch, served, faults>>

Fault(kind) ==
    /\ kind \in Faults
    /\ faults < MaxFaults
    /\ faults' = faults + 1

Init ==
    /\ status = [l \in Ledgers |-> "absent"]
    /\ events = {}
    /\ torn = {}
    /\ tip = [v \in Members |-> 0]
    /\ pc = [w \in Workers |-> "idle"]
    /\ cursor = [w \in Workers |-> 0]
    /\ batch = [w \in Workers |-> {}]
    /\ served = [w \in Workers |-> {}]
    /\ faults = 0

-----------------------------------------------------------------------------
(* The Horizon pool (external).                                            *)

Serves(v) == {l \in History[v] : l.number <= tip[v]}

\* A member catches up with one more ledger of its history.
MemberAdvances(v) ==
    /\ \E l \in History[v] : l.number > tip[v]
    /\ tip' = [tip EXCEPT ![v] = @ + 1]
    /\ UNCHANGED <<index, locals, faults>>

-----------------------------------------------------------------------------
(* The engine: what ingestLedger reads and decides.                        *)

Active == {l \in Ledgers : status[l] = "active"}

\* getLastIngestedLedger, and the findFirst of ingestLedger.
Last == CHOOSE l \in Active : \A m \in Active : m.number <= l.number

\* Mutant: a fork is seen at the sequence after the last one only.
ForkAfterLast(l) ==
    /\ Active # {}
    /\ l.number = Last.number + 1
    /\ l.prev # Last.hash

ForkDetected(l) ==
    /\ Active # {}
    /\ \/ l.number <= Last.number /\ l # Last
       \/ l.number = Last.number + 1 /\ l.prev # Last.hash

\* Mutant: only the ledger at the sequence itself is rolled back.
RollbackOne(l) ==
    IF ForkDetected(l) THEN {m \in Active : m.number = l.number} ELSE {}

\* rollbackFrom(min(sequence, last.blockNumber))
RolledBack(l) ==
    IF ForkDetected(l)
      THEN {m \in Active : m.number >= l.number \/ m.number >= Last.number}
      ELSE {}

-----------------------------------------------------------------------------
(* The worker: pollOnce.                                                   *)

\* Mutant: the cursor of an empty index is not resolved.
PollWithoutStart(w) ==
    /\ pc[w] = "idle"
    /\ pc' = [pc EXCEPT ![w] = "fetch"]
    /\ cursor' = [cursor EXCEPT ![w] = IF Active = {} THEN StartSequence ELSE Last.number]
    /\ UNCHANGED <<index, tip, batch, served, faults>>

PollBegins(w) ==
    /\ pc[w] = "idle"
    /\ IF Active = {}
         THEN /\ pc' = [pc EXCEPT ![w] = "start"]
              /\ UNCHANGED cursor
         ELSE /\ pc' = [pc EXCEPT ![w] = "fetch"]
              /\ cursor' = [cursor EXCEPT ![w] = Last.number]
    /\ UNCHANGED <<index, tip, batch, served, faults>>

\* Mutant: an empty index starts after the latest ledger.
StartAfterLatest(v) == IF StartSequence # Unset THEN StartSequence ELSE tip[v]

\* One behind the latest ledger of the member that answers.
StartAt(v) ==
    IF StartSequence # Unset THEN StartSequence
    ELSE IF tip[v] = 0 THEN 0 ELSE tip[v] - 1

ResolveStart(w, v) ==
    /\ pc[w] = "start"
    /\ pc' = [pc EXCEPT ![w] = "fetch"]
    /\ cursor' = [cursor EXCEPT ![w] = StartAt(v)]
    /\ UNCHANGED <<index, tip, batch, served, faults>>

FetchLedgers(w, v) ==
    LET page == {l \in Serves(v) : cursor[w] < l.number /\ l.number <= cursor[w] + BatchSize}
    IN  /\ pc[w] = "fetch"
        /\ batch' = [batch EXCEPT ![w] = page]
        /\ pc' = [pc EXCEPT ![w] = IF page = {} THEN "idle" ELSE "payments"]
        /\ UNCHANGED <<index, tip, cursor, served, faults>>

\* The ledgers of a page are dealt with in ascending order.
NextOf(w) == CHOOSE l \in batch[w] : \A m \in batch[w] : l.number <= m.number

Payments(l) == OpsOf[l] \cap PaymentOps

\* The first page of a ledger's operations, filtered.
FirstPage(l) ==
    {o \in OpsOf[l] : Cardinality({p \in OpsOf[l] : p < o}) < PageSize} \cap PaymentOps

\* The operations are asked for by sequence, from whichever member answers.
FetchPayments(w, v) ==
    /\ pc[w] = "payments"
    /\ \E l \in Serves(v) :
            /\ l.number = NextOf(w).number
            /\ served' = [served EXCEPT ![w] = FirstPage(l)]
    /\ pc' = [pc EXCEPT ![w] = "ingest"]
    /\ UNCHANGED <<index, tip, cursor, batch, faults>>

\* The worker is done with the next ledger of its batch.
Proceed(w) ==
    LET rest == batch[w] \ {NextOf(w)}
    IN  /\ batch' = [batch EXCEPT ![w] = rest]
        /\ served' = [served EXCEPT ![w] = {}]
        /\ pc' = [pc EXCEPT ![w] = IF rest = {} THEN "idle" ELSE "payments"]
        /\ UNCHANGED cursor

-----------------------------------------------------------------------------
(* The engine: what ingestLedger writes.                                   *)

\* w is inside its transaction, and so holds the advisory lock.
Locked(w) == pc[w] \in {"delete", "mark", "upsert", "pay"}

Goto(w, label) == pc' = [pc EXCEPT ![w] = label]

\* pg_advisory_xact_lock, the reads and what follows from them; nobody else
\* writes to the index while the lock is held.
TakeLock(w) ==
    /\ pc[w] = "ingest"
    /\ \A v \in Workers : ~Locked(v)
    /\ IF NextOf(w) \in Active
         THEN Proceed(w)
         ELSE /\ Goto(w, IF RolledBack(NextOf(w)) # {} THEN "delete" ELSE "upsert")
              /\ UNCHANGED <<cursor, batch, served>>
    /\ UNCHANGED <<index, tip, faults>>

\* Mutant: the events of rolled-back ledgers stay.
EventsKept(w) ==
    /\ pc[w] = "delete"
    /\ Goto(w, "mark")
    /\ UNCHANGED <<index, tip, cursor, batch, served, faults>>

\* rollbackFrom: deleteMany
DeleteEvents(w) ==
    /\ pc[w] = "delete"
    /\ events' = {e \in events : e.ledger \notin RolledBack(NextOf(w))}
    /\ Goto(w, "mark")
    /\ UNCHANGED <<status, torn, tip, cursor, batch, served, faults>>

\* rollbackFrom: updateMany
MarkRolledBack(w) ==
    LET dropped == RolledBack(NextOf(w))
    IN  /\ pc[w] = "mark"
        /\ status' = [m \in Ledgers |-> IF m \in dropped THEN "rolled_back" ELSE status[m]]
        /\ torn' = torn \ dropped
        /\ Goto(w, "upsert")
        /\ UNCHANGED <<events, tip, cursor, batch, served, faults>>

\* Mutant: a ledger that was seen before gets no payments again.
UpsertLedgerOnce(w) ==
    /\ pc[w] = "upsert"
    /\ status' = [status EXCEPT ![NextOf(w)] = "active"]
    /\ served' = [served EXCEPT ![w] = IF status[NextOf(w)] = "absent" THEN @ ELSE {}]
    /\ Goto(w, "pay")
    /\ UNCHANGED <<events, torn, tip, cursor, batch, faults>>

UpsertLedger(w) ==
    /\ pc[w] = "upsert"
    /\ status' = [status EXCEPT ![NextOf(w)] = "active"]
    /\ Goto(w, "pay")
    /\ UNCHANGED <<events, torn, tip, cursor, batch, served, faults>>

\* The payments in their order; an upsert leaves the ledger of an event that is
\* there as it is.
UpsertPayment(w) ==
    /\ pc[w] = "pay"
    /\ \E o \in served[w] :
            /\ \A p \in served[w] : o <= p
            /\ events' = IF \E e \in events : e.op = o
                           THEN events
                           ELSE events \cup {[op |-> o, ledger |-> NextOf(w)]}
            /\ served' = [served EXCEPT ![w] = @ \ {o}]
    /\ UNCHANGED <<status, torn, tip, pc, cursor, batch, faults>>

\* The transaction ends, and gives the lock back.
Commit(w) ==
    /\ pc[w] = "pay"
    /\ served[w] = {}
    /\ Proceed(w)
    /\ UNCHANGED <<index, tip, faults>>

Ingest(w) ==
    \/ TakeLock(w) \/ DeleteEvents(w) \/ MarkRolledBack(w)
    \/ UpsertLedger(w) \/ UpsertPayment(w) \/ Commit(w)

\* The ledgers in force that w has left with a part of their payments.
Halfway(w) ==
    IF pc[w] = "mark" THEN RolledBack(NextOf(w))
    ELSE IF pc[w] = "pay" /\ served[w] # {} THEN {NextOf(w)}
    ELSE {}

\* The lock is given back; what has been written stays.
LeaveHalfway(w) ==
    /\ torn' = torn \cup Halfway(w)
    /\ UNCHANGED <<status, events>>

-----------------------------------------------------------------------------
(* Failures.                                                               *)

\* The catch of the loop: the request for the payments fails (or its member
\* has no such ledger), or an operation of the transaction does; the next ledger
\* is tried.
LedgerFails(w) ==
    /\ \/ /\ pc[w] = "payments"
          /\ \E v \in Members : \A l \in Serves(v) : l.number # NextOf(w).number
          /\ UNCHANGED faults
       \/ pc[w] = "payments" /\ Fault("fetch")
       \/ pc[w] = "ingest" /\ Fault("db")
       \/ Locked(w) /\ Fault("db")
    /\ LeaveHalfway(w)
    /\ Proceed(w)
    /\ UNCHANGED tip

\* The catch of tick.
PollFails(w) ==
    /\ pc[w] \in {"start", "fetch"}
    /\ Fault("fetch")
    /\ pc' = [pc EXCEPT ![w] = "idle"]
    /\ UNCHANGED <<index, tip, cursor, batch, served>>

\* The process stops; the supervisor starts it again.
Crash(w) ==
    /\ pc[w] # "idle"
    /\ Fault("crash")
    /\ LeaveHalfway(w)
    /\ pc' = [pc EXCEPT ![w] = "idle"]
    /\ batch' = [batch EXCEPT ![w] = {}]
    /\ served' = [served EXCEPT ![w] = {}]
    /\ UNCHANGED <<tip, cursor>>

Next ==
    \/ \E w \in Workers :
            \/ PollBegins(w) \/ Ingest(w) \/ LedgerFails(w) \/ PollFails(w) \/ Crash(w)
            \/ \E v \in Members :
                    ResolveStart(w, v) \/ FetchLedgers(w, v) \/ FetchPayments(w, v)
    \/ \E v \in Members : MemberAdvances(v)

Spec == Init /\ [][Next]_vars

\* The latest ledger of all histories, and who comes to know it.
Latest == {l \in UNION {History[v] : v \in Members} :
              \A v \in Members : \A m \in History[v] : m.number <= l.number}

Ahead == {v \in Members : History[v] \cap Latest # {}}

\* The interval timer fires for ever, every member catches up with its history
\* and the load balancer leaves no member that is ahead out of any kind of
\* request for ever; how it treats the others does not matter.
Fairness ==
    /\ \A w \in Workers :
            /\ WF_vars(PollBegins(w) \/ Ingest(w) \/ \E v \in Members : ResolveStart(w, v))
            /\ \A v \in Ahead : SF_vars(FetchLedgers(w, v)) /\ SF_vars(FetchPayments(w, v))
    /\ WF_vars(\E v \in Members : MemberAdvances(v))

FairSpec == Spec /\ Fairness

-----------------------------------------------------------------------------
(* Properties.                                                             *)

\* Rows, cursors and batches hold what their comments say
\* (horizonLedgerIngestionEngine.ts, horizonLedgerIngestionWorker.ts).
TypeOK ==
    /\ status \in [Ledgers -> {"absent", "active", "rolled_back"}]
    /\ events \subseteq [op: Operations, ledger: Ledgers]
    /\ tip \in [Members -> Nat]
    /\ torn \subseteq Ledgers
    /\ pc \in [Workers -> {"idle", "start", "fetch", "payments", "ingest",
                           "delete", "mark", "upsert", "pay"}]
    /\ cursor \in [Workers -> Nat]
    /\ batch \in [Workers -> SUBSET Ledgers]
    /\ served \in [Workers -> SUBSET Operations]
    /\ faults \in 0 .. MaxFaults

\* Whatever workers and pool members do, ingestLedger leaves one ledger in
\* force for each sequence: a rival replaces, it never stands beside.
OneLedgerPerSequence ==
    \A l, m \in Active : l.number = m.number => l = m

\* Every payment row belongs to a ledger in force, and there is one row for an
\* operation, although rival ledgers share operation ids (upsert, deleteMany).
EventsBelong ==
    /\ \A e \in events : e.ledger \in Active
    /\ \A e, f \in events : e.op = f.op => e = f

\* Some call of ingestLedger is filling or emptying l.
Underway(l) == \E w \in Workers : l \in Halfway(w)

\* A ledger in force has the payments of one ledger of its sequence, and no
\* others, also after it was rolled back and taken up again by another worker;
\* it lacks some of them only while a call is at it, or because a failure ended
\* a call between two of its writes.  (They are asked for by sequence and page:
\* which ledger answers is up to the pool.)
EventsExact ==
    \A l \in Active : \E m \in Ledgers :
        LET written == {e.op : e \in {f \in events : f.ledger = l}}
        IN  /\ m.number = l.number
            /\ written \subseteq Payments(m)
            /\ written = Payments(m) \/ l \in torn \/ Underway(l)

\* The component is a LedgerHistory.
Stack == INSTANCE LedgerHistory WITH
    IdsAt    <- [n \in Nat |-> UNION {OpsOf[l] : l \in {m \in Ledgers : m.number = n}}],
    indexed  <- Active,
    credited <- {<<e.ledger, e.op>> : e \in events}

KeepsHistory == Stack!Spec

\* A worker polls while another has rolled ledgers back and not yet put one in
\* their place: the index it reads ends below where the call will leave it.
PollsMidway ==
    \E w, u \in Workers : pc[w] = "upsert" /\ pc[u] \in {"start", "fetch"}

\* The last ledger in force becomes, and stays, the latest the pool has,
\* although requests, transactions and processes fail a few times: unless
\* workers poll midway again and again, and so keep taking each other back to
\* the history of a member that lags.
CatchesUp == <>[](Active \cap Latest # {}) \/ []<>PollsMidway

=============================================================================
