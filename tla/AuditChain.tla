----------------------------- MODULE AuditChain -----------------------------
(***************************************************************************)
(* The tamper-evident audit chain: services/tamperEvidentAuditService.ts,  *)
(* its tables (db/auditChainStore.ts) and jobs/anchorMerkleRootJob.ts, on  *)
(* several server instances.                                               *)
(*                                                                         *)
(* A recorder is a request that records an event.  A job is a verification *)
(* (the timer's or a request's) or a run of the anchor job, which starts   *)
(* with one.  Every await of theirs is a step; a GET request may read from *)
(* the replica, which follows the primary.  SHA-256 is taken to be free of *)
(* collisions: a hash is the list of everything that was hashed into it.   *)
(***************************************************************************)
EXTENDS Naturals, Sequences, FiniteSets

CONSTANTS
    Instances,      \* server processes
    Recorders,      \* requests that record an event
    Verifiers,      \* the timers that verify
    Requests,       \* GET requests that verify
    Anchorers,      \* the timers that anchor
    HomeOf,         \* recorder or job -> its instance
    Events,
    Changed,        \* the content of a row that was changed
    NoOne,          \* holds no lock
    NoRow,
    BatchSize,      \* rows of a batch of the scan
    MaxEntries,     \* bound: rows of the chain
    MaxAnchors,     \* bound: rows of the anchors
    Faults,         \* which of {"db", "submit", "crash", "edit", "rewrite",
                    \* "delete", "tail"} occur
    MaxFaults       \* how often, in all

Jobs  == Verifiers \cup Requests \cup Anchorers
Seqs  == 1 .. MaxEntries
Kinds == {"HASH_MISMATCH", "CHAIN_BREAK", "SEQUENCE_GAP", "ANCHOR_MISMATCH", "TRUNCATED"}

ASSUME ActorsOK ==
    /\ HomeOf \in [Recorders \cup Jobs -> Instances]
    /\ NoOne \notin Recorders
    /\ Changed \notin Events
    /\ Anchorers \cap (Verifiers \cup Requests) = {}
    /\ Verifiers \cap Requests = {}

ASSUME BoundsOK ==
    /\ BatchSize \in Nat \ {0} /\ MaxEntries \in Nat /\ MaxAnchors \in Nat /\ MaxFaults \in Nat

VARIABLES
    rows,       \* audit_chain_entries: sequence -> row or NoRow
    anchors,    \* audit_chain_anchors, in the order they were created
    replica,    \* both tables as the replica has them
    holder,     \* the recorder that holds the advisory lock
    highest,    \* instance -> highestAppended
    rec,        \* recorder -> the await it is at and the row it built
    job,        \* job -> the await it is at and its locals
    reports,    \* what verifications have reported
    wrong,      \* job -> what has been wrong since its verification began (history)
    revoked,    \* anchors that were anchored and then marked failed (history)
    faults      \* faults so far

tables == <<rows, anchors>>
vars   == <<rows, anchors, replica, holder, highest, rec, job, reports, wrong, revoked, faults>>

Genesis == <<>>

\* computeEntryHash
Hash(prev, n, e) == Append(prev, <<n, e>>)

Stored(table) == {n \in Seqs : table[n] # NoRow}

\* findFirst orderBy sequence desc; 0 when there is none.
Top(table) == CHOOSE n \in Stored(table) \cup {0} : \A m \in Stored(table) : m <= n

HashAt(table, n) == IF n = 0 THEN Genesis ELSE table[n].hash

HeadHash(table) == HashAt(table, Top(table))

NoEntry == [pc |-> "idle", n |-> 0, row |-> NoRow]

NoJob == [pc |-> "idle", last |-> 0, prev |-> Genesis, batch |-> {}, found |-> {},
          clean |-> TRUE, anchor |-> 0, from |-> 0, to |-> 0, root |-> {}]

Fault(kind) ==
    /\ kind \in Faults
    /\ faults < MaxFaults
    /\ faults' = faults + 1

Init ==
    /\ rows = [n \in Seqs |-> NoRow]
    /\ anchors = <<>>
    /\ replica = [rows |-> rows, anchors |-> anchors]
    /\ holder = NoOne
    /\ highest = [i \in Instances |-> 0]
    /\ rec = [r \in Recorders |-> NoEntry]
    /\ job = [j \in Jobs |-> NoJob]
    /\ reports = {}
    /\ wrong = [j \in Jobs |-> {}]
    /\ revoked = {}
    /\ faults = 0

\* What a read of the job sees.
Sources(j) ==
    {[rows |-> rows, anchors |-> anchors]} \cup IF j \in Requests THEN {replica} ELSE {}

\* The prefix of S whose numbers are the first k.
FirstOf(S, k) == {n \in S : Cardinality({m \in S : m < n}) < k}

\* Mutant: the range excludes its end.
RangeOpen(table, from, to) == {table[n].hash : n \in {m \in Stored(table) : from <= m /\ m < to}}

\* The leaves of a range: its Merkle root and count tell no more and no less
\* (module MerkleRoot).
RangeHashes(table, from, to) == {table[n].hash : n \in {m \in Stored(table) : from <= m /\ m <= to}}

Anchored(list) == {k \in DOMAIN list : list[k].status = "anchored"}

\* Mutant: the one that was created last.
LastCreated(list) == {k \in Anchored(list) : \A l \in Anchored(list) : l <= k}

\* getLatestAnchor: any of those that reach furthest.
Latest(list) ==
    {k \in Anchored(list) : \A l \in Anchored(list) : list[l].to <= list[k].to}

-----------------------------------------------------------------------------
(* What is wrong, for the properties.                                      *)

\* Every row is there up to the last, follows from the one before and has the
\* hash of its content.
Intact(table) ==
    \A n \in Stored(table) :
        /\ n > 1 => n - 1 \in Stored(table)
        /\ table[n].prev = IF n = 1 THEN Genesis ELSE table[n - 1].hash
        /\ table[n].hash = Hash(table[n].prev, n, table[n].event)

\* Rows that are missing below the last one, or that the instance appended, and
\* rows that are not what was hashed.
Lost(i, table) == {n \in Seqs \ Stored(table) : n <= Top(table) \/ n <= highest[i]}
Altered(table) ==
    {n \in Stored(table) : table[n].hash # Hash(table[n].prev, n, table[n].event)}

\* Rows that do not link to the one before.
Unlinked(table) ==
    {n \in Stored(table) : /\ n - 1 \in Stored(table) \cup {0}
                           /\ table[n].prev # HashAt(table, n - 1)}

\* The end of the latest anchored range, when no anchor that ends there is true.
Untrue(s) ==
    {n \in {s.anchors[k].to : k \in Latest(s.anchors)} :
        \A k \in DOMAIN anchors :
            anchors[k].to = n => RangeHashes(s.rows, anchors[k].from, n) # anchors[k].root}

Wrong(i, s) ==
    {<<"row", n, Genesis>> : n \in Lost(i, s.rows) \cup Altered(s.rows)}
        \cup {<<"link", n, HashAt(s.rows, n - 1)>> : n \in Unlinked(s.rows)}
        \cup {<<"range", n, Genesis>> : n \in Untrue(s)}

\* Wrong whatever the job reads.
WrongFor(j) ==
    {w \in Wrong(HomeOf[j], [rows |-> rows, anchors |-> anchors]) :
        \A s \in Sources(j) : w \in Wrong(HomeOf[j], s)}

Verifying == {"scan", "batch", "latest", "hashes"}

\* What was wrong when a verification began and has been ever since.
Watch ==
    wrong' = [j \in Jobs |->
                IF job'[j].pc \notin Verifying THEN {}
                ELSE IF job[j].pc = "idle" THEN WrongFor(j)'
                ELSE wrong[j] \cap WrongFor(j)']

-----------------------------------------------------------------------------
(* record: append under the advisory lock.                                 *)

\* Mutant: the head is read without the lock.
LockUnheeded(r) == holder \in Recorders \cup {NoOne}

LockFree(r) == holder = NoOne

\* Mutant: the new row links to where the head links to.
RowBesideHead(e) ==
    LET n == Top(rows) + 1
        prev == IF Top(rows) = 0 THEN Genesis ELSE rows[Top(rows)].prev
    IN  [event |-> e, prev |-> prev, hash |-> Hash(prev, n, e)]

RowAfterHead(e) ==
    [event |-> e, prev |-> HeadHash(rows), hash |-> Hash(HeadHash(rows), Top(rows) + 1, e)]

\* The lock is taken, the head read and the row built.
BeginAppend(r, e) ==
    /\ rec[r].pc = "idle"
    /\ LockFree(r)
    /\ Top(rows) < MaxEntries
    /\ holder' = r
    /\ rec' = [rec EXCEPT ![r] = [pc |-> "insert", n |-> Top(rows) + 1, row |-> RowAfterHead(e)]]
    /\ UNCHANGED <<tables, replica, highest, job, reports, revoked, faults>>
    /\ Watch

\* create, and the commit that releases the lock.  The sequence is the key.
CommitAppend(r) ==
    /\ rec[r].pc = "insert"
    /\ rows[rec[r].n] = NoRow
    /\ rows' = [rows EXCEPT ![rec[r].n] = rec[r].row]
    /\ holder' = IF holder = r THEN NoOne ELSE holder
    /\ rec' = [rec EXCEPT ![r].pc = "return"]
    /\ UNCHANGED <<anchors, replica, highest, job, reports, revoked, faults>>
    /\ Watch

AppendReturns(r) ==
    /\ rec[r].pc = "return"
    /\ highest' = [highest EXCEPT ![HomeOf[r]] = IF rec[r].n > @ THEN rec[r].n ELSE @]
    /\ rec' = [rec EXCEPT ![r] = NoEntry]
    /\ UNCHANGED <<tables, replica, holder, job, reports, revoked, faults>>
    /\ Watch

\* The transaction fails, on the taken key or otherwise, or its answer is lost.
AppendFails(r) ==
    /\ \/ rec[r].pc = "insert" /\ rows[rec[r].n] # NoRow /\ UNCHANGED faults
       \/ rec[r].pc \in {"insert", "return"} /\ Fault("db")
    /\ holder' = IF holder = r THEN NoOne ELSE holder
    /\ rec' = [rec EXCEPT ![r] = NoEntry]
    /\ UNCHANGED <<tables, replica, highest, job, reports, revoked>>
    /\ Watch

-----------------------------------------------------------------------------
(* verifyChain.                                                            *)

BeginVerify(j) ==
    /\ job[j].pc = "idle"
    /\ job' = [job EXCEPT ![j] = [NoJob EXCEPT !.pc = "scan"]]
    /\ UNCHANGED <<tables, replica, holder, highest, rec, reports, revoked, faults>>
    /\ Watch

\* readBatch: the database answers; the answer is on its way.
ReadBatch(j) ==
    /\ job[j].pc = "scan"
    /\ \E s \in Sources(j) :
            job' = [job EXCEPT ![j].pc = "batch",
                               ![j].batch = {<<n, s.rows[n]>> :
                                    n \in FirstOf({m \in Stored(s.rows) : m > job[j].last}, BatchSize)}]
    /\ UNCHANGED <<tables, replica, holder, highest, rec, reports, revoked, faults>>
    /\ Watch

\* The hash that the row after sequence n should link to is that of the last row
\* of the batch before n, or of the last row of the batch before.
LinkTo(batch, prev, n) ==
    LET before == {b \in batch : b[1] < n}
        nearest == {b \in before : \A c \in before : c[1] <= b[1]}
    IN  IF before = {} THEN prev ELSE (CHOOSE b \in nearest : TRUE)[2].hash

Gap(batch, last) == \E b \in batch : b[1] - 1 \notin {c[1] : c \in batch} \cup {last}
Break(batch, prev) == \E b \in batch : b[2].prev # LinkTo(batch, prev, b[1])

\* Mutant: the stored hash is trusted.
HashTrusted(batch) == FALSE

Mismatch(batch) == \E b \in batch : b[2].hash # Hash(b[2].prev, b[1], b[2].event)

Findings(batch, last, prev) ==
    {kind \in {"SEQUENCE_GAP", "CHAIN_BREAK", "HASH_MISMATCH"} :
        \/ kind = "SEQUENCE_GAP" /\ Gap(batch, last)
        \/ kind = "CHAIN_BREAK" /\ Break(batch, prev)
        \/ kind = "HASH_MISMATCH" /\ Mismatch(batch)}

\* Mutant: the next batch is linked to the genesis hash.
EndUnlinked(batch, last, prev) ==
    IF batch = {} THEN [n |-> last, hash |-> prev]
    ELSE LET b == CHOOSE c \in batch : \A d \in batch : d[1] <= c[1]
         IN  [n |-> b[1], hash |-> Genesis]

\* The last row of the batch, or where the scan was.
EndOf(batch, last, prev) ==
    IF batch = {} THEN [n |-> last, hash |-> prev]
    ELSE LET b == CHOOSE c \in batch : \A d \in batch : d[1] <= c[1]
         IN  [n |-> b[1], hash |-> b[2].hash]

\* The batch arrives and is checked; after the last one the witness is.
CheckBatch(j) ==
    LET me == job[j]
        end == EndOf(me.batch, me.last, me.prev)
        more == Cardinality(me.batch) = BatchSize
        short == ~more /\ end.n < highest[HomeOf[j]]
    IN  /\ me.pc = "batch"
        /\ job' = [job EXCEPT ![j] =
              [me EXCEPT !.pc = IF more THEN "scan" ELSE "latest",
                         !.last = end.n, !.prev = end.hash, !.batch = {},
                         !.found = @ \cup Findings(me.batch, me.last, me.prev)
                                     \cup IF short THEN {"TRUNCATED"} ELSE {}]]
        /\ UNCHANGED <<tables, replica, holder, highest, rec, reports, revoked, faults>>
        /\ Watch

\* Mutant: the anchor job goes on whatever was found.
ConcludeAnyway(j, found) ==
    LET clean == wrong[j] = {}
    IN  /\ reports' = reports \cup {[found |-> found, clean |-> clean]}
        /\ job' = [job EXCEPT ![j] =
                      IF j \in Anchorers THEN [NoJob EXCEPT !.pc = "head", !.clean = clean]
                      ELSE NoJob]

\* The result; the anchor job goes on if there is nothing in it.  clean is for the
\* properties.
Conclude(j, found) ==
    LET clean == wrong[j] = {}
    IN  /\ reports' = reports \cup {[found |-> found, clean |-> clean]}
        /\ job' = [job EXCEPT ![j] =
                      IF j \in Anchorers /\ found = {}
                      THEN [NoJob EXCEPT !.pc = "head", !.clean = clean]
                      ELSE NoJob]

\* checkLatestAnchor: its first await.
ReadLatestAnchor(j) ==
    /\ job[j].pc = "latest"
    /\ \E s \in Sources(j) :
        \/ /\ Latest(s.anchors) = {}
           /\ Conclude(j, job[j].found)
        \/ \E k \in Latest(s.anchors) :
            IF job[j].last < s.anchors[k].to
              THEN Conclude(j, job[j].found \cup {"TRUNCATED"})
              ELSE /\ job' = [job EXCEPT ![j].pc = "hashes", ![j].anchor = k]
                   /\ UNCHANGED reports
    /\ UNCHANGED <<tables, replica, holder, highest, rec, revoked, faults>>
    /\ Watch

\* verifyAnchorLocally
CheckAnchor(j) ==
    LET a == anchors[job[j].anchor]
    IN  /\ job[j].pc = "hashes"
        /\ \E s \in Sources(j) :
            Conclude(j, job[j].found \cup IF RangeHashes(s.rows, a.from, a.to) = a.root
                                          THEN {} ELSE {"ANCHOR_MISMATCH"})
        /\ UNCHANGED <<tables, replica, holder, highest, rec, revoked, faults>>
        /\ Watch

-----------------------------------------------------------------------------
(* runAnchorMerkleRootJob, after its verification.                         *)

ReadHead(j) ==
    /\ job[j].pc = "head"
    /\ job' = [job EXCEPT ![j].pc = "previous", ![j].to = Top(rows)]
    /\ UNCHANGED <<tables, replica, holder, highest, rec, reports, revoked, faults>>
    /\ Watch

\* Mutant: anchors that are pending or failed count as well.
LastOfAll(list) == {k \in DOMAIN list : \A l \in DOMAIN list : list[l].to <= list[k].to}

Previous(list) == Latest(list)

\* Where the next range starts.
StartAfter(list) == IF Previous(list) = {} THEN 1 ELSE list[CHOOSE k \in Previous(list) : TRUE].to + 1

\* Mutant: whether there are new entries is not asked.
ReadPreviousOnly(j) ==
    /\ job[j].pc = "previous"
    /\ job' = [job EXCEPT ![j].pc = "range", ![j].from = StartAfter(anchors)]
    /\ UNCHANGED <<tables, replica, holder, highest, rec, reports, revoked, faults>>
    /\ Watch

ReadPrevious(j) ==
    LET from == StartAfter(anchors)
    IN  /\ job[j].pc = "previous"
        /\ job' = [job EXCEPT ![j] =
                      IF job[j].to < from THEN NoJob
                      ELSE [job[j] EXCEPT !.pc = "range", !.from = from]]
        /\ UNCHANGED <<tables, replica, holder, highest, rec, reports, revoked, faults>>
        /\ Watch

ReadRange(j) ==
    /\ job[j].pc = "range"
    /\ job' = [job EXCEPT ![j].pc = "create",
                          ![j].root = RangeHashes(rows, job[j].from, job[j].to)]
    /\ UNCHANGED <<tables, replica, holder, highest, rec, reports, revoked, faults>>
    /\ Watch

\* The row of createAnchor.
PendingAnchor(j) ==
    [from |-> job[j].from, to |-> job[j].to, root |-> job[j].root, status |-> "pending"]

CreateAnchor(j) ==
    /\ job[j].pc = "create"
    /\ Len(anchors) < MaxAnchors
    /\ anchors' = Append(anchors, PendingAnchor(j))
    /\ job' = [job EXCEPT ![j].pc = "submit", ![j].anchor = Len(anchors) + 1]
    /\ UNCHANGED <<rows, replica, holder, highest, rec, reports, revoked, faults>>
    /\ Watch

Submit(j) ==
    /\ job[j].pc = "submit"
    /\ \/ job' = [job EXCEPT ![j].pc = "anchored"] /\ UNCHANGED faults
       \/ job' = [job EXCEPT ![j].pc = "failed"] /\ Fault("submit")
    /\ UNCHANGED <<tables, replica, holder, highest, rec, reports, revoked>>
    /\ Watch

\* updateAnchor, in the try or in the catch.
UpdateAnchor(j) ==
    LET k == job[j].anchor
    IN  /\ job[j].pc \in {"anchored", "failed"}
        /\ anchors' = [anchors EXCEPT ![k].status = job[j].pc]
        /\ revoked' = IF job[j].pc = "failed" /\ anchors[k].status = "anchored"
                      THEN revoked \cup {k} ELSE revoked
        /\ job' = [job EXCEPT ![j] = NoJob]
        /\ UNCHANGED <<rows, replica, holder, highest, rec, reports, faults>>
        /\ Watch

\* A query fails without effect: the job ends, except that the failure to record a success
\* is recorded as the failure of the anchor.
QueryRefused(j) ==
    /\ job[j].pc \notin {"idle", "batch", "submit"}
    /\ Fault("db")
    /\ job' = [job EXCEPT ![j] =
                  IF job[j].pc = "anchored" THEN [job[j] EXCEPT !.pc = "failed"] ELSE NoJob]
    /\ UNCHANGED <<tables, replica, holder, highest, rec, reports, revoked>>
    /\ Watch

\* createAnchor takes effect and its answer is lost: the job ends.
CreatedUnseen(j) ==
    /\ job[j].pc = "create"
    /\ Len(anchors) < MaxAnchors
    /\ Fault("db")
    /\ anchors' = Append(anchors, PendingAnchor(j))
    /\ job' = [job EXCEPT ![j] = NoJob]
    /\ UNCHANGED <<rows, replica, holder, highest, rec, reports, revoked>>
    /\ Watch

\* updateAnchor records the success and its answer is lost: the catch is next, and
\* marks the anchor failed.
AnchoredUnseen(j) ==
    /\ job[j].pc = "anchored"
    /\ Fault("db")
    /\ anchors' = [anchors EXCEPT ![job[j].anchor].status = "anchored"]
    /\ job' = [job EXCEPT ![j].pc = "failed"]
    /\ UNCHANGED <<rows, replica, holder, highest, rec, reports, revoked>>
    /\ Watch

QueryFails(j) == QueryRefused(j) \/ CreatedUnseen(j) \/ AnchoredUnseen(j)

-----------------------------------------------------------------------------
(* The surroundings.                                                       *)

\* The replica applies what the primary has committed.
Replicate ==
    /\ Requests # {}
    /\ replica' = [rows |-> rows, anchors |-> anchors]
    /\ UNCHANGED <<tables, holder, highest, rec, job, reports, revoked, faults>>
    /\ Watch

\* The process stops and is started again; the server ends its transactions.
Crash(i) ==
    /\ Fault("crash")
    /\ highest' = [highest EXCEPT ![i] = 0]
    /\ rec' = [r \in Recorders |-> IF HomeOf[r] = i THEN NoEntry ELSE rec[r]]
    /\ job' = [j \in Jobs |-> IF HomeOf[j] = i THEN NoJob ELSE job[j]]
    /\ holder' = IF holder \in Recorders /\ HomeOf[holder] = i THEN NoOne ELSE holder
    /\ UNCHANGED <<tables, replica, reports, revoked>>
    /\ Watch

\* A stored row changes, with or without its hash, a row inside the chain goes, or
\* the end of it does.
Damage ==
    /\ \/ /\ Fault("edit")
          /\ \E n \in Stored(rows) : rows' = [rows EXCEPT ![n].event = Changed]
       \/ /\ Fault("rewrite")
          /\ \E n \in Stored(rows) :
                rows' = [rows EXCEPT ![n].event = Changed, ![n].hash = Hash(rows[n].prev, n, Changed)]
       \/ /\ Fault("delete")
          /\ \E n \in Stored(rows) : n < Top(rows) /\ rows' = [rows EXCEPT ![n] = NoRow]
       \/ /\ Fault("tail")
          /\ \E n \in Stored(rows) : rows' = [m \in Seqs |-> IF m >= n THEN NoRow ELSE rows[m]]
    /\ UNCHANGED <<anchors, replica, holder, highest, rec, job, reports, revoked>>
    /\ Watch

RecorderStep(r) ==
    \/ \E e \in Events : BeginAppend(r, e)
    \/ CommitAppend(r) \/ AppendReturns(r) \/ AppendFails(r)

JobStep(j) ==
    \/ BeginVerify(j) \/ ReadBatch(j) \/ CheckBatch(j) \/ ReadLatestAnchor(j) \/ CheckAnchor(j)
    \/ ReadHead(j) \/ ReadPrevious(j) \/ ReadRange(j) \/ CreateAnchor(j) \/ Submit(j)
    \/ UpdateAnchor(j)

Next ==
    \/ \E r \in Recorders : RecorderStep(r)
    \/ \E j \in Jobs : JobStep(j) \/ QueryFails(j)
    \/ \E i \in Instances : Crash(i)
    \/ Replicate
    \/ Damage

Spec == Init /\ [][Next]_vars

\* The server, its database and the timers keep running.
Fairness ==
    /\ \A r \in Recorders : WF_vars(CommitAppend(r)) /\ WF_vars(AppendReturns(r))
    /\ \A j \in Verifiers \cup Anchorers : WF_vars(JobStep(j))

FairSpec == Spec /\ Fairness

-----------------------------------------------------------------------------
(* Properties.                                                             *)

Hashes == Seq(Seqs \X (Events \cup {Changed}))

Row == [event: Events \cup {Changed}, prev: Hashes, hash: Hashes]

ASSUME NoRowOK == NoRow \notin Row

Anchor == {a \in [from: Seqs, to: Seqs, root: SUBSET Hashes,
                  status: {"pending", "anchored", "failed"}] : a.from <= a.to}

Table == [Seqs -> Row \cup {NoRow}]

Entry == [pc: {"idle", "insert", "return"}, n: 0 .. MaxEntries, row: Row \cup {NoRow}]

\* Between getLatestAnchor and createAnchor, and from then to updateAnchor.
Ranging  == {"range", "create"}
InFlight == {"submit", "anchored", "failed"}

JobState ==
    [pc: {"idle", "scan", "batch", "latest", "hashes", "head", "previous"} \cup Ranging \cup InFlight,
     last: 0 .. MaxEntries, prev: Hashes, batch: SUBSET (Seqs \X Row), found: SUBSET Kinds,
     clean: BOOLEAN, anchor: 0 .. MaxAnchors, from: 0 .. MaxEntries, to: 0 .. MaxEntries,
     root: SUBSET Hashes]

\* The state of the code, without the history.
StateOK ==
    /\ rows \in Table
    /\ anchors \in Seq(Anchor) /\ Len(anchors) <= MaxAnchors
    /\ replica.rows \in Table /\ replica.anchors \in Seq(Anchor)
    /\ Len(replica.anchors) <= Len(anchors)
    /\ holder \in Recorders \cup {NoOne}
    /\ highest \in [Instances -> 0 .. MaxEntries]
    /\ rec \in [Recorders -> Entry]
    /\ job \in [Jobs -> JobState]
    /\ reports \subseteq [found: SUBSET Kinds, clean: BOOLEAN]
    /\ revoked \subseteq 0 .. MaxAnchors
    /\ faults \in 0 .. MaxFaults

\* The tables hold rows and non-empty ranges, the lock has one holder, and what
\* recorders and jobs have read are rows, hashes and findings
\* (tamperEvidentAuditService.ts, auditChainStore.ts, anchorMerkleRootJob.ts).
TypeOK == StateOK /\ wrong \in [Jobs -> SUBSET ({"row", "link", "range"} \X Seqs \X Hashes)]

\* No event is lost to another recorder's: a row that was built under the lock
\* never meets its sequence taken (append).
NoAppendConflict ==
    \A r \in Recorders : rec[r].pc = "insert" => rows[rec[r].n] = NoRow

\* While the tables are left alone, whatever instances append, fail or stop,
\* the chain has no gap and every row commits to the one before.
ChainLinked == Intact(rows)

\* Anchors that overlap, fail, or are left pending never leave an entry below
\* the latest anchor out: every one is in some anchored range, or in one whose
\* recorded success the catch has overwritten because its answer was lost
\* (runAnchorMerkleRootJob).
AnchorsCover ==
    \A k \in Anchored(anchors) : \A n \in 1 .. anchors[k].to :
        \E l \in Anchored(anchors) \cup revoked : anchors[l].from <= n /\ n <= anchors[l].to

\* An anchor's root and count are those of its whole range, although the head,
\* the previous anchor and the range are read one after the other.
AnchorsTrue ==
    \A k \in DOMAIN anchors :
        /\ anchors[k].root = RangeHashes(rows, anchors[k].from, anchors[k].to)
        /\ Cardinality(anchors[k].root) + anchors[k].from = anchors[k].to + 1

\* A scan that reads the primary batch by batch while the chain grows never
\* takes growth for a change of a row or of an anchored range.
NoFalseMismatch == \A r \in reports : r.found \subseteq {"TRUNCATED"}

\* A report of tampering means that there was some (the header of the service:
\* "Any change to a stored row ... raises a CRITICAL alarm").
NoFalseAlarm == \A r \in reports : r.found = {}

\* Whatever is wrong all through a verification makes it report something, however
\* the chain grows, is anchored, is cut and changes meanwhile: a row that is missing
\* or has changed, a broken link, or a latest anchored range that is not as it was.
DamageIsFound == \A r \in reports : ~r.clean => r.found # {}

\* "refusing to anchor a chain that already fails verification": nothing was wrong
\* all through the verification that an anchor rests on.
TamperedNotAnchored ==
    \A j \in Anchorers :
        job[j].pc \in {"head", "previous"} \cup Ranging \cup InFlight => job[j].clean

\* While the tables are left alone they are an AuditLog, which takes its seal back
\* only where a recorded success is overwritten, and for no anchor twice.
Log == INSTANCE AuditLog WITH
    Seals    <- 1 .. MaxAnchors,
    log      <- [n \in 1 .. Top(rows) |-> rows[n].event],
    sealed   <- IF Latest(anchors) = {} THEN 0 ELSE anchors[CHOOSE k \in Latest(anchors) : TRUE].to,
    recalled <- revoked

KeepsLog == Log!Spec

\* Every entry is anchored in the end, although anchors fail, processes stop
\* and growth is taken for truncation meanwhile; except one whose anchor's recorded
\* success was overwritten when another anchor had gone on from it.
EntriesGetAnchored ==
    \A n \in Seqs : rows[n] # NoRow ~>
        \E k \in Anchored(anchors) :
            \/ anchors[k].from <= n /\ n <= anchors[k].to
            \/ \E l \in revoked : /\ anchors[l].from <= n /\ n <= anchors[l].to
                                 /\ anchors[l].to < anchors[k].from

=============================================================================
