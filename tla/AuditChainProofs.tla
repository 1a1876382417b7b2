-------------------------- MODULE AuditChainProofs --------------------------
(***************************************************************************)
(* Proofs about AuditChain: type correctness, that no append is refused,   *)
(* that the chain is linked, that anchors leave no entry out and that the  *)
(* tables implement AuditLog.                                              *)
(***************************************************************************)
EXTENDS AuditChain, TLAPS, WellFoundedInduction, SequenceTheorems

LEMMA LeastOf ==
  ASSUME NEW T \in SUBSET Nat, T # {}
  PROVE  \E x \in T : \A y \in T : x <= y
<1>1. PICK x \in T : \A y \in T : ~ (<<y, x>> \in OpToRel(<, Nat))
  BY NatLessThanWellFounded, WFMin, Zenon
<1>2. ASSUME NEW y \in T PROVE x <= y
  <2>1. ~ (<<y, x>> \in OpToRel(<, Nat)) /\ x \in Nat /\ y \in Nat
    BY <1>1
  <2> QED BY <2>1 DEF OpToRel
<1> QED BY <1>2

LEMMA GreatestOf ==
  ASSUME NEW N \in Nat, NEW T \in SUBSET (0 .. N), T # {}
  PROVE  \E x \in T : \A y \in T : y <= x
<1> DEFINE U == {N - x : x \in T}
<1>1. U \in SUBSET Nat /\ U # {}
  <2>1. \A x \in T : x \in 0 .. N
    OBVIOUS
  <2>2. \A x \in T : N - x \in Nat
    BY <2>1
  <2> QED BY <2>2
<1>2. PICK u \in U : \A v \in U : u <= v
  BY <1>1, LeastOf
<1>3. PICK x \in T : u = N - x
  BY <1>2
<1>4. ASSUME NEW y \in T PROVE y <= x
  <2>1. N - y \in U
    OBVIOUS
  <2>2. N - x <= N - y
    BY <1>2, <1>3, <2>1
  <2> QED BY <2>2
<1> QED BY <1>4

LEMMA TopIsGreatest ==
  ASSUME NEW table
  PROVE  /\ Top(table) \in Stored(table) \cup {0}
         /\ \A m \in Stored(table) : m <= Top(table)
         /\ Top(table) \in 0 .. MaxEntries
<1> DEFINE S == Stored(table) \cup {0}
<1>1. S \in SUBSET (0 .. MaxEntries) /\ S # {} /\ MaxEntries \in Nat
  BY BoundsOK DEF Stored, Seqs
<1>2. \E n \in S : \A m \in S : m <= n
  BY <1>1, GreatestOf
<1>3. \E n \in S : \A m \in Stored(table) : m <= n
  BY <1>2
<1>4. Top(table) \in S /\ \A m \in Stored(table) : m <= Top(table)
  BY <1>3, Zenon DEF Top
<1> QED BY <1>1, <1>4

\* A number that no row is behind is the last.
LEMMA TopUnique ==
  ASSUME NEW table, NEW n \in Stored(table) \cup {0}, \A m \in Stored(table) : m <= n
  PROVE  Top(table) = n
<1>1. n \in Nat /\ Top(table) \in Nat
  BY TopIsGreatest DEF Stored, Seqs
<1>2. n <= Top(table) /\ Top(table) <= n
  BY <1>1, TopIsGreatest
<1> QED BY <1>1, <1>2

\* The last of the anchors that reach furthest.
LEMMA LatestExists ==
  ASSUME NEW list \in Seq(Anchor), Anchored(list) # {}
  PROVE  Latest(list) # {}
<1> DEFINE T == {list[k].to : k \in Anchored(list)}
<1>1. \A k \in Anchored(list) : list[k] \in Anchor
  BY DEF Anchored
<1>2. T \in SUBSET (0 .. MaxEntries) /\ T # {}
  BY <1>1, BoundsOK DEF Anchor, Seqs
<1>3. PICK t \in T : \A u \in T : u <= t
  BY <1>2, GreatestOf, BoundsOK
<1>4. PICK k \in Anchored(list) : list[k].to = t
  BY <1>3
<1>5. \A l \in Anchored(list) : list[l].to <= list[k].to
  BY <1>3, <1>4
<1> QED BY <1>4, <1>5 DEF Latest

-----------------------------------------------------------------------------
(* Type correctness.                                                       *)

LEMMA StoredRow ==
  ASSUME NEW table \in Table, NEW n \in Stored(table)
  PROVE  n \in Seqs /\ table[n] \in Row
BY DEF Table, Stored

LEMMA HeadIsHash ==
  ASSUME NEW table \in Table
  PROVE  HeadHash(table) \in Hashes
<1>1. Genesis \in Hashes
  BY DEF Genesis, Hashes
<1>2. CASE Top(table) = 0
  BY <1>1, <1>2 DEF HeadHash, HashAt
<1>3. CASE Top(table) # 0
  <2>1. Top(table) \in Stored(table)
    BY <1>3, TopIsGreatest
  <2>2. table[Top(table)].hash \in Hashes
    BY <2>1, StoredRow DEF Row
  <2> QED BY <1>3, <2>2 DEF HeadHash, HashAt
<1> QED BY <1>2, <1>3

LEMMA NewRow ==
  ASSUME rows \in Table, Top(rows) < MaxEntries, NEW e \in Events
  PROVE  Top(rows) + 1 \in Seqs /\ RowAfterHead(e) \in Row
<1>1. Top(rows) + 1 \in Seqs
  BY TopIsGreatest, BoundsOK DEF Seqs
<1>2. HeadHash(rows) \in Seq(Seqs \X (Events \cup {Changed}))
  BY HeadIsHash DEF Hashes
<1>3. Hash(HeadHash(rows), Top(rows) + 1, e) \in Seq(Seqs \X (Events \cup {Changed}))
  BY <1>1, <1>2 DEF Hash
<1> QED BY <1>1, <1>2, <1>3 DEF RowAfterHead, Row, Hashes

LEMMA IdleTypes == NoEntry \in Entry /\ NoJob \in JobState
<1>1. <<>> \in Hashes
  BY DEF Hashes
<1> QED BY <1>1, BoundsOK DEF NoEntry, NoJob, Entry, JobState, Genesis

LEMMA EndType ==
  ASSUME NEW batch \in SUBSET (Seqs \X Row), NEW last \in 0 .. MaxEntries, NEW prev \in Hashes
  PROVE  /\ EndOf(batch, last, prev).n \in 0 .. MaxEntries
         /\ EndOf(batch, last, prev).hash \in Hashes
<1>1. CASE batch = {}
  BY <1>1 DEF EndOf
<1>2. CASE batch # {}
  <2> DEFINE T == {b[1] : b \in batch}
  <2>1. T \in SUBSET (0 .. MaxEntries) /\ T # {}
    BY <1>2, BoundsOK DEF Seqs
  <2>2. PICK t \in T : \A u \in T : u <= t
    BY <2>1, GreatestOf, BoundsOK
  <2>3. \E c \in batch : \A d \in batch : d[1] <= c[1]
    BY <2>2
  <2> DEFINE b == CHOOSE c \in batch : \A d \in batch : d[1] <= c[1]
  <2>4. b \in batch
    BY <2>3, Zenon
  <2>5. b[1] \in Seqs /\ b[2] \in Row
    <3> HIDE DEF b
    <3> QED BY <2>4
  <2>6. b[2].hash \in Hashes /\ b[1] \in 0 .. MaxEntries
    <3> HIDE DEF b
    <3> QED BY <2>5, BoundsOK DEF Row, Seqs
  <2>7. EndOf(batch, last, prev) = [n |-> b[1], hash |-> b[2].hash]
    BY <1>2, Zenon DEF EndOf
  <2> HIDE DEF b
  <2> QED BY <2>6, <2>7
<1> QED BY <1>1, <1>2

\* Whatever copy a job reads from has the tables' types.
LEMMA SourceType ==
  ASSUME StateOK, NEW j, NEW s \in Sources(j)
  PROVE  /\ s.rows \in Table /\ s.anchors \in Seq(Anchor)
         /\ \A k \in Anchored(s.anchors) : k \in 0 .. MaxAnchors /\ s.anchors[k] \in Anchor
<1>1. s.rows \in Table /\ s.anchors \in Seq(Anchor) /\ Len(s.anchors) <= MaxAnchors
  BY BoundsOK DEF StateOK, Sources
<1> QED BY <1>1, BoundsOK DEF Anchored

\* The anchor job's range is not empty.
RangeOK(v) ==
    v.pc \in Ranging => v.from \in Seqs /\ v.to \in Seqs /\ v.from <= v.to

RangesOK == \A j \in Jobs : RangeOK(job[j])

TypeInv == StateOK /\ RangesOK

LEMMA TypeInit == Init => TypeInv
<1> SUFFICES ASSUME Init PROVE TypeInv
  OBVIOUS
<1>1. rows \in Table
  BY DEF Init, Table
<1>2. anchors \in Seq(Anchor) /\ Len(anchors) = 0
  BY DEF Init
<1>3. replica.rows \in Table /\ replica.anchors \in Seq(Anchor) /\ Len(replica.anchors) = 0
  BY <1>1, <1>2 DEF Init
<1>4. rec \in [Recorders -> Entry] /\ job \in [Jobs -> JobState]
  BY IdleTypes DEF Init
<1>5. RangesOK
  BY DEF Init, RangesOK, RangeOK, NoJob, Ranging
<1>6. /\ holder \in Recorders \cup {NoOne} /\ faults \in 0 .. MaxFaults
      /\ highest \in [Instances -> 0 .. MaxEntries]
      /\ reports \subseteq [found: SUBSET Kinds, clean: BOOLEAN]
      /\ revoked \subseteq 0 .. MaxAnchors
  BY BoundsOK DEF Init
<1> QED BY <1>1, <1>2, <1>3, <1>4, <1>5, <1>6, BoundsOK DEF TypeInv, StateOK

LEMMA JobUpdate ==
  ASSUME TypeInv, NEW j \in Jobs, NEW v \in JobState, RangeOK(v), job' = [job EXCEPT ![j] = v]
  PROVE  job' \in [Jobs -> JobState] /\ RangesOK'
<1>1. job \in [Jobs -> JobState]
  BY DEF TypeInv, StateOK
<1>2. \A k \in Jobs : job'[k] = IF k = j THEN v ELSE job[k]
  BY <1>1
<1>3. \A k \in Jobs : RangeOK(job'[k])
  BY <1>2 DEF TypeInv, RangesOK
<1>4. RangesOK'
  BY <1>3 DEF RangesOK, RangeOK
<1> QED BY <1>1, <1>4

LEMMA RecUpdate ==
  ASSUME StateOK, NEW r \in Recorders, NEW v \in Entry, rec' = [rec EXCEPT ![r] = v]
  PROVE  rec' \in [Recorders -> Entry]
BY DEF StateOK

LEMMA RecorderType ==
  ASSUME TypeInv, NEW r \in Recorders, RecorderStep(r)
  PROVE  TypeInv'
<1> rec[r] \in Entry
  BY DEF TypeInv, StateOK
<1> USE DEF TypeInv
<1>1. ASSUME NEW e \in Events, BeginAppend(r, e)
      PROVE  TypeInv'
  <2>1. [pc |-> "insert", n |-> Top(rows) + 1, row |-> RowAfterHead(e)] \in Entry
    <3>1. Top(rows) + 1 \in Seqs /\ RowAfterHead(e) \in Row
      BY <1>1, NewRow DEF BeginAppend, StateOK
    <3>2. Top(rows) + 1 \in 0 .. MaxEntries
      BY <3>1, BoundsOK DEF Seqs
    <3> QED BY <3>1, <3>2 DEF Entry
  <2>2. rec' \in [Recorders -> Entry]
    BY <1>1, <2>1, RecUpdate DEF BeginAppend
  <2> QED BY <1>1, <2>2 DEF BeginAppend, StateOK, RangesOK, RangeOK, tables
<1>2. CASE CommitAppend(r)
  <2>1. rows' \in Table
    BY <1>2 DEF CommitAppend, StateOK, Table, Entry
  <2>2. [rec[r] EXCEPT !.pc = "return"] \in Entry
    BY DEF Entry
  <2>3. rec' \in [Recorders -> Entry]
    BY <1>2, <2>2, RecUpdate DEF CommitAppend
  <2> QED BY <1>2, <2>1, <2>3 DEF CommitAppend, StateOK, RangesOK, RangeOK
<1>3. CASE AppendReturns(r)
  <2>1. rec' \in [Recorders -> Entry]
    BY <1>3, IdleTypes, RecUpdate DEF AppendReturns
  <2>2. highest' \in [Instances -> 0 .. MaxEntries]
    BY <1>3 DEF AppendReturns, StateOK, Entry
  <2> QED BY <1>3, <2>1, <2>2 DEF AppendReturns, StateOK, RangesOK, RangeOK, tables
<1>4. CASE AppendFails(r)
  <2>1. rec' \in [Recorders -> Entry]
    BY <1>4, IdleTypes, RecUpdate DEF AppendFails
  <2>2. faults' \in 0 .. MaxFaults
    BY <1>4, BoundsOK DEF AppendFails, Fault, StateOK
  <2> QED BY <1>4, <2>1, <2>2 DEF AppendFails, StateOK, RangesOK, RangeOK, tables
<1> QED BY <1>1, <1>2, <1>3, <1>4 DEF RecorderStep

LEMMA ConcludeType ==
  ASSUME TypeInv, NEW j \in Jobs, NEW found \in SUBSET Kinds, Conclude(j, found)
  PROVE  /\ job' \in [Jobs -> JobState] /\ RangesOK'
         /\ reports' \subseteq [found: SUBSET Kinds, clean: BOOLEAN]
<1> DEFINE clean == wrong[j] = {}
           w == IF j \in Anchorers /\ found = {}
                THEN [NoJob EXCEPT !.pc = "head", !.clean = clean] ELSE NoJob
<1>1. clean \in BOOLEAN
  OBVIOUS
<1>2. reports' = reports \cup {[found |-> found, clean |-> clean]} /\ job' = [job EXCEPT ![j] = w]
  BY Zenon DEF Conclude
<1>3. w \in JobState
  <2> HIDE DEF clean
  <2> QED BY <1>1, IdleTypes DEF NoJob, JobState
<1>4. RangeOK(w)
  BY DEF RangeOK, NoJob, Ranging
<1>5. job' \in [Jobs -> JobState] /\ RangesOK'
  <2> HIDE DEF w
  <2> QED BY <1>2, <1>3, <1>4, JobUpdate
<1>6. reports \subseteq [found: SUBSET Kinds, clean: BOOLEAN]
  BY DEF TypeInv, StateOK
<1>7. [found |-> found, clean |-> clean] \in [found: SUBSET Kinds, clean: BOOLEAN]
  <2> HIDE DEF clean
  <2> QED BY <1>1
<1> HIDE DEF clean, w
<1> QED BY <1>2, <1>5, <1>6, <1>7

LEMMA VerifyType ==
  ASSUME TypeInv, NEW j \in Jobs,
         BeginVerify(j) \/ ReadBatch(j) \/ CheckBatch(j) \/ ReadLatestAnchor(j) \/ CheckAnchor(j)
  PROVE  TypeInv'
<1>0. job[j] \in JobState /\ RangeOK(job[j])
  BY DEF TypeInv, StateOK, RangesOK
<1>1. CASE BeginVerify(j)
  <2> DEFINE v == [NoJob EXCEPT !.pc = "scan"]
  <2>2. v \in JobState /\ RangeOK(v)
    BY IdleTypes DEF NoJob, JobState, RangeOK, Ranging
  <2>3. job' = [job EXCEPT ![j] = v]
    BY <1>1, Zenon DEF BeginVerify
  <2>4. job' \in [Jobs -> JobState] /\ RangesOK'
    <3> HIDE DEF v
    <3> QED BY <2>2, <2>3, JobUpdate
  <2> QED BY <1>1, <2>4 DEF BeginVerify, TypeInv, StateOK, tables
<1>2. CASE ReadBatch(j)
  <2>1. PICK s \in Sources(j) :
            job' = [job EXCEPT ![j].pc = "batch",
                               ![j].batch = {<<n, s.rows[n]>> :
                                    n \in FirstOf({m \in Stored(s.rows) : m > job[j].last}, BatchSize)}]
    BY <1>2 DEF ReadBatch
  <2> DEFINE S == FirstOf({m \in Stored(s.rows) : m > job[j].last}, BatchSize)
             batch == {<<n, s.rows[n]>> : n \in S}
             v == [job[j] EXCEPT !.pc = "batch", !.batch = batch]
  <2>2. S \subseteq Stored(s.rows)
    BY DEF FirstOf
  <2>3. batch \in SUBSET (Seqs \X Row)
    <3> HIDE DEF S
    <3>1. \A n \in S : n \in Seqs /\ s.rows[n] \in Row
      BY <2>2, StoredRow, SourceType DEF TypeInv
    <3> QED BY <3>1
  <2>4. v \in JobState /\ RangeOK(v)
    <3> HIDE DEF batch
    <3> QED BY <1>0, <2>3 DEF JobState, RangeOK, Ranging
  <2>5. job' = [job EXCEPT ![j] = v]
    BY <1>0, <2>1 DEF TypeInv, StateOK
  <2>6. job' \in [Jobs -> JobState] /\ RangesOK'
    <3> HIDE DEF v
    <3> QED BY <2>4, <2>5, JobUpdate
  <2> QED BY <1>2, <2>6 DEF ReadBatch, TypeInv, StateOK, tables
<1>3. CASE CheckBatch(j)
  <2> DEFINE me == job[j]
             end == EndOf(me.batch, me.last, me.prev)
             more == Cardinality(me.batch) = BatchSize
             short == ~more /\ end.n < highest[HomeOf[j]]
             pc == IF more THEN "scan" ELSE "latest"
             found == me.found \cup Findings(me.batch, me.last, me.prev)
                               \cup IF short THEN {"TRUNCATED"} ELSE {}
             v == [me EXCEPT !.pc = pc, !.last = end.n, !.prev = end.hash, !.batch = {}, !.found = found]
  <2>1. end.n \in 0 .. MaxEntries /\ end.hash \in Hashes
    BY <1>0, EndType DEF JobState
  <2>2. found \in SUBSET Kinds
    <3>1. Findings(me.batch, me.last, me.prev) \subseteq Kinds
      BY DEF Findings, Kinds
    <3> HIDE DEF short
    <3> QED BY <1>0, <3>1 DEF JobState, Kinds
  <2>3. pc \in {"scan", "latest"}
    OBVIOUS
  <2>4. v \in JobState /\ RangeOK(v)
    <3> HIDE DEF pc, end, found
    <3> QED BY <1>0, <2>1, <2>2, <2>3 DEF JobState, RangeOK, Ranging
  <2>5. job' = [job EXCEPT ![j] = v]
    BY <1>3, Zenon DEF CheckBatch
  <2>6. job' \in [Jobs -> JobState] /\ RangesOK'
    <3> HIDE DEF v
    <3> QED BY <2>4, <2>5, JobUpdate
  <2> QED BY <1>3, <2>6 DEF CheckBatch, TypeInv, StateOK, tables
<1>4. CASE ReadLatestAnchor(j)
  <2>0. job[j].found \in SUBSET Kinds /\ "TRUNCATED" \in Kinds
    BY <1>0 DEF JobState, Kinds
  <2>1. CASE \E found \in SUBSET Kinds : Conclude(j, found)
    <3>1. /\ job' \in [Jobs -> JobState] /\ RangesOK'
          /\ reports' \subseteq [found: SUBSET Kinds, clean: BOOLEAN]
      BY <2>1, ConcludeType
    <3> QED BY <1>4, <3>1 DEF ReadLatestAnchor, TypeInv, StateOK, tables
  <2>2. CASE \E s \in Sources(j) : \E k \in Latest(s.anchors) :
                /\ job' = [job EXCEPT ![j].pc = "hashes", ![j].anchor = k] /\ UNCHANGED reports
    <3>0. PICK s \in Sources(j) : \E k \in Latest(s.anchors) :
              job' = [job EXCEPT ![j].pc = "hashes", ![j].anchor = k] /\ UNCHANGED reports
      BY <2>2
    <3>1. PICK k \in Latest(s.anchors) :
              job' = [job EXCEPT ![j].pc = "hashes", ![j].anchor = k] /\ UNCHANGED reports
      BY <3>0
    <3>2. k \in 0 .. MaxAnchors
      BY SourceType DEF TypeInv, Latest
    <3> DEFINE v == [job[j] EXCEPT !.pc = "hashes", !.anchor = k]
    <3>3. v \in JobState /\ RangeOK(v)
      BY <1>0, <3>2 DEF JobState, RangeOK, Ranging
    <3>4. job' = [job EXCEPT ![j] = v]
      BY <1>0, <3>1 DEF TypeInv, StateOK
    <3>5. job' \in [Jobs -> JobState] /\ RangesOK'
      <4> HIDE DEF v
      <4> QED BY <3>3, <3>4, JobUpdate
    <3> QED BY <1>4, <3>1, <3>5 DEF ReadLatestAnchor, TypeInv, StateOK, tables
  <2>3. (\E found \in SUBSET Kinds : Conclude(j, found))
            \/ (\E s \in Sources(j) : \E k \in Latest(s.anchors) :
                   /\ job' = [job EXCEPT ![j].pc = "hashes", ![j].anchor = k] /\ UNCHANGED reports)
    <3>1. PICK s \in Sources(j) :
            \/ Latest(s.anchors) = {} /\ Conclude(j, job[j].found)
            \/ \E k \in Latest(s.anchors) :
                  IF job[j].last < s.anchors[k].to
                    THEN Conclude(j, job[j].found \cup {"TRUNCATED"})
                    ELSE /\ job' = [job EXCEPT ![j].pc = "hashes", ![j].anchor = k]
                         /\ UNCHANGED reports
      BY <1>4, Zenon DEF ReadLatestAnchor
    <3>2. job[j].found \cup {"TRUNCATED"} \in SUBSET Kinds
      BY <2>0
    <3> QED BY <2>0, <3>1, <3>2, Zenon
  <2> QED BY <2>1, <2>2, <2>3
<1>5. CASE CheckAnchor(j)
  <2>1. PICK found \in SUBSET Kinds : Conclude(j, found)
    <3> DEFINE a == anchors[job[j].anchor]
    <3>1. PICK s \in Sources(j) :
            Conclude(j, job[j].found \cup IF RangeHashes(s.rows, a.from, a.to) = a.root
                                           THEN {} ELSE {"ANCHOR_MISMATCH"})
      BY <1>5, Zenon DEF CheckAnchor
    <3>2. job[j].found \cup {} \in SUBSET Kinds /\ job[j].found \cup {"ANCHOR_MISMATCH"} \in SUBSET Kinds
      BY <1>0 DEF JobState, Kinds
    <3>3. (IF RangeHashes(s.rows, a.from, a.to) = a.root THEN {} ELSE {"ANCHOR_MISMATCH"})
              \in {{}, {"ANCHOR_MISMATCH"}}
      OBVIOUS
    <3> QED BY <3>1, <3>2, <3>3
  <2>2. /\ job' \in [Jobs -> JobState] /\ RangesOK'
        /\ reports' \subseteq [found: SUBSET Kinds, clean: BOOLEAN]
    BY <2>1, ConcludeType
  <2> QED BY <1>5, <2>2 DEF CheckAnchor, TypeInv, StateOK, tables
<1> QED BY <1>1, <1>2, <1>3, <1>4, <1>5

LEMMA StartType ==
  ASSUME StateOK
  PROVE  StartAfter(anchors) \in Nat \ {0}
<1>1. CASE Previous(anchors) = {}
  BY <1>1 DEF StartAfter
<1>2. CASE Previous(anchors) # {}
  <2> DEFINE k == CHOOSE l \in Previous(anchors) : TRUE
  <2>1. k \in Previous(anchors)
    BY <1>2, Zenon
  <2>2. k \in Anchored(anchors)
    BY <2>1 DEF Previous, Latest
  <2>3. anchors[k] \in Anchor
    BY <2>2 DEF StateOK, Anchored
  <2>4. anchors[k].to \in Nat
    BY <2>3, BoundsOK DEF Anchor, Seqs
  <2>5. StartAfter(anchors) = anchors[k].to + 1
    BY <1>2, Zenon DEF StartAfter
  <2> HIDE DEF k
  <2> QED BY <2>4, <2>5
<1> QED BY <1>1, <1>2

LEMMA StatusUpdate ==
  ASSUME NEW list \in Seq(Anchor), NEW k, NEW st \in {"anchored", "failed"}
  PROVE  /\ [list EXCEPT ![k].status = st] \in Seq(Anchor)
         /\ Len([list EXCEPT ![k].status = st]) = Len(list)
<1> DEFINE new == [list EXCEPT ![k].status = st]
<1>1. \A l \in 1 .. Len(list) : list[l] \in Anchor
  OBVIOUS
<1>2. \A l \in 1 .. Len(list) : [list[l] EXCEPT !.status = st] \in Anchor
  BY <1>1 DEF Anchor
<1>3. new = [l \in 1 .. Len(list) |-> IF l = k THEN [list[l] EXCEPT !.status = st] ELSE list[l]]
  OBVIOUS
<1>4. Len(list) \in Nat
  OBVIOUS
<1>5. \A l \in 1 .. Len(list) : new[l] \in Anchor
  BY <1>1, <1>2, <1>3
<1>6. new = [l \in 1 .. Len(list) |-> new[l]]
  BY <1>3
<1> HIDE DEF new
<1>7. new \in Seq(Anchor)
  BY <1>4, <1>5, <1>6
<1>8. DOMAIN new = 1 .. Len(list)
  BY <1>6
<1>9. Len(new) = Len(list)
  BY <1>4, <1>7, <1>8
<1> QED BY <1>7, <1>9 DEF new

\* The list of anchors after createAnchor.
Appended(j) ==
    /\ anchors' \in Seq(Anchor) /\ Len(anchors') <= MaxAnchors
    /\ Len(replica.anchors) <= Len(anchors')

LEMMA AppendType ==
  ASSUME TypeInv, NEW j \in Jobs, job[j].pc \in Ranging, Len(anchors) < MaxAnchors,
         anchors' = Append(anchors, PendingAnchor(j))
  PROVE  Appended(j)
<1>1. PICK a : a = PendingAnchor(j)
  OBVIOUS
<1>2. job[j] \in JobState /\ RangeOK(job[j]) /\ anchors \in Seq(Anchor)
  BY DEF TypeInv, StateOK, RangesOK
<1>3. a \in Anchor
  BY <1>1, <1>2 DEF PendingAnchor, RangeOK, JobState, Anchor
<1>4. /\ anchors' \in Seq(Anchor) /\ Len(anchors') = Len(anchors) + 1 /\ Len(anchors) \in Nat
  BY <1>1, <1>2, <1>3
<1>5. Len(replica.anchors) <= Len(anchors) /\ Len(replica.anchors) \in Nat
  BY DEF TypeInv, StateOK
<1> QED BY <1>4, <1>5, BoundsOK DEF Appended

LEMMA AnchorType ==
  ASSUME TypeInv, NEW j \in Jobs,
         \/ ReadHead(j) \/ ReadPrevious(j) \/ ReadRange(j) \/ CreateAnchor(j) \/ Submit(j)
         \/ UpdateAnchor(j) \/ QueryFails(j)
  PROVE  TypeInv'
<1>0. job[j] \in JobState /\ RangeOK(job[j]) /\ job \in [Jobs -> JobState]
  BY DEF TypeInv, StateOK, RangesOK
<1>n. NoJob \in JobState /\ RangeOK(NoJob)
  BY IdleTypes DEF RangeOK, NoJob, Ranging
<1>1. CASE ReadHead(j)
  <2> DEFINE v == [job[j] EXCEPT !.pc = "previous", !.to = Top(rows)]
  <2>1. v \in JobState /\ RangeOK(v)
    BY <1>0, TopIsGreatest DEF JobState, RangeOK, Ranging
  <2>2. job' = [job EXCEPT ![j] = v]
    BY <1>0, <1>1 DEF ReadHead
  <2>3. job' \in [Jobs -> JobState] /\ RangesOK'
    <3> HIDE DEF v
    <3> QED BY <2>1, <2>2, JobUpdate
  <2> QED BY <1>1, <2>3 DEF ReadHead, TypeInv, StateOK, tables
<1>2. CASE ReadPrevious(j)
  <2> DEFINE from == StartAfter(anchors)
             v == IF job[j].to < from THEN NoJob ELSE [job[j] EXCEPT !.pc = "range", !.from = from]
  <2>1. from \in Nat \ {0}
    BY StartType DEF TypeInv
  <2>2. v \in JobState /\ RangeOK(v)
    <3>1. CASE job[j].to < from
      BY <1>n, <3>1
    <3>2. CASE ~(job[j].to < from)
      <4>1. job[j].to \in 0 .. MaxEntries
        BY <1>0 DEF JobState
      <4>2. from \in Seqs /\ from \in 0 .. MaxEntries /\ job[j].to \in Seqs /\ from <= job[j].to
        <5> HIDE DEF from
        <5> QED BY <2>1, <3>2, <4>1, BoundsOK DEF Seqs
      <4> HIDE DEF from
      <4>3. [job[j] EXCEPT !.pc = "range", !.from = from] \in JobState
        BY <1>0, <4>2 DEF JobState, Ranging
      <4>4. RangeOK([job[j] EXCEPT !.pc = "range", !.from = from])
        BY <1>0, <4>2 DEF JobState, RangeOK
      <4> QED BY <3>2, <4>3, <4>4
    <3> QED BY <3>1, <3>2
  <2>3. job' = [job EXCEPT ![j] = v]
    BY <1>2, Zenon DEF ReadPrevious
  <2>4. job' \in [Jobs -> JobState] /\ RangesOK'
    <3> HIDE DEF v
    <3> QED BY <2>2, <2>3, JobUpdate
  <2> QED BY <1>2, <2>4 DEF ReadPrevious, TypeInv, StateOK, tables
<1>3. CASE ReadRange(j)
  <2> DEFINE root == RangeHashes(rows, job[j].from, job[j].to)
             v == [job[j] EXCEPT !.pc = "create", !.root = root]
  <2>1. root \in SUBSET Hashes
    <3>1. \A n \in Stored(rows) : rows[n].hash \in Hashes
      BY StoredRow DEF TypeInv, StateOK, Row
    <3> QED BY <3>1 DEF RangeHashes
  <2>2. v \in JobState /\ RangeOK(v)
    <3> HIDE DEF root
    <3> QED BY <1>0, <1>3, <2>1 DEF ReadRange, JobState, RangeOK, Ranging
  <2>3. job' = [job EXCEPT ![j] = v]
    BY <1>0, <1>3 DEF ReadRange
  <2>4. job' \in [Jobs -> JobState] /\ RangesOK'
    <3> HIDE DEF v
    <3> QED BY <2>2, <2>3, JobUpdate
  <2> QED BY <1>3, <2>4 DEF ReadRange, TypeInv, StateOK, tables
<1>4. CASE CreateAnchor(j)
  <2> DEFINE v == [job[j] EXCEPT !.pc = "submit", !.anchor = Len(anchors) + 1]
  <2>1. v \in JobState /\ RangeOK(v)
    <3>1. Len(anchors) + 1 \in 0 .. MaxAnchors
      BY <1>4, BoundsOK DEF CreateAnchor, TypeInv, StateOK
    <3> QED BY <1>0, <3>1 DEF JobState, RangeOK, Ranging, InFlight
  <2>2. job' = [job EXCEPT ![j] = v]
    BY <1>0, <1>4 DEF CreateAnchor
  <2>3. job' \in [Jobs -> JobState] /\ RangesOK'
    <3> HIDE DEF v
    <3> QED BY <2>1, <2>2, JobUpdate
  <2>4. Appended(j)
    BY <1>4, AppendType DEF CreateAnchor, Ranging
  <2> QED BY <1>4, <2>3, <2>4 DEF CreateAnchor, TypeInv, StateOK, Appended
<1>5. CASE Submit(j)
  <2> PICK p \in {"anchored", "failed"} : job' = [job EXCEPT ![j].pc = p]
    BY <1>5 DEF Submit
  <2> DEFINE v == [job[j] EXCEPT !.pc = p]
  <2>1. v \in JobState /\ RangeOK(v)
    BY <1>0 DEF JobState, RangeOK, Ranging, InFlight
  <2>2. job' = [job EXCEPT ![j] = v]
    BY <1>0
  <2>3. job' \in [Jobs -> JobState] /\ RangesOK'
    <3> HIDE DEF v
    <3> QED BY <2>1, <2>2, JobUpdate
  <2>4. faults' \in 0 .. MaxFaults
    BY <1>5, BoundsOK DEF Submit, Fault, TypeInv, StateOK
  <2> QED BY <1>5, <2>3, <2>4 DEF Submit, TypeInv, StateOK, tables
<1>6. CASE UpdateAnchor(j)
  <2>1. job' \in [Jobs -> JobState] /\ RangesOK'
    BY <1>6, <1>n, JobUpdate DEF UpdateAnchor
  <2>2. anchors' \in Seq(Anchor) /\ Len(anchors') = Len(anchors)
    BY <1>6, StatusUpdate DEF UpdateAnchor, TypeInv, StateOK
  <2>3. revoked' \subseteq 0 .. MaxAnchors
    BY <1>0, <1>6 DEF UpdateAnchor, TypeInv, StateOK, JobState
  <2> QED BY <1>6, <2>1, <2>2, <2>3 DEF UpdateAnchor, TypeInv, StateOK
<1>7. CASE QueryRefused(j)
  <2> DEFINE v == IF job[j].pc = "anchored" THEN [job[j] EXCEPT !.pc = "failed"] ELSE NoJob
  <2>1. v \in JobState /\ RangeOK(v)
    BY <1>0, <1>n DEF JobState, RangeOK, Ranging, InFlight
  <2>2. job' = [job EXCEPT ![j] = v]
    BY <1>7, Zenon DEF QueryRefused
  <2>3. job' \in [Jobs -> JobState] /\ RangesOK'
    <3> HIDE DEF v
    <3> QED BY <2>1, <2>2, JobUpdate
  <2>4. faults' \in 0 .. MaxFaults
    BY <1>7, BoundsOK DEF QueryRefused, Fault, TypeInv, StateOK
  <2> QED BY <1>7, <2>3, <2>4 DEF QueryRefused, TypeInv, StateOK, tables
<1>8. CASE CreatedUnseen(j)
  <2>1. job' \in [Jobs -> JobState] /\ RangesOK'
    BY <1>8, <1>n, JobUpdate DEF CreatedUnseen
  <2>2. Appended(j)
    BY <1>8, AppendType DEF CreatedUnseen, Ranging
  <2>3. faults' \in 0 .. MaxFaults
    BY <1>8, BoundsOK DEF CreatedUnseen, Fault, TypeInv, StateOK
  <2> QED BY <1>8, <2>1, <2>2, <2>3 DEF CreatedUnseen, TypeInv, StateOK, Appended
<1>9. CASE AnchoredUnseen(j)
  <2> DEFINE v == [job[j] EXCEPT !.pc = "failed"]
  <2>1. v \in JobState /\ RangeOK(v)
    BY <1>0 DEF JobState, RangeOK, Ranging, InFlight
  <2>2. job' = [job EXCEPT ![j] = v]
    BY <1>0, <1>9 DEF AnchoredUnseen
  <2>3. job' \in [Jobs -> JobState] /\ RangesOK'
    <3> HIDE DEF v
    <3> QED BY <2>1, <2>2, JobUpdate
  <2>4. anchors' \in Seq(Anchor) /\ Len(anchors') = Len(anchors)
    BY <1>9, StatusUpdate DEF AnchoredUnseen, TypeInv, StateOK
  <2>5. faults' \in 0 .. MaxFaults
    BY <1>9, BoundsOK DEF AnchoredUnseen, Fault, TypeInv, StateOK
  <2> QED BY <1>9, <2>3, <2>4, <2>5 DEF AnchoredUnseen, TypeInv, StateOK
<1> QED BY <1>1, <1>2, <1>3, <1>4, <1>5, <1>6, <1>7, <1>8, <1>9 DEF QueryFails

\* What damage does: rows change or go, and none comes.
LEMMA DamageOnly ==
  ASSUME rows \in Table, Damage
  PROVE  rows' \in Table /\ Stored(rows') \subseteq Stored(rows)
<1>1. CASE \E n \in Stored(rows) : rows' = [rows EXCEPT ![n].event = Changed]
  <2>1. PICK n \in Stored(rows) : rows' = [rows EXCEPT ![n].event = Changed]
    BY <1>1
  <2>2. n \in Seqs /\ rows[n] \in Row
    BY StoredRow
  <2>3. [rows[n] EXCEPT !.event = Changed] \in Row
    BY <2>2 DEF Row
  <2>4. rows' = [rows EXCEPT ![n] = [rows[n] EXCEPT !.event = Changed]]
    BY <2>1
  <2> DEFINE new == [rows[n] EXCEPT !.event = Changed]
  <2> HIDE DEF new
  <2> QED BY <2>2, <2>3, <2>4 DEF Table, Stored, new
<1>4. CASE \E n \in Stored(rows) :
          rows' = [rows EXCEPT ![n].event = Changed, ![n].hash = Hash(rows[n].prev, n, Changed)]
  <2>1. PICK n \in Stored(rows) :
          rows' = [rows EXCEPT ![n].event = Changed, ![n].hash = Hash(rows[n].prev, n, Changed)]
    BY <1>4
  <2>2. n \in Seqs /\ rows[n] \in Row
    BY StoredRow
  <2> DEFINE hash == Hash(rows[n].prev, n, Changed)
             new == [rows[n] EXCEPT !.event = Changed, !.hash = hash]
  <2>3. hash \in Hashes
    <3>1. rows[n].prev \in Seq(Seqs \X (Events \cup {Changed}))
      BY <2>2 DEF Row, Hashes
    <3>2. <<n, Changed>> \in Seqs \X (Events \cup {Changed})
      BY <2>2
    <3> QED BY <3>1, <3>2 DEF Hash, Hashes
  <2>4. rows' = [rows EXCEPT ![n] = new]
    BY <2>1
  <2>5. new \in Row
    <3> HIDE DEF hash
    <3> QED BY <2>2, <2>3 DEF Row
  <2> HIDE DEF new
  <2> QED BY <2>2, <2>4, <2>5 DEF Table, Stored
<1>2. CASE \E n \in Stored(rows) : n < Top(rows) /\ rows' = [rows EXCEPT ![n] = NoRow]
  BY <1>2 DEF Table, Stored
<1>3. CASE \E n \in Stored(rows) : rows' = [m \in Seqs |-> IF m >= n THEN NoRow ELSE rows[m]]
  BY <1>3 DEF Table, Stored
<1> QED BY <1>1, <1>2, <1>3, <1>4 DEF Damage

LEMMA SurroundingType ==
  ASSUME TypeInv, Replicate \/ (\E i \in Instances : Crash(i)) \/ Damage
  PROVE  TypeInv'
<1>1. CASE Replicate
  <2>1. replica'.rows = rows /\ replica'.anchors = anchors
    BY <1>1 DEF Replicate
  <2>2. Len(anchors) \in Nat
    BY DEF TypeInv, StateOK
  <2> QED BY <1>1, <2>1, <2>2 DEF Replicate, TypeInv, StateOK, RangesOK, RangeOK, tables
<1>2. ASSUME NEW i \in Instances, Crash(i)
      PROVE  TypeInv'
  <2>1. rec' \in [Recorders -> Entry]
    BY <1>2, IdleTypes DEF Crash, TypeInv, StateOK
  <2>2. job' \in [Jobs -> JobState]
    BY <1>2, IdleTypes DEF Crash, TypeInv, StateOK
  <2>3. RangesOK'
    <3>1. ASSUME NEW j \in Jobs PROVE RangeOK(job[j])'
      <4>1. job'[j] = NoJob \/ job'[j] = job[j]
        BY <1>2 DEF Crash
      <4> QED BY <4>1 DEF TypeInv, RangesOK, RangeOK, NoJob, Ranging
    <3> QED BY <3>1 DEF RangesOK
  <2>4. faults' \in 0 .. MaxFaults
    BY <1>2, BoundsOK DEF Crash, Fault, TypeInv, StateOK
  <2>5. highest' \in [Instances -> 0 .. MaxEntries]
    BY <1>2, BoundsOK DEF Crash, TypeInv, StateOK
  <2>6. holder' \in Recorders \cup {NoOne}
    BY <1>2 DEF Crash, TypeInv, StateOK
  <2> QED BY <1>2, <2>1, <2>2, <2>3, <2>4, <2>5, <2>6 DEF Crash, TypeInv, StateOK, tables
<1>3. CASE Damage
  <2>1. rows' \in Table
    BY <1>3, DamageOnly DEF TypeInv, StateOK
  <2>2. faults' \in 0 .. MaxFaults
    BY <1>3, BoundsOK DEF Damage, Fault, TypeInv, StateOK
  <2> QED BY <1>3, <2>1, <2>2 DEF Damage, TypeInv, StateOK, RangesOK, RangeOK
<1> QED BY <1>1, <1>2, <1>3

LEMMA TypeStep == TypeInv /\ [Next]_vars => TypeInv'
<1> SUFFICES ASSUME TypeInv, [Next]_vars PROVE TypeInv'
  OBVIOUS
<1>1. CASE UNCHANGED vars
  BY <1>1 DEF vars, tables, TypeInv, StateOK, RangesOK, RangeOK
<1>2. CASE Next
  BY <1>2, RecorderType, VerifyType, AnchorType, SurroundingType DEF Next, JobStep
<1> QED BY <1>1, <1>2

\* Every step keeps the history.
LEMMA WatchStep == Next => Watch
<1>1. ASSUME NEW r \in Recorders, RecorderStep(r) PROVE Watch
  BY <1>1 DEF RecorderStep, BeginAppend, CommitAppend, AppendReturns, AppendFails
<1>2. ASSUME NEW j \in Jobs, JobStep(j) \/ QueryFails(j) PROVE Watch
  BY <1>2 DEF JobStep, QueryFails, QueryRefused, CreatedUnseen, AnchoredUnseen, BeginVerify, ReadBatch,
              CheckBatch, ReadLatestAnchor, CheckAnchor, ReadHead, ReadPrevious, ReadRange,
              CreateAnchor, Submit, UpdateAnchor
<1>3. Replicate \/ Damage \/ (\E i \in Instances : Crash(i)) => Watch
  BY DEF Replicate, Damage, Crash
<1> QED BY <1>1, <1>2, <1>3 DEF Next

\* What is wrong is a sequence and a hash.
LEMMA WrongType ==
  ASSUME StateOK, NEW j \in Jobs
  PROVE  WrongFor(j) \in SUBSET ({"row", "link", "range"} \X Seqs \X Hashes)
<1> DEFINE s == [rows |-> rows, anchors |-> anchors]
<1>1. s.rows = rows /\ s.anchors = anchors
  OBVIOUS
<1>2. WrongFor(j) \subseteq Wrong(HomeOf[j], s)
  BY DEF WrongFor
<1>3. Genesis \in Hashes
  BY DEF Genesis, Hashes
<1> HIDE DEF s
<1>4. \A n \in Lost(HomeOf[j], rows) \cup Altered(rows) \cup Unlinked(rows) : n \in Seqs
  BY DEF Lost, Altered, Unlinked, Stored
<1>5. \A n \in Unlinked(rows) : HashAt(rows, n - 1) \in Hashes
  <2> TAKE n \in Unlinked(rows)
  <2>1. CASE n - 1 = 0
    BY <1>3, <2>1 DEF HashAt
  <2>2. CASE n - 1 \in Stored(rows)
    <3>1. rows[n - 1] \in Row /\ n - 1 # 0
      BY <2>2, StoredRow DEF StateOK, Seqs
    <3> QED BY <3>1 DEF HashAt, Row
  <2> QED BY <2>1, <2>2 DEF Unlinked
<1>6. \A n \in Untrue(s) : n \in Seqs
  <2>1. \A k \in Latest(anchors) : anchors[k] \in Anchor
    BY DEF Latest, Anchored, StateOK
  <2> QED BY <1>1, <2>1 DEF Untrue, Anchor
<1> QED BY <1>1, <1>2, <1>3, <1>4, <1>5, <1>6 DEF Wrong

\* The tables and all that recorders and jobs carry across an await keep their
\* types, for any number of instances, entries, anchors and faults.
THEOREM TypeTheorem == Spec => []TypeOK
<1> DEFINE WrongOK == \A j \in Jobs : WrongFor(j) \in SUBSET ({"row", "link", "range"} \X Seqs \X Hashes)
<1>1. Init => TypeInv /\ TypeOK
  BY TypeInit DEF Init, TypeInv, TypeOK
<1>2. StateOK => WrongOK
  BY WrongType
<1>3. StateOK' => WrongOK'
  BY <1>2, PTL
<1>4. ASSUME TypeInv, TypeOK, [Next]_vars
      PROVE  TypeInv' /\ TypeOK'
  <2>1. TypeInv' /\ StateOK'
    BY <1>4, TypeStep DEF TypeInv
  <2>2. CASE UNCHANGED vars
    BY <1>4, <2>1, <2>2 DEF vars, TypeOK
  <2>3. CASE Next
    <3>1. Watch
      BY <2>3, WatchStep
    <3> QED BY <1>3, <2>1, <3>1 DEF Watch, TypeOK
  <2> QED BY <1>4, <2>2, <2>3
<1> QED BY <1>1, <1>4, PTL DEF Spec

\* The state of the code alone, which is what the proofs below need.
LEMMA StateTheorem == Spec => []StateOK
<1>1. TypeOK => StateOK
  BY DEF TypeOK
<1> QED BY <1>1, TypeTheorem, PTL

-----------------------------------------------------------------------------
(* No append is refused.                                                   *)

\* A row that was built is behind all that are stored, and its recorder holds
\* the lock.
BuiltOK(r) ==
    rec[r].pc = "insert" => /\ holder = r
                            /\ rec[r].n \in Seqs
                            /\ \A m \in Stored(rows) : m < rec[r].n

LockInv == \A r \in Recorders : BuiltOK(r)

LEMMA LockStep == StateOK /\ LockInv /\ [Next]_vars => LockInv'
<1> SUFFICES ASSUME StateOK, LockInv, [Next]_vars, NEW q \in Recorders PROVE BuiltOK(q)'
  BY DEF LockInv
<1>0. BuiltOK(q) /\ rec \in [Recorders -> Entry] /\ rows \in Table
  BY DEF LockInv, StateOK
<1>n. NoEntry.pc = "idle" /\ NoOne \notin Recorders
  BY ActorsOK DEF NoEntry
<1>1. ASSUME NEW r \in Recorders, NEW e \in Events, BeginAppend(r, e) PROVE BuiltOK(q)'
  <2>1. holder = NoOne /\ holder' = r /\ rows' = rows
    BY <1>1 DEF BeginAppend, LockFree, tables
  <2>2. CASE q = r
    <3>1. rec'[q].n = Top(rows) + 1
      BY <1>0, <1>1, <2>2 DEF BeginAppend
    <3>2. Top(rows) + 1 \in Seqs /\ \A m \in Stored(rows) : m < Top(rows) + 1
      BY <1>1, TopIsGreatest, BoundsOK DEF BeginAppend, Seqs, Stored
    <3> QED BY <2>1, <2>2, <3>1, <3>2 DEF BuiltOK
  <2>3. CASE q # r
    <3>1. rec'[q] = rec[q]
      BY <1>0, <1>1, <2>3 DEF BeginAppend
    <3> QED BY <1>0, <1>n, <2>1, <3>1 DEF BuiltOK
  <2> QED BY <2>2, <2>3
<1>2. ASSUME NEW r \in Recorders, CommitAppend(r) PROVE BuiltOK(q)'
  <2>1. holder = r
    BY <1>2 DEF CommitAppend, LockInv, BuiltOK
  <2>2. CASE q = r
    <3>1. rec'[q].pc = "return"
      BY <1>0, <1>2, <2>2 DEF CommitAppend, Entry
    <3> QED BY <3>1 DEF BuiltOK
  <2>3. CASE q # r
    <3>1. rec'[q] = rec[q]
      BY <1>0, <1>2, <2>3 DEF CommitAppend
    <3> QED BY <1>0, <2>1, <2>3, <3>1 DEF BuiltOK
  <2> QED BY <2>2, <2>3
<1>3. ASSUME NEW r \in Recorders, AppendReturns(r) \/ AppendFails(r) PROVE BuiltOK(q)'
  <2>1. CASE q = r
    <3>1. rec'[q] = NoEntry
      BY <1>0, <1>3, <2>1 DEF AppendReturns, AppendFails
    <3> QED BY <1>n, <3>1 DEF BuiltOK
  <2>2. CASE q # r
    <3>1. rec'[q] = rec[q] /\ rows' = rows
      BY <1>0, <1>3, <2>2 DEF AppendReturns, AppendFails, tables
    <3>2. holder = q => holder' = q
      BY <1>3, <2>2 DEF AppendReturns, AppendFails
    <3> QED BY <1>0, <3>1, <3>2 DEF BuiltOK
  <2> QED BY <2>1, <2>2
<1>4. ASSUME NEW i \in Instances, Crash(i) PROVE BuiltOK(q)'
  <2>1. CASE HomeOf[q] = i
    <3>1. rec'[q] = NoEntry
      BY <1>4, <2>1 DEF Crash
    <3> QED BY <1>n, <3>1 DEF BuiltOK
  <2>2. CASE HomeOf[q] # i
    <3>1. rec'[q] = rec[q] /\ rows' = rows /\ (holder = q => holder' = q)
      BY <1>4, <2>2 DEF Crash, tables
    <3> QED BY <1>0, <3>1 DEF BuiltOK
  <2> QED BY <2>1, <2>2
<1>5. CASE Damage
  <2>1. Stored(rows') \subseteq Stored(rows)
    BY <1>0, <1>5, DamageOnly
  <2>2. rec' = rec /\ holder' = holder
    BY <1>5 DEF Damage
  <2> QED BY <1>0, <2>1, <2>2 DEF BuiltOK
<1>6. CASE UNCHANGED <<rows, rec, holder>>
  BY <1>0, <1>6 DEF BuiltOK
<1>7. ASSUME NEW j \in Jobs, JobStep(j) \/ QueryFails(j) PROVE UNCHANGED <<rows, rec, holder>>
  BY <1>7 DEF JobStep, QueryFails, QueryRefused, CreatedUnseen, AnchoredUnseen, BeginVerify, ReadBatch,
              CheckBatch, ReadLatestAnchor, CheckAnchor, ReadHead, ReadPrevious, ReadRange,
              CreateAnchor, Submit, UpdateAnchor, tables
<1>8. CASE Replicate \/ UNCHANGED vars
  BY <1>6, <1>8 DEF Replicate, vars, tables
<1> QED BY <1>1, <1>2, <1>3, <1>4, <1>5, <1>6, <1>7, <1>8 DEF Next, RecorderStep

\* Whatever instances append, fail and stop, and whatever is done to the tables:
\* the advisory lock keeps two recorders from building the same sequence.
THEOREM NoAppendConflictTheorem == Spec => []NoAppendConflict
<1>1. Init => LockInv
  BY DEF Init, LockInv, BuiltOK, NoEntry
<1>2. LockInv => NoAppendConflict
  <2> SUFFICES ASSUME LockInv, NEW r \in Recorders, rec[r].pc = "insert" PROVE rows[rec[r].n] = NoRow
    BY DEF NoAppendConflict
  <2>1. rec[r].n \in Seqs /\ \A m \in Stored(rows) : m < rec[r].n
    BY DEF LockInv, BuiltOK
  <2>2. rec[r].n \notin Stored(rows)
    BY <2>1 DEF Seqs, Stored
  <2> QED BY <2>1, <2>2 DEF Stored
<1> QED BY <1>1, <1>2, LockStep, StateTheorem, PTL DEF Spec

-----------------------------------------------------------------------------
(* The anchors leave no entry out.                                         *)

\* A range starts at the first entry or where one ends that is anchored or was
\* until its success was overwritten.
Continues(list, gone, from) ==
    from = 1 \/ \E l \in Anchored(list) \cup gone : list[l].to + 1 = from

\* The anchor of a job is pending; or its success is recorded and will be overwritten.
Open(v, list) ==
    /\ v.anchor \in DOMAIN list
    /\ \/ list[v.anchor].status = "pending"
       \/ v.pc = "failed" /\ list[v.anchor].status = "anchored"

\* What a job is about to create continues a range, too; what it has created is its
\* own and open.
OwnOK(j) ==
    /\ job[j].pc \in Ranging => Continues(anchors, revoked, job[j].from)
    /\ job[j].pc \in InFlight => /\ Open(job[j], anchors)
                                 /\ \A k \in Jobs \ {j} : job[k].pc \in InFlight =>
                                                            job[k].anchor # job[j].anchor

RevokedOK(list, gone) == \A k \in gone : k \in DOMAIN list /\ list[k].status = "failed"

AnchorInv ==
    /\ \A k \in DOMAIN anchors : Continues(anchors, revoked, anchors[k].from)
    /\ RevokedOK(anchors, revoked)
    /\ \A j \in Jobs : OwnOK(j)

\* A range that was anchored is never forgotten.
Kept ==
    \A l \in Anchored(anchors) \cup revoked :
        l \in Anchored(anchors') \cup revoked' /\ anchors'[l].to = anchors[l].to

LEMMA ContinuesStays ==
  ASSUME Kept, NEW f, Continues(anchors, revoked, f)
  PROVE  Continues(anchors', revoked', f)
BY DEF Kept, Continues

\* What the job of k does while the anchors are left alone.
Fits(k) ==
    \/ job'[k] = job[k]
    \/ job'[k].pc \notin Ranging \cup InFlight
    \/ job'[k].pc \in Ranging /\ Continues(anchors, revoked, job'[k].from)
    \/ /\ job'[k].pc \in InFlight /\ job[k].pc \in InFlight
       /\ job'[k].anchor = job[k].anchor
       /\ job[k].pc = "failed" => job'[k].pc = "failed"

LEMMA OtherSteps ==
  ASSUME AnchorInv, anchors' = anchors, revoked' = revoked, \A k \in Jobs : Fits(k)
  PROVE  AnchorInv'
<1>1. Kept
  BY DEF Kept
<1>2. ASSUME NEW k \in Jobs PROVE OwnOK(k)'
  <2>1. OwnOK(k)
    BY DEF AnchorInv
  <2>2. job'[k].pc \in Ranging => Continues(anchors, revoked, job'[k].from)
    BY <2>1 DEF OwnOK, Fits, Ranging, InFlight
  <2>3. \A l \in Jobs : job'[l].pc \in InFlight =>
            /\ job[l].pc \in InFlight /\ job'[l].anchor = job[l].anchor
            /\ job[l].pc = "failed" => job'[l].pc = "failed"
    BY DEF Fits, Ranging, InFlight
  <2>4. job'[k].pc \in InFlight => /\ Open(job'[k], anchors')
                                  /\ \A l \in Jobs \ {k} : job'[l].pc \in InFlight =>
                                                             job'[l].anchor # job'[k].anchor
    BY <2>1, <2>3 DEF OwnOK, Open
  <2>5. job'[k].pc \in Ranging => Continues(anchors', revoked', job'[k].from)
    BY <1>1, <2>2, ContinuesStays
  <2> QED BY <2>4, <2>5, Zenon DEF OwnOK
<1>3. \A k \in DOMAIN anchors' : Continues(anchors', revoked', anchors'[k].from)
  BY <1>1, ContinuesStays DEF AnchorInv
<1>4. RevokedOK(anchors', revoked')
  BY DEF AnchorInv
<1> QED BY <1>2, <1>3, <1>4 DEF AnchorInv

LEMMA StartContinues ==
  ASSUME StateOK
  PROVE  Continues(anchors, revoked, StartAfter(anchors))
<1>1. CASE Previous(anchors) = {}
  BY <1>1 DEF StartAfter, Continues
<1>2. CASE Previous(anchors) # {}
  <2> DEFINE k == CHOOSE l \in Previous(anchors) : TRUE
  <2>1. k \in Anchored(anchors)
    BY <1>2 DEF Previous, Latest
  <2>2. StartAfter(anchors) = anchors[k].to + 1
    BY <1>2, Zenon DEF StartAfter
  <2> HIDE DEF k
  <2> QED BY <2>1, <2>2 DEF Continues
<1> QED BY <1>1, <1>2

Started == {"previous"} \cup Ranging \cup InFlight

\* After its verification's steps a job is in none of the states of a range.
LEMMA VerifyLeaves ==
  ASSUME StateOK, NEW j \in Jobs,
         BeginVerify(j) \/ ReadBatch(j) \/ CheckBatch(j) \/ ReadLatestAnchor(j) \/ CheckAnchor(j)
  PROVE  \A k \in Jobs : job'[k] = job[k] \/ job'[k].pc \notin Started
<1>0. job \in [Jobs -> JobState]
  BY DEF StateOK
<1>1. ASSUME NEW found, Conclude(j, found)
      PROVE  \A k \in Jobs : job'[k] = job[k] \/ job'[k].pc \notin Started
  <2>1. job'[j].pc \in {"head", "idle"}
    BY <1>0, <1>1 DEF Conclude, NoJob
  <2>2. \A k \in Jobs \ {j} : job'[k] = job[k]
    BY <1>0, <1>1 DEF Conclude
  <2> QED BY <2>1, <2>2 DEF Started, Ranging, InFlight
<1>2. CASE BeginVerify(j)
  BY <1>0, <1>2 DEF BeginVerify, NoJob, Started, Ranging, InFlight
<1>3. CASE ReadBatch(j)
  <2>1. job'[j].pc = "batch" /\ \A k \in Jobs \ {j} : job'[k] = job[k]
    BY <1>0, <1>3 DEF ReadBatch, JobState
  <2> QED BY <2>1 DEF Started, Ranging, InFlight
<1>4. CASE CheckBatch(j)
  <2>1. job'[j].pc \in {"scan", "latest"} /\ \A k \in Jobs \ {j} : job'[k] = job[k]
    BY <1>0, <1>4 DEF CheckBatch, JobState
  <2> QED BY <2>1 DEF Started, Ranging, InFlight
<1>5. CASE ReadLatestAnchor(j)
  <2>1. CASE \E found : Conclude(j, found)
    BY <1>1, <2>1
  <2>2. CASE \E k : job' = [job EXCEPT ![j].pc = "hashes", ![j].anchor = k]
    <3>1. job'[j].pc = "hashes" /\ \A k \in Jobs \ {j} : job'[k] = job[k]
      BY <1>0, <2>2 DEF JobState
    <3> QED BY <3>1 DEF Started, Ranging, InFlight
  <2>3. (\E found : Conclude(j, found)) \/ \E k : job' = [job EXCEPT ![j].pc = "hashes", ![j].anchor = k]
    BY <1>5, Zenon DEF ReadLatestAnchor
  <2> QED BY <2>1, <2>2, <2>3
<1>6. CASE CheckAnchor(j)
  <2>1. \E found : Conclude(j, found)
    BY <1>6, Zenon DEF CheckAnchor
  <2> QED BY <1>1, <2>1
<1> QED BY <1>2, <1>3, <1>4, <1>5, <1>6

\* createAnchor and updateAnchor, whether or not their answer arrives.
Creates(j) == CreateAnchor(j) \/ CreatedUnseen(j)
Marks(j)   == UpdateAnchor(j) \/ AnchoredUnseen(j)

LEMMA CreateEffect ==
  ASSUME TypeInv, AnchorInv, NEW j \in Jobs, Creates(j)
  PROVE  /\ job[j].pc = "create" /\ revoked' = revoked
         /\ DOMAIN anchors' = 1 .. Len(anchors) + 1
         /\ \A k \in DOMAIN anchors : anchors'[k] = anchors[k]
         /\ anchors'[Len(anchors) + 1].from = job[j].from
         /\ anchors'[Len(anchors) + 1].to = job[j].to
         /\ anchors'[Len(anchors) + 1].root = job[j].root
         /\ anchors'[Len(anchors) + 1].status = "pending"
         /\ Kept
<1>0. anchors \in Seq(Anchor) /\ Len(anchors) \in Nat /\ DOMAIN anchors = 1 .. Len(anchors)
  BY DEF TypeInv, StateOK
<1>1. /\ job[j].pc = "create" /\ revoked' = revoked
      /\ anchors' = Append(anchors, PendingAnchor(j))
  BY DEF Creates, CreateAnchor, CreatedUnseen
<1>2. \A k \in DOMAIN anchors : anchors'[k] = anchors[k]
  BY <1>0, <1>1
<1>3. Kept
  BY <1>0, <1>1, <1>2 DEF Kept, Anchored, AnchorInv, RevokedOK
<1> QED BY <1>0, <1>1, <1>2, <1>3 DEF PendingAnchor

LEMMA CreateKeeps ==
  ASSUME TypeInv, AnchorInv, NEW j \in Jobs, Creates(j)
  PROVE  AnchorInv'
<1> DEFINE n == Len(anchors) + 1
<1>0. /\ job \in [Jobs -> JobState] /\ anchors \in Seq(Anchor) /\ Len(anchors) \in Nat
      /\ DOMAIN anchors = 1 .. Len(anchors)
  BY DEF TypeInv, StateOK
<1>1. /\ DOMAIN anchors' = 1 .. n
      /\ \A k \in DOMAIN anchors : anchors'[k] = anchors[k]
      /\ anchors'[n].from = job[j].from /\ anchors'[n].status = "pending"
      /\ job[j].pc = "create" /\ revoked' = revoked
  BY CreateEffect
<1>2. Kept
  BY CreateEffect
<1>3. /\ (job'[j].pc = "submit" /\ job'[j].anchor = n) \/ job'[j].pc = "idle"
      /\ \A k \in Jobs \ {j} : job'[k] = job[k]
  BY <1>0 DEF Creates, CreateAnchor, CreatedUnseen, JobState, NoJob
<1>4. ASSUME NEW k \in DOMAIN anchors' PROVE Continues(anchors', revoked', anchors'[k].from)
  <2>1. CASE k \in DOMAIN anchors
    BY <1>1, <1>2, <2>1, ContinuesStays DEF AnchorInv
  <2>2. CASE k = n
    <3>1. Continues(anchors, revoked, job[j].from)
      BY <1>1 DEF AnchorInv, OwnOK, Ranging
    <3> QED BY <1>1, <1>2, <2>2, <3>1, ContinuesStays
  <2> QED BY <1>0, <1>1, <2>1, <2>2
<1>5. \A k \in Jobs \ {j} : job[k].pc \in InFlight => job[k].anchor \in DOMAIN anchors /\ job[k].anchor # n
  BY <1>0 DEF AnchorInv, OwnOK, Open
<1>6. ASSUME NEW k \in Jobs PROVE OwnOK(k)'
  <2>1. CASE k = j
    <3>1. n \in DOMAIN anchors'
      BY <1>0, <1>1
    <3>2. job'[j].pc = "submit" => Open(job'[j], anchors')
      <4> HIDE DEF n
      <4> QED BY <1>1, <1>3, <3>1 DEF Open
    <3> HIDE DEF n
    <3> QED BY <1>1, <1>3, <1>5, <2>1, <3>1, <3>2 DEF OwnOK, Ranging, InFlight
  <2>2. CASE k # j
    <3>1. OwnOK(k) /\ job'[k] = job[k]
      BY <1>3, <2>2 DEF AnchorInv
    <3>2. job[k].pc \in Ranging => Continues(anchors', revoked', job[k].from)
      BY <1>2, <3>1, ContinuesStays DEF OwnOK
    <3>3. ASSUME job[k].pc \in InFlight
          PROVE  /\ Open(job[k], anchors')
                 /\ \A l \in Jobs \ {k} : job'[l].pc \in InFlight => job'[l].anchor # job[k].anchor
      <4>1. Open(job[k], anchors)
        BY <3>1, <3>3 DEF OwnOK
      <4>2. Open(job[k], anchors')
        BY <1>0, <1>1, <4>1 DEF Open
      <4>3. ASSUME NEW l \in Jobs \ {k}, job'[l].pc \in InFlight PROVE job'[l].anchor # job[k].anchor
        <5>1. CASE l = j
          BY <1>3, <1>5, <2>2, <3>3, <4>3, <5>1 DEF InFlight
        <5>2. CASE l # j
          BY <1>3, <3>1, <3>3, <4>3, <5>2 DEF OwnOK
        <5> QED BY <5>1, <5>2
      <4> QED BY <4>2, <4>3
    <3> QED BY <3>1, <3>2, <3>3, Zenon DEF OwnOK
  <2> QED BY <2>1, <2>2
<1>7. RevokedOK(anchors', revoked')
  BY <1>0, <1>1 DEF AnchorInv, RevokedOK
<1> QED BY <1>4, <1>6, <1>7 DEF AnchorInv

LEMMA UpdateEffect ==
  ASSUME TypeInv, AnchorInv, NEW j \in Jobs, Marks(j)
  PROVE  /\ DOMAIN anchors' = DOMAIN anchors
         /\ \A k \in DOMAIN anchors : /\ k # job[j].anchor => anchors'[k] = anchors[k]
                                      /\ anchors'[k].from = anchors[k].from
                                      /\ anchors'[k].to = anchors[k].to
                                      /\ anchors'[k].root = anchors[k].root
         /\ Open(job[j], anchors) /\ job[j].pc \in {"anchored", "failed"}
         /\ anchors'[job[j].anchor].status = job[j].pc
         /\ revoked' = IF job[j].pc = "failed" /\ anchors[job[j].anchor].status = "anchored"
                       THEN revoked \cup {job[j].anchor} ELSE revoked
         /\ Kept
<1>0. \A k \in DOMAIN anchors : anchors[k] \in Anchor
  BY DEF TypeInv, StateOK
<1>1. PICK st : st = job[j].pc
  OBVIOUS
<1>2. PICK a : a = job[j].anchor
  OBVIOUS
<1>3. /\ st \in {"anchored", "failed"}
      /\ anchors' = [anchors EXCEPT ![a] = [anchors[a] EXCEPT !.status = st]]
      /\ revoked' = IF st = "failed" /\ anchors[a].status = "anchored" THEN revoked \cup {a} ELSE revoked
  BY <1>1, <1>2 DEF Marks, UpdateAnchor, AnchoredUnseen
<1>4. Open(job[j], anchors)
  BY <1>1, <1>3 DEF AnchorInv, OwnOK, InFlight
<1>5. a \in DOMAIN anchors /\ (anchors[a].status = "anchored" => st = "failed")
      /\ anchors[a].status # "failed"
  BY <1>1, <1>2, <1>4 DEF Open
<1>6. DOMAIN anchors' = DOMAIN anchors /\ \A k \in DOMAIN anchors : k # a => anchors'[k] = anchors[k]
  BY <1>3
<1>7. /\ anchors'[a].from = anchors[a].from /\ anchors'[a].to = anchors[a].to
      /\ anchors'[a].root = anchors[a].root /\ anchors'[a].status = st
  <2>1. anchors[a] \in Anchor /\ anchors'[a] = [anchors[a] EXCEPT !.status = st]
    BY <1>0, <1>3, <1>5
  <2> QED BY <2>1 DEF Anchor
<1>8. Kept
  <2> SUFFICES ASSUME NEW l \in Anchored(anchors) \cup revoked
               PROVE  l \in Anchored(anchors') \cup revoked' /\ anchors'[l].to = anchors[l].to
    BY DEF Kept
  <2>1. l \in DOMAIN anchors /\ anchors'[l].to = anchors[l].to
    BY <1>6, <1>7 DEF AnchorInv, RevokedOK, Anchored
  <2>2. CASE l \in revoked
    BY <1>3, <2>1, <2>2
  <2>3. CASE l \in Anchored(anchors) /\ l = a
    BY <1>3, <1>5, <2>1, <2>3 DEF Anchored
  <2>4. CASE l \in Anchored(anchors) /\ l # a
    BY <1>6, <2>1, <2>4 DEF Anchored
  <2> QED BY <2>1, <2>2, <2>3, <2>4
<1>9. \A k \in DOMAIN anchors : /\ anchors'[k].from = anchors[k].from /\ anchors'[k].to = anchors[k].to
                               /\ anchors'[k].root = anchors[k].root
  BY <1>6, <1>7
<1> QED BY <1>1, <1>2, <1>3, <1>4, <1>6, <1>7, <1>8, <1>9

LEMMA UpdateKeeps ==
  ASSUME TypeInv, AnchorInv, NEW j \in Jobs, Marks(j)
  PROVE  AnchorInv'
<1> DEFINE a == job[j].anchor
<1>0. job \in [Jobs -> JobState]
  BY DEF TypeInv, StateOK
<1>1. /\ DOMAIN anchors' = DOMAIN anchors
      /\ \A k \in DOMAIN anchors : /\ k # a => anchors'[k] = anchors[k]
                                   /\ anchors'[k].from = anchors[k].from
                                   /\ anchors'[k].to = anchors[k].to
      /\ Open(job[j], anchors) /\ anchors'[a].status = job[j].pc
      /\ revoked' = IF job[j].pc = "failed" /\ anchors[a].status = "anchored"
                    THEN revoked \cup {a} ELSE revoked
  BY UpdateEffect
<1>2. job[j].pc \in InFlight
  BY DEF Marks, UpdateAnchor, AnchoredUnseen, InFlight
<1>3. a \in DOMAIN anchors /\ anchors[a].status # "failed"
  BY <1>1 DEF Open
<1>4. Kept
  BY UpdateEffect
<1>5. /\ \/ job'[j].pc = "idle"
         \/ job[j].pc = "anchored" /\ job'[j].pc = "failed" /\ job'[j].anchor = a
      /\ \A k \in Jobs \ {j} : job'[k] = job[k]
  BY <1>0 DEF Marks, UpdateAnchor, AnchoredUnseen, NoJob, JobState
<1>6. ASSUME NEW k \in Jobs PROVE OwnOK(k)'
  <2>0. \A l \in Jobs \ {k} : job'[l].pc \in InFlight => job[l].pc \in InFlight /\ job'[l].anchor = job[l].anchor
    BY <1>2, <1>5 DEF InFlight
  <2>1. CASE k = j
    <3>1. CASE job'[j].pc = "idle"
      BY <2>1, <3>1 DEF OwnOK, Ranging, InFlight
    <3>2. CASE job[j].pc = "anchored" /\ job'[j].pc = "failed" /\ job'[j].anchor = a
      <4>1. Open(job'[j], anchors')
        <5> HIDE DEF a
        <5> QED BY <1>1, <1>3, <3>2 DEF Open
      <4>2. \A l \in Jobs \ {j} : job[l].pc \in InFlight => job[l].anchor # a
        BY <1>2 DEF AnchorInv, OwnOK
      <4>3. \A l \in Jobs \ {j} : job'[l].pc \in InFlight => job'[l].anchor # job'[j].anchor
        BY <2>0, <2>1, <3>2, <4>2
      <4>4. job'[j].pc \notin Ranging
        BY <3>2 DEF Ranging
      <4> QED BY <2>1, <4>1, <4>3, <4>4 DEF OwnOK
    <3> QED BY <1>5, <3>1, <3>2
  <2>2. CASE k # j
    <3>1. OwnOK(k) /\ job'[k] = job[k]
      BY <1>5, <2>2 DEF AnchorInv
    <3>2. job[k].pc \in Ranging => Continues(anchors', revoked', job[k].from)
      BY <1>4, <3>1, ContinuesStays DEF OwnOK
    <3>3. ASSUME job[k].pc \in InFlight
          PROVE  /\ Open(job[k], anchors')
                 /\ \A l \in Jobs \ {k} : job'[l].pc \in InFlight => job'[l].anchor # job[k].anchor
      <4>1. /\ Open(job[k], anchors)
            /\ \A l \in Jobs \ {k} : job[l].pc \in InFlight => job[l].anchor # job[k].anchor
        BY <3>1, <3>3 DEF OwnOK
      <4>2. job[k].anchor # a
        BY <1>2, <2>2, <4>1
      <4>3. \A l \in Jobs \ {k} : job'[l].pc \in InFlight => job'[l].anchor # job[k].anchor
        BY <2>0, <4>1
      <4>4. Open(job[k], anchors')
        <5> HIDE DEF a
        <5> QED BY <1>1, <4>1, <4>2 DEF Open
      <4> QED BY <4>3, <4>4
    <3> QED BY <3>1, <3>2, <3>3, Zenon DEF OwnOK
  <2> QED BY <2>1, <2>2
<1>7. ASSUME NEW k \in DOMAIN anchors' PROVE Continues(anchors', revoked', anchors'[k].from)
  <2>1. k \in DOMAIN anchors /\ anchors'[k].from = anchors[k].from
    BY <1>1
  <2>2. Continues(anchors, revoked, anchors[k].from)
    BY <2>1 DEF AnchorInv
  <2> QED BY <1>4, <2>1, <2>2, ContinuesStays
<1>8. RevokedOK(anchors', revoked')
  <2> HIDE DEF a
  <2>1. \A k \in revoked : k \in DOMAIN anchors' /\ anchors'[k].status = "failed"
    BY <1>1, <1>3 DEF AnchorInv, RevokedOK
  <2> QED BY <1>1, <1>3, <2>1 DEF RevokedOK
<1> QED BY <1>6, <1>7, <1>8 DEF AnchorInv

LEMMA AnchorStep == TypeInv /\ AnchorInv /\ [Next]_vars => AnchorInv'
<1> SUFFICES ASSUME TypeInv, AnchorInv, [Next]_vars PROVE AnchorInv'
  OBVIOUS
<1>0. StateOK /\ job \in [Jobs -> JobState]
  BY DEF TypeInv, StateOK
<1>1. CASE UNCHANGED <<anchors, revoked, job>>
  BY <1>1, OtherSteps DEF Fits
<1>2. ASSUME NEW r \in Recorders, RecorderStep(r) PROVE UNCHANGED <<anchors, revoked, job>>
  BY <1>2 DEF RecorderStep, BeginAppend, CommitAppend, AppendReturns, AppendFails, tables
<1>3. CASE Replicate \/ Damage \/ UNCHANGED vars
  BY <1>1, <1>3 DEF Replicate, Damage, tables, vars
<1>4. ASSUME NEW i \in Instances, Crash(i) PROVE AnchorInv'
  <2>1. /\ anchors' = anchors /\ revoked' = revoked
        /\ \A k \in Jobs : job'[k] = job[k] \/ job'[k].pc \notin Ranging \cup InFlight
    BY <1>4 DEF Crash, tables, NoJob, Ranging, InFlight
  <2> QED BY <2>1, OtherSteps DEF Fits
<1>5. ASSUME NEW j \in Jobs,
             BeginVerify(j) \/ ReadBatch(j) \/ CheckBatch(j) \/ ReadLatestAnchor(j) \/ CheckAnchor(j)
      PROVE  AnchorInv'
  <2>1. anchors' = anchors /\ revoked' = revoked
    BY <1>5 DEF BeginVerify, ReadBatch, CheckBatch, ReadLatestAnchor, CheckAnchor, tables
  <2>2. \A k \in Jobs : Fits(k)
    BY <1>0, <1>5, VerifyLeaves DEF Fits, Started
  <2> QED BY <2>1, <2>2, OtherSteps
<1>6. ASSUME NEW j \in Jobs, ReadHead(j) \/ ReadPrevious(j) \/ ReadRange(j) \/ Submit(j) \/ QueryRefused(j)
      PROVE  AnchorInv'
  <2>0. anchors' = anchors /\ revoked' = revoked /\ job[j] \in JobState
    BY <1>0, <1>6 DEF ReadHead, ReadPrevious, ReadRange, Submit, QueryRefused, tables
  <2>1. CASE ReadHead(j)
    <3>1. job'[j].pc = "previous" /\ \A k \in Jobs \ {j} : job'[k] = job[k]
      BY <1>0, <2>0, <2>1 DEF ReadHead, JobState
    <3>2. job'[j].pc \notin Ranging \cup InFlight
      BY <3>1 DEF Ranging, InFlight
    <3>3. \A k \in Jobs : Fits(k)
      BY <3>1, <3>2 DEF Fits
    <3> QED BY <2>0, <3>3, OtherSteps
  <2>2. CASE ReadPrevious(j)
    <3>1. \A k \in Jobs \ {j} : job'[k] = job[k]
      BY <1>0, <2>2 DEF ReadPrevious
    <3>2. \/ job'[j].pc \notin Ranging \cup InFlight
          \/ job'[j].pc \in Ranging /\ Continues(anchors, revoked, job'[j].from)
      <4> DEFINE from == StartAfter(anchors)
      <4>1. Continues(anchors, revoked, from)
        BY <1>0, StartContinues
      <4>2. job'[j] = IF job[j].to < from THEN NoJob ELSE [job[j] EXCEPT !.pc = "range", !.from = from]
        BY <1>0, <2>2 DEF ReadPrevious
      <4>3. NoJob.pc = "idle"
        BY DEF NoJob
      <4>4. /\ [job[j] EXCEPT !.pc = "range", !.from = from].pc = "range"
            /\ [job[j] EXCEPT !.pc = "range", !.from = from].from = from
        BY <2>0 DEF JobState
      <4> HIDE DEF from
      <4> QED BY <4>1, <4>2, <4>3, <4>4 DEF Ranging, InFlight
    <3>3. \A k \in Jobs : Fits(k)
      BY <3>1, <3>2 DEF Fits
    <3> QED BY <2>0, <3>3, OtherSteps
  <2>3. CASE ReadRange(j)
    <3>1. job'[j].pc = "create" /\ job'[j].from = job[j].from /\ \A k \in Jobs \ {j} : job'[k] = job[k]
      BY <1>0, <2>0, <2>3 DEF ReadRange, JobState
    <3>2. job'[j].pc \in Ranging /\ Continues(anchors, revoked, job'[j].from)
      BY <2>3, <3>1 DEF ReadRange, AnchorInv, OwnOK, Ranging
    <3>3. \A k \in Jobs : Fits(k)
      BY <3>1, <3>2 DEF Fits
    <3> QED BY <2>0, <3>3, OtherSteps
  <2>4. CASE Submit(j)
    <3>1. /\ job'[j].pc \in {"anchored", "failed"} /\ job'[j].anchor = job[j].anchor
          /\ \A k \in Jobs \ {j} : job'[k] = job[k]
      BY <1>0, <2>0, <2>4 DEF Submit, JobState
    <3>2. job'[j].pc \in InFlight /\ job[j].pc \in InFlight /\ job[j].pc # "failed"
      BY <2>4, <3>1 DEF Submit, InFlight
    <3>3. \A k \in Jobs : Fits(k)
      BY <3>1, <3>2 DEF Fits
    <3> QED BY <2>0, <3>3, OtherSteps
  <2>5. CASE QueryRefused(j)
    <3>1. \A k \in Jobs \ {j} : job'[k] = job[k]
      BY <1>0, <2>5 DEF QueryRefused
    <3>2. \/ job'[j].pc \notin Ranging \cup InFlight
          \/ /\ job'[j].pc = "failed" /\ job[j].pc \in InFlight
             /\ job'[j].anchor = job[j].anchor
      BY <1>0, <2>0, <2>5 DEF QueryRefused, JobState, NoJob, Ranging, InFlight
    <3>3. \A k \in Jobs : Fits(k)
      BY <3>1, <3>2 DEF Fits, InFlight
    <3> QED BY <2>0, <3>3, OtherSteps
  <2> QED BY <1>6, <2>1, <2>2, <2>3, <2>4, <2>5
<1>7. ASSUME NEW j \in Jobs, Creates(j) \/ Marks(j) PROVE AnchorInv'
  BY <1>7, CreateKeeps, UpdateKeeps
<1> QED BY <1>1, <1>2, <1>3, <1>4, <1>5, <1>6, <1>7 DEF Next, JobStep, QueryFails, Creates, Marks

LEMMA CoverFollows ==
  ASSUME StateOK, AnchorInv
  PROVE  AnchorsCover
<1> DEFINE Counted == Anchored(anchors) \cup revoked
<1> SUFFICES ASSUME NEW k \in Anchored(anchors), NEW n \in 1 .. anchors[k].to,
                    ~ \E l \in Counted : anchors[l].from <= n /\ n <= anchors[l].to
             PROVE  FALSE
  BY DEF AnchorsCover
<1>1. \A l \in Counted : /\ anchors[l].to \in 0 .. MaxEntries /\ anchors[l].from \in Nat
                         /\ l \in DOMAIN anchors
  <2>1. \A l \in DOMAIN anchors : anchors[l] \in Anchor
    BY DEF StateOK
  <2> QED BY <2>1, BoundsOK DEF Anchored, AnchorInv, RevokedOK, Anchor, Seqs
<1>2. n \in Nat /\ k \in Counted
  BY <1>1
\* Of the counted ranges that end behind n, take one that ends first.
<1> DEFINE T == {anchors[l].to : l \in {m \in Counted : n <= anchors[m].to}}
<1>3. T \in SUBSET Nat /\ anchors[k].to \in T
  BY <1>1, <1>2
<1>4. PICK t \in T : \A u \in T : t <= u
  BY <1>3, LeastOf
<1>5. PICK l \in Counted : n <= anchors[l].to /\ anchors[l].to = t
  BY <1>4
<1>6. n < anchors[l].from /\ anchors[l].from # 1
  BY <1>1, <1>2, <1>5
<1>7. PICK m \in Counted : anchors[m].to + 1 = anchors[l].from
  BY <1>1, <1>6 DEF AnchorInv, Continues
<1>8. anchors[m].to \in T
  BY <1>1, <1>2, <1>6, <1>7
<1>9. anchors[l].from <= anchors[l].to
  BY <1>1 DEF StateOK, Anchor
<1> HIDE DEF T
<1> QED BY <1>1, <1>4, <1>5, <1>7, <1>8, <1>9

\* Overlapping, failing and abandoned anchor jobs, on any number of instances,
\* leave no entry below the latest anchor out but those of a range whose recorded
\* success was overwritten after its answer was lost (runAnchorMerkleRootJob).
THEOREM AnchorsCoverTheorem == Spec => []AnchorsCover
<1>1. Init => AnchorInv
  BY DEF Init, AnchorInv, OwnOK, RevokedOK, NoJob, Ranging, InFlight
<1>2. TypeInv /\ AnchorInv => AnchorsCover
  BY CoverFollows DEF TypeInv
<1> QED BY <1>1, <1>2, AnchorStep, TypeInit, TypeStep, PTL DEF Spec

-----------------------------------------------------------------------------
(* The chain is linked while its tables are left alone.                    *)

LeftAlone == Faults \cap {"edit", "rewrite", "delete", "tail"} = {}

\* The row that a recorder built follows the last one.
FollowsHead(r) ==
    rec[r].pc = "insert" =>
        /\ rec[r].n = Top(rows) + 1
        /\ rec[r].row \in Row /\ rec[r].row.event \in Events
        /\ rec[r].row.prev = HeadHash(rows)
        /\ rec[r].row.hash = Hash(HeadHash(rows), Top(rows) + 1, rec[r].row.event)

ChainInv ==
    /\ Intact(rows)
    /\ Stored(rows) = 1 .. Top(rows)
    /\ \A n \in Stored(rows) : rows[n].event \in Events
    /\ \A r \in Recorders : FollowsHead(r)

LEMMA ChainInit == Init => ChainInv
<1> SUFFICES ASSUME Init PROVE ChainInv
  OBVIOUS
<1>1. Stored(rows) = {}
  BY DEF Init, Stored
<1>2. Top(rows) = 0
  BY <1>1, TopIsGreatest
<1>3. \A r \in Recorders : FollowsHead(r)
  BY DEF Init, FollowsHead, NoEntry
<1> QED BY <1>1, <1>2, <1>3 DEF ChainInv, Intact

\* What a commit does to the chain.
LEMMA CommitEffect ==
  ASSUME StateOK, LockInv, ChainInv, NEW r \in Recorders, CommitAppend(r)
  PROVE  /\ Top(rows') = Top(rows) + 1
         /\ Stored(rows') = 1 .. Top(rows) + 1
         /\ \A n \in Stored(rows) : rows'[n] = rows[n]
         /\ rows'[Top(rows) + 1] = rec[r].row
         /\ FollowsHead(r) /\ rec[r].pc = "insert"
         /\ Top(rows) + 1 \in Seqs
<1>1. rec[r].pc = "insert" /\ FollowsHead(r) /\ rec[r].n \in Seqs /\ Stored(rows) = 1 .. Top(rows)
  BY DEF CommitAppend, ChainInv, LockInv, BuiltOK
<1>2. rec[r].n = Top(rows) + 1 /\ rec[r].row \in Row
  BY <1>1 DEF FollowsHead
<1>3. rec[r].row # NoRow
  BY <1>2, NoRowOK
<1>4. Top(rows) \in Nat /\ Top(rows) + 1 \in Seqs
  BY <1>1, <1>2, TopIsGreatest
<1>5. rows' = [rows EXCEPT ![Top(rows) + 1] = rec[r].row] /\ rows \in [Seqs -> Row \cup {NoRow}]
  BY <1>2 DEF CommitAppend, StateOK, Table
<1>6. \A n \in Seqs : rows'[n] = IF n = Top(rows) + 1 THEN rec[r].row ELSE rows[n]
  BY <1>4, <1>5
<1>7. Stored(rows') = Stored(rows) \cup {Top(rows) + 1}
  BY <1>3, <1>4, <1>6 DEF Stored
<1>8. Stored(rows') = 1 .. Top(rows) + 1
  BY <1>1, <1>4, <1>7
<1>9. Top(rows') = Top(rows) + 1
  <2>1. PICK n : n = Top(rows) + 1
    OBVIOUS
  <2>2. n \in Stored(rows') \cup {0} /\ \A m \in Stored(rows') : m <= n
    BY <1>4, <1>8, <2>1
  <2>3. Top(rows') = n
    BY <2>2, TopUnique
  <2> QED BY <2>1, <2>3
<1>10. \A n \in Stored(rows) : rows'[n] = rows[n]
  BY <1>1, <1>4, <1>6 DEF Stored
<1> QED BY <1>1, <1>4, <1>6, <1>8, <1>9, <1>10

LEMMA ChainStep ==
  ASSUME LeftAlone, StateOK, LockInv, ChainInv, [Next]_vars
  PROVE  ChainInv'
<1>0. rec \in [Recorders -> Entry] /\ rows \in Table
  BY DEF StateOK
<1>1. ASSUME rows' = rows, \A q \in Recorders : rec'[q] = rec[q] \/ rec'[q].pc # "insert"
      PROVE  ChainInv'
  <2>1. ASSUME NEW q \in Recorders PROVE FollowsHead(q)'
    BY <1>1 DEF ChainInv, FollowsHead
  <2> QED BY <1>1, <2>1 DEF ChainInv
<1>2. ASSUME NEW r \in Recorders, NEW e \in Events, BeginAppend(r, e) PROVE ChainInv'
  <2>1. rows' = rows /\ \A q \in Recorders \ {r} : rec'[q] = rec[q]
    BY <1>0, <1>2 DEF BeginAppend, tables
  <2>2. rec'[r] = [pc |-> "insert", n |-> Top(rows) + 1, row |-> RowAfterHead(e)]
    BY <1>0, <1>2 DEF BeginAppend
  <2>3. RowAfterHead(e) \in Row
    BY <1>0, <1>2, NewRow DEF BeginAppend
  <2>4. FollowsHead(r)'
    BY <2>1, <2>2, <2>3 DEF FollowsHead, RowAfterHead
  <2>5. \A q \in Recorders \ {r} : FollowsHead(q)'
    BY <2>1 DEF ChainInv, FollowsHead
  <2> QED BY <2>1, <2>4, <2>5 DEF ChainInv
<1>3. ASSUME NEW r \in Recorders, CommitAppend(r) PROVE ChainInv'
  <2> DEFINE t == Top(rows)
  <2>1. /\ Top(rows') = t + 1 /\ Stored(rows') = 1 .. t + 1
        /\ \A n \in Stored(rows) : rows'[n] = rows[n]
        /\ rows'[t + 1] = rec[r].row /\ t + 1 \in Seqs
        /\ FollowsHead(r) /\ rec[r].pc = "insert"
    BY <1>3, CommitEffect
  <2>2. t \in Nat /\ Stored(rows) = 1 .. t /\ Intact(rows)
    BY TopIsGreatest DEF ChainInv
  <2>3. /\ rec[r].row.prev = HeadHash(rows) /\ rec[r].row.event \in Events
        /\ rec[r].row.hash = Hash(HeadHash(rows), t + 1, rec[r].row.event)
    BY <2>1 DEF FollowsHead
  <2>4. HeadHash(rows) = IF t = 0 THEN Genesis ELSE rows[t].hash
    BY DEF HeadHash, HashAt
  <2> HIDE DEF t
  <2>5. ASSUME NEW n \in Stored(rows')
        PROVE  /\ n > 1 => n - 1 \in Stored(rows')
               /\ rows'[n].prev = IF n = 1 THEN Genesis ELSE rows'[n - 1].hash
               /\ rows'[n].hash = Hash(rows'[n].prev, n, rows'[n].event)
               /\ rows'[n].event \in Events
    <3>1. CASE n = t + 1
      <4>1. rows'[n].prev = HeadHash(rows)
        BY <2>1, <2>3, <3>1
      <4>2. HeadHash(rows) = IF n = 1 THEN Genesis ELSE rows'[n - 1].hash
        BY <2>1, <2>2, <2>4, <3>1
      <4>3. rows'[n].hash = Hash(rows'[n].prev, n, rows'[n].event) /\ rows'[n].event \in Events
        BY <2>1, <2>3, <3>1
      <4>4. n > 1 => n - 1 \in Stored(rows')
        BY <2>1, <2>2, <3>1
      <4> QED BY <4>1, <4>2, <4>3, <4>4
    <3>2. CASE n # t + 1
      <4>1. n \in Stored(rows) /\ (n > 1 => n - 1 \in Stored(rows))
        BY <2>1, <2>2, <3>2
      <4>2. /\ rows[n].prev = IF n = 1 THEN Genesis ELSE rows[n - 1].hash
            /\ rows[n].hash = Hash(rows[n].prev, n, rows[n].event)
            /\ rows[n].event \in Events
        BY <4>1 DEF ChainInv, Intact
      <4>3. rows'[n] = rows[n] /\ (n # 1 => rows'[n - 1] = rows[n - 1])
        BY <2>1, <2>2, <4>1
      <4> QED BY <2>1, <2>2, <4>1, <4>2, <4>3
    <3> QED BY <3>1, <3>2
  <2>6. Intact(rows') /\ \A n \in Stored(rows') : rows'[n].event \in Events
    BY <2>5 DEF Intact
  <2>7. ASSUME NEW q \in Recorders PROVE FollowsHead(q)'
    <3>1. CASE q = r
      <4>1. rec'[r].pc = "return"
        BY <1>0, <1>3 DEF CommitAppend, Entry
      <4> QED BY <3>1, <4>1 DEF FollowsHead
    <3>2. CASE q # r
      <4>1. rec'[q] = rec[q] /\ rec[q].pc # "insert"
        BY <1>0, <1>3, <3>2 DEF CommitAppend, LockInv, BuiltOK
      <4> QED BY <4>1 DEF FollowsHead
    <3> QED BY <3>1, <3>2
  <2> QED BY <2>1, <2>6, <2>7 DEF ChainInv
<1>4. ASSUME NEW r \in Recorders, AppendReturns(r) \/ AppendFails(r) PROVE ChainInv'
  <2>1. rows' = rows /\ \A q \in Recorders : rec'[q] = rec[q] \/ rec'[q].pc # "insert"
    BY <1>0, <1>4 DEF AppendReturns, AppendFails, NoEntry, tables
  <2> QED BY <1>1, <2>1
<1>5. ASSUME NEW i \in Instances, Crash(i) PROVE ChainInv'
  <2>1. rows' = rows /\ \A q \in Recorders : rec'[q] = rec[q] \/ rec'[q].pc # "insert"
    BY <1>5 DEF Crash, NoEntry, tables
  <2> QED BY <1>1, <2>1
<1>6. CASE Damage
  BY <1>6 DEF Damage, Fault, LeftAlone
<1>7. ASSUME NEW j \in Jobs, JobStep(j) \/ QueryFails(j) PROVE ChainInv'
  <2>1. UNCHANGED <<rows, rec>>
    BY <1>7 DEF JobStep, QueryFails, QueryRefused, CreatedUnseen, AnchoredUnseen, BeginVerify, ReadBatch,
                CheckBatch, ReadLatestAnchor, CheckAnchor, ReadHead, ReadPrevious, ReadRange,
                CreateAnchor, Submit, UpdateAnchor, tables
  <2> QED BY <1>1, <2>1
<1>8. CASE Replicate \/ UNCHANGED vars
  BY <1>1, <1>8 DEF Replicate, vars, tables
<1> QED BY <1>2, <1>3, <1>4, <1>5, <1>6, <1>7, <1>8 DEF Next, RecorderStep

\* While the tables are left alone, whatever instances append, fail or stop: the
\* chain has no gap and every row commits to the one before.
THEOREM ChainTheorem ==
  ASSUME LeftAlone
  PROVE  Spec => []ChainLinked
<1>1. Init => LockInv
  BY DEF Init, LockInv, BuiltOK, NoEntry
<1>2. TypeInv /\ LockInv /\ ChainInv /\ [Next]_vars => ChainInv'
  BY ChainStep DEF TypeInv
<1>3. TypeInv /\ LockInv /\ [Next]_vars => LockInv'
  BY LockStep DEF TypeInv
<1>4. ChainInv => ChainLinked
  BY DEF ChainInv, ChainLinked
<1> QED BY <1>1, <1>2, <1>3, <1>4, ChainInit, TypeInit, TypeStep, PTL DEF Spec

-----------------------------------------------------------------------------
(* The tables are an AuditLog while they are left alone.                   *)

\* No anchor, and no range that is about to become one, reaches past the chain.
Within(k) == job[k].pc \in {"previous"} \cup Ranging => job[k].to <= Top(rows)

ReachInv ==
    /\ \A k \in DOMAIN anchors : anchors[k].to <= Top(rows)
    /\ \A j \in Jobs : Within(j)

\* What the job of k is about to anchor is what it was, or the chain's head.
FitsReach(k) ==
    \/ job'[k].pc \notin {"previous"} \cup Ranging
    \/ job'[k].to = Top(rows)
    \/ job[k].pc \in {"previous"} \cup Ranging /\ job'[k].to = job[k].to

LEMMA RowsStep ==
  ASSUME LeftAlone, StateOK, LockInv, ChainInv, [Next]_vars
  PROVE  /\ rows' = rows \/ \E r \in Recorders : CommitAppend(r)
         /\ Top(rows) \in Nat /\ Top(rows') \in Nat /\ Top(rows) <= Top(rows')
<1>1. CASE rows' = rows
  BY <1>1, TopIsGreatest
<1>2. ASSUME NEW r \in Recorders, CommitAppend(r)
      PROVE  Top(rows) \in Nat /\ Top(rows') \in Nat /\ Top(rows) <= Top(rows')
  <2>1. Top(rows') = Top(rows) + 1 /\ Top(rows) \in Nat
    BY <1>2, CommitEffect, TopIsGreatest
  <2> QED BY <2>1
<1>3. ASSUME NEW r \in Recorders, RecorderStep(r) PROVE rows' = rows \/ CommitAppend(r)
  BY <1>3 DEF RecorderStep, BeginAppend, AppendReturns, AppendFails, tables
<1>4. ASSUME NEW j \in Jobs, JobStep(j) \/ QueryFails(j) PROVE rows' = rows
  BY <1>4 DEF JobStep, QueryFails, QueryRefused, CreatedUnseen, AnchoredUnseen, BeginVerify, ReadBatch,
              CheckBatch, ReadLatestAnchor, CheckAnchor, ReadHead, ReadPrevious, ReadRange,
              CreateAnchor, Submit, UpdateAnchor, tables
<1>5. CASE Replicate \/ (\E i \in Instances : Crash(i)) \/ UNCHANGED vars
  BY <1>1, <1>5 DEF Replicate, Crash, vars, tables
<1>6. ~ Damage
  BY DEF Damage, Fault, LeftAlone
<1> QED BY <1>1, <1>2, <1>3, <1>4, <1>5, <1>6 DEF Next

LEMMA AnchorsStep ==
  ASSUME TypeInv, AnchorInv, [Next]_vars
  PROVE  /\ UNCHANGED <<anchors, revoked>> \/ \E j \in Jobs : Creates(j) \/ Marks(j)
         /\ Kept
<1>1. CASE UNCHANGED <<anchors, revoked>>
  BY <1>1 DEF Kept
<1>2. ASSUME NEW j \in Jobs, JobStep(j) \/ QueryFails(j)
      PROVE  UNCHANGED <<anchors, revoked>> \/ Creates(j) \/ Marks(j)
  <2>1. CASE \/ BeginVerify(j) \/ ReadBatch(j) \/ CheckBatch(j) \/ ReadLatestAnchor(j) \/ CheckAnchor(j)
            \/ ReadHead(j) \/ ReadPrevious(j) \/ ReadRange(j) \/ Submit(j) \/ QueryRefused(j)
    BY <2>1 DEF BeginVerify, ReadBatch, CheckBatch, ReadLatestAnchor, CheckAnchor, ReadHead,
                ReadPrevious, ReadRange, Submit, QueryRefused, tables
  <2> QED BY <1>2, <2>1 DEF JobStep, QueryFails, Creates, Marks
<1>3. ASSUME NEW j \in Jobs, Creates(j) \/ Marks(j) PROVE Kept
  BY <1>3, CreateEffect, UpdateEffect
<1>4. ASSUME NEW r \in Recorders, RecorderStep(r) PROVE UNCHANGED <<anchors, revoked>>
  BY <1>4 DEF RecorderStep, BeginAppend, CommitAppend, AppendReturns, AppendFails, tables
<1>5. CASE Replicate \/ Damage \/ (\E i \in Instances : Crash(i)) \/ UNCHANGED vars
  BY <1>1, <1>5 DEF Replicate, Damage, Crash, vars, tables
<1> QED BY <1>1, <1>2, <1>3, <1>4, <1>5 DEF Next

LEMMA JobReach ==
  ASSUME TypeInv, [Next]_vars, NEW k \in Jobs
  PROVE  FitsReach(k)
<1>0. StateOK /\ job \in [Jobs -> JobState]
  BY DEF TypeInv, StateOK
<1>1. CASE job'[k] = job[k]
  BY <1>1 DEF FitsReach
<1>2. CASE job'[k].pc \notin Started
  BY <1>2 DEF FitsReach, Started
<1>3. ASSUME NEW j \in Jobs,
             BeginVerify(j) \/ ReadBatch(j) \/ CheckBatch(j) \/ ReadLatestAnchor(j) \/ CheckAnchor(j)
      PROVE  FitsReach(k)
  BY <1>0, <1>1, <1>2, <1>3, VerifyLeaves
<1>4. ASSUME NEW j \in Jobs,
             \/ ReadHead(j) \/ ReadPrevious(j) \/ ReadRange(j) \/ CreateAnchor(j)
             \/ Submit(j) \/ UpdateAnchor(j) \/ QueryFails(j)
      PROVE  FitsReach(k)
  <2>0. job[j] \in JobState
    BY <1>0
  <2>1. j # k => job'[k] = job[k]
    BY <1>0, <1>4 DEF ReadHead, ReadPrevious, ReadRange, CreateAnchor, Submit, UpdateAnchor, QueryFails,
                      QueryRefused, CreatedUnseen, AnchoredUnseen
  <2>2. CASE j = k /\ ReadHead(j)
    BY <1>0, <2>0, <2>2 DEF ReadHead, JobState, FitsReach
  <2>3. CASE j = k /\ ReadPrevious(j)
    <3>1. job[k].pc = "previous" /\ (job'[k] = NoJob \/ job'[k].to = job[k].to)
      BY <1>0, <2>0, <2>3 DEF ReadPrevious, JobState
    <3> QED BY <3>1 DEF NoJob, Ranging, FitsReach
  <2>4. CASE j = k /\ ReadRange(j)
    <3>1. job[k].pc = "range" /\ job'[k].to = job[k].to
      BY <1>0, <2>0, <2>4 DEF ReadRange, JobState
    <3> QED BY <3>1 DEF Ranging, FitsReach
  <2>5. CASE j = k /\ (CreateAnchor(j) \/ Submit(j) \/ UpdateAnchor(j) \/ QueryFails(j))
    <3>1. job'[k].pc \in {"submit", "anchored", "failed", "idle"}
      BY <1>0, <2>0, <2>5 DEF CreateAnchor, Submit, UpdateAnchor, QueryFails, QueryRefused,
                              CreatedUnseen, AnchoredUnseen, JobState, NoJob
    <3> QED BY <3>1 DEF Ranging, FitsReach
  <2> QED BY <1>1, <1>4, <2>1, <2>2, <2>3, <2>4, <2>5
<1>5. ASSUME NEW i \in Instances, Crash(i) PROVE FitsReach(k)
  <2>1. job'[k] = job[k] \/ job'[k].pc = "idle"
    BY <1>5 DEF Crash, NoJob
  <2> QED BY <1>1, <2>1 DEF Ranging, FitsReach
<1>6. ASSUME NEW r \in Recorders, RecorderStep(r) PROVE FitsReach(k)
  BY <1>1, <1>6 DEF RecorderStep, BeginAppend, CommitAppend, AppendReturns, AppendFails
<1>7. CASE Replicate \/ Damage \/ UNCHANGED vars
  BY <1>1, <1>7 DEF Replicate, Damage, vars
<1> QED BY <1>3, <1>4, <1>5, <1>6, <1>7 DEF Next, JobStep

LEMMA ReachStep ==
  ASSUME TypeInv, AnchorInv, ReachInv, [Next]_vars, Top(rows) <= Top(rows')
  PROVE  ReachInv'
<1>1. Top(rows) \in Nat /\ Top(rows') \in Nat /\ Top(rows) <= Top(rows')
  BY TopIsGreatest
<1>2. ASSUME NEW k \in Jobs PROVE Within(k)'
  <2>1. FitsReach(k) /\ (job[k].pc \in {"previous"} \cup Ranging => job[k].to <= Top(rows))
    BY JobReach DEF ReachInv, Within
  <2>2. job[k].to \in Nat
    BY BoundsOK DEF TypeInv, StateOK, JobState
  <2>3. job'[k].pc \in {"previous"} \cup Ranging => job'[k].to <= Top(rows')
    BY <1>1, <2>1, <2>2 DEF FitsReach
  <2> QED BY <2>3 DEF Within
<1>3. \A k \in DOMAIN anchors : anchors[k].to \in Nat /\ anchors[k].to <= Top(rows')
  BY <1>1 DEF TypeInv, StateOK, ReachInv, Anchor, Seqs
<1>4. ASSUME NEW k \in DOMAIN anchors' PROVE anchors'[k].to <= Top(rows')
  <2>1. CASE anchors' = anchors
    BY <1>3, <2>1
  <2>2. ASSUME NEW j \in Jobs, Creates(j) PROVE anchors'[k].to <= Top(rows')
    <3>1. job[j].to <= Top(rows) /\ job[j].to \in Nat
      <4>1. job[j].pc = "create"
        BY <2>2, CreateEffect
      <4> QED BY <4>1, BoundsOK DEF ReachInv, Within, Ranging, TypeInv, StateOK, JobState
    <3>2. CASE k \in DOMAIN anchors
      BY <1>3, <2>2, <3>2, CreateEffect
    <3>3. CASE k = Len(anchors) + 1
      BY <1>1, <2>2, <3>1, <3>3, CreateEffect
    <3>4. DOMAIN anchors = 1 .. Len(anchors) /\ Len(anchors) \in Nat
      BY DEF TypeInv, StateOK
    <3> QED BY <2>2, <3>2, <3>3, <3>4, CreateEffect
  <2>3. ASSUME NEW j \in Jobs, Marks(j) PROVE anchors'[k].to <= Top(rows')
    BY <1>3, <2>3, UpdateEffect
  <2> QED BY <2>1, <2>2, <2>3, AnchorsStep
<1> QED BY <1>2, <1>4 DEF ReachInv

\* The refinement mapping.
LogOf(table) == [n \in 1 .. Top(table) |-> table[n].event]

SealedOf(list) ==
    IF Latest(list) = {} THEN 0 ELSE list[CHOOSE k \in Latest(list) : TRUE].to

LEMMA SealedIs ==
  ASSUME NEW list \in Seq(Anchor)
  PROVE  \/ SealedOf(list) = 0 /\ Anchored(list) = {}
         \/ \E k \in Anchored(list) : /\ SealedOf(list) = list[k].to
                                      /\ \A l \in Anchored(list) : list[l].to <= list[k].to
<1>1. CASE Latest(list) = {}
  BY <1>1, LatestExists DEF SealedOf
<1>2. CASE Latest(list) # {}
  <2>1. PICK k \in Latest(list) : SealedOf(list) = list[k].to
    BY <1>2, Zenon DEF SealedOf
  <2> QED BY <2>1 DEF Latest
<1> QED BY <1>1, <1>2

\* A step that leaves the rows alone and no anchored range out moves the seal
\* forward, if at all.
LEMMA SealStep ==
  ASSUME StateOK, StateOK', AnchorInv, Kept, revoked' = revoked, ReachInv', rows' = rows
  PROVE  \/ SealedOf(anchors') = SealedOf(anchors)
         \/ /\ SealedOf(anchors') \in 1 .. Top(rows)
            /\ SealedOf(anchors) < SealedOf(anchors')
<1>1. anchors \in Seq(Anchor) /\ anchors' \in Seq(Anchor)
  BY DEF StateOK
<1>2. Top(rows) \in Nat
  BY TopIsGreatest
<1>3. \A l \in Anchored(anchors') : anchors'[l].to \in 1 .. Top(rows)
  BY <1>1, <1>2 DEF ReachInv, Anchored, Anchor, Seqs
<1>4. \A l \in Anchored(anchors) : l \in Anchored(anchors') /\ anchors'[l].to = anchors[l].to
  BY DEF Kept, AnchorInv, RevokedOK, Anchored
<1>5. CASE SealedOf(anchors) = 0 /\ Anchored(anchors) = {}
  BY <1>1, <1>3, <1>5, SealedIs
<1>6. ASSUME NEW k \in Anchored(anchors), SealedOf(anchors) = anchors[k].to
      PROVE  \/ SealedOf(anchors') = SealedOf(anchors)
             \/ /\ SealedOf(anchors') \in 1 .. Top(rows)
                /\ SealedOf(anchors) < SealedOf(anchors')
  <2>1. PICK l \in Anchored(anchors') : /\ SealedOf(anchors') = anchors'[l].to
                                        /\ \A m \in Anchored(anchors') : anchors'[m].to <= anchors'[l].to
    BY <1>1, <1>4, <1>6, SealedIs
  <2>2. anchors'[k].to = anchors[k].to /\ anchors'[k].to <= anchors'[l].to
    BY <1>4, <2>1
  <2>3. anchors'[k].to \in Nat /\ anchors'[l].to \in 1 .. Top(rows)
    BY <1>2, <1>3, <1>4, <1>6
  <2> QED BY <1>6, <2>1, <2>2, <2>3
<1> QED BY <1>1, <1>5, <1>6, SealedIs

\* A step that overwrites a recorded success does so once for its anchor, and the
\* seal does not move forward.
LEMMA RevokeStep ==
  ASSUME TypeInv, StateOK', AnchorInv, NEW j \in Jobs, Marks(j), revoked' # revoked
  PROVE  /\ \E k \in 1 .. MaxAnchors : k \notin revoked /\ revoked' = revoked \cup {k}
         /\ SealedOf(anchors') \in 0 .. SealedOf(anchors)
<1>1. PICK a : a = job[j].anchor
  OBVIOUS
<1>2. /\ DOMAIN anchors' = DOMAIN anchors
      /\ \A k \in DOMAIN anchors : /\ k # a => anchors'[k] = anchors[k]
                                   /\ anchors'[k].to = anchors[k].to
      /\ a \in DOMAIN anchors /\ anchors[a].status = "anchored"
      /\ anchors'[a].status = "failed"
      /\ revoked' = revoked \cup {a}
  BY <1>1, UpdateEffect DEF Open
<1>3. a \in 1 .. MaxAnchors /\ a \notin revoked
  <2>1. DOMAIN anchors = 1 .. Len(anchors) /\ Len(anchors) \in Nat /\ Len(anchors) <= MaxAnchors
    BY DEF TypeInv, StateOK
  <2> QED BY <1>2, <2>1, BoundsOK DEF AnchorInv, RevokedOK
<1>4. anchors \in Seq(Anchor) /\ anchors' \in Seq(Anchor)
  BY DEF TypeInv, StateOK
<1>5. \A l \in Anchored(anchors') : l \in Anchored(anchors) /\ anchors'[l].to = anchors[l].to
  BY <1>2 DEF Anchored
<1>6. \A l \in Anchored(anchors) : anchors[l].to \in Nat
  BY <1>4, BoundsOK DEF Anchored, Anchor, Seqs
<1>7. SealedOf(anchors) \in Nat
  BY <1>4, <1>6, SealedIs
<1>8. SealedOf(anchors') = 0 => SealedOf(anchors') \in 0 .. SealedOf(anchors)
  BY <1>7
<1>9. ASSUME NEW l \in Anchored(anchors'), SealedOf(anchors') = anchors'[l].to
      PROVE  SealedOf(anchors') \in 0 .. SealedOf(anchors)
  <2>1. l \in Anchored(anchors) /\ SealedOf(anchors') = anchors[l].to
    BY <1>5, <1>9
  <2>2. anchors[l].to <= SealedOf(anchors)
    BY <1>4, <2>1, SealedIs
  <2> QED BY <1>6, <1>7, <2>1, <2>2
<1>10. SealedOf(anchors') \in 0 .. SealedOf(anchors)
  BY <1>4, <1>8, <1>9, SealedIs
<1> QED BY <1>2, <1>3, <1>10

\* A commit appends its event to the log.
LEMMA RecordStep ==
  ASSUME StateOK, LockInv, ChainInv, NEW r \in Recorders, CommitAppend(r)
  PROVE  \E e \in Events : LogOf(rows') = Append(LogOf(rows), e)
<1> DEFINE t == Top(rows)
           e == rec[r].row.event
<1>1. /\ Top(rows') = t + 1 /\ Stored(rows') = 1 .. t + 1
      /\ \A n \in Stored(rows) : rows'[n] = rows[n]
      /\ rows'[t + 1].event = e /\ e \in Events
  BY CommitEffect DEF FollowsHead
<1>2. /\ t \in Nat /\ Stored(rows) = 1 .. t
      /\ \A n \in 1 .. t : rows[n].event \in Events /\ rows'[n] = rows[n]
  BY <1>1, TopIsGreatest DEF ChainInv
<1>3. LogOf(rows) = [n \in 1 .. t |-> rows[n].event]
  BY DEF LogOf
<1>4. LogOf(rows') = [n \in 1 .. t + 1 |-> rows'[n].event]
  BY <1>1 DEF LogOf
<1> HIDE DEF t, e
<1> DEFINE log == [n \in 1 .. t |-> rows[n].event]
           new == [n \in 1 .. t + 1 |-> rows'[n].event]
<1>5. log \in Seq(Events) /\ Len(log) = t
  BY <1>2
<1>6. new \in Seq(Events) /\ Len(new) = t + 1
  BY <1>1, <1>2
<1>7. \A n \in 1 .. t : new[n] = log[n]
  BY <1>2
<1>8. new[t + 1] = e
  BY <1>1, <1>2
<1> HIDE DEF log, new
<1>9. new = Append(log, e)
  BY <1>1, <1>2, <1>5, <1>6, <1>7, <1>8, SeqEqual, AppendProperties
<1> QED BY <1>1, <1>3, <1>4, <1>9 DEF log, new

LEMMA LogStep ==
  ASSUME LeftAlone, TypeInv, TypeInv', LockInv, ChainInv, AnchorInv, ReachInv', [Next]_vars
  PROVE  [Log!Next]_(Log!vars)
<1>0. StateOK /\ StateOK' /\ Kept
  BY AnchorsStep DEF TypeInv
<1>1. CASE rows' = rows
  <2>1. LogOf(rows') = LogOf(rows)
    BY <1>1
  <2>2. Len(LogOf(rows)) = Top(rows)
    BY TopIsGreatest DEF LogOf
  <2>3. CASE SealedOf(anchors') = SealedOf(anchors) /\ revoked' = revoked
    BY <2>1, <2>3 DEF Log!vars, LogOf, SealedOf
  <2>4. CASE revoked' = revoked /\ SealedOf(anchors') \in 1 .. Top(rows) /\ SealedOf(anchors) < SealedOf(anchors')
    <3> DEFINE log == LogOf(rows)
               new == LogOf(rows')
               was == SealedOf(anchors)
               now == SealedOf(anchors')
    <3>1. was < now /\ now <= Len(log) /\ now \in 1 .. Len(log) /\ new = log
      BY <2>1, <2>2, <2>4, TopIsGreatest
    <3>2. Log!Seal(now) <=> was < now /\ now <= Len(log) /\ now = now /\ new = log /\ revoked' = revoked
      BY Zenon DEF Log!Seal, LogOf, SealedOf, Top, Stored, Latest, Anchored
    <3>3. Log!Seal(now) /\ now \in 1 .. Len(log)
      BY <2>4, <3>1, <3>2
    <3> QED BY <3>3, Zenon DEF Log!Next, LogOf
  <2>5. CASE revoked' # revoked
    <3>1. PICK j \in Jobs : Marks(j)
      BY <2>5, AnchorsStep, CreateEffect
    <3>2. PICK k \in 1 .. MaxAnchors : k \notin revoked /\ revoked' = revoked \cup {k}
      BY <1>0, <2>5, <3>1, RevokeStep
    <3>3. SealedOf(anchors') \in 0 .. SealedOf(anchors)
      BY <1>0, <2>5, <3>1, RevokeStep
    <3>4. Log!TakeBack(k) <=> /\ k \notin revoked /\ revoked' = revoked \cup {k}
                              /\ SealedOf(anchors') \in 0 .. SealedOf(anchors)
                              /\ LogOf(rows') = LogOf(rows)
      BY Zenon DEF Log!TakeBack, LogOf, SealedOf, Top, Stored, Latest, Anchored
    <3>5. Log!TakeBack(k)
      BY <2>1, <3>2, <3>3, <3>4
    <3> QED BY <3>5 DEF Log!Next
  <2> QED BY <1>0, <1>1, <2>3, <2>4, <2>5, SealStep
<1>2. ASSUME NEW r \in Recorders, CommitAppend(r) PROVE Log!Next
  <2>1. PICK e \in Events : LogOf(rows') = Append(LogOf(rows), e)
    BY <1>0, <1>2, RecordStep
  <2>2. anchors' = anchors /\ revoked' = revoked
    BY <1>2 DEF CommitAppend
  <2>3. SealedOf(anchors') = SealedOf(anchors)
    BY <2>2
  <2>4. Log!Record(e) <=> /\ LogOf(rows') = Append(LogOf(rows), e)
                          /\ SealedOf(anchors') = SealedOf(anchors)
                          /\ revoked' = revoked
    BY Zenon DEF Log!Record, LogOf, SealedOf, Top, Stored, Latest, Anchored
  <2>5. Log!Record(e)
    BY <2>1, <2>2, <2>3, <2>4
  <2> QED BY <2>5 DEF Log!Next
<1> QED BY <1>0, <1>1, <1>2, RowsStep

\* While the tables are left alone they are the log of AuditLog: appends put one
\* event behind the others, a stored one never changes, and the seal, where the
\* latest anchor ends, never passes the end and moves forward; it is taken back
\* only where a recorded success is overwritten, and for no anchor twice.
THEOREM LogTheorem ==
  ASSUME LeftAlone
  PROVE  Spec => KeepsLog
<1>1. Init => LockInv /\ AnchorInv /\ ReachInv
  BY DEF Init, LockInv, BuiltOK, NoEntry, AnchorInv, OwnOK, RevokedOK, ReachInv, Within,
         NoJob, Ranging, InFlight
<1>2. TypeInv /\ LockInv /\ ChainInv /\ [Next]_vars => ChainInv'
  BY ChainStep DEF TypeInv
<1>3. TypeInv /\ LockInv /\ [Next]_vars => LockInv'
  BY LockStep DEF TypeInv
<1>4. TypeInv /\ LockInv /\ ChainInv /\ AnchorInv /\ ReachInv /\ [Next]_vars => ReachInv'
  BY RowsStep, ReachStep DEF TypeInv
<1>5. TypeInv /\ TypeInv' /\ LockInv /\ ChainInv /\ AnchorInv /\ ReachInv' /\ [Next]_vars
      => [Log!Next]_(Log!vars)
  BY LogStep
<1>6. Init => Log!Init
  <2> SUFFICES ASSUME Init PROVE Log!Init
    OBVIOUS
  <2>1. Stored(rows) = {} /\ Anchored(anchors) = {}
    BY DEF Init, Stored, Anchored
  <2>2. Top(rows) = 0 /\ Latest(anchors) = {}
    BY <2>1, TopIsGreatest DEF Latest
  <2>3. LogOf(rows) = <<>>
    BY <2>2 DEF LogOf
  <2>4. revoked = {}
    BY DEF Init
  <2> QED BY <2>2, <2>3, <2>4 DEF Log!Init, LogOf
<1> QED BY <1>1, <1>2, <1>3, <1>4, <1>5, <1>6, AnchorStep, ChainInit, TypeInit, TypeStep, PTL
        DEF Spec, KeepsLog, Log!Spec

=============================================================================
