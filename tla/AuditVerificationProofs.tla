---------------------- MODULE AuditVerificationProofs ----------------------
(***************************************************************************)
(* Proofs about what AuditChain's verifications and anchors say of the     *)
(* chain: that what is wrong all through a verification is found and that  *)
(* nothing is anchored after it, whatever is done to the tables and by     *)
(* whomever; that a root is that of its range and growth is not taken for  *)
(* a change.                                                               *)
(*                                                                         *)
(* In the last two rows may be edited, and rows inside the chain deleted,  *)
(* at any time.  What is left out there (PlainDamage) is a loss of the     *)
(* chain's end and a change together with the hash: either can leave a     *)
(* shorter or another chain that is linked, and anchors that are not of    *)
(* it.  And a GET request may compare the primary with a lagging replica,  *)
(* so that what is said of mismatches is said without requests.            *)
(***************************************************************************)
EXTENDS AuditChainProofs, FiniteSetTheorems

PlainDamage == Faults \cap {"tail", "rewrite"} = {}

-----------------------------------------------------------------------------
(* The rows grow at their end, lose rows inside, and never lose their end. *)

Linked(n) ==
    /\ n = 1 => rows[n].prev = Genesis
    /\ n - 1 \in Stored(rows) => rows[n].prev = rows[n - 1].hash

\* No content that a row was changed to was hashed.
Unhashed(row) == {row.prev, row.hash} \subseteq Seq(Seqs \X Events)

Returned(r) == rec[r].pc = "return" => rec[r].n <= Top(rows)

GrowInv ==
    /\ \A n \in Stored(rows) : Linked(n) /\ Unhashed(rows[n])
    /\ \A r \in Recorders : FollowsHead(r) /\ Returned(r)
    /\ \A i \in Instances : highest[i] <= Top(rows)

\* The sequences whose row is missing or is not what was hashed.
Bad(table) ==
    {n \in 1 .. Top(table) : \/ n \notin Stored(table)
                             \/ table[n].hash # Hash(table[n].prev, n, table[n].event)}

LEMMA CommitRow ==
  ASSUME StateOK, LockInv, GrowInv, NEW r \in Recorders, CommitAppend(r)
  PROVE  /\ Top(rows) \in Nat /\ Top(rows) + 1 \in Seqs
         /\ rec[r].n = Top(rows) + 1 /\ FollowsHead(r) /\ rec[r].pc = "insert"
         /\ Top(rows') = Top(rows) + 1
         /\ Stored(rows') = Stored(rows) \cup {Top(rows) + 1}
         /\ \A n \in Stored(rows) : rows'[n] = rows[n] /\ n \in Nat /\ n <= Top(rows)
         /\ rows'[Top(rows) + 1] = rec[r].row
<1>1. rec[r].pc = "insert" /\ FollowsHead(r) /\ rec[r].n \in Seqs
  BY DEF CommitAppend, GrowInv, LockInv, BuiltOK
<1>2. rec[r].n = Top(rows) + 1 /\ rec[r].row \in Row /\ rec[r].row # NoRow
  BY <1>1, NoRowOK DEF FollowsHead
<1>3. Top(rows) \in Nat /\ Top(rows) + 1 \in Seqs
  BY <1>1, <1>2, TopIsGreatest
<1>4. rows' = [rows EXCEPT ![Top(rows) + 1] = rec[r].row] /\ rows \in [Seqs -> Row \cup {NoRow}]
  BY <1>2 DEF CommitAppend, StateOK, Table
<1>5. \A n \in Seqs : rows'[n] = IF n = Top(rows) + 1 THEN rec[r].row ELSE rows[n]
  BY <1>3, <1>4
<1>6. Stored(rows') = Stored(rows) \cup {Top(rows) + 1}
  BY <1>2, <1>3, <1>5 DEF Stored
<1>7. \A n \in Stored(rows) : n \in Nat /\ n <= Top(rows)
  BY TopIsGreatest DEF Stored, Seqs
<1>8. Top(rows') = Top(rows) + 1
  <2>1. PICK n : n = Top(rows) + 1
    OBVIOUS
  <2>2. n \in Stored(rows') \cup {0} /\ \A m \in Stored(rows') : m <= n
    BY <1>3, <1>6, <1>7, <2>1
  <2>3. Top(rows') = n
    BY <2>2, TopUnique
  <2> QED BY <2>1, <2>3
<1>9. \A n \in Stored(rows) : rows'[n] = rows[n]
  <2>1. \A n \in Stored(rows) : n \in Seqs /\ n # Top(rows) + 1
    BY <1>3, <1>7 DEF Stored
  <2> QED BY <1>5, <2>1
<1>10. rows'[Top(rows) + 1] = rec[r].row
  BY <1>3, <1>5
<1> QED BY <1>1, <1>2, <1>3, <1>6, <1>7, <1>8, <1>9, <1>10

\* A row loses its event or goes; the last one stays, and no link changes.
LEMMA DamageRow ==
  ASSUME StateOK, PlainDamage, Damage
  PROVE  /\ UNCHANGED <<anchors, replica, holder, highest, rec, job, reports>>
         /\ Stored(rows') \subseteq Stored(rows)
         /\ Top(rows') = Top(rows) /\ HeadHash(rows') = HeadHash(rows)
         /\ \A m \in Stored(rows') : /\ rows'[m].prev = rows[m].prev /\ rows'[m].hash = rows[m].hash
                                     /\ rows'[m] = rows[m] \/ rows'[m].event = Changed
         /\ \E n \in Stored(rows) : \/ n < Top(rows) /\ n \notin Stored(rows')
                                    \/ n \in Stored(rows') /\ rows'[n].event = Changed
<1>0. rows \in [Seqs -> Row \cup {NoRow}] /\ NoRow \notin Row
  BY NoRowOK DEF StateOK, Table
<1>1. UNCHANGED <<anchors, replica, holder, highest, rec, job, reports>>
  BY DEF Damage
<1>2. ASSUME NEW n \in Stored(rows), rows' = [rows EXCEPT ![n].event = Changed]
      PROVE  /\ Stored(rows') = Stored(rows)
             /\ \A m \in Stored(rows') : /\ rows'[m].prev = rows[m].prev /\ rows'[m].hash = rows[m].hash
                                         /\ rows'[m] = rows[m] \/ rows'[m].event = Changed
             /\ rows'[n].event = Changed
  <2>1. n \in Seqs /\ rows[n] \in Row
    BY <1>0, StoredRow DEF StateOK
  <2> DEFINE new == [rows[n] EXCEPT !.event = Changed]
  <2>2. /\ new \in Row /\ new # NoRow /\ new.event = Changed
        /\ new.prev = rows[n].prev /\ new.hash = rows[n].hash
    BY <1>0, <2>1 DEF Row
  <2>3. rows' = [rows EXCEPT ![n] = new]
    BY <1>2
  <2> HIDE DEF new
  <2>4. \A m \in Seqs : rows'[m] = IF m = n THEN new ELSE rows[m]
    BY <1>0, <2>1, <2>3
  <2>5. Stored(rows') = Stored(rows)
    BY <2>2, <2>4 DEF Stored
  <2>6. \A m \in Stored(rows) : m \in Seqs
    BY DEF Stored
  <2> QED BY <2>1, <2>2, <2>4, <2>5, <2>6
<1>3. ASSUME NEW n \in Stored(rows), n < Top(rows), rows' = [rows EXCEPT ![n] = NoRow]
      PROVE  /\ Stored(rows') = Stored(rows) \ {n}
             /\ \A m \in Stored(rows') : rows'[m] = rows[m]
  <2>1. \A m \in Seqs : rows'[m] = IF m = n THEN NoRow ELSE rows[m]
    BY <1>0, <1>3 DEF Stored
  <2> QED BY <2>1 DEF Stored
<1>4. PICK n \in Stored(rows) : \/ rows' = [rows EXCEPT ![n].event = Changed]
                                \/ n < Top(rows) /\ rows' = [rows EXCEPT ![n] = NoRow]
  BY DEF Damage, Fault, PlainDamage
<1>5. Stored(rows') = Stored(rows) \/ (n < Top(rows) /\ Stored(rows') = Stored(rows) \ {n})
  BY <1>2, <1>3, <1>4
<1>6. Top(rows) \in Stored(rows') \cup {0} /\ \A m \in Stored(rows') : m <= Top(rows)
  BY <1>5, TopIsGreatest DEF Stored, Seqs
<1>7. Top(rows') = Top(rows)
  BY <1>6, TopUnique
<1>8. \A m \in Stored(rows') : /\ rows'[m].prev = rows[m].prev /\ rows'[m].hash = rows[m].hash
                               /\ rows'[m] = rows[m] \/ rows'[m].event = Changed
  BY <1>2, <1>3, <1>4
<1>9. HeadHash(rows') = HeadHash(rows)
  BY <1>6, <1>7, <1>8 DEF HeadHash, HashAt
<1>10. \/ n < Top(rows) /\ n \notin Stored(rows')
       \/ n \in Stored(rows') /\ rows'[n].event = Changed
  BY <1>2, <1>3, <1>4
<1>11. Stored(rows') \subseteq Stored(rows)
  BY <1>5
<1> QED BY <1>1, <1>7, <1>8, <1>9, <1>10, <1>11

LEMMA RowSteps ==
  ASSUME [Next]_vars
  PROVE  rows' = rows \/ (\E r \in Recorders : CommitAppend(r)) \/ Damage
<1>1. ASSUME NEW r \in Recorders, RecorderStep(r) PROVE rows' = rows \/ CommitAppend(r)
  BY <1>1 DEF RecorderStep, BeginAppend, AppendReturns, AppendFails, tables
<1>2. ASSUME NEW j \in Jobs, JobStep(j) \/ QueryFails(j) PROVE rows' = rows
  BY <1>2 DEF JobStep, QueryFails, QueryRefused, CreatedUnseen, AnchoredUnseen, BeginVerify, ReadBatch,
              CheckBatch, ReadLatestAnchor, CheckAnchor, ReadHead, ReadPrevious, ReadRange,
              CreateAnchor, Submit, UpdateAnchor, tables
<1>3. CASE Replicate \/ (\E i \in Instances : Crash(i)) \/ UNCHANGED vars
  BY <1>3 DEF Replicate, Crash, vars, tables
<1> QED BY <1>1, <1>2, <1>3 DEF Next

LEMMA TopGrows ==
  ASSUME PlainDamage, StateOK, LockInv, GrowInv, [Next]_vars
  PROVE  Top(rows) \in Nat /\ Top(rows') \in Nat /\ Top(rows) <= Top(rows')
<1>0. Top(rows) \in Nat
  BY TopIsGreatest
<1>1. CASE rows' = rows
  BY <1>0, <1>1
<1>2. ASSUME NEW r \in Recorders, CommitAppend(r) PROVE Top(rows') = Top(rows) + 1
  BY <1>2, CommitRow
<1>3. CASE Damage
  BY <1>0, <1>3, DamageRow
<1> QED BY <1>0, <1>1, <1>2, <1>3, RowSteps

LEMMA GrowInit == Init => GrowInv
<1> SUFFICES ASSUME Init PROVE GrowInv
  OBVIOUS
<1>1. Stored(rows) = {} /\ \A r \in Recorders : rec[r].pc = "idle"
  BY DEF Init, Stored, NoEntry
<1>2. Top(rows) = 0
  BY <1>1, TopIsGreatest
<1> QED BY <1>1, <1>2 DEF Init, GrowInv, FollowsHead, Returned

\* The links, while the recorders' rows are seen to by their own steps.
LEMMA LinkedStep ==
  ASSUME PlainDamage, StateOK, LockInv, GrowInv, [Next]_vars
  PROVE  \A n \in Stored(rows') : Linked(n)'
<1>1. CASE rows' = rows
  BY <1>1 DEF GrowInv, Linked
<1>2. ASSUME NEW r \in Recorders, CommitAppend(r), NEW n \in Stored(rows') PROVE Linked(n)'
  <2> DEFINE t == Top(rows)
  <2>1. /\ t \in Nat /\ Stored(rows') = Stored(rows) \cup {t + 1}
        /\ \A m \in Stored(rows) : rows'[m] = rows[m] /\ m \in Nat /\ m <= t
        /\ rows'[t + 1] = rec[r].row
    BY <1>2, CommitRow
  <2>2. rec[r].row.prev = IF t = 0 THEN Genesis ELSE rows[t].hash
    BY <1>2, CommitRow DEF FollowsHead, HeadHash, HashAt
  <2>3. (t = 0 \/ t \in Stored(rows)) /\ 0 \notin Stored(rows)
    BY TopIsGreatest DEF Stored, Seqs
  <2> HIDE DEF t
  <2>4. CASE n = t + 1
    <3>1. n - 1 = t /\ rows'[n].prev = IF t = 0 THEN Genesis ELSE rows[t].hash
      BY <2>1, <2>2, <2>4
    <3>2. t \in Stored(rows') => t \in Stored(rows) /\ t # 0 /\ rows'[t] = rows[t]
      BY <2>1, <2>3
    <3> QED BY <2>1, <2>4, <3>1, <3>2 DEF Linked
  <2>5. CASE n # t + 1
    <3>1. n \in Stored(rows) /\ Linked(n) /\ n - 1 # t + 1
      BY <1>2, <2>1, <2>5 DEF GrowInv
    <3>2. n - 1 \in Stored(rows') => n - 1 \in Stored(rows)
      BY <2>1, <3>1
    <3> QED BY <2>1, <3>1, <3>2 DEF Linked
  <2> QED BY <2>4, <2>5
<1>3. ASSUME Damage, NEW n \in Stored(rows') PROVE Linked(n)'
  <2>1. Linked(n) /\ n \in Stored(rows)
    BY <1>3, DamageRow DEF GrowInv
  <2>2. /\ rows'[n].prev = rows[n].prev
        /\ n - 1 \in Stored(rows') => n - 1 \in Stored(rows) /\ rows'[n - 1].hash = rows[n - 1].hash
    BY <1>3, DamageRow
  <2> QED BY <2>1, <2>2 DEF Linked
<1> QED BY <1>1, <1>2, <1>3, RowSteps

LEMMA UnhashedStep ==
  ASSUME PlainDamage, StateOK, LockInv, GrowInv, [Next]_vars
  PROVE  \A n \in Stored(rows') : Unhashed(rows'[n])
<1>1. CASE rows' = rows
  BY <1>1 DEF GrowInv
<1>2. ASSUME NEW r \in Recorders, CommitAppend(r), NEW n \in Stored(rows') PROVE Unhashed(rows'[n])
  <2> DEFINE t == Top(rows)
             h == HeadHash(rows)
             e == rec[r].row.event
  <2>1. /\ t \in Nat /\ t + 1 \in Seqs /\ Stored(rows') = Stored(rows) \cup {t + 1}
        /\ \A m \in Stored(rows) : rows'[m] = rows[m]
        /\ rows'[t + 1] = rec[r].row
    BY <1>2, CommitRow
  <2>2. e \in Events /\ rec[r].row.prev = h /\ rec[r].row.hash = Append(h, <<t + 1, e>>)
    BY <1>2, CommitRow DEF FollowsHead, Hash
  <2>3. h \in Seq(Seqs \X Events)
    BY TopIsGreatest DEF HeadHash, HashAt, Genesis, GrowInv, Unhashed
  <2> HIDE DEF t, h, e
  <2>4. Append(h, <<t + 1, e>>) \in Seq(Seqs \X Events)
    BY <2>1, <2>2, <2>3
  <2> QED BY <2>1, <2>2, <2>3, <2>4 DEF GrowInv, Unhashed
<1>3. ASSUME Damage, NEW n \in Stored(rows') PROVE Unhashed(rows'[n])
  BY <1>3, DamageRow DEF GrowInv, Unhashed
<1> QED BY <1>1, <1>2, <1>3, RowSteps

\* The rows that recorders carry, and what they have appended.
LEMMA RecordersStep ==
  ASSUME PlainDamage, StateOK, LockInv, GrowInv, [Next]_vars, NEW q \in Recorders
  PROVE  FollowsHead(q)' /\ Returned(q)'
<1>0. /\ rec \in [Recorders -> Entry] /\ rows \in Table /\ FollowsHead(q) /\ Returned(q)
      /\ rec[q].n \in Nat
  BY BoundsOK DEF StateOK, GrowInv, Entry
<1>1. Top(rows) \in Nat /\ Top(rows') \in Nat /\ Top(rows) <= Top(rows')
  BY TopGrows
<1>2. CASE rec'[q].pc = "idle"
  BY <1>2 DEF FollowsHead, Returned
<1>3. CASE rec'[q] = rec[q] /\ rows' = rows
  BY <1>0, <1>3 DEF FollowsHead, Returned
<1>4. ASSUME NEW r \in Recorders, NEW e \in Events, BeginAppend(r, e)
      PROVE  FollowsHead(q)' /\ Returned(q)'
  <2>1. rows' = rows /\ (q # r => rec'[q] = rec[q])
    BY <1>0, <1>4 DEF BeginAppend, tables
  <2>2. CASE q = r
    <3>1. rec'[q] = [pc |-> "insert", n |-> Top(rows) + 1, row |-> RowAfterHead(e)]
      BY <1>0, <1>4, <2>2 DEF BeginAppend
    <3>2. RowAfterHead(e) \in Row
      BY <1>0, <1>4, NewRow DEF BeginAppend
    <3> QED BY <2>1, <3>1, <3>2 DEF FollowsHead, RowAfterHead, Returned
  <2> QED BY <1>3, <2>1, <2>2
<1>5. ASSUME NEW r \in Recorders, CommitAppend(r) PROVE FollowsHead(q)' /\ Returned(q)'
  <2>1. rec[r].n = Top(rows) + 1 /\ Top(rows') = Top(rows) + 1
    BY <1>5, CommitRow
  <2>2. CASE q = r
    <3>1. rec'[q].pc = "return" /\ rec'[q].n = rec[q].n
      BY <1>0, <1>5, <2>2 DEF CommitAppend, Entry
    <3> QED BY <1>1, <2>1, <2>2, <3>1 DEF FollowsHead, Returned
  <2>3. CASE q # r
    <3>1. rec'[q] = rec[q] /\ rec[q].pc # "insert"
      BY <1>0, <1>5, <2>3 DEF CommitAppend, LockInv, BuiltOK
    <3> QED BY <1>0, <1>1, <3>1 DEF FollowsHead, Returned
  <2> QED BY <2>2, <2>3
<1>6. ASSUME NEW r \in Recorders, AppendReturns(r) \/ AppendFails(r)
      PROVE  FollowsHead(q)' /\ Returned(q)'
  <2>1. rows' = rows /\ (rec'[q] = rec[q] \/ rec'[q].pc = "idle")
    BY <1>0, <1>6 DEF AppendReturns, AppendFails, NoEntry, tables
  <2> QED BY <1>2, <1>3, <2>1
<1>7. ASSUME NEW i \in Instances, Crash(i) PROVE FollowsHead(q)' /\ Returned(q)'
  <2>1. rows' = rows /\ (rec'[q] = rec[q] \/ rec'[q].pc = "idle")
    BY <1>7 DEF Crash, NoEntry, tables
  <2> QED BY <1>2, <1>3, <2>1
<1>8. CASE Damage
  <2>1. rec' = rec /\ Top(rows') = Top(rows) /\ HeadHash(rows') = HeadHash(rows)
    BY <1>8, DamageRow
  <2> QED BY <1>0, <2>1 DEF FollowsHead, Returned
<1>9. ASSUME NEW j \in Jobs, JobStep(j) \/ QueryFails(j) PROVE rec' = rec /\ rows' = rows
  BY <1>9 DEF JobStep, QueryFails, QueryRefused, CreatedUnseen, AnchoredUnseen, BeginVerify, ReadBatch,
              CheckBatch, ReadLatestAnchor, CheckAnchor, ReadHead, ReadPrevious, ReadRange,
              CreateAnchor, Submit, UpdateAnchor, tables
<1>10. Replicate \/ UNCHANGED vars => rec' = rec /\ rows' = rows
  BY DEF Replicate, vars, tables
<1> QED BY <1>3, <1>4, <1>5, <1>6, <1>7, <1>8, <1>9, <1>10 DEF Next, RecorderStep

LEMMA HighestStep ==
  ASSUME PlainDamage, StateOK, LockInv, GrowInv, [Next]_vars, NEW i \in Instances
  PROVE  highest'[i] <= Top(rows')
<1>0. /\ highest \in [Instances -> 0 .. MaxEntries] /\ highest[i] \in Nat
      /\ highest[i] <= Top(rows)
  BY BoundsOK DEF StateOK, GrowInv
<1>1. Top(rows) \in Nat /\ Top(rows') \in Nat /\ Top(rows) <= Top(rows')
  BY TopGrows
<1>2. CASE highest'[i] = highest[i] \/ highest'[i] = 0
  BY <1>0, <1>1, <1>2
<1>3. ASSUME NEW r \in Recorders, RecorderStep(r) PROVE highest'[i] <= Top(rows')
  <2>1. CASE AppendReturns(r)
    <3>1. highest'[i] = highest[i] \/ highest'[i] = rec[r].n
      BY <1>0, <2>1 DEF AppendReturns
    <3>2. rec[r].n <= Top(rows) /\ rec[r].n \in Nat
      BY <2>1, BoundsOK DEF AppendReturns, GrowInv, Returned, StateOK, Entry
    <3> QED BY <1>1, <1>2, <3>1, <3>2
  <2>2. CASE ~ AppendReturns(r)
    BY <1>2, <1>3, <2>2 DEF RecorderStep, BeginAppend, CommitAppend, AppendFails
  <2> QED BY <2>1, <2>2
<1>4. ASSUME NEW j \in Jobs, JobStep(j) \/ QueryFails(j) PROVE highest' = highest
  BY <1>4 DEF JobStep, QueryFails, QueryRefused, CreatedUnseen, AnchoredUnseen, BeginVerify, ReadBatch,
              CheckBatch, ReadLatestAnchor, CheckAnchor, ReadHead, ReadPrevious, ReadRange,
              CreateAnchor, Submit, UpdateAnchor
<1>5. Damage \/ Replicate \/ UNCHANGED vars => highest' = highest
  BY DEF Damage, Replicate, vars
<1>6. ASSUME NEW k \in Instances, Crash(k) PROVE highest'[i] = highest[i] \/ highest'[i] = 0
  BY <1>0, <1>6 DEF Crash
<1> QED BY <1>2, <1>3, <1>4, <1>5, <1>6 DEF Next

LEMMA GrowStep ==
  ASSUME PlainDamage, StateOK, LockInv, GrowInv, [Next]_vars
  PROVE  GrowInv'
<1>1. \A n \in Stored(rows') : Linked(n)' /\ Unhashed(rows'[n])
  BY LinkedStep, UnhashedStep
<1>2. \A r \in Recorders : FollowsHead(r)' /\ Returned(r)'
  BY RecordersStep
<1>3. \A i \in Instances : highest'[i] <= Top(rows')
  BY HighestStep
<1> QED BY <1>1, <1>2, <1>3 DEF GrowInv, Unhashed

-----------------------------------------------------------------------------
(* What is wrong with the rows stays wrong.                                *)

LEMMA StoredNats == \A n \in Stored(rows) : n \in Nat /\ 1 <= n /\ n <= Top(rows)
BY TopIsGreatest DEF Stored, Seqs

\* No hash is that of a changed content.
LEMMA ChangedShows ==
  ASSUME NEW table \in Table, NEW n \in Stored(table), Unhashed(table[n]), table[n].event = Changed
  PROVE  table[n].hash # Hash(table[n].prev, n, table[n].event)
<1>1. table[n] \in Row /\ n \in Seqs
  BY StoredRow
<1>2. table[n].hash \in Seq(Seqs \X Events) /\ table[n].prev \in Seq(Seqs \X Events)
  BY DEF Unhashed
<1> DEFINE p == table[n].prev
           h == Append(p, <<n, Changed>>)
<1>3. Len(h) = Len(p) + 1 /\ h[Len(p) + 1] = <<n, Changed>> /\ Len(p) \in Nat
  BY <1>2
<1>4. ASSUME table[n].hash = h PROVE FALSE
  <2>1. h \in Seq(Seqs \X Events)
    BY <1>2, <1>4
  <2> HIDE DEF h, p
  <2>2. h[Len(p) + 1] \in Seqs \X Events
    BY <1>3, <2>1, ElementOfSeq
  <2>3. Changed \in Events
    BY <1>3, <2>2
  <2> QED BY <2>3, ActorsOK
<1>5. Hash(table[n].prev, n, table[n].event) = h
  BY DEF Hash
<1> HIDE DEF h
<1> QED BY <1>4, <1>5

LEMMA BadStays ==
  ASSUME PlainDamage, StateOK, LockInv, GrowInv, [Next]_vars
  PROVE  Bad(rows) \subseteq Bad(rows')
<1> SUFFICES ASSUME NEW n \in Bad(rows) PROVE n \in Bad(rows')
  OBVIOUS
<1>0. n \in 1 .. Top(rows) /\ Top(rows) \in Nat
  BY TopIsGreatest DEF Bad
<1>1. CASE rows' = rows
  BY <1>1
<1>2. ASSUME NEW r \in Recorders, CommitAppend(r) PROVE n \in Bad(rows')
  <2>1. /\ Top(rows') = Top(rows) + 1 /\ Stored(rows') = Stored(rows) \cup {Top(rows) + 1}
        /\ \A m \in Stored(rows) : rows'[m] = rows[m]
    BY <1>2, CommitRow
  <2>2. n \in 1 .. Top(rows') /\ n # Top(rows) + 1
    BY <1>0, <2>1
  <2>3. CASE n \notin Stored(rows)
    BY <2>1, <2>2, <2>3 DEF Bad
  <2>4. CASE n \in Stored(rows)
    <3>1. rows[n].hash # Hash(rows[n].prev, n, rows[n].event)
      BY <2>4 DEF Bad
    <3> QED BY <2>1, <2>2, <2>4, <3>1 DEF Bad
  <2> QED BY <2>3, <2>4
<1>3. CASE Damage
  <2>1. /\ Top(rows') = Top(rows) /\ Stored(rows') \subseteq Stored(rows)
        /\ \A m \in Stored(rows') : rows'[m] = rows[m] \/ rows'[m].event = Changed
    BY <1>3, DamageRow
  <2>2. CASE n \notin Stored(rows')
    BY <1>0, <2>1, <2>2 DEF Bad
  <2>3. CASE n \in Stored(rows') /\ rows'[n] = rows[n]
    BY <2>1, <2>3 DEF Bad
  <2>4. CASE n \in Stored(rows') /\ rows'[n].event = Changed
    <3>1. rows' \in Table
      BY <1>3, DamageOnly DEF StateOK
    <3>2. Unhashed(rows'[n])
      BY <2>4, UnhashedStep
    <3>3. rows'[n].hash # Hash(rows'[n].prev, n, rows'[n].event)
      BY <2>4, <3>1, <3>2, ChangedShows
    <3> QED BY <1>0, <2>1, <2>4, <3>3 DEF Bad
  <2> QED BY <2>1, <2>2, <2>3, <2>4
<1> QED BY <1>1, <1>2, <1>3, RowSteps

LEMMA DamageIsBad ==
  ASSUME PlainDamage, StateOK, GrowInv, Damage
  PROVE  Bad(rows') # {}
<1>1. PICK n \in Stored(rows) : \/ n < Top(rows) /\ n \notin Stored(rows')
                                \/ n \in Stored(rows') /\ rows'[n].event = Changed
  BY DamageRow
<1>2. n \in 1 .. Top(rows')
  BY StoredNats, TopIsGreatest, DamageRow
<1>3. rows' \in Table
  BY DamageOnly DEF StateOK
<1>4. CASE n \notin Stored(rows')
  BY <1>2, <1>4 DEF Bad
<1>5. CASE n \in Stored(rows') /\ rows'[n].event = Changed
  <2>1. Unhashed(rows'[n])
    BY <1>5, DamageRow DEF GrowInv, Unhashed
  <2>2. rows'[n].hash # Hash(rows'[n].prev, n, rows'[n].event)
    BY <1>3, <1>5, <2>1, ChangedShows
  <2> QED BY <1>2, <1>5, <2>2 DEF Bad
<1> QED BY <1>1, <1>4, <1>5

\* While every row follows from the one before, none is missing.
LEMMA IntactIsWhole ==
  ASSUME Intact(rows)
  PROVE  Stored(rows) = 1 .. Top(rows)
<1>1. ASSUME NEW n \in 1 .. Top(rows), n \notin Stored(rows) PROVE FALSE
  <2> DEFINE T == {m \in Stored(rows) : n < m}
  <2>1. n \in Nat /\ 1 <= n /\ n <= Top(rows) /\ Top(rows) \in Nat
    BY TopIsGreatest
  <2>2. Top(rows) \in Stored(rows)
    BY <2>1, TopIsGreatest
  <2>3. T \in SUBSET Nat /\ T # {}
    BY <1>1, <2>1, <2>2, StoredNats
  <2>4. PICK m \in T : \A k \in T : m <= k
    BY <2>3, LeastOf
  <2>5. m - 1 \in Stored(rows)
    BY <2>1, <2>3, <2>4 DEF Intact
  <2>6. m - 1 # n /\ m \in Nat /\ n < m
    BY <1>1, <2>3, <2>4, <2>5
  <2>7. m - 1 \in T
    BY <2>1, <2>5, <2>6
  <2> HIDE DEF T
  <2> QED BY <2>4, <2>6, <2>7
<1> QED BY <1>1, StoredNats, TopIsGreatest

LEMMA IntactIffNoneBad ==
  ASSUME GrowInv
  PROVE  Intact(rows) <=> Bad(rows) = {}
<1>1. ASSUME Intact(rows) PROVE Bad(rows) = {}
  BY <1>1, IntactIsWhole DEF Bad, Intact
<1>2. ASSUME Bad(rows) = {} PROVE Intact(rows)
  <2> SUFFICES ASSUME NEW n \in Stored(rows)
               PROVE  /\ n > 1 => n - 1 \in Stored(rows)
                      /\ rows[n].prev = IF n = 1 THEN Genesis ELSE rows[n - 1].hash
                      /\ rows[n].hash = Hash(rows[n].prev, n, rows[n].event)
    BY DEF Intact
  <2>1. n \in Nat /\ 1 <= n /\ n <= Top(rows) /\ Top(rows) \in Nat
    BY StoredNats, TopIsGreatest
  <2>2. rows[n].hash = Hash(rows[n].prev, n, rows[n].event)
    BY <1>2, <2>1 DEF Bad
  <2>3. n > 1 => n - 1 \in Stored(rows)
    BY <1>2, <2>1 DEF Bad
  <2> QED BY <2>1, <2>2, <2>3 DEF GrowInv, Linked
<1> QED BY <1>1, <1>2

-----------------------------------------------------------------------------
(* What a step does to one job.                                            *)

LEMMA OnlyOwnJob ==
  ASSUME StateOK, NEW j \in Jobs, NEW k \in Jobs, j # k, JobStep(j) \/ QueryFails(j)
  PROVE  job'[k] = job[k]
<1>0. job \in [Jobs -> JobState]
  BY DEF StateOK
<1>1. ASSUME NEW found, Conclude(j, found) PROVE job'[k] = job[k]
  BY <1>0, <1>1 DEF Conclude
<1>2. CASE BeginVerify(j) \/ ReadBatch(j) \/ CheckBatch(j)
  BY <1>0, <1>2 DEF BeginVerify, ReadBatch, CheckBatch
<1>3. CASE ReadLatestAnchor(j)
  <2>1. (\E found : Conclude(j, found)) \/ \E a : job' = [job EXCEPT ![j].pc = "hashes", ![j].anchor = a]
    BY <1>3, Zenon DEF ReadLatestAnchor
  <2> QED BY <1>0, <1>1, <2>1
<1>4. CASE CheckAnchor(j)
  <2>1. \E found : Conclude(j, found)
    BY <1>4, Zenon DEF CheckAnchor
  <2> QED BY <1>1, <2>1
<1>5. CASE ReadHead(j) \/ ReadPrevious(j) \/ ReadRange(j) \/ CreateAnchor(j) \/ Submit(j)
  BY <1>0, <1>5 DEF ReadHead, ReadPrevious, ReadRange, CreateAnchor, Submit
<1>6. CASE UpdateAnchor(j) \/ QueryFails(j)
  BY <1>0, <1>6 DEF UpdateAnchor, QueryFails, QueryRefused, CreatedUnseen, AnchoredUnseen
<1> QED BY <1>2, <1>3, <1>4, <1>5, <1>6 DEF JobStep

LEMMA JobSteps ==
  ASSUME StateOK, [Next]_vars, NEW k \in Jobs
  PROVE  job'[k] = job[k] \/ job'[k] = NoJob \/ JobStep(k) \/ QueryFails(k)
<1>1. ASSUME NEW r \in Recorders, RecorderStep(r) PROVE job' = job
  BY <1>1 DEF RecorderStep, BeginAppend, CommitAppend, AppendReturns, AppendFails
<1>2. Replicate \/ Damage \/ UNCHANGED vars => job' = job
  BY DEF Replicate, Damage, vars
<1>3. ASSUME NEW i \in Instances, Crash(i) PROVE job'[k] = job[k] \/ job'[k] = NoJob
  BY <1>3 DEF Crash
<1>4. ASSUME NEW j \in Jobs, JobStep(j) \/ QueryFails(j)
      PROVE  job'[k] = job[k] \/ JobStep(k) \/ QueryFails(k)
  BY <1>4, OnlyOwnJob
<1> QED BY <1>1, <1>2, <1>3, <1>4 DEF Next

\* A job's own steps leave the rows alone.
LEMMA JobReadsOnly ==
  ASSUME NEW k \in Jobs, JobStep(k) \/ QueryFails(k)
  PROVE  rows' = rows
BY DEF JobStep, QueryFails, QueryRefused, CreatedUnseen, AnchoredUnseen, BeginVerify, ReadBatch,
       CheckBatch, ReadLatestAnchor, CheckAnchor, ReadHead, ReadPrevious, ReadRange,
       CreateAnchor, Submit, UpdateAnchor, tables

\* Between the states of a range the job is sent on from one to the next.
LEMMA RootIsRead ==
  ASSUME StateOK, [Next]_vars, NEW k \in Jobs, job'[k].pc = "create", job'[k] # job[k]
  PROVE  /\ rows' = rows /\ job[k].pc = "range" /\ job'[k].from = job[k].from /\ job'[k].to = job[k].to
         /\ job'[k].root = RangeHashes(rows, job[k].from, job[k].to)
<1>0. job \in [Jobs -> JobState] /\ job[k] \in JobState
  BY DEF StateOK
<1>1. NoJob.pc = "idle"
  BY DEF NoJob
<1>2. CASE ReadRange(k)
  <2> DEFINE root == RangeHashes(rows, job[k].from, job[k].to)
  <2>1. job'[k] = [job[k] EXCEPT !.pc = "create", !.root = root]
    BY <1>0, <1>2 DEF ReadRange
  <2>2. job[k].pc = "range" /\ rows' = rows
    BY <1>2 DEF ReadRange, tables
  <2> HIDE DEF root
  <2>3. job'[k].from = job[k].from /\ job'[k].to = job[k].to /\ job'[k].root = root
    BY <1>0, <2>1 DEF JobState
  <2> QED BY <2>2, <2>3 DEF root
<1>3. CASE BeginVerify(k) \/ ReadBatch(k) \/ CheckBatch(k) \/ ReadLatestAnchor(k) \/ CheckAnchor(k)
  BY <1>3, VerifyLeaves DEF Started, Ranging
<1>4. CASE ReadHead(k)
  BY <1>0, <1>4 DEF ReadHead, JobState
<1>5. CASE ReadPrevious(k)
  <2>1. job'[k] = NoJob \/ job'[k].pc = "range"
    BY <1>0, <1>5 DEF ReadPrevious, JobState
  <2> QED BY <1>1, <2>1
<1>6. CASE CreateAnchor(k) \/ Submit(k)
  BY <1>0, <1>6 DEF CreateAnchor, Submit, JobState
<1>7. CASE UpdateAnchor(k) \/ QueryFails(k)
  BY <1>0, <1>1, <1>7 DEF UpdateAnchor, QueryFails, QueryRefused, CreatedUnseen, AnchoredUnseen, JobState
<1> QED BY <1>1, <1>2, <1>3, <1>4, <1>5, <1>6, <1>7, JobSteps DEF JobStep

-----------------------------------------------------------------------------
(* A root is that of its range, unless the rows were changed.              *)

TrueInv ==
    Bad(rows) = {} =>
        /\ \A k \in DOMAIN anchors :
                anchors[k].root = RangeHashes(rows, anchors[k].from, anchors[k].to)
        /\ \A j \in Jobs : job[j].pc = "create" =>
                job[j].root = RangeHashes(rows, job[j].from, job[j].to)

\* An append changes no range that ends at the last row or before.
LEMMA RangeStays ==
  ASSUME StateOK, LockInv, GrowInv, rows' = rows \/ (\E r \in Recorders : CommitAppend(r)),
         NEW from \in Nat, NEW to \in Nat, to <= Top(rows)
  PROVE  RangeHashes(rows', from, to) = RangeHashes(rows, from, to)
<1>1. CASE rows' = rows
  BY <1>1
<1>2. ASSUME NEW r \in Recorders, CommitAppend(r)
      PROVE  RangeHashes(rows', from, to) = RangeHashes(rows, from, to)
  <2>1. /\ Top(rows) \in Nat /\ Stored(rows') = Stored(rows) \cup {Top(rows) + 1}
        /\ \A n \in Stored(rows) : rows'[n] = rows[n]
    BY <1>2, CommitRow
  <2>2. {m \in Stored(rows') : from <= m /\ m <= to} = {m \in Stored(rows) : from <= m /\ m <= to}
    BY <2>1
  <2> QED BY <2>1, <2>2 DEF RangeHashes
<1> QED BY <1>1, <1>2

LEMMA AnchorNats ==
  ASSUME StateOK
  PROVE  \A k \in DOMAIN anchors : anchors[k].from \in Nat /\ anchors[k].to \in Nat
<1>1. \A k \in DOMAIN anchors : anchors[k] \in Anchor
  BY DEF StateOK
<1> QED BY <1>1 DEF Anchor, Seqs

LEMMA TrueStep ==
  ASSUME PlainDamage, TypeInv, LockInv, AnchorInv, ReachInv, GrowInv, TrueInv, [Next]_vars
  PROVE  TrueInv'
<1> SUFFICES ASSUME Bad(rows') = {}
             PROVE  /\ \A k \in DOMAIN anchors' :
                          anchors'[k].root = RangeHashes(rows', anchors'[k].from, anchors'[k].to)
                    /\ \A j \in Jobs : job'[j].pc = "create" =>
                          job'[j].root = RangeHashes(rows', job'[j].from, job'[j].to)
  BY DEF TrueInv
<1>0. StateOK /\ job \in [Jobs -> JobState] /\ \A j \in Jobs : job[j].from \in Nat /\ job[j].to \in Nat
  BY BoundsOK DEF TypeInv, StateOK, JobState
<1>1. Bad(rows) = {} /\ ~ Damage
  BY <1>0, BadStays, DamageIsBad
<1>2. rows' = rows \/ \E r \in Recorders : CommitAppend(r)
  BY <1>1, RowSteps
<1>3. \A k \in DOMAIN anchors :
          /\ anchors[k].root = RangeHashes(rows, anchors[k].from, anchors[k].to)
          /\ anchors[k].to <= Top(rows) /\ anchors[k].from \in Nat /\ anchors[k].to \in Nat
  BY <1>0, <1>1, AnchorNats DEF TrueInv, ReachInv
<1>4. \A k \in DOMAIN anchors :
          anchors[k].root = RangeHashes(rows', anchors[k].from, anchors[k].to)
  BY <1>0, <1>2, <1>3, RangeStays
<1>5. \A j \in Jobs : job[j].pc = "create" => /\ job[j].to <= Top(rows)
                                              /\ job[j].root = RangeHashes(rows, job[j].from, job[j].to)
  BY <1>1 DEF TrueInv, ReachInv, Within, Ranging
<1>6. \A j \in Jobs : job[j].pc = "create" =>
          job[j].root = RangeHashes(rows', job[j].from, job[j].to)
  BY <1>0, <1>2, <1>5, RangeStays
<1>7. ASSUME NEW j \in Jobs, job'[j].pc = "create"
      PROVE  job'[j].root = RangeHashes(rows', job'[j].from, job'[j].to)
  <2>1. CASE job'[j] = job[j]
    BY <1>6, <1>7, <2>1
  <2>2. CASE job'[j] # job[j]
    BY <1>0, <1>7, <2>2, RootIsRead
  <2> QED BY <2>1, <2>2
<1>8. ASSUME NEW k \in DOMAIN anchors'
      PROVE  anchors'[k].root = RangeHashes(rows', anchors'[k].from, anchors'[k].to)
  <2>1. CASE anchors' = anchors
    BY <1>4, <2>1
  <2>2. ASSUME NEW j \in Jobs, Creates(j)
        PROVE  anchors'[k].root = RangeHashes(rows', anchors'[k].from, anchors'[k].to)
    <3>1. job[j].root = RangeHashes(rows', job[j].from, job[j].to)
      BY <1>6, <2>2, CreateEffect
    <3>2. k \in DOMAIN anchors \/ k = Len(anchors) + 1
      BY <1>0, <2>2, CreateEffect DEF StateOK
    <3> QED BY <1>4, <2>2, <3>1, <3>2, CreateEffect
  <2>3. ASSUME NEW j \in Jobs, Marks(j)
        PROVE  anchors'[k].root = RangeHashes(rows', anchors'[k].from, anchors'[k].to)
    BY <1>4, <2>3, UpdateEffect
  <2> QED BY <1>0, <2>1, <2>2, <2>3, AnchorsStep
<1> QED BY <1>7, <1>8

\* What holds of the tables however their rows are edited and deleted inside.
TableInv == TypeInv /\ LockInv /\ AnchorInv /\ ReachInv /\ GrowInv /\ TrueInv

LEMMA TableInit == Init => TableInv
<1> SUFFICES ASSUME Init PROVE TableInv
  OBVIOUS
<1>1. LockInv /\ AnchorInv /\ ReachInv /\ TrueInv
  BY DEF Init, LockInv, BuiltOK, NoEntry, AnchorInv, OwnOK, RevokedOK, ReachInv, Within, TrueInv,
         NoJob, Ranging, InFlight
<1> QED BY <1>1, TypeInit, GrowInit DEF TableInv

LEMMA TableStep ==
  ASSUME PlainDamage, TableInv, [Next]_vars
  PROVE  TableInv'
<1>0. StateOK
  BY DEF TableInv, TypeInv
<1>1. TypeInv' /\ LockInv' /\ AnchorInv'
  BY <1>0, TypeStep, LockStep, AnchorStep DEF TableInv
<1>2. GrowInv' /\ Top(rows) <= Top(rows')
  BY <1>0, GrowStep, TopGrows DEF TableInv
<1>3. ReachInv'
  BY <1>2, ReachStep DEF TableInv
<1>4. TrueInv'
  BY TrueStep DEF TableInv
<1> QED BY <1>1, <1>2, <1>3, <1>4 DEF TableInv

\* A hash commits to as many rows as its sequence says.
LEMMA HashLength ==
  ASSUME StateOK, Intact(rows)
  PROVE  \A n \in Stored(rows) : Len(rows[n].hash) = n
<1> DEFINE T == {n \in Stored(rows) : Len(rows[n].hash) # n}
<1>1. SUFFICES ASSUME T # {} PROVE FALSE
  OBVIOUS
<1>2. T \in SUBSET Nat
  BY StoredNats
<1>3. PICK n \in T : \A m \in T : n <= m
  BY <1>1, <1>2, LeastOf
<1>4. n \in Stored(rows) /\ n \in Nat /\ 1 <= n /\ Len(rows[n].hash) # n
  BY <1>3, StoredNats
<1>5. /\ n > 1 => n - 1 \in Stored(rows)
      /\ rows[n].prev = IF n = 1 THEN Genesis ELSE rows[n - 1].hash
      /\ rows[n].hash = Hash(rows[n].prev, n, rows[n].event)
  BY <1>4 DEF Intact
<1>6. rows[n].prev \in Seq(Seqs \X (Events \cup {Changed}))
  BY <1>4, StoredRow DEF StateOK, Row, Hashes
<1>7. Len(rows[n].hash) = Len(rows[n].prev) + 1
  BY <1>5, <1>6, AppendProperties DEF Hash
<1>8. CASE n = 1
  BY <1>4, <1>5, <1>7, <1>8 DEF Genesis
<1>9. CASE n > 1
  <2>1. n - 1 \notin T /\ n - 1 \in Stored(rows)
    BY <1>3, <1>4, <1>5, <1>9
  <2>2. Len(rows[n - 1].hash) = n - 1
    BY <2>1
  <2> QED BY <1>4, <1>5, <1>7, <1>9, <2>2
<1> QED BY <1>4, <1>8, <1>9

\* So a range has as many hashes as it has sequences.
LEMMA RangeCount ==
  ASSUME StateOK, Intact(rows), NEW from \in Nat \ {0}, NEW to \in Nat, from <= to, to <= Top(rows)
  PROVE  Cardinality(RangeHashes(rows, from, to)) + from = to + 1
<1> DEFINE H == RangeHashes(rows, from, to)
           f == [n \in from .. to |-> rows[n].hash]
<1>1. {m \in Stored(rows) : from <= m /\ m <= to} = from .. to
  BY IntactIsWhole, TopIsGreatest
<1>2. H = {rows[n].hash : n \in from .. to}
  BY <1>1 DEF RangeHashes
<1>3. \A m, n \in from .. to : rows[m].hash = rows[n].hash => m = n
  BY <1>1, HashLength
<1>4. f \in Bijection(from .. to, H)
  BY <1>2, <1>3 DEF Bijection, Injection, Surjection, IsInjective
<1>5. IsFiniteSet(from .. to) /\ Cardinality(from .. to) = to - from + 1
  BY FS_Interval
<1>6. ExistsBijection(from .. to, H)
  BY <1>4 DEF ExistsBijection
<1>7. Cardinality(H) = to - from + 1
  BY <1>5, <1>6, FS_Bijection
<1> QED BY <1>7

LEMMA IntactTrue ==
  ASSUME TableInv, Intact(rows)
  PROVE  AnchorsTrue
<1>0. StateOK /\ GrowInv
  BY DEF TableInv, TypeInv
<1>1. Bad(rows) = {}
  BY <1>0, IntactIffNoneBad
<1>2. ASSUME NEW k \in DOMAIN anchors
      PROVE  /\ anchors[k].root = RangeHashes(rows, anchors[k].from, anchors[k].to)
             /\ Cardinality(anchors[k].root) + anchors[k].from = anchors[k].to + 1
  <2>1. anchors[k].root = RangeHashes(rows, anchors[k].from, anchors[k].to)
    BY <1>1 DEF TableInv, TrueInv
  <2>2. anchors[k] \in Anchor /\ anchors[k].to <= Top(rows)
    BY <1>0 DEF StateOK, TableInv, ReachInv
  <2>3. anchors[k].from \in Nat \ {0} /\ anchors[k].to \in Nat /\ anchors[k].from <= anchors[k].to
    BY <2>2 DEF Anchor, Seqs
  <2> QED BY <1>0, <2>1, <2>2, <2>3, RangeCount
<1> QED BY <1>2 DEF AnchorsTrue

LEMMA TableTheorem ==
  ASSUME PlainDamage
  PROVE  Spec => []TableInv
<1>1. TableInv /\ [Next]_vars => TableInv'
  BY TableStep
<1>2. TableInv /\ UNCHANGED vars => TableInv'
  BY <1>1
<1> QED BY <1>1, TableInit, PTL DEF Spec

\* Until a row is changed: every anchor has the root and the count of its whole
\* range, although the head, the latest anchor and the range are read one after
\* the other while others append and anchor (runAnchorMerkleRootJob).
THEOREM AnchorsTrueUntilChanged ==
  ASSUME PlainDamage
  PROVE  Spec => [](ChainLinked => AnchorsTrue)
<1>1. TableInv => (ChainLinked => AnchorsTrue)
  BY IntactTrue DEF ChainLinked
<1> QED BY <1>1, TableTheorem, PTL

\* While the tables are left alone, an anchor is always true of its range.
THEOREM AnchorsTrueTheorem ==
  ASSUME LeftAlone
  PROVE  Spec => []AnchorsTrue
<1>1. PlainDamage
  BY DEF LeftAlone, PlainDamage
<1> QED BY <1>1, ChainTheorem, AnchorsTrueUntilChanged, PTL

-----------------------------------------------------------------------------
(* The batches of a scan (readBatch).                                      *)

Below(S, x) == {m \in S : m < x}

LEMMA BelowIsFinite ==
  ASSUME NEW N \in Nat, NEW S \in SUBSET (0 .. N)
  PROVE  /\ IsFiniteSet(S) /\ Cardinality(S) \in Nat
         /\ \A x \in S : x \in Nat /\ x <= N
         /\ \A x : IsFiniteSet(Below(S, x)) /\ Cardinality(Below(S, x)) \in Nat
<1>1. 0 \in Int /\ N \in Int
  OBVIOUS
<1>2. IsFiniteSet(0 .. N)
  BY <1>1, FS_Interval
<1>3. IsFiniteSet(S)
  BY <1>2, FS_Subset
<1>4. ASSUME NEW x
      PROVE  IsFiniteSet(Below(S, x)) /\ Cardinality(Below(S, x)) \in Nat
  <2>1. Below(S, x) \in SUBSET S
    BY DEF Below
  <2>2. IsFiniteSet(Below(S, x))
    BY <1>3, <2>1, FS_Subset
  <2> QED BY <2>2, FS_CardinalityType
<1>5. \A x \in S : x \in Nat /\ x <= N
  OBVIOUS
<1> QED BY <1>3, <1>4, <1>5, FS_CardinalityType

\* With a number, a batch has all that are smaller and not yet read.
LEMMA FirstAreFirst ==
  ASSUME NEW N \in Nat, NEW S \in SUBSET (0 .. N), NEW k \in Nat,
         NEW x \in FirstOf(S, k), NEW y \in S, y < x
  PROVE  y \in FirstOf(S, k)
<1>1. x \in S /\ Cardinality(Below(S, x)) < k
  BY DEF FirstOf, Below
<1>2. \A m \in S : m \in Nat
  BY BelowIsFinite
<1>3. Below(S, y) \in SUBSET Below(S, x)
  <2>1. ASSUME NEW m \in S, m < y
        PROVE  m < x
    <3>1. m \in Nat /\ y \in Nat /\ x \in Nat
      BY <1>1, <1>2
    <3> QED BY <2>1, <3>1
  <2> QED BY <2>1 DEF Below
<1>4. Cardinality(Below(S, y)) <= Cardinality(Below(S, x))
  <2>1. IsFiniteSet(Below(S, x))
    BY BelowIsFinite
  <2> QED BY <1>3, <2>1, FS_Subset
<1>5. Cardinality(Below(S, x)) \in Nat /\ Cardinality(Below(S, y)) \in Nat
  BY BelowIsFinite
<1>6. Cardinality(Below(S, y)) < k
  BY <1>1, <1>4, <1>5
<1> QED BY <1>6 DEF FirstOf, Below

\* A batch that leaves a number out is full.
LEMMA FirstAreFull ==
  ASSUME NEW N \in Nat, NEW S \in SUBSET (0 .. N), NEW k \in Nat \ {0}, S \ FirstOf(S, k) # {}
  PROVE  Cardinality(FirstOf(S, k)) = k
<1> DEFINE F == FirstOf(S, k)
<1>1. \A x \in S : x \in F <=> Cardinality(Below(S, x)) < k
  BY DEF FirstOf, Below
<1>2. F \in SUBSET S /\ F \in SUBSET (0 .. N) /\ \A m \in S : m \in Nat
  BY BelowIsFinite DEF FirstOf
<1>3. \A x : IsFiniteSet(Below(S, x)) /\ Cardinality(Below(S, x)) \in Nat
  BY BelowIsFinite
<1>4. \A x \in F : \A y \in S : y < x => y \in F
  BY FirstAreFirst
<1> HIDE DEF F
<1>5. PICK x \in S \ F : \A y \in S \ F : x <= y
  <2>1. S \ F \in SUBSET Nat /\ S \ F # {}
    BY <1>2 DEF F
  <2> QED BY <2>1, LeastOf
<1>6. F = Below(S, x)
  <2>1. \A y \in F : y < x
    BY <1>2, <1>4, <1>5
  <2>2. \A y \in S : y < x => y \in F
    BY <1>2, <1>5
  <2> QED BY <1>2, <2>1, <2>2 DEF Below
<1>7. Cardinality(F) >= k /\ Cardinality(F) \in Nat /\ IsFiniteSet(F)
  BY <1>1, <1>3, <1>5, <1>6
<1>8. F # {}
  BY <1>7, FS_EmptySet
<1>9. PICK y \in F : \A z \in F : z <= y
  BY <1>2, <1>8, GreatestOf
<1>10. F = Below(S, y) \cup {y} /\ y \notin Below(S, y)
  <2>1. y \in Nat /\ \A z \in F : z \in S /\ z \in Nat
    BY <1>2
  <2>2. \A z \in F : z < y \/ z = y
    BY <1>9, <2>1
  <2>3. \A z \in Below(S, y) : z \in F
    BY <1>4 DEF Below
  <2>4. \A z \in F : z < y => z \in Below(S, y)
    BY <2>1 DEF Below
  <2>5. y \notin Below(S, y)
    BY <2>1 DEF Below
  <2> QED BY <2>2, <2>3, <2>4, <2>5
<1>11. Cardinality(Below(S, y)) < k
  BY <1>1, <1>2, <1>9
<1>12. Cardinality(F) = Cardinality(Below(S, y)) + 1
  BY <1>3, <1>10, FS_AddElement
<1>13. Cardinality(F) = k
  BY <1>3, <1>7, <1>11, <1>12
<1> QED BY <1>13 DEF F

BatchOf(table, last) == {<<n, table[n]>> : n \in FirstOf({m \in Stored(table) : m > last}, BatchSize)}

LEMMA BatchCount ==
  ASSUME NEW F, IsFiniteSet(F), NEW table
  PROVE  Cardinality({<<n, table[n]>> : n \in F}) = Cardinality(F)
<1> DEFINE B == {<<n, table[n]>> : n \in F}
           f == [n \in F |-> <<n, table[n]>>]
<1>1. f \in Bijection(F, B)
  BY DEF Bijection, Injection, Surjection, IsInjective
<1>2. ExistsBijection(F, B)
  BY <1>1 DEF ExistsBijection
<1> QED BY <1>2, FS_Bijection

LEMMA EndIsLast ==
  ASSUME NEW batch \in SUBSET (Seqs \X Row), NEW last, NEW prev
  PROVE  \/ batch = {} /\ EndOf(batch, last, prev) = [n |-> last, hash |-> prev]
         \/ \E b \in batch : /\ \A d \in batch : d[1] <= b[1]
                             /\ EndOf(batch, last, prev) = [n |-> b[1], hash |-> b[2].hash]
<1>1. CASE batch = {}
  BY <1>1 DEF EndOf
<1>2. CASE batch # {}
  <2> DEFINE T == {b[1] : b \in batch}
             b == CHOOSE c \in batch : \A d \in batch : d[1] <= c[1]
  <2>1. T \in SUBSET (0 .. MaxEntries) /\ T # {}
    BY <1>2, BoundsOK DEF Seqs
  <2>2. PICK t \in T : \A u \in T : u <= t
    BY <2>1, GreatestOf, BoundsOK
  <2>3. \E c \in batch : \A d \in batch : d[1] <= c[1]
    BY <2>2
  <2>4. b \in batch /\ \A d \in batch : d[1] <= b[1]
    BY <2>3, Zenon
  <2>5. EndOf(batch, last, prev) = [n |-> b[1], hash |-> b[2].hash]
    BY <1>2, Zenon DEF EndOf
  <2> HIDE DEF b
  <2> QED BY <2>4, <2>5
<1> QED BY <1>1, <1>2

\* A batch has all the rows up to a number, or ends before it; then it is full if
\* there is a row at the number or after it.
LEMMA BatchShape ==
  ASSUME NEW table \in Table, NEW last \in 0 .. MaxEntries, NEW prev, NEW n \in Seqs, last < n,
         NEW batch, batch = BatchOf(table, last), NEW end, end = EndOf(batch, last, prev)
  PROVE  /\ \A b \in batch : b[1] \in Stored(table) /\ b[1] \in Nat /\ last < b[1] /\ b[2] = table[b[1]]
         /\ \/ /\ \E b \in batch : n <= b[1]
               /\ \A m \in Stored(table) : last < m /\ m <= n => <<m, table[m]>> \in batch
            \/ /\ end.n < n
               /\ \/ end.n = last /\ end.hash = prev
                  \/ end.n \in Stored(table) /\ last < end.n /\ end.hash = table[end.n].hash
               /\ (\E m \in Stored(table) : n <= m) => Cardinality(batch) = BatchSize
<1> DEFINE S == {m \in Stored(table) : m > last}
           F == FirstOf(S, BatchSize)
<1>1. S \in SUBSET (0 .. MaxEntries) /\ MaxEntries \in Nat /\ BatchSize \in Nat \ {0}
  BY BoundsOK DEF Stored, Seqs
<1>2. F \in SUBSET S /\ batch = {<<m, table[m]>> : m \in F}
  BY DEF FirstOf, BatchOf
<1>3. n \in Nat /\ last \in Nat
  BY <1>1 DEF Seqs
<1>4. /\ \A m \in F : m \in Stored(table) /\ m \in Nat /\ last < m
      /\ \A m \in Stored(table) : last < m => m \in S
  BY <1>1, <1>2, <1>3
<1>5. /\ IsFiniteSet(F)
      /\ \A x \in F : \A y \in S : y < x => y \in F
      /\ S \ F # {} => Cardinality(F) = BatchSize
  <2>1. F \in SUBSET (0 .. MaxEntries)
    BY <1>1, <1>2
  <2> QED BY <1>1, <2>1, BelowIsFinite, FirstAreFirst, FirstAreFull
<1>6. /\ \A m \in F : <<m, table[m]>> \in batch
      /\ \A b \in batch : b[1] \in F /\ b[2] = table[b[1]]
  <2> HIDE DEF F
  <2> QED BY <1>2
<1>7. batch \in SUBSET (Seqs \X Row)
  <2>1. \A m \in F : m \in Seqs /\ table[m] \in Row
    BY <1>4, StoredRow
  <2> HIDE DEF F
  <2> QED BY <1>2, <2>1
<1>8. Cardinality(batch) = Cardinality(F)
  <2> HIDE DEF F
  <2>1. Cardinality({<<m, table[m]>> : m \in F}) = Cardinality(F)
    BY <1>5, BatchCount
  <2> QED BY <1>2, <2>1
<1> HIDE DEF F, S
<1>9. CASE \E m \in F : n <= m
  <2>1. PICK x \in F : n <= x
    BY <1>9
  <2>2. \A m \in Stored(table) : last < m /\ m <= n => m \in F
    BY <1>3, <1>4, <1>5, <2>1 DEF Stored, Seqs
  <2>3. <<x, table[x]>> \in batch /\ n <= <<x, table[x]>>[1]
    BY <1>6, <2>1
  <2> QED BY <1>4, <1>6, <2>2, <2>3
<1>10. CASE ~ \E m \in F : n <= m
  <2>1. \A m \in F : m < n
    BY <1>3, <1>4, <1>10
  <2>2. \/ end.n = last /\ end.hash = prev
        \/ \E b \in batch : end.n = b[1] /\ end.hash = b[2].hash
    BY <1>7, EndIsLast
  <2>3. /\ end.n < n
        /\ \/ end.n = last /\ end.hash = prev
           \/ end.n \in Stored(table) /\ last < end.n /\ end.hash = table[end.n].hash
    BY <1>4, <1>6, <2>1, <2>2
  <2>4. ASSUME NEW m \in Stored(table), n <= m
        PROVE  Cardinality(batch) = BatchSize
    <3>1. m \in Nat /\ last < m
      BY <1>3, <2>4 DEF Stored, Seqs
    <3>2. m \in S \ F
      BY <1>3, <1>4, <2>1, <2>4, <3>1
    <3> QED BY <1>5, <1>8, <3>2
  <2> QED BY <1>4, <1>6, <2>3, <2>4
<1> QED BY <1>9, <1>10

\* A row that is missing or was altered, and is still to be read, is found in the
\* next batch, or the batch ends before it: full, or short of what was appended.
LEMMA RowIsCaught ==
  ASSUME NEW table \in Table, NEW last \in 0 .. MaxEntries, NEW prev, NEW i,
         NEW n \in Lost(i, table) \cup Altered(table), last < n,
         NEW batch, batch = BatchOf(table, last), NEW end, end = EndOf(batch, last, prev)
  PROVE  \/ Findings(batch, last, prev) # {}
         \/ /\ end.n < n
            /\ Cardinality(batch) = BatchSize \/ n <= highest[i]
<1>1. n \in Seqs /\ n \in Nat /\ last \in Nat
  BY BoundsOK DEF Lost, Altered, Stored, Seqs
<1>2. /\ \A b \in batch : b[1] \in Stored(table) /\ b[1] \in Nat /\ last < b[1] /\ b[2] = table[b[1]]
      /\ \/ /\ \E b \in batch : n <= b[1]
            /\ \A m \in Stored(table) : last < m /\ m <= n => <<m, table[m]>> \in batch
         \/ /\ end.n < n
            /\ (\E m \in Stored(table) : n <= m) => Cardinality(batch) = BatchSize
  BY <1>1, BatchShape
<1>3. CASE /\ \E b \in batch : n <= b[1]
           /\ \A m \in Stored(table) : last < m /\ m <= n => <<m, table[m]>> \in batch
  <2>1. CASE n \in Altered(table)
    <3>1. /\ <<n, table[n]>> \in batch
          /\ table[n].hash # Hash(table[n].prev, n, table[n].event)
      BY <1>1, <1>3, <2>1 DEF Altered
    <3>2. Mismatch(batch)
      BY <3>1 DEF Mismatch
    <3> QED BY <3>2 DEF Findings
  <2>2. CASE n \in Lost(i, table)
    <3> DEFINE T == {b[1] : b \in {c \in batch : n <= c[1]}}
    <3>1. T \in SUBSET Nat /\ T # {}
      BY <1>2, <1>3
    <3>2. PICK m \in T : \A k \in T : m <= k
      BY <3>1, LeastOf
    <3>3. PICK b \in batch : m = b[1] /\ n <= m
      BY <3>2
    <3>4. m \in Nat /\ n < m
      <4>1. n # m
        BY <1>2, <2>2, <3>3 DEF Lost
      <4> QED BY <1>1, <1>2, <3>3, <4>1
    <3>5. \A c \in batch : c[1] # m - 1
      <4> SUFFICES ASSUME NEW c \in batch, c[1] = m - 1 PROVE FALSE
        OBVIOUS
      <4>1. n <= c[1] /\ c[1] < m
        BY <1>1, <3>4
      <4>2. c[1] \in T /\ c[1] \in Nat
        BY <1>2, <4>1
      <4> HIDE DEF T
      <4> QED BY <3>2, <3>4, <4>1, <4>2
    <3>6. b[1] - 1 \notin {c[1] : c \in batch} \cup {last}
      <4>1. m - 1 # last
        BY <1>1, <3>4
      <4> QED BY <3>3, <3>5, <4>1
    <3>7. Gap(batch, last)
      BY <3>3, <3>6 DEF Gap
    <3> QED BY <3>7 DEF Findings
  <2> QED BY <2>1, <2>2
<1>4. CASE /\ end.n < n
           /\ (\E m \in Stored(table) : n <= m) => Cardinality(batch) = BatchSize
  <2>1. CASE n \in Stored(table)
    BY <1>1, <1>4, <2>1
  <2>2. CASE n <= highest[i]
    BY <1>4, <2>2
  <2>3. CASE n \notin Stored(table) /\ n <= Top(table)
    <3>1. Top(table) \in Stored(table)
      BY <1>1, <2>3, TopIsGreatest DEF Seqs
    <3> QED BY <1>4, <2>3, <3>1
  <2> QED BY <2>1, <2>2, <2>3 DEF Lost, Altered
<1> QED BY <1>2, <1>3, <1>4

\* A row that does not link to the one before is found in its batch; when that
\* starts with it, the scan has the hash of the row before.
LEMMA LinkIsCaught ==
  ASSUME NEW table \in Table, NEW last \in 0 .. MaxEntries, NEW prev,
         NEW n \in Unlinked(table), last < n, last = n - 1 => prev = HashAt(table, n - 1),
         NEW batch, batch = BatchOf(table, last), NEW end, end = EndOf(batch, last, prev)
  PROVE  \/ Findings(batch, last, prev) # {}
         \/ /\ end.n < n /\ (end.n = n - 1 => end.hash = HashAt(table, n - 1))
            /\ Cardinality(batch) = BatchSize
<1>1. /\ n \in Seqs /\ n \in Nat /\ last \in Nat /\ n \in Stored(table)
      /\ n - 1 \in Stored(table) \cup {0} /\ table[n].prev # HashAt(table, n - 1)
      /\ 0 \notin Stored(table)
  BY BoundsOK DEF Unlinked, Stored, Seqs
<1>2. /\ \A b \in batch : b[1] \in Stored(table) /\ b[1] \in Nat /\ last < b[1] /\ b[2] = table[b[1]]
      /\ \/ /\ \E b \in batch : n <= b[1]
            /\ \A m \in Stored(table) : last < m /\ m <= n => <<m, table[m]>> \in batch
         \/ /\ end.n < n
            /\ \/ end.n = last /\ end.hash = prev
               \/ end.n \in Stored(table) /\ last < end.n /\ end.hash = table[end.n].hash
            /\ (\E m \in Stored(table) : n <= m) => Cardinality(batch) = BatchSize
  BY <1>1, BatchShape
<1>3. CASE \A m \in Stored(table) : last < m /\ m <= n => <<m, table[m]>> \in batch
  <2> DEFINE before == {b \in batch : b[1] < n}
             nearest == {b \in before : \A c \in before : c[1] <= b[1]}
  <2>1. LinkTo(batch, prev, n) = HashAt(table, n - 1)
    <3>1. CASE last = n - 1
      <4>1. before = {}
        BY <1>1, <1>2, <3>1
      <4>2. LinkTo(batch, prev, n) = prev
        BY <4>1, Zenon DEF LinkTo
      <4> QED BY <3>1, <4>2
    <3>2. CASE last # n - 1
      <4>1. n - 1 \in Stored(table) /\ n - 1 # 0 /\ last < n - 1
        BY <1>1, <3>2
      <4>2. <<n - 1, table[n - 1]>> \in before
        BY <1>1, <1>3, <4>1
      <4>3. \A b \in before : b[1] <= n - 1
        BY <1>1, <1>2
      <4>4. <<n - 1, table[n - 1]>> \in nearest
        BY <4>2, <4>3
      <4>5. \A b \in nearest : b[2] = table[n - 1]
        <5> SUFFICES ASSUME NEW b \in nearest PROVE b[2] = table[n - 1]
          OBVIOUS
        <5>1. n - 1 <= b[1] /\ b \in before
          BY <4>2
        <5>2. b[1] = n - 1
          BY <1>1, <1>2, <4>3, <5>1
        <5> QED BY <1>2, <5>1, <5>2
      <4> HIDE DEF before, nearest
      <4>6. (CHOOSE b \in nearest : TRUE) \in nearest
        BY <4>4
      <4>7. LinkTo(batch, prev, n) = (CHOOSE b \in nearest : TRUE)[2].hash
        BY <4>2, Zenon DEF LinkTo, before, nearest
      <4> QED BY <4>1, <4>5, <4>6, <4>7 DEF HashAt
    <3> QED BY <3>1, <3>2
  <2>2. <<n, table[n]>> \in batch
    BY <1>1, <1>3
  <2>3. Break(batch, prev)
    BY <1>1, <2>1, <2>2 DEF Break
  <2> QED BY <2>3 DEF Findings
<1>4. CASE /\ end.n < n
           /\ \/ end.n = last /\ end.hash = prev
              \/ end.n \in Stored(table) /\ last < end.n /\ end.hash = table[end.n].hash
           /\ (\E m \in Stored(table) : n <= m) => Cardinality(batch) = BatchSize
  <2>1. Cardinality(batch) = BatchSize
    BY <1>1, <1>4
  <2>2. end.n = n - 1 => end.hash = HashAt(table, n - 1)
    BY <1>1, <1>4 DEF HashAt
  <2> QED BY <1>4, <2>1, <2>2
<1> QED BY <1>2, <1>3, <1>4

-----------------------------------------------------------------------------
(* What is wrong all through a verification is found by the time it ends.  *)

\* The row is still to be read, and what it does not link to is known by then.
Ahead(w, last, prev) ==
    last < w[2] /\ (w[1] = "link" /\ last = w[2] - 1 => prev = w[3])

\* What is wrong with a row has been found, or is in the batch, or is still to come;
\* what is wrong with a range is wrong with the one whose hashes are read.
Caught(w, v, h, list) ==
    \/ v.found # {}
    \/ w[1] # "range" /\ v.pc = "scan" /\ Ahead(w, v.last, v.prev)
    \/ /\ w[1] # "range" /\ v.pc = "batch"
       /\ LET end == EndOf(v.batch, v.last, v.prev)
          IN  \/ Findings(v.batch, v.last, v.prev) # {}
              \/ /\ Ahead(w, end.n, end.hash)
                 /\ Cardinality(v.batch) = BatchSize \/ w[2] <= h
    \/ /\ w[1] = "range"
       /\ v.pc = "hashes" => v.anchor \in DOMAIN list /\ list[v.anchor].to = w[2]

Anchoring == {"head", "previous"} \cup Ranging \cup InFlight

ScanOK(v, ws, h, list) ==
    /\ v.pc \in Verifying => \A w \in ws : Caught(w, v, h, list)
    /\ v.pc \in Anchoring => v.clean

\* The replica has the ranges that the primary has.
CopyInv ==
    \A k \in DOMAIN replica.anchors : k \in DOMAIN anchors /\ replica.anchors[k].to = anchors[k].to

ScanInv ==
    /\ CopyInv
    /\ \A j \in Jobs : /\ wrong[j] \subseteq WrongFor(j)
                       /\ ScanOK(job[j], wrong[j], highest[HomeOf[j]], anchors)

LEMMA IdleIsOK == \A ws, h, list : ScanOK(NoJob, ws, h, list)
BY DEF ScanOK, NoJob, Verifying, Anchoring, Ranging, InFlight

\* The rest of the system can only bring what is wrong nearer.
LEMMA ScanStays ==
  ASSUME NEW v, NEW ws, \A w \in ws : w[2] \in Nat, NEW h \in Nat, NEW list,
         ScanOK(v, ws, h, list),
         NEW less \in SUBSET ws, NEW g \in Nat, h <= g, NEW more,
         \A a \in DOMAIN list : a \in DOMAIN more /\ more[a].to = list[a].to
  PROVE  ScanOK(v, less, g, more)
<1>1. ASSUME v.pc \in Verifying, NEW w \in less PROVE Caught(w, v, g, more)
  <2>1. Caught(w, v, h, list) /\ w[2] \in Nat
    BY <1>1 DEF ScanOK
  <2>2. w[2] <= h => w[2] <= g
    BY <2>1
  <2> QED BY <2>1, <2>2 DEF Caught
<1> QED BY <1>1 DEF ScanOK

LEMMA OwnSources ==
  ASSUME NEW k \in Jobs \ Requests
  PROVE  Sources(k) = {[rows |-> rows, anchors |-> anchors]}
BY DEF Sources

\* The ways to be wrong.
LEMMA WrongIs ==
  ASSUME NEW i, NEW s, NEW w \in Wrong(i, s)
  PROVE  \/ \E n \in Lost(i, s.rows) \cup Altered(s.rows) : w = <<"row", n, Genesis>>
         \/ \E n \in Unlinked(s.rows) : w = <<"link", n, HashAt(s.rows, n - 1)>>
         \/ \E n \in Untrue(s) : w = <<"range", n, Genesis>>
BY DEF Wrong

LEMMA WrongSeen ==
  ASSUME NEW k \in Jobs, NEW w \in WrongFor(k), NEW s \in Sources(k)
  PROVE  w \in Wrong(HomeOf[k], s)
BY DEF WrongFor

LEMMA WrongSame ==
  ASSUME NEW k \in Jobs, UNCHANGED <<rows, anchors, replica, highest>>
  PROVE  WrongFor(k)' = WrongFor(k)
BY DEF WrongFor, Wrong, Sources, Lost, Altered, Unlinked, Untrue

\* Only what has been wrong since the verification began counts.
LEMMA WatchSays ==
  ASSUME [Next]_vars, NEW k \in Jobs, wrong[k] \subseteq WrongFor(k)
  PROVE  /\ wrong'[k] \subseteq WrongFor(k)'
         /\ job[k].pc # "idle" => wrong'[k] \subseteq wrong[k]
<1>1. CASE UNCHANGED vars
  <2>1. WrongFor(k)' = WrongFor(k)
    BY <1>1, WrongSame DEF vars
  <2> QED BY <1>1, <2>1 DEF vars
<1>2. CASE Next
  <2>1. wrong'[k] = IF job'[k].pc \notin Verifying THEN {}
                    ELSE IF job[k].pc = "idle" THEN WrongFor(k)'
                    ELSE wrong[k] \cap WrongFor(k)'
    BY <1>2, WatchStep DEF Watch
  <2> QED BY <2>1
<1> QED BY <1>1, <1>2

\* What a verification ends with.
LEMMA Concluded ==
  ASSUME StateOK, NEW k \in Jobs, NEW found, Conclude(k, found)
  PROVE  \E c \in BOOLEAN :
            /\ wrong[k] = {} => c
            /\ reports' = reports \cup {[found |-> found, clean |-> c]}
            /\ \/ job'[k] = NoJob
               \/ k \in Anchorers /\ found = {} /\ job'[k] = [NoJob EXCEPT !.pc = "head", !.clean = c]
<1> DEFINE c == wrong[k] = {}
<1>1. /\ reports' = reports \cup {[found |-> found, clean |-> c]}
      /\ job' = [job EXCEPT ![k] = IF k \in Anchorers /\ found = {}
                                   THEN [NoJob EXCEPT !.pc = "head", !.clean = c] ELSE NoJob]
  BY Zenon DEF Conclude
<1>2. c \in BOOLEAN /\ (wrong[k] = {} => c)
  OBVIOUS
<1> HIDE DEF c
<1>3. job'[k] = IF k \in Anchorers /\ found = {} THEN [NoJob EXCEPT !.pc = "head", !.clean = c] ELSE NoJob
  BY <1>1 DEF StateOK
<1> QED BY <1>1, <1>2, <1>3

LEMMA LatestVerdict ==
  ASSUME StateOK, NEW k \in Jobs, ReadLatestAnchor(k)
  PROVE  \/ \E found : /\ job[k].found \subseteq found /\ found \subseteq job[k].found \cup {"TRUNCATED"}
                       /\ Conclude(k, found)
         \/ /\ reports' = reports
            /\ \E s \in Sources(k) : \E a \in Latest(s.anchors) :
                  job'[k] = [job[k] EXCEPT !.pc = "hashes", !.anchor = a]
<1>1. PICK s \in Sources(k) :
        \/ Latest(s.anchors) = {} /\ Conclude(k, job[k].found)
        \/ \E a \in Latest(s.anchors) :
              IF job[k].last < s.anchors[a].to
                THEN Conclude(k, job[k].found \cup {"TRUNCATED"})
                ELSE /\ job' = [job EXCEPT ![k].pc = "hashes", ![k].anchor = a]
                     /\ UNCHANGED reports
  BY Zenon DEF ReadLatestAnchor
<1>2. CASE Conclude(k, job[k].found)
  BY <1>2
<1>3. CASE Conclude(k, job[k].found \cup {"TRUNCATED"})
  BY <1>3
<1>4. ASSUME NEW a \in Latest(s.anchors), job' = [job EXCEPT ![k].pc = "hashes", ![k].anchor = a]
      PROVE  job'[k] = [job[k] EXCEPT !.pc = "hashes", !.anchor = a]
  BY <1>4 DEF StateOK
<1> QED BY <1>1, <1>2, <1>3, <1>4

LEMMA AnchorVerdict ==
  ASSUME NEW k \in Jobs, CheckAnchor(k)
  PROVE  \E s \in Sources(k) :
            LET a == anchors[job[k].anchor]
            IN  \/ RangeHashes(s.rows, a.from, a.to) = a.root /\ Conclude(k, job[k].found)
                \/ /\ RangeHashes(s.rows, a.from, a.to) # a.root
                   /\ Conclude(k, job[k].found \cup {"ANCHOR_MISMATCH"})
<1> DEFINE a == anchors[job[k].anchor]
<1>1. PICK s \in Sources(k) :
        Conclude(k, job[k].found \cup IF RangeHashes(s.rows, a.from, a.to) = a.root
                                      THEN {} ELSE {"ANCHOR_MISMATCH"})
  BY Zenon DEF CheckAnchor
<1>2. job[k].found \cup {} = job[k].found
  OBVIOUS
<1> HIDE DEF a
<1>3. \/ RangeHashes(s.rows, a.from, a.to) = a.root /\ Conclude(k, job[k].found)
      \/ /\ RangeHashes(s.rows, a.from, a.to) # a.root
         /\ Conclude(k, job[k].found \cup {"ANCHOR_MISMATCH"})
  BY <1>1, <1>2
<1> QED BY <1>3 DEF a

\* Everything is ahead of a scan that begins.
LEMMA StartsOK ==
  ASSUME StateOK, NEW k \in Jobs, BeginVerify(k), NEW ws \in SUBSET WrongFor(k), NEW h, NEW list
  PROVE  ScanOK(job'[k], ws, h, list)
<1> DEFINE s == [rows |-> rows, anchors |-> anchors]
<1>1. s \in Sources(k) /\ s.rows = rows
  BY DEF Sources
<1>2. job'[k] = [NoJob EXCEPT !.pc = "scan"]
  BY DEF BeginVerify, StateOK
<1>3. job'[k].pc = "scan" /\ job'[k].last = 0 /\ job'[k].prev = Genesis
  BY <1>2 DEF NoJob
<1>4. ASSUME NEW w \in ws PROVE Caught(w, job'[k], h, list)
  <2>1. w \in Wrong(HomeOf[k], s)
    BY <1>1, WrongSeen
  <2> HIDE DEF s
  <2>2. CASE \E n \in Lost(HomeOf[k], rows) \cup Altered(rows) : w = <<"row", n, Genesis>>
    <3>1. w[1] = "row" /\ w[2] \in Seqs
      BY <2>2 DEF Lost, Altered, Stored
    <3> QED BY <1>3, <3>1 DEF Caught, Ahead, Seqs
  <2>3. CASE \E n \in Unlinked(rows) : w = <<"link", n, HashAt(rows, n - 1)>>
    <3>1. w[1] = "link" /\ w[2] \in Seqs /\ w[3] = HashAt(rows, w[2] - 1)
      BY <2>3 DEF Unlinked, Stored
    <3>2. w[2] - 1 = 0 => w[3] = Genesis
      BY <3>1 DEF HashAt
    <3> QED BY <1>3, <3>1, <3>2 DEF Caught, Ahead, Seqs
  <2>4. CASE w[1] = "range"
    BY <1>3, <2>4 DEF Caught
  <2> QED BY <1>1, <2>1, <2>2, <2>3, <2>4, WrongIs
<1> QED BY <1>3, <1>4 DEF ScanOK, Anchoring, Ranging, InFlight

LEMMA ReadsOK ==
  ASSUME StateOK, NEW k \in Jobs, ReadBatch(k), NEW ws \in SUBSET WrongFor(k), NEW list,
         ScanOK(job[k], ws, highest[HomeOf[k]], list)
  PROVE  ScanOK(job'[k], ws, highest[HomeOf[k]], list)
<1>0. job[k] \in JobState /\ job[k].pc = "scan" /\ job[k].last \in 0 .. MaxEntries
  BY DEF StateOK, ReadBatch, JobState
<1>1. PICK s \in Sources(k) :
          job' = [job EXCEPT ![k].pc = "batch", ![k].batch = BatchOf(s.rows, job[k].last)]
  BY DEF ReadBatch, BatchOf
<1>2. s.rows \in Table
  BY SourceType
<1> DEFINE last == job[k].last
           prev == job[k].prev
           batch == BatchOf(s.rows, last)
           end == EndOf(batch, last, prev)
           h == highest[HomeOf[k]]
<1>3. job'[k] = [job[k] EXCEPT !.pc = "batch", !.batch = batch]
  <2> HIDE DEF batch
  <2> QED BY <1>1 DEF StateOK, batch
<1> HIDE DEF batch, end
<1>4. /\ job'[k].pc = "batch" /\ job'[k].batch = batch /\ job'[k].found = job[k].found
      /\ job'[k].last = last /\ job'[k].prev = prev
  BY <1>0, <1>3 DEF JobState
<1>5. ASSUME NEW w \in ws PROVE Caught(w, job'[k], h, list)
  <2>1. w \in Wrong(HomeOf[k], s) /\ Caught(w, job[k], h, list)
    BY <1>0, WrongSeen DEF ScanOK, Verifying
  <2>2. CASE job[k].found # {} \/ w[1] = "range"
    BY <1>4, <2>2 DEF Caught
  <2>3. CASE Ahead(w, last, prev) /\ w[1] # "range"
    <3>1. CASE \E n \in Lost(HomeOf[k], s.rows) \cup Altered(s.rows) : w = <<"row", n, Genesis>>
      <4>1. w[1] = "row" /\ w[2] \in Lost(HomeOf[k], s.rows) \cup Altered(s.rows) /\ last < w[2]
        BY <2>3, <3>1 DEF Ahead
      <4>2. \/ Findings(batch, last, prev) # {}
            \/ end.n < w[2] /\ (Cardinality(batch) = BatchSize \/ w[2] <= h)
        BY <1>0, <1>2, <4>1, RowIsCaught DEF batch, end
      <4> QED BY <1>4, <4>1, <4>2 DEF Caught, Ahead, end
    <3>2. CASE \E n \in Unlinked(s.rows) : w = <<"link", n, HashAt(s.rows, n - 1)>>
      <4> PICK n \in Unlinked(s.rows) : w = <<"link", n, HashAt(s.rows, n - 1)>>
        BY <3>2
      <4>1. w[1] = "link" /\ w[2] = n /\ w[3] = HashAt(s.rows, n - 1)
        OBVIOUS
      <4>2. last < n /\ (last = n - 1 => prev = HashAt(s.rows, n - 1))
        BY <2>3, <4>1 DEF Ahead
      <4>3. \/ Findings(batch, last, prev) # {}
            \/ /\ end.n < n /\ (end.n = n - 1 => end.hash = HashAt(s.rows, n - 1))
               /\ Cardinality(batch) = BatchSize
        BY <1>0, <1>2, <4>2, LinkIsCaught DEF batch, end
      <4> HIDE DEF last, prev
      <4> QED BY <1>4, <4>1, <4>3 DEF Caught, Ahead, end
    <3> QED BY <2>1, <2>3, <3>1, <3>2, WrongIs
  <2> QED BY <1>0, <2>1, <2>2, <2>3 DEF Caught
<1> QED BY <1>4, <1>5 DEF ScanOK, Anchoring, Ranging, InFlight

LEMMA ChecksOK ==
  ASSUME StateOK, NEW k \in Jobs, CheckBatch(k), NEW ws, \A w \in ws : w[2] \in Nat, NEW list,
         ScanOK(job[k], ws, highest[HomeOf[k]], list)
  PROVE  ScanOK(job'[k], ws, highest[HomeOf[k]], list)
<1> DEFINE me == job[k]
           end == EndOf(me.batch, me.last, me.prev)
           more == Cardinality(me.batch) = BatchSize
           news == Findings(me.batch, me.last, me.prev)
           h == highest[HomeOf[k]]
           cut == IF ~more /\ end.n < h THEN {"TRUNCATED"} ELSE {}
<1>0. me \in JobState /\ me.pc = "batch" /\ job \in [Jobs -> JobState]
  BY DEF StateOK, CheckBatch
<1>1. job' = [job EXCEPT ![k] = [me EXCEPT !.pc = IF more THEN "scan" ELSE "latest", !.last = end.n,
                                           !.prev = end.hash, !.batch = {}, !.found = @ \cup news \cup cut]]
  BY Zenon DEF CheckBatch
<1>2. end.n \in Nat /\ h \in Nat
  <2>1. me.batch \in SUBSET (Seqs \X Row) /\ me.last \in 0 .. MaxEntries /\ me.prev \in Hashes
    BY <1>0 DEF JobState
  <2>2. HomeOf[k] \in Instances
    BY ActorsOK
  <2> QED BY <2>1, <2>2, EndType, BoundsOK DEF StateOK
<1>3. ASSUME NEW w \in ws
      PROVE  \/ me.found # {} \/ news # {} \/ w[1] = "range"
             \/ Ahead(w, end.n, end.hash) /\ (more \/ w[2] <= h)
  <2>1. Caught(w, me, h, list)
    BY <1>0 DEF ScanOK, Verifying
  <2> QED BY <1>0, <2>1 DEF Caught
<1> HIDE DEF me, end, more, news, h
<1>4. /\ job'[k].pc = (IF more THEN "scan" ELSE "latest") /\ job'[k].last = end.n
      /\ job'[k].prev = end.hash /\ job'[k].found = me.found \cup news \cup cut
  <2> HIDE DEF cut
  <2>1. job'[k] = [me EXCEPT !.pc = IF more THEN "scan" ELSE "latest", !.last = end.n,
                             !.prev = end.hash, !.batch = {}, !.found = @ \cup news \cup cut]
    BY <1>0, <1>1
  <2> QED BY <1>0, <2>1 DEF JobState
<1>5. ASSUME NEW w \in ws PROVE Caught(w, job'[k], h, list)
  <2>1. CASE me.found # {} \/ news # {}
    BY <1>4, <2>1 DEF Caught
  <2>2. CASE w[1] = "range"
    BY <1>4, <2>2 DEF Caught
  <2>3. CASE Ahead(w, end.n, end.hash) /\ more /\ w[1] # "range"
    BY <1>4, <2>3 DEF Caught
  <2>4. CASE Ahead(w, end.n, end.hash) /\ ~more /\ w[2] <= h
    <3>1. w[2] \in Nat
      OBVIOUS
    <3>2. end.n < h
      BY <1>2, <2>4, <3>1 DEF Ahead
    <3>3. cut # {}
      BY <2>4, <3>2
    <3> QED BY <1>4, <3>3 DEF Caught
  <2> QED BY <1>3, <2>1, <2>2, <2>3, <2>4
<1>6. job'[k].pc \notin Anchoring
  BY <1>4 DEF Anchoring, Ranging, InFlight
<1> QED BY <1>5, <1>6 DEF ScanOK, h

\* The latest anchors that a read sees all end where an untrue one does.
LEMMA LatestAlike ==
  ASSUME NEW list \in Seq(Anchor), NEW a \in Latest(list), NEW b \in Latest(list)
  PROVE  list[a].to = list[b].to
<1>1. list[a] \in Anchor /\ list[b] \in Anchor
  BY DEF Latest, Anchored
<1>2. list[a].to \in Nat /\ list[b].to \in Nat
  BY <1>1 DEF Anchor, Seqs
<1>3. list[a].to <= list[b].to /\ list[b].to <= list[a].to
  BY DEF Latest
<1> QED BY <1>2, <1>3

LEMMA RangeIsSeen ==
  ASSUME StateOK, CopyInv, NEW k \in Jobs, NEW s \in Sources(k), NEW n \in Untrue(s)
  PROVE  /\ Latest(s.anchors) # {}
         /\ \A a \in Latest(s.anchors) : /\ s.anchors[a].to = n
                                         /\ a \in DOMAIN anchors /\ anchors[a].to = n
<1>1. s.anchors \in Seq(Anchor)
  BY SourceType
<1>2. PICK b \in Latest(s.anchors) : n = s.anchors[b].to
  BY DEF Untrue
<1>3. ASSUME NEW a \in Latest(s.anchors)
      PROVE  s.anchors[a].to = n /\ a \in DOMAIN anchors /\ anchors[a].to = n
  <2>1. s.anchors[a].to = n /\ a \in DOMAIN s.anchors
    BY <1>1, <1>2, LatestAlike DEF Latest, Anchored
  <2>2. s.anchors = anchors \/ s.anchors = replica.anchors
    BY DEF Sources
  <2> QED BY <2>1, <2>2 DEF CopyInv
<1> QED BY <1>2, <1>3

LEMMA VerdictOK ==
  ASSUME StateOK, CopyInv, NEW k \in Jobs, ReadLatestAnchor(k) \/ CheckAnchor(k),
         wrong[k] \subseteq WrongFor(k), ScanOK(job[k], wrong[k], highest[HomeOf[k]], anchors)
  PROVE  /\ ScanOK(job'[k], wrong[k], highest[HomeOf[k]], anchors)
         /\ \A r \in reports' \ reports : ~ r.clean => r.found # {}
<1> DEFINE h == highest[HomeOf[k]]
           Fine == /\ ScanOK(job'[k], wrong[k], h, anchors)
                   /\ \A r \in reports' \ reports : ~ r.clean => r.found # {}
<1>0. job[k] \in JobState /\ job[k].pc \in {"latest", "hashes"}
  BY DEF StateOK, ReadLatestAnchor, CheckAnchor
<1>1. \A w \in wrong[k] : Caught(w, job[k], h, anchors)
  BY <1>0 DEF ScanOK, Verifying
<1>2. ASSUME NEW w \in wrong[k], job[k].found = {}
      PROVE  /\ \A s \in Sources(k) : \E n \in Untrue(s) : w = <<"range", n, Genesis>>
             /\ job[k].pc = "hashes" => job[k].anchor \in DOMAIN anchors /\ anchors[job[k].anchor].to = w[2]
  <2>1. Caught(w, job[k], h, anchors)
    BY <1>1
  <2>2. w[1] = "range"
    BY <1>0, <1>2, <2>1 DEF Caught
  <2>3. job[k].pc = "hashes" => job[k].anchor \in DOMAIN anchors /\ anchors[job[k].anchor].to = w[2]
    BY <1>2, <2>1, <2>2 DEF Caught
  <2>4. ASSUME NEW s \in Sources(k) PROVE \E n \in Untrue(s) : w = <<"range", n, Genesis>>
    <3>1. w \in Wrong(HomeOf[k], s)
      BY WrongSeen
    <3> QED BY <2>2, <3>1, WrongIs
  <2> QED BY <2>3, <2>4
<1>3. ASSUME NEW found, Conclude(k, found), found = {} => wrong[k] = {}
      PROVE  Fine
  <2>1. PICK c \in BOOLEAN :
            /\ wrong[k] = {} => c
            /\ reports' = reports \cup {[found |-> found, clean |-> c]}
            /\ \/ job'[k] = NoJob
               \/ k \in Anchorers /\ found = {} /\ job'[k] = [NoJob EXCEPT !.pc = "head", !.clean = c]
    BY <1>3, Concluded
  <2>2. c \/ found # {}
    BY <1>3, <2>1
  <2>3. CASE job'[k] = NoJob
    BY <2>1, <2>2, <2>3, IdleIsOK
  <2>4. CASE found = {} /\ job'[k] = [NoJob EXCEPT !.pc = "head", !.clean = c]
    <3>1. job'[k].pc = "head" /\ job'[k].clean
      BY <2>2, <2>4 DEF NoJob
    <3> QED BY <2>1, <2>2, <3>1 DEF ScanOK, Verifying
  <2> QED BY <2>1, <2>3, <2>4
<1>4. CASE ReadLatestAnchor(k)
  <2>1. PICK s \in Sources(k) :
        \/ Latest(s.anchors) = {} /\ Conclude(k, job[k].found)
        \/ \E a \in Latest(s.anchors) :
              \/ Conclude(k, job[k].found \cup {"TRUNCATED"})
              \/ job' = [job EXCEPT ![k].pc = "hashes", ![k].anchor = a] /\ reports' = reports
    BY <1>4, Zenon DEF ReadLatestAnchor
  <2>2. CASE Latest(s.anchors) = {} /\ Conclude(k, job[k].found)
    <3>1. job[k].found = {} => wrong[k] = {}
      BY <1>2, <2>2, RangeIsSeen
    <3> QED BY <1>3, <2>2, <3>1
  <2>3. CASE Conclude(k, job[k].found \cup {"TRUNCATED"})
    <3>1. job[k].found \cup {"TRUNCATED"} # {}
      OBVIOUS
    <3> QED BY <1>3, <2>3, <3>1
  <2>4. ASSUME NEW a \in Latest(s.anchors), reports' = reports,
               job' = [job EXCEPT ![k].pc = "hashes", ![k].anchor = a]
        PROVE  Fine
    <3>1. job'[k] = [job[k] EXCEPT !.pc = "hashes", !.anchor = a]
      BY <2>4 DEF StateOK
    <3>2. job'[k].pc = "hashes" /\ job'[k].anchor = a /\ job'[k].found = job[k].found
      BY <1>0, <3>1 DEF JobState
    <3>3. ASSUME NEW w \in wrong[k] PROVE Caught(w, job'[k], h, anchors)
      <4>1. CASE job[k].found # {}
        BY <3>2, <4>1 DEF Caught
      <4>2. CASE job[k].found = {}
        <5>1. PICK n \in Untrue(s) : w = <<"range", n, Genesis>>
          BY <1>2, <4>2
        <5>2. a \in DOMAIN anchors /\ anchors[a].to = n
          BY RangeIsSeen
        <5>3. w[1] = "range" /\ w[2] = n
          BY <5>1
        <5> QED BY <3>2, <5>2, <5>3 DEF Caught
      <4> QED BY <4>1, <4>2
    <3> QED BY <2>4, <3>2, <3>3 DEF ScanOK, Anchoring, Ranging, InFlight
  <2> QED BY <2>1, <2>2, <2>3, <2>4
<1>5. CASE CheckAnchor(k)
  <2>0. job[k].pc = "hashes"
    BY <1>5 DEF CheckAnchor
  <2> DEFINE a == anchors[job[k].anchor]
  <2>1. PICK s \in Sources(k) :
            \/ RangeHashes(s.rows, a.from, a.to) = a.root /\ Conclude(k, job[k].found)
            \/ Conclude(k, job[k].found \cup {"ANCHOR_MISMATCH"})
    BY <1>5, AnchorVerdict, Zenon
  <2>2. CASE RangeHashes(s.rows, a.from, a.to) = a.root /\ Conclude(k, job[k].found)
    <3>1. ASSUME NEW w \in wrong[k], job[k].found = {} PROVE FALSE
      <4>1. PICK n \in Untrue(s) : w = <<"range", n, Genesis>>
        BY <1>2, <3>1
      <4>2. job[k].anchor \in DOMAIN anchors /\ a.to = n
        BY <1>2, <2>0, <3>1, <4>1
      <4>3. RangeHashes(s.rows, a.from, n) # a.root
        BY <4>2 DEF Untrue
      <4> QED BY <2>2, <4>2, <4>3
    <3>2. job[k].found = {} => wrong[k] = {}
      BY <3>1
    <3> QED BY <1>3, <2>2, <3>2
  <2>3. CASE Conclude(k, job[k].found \cup {"ANCHOR_MISMATCH"})
    <3>1. job[k].found \cup {"ANCHOR_MISMATCH"} # {}
      OBVIOUS
    <3> QED BY <1>3, <2>3, <3>1
  <2> QED BY <2>1, <2>2, <2>3
<1> QED BY <1>4, <1>5

\* The anchor job carries on what its verification concluded.
LEMMA AnchorsOn ==
  ASSUME StateOK, NEW k \in Jobs,
         \/ ReadHead(k) \/ ReadPrevious(k) \/ ReadRange(k) \/ CreateAnchor(k) \/ Submit(k)
         \/ UpdateAnchor(k) \/ QueryFails(k)
  PROVE  /\ reports' = reports
         /\ \/ job'[k] = NoJob
            \/ /\ job[k].pc \in Anchoring /\ job'[k].pc \in Anchoring
               /\ job'[k].clean = job[k].clean /\ job'[k].found = job[k].found
<1>0. job \in [Jobs -> JobState] /\ job[k] \in JobState
  BY DEF StateOK
<1>1. CASE ReadHead(k) \/ ReadRange(k) \/ CreateAnchor(k) \/ Submit(k)
  <2>1. job'[k].pc \in Anchoring /\ job'[k].clean = job[k].clean /\ job'[k].found = job[k].found
    <3>1. CASE ReadHead(k)
      <4>1. PICK to : to = Top(rows)
        OBVIOUS
      <4>2. job' = [job EXCEPT ![k].pc = "previous", ![k].to = to]
        BY <3>1, <4>1 DEF ReadHead
      <4>3. job'[k] = [job[k] EXCEPT !.pc = "previous", !.to = to]
        BY <1>0, <4>2
      <4> QED BY <1>0, <4>3 DEF JobState, Anchoring
    <3>2. CASE ReadRange(k)
      <4>1. PICK root : root = RangeHashes(rows, job[k].from, job[k].to)
        OBVIOUS
      <4>2. job' = [job EXCEPT ![k].pc = "create", ![k].root = root]
        BY <3>2, <4>1 DEF ReadRange
      <4>3. job'[k] = [job[k] EXCEPT !.pc = "create", !.root = root]
        BY <1>0, <4>2
      <4> QED BY <1>0, <4>3 DEF JobState, Anchoring, Ranging
    <3>3. CASE CreateAnchor(k)
      <4>1. PICK anchor : anchor = Len(anchors) + 1
        OBVIOUS
      <4>2. job' = [job EXCEPT ![k].pc = "submit", ![k].anchor = anchor]
        BY <3>3, <4>1 DEF CreateAnchor
      <4>3. job'[k] = [job[k] EXCEPT !.pc = "submit", !.anchor = anchor]
        BY <1>0, <4>2
      <4> QED BY <1>0, <4>3 DEF JobState, Anchoring, InFlight
    <3>4. CASE Submit(k)
      <4>1. PICK pc \in {"anchored", "failed"} : job' = [job EXCEPT ![k].pc = pc]
        BY <3>4 DEF Submit
      <4>2. job'[k] = [job[k] EXCEPT !.pc = pc]
        BY <1>0, <4>1
      <4> QED BY <1>0, <4>2 DEF JobState, Anchoring, InFlight
    <3> QED BY <1>1, <3>1, <3>2, <3>3, <3>4
  <2>2. reports' = reports /\ job[k].pc \in Anchoring
    BY <1>1 DEF ReadHead, ReadRange, CreateAnchor, Submit, Anchoring, Ranging, InFlight
  <2> QED BY <2>1, <2>2
<1>2. CASE ReadPrevious(k)
  BY <1>0, <1>2 DEF ReadPrevious, Anchoring, Ranging, JobState
<1>3. CASE UpdateAnchor(k)
  BY <1>0, <1>3 DEF UpdateAnchor
<1>4. CASE QueryFails(k)
  <2>1. CASE QueryRefused(k)
    BY <1>0, <2>1 DEF QueryRefused, Anchoring, InFlight, JobState
  <2>2. CASE CreatedUnseen(k)
    BY <1>0, <2>2 DEF CreatedUnseen
  <2>3. CASE AnchoredUnseen(k)
    BY <1>0, <2>3 DEF AnchoredUnseen, Anchoring, InFlight, JobState
  <2> QED BY <1>4, <2>1, <2>2, <2>3 DEF QueryFails
<1> QED BY <1>1, <1>2, <1>3, <1>4

\* Anchors keep their range, and an instance what it has appended, while its
\* verifications run.
LEMMA AnchorsGrow ==
  ASSUME TypeInv, AnchorInv, [Next]_vars
  PROVE  \A a \in DOMAIN anchors : a \in DOMAIN anchors' /\ anchors'[a].to = anchors[a].to
<1>1. ASSUME NEW j \in Jobs, Creates(j), NEW a \in DOMAIN anchors
      PROVE  a \in DOMAIN anchors' /\ anchors'[a].to = anchors[a].to
  <2>1. Len(anchors) \in Nat /\ DOMAIN anchors = 1 .. Len(anchors)
    BY DEF TypeInv, StateOK
  <2> QED BY <1>1, <2>1, CreateEffect
<1>2. ASSUME NEW j \in Jobs, Marks(j), NEW a \in DOMAIN anchors
      PROVE  a \in DOMAIN anchors' /\ anchors'[a].to = anchors[a].to
  BY <1>2, UpdateEffect
<1> QED BY <1>1, <1>2, AnchorsStep

LEMMA HighestGrows ==
  ASSUME StateOK, [Next]_vars, NEW k \in Jobs
  PROVE  job'[k] = NoJob \/ highest[HomeOf[k]] <= highest'[HomeOf[k]]
<1>0. /\ highest \in [Instances -> 0 .. MaxEntries] /\ HomeOf[k] \in Instances
      /\ highest[HomeOf[k]] \in Nat
  BY ActorsOK, BoundsOK DEF StateOK
<1>1. CASE highest' = highest
  BY <1>0, <1>1
<1>2. ASSUME NEW r \in Recorders, RecorderStep(r) PROVE highest[HomeOf[k]] <= highest'[HomeOf[k]]
  <2>1. CASE AppendReturns(r)
    <3>1. rec[r].n \in Nat
      BY BoundsOK DEF StateOK, Entry
    <3> QED BY <1>0, <2>1, <3>1 DEF AppendReturns
  <2>2. CASE ~ AppendReturns(r)
    <3>1. highest' = highest
      BY <1>2, <2>2 DEF RecorderStep, BeginAppend, CommitAppend, AppendFails
    <3> QED BY <1>0, <3>1
  <2> QED BY <2>1, <2>2
<1>3. ASSUME NEW j \in Jobs, JobStep(j) \/ QueryFails(j) PROVE highest' = highest
  BY <1>3 DEF JobStep, QueryFails, QueryRefused, CreatedUnseen, AnchoredUnseen, BeginVerify, ReadBatch,
              CheckBatch, ReadLatestAnchor, CheckAnchor, ReadHead, ReadPrevious, ReadRange,
              CreateAnchor, Submit, UpdateAnchor
<1>4. Damage \/ Replicate \/ UNCHANGED vars => highest' = highest
  BY DEF Damage, Replicate, vars
<1>5. ASSUME NEW i \in Instances, Crash(i)
      PROVE  job'[k] = NoJob \/ highest[HomeOf[k]] <= highest'[HomeOf[k]]
  <2>1. CASE HomeOf[k] = i
    BY <1>5, <2>1 DEF Crash
  <2>2. CASE HomeOf[k] # i
    BY <1>0, <1>5, <2>2 DEF Crash
  <2> QED BY <2>1, <2>2
<1> QED BY <1>1, <1>2, <1>3, <1>4, <1>5 DEF Next

LEMMA CopyStep ==
  ASSUME TypeInv, AnchorInv, CopyInv, [Next]_vars
  PROVE  CopyInv'
<1>1. CASE replica' = replica
  BY <1>1, AnchorsGrow DEF CopyInv
<1>2. CASE Replicate
  BY <1>2 DEF Replicate, tables, CopyInv
<1>3. ASSUME NEW r \in Recorders, RecorderStep(r) PROVE replica' = replica
  BY <1>3 DEF RecorderStep, BeginAppend, CommitAppend, AppendReturns, AppendFails
<1>4. ASSUME NEW j \in Jobs, JobStep(j) \/ QueryFails(j) PROVE replica' = replica
  BY <1>4 DEF JobStep, QueryFails, QueryRefused, CreatedUnseen, AnchoredUnseen, BeginVerify, ReadBatch,
              CheckBatch, ReadLatestAnchor, CheckAnchor, ReadHead, ReadPrevious, ReadRange,
              CreateAnchor, Submit, UpdateAnchor
<1>5. CASE Damage \/ (\E i \in Instances : Crash(i)) \/ UNCHANGED vars
  BY <1>1, <1>5 DEF Damage, Crash, vars
<1> QED BY <1>1, <1>2, <1>3, <1>4, <1>5 DEF Next

\* A job's own steps leave what its verification compares alone.
LEMMA VerifyReadsOnly ==
  ASSUME NEW k \in Jobs,
         BeginVerify(k) \/ ReadBatch(k) \/ CheckBatch(k) \/ ReadLatestAnchor(k) \/ CheckAnchor(k)
  PROVE  UNCHANGED <<rows, anchors, replica, highest>>
BY DEF BeginVerify, ReadBatch, CheckBatch, ReadLatestAnchor, CheckAnchor, tables

LEMMA ScanStep ==
  ASSUME TypeInv, TypeOK, AnchorInv, ScanInv, [Next]_vars
  PROVE  ScanInv'
<1>1. CopyInv'
  BY CopyStep DEF ScanInv
<1> SUFFICES ASSUME NEW k \in Jobs
             PROVE  /\ wrong'[k] \subseteq WrongFor(k)'
                    /\ ScanOK(job'[k], wrong'[k], highest'[HomeOf[k]], anchors')
  BY <1>1 DEF ScanInv
<1> DEFINE h == highest[HomeOf[k]]
<1>2. /\ StateOK /\ CopyInv /\ wrong[k] \subseteq WrongFor(k) /\ ScanOK(job[k], wrong[k], h, anchors)
      /\ \A w \in wrong[k] : w[2] \in Nat
  BY DEF ScanInv, TypeInv, TypeOK, Seqs
<1>3. wrong'[k] \subseteq WrongFor(k)' /\ (job[k].pc # "idle" => wrong'[k] \subseteq wrong[k])
  BY <1>2, WatchSays
<1>4. h \in Nat /\ highest'[HomeOf[k]] \in Nat
  <2>1. HomeOf[k] \in Instances /\ TypeInv'
    BY ActorsOK, TypeStep
  <2> QED BY <2>1, BoundsOK DEF TypeInv, StateOK
<1>5. CASE job'[k] = NoJob
  BY <1>3, <1>5, IdleIsOK
<1>6. ASSUME ScanOK(job'[k], wrong[k], h, anchors), job[k].pc # "idle"
      PROVE  ScanOK(job'[k], wrong'[k], highest'[HomeOf[k]], anchors')
  <2>1. CASE h <= highest'[HomeOf[k]]
    BY <1>2, <1>3, <1>4, <1>6, <2>1, AnchorsGrow, ScanStays
  <2> QED BY <1>2, <1>5, <2>1, HighestGrows
<1>7. CASE job'[k] = job[k]
  <2>1. CASE job[k].pc # "idle"
    BY <1>2, <1>3, <1>6, <1>7, <2>1
  <2>2. CASE job[k].pc = "idle"
    BY <1>3, <1>7, <2>2 DEF ScanOK, Verifying, Anchoring, Ranging, InFlight
  <2> QED BY <2>1, <2>2
<1>8. CASE BeginVerify(k)
  <2>1. UNCHANGED <<rows, anchors, replica, highest>>
    BY <1>8, VerifyReadsOnly
  <2>2. wrong'[k] \in SUBSET WrongFor(k)
    BY <1>3, <2>1, WrongSame
  <2> QED BY <1>2, <1>3, <1>8, <2>2, StartsOK
<1>9. CASE ReadBatch(k) \/ CheckBatch(k) \/ ReadLatestAnchor(k) \/ CheckAnchor(k)
  <2>1. job[k].pc # "idle"
    BY <1>9 DEF ReadBatch, CheckBatch, ReadLatestAnchor, CheckAnchor
  <2>2. ScanOK(job'[k], wrong[k], h, anchors)
    BY <1>2, <1>9, ReadsOK, ChecksOK, VerdictOK
  <2> QED BY <1>3, <1>6, <2>1, <2>2
<1>10. CASE \/ ReadHead(k) \/ ReadPrevious(k) \/ ReadRange(k) \/ CreateAnchor(k) \/ Submit(k)
            \/ UpdateAnchor(k) \/ QueryFails(k)
  <2>1. CASE job[k].pc \in Anchoring /\ job'[k].pc \in Anchoring /\ job'[k].clean = job[k].clean
    BY <1>2, <1>3, <2>1 DEF ScanOK, Anchoring, Verifying, Ranging, InFlight
  <2> QED BY <1>2, <1>5, <1>10, <2>1, AnchorsOn
<1> QED BY <1>2, <1>5, <1>7, <1>8, <1>9, <1>10, JobSteps DEF JobStep

\* Reports are added by the ends of verifications only.
LEMMA ReportSteps ==
  ASSUME [Next]_vars
  PROVE  reports' = reports \/ \E k \in Jobs : ReadLatestAnchor(k) \/ CheckAnchor(k)
<1>1. ASSUME NEW r \in Recorders, RecorderStep(r) PROVE reports' = reports
  BY <1>1 DEF RecorderStep, BeginAppend, CommitAppend, AppendReturns, AppendFails
<1>2. Replicate \/ Damage \/ UNCHANGED vars \/ (\E i \in Instances : Crash(i)) => reports' = reports
  BY DEF Replicate, Damage, Crash, vars
<1>3. ASSUME NEW k \in Jobs, QueryFails(k) \/ (JobStep(k) /\ ~ ReadLatestAnchor(k) /\ ~ CheckAnchor(k))
      PROVE  reports' = reports
  BY <1>3 DEF JobStep, QueryFails, QueryRefused, CreatedUnseen, AnchoredUnseen, BeginVerify, ReadBatch,
              CheckBatch, ReadHead, ReadPrevious, ReadRange, CreateAnchor, Submit, UpdateAnchor
<1> QED BY <1>1, <1>2, <1>3 DEF Next

LEMMA ScanTheorem == Spec => [](TypeInv /\ ScanInv)
<1> DEFINE Inv == TypeInv /\ TypeOK /\ AnchorInv /\ ScanInv
<1>1. Init => Inv
  <2> SUFFICES ASSUME Init PROVE Inv
    OBVIOUS
  <2>1. TypeInv /\ TypeOK
    BY TypeInit DEF Init, TypeInv, TypeOK
  <2>2. AnchorInv
    BY DEF Init, AnchorInv, OwnOK, RevokedOK, NoJob, Ranging, InFlight
  <2>3. ScanInv
    BY IdleIsOK DEF Init, ScanInv, CopyInv
  <2> QED BY <2>1, <2>2, <2>3
<1>2. Spec => []TypeOK
  BY TypeTheorem
<1>3. ASSUME Inv, TypeOK', [Next]_vars PROVE Inv'
  BY <1>3, TypeStep, AnchorStep, ScanStep
<1>4. Inv => TypeInv /\ ScanInv
  OBVIOUS
<1> HIDE DEF Inv
<1> QED BY <1>1, <1>2, <1>3, <1>4, PTL DEF Spec

\* Whatever is done to the tables, and however often: the anchor job goes on to
\* anchor only if nothing was wrong all through its verification
\* (runAnchorMerkleRootJob: "refusing to anchor a chain that already fails
\* verification").
THEOREM TamperedNotAnchoredTheorem == Spec => []TamperedNotAnchored
<1>1. ScanInv => TamperedNotAnchored
  BY DEF ScanInv, ScanOK, TamperedNotAnchored, Anchoring, Jobs
<1> QED BY <1>1, ScanTheorem, PTL

\* Every verification, a request's that reads from the replica included, reports
\* something if anything was wrong all through it, whatever was appended, anchored,
\* changed and cut between its reads (verifyChain).
THEOREM DamageIsFoundTheorem == Spec => []DamageIsFound
<1>1. Init => DamageIsFound
  BY DEF Init, DamageIsFound
<1>2. ASSUME TypeInv, ScanInv, DamageIsFound, [Next]_vars
      PROVE  DamageIsFound'
  <2>1. CASE reports' = reports
    BY <1>2, <2>1 DEF DamageIsFound
  <2>2. ASSUME NEW k \in Jobs, ReadLatestAnchor(k) \/ CheckAnchor(k)
        PROVE  DamageIsFound'
    <3>1. /\ StateOK /\ CopyInv /\ wrong[k] \subseteq WrongFor(k)
          /\ ScanOK(job[k], wrong[k], highest[HomeOf[k]], anchors)
      BY <1>2 DEF TypeInv, ScanInv
    <3>2. \A r \in reports' \ reports : ~ r.clean => r.found # {}
      BY <2>2, <3>1, VerdictOK
    <3> QED BY <1>2, <3>2 DEF DamageIsFound
  <2> QED BY <1>2, <2>1, <2>2, ReportSteps
<1> QED BY <1>1, <1>2, ScanTheorem, PTL DEF Spec

-----------------------------------------------------------------------------
(* Growth is not taken for a change.                                       *)

RowsFrom(table, last, m) == {<<n, table[n]>> : n \in last + 1 .. m}

\* What a scan of rows that are in order has read, and where it is.
HonestOK(table, list, v) ==
    /\ v.found \subseteq {"TRUNCATED"}
    /\ v.pc \in Verifying => v.last <= Top(table) /\ v.prev = HashAt(table, v.last)
    /\ v.pc = "batch" => \E m \in v.last .. Top(table) : v.batch = RowsFrom(table, v.last, m)
    /\ v.pc = "hashes" => v.anchor \in DOMAIN list

HonestInv ==
    Bad(rows) = {} =>
        /\ \A j \in Jobs \ Requests : HonestOK(rows, anchors, job[j])
        /\ NoFalseMismatch

LEMMA HonestStays ==
  ASSUME NEW table, NEW new, NEW list, NEW more, NEW v, v.last \in Nat,
         Top(table) <= Top(new), \A n \in 1 .. Top(table) : new[n] = table[n],
         DOMAIN list \subseteq DOMAIN more, HonestOK(table, list, v)
  PROVE  HonestOK(new, more, v)
<1>0. Top(table) \in Nat /\ Top(new) \in Nat
  BY TopIsGreatest, BoundsOK
<1>1. ASSUME v.pc \in Verifying
      PROVE  v.last <= Top(new) /\ v.prev = HashAt(new, v.last)
  <2>1. v.last <= Top(table) /\ v.prev = HashAt(table, v.last)
    BY <1>1 DEF HonestOK
  <2> QED BY <1>0, <2>1 DEF HashAt
<1>2. ASSUME v.pc = "batch"
      PROVE  \E m \in v.last .. Top(new) : v.batch = RowsFrom(new, v.last, m)
  <2>1. PICK m \in v.last .. Top(table) : v.batch = RowsFrom(table, v.last, m)
    BY <1>2 DEF HonestOK
  <2>2. \A n \in v.last + 1 .. m : new[n] = table[n]
    BY <1>0
  <2>3. RowsFrom(new, v.last, m) = RowsFrom(table, v.last, m)
    BY <2>2 DEF RowsFrom
  <2> QED BY <1>0, <2>1, <2>3
<1> QED BY <1>1, <1>2 DEF HonestOK

LEMMA HonestIdle == \A table, list : HonestOK(table, list, NoJob)
BY DEF HonestOK, NoJob, Verifying

\* The first numbers of an interval are an interval.
LEMMA FirstOfInterval ==
  ASSUME NEW lo \in Nat, NEW hi \in Nat, lo <= hi, NEW k \in Nat
  PROVE  \E m \in lo .. hi : FirstOf({n \in 1 .. hi : n > lo}, k) = lo + 1 .. m
<1> DEFINE S == {n \in 1 .. hi : n > lo}
           F == FirstOf(S, k)
<1>1. S \in SUBSET (0 .. hi) /\ F \in SUBSET S /\ S = lo + 1 .. hi
  BY DEF FirstOf
<1>2. \A x \in F : \A y \in S : y < x => y \in F
  BY <1>1, FirstAreFirst
<1> SUFFICES \E m \in lo .. hi : F = lo + 1 .. m
  OBVIOUS
<1> HIDE DEF S, F
<1>3. CASE F = {}
  <2>1. F = lo + 1 .. lo
    BY <1>3
  <2> QED BY <2>1
<1>4. CASE F # {}
  <2>1. F \in SUBSET (0 .. hi)
    BY <1>1
  <2>2. PICK m \in F : \A n \in F : n <= m
    BY <1>4, <2>1, GreatestOf
  <2>3. m \in lo + 1 .. hi
    BY <1>1
  <2>4. \A n \in lo + 1 .. m : n \in F
    BY <1>1, <1>2, <2>3
  <2>5. \A n \in F : n \in lo + 1 .. m
    BY <1>1, <2>2, <2>3
  <2>6. F = lo + 1 .. m
    BY <2>4, <2>5
  <2> QED BY <2>3, <2>6
<1> QED BY <1>3, <1>4

\* A batch of rows that are in order shows nothing, and ends at its last row.
LEMMA CleanBatch ==
  ASSUME Intact(rows), NEW last \in Nat, NEW m \in Nat, last <= m, m <= Top(rows),
         NEW prev, prev = HashAt(rows, last)
  PROVE  /\ Findings(RowsFrom(rows, last, m), last, prev) = {}
         /\ EndOf(RowsFrom(rows, last, m), last, prev).n = m
         /\ EndOf(RowsFrom(rows, last, m), last, prev).hash = HashAt(rows, m)
<1> DEFINE batch == RowsFrom(rows, last, m)
<1>0. Top(rows) \in Nat /\ Stored(rows) = 1 .. Top(rows)
  BY IntactIsWhole, TopIsGreatest, BoundsOK
<1>1. /\ \A n \in last + 1 .. m : <<n, rows[n]>> \in batch
      /\ \A b \in batch : b[1] \in last + 1 .. m /\ b[2] = rows[b[1]] /\ b = <<b[1], rows[b[1]]>>
  BY DEF RowsFrom
<1>2. \A n \in last + 1 .. m : /\ rows[n].prev = HashAt(rows, n - 1)
                               /\ rows[n].hash = Hash(rows[n].prev, n, rows[n].event)
  <2> SUFFICES ASSUME NEW n \in last + 1 .. m
               PROVE  /\ rows[n].prev = HashAt(rows, n - 1)
                      /\ rows[n].hash = Hash(rows[n].prev, n, rows[n].event)
    OBVIOUS
  <2>1. n \in Stored(rows) /\ n \in Nat /\ n >= 1
    BY <1>0
  <2>2. /\ rows[n].prev = IF n = 1 THEN Genesis ELSE rows[n - 1].hash
        /\ rows[n].hash = Hash(rows[n].prev, n, rows[n].event)
    BY <2>1 DEF Intact
  <2> QED BY <2>1, <2>2 DEF HashAt
<1> HIDE DEF batch
<1>3. ~ Mismatch(batch)
  BY <1>1, <1>2 DEF Mismatch
<1>4. ~ Gap(batch, last)
  <2> SUFFICES ASSUME NEW b \in batch PROVE b[1] - 1 \in {c[1] : c \in batch} \cup {last}
    BY DEF Gap
  <2>1. b[1] \in last + 1 .. m
    BY <1>1
  <2>2. CASE b[1] = last + 1
    BY <2>1, <2>2
  <2>3. CASE b[1] # last + 1
    <3>1. b[1] - 1 \in last + 1 .. m
      BY <2>1, <2>3
    <3>2. <<b[1] - 1, rows[b[1] - 1]>> \in batch
      BY <1>1, <3>1
    <3> QED BY <3>2
  <2> QED BY <2>2, <2>3
<1>5. ASSUME NEW n \in last + 1 .. m
      PROVE  LinkTo(batch, prev, n) = HashAt(rows, n - 1)
  <2> DEFINE before == {b \in batch : b[1] < n}
             nearest == {b \in before : \A c \in before : c[1] <= b[1]}
  <2>1. CASE n = last + 1
    <3>1. before = {}
      BY <1>1, <2>1
    <3>2. LinkTo(batch, prev, n) = prev
      BY <3>1, Zenon DEF LinkTo
    <3> QED BY <2>1, <3>2
  <2>2. CASE n # last + 1
    <3> DEFINE d == <<n - 1, rows[n - 1]>>
    <3>1. n - 1 \in last + 1 .. m
      BY <2>2
    <3>2. d \in before
      BY <1>1, <3>1
    <3>3. \A b \in before : b[1] <= n - 1 /\ b[1] \in Nat /\ b = <<b[1], rows[b[1]]>>
      BY <1>1
    <3>4. d \in nearest
      BY <3>2, <3>3
    <3>5. \A b \in nearest : b = d
      <4> SUFFICES ASSUME NEW b \in nearest PROVE b = d
        OBVIOUS
      <4>1. n - 1 <= b[1] /\ b \in before
        BY <3>2
      <4>2. b[1] = n - 1
        BY <3>1, <3>3, <4>1
      <4> QED BY <3>3, <4>1, <4>2
    <3> HIDE DEF d, before, nearest
    <3>6. (CHOOSE b \in nearest : TRUE) = d
      BY <3>4, <3>5
    <3>7. LinkTo(batch, prev, n) = d[2].hash
      BY <3>2, <3>6, Zenon DEF LinkTo, before, nearest
    <3> QED BY <3>1, <3>7 DEF d, HashAt
  <2> QED BY <2>1, <2>2
<1>6. ~ Break(batch, prev)
  BY <1>1, <1>2, <1>5 DEF Break
<1>7. Findings(batch, last, prev) = {}
  BY <1>3, <1>4, <1>6 DEF Findings
<1>8. EndOf(batch, last, prev).n = m /\ EndOf(batch, last, prev).hash = HashAt(rows, m)
  <2>1. CASE m = last
    <3>1. batch = {}
      BY <1>1, <2>1
    <3> QED BY <2>1, <3>1 DEF EndOf
  <2>2. CASE m # last
    <3> DEFINE b == CHOOSE c \in batch : \A e \in batch : e[1] <= c[1]
               d == <<m, rows[m]>>
    <3>1. m \in last + 1 .. m
      BY <2>2
    <3>2. d \in batch /\ \A e \in batch : e[1] <= m
      BY <1>1, <3>1
    <3>3. b \in batch /\ \A e \in batch : e[1] <= b[1]
      <4>1. \E c \in batch : \A e \in batch : e[1] <= c[1]
        BY <3>2
      <4> QED BY <4>1, Zenon
    <3> HIDE DEF b
    <3>4. b[1] \in last + 1 .. m /\ m <= b[1] /\ b[1] <= m
      BY <1>1, <3>2, <3>3
    <3>5. b[1] = m /\ b[2] = rows[m]
      BY <1>1, <3>3, <3>4
    <3>6. EndOf(batch, last, prev) = [n |-> b[1], hash |-> b[2].hash]
      BY <3>2, Zenon DEF EndOf, b
    <3> QED BY <2>2, <3>1, <3>5, <3>6 DEF HashAt
  <2> QED BY <2>1, <2>2
<1> QED BY <1>7, <1>8 DEF batch

\* A step of the scan.
LEMMA HonestScan ==
  ASSUME StateOK, Intact(rows), NEW k \in Jobs \ Requests, HonestOK(rows, anchors, job[k]),
         BeginVerify(k) \/ ReadBatch(k) \/ CheckBatch(k)
  PROVE  HonestOK(rows, anchors, job'[k])
<1>0. job \in [Jobs -> JobState] /\ job[k] \in JobState
  BY DEF StateOK
<1>1. job[k].last \in Nat /\ job[k].last <= MaxEntries /\ Top(rows) \in Nat
  BY <1>0, BoundsOK, TopIsGreatest DEF JobState
<1>2. CASE BeginVerify(k)
  <2>2. job'[k] = [NoJob EXCEPT !.pc = "scan"]
    BY <1>0, <1>2 DEF BeginVerify
  <2>3. job'[k].pc = "scan" /\ job'[k].found = {} /\ job'[k].last = 0 /\ job'[k].prev = Genesis
    BY <2>2 DEF NoJob
  <2> QED BY <1>1, <2>3 DEF HonestOK, HashAt
<1>3. CASE ReadBatch(k)
  <2> DEFINE last == job[k].last
             F == FirstOf({n \in 1 .. Top(rows) : n > last}, BatchSize)
             batch == {<<n, rows[n]>> : n \in F}
  <2>0. job[k].pc = "scan" /\ last <= Top(rows) /\ job[k].prev = HashAt(rows, last)
    BY <1>3 DEF ReadBatch, HonestOK, Verifying
  <2>1. job' = [job EXCEPT ![k].pc = "batch", ![k].batch = batch]
    <3>1. PICK s \in Sources(k) :
            job' = [job EXCEPT ![k].pc = "batch",
                               ![k].batch = {<<n, s.rows[n]>> :
                                    n \in FirstOf({m \in Stored(s.rows) : m > last}, BatchSize)}]
      BY <1>3 DEF ReadBatch
    <3>2. s.rows = rows /\ Stored(rows) = 1 .. Top(rows)
      BY OwnSources, IntactIsWhole
    <3> HIDE DEF last
    <3> QED BY <3>1, <3>2
  <2>2. PICK m \in last .. Top(rows) : F = last + 1 .. m
    <3>1. last \in Nat /\ Top(rows) \in Nat /\ BatchSize \in Nat /\ last <= Top(rows)
      BY <1>1, <2>0, BoundsOK
    <3> HIDE DEF last
    <3> QED BY <3>1, FirstOfInterval, Zenon
  <2>3. batch = RowsFrom(rows, last, m)
    BY <2>2 DEF RowsFrom
  <2> HIDE DEF batch, F
  <2>4. job'[k] = [job[k] EXCEPT !.pc = "batch", !.batch = batch]
    BY <1>0, <2>1
  <2>5. /\ job'[k].pc = "batch" /\ job'[k].batch = batch /\ job'[k].last = last
        /\ job'[k].prev = job[k].prev /\ job'[k].found = job[k].found
    BY <1>0, <2>4 DEF JobState
  <2> QED BY <2>0, <2>2, <2>3, <2>5 DEF HonestOK
<1>4. CASE CheckBatch(k)
  <2> DEFINE me == job[k]
             end == EndOf(me.batch, me.last, me.prev)
             more == Cardinality(me.batch) = BatchSize
             news == Findings(me.batch, me.last, me.prev)
             cut == IF ~more /\ end.n < highest[HomeOf[k]] THEN {"TRUNCATED"} ELSE {}
  <2>0. me.pc = "batch" /\ me.last <= Top(rows) /\ me.prev = HashAt(rows, me.last)
        /\ me.found \subseteq {"TRUNCATED"}
    BY <1>4 DEF CheckBatch, HonestOK, Verifying
  <2>1. PICK m \in me.last .. Top(rows) : me.batch = RowsFrom(rows, me.last, m)
    BY <2>0 DEF HonestOK
  <2>2. news = {} /\ end.n = m /\ end.hash = HashAt(rows, m)
    <3>1. m \in Nat /\ me.last <= m /\ m <= Top(rows)
      BY <1>1, <2>1
    <3> QED BY <1>1, <2>0, <2>1, <3>1, CleanBatch
  <2>3. job' = [job EXCEPT ![k] = [me EXCEPT !.pc = IF more THEN "scan" ELSE "latest", !.last = end.n,
                                             !.prev = end.hash, !.batch = {}, !.found = @ \cup news \cup cut]]
    BY <1>4, Zenon DEF CheckBatch
  <2>4. cut \subseteq {"TRUNCATED"} /\ m <= Top(rows)
    BY <1>1, <2>1
  <2> HIDE DEF me, end, more, news, cut
  <2>5. /\ job'[k].pc \in {"scan", "latest"} /\ job'[k].last = end.n /\ job'[k].prev = end.hash
        /\ job'[k].found = me.found \cup news \cup cut
    <3>1. job'[k] = [me EXCEPT !.pc = IF more THEN "scan" ELSE "latest", !.last = end.n,
                               !.prev = end.hash, !.batch = {}, !.found = @ \cup news \cup cut]
      BY <1>0, <2>3
    <3>2. me \in JobState
      BY <1>0 DEF me
    <3> QED BY <3>1, <3>2 DEF JobState
  <2>6. me.found \cup news \cup cut \subseteq {"TRUNCATED"}
    BY <2>0, <2>2, <2>4
  <2> QED BY <2>2, <2>4, <2>5, <2>6 DEF HonestOK
<1> QED BY <1>2, <1>3, <1>4

\* The end of a verification.
LEMMA HonestVerdict ==
  ASSUME TableInv, Bad(rows) = {}, NEW k \in Jobs \ Requests, HonestOK(rows, anchors, job[k]),
         ReadLatestAnchor(k) \/ CheckAnchor(k)
  PROVE  /\ HonestOK(rows, anchors, job'[k])
         /\ \A r \in reports' \ reports : r.found \subseteq {"TRUNCATED"}
<1>0. StateOK /\ job[k] \in JobState /\ job[k].found \subseteq {"TRUNCATED"}
      /\ (job[k].pc \in Verifying => job[k].last <= Top(rows) /\ job[k].prev = HashAt(rows, job[k].last))
  BY DEF TableInv, TypeInv, StateOK, HonestOK
<1>1. ASSUME NEW found, found \subseteq {"TRUNCATED"}, Conclude(k, found)
      PROVE  /\ HonestOK(rows, anchors, job'[k])
             /\ \A r \in reports' \ reports : r.found \subseteq {"TRUNCATED"}
  <2>1. PICK c \in BOOLEAN :
            /\ reports' = reports \cup {[found |-> found, clean |-> c]}
            /\ \/ job'[k] = NoJob
               \/ job'[k] = [NoJob EXCEPT !.pc = "head", !.clean = c]
    BY <1>0, <1>1, Concluded
  <2>2. HonestOK(rows, anchors, job'[k])
    <3>1. CASE job'[k] = [NoJob EXCEPT !.pc = "head", !.clean = c]
      <4>1. job'[k].pc = "head" /\ job'[k].found = {}
        BY <3>1 DEF NoJob
      <4> QED BY <4>1 DEF HonestOK, Verifying
    <3>2. CASE job'[k] = NoJob
      BY <3>2, HonestIdle
    <3> QED BY <2>1, <3>1, <3>2
  <2> QED BY <1>1, <2>1, <2>2
<1>2. CASE ReadLatestAnchor(k)
  <2>1. ASSUME NEW a \in Latest(anchors), job'[k] = [job[k] EXCEPT !.pc = "hashes", !.anchor = a]
        PROVE  HonestOK(rows, anchors, job'[k])
    <3>1. /\ job'[k].pc = "hashes" /\ job'[k].anchor = a /\ job'[k].found = job[k].found
          /\ job'[k].last = job[k].last /\ job'[k].prev = job[k].prev
      BY <1>0, <2>1 DEF JobState
    <3>2. a \in DOMAIN anchors
      BY DEF Latest, Anchored
    <3>3. job[k].pc \in Verifying
      BY <1>2 DEF ReadLatestAnchor, Verifying
    <3> QED BY <1>0, <3>1, <3>2, <3>3 DEF HonestOK
  <2>2. \A s \in Sources(k) : s.anchors = anchors
    BY OwnSources
  <2>3. CASE \E found : found \subseteq job[k].found \cup {"TRUNCATED"} /\ Conclude(k, found)
    BY <1>0, <1>1, <2>3
  <2>4. CASE reports' = reports /\ \E a \in Latest(anchors) :
                  job'[k] = [job[k] EXCEPT !.pc = "hashes", !.anchor = a]
    BY <2>1, <2>4
  <2> QED BY <1>0, <1>2, <2>2, <2>3, <2>4, LatestVerdict
<1>3. CASE CheckAnchor(k)
  <2> DEFINE a == anchors[job[k].anchor]
  <2>1. job[k].anchor \in DOMAIN anchors
    BY <1>3 DEF CheckAnchor, HonestOK
  <2>2. RangeHashes(rows, a.from, a.to) = a.root
    BY <2>1 DEF TableInv, TrueInv
  <2>3. \A s \in Sources(k) : s.rows = rows
    BY OwnSources
  <2>4. Conclude(k, job[k].found)
    <3>1. PICK s \in Sources(k) :
             \/ RangeHashes(s.rows, a.from, a.to) = a.root /\ Conclude(k, job[k].found)
             \/ RangeHashes(s.rows, a.from, a.to) # a.root
      BY <1>3, AnchorVerdict
    <3> HIDE DEF a
    <3> QED BY <2>2, <2>3, <3>1
  <2> QED BY <1>0, <1>1, <2>4
<1> QED BY <1>2, <1>3

LEMMA HonestInit == Init => HonestInv
BY HonestIdle DEF Init, HonestInv, NoFalseMismatch

LEMMA HonestStep ==
  ASSUME PlainDamage, Requests = {}, TableInv, HonestInv, [Next]_vars
  PROVE  HonestInv'
<1> SUFFICES ASSUME Bad(rows') = {}
             PROVE  /\ \A j \in Jobs \ Requests : HonestOK(rows', anchors', job'[j])
                    /\ NoFalseMismatch'
  BY DEF HonestInv
<1>0. StateOK /\ TypeInv /\ LockInv /\ GrowInv /\ AnchorInv
  BY DEF TableInv, TypeInv
<1>1. Bad(rows) = {} /\ ~ Damage
  BY <1>0, BadStays, DamageIsBad
<1>2. Intact(rows) /\ Stored(rows) = 1 .. Top(rows)
  BY <1>0, <1>1, IntactIffNoneBad, IntactIsWhole
<1>3. /\ \A j \in Jobs \ Requests : HonestOK(rows, anchors, job[j])
      /\ NoFalseMismatch
  BY <1>1 DEF HonestInv
<1>4. Top(rows) <= Top(rows') /\ \A n \in 1 .. Top(rows) : rows'[n] = rows[n]
  <2>1. rows' = rows => \A n \in 1 .. Top(rows) : rows'[n] = rows[n]
    OBVIOUS
  <2>2. ASSUME NEW r \in Recorders, CommitAppend(r)
        PROVE  \A n \in 1 .. Top(rows) : rows'[n] = rows[n]
    BY <1>0, <1>2, <2>2, CommitRow
  <2> QED BY <1>0, <1>1, <2>1, <2>2, RowSteps, TopGrows
<1>5. DOMAIN anchors \subseteq DOMAIN anchors'
  <2>1. ASSUME NEW j \in Jobs, Creates(j) PROVE DOMAIN anchors \subseteq DOMAIN anchors'
    <3>1. Len(anchors) \in Nat /\ DOMAIN anchors = 1 .. Len(anchors)
      BY <1>0 DEF StateOK
    <3> QED BY <1>0, <2>1, <3>1, CreateEffect
  <2>2. ASSUME NEW j \in Jobs, Marks(j) PROVE DOMAIN anchors \subseteq DOMAIN anchors'
    BY <1>0, <2>2, UpdateEffect
  <2>3. CASE anchors' = anchors
    BY <2>3
  <2> QED BY <1>0, <2>1, <2>2, <2>3, AnchorsStep
<1>6. ASSUME NEW k \in Jobs \ Requests, HonestOK(rows, anchors, job'[k])
      PROVE  HonestOK(rows', anchors', job'[k])
  <2>1. job'[k].last \in Nat
    <3>1. TypeInv'
      BY <1>0, TypeStep
    <3>2. job'[k] \in JobState
      BY <3>1 DEF TypeInv, StateOK
    <3> QED BY <3>2, BoundsOK DEF JobState
  <2> QED BY <1>4, <1>5, <1>6, <2>1, HonestStays
<1>7. ASSUME NEW k \in Jobs \ Requests
      PROVE  HonestOK(rows, anchors, job'[k])
  <2>1. CASE job'[k] = job[k]
    BY <1>3, <2>1
  <2>2. CASE job'[k] = NoJob
    BY <2>2, HonestIdle
  <2>3. CASE BeginVerify(k) \/ ReadBatch(k) \/ CheckBatch(k)
    BY <1>0, <1>2, <1>3, <2>3, HonestScan
  <2>4. CASE ReadLatestAnchor(k) \/ CheckAnchor(k)
    BY <1>1, <1>3, <2>4, HonestVerdict
  <2>5. CASE \/ ReadHead(k) \/ ReadPrevious(k) \/ ReadRange(k) \/ CreateAnchor(k) \/ Submit(k)
             \/ UpdateAnchor(k) \/ QueryFails(k)
    <3>1. CASE job'[k].pc \in Anchoring /\ job'[k].found = job[k].found
      <4>1. job'[k].pc \notin Verifying /\ job'[k].pc # "batch" /\ job'[k].pc # "hashes"
        BY <3>1 DEF Anchoring, Verifying, Ranging, InFlight
      <4> QED BY <1>3, <3>1, <4>1 DEF HonestOK
    <3> QED BY <1>0, <2>2, <2>5, <3>1, AnchorsOn
  <2> QED BY <1>0, <2>1, <2>2, <2>3, <2>4, <2>5, JobSteps DEF JobStep
<1>8. NoFalseMismatch'
  <2>1. CASE reports' = reports
    BY <1>3, <2>1 DEF NoFalseMismatch
  <2>2. ASSUME NEW k \in Jobs, ReadLatestAnchor(k) \/ CheckAnchor(k)
        PROVE  NoFalseMismatch'
    <3>1. \A r \in reports' \ reports : r.found \subseteq {"TRUNCATED"}
      BY <1>1, <1>3, <2>2, HonestVerdict
    <3> QED BY <1>3, <3>1 DEF NoFalseMismatch
  <2> QED BY <2>1, <2>2, ReportSteps
<1> QED BY <1>6, <1>7, <1>8

\* As long as no row is changed, no verification of the timers has taken the
\* growth of the chain between two of its reads for a mismatch, a gap or a
\* broken link (verifyChain).
THEOREM NoFalseMismatchUntilChanged ==
  ASSUME PlainDamage, Requests = {}
  PROVE  Spec => [](ChainLinked => NoFalseMismatch)
<1>1. TableInv /\ HonestInv /\ [Next]_vars => HonestInv'
  BY HonestStep
<1>2. TableInv /\ HonestInv /\ UNCHANGED vars => HonestInv'
  BY <1>1
<1>3. TableInv /\ HonestInv => (ChainLinked => NoFalseMismatch)
  BY IntactIffNoneBad DEF ChainLinked, TableInv, HonestInv
<1> QED BY <1>1, <1>2, <1>3, HonestInit, TableTheorem, PTL DEF Spec

\* While the tables are left alone, no report of the timers is one of tampering
\* with a row or a range.
THEOREM NoFalseMismatchTheorem ==
  ASSUME LeftAlone, Requests = {}
  PROVE  Spec => []NoFalseMismatch
<1>1. PlainDamage
  BY DEF LeftAlone, PlainDamage
<1> QED BY <1>1, ChainTheorem, NoFalseMismatchUntilChanged, PTL

=============================================================================
