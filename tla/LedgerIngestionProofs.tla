------------------------ MODULE LedgerIngestionProofs ------------------------
(***************************************************************************)
(* What LedgerIngestion guarantees for any workers, pool of Horizon        *)
(* servers, histories and failures: one ledger in force per sequence,      *)
(* payment rows that belong to it, the stack of LedgerHistory, and that    *)
(* the rows of a ledger come from one page of its sequence.                *)
(***************************************************************************)
EXTENDS LedgerIngestion, TLAPS, WellFoundedInduction, FiniteSetTheorems

-----------------------------------------------------------------------------
(* Last and NextOf choose a greatest and a least number; they exist.       *)

LEMMA LeastNumber ==
  ASSUME NEW T \in SUBSET Nat, T # {}
  PROVE  \E x \in T : \A y \in T : x <= y
<1>1. PICK x \in T : \A y \in T : ~ (<<y, x>> \in OpToRel(<, Nat))
  BY NatLessThanWellFounded, WFMin, Zenon
<1>2. ASSUME NEW y \in T PROVE x <= y
  <2>1. ~ (<<y, x>> \in OpToRel(<, Nat)) /\ x \in Nat /\ y \in Nat
    BY <1>1
  <2> QED BY <2>1 DEF OpToRel
<1> QED BY <1>2

LEMMA LeastLedger ==
  ASSUME NEW B \in SUBSET Ledgers, B # {}
  PROVE  \E l \in B : \A m \in B : l.number <= m.number
<1> DEFINE T == {l.number : l \in B}
<1>1. T \in SUBSET Nat /\ T # {}
  BY LedgersOK
<1>2. PICK x \in T : \A y \in T : x <= y
  BY <1>1, LeastNumber
<1> QED BY <1>2

LEMMA GreatestLedger ==
  ASSUME NEW B \in SUBSET Ledgers, B # {},
         NEW N \in Nat, \A l \in B : l.number <= N
  PROVE  \E l \in B : \A m \in B : m.number <= l.number
<1> DEFINE T == {N - l.number : l \in B}
<1>1. T \in SUBSET Nat /\ T # {}
  BY LedgersOK
<1>2. PICK x \in T : \A y \in T : x <= y
  BY <1>1, LeastNumber
<1>3. PICK l \in B : x = N - l.number
  BY <1>2
<1>4. ASSUME NEW m \in B PROVE m.number <= l.number
  <2>1. N - m.number \in T
    OBVIOUS
  <2>2. N - l.number <= N - m.number
    BY <1>2, <1>3, <2>1
  <2>3. l.number \in Nat /\ m.number \in Nat
    BY LedgersOK
  <2> QED BY <2>2, <2>3
<1> QED BY <1>4

\* The ledgers in force do not grow beyond all numbers.
Bounded == \E n \in Nat : \A l \in Active : l.number <= n

LEMMA ActiveLedgers == Active \subseteq Ledgers
  BY DEF Active

LEMMA LastIsGreatest ==
  ASSUME Bounded, Active # {}
  PROVE  /\ Last \in Active
         /\ Last.number \in Nat
         /\ \A m \in Active : m.number <= Last.number
<1>1. \E l \in Active : \A m \in Active : m.number <= l.number
  BY ActiveLedgers, GreatestLedger DEF Bounded
<1>2. Last \in Active /\ \A m \in Active : m.number <= Last.number
  BY <1>1, Zenon DEF Last
<1> QED BY <1>2, ActiveLedgers, LedgersOK

LEMMA NextIsLeast ==
  ASSUME NEW w \in Workers, batch[w] \subseteq Ledgers, batch[w] # {}
  PROVE  NextOf(w) \in batch[w]
<1>1. \E l \in batch[w] : \A m \in batch[w] : l.number <= m.number
  BY LeastLedger
<1> QED BY <1>1, Zenon DEF NextOf

-----------------------------------------------------------------------------
(* The inductive invariant.                                                *)

Labels == {"idle", "start", "fetch", "payments", "ingest", "delete", "mark", "upsert", "pay"}

\* A worker that has a ledger to deal with has one in its batch, and what it
\* fetched for it are operations of a ledger of that number.
WorkOK(w) ==
    /\ pc[w] \in {"payments", "ingest"} \/ Locked(w) => batch[w] # {}
    /\ pc[w] = "ingest" \/ Locked(w) =>
            \A o \in served[w] :
                \E m \in Ledgers : m.number = NextOf(w).number /\ o \in OpsOf[m]

\* What the holder of the lock has made of the index so far.
HoldOK(w) ==
    /\ pc[w] \in {"delete", "mark"} => NextOf(w) \notin Active
    /\ pc[w] = "mark" => \A e \in events : e.ledger \notin RolledBack(NextOf(w))
    /\ pc[w] = "upsert" => \A m \in Active : m.number < NextOf(w).number
    /\ pc[w] = "pay" =>
            NextOf(w) \in Active /\ \A m \in Active : m.number <= NextOf(w).number

OneHolder == \A u, w \in Workers : Locked(u) /\ Locked(w) => u = w

IndexOK ==
    /\ status \in [Ledgers -> {"absent", "active", "rolled_back"}]
    /\ events \subseteq [op: Operations, ledger: Ledgers]
    /\ torn \subseteq Ledgers
    /\ Bounded /\ OneLedgerPerSequence /\ EventsBelong

WorkersOK ==
    /\ pc \in [Workers -> Labels]
    /\ batch \in [Workers -> SUBSET Ledgers]
    /\ served \in [Workers -> SUBSET Operations]
    /\ OneHolder
    /\ \A w \in Workers : WorkOK(w) /\ HoldOK(w)

CountsOK ==
    /\ cursor \in [Workers -> Nat]
    /\ tip \in [Members -> Nat]
    /\ faults \in 0 .. MaxFaults

IInv == IndexOK /\ WorkersOK /\ CountsOK

LEMMA InitIInv == Init => IInv
<1> SUFFICES ASSUME Init PROVE IInv
  OBVIOUS
<1>1. Active = {}
  BY DEF Init, Active
<1>2. IndexOK
  BY <1>1 DEF Init, IndexOK, Bounded, OneLedgerPerSequence, EventsBelong
<1>3. WorkersOK
  BY DEF Init, WorkersOK, OneHolder, WorkOK, HoldOK, Locked, Labels
<1>4. CountsOK
  BY BoundsOK DEF Init, CountsOK
<1> QED BY <1>2, <1>3, <1>4 DEF IInv

\* The ledger a worker is about to take.
LEMMA NextType ==
  ASSUME IInv, NEW w \in Workers, pc[w] \in {"payments", "ingest"} \/ Locked(w)
  PROVE  NextOf(w) \in batch[w] /\ NextOf(w) \in Ledgers /\ NextOf(w).number \in Nat
<1>1. batch[w] \subseteq Ledgers /\ batch[w] # {}
  BY DEF IInv, WorkersOK, WorkOK
<1> QED BY <1>1, NextIsLeast, LedgersOK

\* Exactly the ledgers below it and below the divergence stay.
LEMMA KeptBelow ==
  ASSUME IInv, NEW l \in Ledgers, l \notin Active
  PROVE  /\ RolledBack(l) \subseteq Active
         /\ \A m \in Active \ RolledBack(l) : m.number < l.number
         /\ \A m \in Active \ RolledBack(l), d \in RolledBack(l) : m.number < d.number
<1>1. \A m \in Active : m.number \in Nat
  BY ActiveLedgers, LedgersOK
<1>2. l.number \in Nat
  BY LedgersOK
<1>3. CASE Active = {}
  BY <1>3 DEF RolledBack
<1>4. CASE Active # {}
  <2>1. Last \in Active /\ Last.number \in Nat /\ \A m \in Active : m.number <= Last.number
    BY <1>4, LastIsGreatest DEF IInv, IndexOK
  <2>2. CASE ForkDetected(l)
    <3>1. RolledBack(l) = {m \in Active : m.number >= l.number \/ m.number >= Last.number}
      BY <2>2 DEF RolledBack
    <3> QED BY <1>1, <1>2, <2>1, <3>1
  <2>3. CASE ~ForkDetected(l)
    <3>1. RolledBack(l) = {}
      BY <2>3 DEF RolledBack
    <3>2. l # Last
      BY <2>1
    <3>3. ~ (l.number <= Last.number)
      BY <1>4, <2>3, <3>2 DEF ForkDetected
    <3> QED BY <1>1, <1>2, <2>1, <3>1, <3>3
  <2> QED BY <2>2, <2>3
<1> QED BY <1>3, <1>4

-----------------------------------------------------------------------------
(* One worker moves, the others do not.                                    *)

LEMMA NextSame ==
  ASSUME NEW w \in Workers, batch'[w] = batch[w]
  PROVE  NextOf(w)' = NextOf(w)
  BY Zenon DEF NextOf

LEMMA SameRows ==
  ASSUME status' = status
  PROVE  Active' = Active /\ \A l : RolledBack(l)' = RolledBack(l)
<1>1. Active' = Active
  BY DEF Active
<1>2. Last' = Last
  BY <1>1, Zenon DEF Last
<1>3. \A l : ForkDetected(l)' = ForkDetected(l)
  BY <1>1, <1>2 DEF ForkDetected
<1> QED BY <1>1, <1>2, <1>3 DEF RolledBack

LEMMA IndexUnchanged ==
  ASSUME UNCHANGED <<status, events>>, torn' \subseteq Ledgers, IndexOK
  PROVE  IndexOK'
  BY DEF IndexOK, Bounded, OneLedgerPerSequence, EventsBelong, Active

\* What a worker does outside of the lock touches no row, and what it does in
\* the lock concerns nobody else that holds it.
LEMMA OtherWorker ==
  ASSUME IInv, NEW w \in Workers, NEW u \in Workers \ {w},
         UNCHANGED <<status, events>> \/ Locked(w),
         pc'[u] = pc[u], batch'[u] = batch[u], served'[u] = served[u]
  PROVE  WorkOK(u)' /\ HoldOK(u)'
<1>1. NextOf(u)' = NextOf(u)
  BY NextSame
<1>2. WorkOK(u) /\ HoldOK(u)
  BY DEF IInv, WorkersOK
<1>3. WorkOK(u)'
  BY <1>1, <1>2 DEF WorkOK, Locked
<1>4. CASE Locked(u)
  <2>1. UNCHANGED <<status, events>>
    BY <1>4 DEF IInv, WorkersOK, OneHolder
  <2>2. Active' = Active /\ RolledBack(NextOf(u))' = RolledBack(NextOf(u)) /\ events' = events
    BY <1>1, <2>1, SameRows
  <2> QED BY <1>1, <1>2, <1>3, <2>2 DEF HoldOK
<1>5. CASE ~Locked(u)
  BY <1>3, <1>5 DEF HoldOK, Locked
<1> QED BY <1>4, <1>5

LEMMA WorkerStep ==
  ASSUME IInv, NEW w \in Workers, NEW label \in Labels, NEW page \in SUBSET Ledgers,
         NEW ops \in SUBSET Operations,
         pc' = [pc EXCEPT ![w] = label], batch' = [batch EXCEPT ![w] = page],
         served' = [served EXCEPT ![w] = ops],
         UNCHANGED <<status, events>> \/ Locked(w),
         Locked(w)' => Locked(w) \/ \A u \in Workers : ~Locked(u),
         WorkOK(w)', HoldOK(w)'
  PROVE  WorkersOK'
<1>1. /\ pc' \in [Workers -> Labels]
      /\ batch' \in [Workers -> SUBSET Ledgers]
      /\ served' \in [Workers -> SUBSET Operations]
  BY DEF IInv, WorkersOK
<1>2. ASSUME NEW u \in Workers \ {w}
      PROVE  pc'[u] = pc[u] /\ batch'[u] = batch[u] /\ served'[u] = served[u]
  BY DEF IInv, WorkersOK
<1>3. \A u \in Workers \ {w} : WorkOK(u)' /\ HoldOK(u)' /\ (Locked(u)' <=> Locked(u))
  BY <1>2, OtherWorker DEF Locked
<1>4. OneHolder'
  BY <1>3 DEF OneHolder, IInv, WorkersOK
<1> QED BY <1>1, <1>3, <1>4 DEF WorkersOK

\* A step that leaves the worker outside of the lock and without payments.
LEMMA FreeStep ==
  ASSUME IInv, NEW w \in Workers, NEW label \in {"idle", "start", "fetch", "payments"},
         NEW page \in SUBSET Ledgers, label = "payments" => page # {},
         NEW ops \in SUBSET Operations,
         pc' = [pc EXCEPT ![w] = label], batch' = [batch EXCEPT ![w] = page],
         served' = [served EXCEPT ![w] = ops],
         UNCHANGED <<status, events>>
  PROVE  WorkersOK'
<1>1. pc'[w] = label /\ batch'[w] = page
  BY DEF IInv, WorkersOK
<1>2. WorkOK(w)' /\ HoldOK(w)' /\ ~Locked(w)' /\ label \in Labels
  BY <1>1 DEF WorkOK, HoldOK, Locked, Labels
<1> QED BY <1>2, WorkerStep

LEMMA ProceedStep ==
  ASSUME IInv, NEW w \in Workers, Proceed(w), UNCHANGED <<status, events>>
  PROVE  WorkersOK' /\ cursor' = cursor
<1>1. PICK rest : rest = batch[w] \ {NextOf(w)}
  OBVIOUS
<1>2. PICK label : label = IF rest = {} THEN "idle" ELSE "payments"
  OBVIOUS
<1>3. /\ pc' = [pc EXCEPT ![w] = label]
      /\ batch' = [batch EXCEPT ![w] = rest]
      /\ served' = [served EXCEPT ![w] = {}]
      /\ cursor' = cursor
  BY <1>1, <1>2 DEF Proceed
<1>4. rest \in SUBSET Ledgers
  BY <1>1 DEF IInv, WorkersOK
<1>5. label \in {"idle", "start", "fetch", "payments"} /\ (label = "payments" => rest # {})
  BY <1>2
<1> QED BY <1>3, <1>4, <1>5, FreeStep

LEMMA FaultType ==
  ASSUME IInv, NEW kind, Fault(kind)
  PROVE  faults' \in 0 .. MaxFaults
  BY BoundsOK DEF IInv, CountsOK, Fault

LEMMA SameBatch ==
  ASSUME IInv, NEW w \in Workers
  PROVE  /\ batch = [batch EXCEPT ![w] = batch[w]] /\ batch[w] \in SUBSET Ledgers
         /\ served = [served EXCEPT ![w] = served[w]] /\ served[w] \in SUBSET Operations
  BY DEF IInv, WorkersOK

-----------------------------------------------------------------------------
(* The steps outside of the lock.                                          *)

LEMMA PollBeginsStep ==
  ASSUME IInv, NEW w \in Workers, PollBegins(w) PROVE IInv'
<1>1. IndexOK'
  BY IndexUnchanged DEF PollBegins, index, IInv, IndexOK
<1>2. PICK label \in {"start", "fetch"} : pc' = [pc EXCEPT ![w] = label]
  BY DEF PollBegins
<1>3. WorkersOK'
  BY <1>2, SameBatch, FreeStep DEF PollBegins, index
<1>4. cursor' \in [Workers -> Nat]
  <2>1. Active # {} => Last.number \in Nat
    BY LastIsGreatest DEF IInv, IndexOK
  <2> QED BY <2>1 DEF PollBegins, IInv, CountsOK
<1> QED BY <1>1, <1>3, <1>4 DEF PollBegins, IInv, CountsOK

LEMMA ResolveStartStep ==
  ASSUME IInv, NEW w \in Workers, NEW v \in Members, ResolveStart(w, v) PROVE IInv'
<1>1. IndexOK'
  BY IndexUnchanged DEF ResolveStart, index, IInv, IndexOK
<1>2. WorkersOK'
  BY SameBatch, FreeStep DEF ResolveStart, index
<1>3. cursor' \in [Workers -> Nat]
  <2>1. tip[v] \in Nat
    BY DEF IInv, CountsOK
  <2>2. StartAt(v) \in Nat
    BY <2>1, BoundsOK DEF StartAt
  <2> QED BY <2>2 DEF ResolveStart, IInv, CountsOK
<1> QED BY <1>1, <1>2, <1>3 DEF ResolveStart, IInv, CountsOK

LEMMA FetchLedgersStep ==
  ASSUME IInv, NEW w \in Workers, NEW v \in Members, FetchLedgers(w, v) PROVE IInv'
<1>1. IndexOK'
  BY IndexUnchanged DEF FetchLedgers, index, IInv, IndexOK
<1>2. PICK page :
        page = {l \in Serves(v) : cursor[w] < l.number /\ l.number <= cursor[w] + BatchSize}
  OBVIOUS
<1>3. page \in SUBSET Ledgers
  BY <1>2, HistoryOK DEF Serves
<1>4. PICK label \in {"idle", "payments"} :
        /\ label = "payments" => page # {}
        /\ pc' = [pc EXCEPT ![w] = label] /\ batch' = [batch EXCEPT ![w] = page]
  BY <1>2 DEF FetchLedgers
<1>5. served' = [served EXCEPT ![w] = served[w]] /\ served[w] \in SUBSET Operations
  BY SameBatch DEF FetchLedgers
<1>6. UNCHANGED <<status, events>>
  BY DEF FetchLedgers, index
<1>7. WorkersOK'
  BY <1>3, <1>4, <1>5, <1>6, FreeStep
<1> QED BY <1>1, <1>7 DEF FetchLedgers, IInv, CountsOK

LEMMA FetchPaymentsStep ==
  ASSUME IInv, NEW w \in Workers, NEW v \in Members, FetchPayments(w, v) PROVE IInv'
<1>1. IndexOK'
  BY IndexUnchanged DEF FetchPayments, index, IInv, IndexOK
<1>2. PICK l \in Serves(v) : /\ l.number = NextOf(w).number
                             /\ served' = [served EXCEPT ![w] = FirstPage(l)]
  BY DEF FetchPayments
<1>3. l \in Ledgers
  BY HistoryOK DEF Serves
<1>4. FirstPage(l) \subseteq OpsOf[l] /\ FirstPage(l) \in SUBSET Operations
  BY <1>3 DEF FirstPage, Operations
<1>5. /\ pc[w] = "payments" /\ pc' = [pc EXCEPT ![w] = "ingest"] /\ batch' = batch
      /\ UNCHANGED <<status, events>>
  BY DEF FetchPayments, index
<1>6. NextOf(w)' = NextOf(w)
  BY <1>5, NextSame
<1>7. pc'[w] = "ingest" /\ served'[w] = FirstPage(l) /\ batch'[w] # {}
  BY <1>2, <1>5 DEF IInv, WorkersOK, WorkOK
<1>8. WorkOK(w)' /\ HoldOK(w)' /\ ~Locked(w)'
  BY <1>2, <1>3, <1>4, <1>6, <1>7 DEF WorkOK, HoldOK, Locked
<1>9. WorkersOK'
  <2>1. "ingest" \in Labels
    BY DEF Labels
  <2> QED BY <1>2, <1>4, <1>5, <1>8, <2>1, SameBatch, WorkerStep
<1> QED BY <1>1, <1>9 DEF FetchPayments, IInv, CountsOK

LEMMA PollFailsStep ==
  ASSUME IInv, NEW w \in Workers, PollFails(w) PROVE IInv'
<1>1. IndexOK'
  BY IndexUnchanged DEF PollFails, index, IInv, IndexOK
<1>2. WorkersOK'
  BY SameBatch, FreeStep DEF PollFails, index
<1> QED BY <1>1, <1>2, FaultType DEF PollFails, IInv, CountsOK

LEMMA MemberStep ==
  ASSUME IInv, NEW v \in Members, MemberAdvances(v) PROVE IInv'
<1>1. IndexOK'
  BY IndexUnchanged DEF MemberAdvances, index, IInv, IndexOK
<1>2. UNCHANGED <<status, events, pc, batch, served>>
  BY DEF MemberAdvances, index, locals
<1>3. \A u \in Workers : WorkOK(u)' /\ HoldOK(u)'
  <2> SUFFICES ASSUME NEW u \in Workers PROVE WorkOK(u)' /\ HoldOK(u)'
    OBVIOUS
  <2>1. NextOf(u)' = NextOf(u) /\ Active' = Active
        /\ RolledBack(NextOf(u))' = RolledBack(NextOf(u))
    BY <1>2, NextSame, SameRows
  <2> QED BY <1>2, <2>1 DEF IInv, WorkersOK, WorkOK, HoldOK, Locked
<1>4. OneHolder'
  BY <1>2 DEF IInv, WorkersOK, OneHolder, Locked
<1>5. tip' \in [Members -> Nat]
  BY DEF MemberAdvances, IInv, CountsOK
<1> QED BY <1>1, <1>2, <1>3, <1>4, <1>5 DEF MemberAdvances, IInv, WorkersOK, CountsOK, locals

-----------------------------------------------------------------------------
(* The steps of the engine.                                                *)

\* The holder moves on with the same ledger.
LEMMA HolderStep ==
  ASSUME IInv, NEW w \in Workers, NEW label \in {"delete", "mark", "upsert", "pay"},
         pc[w] = "ingest" \/ Locked(w),
         UNCHANGED <<status, events>> \/ Locked(w),
         Locked(w) \/ \A u \in Workers : ~Locked(u),
         pc' = [pc EXCEPT ![w] = label], UNCHANGED batch,
         NEW ops \in SUBSET served[w], served' = [served EXCEPT ![w] = ops],
         HoldOK(w)'
  PROVE  WorkersOK'
<1>1. pc'[w] = label /\ served'[w] = ops /\ batch'[w] = batch[w] /\ NextOf(w)' = NextOf(w)
  BY NextSame DEF IInv, WorkersOK
<1>2. WorkOK(w)'
  BY <1>1 DEF IInv, WorkersOK, WorkOK
<1>3. label \in Labels /\ ops \in SUBSET Operations
  BY DEF Labels, IInv, WorkersOK
<1>4. batch' = [batch EXCEPT ![w] = batch[w]] /\ batch[w] \in SUBSET Ledgers
  BY SameBatch
<1> QED BY <1>2, <1>3, <1>4, WorkerStep

LEMMA TakeLockStep ==
  ASSUME IInv, NEW w \in Workers, TakeLock(w) PROVE IInv'
<1>1. IndexOK'
  BY IndexUnchanged DEF TakeLock, index, IInv, IndexOK
<1>2. UNCHANGED <<status, events>> /\ UNCHANGED <<tip, faults>>
  BY DEF TakeLock, index
<1>3. WorkersOK' /\ cursor' = cursor
  <2>1. CASE NextOf(w) \in Active
    BY <1>2, <2>1, ProceedStep DEF TakeLock
  <2>2. CASE NextOf(w) \notin Active
    <3>1. PICK label \in {"delete", "upsert"} :
            /\ pc' = [pc EXCEPT ![w] = label]
            /\ label = "upsert" => RolledBack(NextOf(w)) = {}
      BY <2>2 DEF TakeLock, Goto
    <3>2. /\ pc[w] = "ingest" /\ \A u \in Workers : ~Locked(u)
          /\ UNCHANGED <<cursor, batch, served>>
      BY <2>2 DEF TakeLock
    <3>3. served' = [served EXCEPT ![w] = served[w]]
      BY <3>2, SameBatch
    <3>4. pc'[w] = label /\ NextOf(w)' = NextOf(w) /\ Active' = Active
      BY <1>2, <3>1, <3>2, NextSame, SameRows DEF IInv, WorkersOK
    <3>5. NextOf(w) \in Ledgers
      BY <3>2, NextType
    <3>6. HoldOK(w)'
      BY <2>2, <3>1, <3>4, <3>5, KeptBelow DEF HoldOK
    <3> QED BY <1>2, <3>1, <3>2, <3>3, <3>6, HolderStep
  <2> QED BY <2>1, <2>2
<1> QED BY <1>1, <1>2, <1>3 DEF IInv, CountsOK

LEMMA DeleteEventsStep ==
  ASSUME IInv, NEW w \in Workers, DeleteEvents(w) PROVE IInv'
<1>1. /\ pc[w] = "delete" /\ pc' = [pc EXCEPT ![w] = "mark"] /\ Locked(w)
      /\ events' = {e \in events : e.ledger \notin RolledBack(NextOf(w))}
      /\ UNCHANGED <<status, torn, tip, cursor, batch, served, faults>>
  BY DEF DeleteEvents, Goto, Locked
<1>2. IndexOK'
  BY <1>1, SameRows DEF IInv, IndexOK, Bounded, OneLedgerPerSequence, EventsBelong
<1>3. HoldOK(w)'
  <2>1. pc'[w] = "mark" /\ NextOf(w)' = NextOf(w) /\ Active' = Active
        /\ RolledBack(NextOf(w))' = RolledBack(NextOf(w))
    BY <1>1, NextSame, SameRows DEF IInv, WorkersOK
  <2> QED BY <1>1, <2>1 DEF IInv, WorkersOK, HoldOK
<1>4. WorkersOK'
  BY <1>1, <1>3, SameBatch, HolderStep
<1> QED BY <1>1, <1>2, <1>4 DEF IInv, CountsOK

\* updateMany leaves what is not dropped.
LEMMA Dropped ==
  ASSUME NEW w \in Workers, MarkRolledBack(w)
  PROVE  Active' = Active \ RolledBack(NextOf(w))
<1>1. \A m \in Ledgers :
        status'[m] = "active" <=> status[m] = "active" /\ m \notin RolledBack(NextOf(w))
  BY DEF MarkRolledBack
<1> QED BY <1>1 DEF Active

LEMMA MarkRolledBackStep ==
  ASSUME IInv, NEW w \in Workers, MarkRolledBack(w) PROVE IInv'
<1>1. /\ pc[w] = "mark" /\ pc' = [pc EXCEPT ![w] = "upsert"] /\ Locked(w)
      /\ status' \in [Ledgers -> {"absent", "active", "rolled_back"}]
      /\ torn' \subseteq Ledgers
      /\ UNCHANGED <<events, tip, cursor, batch, served, faults>>
  BY DEF MarkRolledBack, Goto, Locked, IInv, IndexOK
<1>2. Active' = Active \ RolledBack(NextOf(w))
  BY Dropped
<1>3. IndexOK'
  BY <1>1, <1>2 DEF IInv, IndexOK, WorkersOK, HoldOK, Bounded, OneLedgerPerSequence, EventsBelong
<1>4. HoldOK(w)'
  <2>1. pc'[w] = "upsert" /\ NextOf(w)' = NextOf(w)
    BY <1>1, NextSame DEF IInv, WorkersOK
  <2>2. NextOf(w) \notin Active /\ NextOf(w) \in Ledgers
    BY <1>1, NextType DEF IInv, WorkersOK, HoldOK
  <2> QED BY <1>2, <2>1, <2>2, KeptBelow DEF HoldOK
<1>5. WorkersOK'
  BY <1>1, <1>4, SameBatch, HolderStep
<1> QED BY <1>1, <1>3, <1>5 DEF IInv, CountsOK

LEMMA Upserted ==
  ASSUME IInv, NEW w \in Workers, UpsertLedger(w)
  PROVE  Active' = Active \cup {NextOf(w)}
<1>1. NextOf(w) \in Ledgers
  BY NextType DEF UpsertLedger, Locked
<1>2. \A m \in Ledgers : status'[m] = "active" <=> status[m] = "active" \/ m = NextOf(w)
  BY <1>1 DEF UpsertLedger, IInv, IndexOK
<1> QED BY <1>1, <1>2 DEF Active

LEMMA UpsertLedgerStep ==
  ASSUME IInv, NEW w \in Workers, UpsertLedger(w) PROVE IInv'
<1>1. /\ pc[w] = "upsert" /\ pc' = [pc EXCEPT ![w] = "pay"] /\ Locked(w)
      /\ status' \in [Ledgers -> {"absent", "active", "rolled_back"}]
      /\ UNCHANGED <<events, torn, tip, cursor, batch, served, faults>>
  BY DEF UpsertLedger, Goto, Locked, IInv, IndexOK
<1>2. PICK l \in Ledgers : l = NextOf(w)
  BY <1>1, NextType
<1>3. Active' = Active \cup {l}
  BY <1>2, Upserted
<1>4. l.number \in Nat /\ \A m \in Active : m.number \in Nat /\ m.number < l.number
  BY <1>1, <1>2, ActiveLedgers, LedgersOK DEF IInv, WorkersOK, HoldOK
<1>5. Bounded'
  <2>1. \A m \in Active' : m.number <= l.number
    BY <1>3, <1>4
  <2> QED BY <1>4, <2>1 DEF Bounded
<1>6. OneLedgerPerSequence'
  BY <1>3, <1>4 DEF IInv, IndexOK, OneLedgerPerSequence
<1>7. EventsBelong'
  BY <1>1, <1>3 DEF IInv, IndexOK, EventsBelong
<1>8. IndexOK'
  BY <1>1, <1>5, <1>6, <1>7 DEF IInv, IndexOK
<1>9. HoldOK(w)'
  <2>1. pc'[w] = "pay" /\ NextOf(w)' = l
    BY <1>1, <1>2, NextSame DEF IInv, WorkersOK
  <2> QED BY <1>3, <1>4, <2>1 DEF HoldOK
<1>10. WorkersOK'
  BY <1>1, <1>9, SameBatch, HolderStep
<1> QED BY <1>1, <1>8, <1>10 DEF IInv, CountsOK

LEMMA UpsertPaymentStep ==
  ASSUME IInv, NEW w \in Workers, UpsertPayment(w) PROVE IInv'
<1>1. /\ pc[w] = "pay" /\ Locked(w)
      /\ UNCHANGED <<status, torn, tip, pc, cursor, batch, faults>>
  BY DEF UpsertPayment, Locked
<1>2. PICK o \in served[w] :
        /\ events' = IF \E e \in events : e.op = o
                       THEN events
                       ELSE events \cup {[op |-> o, ledger |-> NextOf(w)]}
        /\ served' = [served EXCEPT ![w] = @ \ {o}]
  BY DEF UpsertPayment
<1>3. o \in Operations /\ NextOf(w) \in Ledgers /\ NextOf(w) \in Active
  BY <1>1, NextType DEF IInv, WorkersOK, HoldOK
<1>4. Active' = Active
  BY <1>1, SameRows
<1>5. EventsBelong' /\ events' \subseteq [op: Operations, ledger: Ledgers]
  <2>1. CASE \E e \in events : e.op = o
    BY <1>2, <1>4, <2>1 DEF IInv, IndexOK, EventsBelong
  <2>2. CASE ~ \E e \in events : e.op = o
    BY <1>2, <1>3, <1>4, <2>2 DEF IInv, IndexOK, EventsBelong
  <2> QED BY <2>1, <2>2
<1>6. IndexOK'
  BY <1>1, <1>4, <1>5 DEF IInv, IndexOK, Bounded, OneLedgerPerSequence
<1>7. HoldOK(w)'
  <2>1. NextOf(w)' = NextOf(w)
    BY <1>1, NextSame
  <2> QED BY <1>1, <1>4, <2>1 DEF IInv, WorkersOK, HoldOK
<1>8. WorkersOK'
  <2>1. pc' = [pc EXCEPT ![w] = "pay"]
    BY <1>1 DEF IInv, WorkersOK
  <2>2. served' = [served EXCEPT ![w] = served[w] \ {o}]
    BY <1>2
  <2> QED BY <1>1, <1>7, <2>1, <2>2, HolderStep
<1> QED BY <1>1, <1>6, <1>8 DEF IInv, CountsOK

LEMMA CommitStep ==
  ASSUME IInv, NEW w \in Workers, Commit(w) PROVE IInv'
<1>1. IndexOK'
  BY IndexUnchanged DEF Commit, index, IInv, IndexOK
<1>2. WorkersOK' /\ cursor' = cursor
  BY ProceedStep DEF Commit, index
<1> QED BY <1>1, <1>2 DEF Commit, IInv, CountsOK

LEMMA IngestStep ==
  ASSUME IInv, NEW w \in Workers, Ingest(w) PROVE IInv'
  BY TakeLockStep, DeleteEventsStep, MarkRolledBackStep, UpsertLedgerStep, UpsertPaymentStep,
     CommitStep DEF Ingest

-----------------------------------------------------------------------------
(* Failures.                                                               *)

LEMMA HalfwayType ==
  ASSUME IInv, NEW w \in Workers
  PROVE  Halfway(w) \subseteq Ledgers
<1>1. \A l : RolledBack(l) \subseteq Ledgers
  BY ActiveLedgers DEF RolledBack
<1> QED BY <1>1, NextType DEF Halfway, Locked

LEMMA LedgerFailsStep ==
  ASSUME IInv, NEW w \in Workers, LedgerFails(w) PROVE IInv'
<1>1. UNCHANGED <<status, events>> /\ torn' \subseteq Ledgers /\ Proceed(w) /\ UNCHANGED tip
  BY HalfwayType DEF LedgerFails, LeaveHalfway, IInv, IndexOK
<1>2. faults' \in 0 .. MaxFaults
  BY FaultType DEF LedgerFails, IInv, CountsOK
<1>3. IndexOK' /\ WorkersOK' /\ cursor' = cursor
  BY <1>1, IndexUnchanged, ProceedStep DEF IInv
<1> QED BY <1>1, <1>2, <1>3 DEF IInv, CountsOK

LEMMA CrashStep ==
  ASSUME IInv, NEW w \in Workers, Crash(w) PROVE IInv'
<1>1. UNCHANGED <<status, events>> /\ torn' \subseteq Ledgers
  BY HalfwayType DEF Crash, LeaveHalfway, IInv, IndexOK
<1>2. IndexOK'
  BY <1>1, IndexUnchanged DEF IInv
<1>3. WorkersOK'
  BY <1>1, FreeStep DEF Crash
<1> QED BY <1>2, <1>3, FaultType DEF Crash, IInv, CountsOK

LEMMA NextIInv == IInv /\ [Next]_vars => IInv'
<1> SUFFICES ASSUME IInv, [Next]_vars PROVE IInv'
  OBVIOUS
<1>1. CASE UNCHANGED vars
  <2>1. UNCHANGED <<status, events, torn, pc, batch, served, cursor, tip, faults>>
    BY <1>1 DEF vars
  <2>2. \A u \in Workers : WorkOK(u)' /\ HoldOK(u)'
    <3> SUFFICES ASSUME NEW u \in Workers PROVE WorkOK(u)' /\ HoldOK(u)'
      OBVIOUS
    <3>1. NextOf(u)' = NextOf(u) /\ Active' = Active
          /\ RolledBack(NextOf(u))' = RolledBack(NextOf(u))
      BY <2>1, NextSame, SameRows
    <3> QED BY <2>1, <3>1 DEF IInv, WorkersOK, WorkOK, HoldOK, Locked
  <2>3. IndexOK'
    BY <2>1, IndexUnchanged DEF IInv, IndexOK
  <2>4. OneHolder'
    BY <2>1 DEF IInv, WorkersOK, OneHolder, Locked
  <2> QED BY <2>1, <2>2, <2>3, <2>4 DEF IInv, WorkersOK, CountsOK
<1>2. CASE Next
  BY <1>2, PollBeginsStep, ResolveStartStep, FetchLedgersStep, FetchPaymentsStep, IngestStep,
     LedgerFailsStep, PollFailsStep, CrashStep, MemberStep DEF Next
<1> QED BY <1>1, <1>2

LEMMA Invariant == Spec => []IInv
  BY InitIInv, NextIInv, PTL DEF Spec

-----------------------------------------------------------------------------
(* The theorems.                                                           *)

\* The rows of processed_blocks and bridge_events and the locals of the
\* workers keep their types.
THEOREM TypeTheorem == Spec => []TypeOK
<1>1. IInv => TypeOK
  BY DEF IInv, IndexOK, WorkersOK, CountsOK, TypeOK, Labels
<1> QED BY <1>1, Invariant, PTL

\* Whatever the pool serves and in whatever order workers ingest it, no two
\* ledgers of one sequence are in force together.
THEOREM OneLedgerTheorem == Spec => []OneLedgerPerSequence
<1>1. IInv => OneLedgerPerSequence
  BY DEF IInv, IndexOK
<1> QED BY <1>1, Invariant, PTL

\* A payment row always belongs to a ledger in force, and an operation has one.
THEOREM EventsTheorem == Spec => []EventsBelong
<1>1. IInv => EventsBelong
  BY DEF IInv, IndexOK
<1> QED BY <1>1, Invariant, PTL

-----------------------------------------------------------------------------
(* Each write is a step of the stack.                                      *)

IdsFor(n) == UNION {OpsOf[m] : m \in {k \in Ledgers : k.number = n}}

Credited == {<<e.ledger, e.op>> : e \in events}

LEMMA TakeBackStep ==
  ASSUME IInv, NEW w \in Workers, DeleteEvents(w)
  PROVE  Stack!Next
<1>1. PICK l \in Ledgers : l = NextOf(w) /\ l \notin Active
  BY NextType DEF DeleteEvents, Locked, IInv, WorkersOK, HoldOK
<1>2. PICK kept \in SUBSET Active : kept = Active \ RolledBack(l)
  OBVIOUS
<1>3. Stack!IsCut(kept)
  BY <1>1, <1>2, KeptBelow DEF Stack!IsCut
<1>4. \A e \in events : e \in events' <=> e.ledger \in kept
  BY <1>1, <1>2 DEF DeleteEvents, IInv, IndexOK, EventsBelong
<1>5. events' \subseteq events
  BY DEF DeleteEvents
<1>6. Credited' = {p \in Credited : p[1] \in kept}
  <2>1. \A p : p \in Credited' <=> \E e \in events' : p = <<e.ledger, e.op>>
    BY DEF Credited
  <2>2. \A p : p \in Credited <=> \E e \in events : p = <<e.ledger, e.op>>
    BY DEF Credited
  <2>3. \A e : <<e.ledger, e.op>>[1] = e.ledger
    OBVIOUS
  <2> QED BY ONLY <1>4, <1>5, <2>1, <2>2, <2>3
<1>7. Active' = Active
  BY SameRows DEF DeleteEvents
<1> QED BY <1>3, <1>6, <1>7 DEF Stack!Next, Stack!TakeBack, Credited

LEMMA DropStep ==
  ASSUME IInv, NEW w \in Workers, MarkRolledBack(w)
  PROVE  Stack!Next
<1>1. PICK l \in Ledgers : l = NextOf(w) /\ l \notin Active
  BY NextType DEF MarkRolledBack, Locked, IInv, WorkersOK, HoldOK
<1>2. PICK kept \in SUBSET Active : kept = Active \ RolledBack(l)
  OBVIOUS
<1>3. Stack!IsCut(kept)
  BY <1>1, <1>2, KeptBelow DEF Stack!IsCut
<1>4. \A e \in events : e.ledger \in kept
  BY <1>1, <1>2 DEF MarkRolledBack, IInv, IndexOK, EventsBelong, WorkersOK, HoldOK
<1>5. \A p \in {<<e.ledger, e.op>> : e \in events} : p[1] \in kept
  BY <1>4
<1>6. Active' = kept /\ UNCHANGED events
  BY <1>1, <1>2, Dropped DEF MarkRolledBack
<1> QED BY <1>3, <1>5, <1>6 DEF Stack!Next, Stack!Drop

LEMMA PushStep ==
  ASSUME IInv, NEW w \in Workers, UpsertLedger(w)
  PROVE  Stack!Next
<1>1. PICK l \in Ledgers : l = NextOf(w) /\ l.number \in Nat
  BY NextType DEF UpsertLedger, Locked
<1>2. \A m \in Active : m.number < l.number
  BY <1>1 DEF UpsertLedger, IInv, WorkersOK, HoldOK
<1>3. l \notin Active
  BY <1>1, <1>2
<1>4. Active' = Active \cup {l} /\ UNCHANGED events
  BY <1>1, Upserted DEF UpsertLedger
<1>5. Stack!Push(l)
  BY <1>2, <1>4 DEF Stack!Push
<1> QED BY <1>3, <1>5 DEF Stack!Next

LEMMA CreditStep ==
  ASSUME IInv, NEW w \in Workers, UpsertPayment(w)
  PROVE  [Stack!Next]_(Stack!vars)
<1>1. PICK l \in Active : l = NextOf(w) /\ \A m \in Active : m.number <= l.number
  BY DEF UpsertPayment, IInv, WorkersOK, HoldOK
<1>2. PICK o \in served[w] :
        events' = IF \E e \in events : e.op = o
                    THEN events
                    ELSE events \cup {[op |-> o, ledger |-> l]}
  BY <1>1 DEF UpsertPayment
<1>3. Active' = Active
  BY SameRows DEF UpsertPayment
<1>4. CASE \E e \in events : e.op = o
  <2>1. events' = events
    BY <1>2, <1>4
  <2> QED BY <1>3, <2>1 DEF Stack!vars
<1>5. CASE ~ \E e \in events : e.op = o
  <2>1. o \in IdsFor(l.number)
    <3>1. \E m \in Ledgers : m.number = l.number /\ o \in OpsOf[m]
      BY <1>1 DEF UpsertPayment, IInv, WorkersOK, WorkOK, Locked
    <3> QED BY <3>1 DEF IdsFor
  <2>2. [n \in Nat |-> IdsFor(n)][l.number] = IdsFor(l.number)
    BY <1>1, ActiveLedgers, LedgersOK
  <2>3. \A p \in {<<e.ledger, e.op>> : e \in events} : p[2] # o
    BY <1>5
  <2>4. Credited' = Credited \cup {<<l, o>>}
    <3>1. \A e : e \in events' <=> e \in events \/ e = [op |-> o, ledger |-> l]
      BY <1>2, <1>5
    <3>2. \A p : p \in Credited' <=> \E e \in events' : p = <<e.ledger, e.op>>
      BY DEF Credited
    <3>3. \A p : p \in Credited <=> \E e \in events : p = <<e.ledger, e.op>>
      BY DEF Credited
    <3>4. [op |-> o, ledger |-> l].op = o /\ [op |-> o, ledger |-> l].ledger = l
      OBVIOUS
    <3>5. \A p : p \in Credited' <=> p \in Credited \cup {<<l, o>>}
      BY ONLY <3>1, <3>2, <3>3, <3>4
    <3> QED BY ONLY <3>5
  <2>5. Stack!Credit(l)
    BY <1>1, <1>3, <2>1, <2>2, <2>3, <2>4 DEF Stack!Credit, IdsFor, Credited
  <2> QED BY <2>5 DEF Stack!Next
<1> QED BY <1>4, <1>5

LEMMA HistoryStep ==
  IInv /\ [Next]_vars => [Stack!Next]_(Stack!vars)
<1> SUFFICES ASSUME IInv, [Next]_vars PROVE [Stack!Next]_(Stack!vars)
  OBVIOUS
<1>1. ASSUME UNCHANGED <<status, events>> PROVE UNCHANGED Stack!vars
  BY <1>1 DEF Stack!vars, Active
<1>2. ASSUME NEW w \in Workers, Ingest(w) PROVE [Stack!Next]_(Stack!vars)
  <2>1. CASE TakeLock(w) \/ Commit(w)
    BY <1>1, <2>1 DEF TakeLock, Commit, index
  <2> QED BY <1>2, <2>1, TakeBackStep, DropStep, PushStep, CreditStep DEF Ingest
<1>3. CASE UNCHANGED vars
  BY <1>1, <1>3 DEF vars
<1>4. ASSUME NEW w \in Workers,
             PollBegins(w) \/ LedgerFails(w) \/ PollFails(w) \/ Crash(w)
      PROVE  UNCHANGED <<status, events>>
  BY <1>4 DEF PollBegins, LedgerFails, PollFails, Crash, LeaveHalfway, index
<1>5. ASSUME NEW w \in Workers, NEW v \in Members,
             ResolveStart(w, v) \/ FetchLedgers(w, v) \/ FetchPayments(w, v)
      PROVE  UNCHANGED <<status, events>>
  BY <1>5 DEF ResolveStart, FetchLedgers, FetchPayments, index
<1>6. ASSUME NEW v \in Members, MemberAdvances(v) PROVE UNCHANGED <<status, events>>
  BY <1>6 DEF MemberAdvances, index
<1> QED BY <1>1, <1>2, <1>3, <1>4, <1>5, <1>6 DEF Next

\* The tables are the stack of LedgerHistory at every write, not only at the end
\* of a call, and wherever a failure ends one: nothing is credited below the
\* top, and no ledger leaves before its payments (ingestLedger, rollbackFrom).
THEOREM HistoryTheorem == Spec => KeepsHistory
<1>1. Init => Stack!Init
  BY DEF Init, Stack!Init, Active
<1> QED BY <1>1, HistoryStep, Invariant, PTL DEF Spec, KeepsHistory, Stack!Spec

-----------------------------------------------------------------------------
(* The payments of a ledger in force.                                      *)

OpsRecorded(l) == {e.op : e \in {f \in events : f.ledger = l}}

\* The payments on the first page of a ledger of this number.
IsPageOf(ops, n) == \E m \in Ledgers : m.number = n /\ ops = FirstPage(m)

\* Some of the payments on the first page of one ledger of this number; all of
\* them, unless a call is at it or was cut short.
RowsOK(l) ==
    \E m \in Ledgers :
        /\ m.number = l.number
        /\ OpsRecorded(l) \subseteq FirstPage(m)
        /\ OpsRecorded(l) = FirstPage(m) \/ l \in torn \/ Underway(l)

PageExact == \A l \in Active : RowsOK(l)

\* What a worker fetched is a page, until it begins to write it; then the page
\* is what it has written and what is left.
FetchedOK(w) ==
    /\ pc[w] \in {"ingest", "delete", "mark", "upsert"} => IsPageOf(served[w], NextOf(w).number)
    /\ pc[w] = "pay" => IsPageOf(OpsRecorded(NextOf(w)) \cup served[w], NextOf(w).number)

PageInv == PageExact /\ \A w \in Workers : FetchedOK(w)

OthersStay(w) ==
    \A u \in Workers \ {w} : pc'[u] = pc[u] /\ batch'[u] = batch[u] /\ served'[u] = served[u]

LEMMA OthersHalfway ==
  ASSUME IInv, NEW w \in Workers, OthersStay(w), status' = status \/ Locked(w),
         NEW u \in Workers \ {w}
  PROVE  Halfway(u)' = Halfway(u)
<1>1. pc'[u] = pc[u] /\ served'[u] = served[u] /\ NextOf(u)' = NextOf(u)
  BY NextSame DEF OthersStay
<1>2. CASE Locked(u)
  <2>1. RolledBack(NextOf(u))' = RolledBack(NextOf(u))
    BY <1>1, <1>2, SameRows DEF IInv, WorkersOK, OneHolder
  <2> QED BY <1>1, <2>1 DEF Halfway
<1>3. CASE ~Locked(u)
  BY <1>1, <1>3 DEF Halfway, Locked
<1> QED BY <1>2, <1>3

LEMMA OthersFetched ==
  ASSUME IInv, PageInv, NEW w \in Workers, OthersStay(w), events' = events \/ Locked(w),
         NEW u \in Workers \ {w}
  PROVE  FetchedOK(u)'
<1>1. pc'[u] = pc[u] /\ served'[u] = served[u] /\ NextOf(u)' = NextOf(u)
  BY NextSame DEF OthersStay
<1>2. FetchedOK(u)
  BY DEF PageInv
<1>3. pc[u] = "pay" => OpsRecorded(NextOf(u))' = OpsRecorded(NextOf(u))
  BY <1>1 DEF Locked, IInv, WorkersOK, OneHolder, OpsRecorded
<1> QED BY <1>1, <1>2, <1>3 DEF FetchedOK, IsPageOf, FirstPage

\* Who holds the lock is the only one that can be half way.
LEMMA OneUnderway ==
  ASSUME IInv, NEW w \in Workers, Locked(w), NEW l, Underway(l)
  PROVE  l \in Halfway(w)
<1>1. PICK u \in Workers : l \in Halfway(u)
  BY DEF Underway
<1>2. Locked(u)
  BY <1>1 DEF Halfway, Locked
<1> QED BY <1>1, <1>2 DEF IInv, WorkersOK, OneHolder

LEMMA RowsKept ==
  ASSUME NEW l, RowsOK(l), OpsRecorded(l)' = OpsRecorded(l),
         l \in torn \/ Underway(l) => (l \in torn \/ Underway(l))'
  PROVE  RowsOK(l)'
<1>1. PICK m \in Ledgers : /\ m.number = l.number
                           /\ OpsRecorded(l) \subseteq FirstPage(m)
                           /\ OpsRecorded(l) = FirstPage(m) \/ l \in torn \/ Underway(l)
  BY DEF RowsOK
<1>2. FirstPage(m)' = FirstPage(m)
  BY DEF FirstPage
<1> QED BY <1>1, <1>2 DEF RowsOK

\* A step that writes neither ledgers nor payments.
LEMMA NothingWritten ==
  ASSUME IInv, PageInv, NEW w \in Workers, OthersStay(w), UNCHANGED <<status, events>>,
         torn \subseteq torn', Halfway(w) \subseteq torn' \cup Halfway(w)'
  PROVE  PageExact'
<1> SUFFICES ASSUME NEW l \in Active' PROVE RowsOK(l)'
  BY DEF PageExact
<1>1. RowsOK(l) /\ OpsRecorded(l)' = OpsRecorded(l)
  BY SameRows DEF PageInv, PageExact, OpsRecorded
<1>2. ASSUME Underway(l) PROVE (l \in torn \/ Underway(l))'
  <2>1. PICK u \in Workers : l \in Halfway(u)
    BY <1>2 DEF Underway
  <2>2. CASE u = w
    BY <2>1, <2>2 DEF Underway
  <2>3. CASE u # w
    <3>1. Halfway(u)' = Halfway(u)
      BY <2>3, OthersHalfway
    <3> QED BY <2>1, <3>1 DEF Underway
  <2> QED BY <2>2, <2>3
<1> QED BY <1>1, <1>2, RowsKept

\* A ledger the holder is not half way through, and does not touch.
LEMMA Untouched ==
  ASSUME IInv, NEW w \in Workers, Locked(w), NEW l, RowsOK(l), l \notin Halfway(w),
         OpsRecorded(l)' = OpsRecorded(l), l \in torn => l \in torn'
  PROVE  RowsOK(l)'
  BY OneUnderway, RowsKept

-----------------------------------------------------------------------------
(* The steps.                                                              *)

LEMMA FreePages ==
  ASSUME IInv, PageInv, NEW w \in Workers,
         \/ PollBegins(w) \/ PollFails(w)
         \/ \E v \in Members : ResolveStart(w, v) \/ FetchLedgers(w, v)
  PROVE  PageInv'
<1>1. OthersStay(w) /\ UNCHANGED <<status, events, torn>>
  BY DEF PollBegins, PollFails, ResolveStart, FetchLedgers, index, IInv, WorkersOK, OthersStay
<1>2. pc[w] \in {"idle", "start", "fetch"} /\ pc'[w] \in {"idle", "start", "fetch", "payments"}
  BY DEF PollBegins, PollFails, ResolveStart, FetchLedgers, IInv, WorkersOK
<1>3. Halfway(w) = {} /\ FetchedOK(w)'
  BY <1>2 DEF Halfway, FetchedOK
<1> QED BY <1>1, <1>3, NothingWritten, OthersFetched DEF PageInv

LEMMA FetchPages ==
  ASSUME IInv, PageInv, NEW w \in Workers, NEW v \in Members, FetchPayments(w, v)
  PROVE  PageInv'
<1>1. PICK l \in Serves(v) : /\ l.number = NextOf(w).number
                             /\ served' = [served EXCEPT ![w] = FirstPage(l)]
  BY DEF FetchPayments
<1>2. l \in Ledgers
  BY HistoryOK DEF Serves
<1>3. /\ pc[w] = "payments" /\ pc' = [pc EXCEPT ![w] = "ingest"]
      /\ UNCHANGED <<status, events, torn, batch>>
  BY DEF FetchPayments, index
<1>4. OthersStay(w) /\ pc'[w] = "ingest" /\ served'[w] = FirstPage(l) /\ NextOf(w)' = NextOf(w)
  BY <1>1, <1>3, NextSame DEF IInv, WorkersOK, OthersStay
<1>5. IsPageOf(served'[w], NextOf(w)'.number)
  BY <1>1, <1>2, <1>4 DEF IsPageOf
<1>6. FetchedOK(w)'
  BY <1>4, <1>5 DEF FetchedOK, IsPageOf, FirstPage
<1>7. Halfway(w) = {}
  BY <1>3 DEF Halfway
<1> QED BY <1>3, <1>4, <1>6, <1>7, NothingWritten, OthersFetched DEF PageInv

\* The worker is done with its ledger, or stops.
LEMMA LeavePages ==
  ASSUME IInv, PageInv, NEW w \in Workers, Proceed(w) \/ Crash(w),
         UNCHANGED <<status, events>>, torn \subseteq torn', Halfway(w) \subseteq torn'
  PROVE  PageInv'
<1>1. OthersStay(w)
  BY DEF Proceed, Crash, IInv, WorkersOK, OthersStay
<1>2. pc'[w] \in {"idle", "payments"}
  BY DEF Proceed, Crash, IInv, WorkersOK
<1>3. FetchedOK(w)'
  BY <1>2 DEF FetchedOK
<1> QED BY <1>1, <1>3, NothingWritten, OthersFetched DEF PageInv

LEMMA TakePages ==
  ASSUME IInv, PageInv, NEW w \in Workers, TakeLock(w)
  PROVE  PageInv'
<1>1. pc[w] = "ingest" /\ UNCHANGED <<status, events, torn>>
  BY DEF TakeLock, index
<1>2. Halfway(w) = {}
  BY <1>1 DEF Halfway
<1>3. CASE NextOf(w) \in Active
  BY <1>1, <1>2, <1>3, LeavePages DEF TakeLock
<1>4. CASE NextOf(w) \notin Active
  <2>1. PICK label \in {"delete", "upsert"} : pc' = [pc EXCEPT ![w] = label]
    BY <1>4 DEF TakeLock, Goto
  <2>2. UNCHANGED <<batch, served>>
    BY <1>4 DEF TakeLock
  <2>3. OthersStay(w) /\ pc'[w] = label /\ NextOf(w)' = NextOf(w)
    BY <2>1, <2>2, NextSame DEF IInv, WorkersOK, OthersStay
  <2>4. FetchedOK(w)'
    BY <1>1, <2>2, <2>3 DEF PageInv, FetchedOK, IsPageOf, FirstPage
  <2> QED BY <1>1, <1>2, <2>3, <2>4, NothingWritten, OthersFetched DEF PageInv
<1> QED BY <1>3, <1>4

LEMMA DeletePages ==
  ASSUME IInv, PageInv, NEW w \in Workers, DeleteEvents(w)
  PROVE  PageInv'
<1>1. /\ pc[w] = "delete" /\ pc' = [pc EXCEPT ![w] = "mark"] /\ Locked(w)
      /\ events' = {e \in events : e.ledger \notin RolledBack(NextOf(w))}
      /\ UNCHANGED <<status, torn, batch, served>>
  BY DEF DeleteEvents, Goto, Locked
<1>2. OthersStay(w) /\ pc'[w] = "mark" /\ NextOf(w)' = NextOf(w)
  BY <1>1, NextSame DEF IInv, WorkersOK, OthersStay
<1>3. FetchedOK(w)'
  BY <1>1, <1>2 DEF PageInv, FetchedOK, IsPageOf, FirstPage
<1>4. ASSUME NEW l \in Active' PROVE RowsOK(l)'
  <2>1. RowsOK(l) /\ l \in Ledgers
    BY <1>1, SameRows, ActiveLedgers DEF PageInv, PageExact
  <2>2. CASE l \in RolledBack(NextOf(w))
    <3>1. OpsRecorded(l)' = {}
      BY <1>1, <2>2 DEF OpsRecorded
    <3>2. Underway(l)'
      <4>1. l \in Halfway(w)'
        BY <1>1, <1>2, <2>2, SameRows DEF Halfway
      <4> QED BY <4>1 DEF Underway
    <3> QED BY <2>1, <3>1, <3>2 DEF RowsOK
  <2>3. CASE l \notin RolledBack(NextOf(w))
    <3>1. OpsRecorded(l)' = OpsRecorded(l)
      <4>1. {f \in events' : f.ledger = l} = {f \in events : f.ledger = l}
        BY <1>1, <2>3
      <4> QED BY <4>1 DEF OpsRecorded
    <3>2. l \notin Halfway(w)
      BY <1>1 DEF Halfway
    <3> QED BY <1>1, <2>1, <3>1, <3>2, Untouched
  <2> QED BY <2>2, <2>3
<1> QED BY <1>1, <1>2, <1>3, <1>4, OthersFetched DEF PageInv, PageExact

LEMMA MarkPages ==
  ASSUME IInv, PageInv, NEW w \in Workers, MarkRolledBack(w)
  PROVE  PageInv'
<1>1. /\ pc[w] = "mark" /\ pc' = [pc EXCEPT ![w] = "upsert"] /\ Locked(w)
      /\ torn' = torn \ RolledBack(NextOf(w))
      /\ UNCHANGED <<events, batch, served>>
  BY DEF MarkRolledBack, Goto, Locked
<1>2. OthersStay(w) /\ pc'[w] = "upsert" /\ NextOf(w)' = NextOf(w)
  BY <1>1, NextSame DEF IInv, WorkersOK, OthersStay
<1>3. FetchedOK(w)'
  BY <1>1, <1>2 DEF PageInv, FetchedOK, IsPageOf, FirstPage
<1>4. ASSUME NEW l \in Active' PROVE RowsOK(l)'
  <2>1. l \in Active /\ l \notin RolledBack(NextOf(w))
    BY Dropped
  <2>2. RowsOK(l) /\ OpsRecorded(l)' = OpsRecorded(l) /\ l \notin Halfway(w)
    BY <1>1, <2>1 DEF PageInv, PageExact, OpsRecorded, Halfway
  <2> QED BY <1>1, <2>1, <2>2, Untouched
<1> QED BY <1>1, <1>2, <1>3, <1>4, OthersFetched DEF PageInv, PageExact

LEMMA UpsertPages ==
  ASSUME IInv, PageInv, NEW w \in Workers, UpsertLedger(w)
  PROVE  PageInv'
<1>1. /\ pc[w] = "upsert" /\ pc' = [pc EXCEPT ![w] = "pay"] /\ Locked(w)
      /\ UNCHANGED <<events, torn, batch, served>>
  BY DEF UpsertLedger, Goto, Locked
<1>2. OthersStay(w) /\ pc'[w] = "pay" /\ NextOf(w)' = NextOf(w)
  BY <1>1, NextSame DEF IInv, WorkersOK, OthersStay
<1>3. PICK l \in Ledgers : l = NextOf(w) /\ l.number \in Nat /\ l \notin Active
  BY <1>1, NextType DEF IInv, WorkersOK, HoldOK
<1>4. OpsRecorded(l) = {} /\ OpsRecorded(l)' = {}
  BY <1>1, <1>3 DEF OpsRecorded, IInv, IndexOK, EventsBelong
<1>5. PICK m \in Ledgers : m.number = l.number /\ served[w] = FirstPage(m)
  BY <1>1, <1>3 DEF PageInv, FetchedOK, IsPageOf
<1>6. FirstPage(m)' = FirstPage(m)
  BY DEF FirstPage
<1>7. FetchedOK(w)'
  <2>1. (OpsRecorded(NextOf(w)) \cup served[w])' = FirstPage(m)'
    BY <1>1, <1>2, <1>3, <1>4, <1>5, <1>6
  <2> QED BY <1>2, <1>3, <1>5, <2>1 DEF FetchedOK, IsPageOf
<1>8. RowsOK(l)'
  <2>1. served[w] # {} => Underway(l)'
    BY <1>1, <1>2, <1>3 DEF Halfway, Underway
  <2> QED BY <1>4, <1>5, <1>6, <2>1 DEF RowsOK
<1>9. ASSUME NEW k \in Active PROVE RowsOK(k)'
  <2>1. RowsOK(k) /\ OpsRecorded(k)' = OpsRecorded(k) /\ k \notin Halfway(w)
    BY <1>1 DEF PageInv, PageExact, OpsRecorded, Halfway
  <2> QED BY <1>1, <2>1, Untouched
<1>10. Active' = Active \cup {l}
  BY <1>3, Upserted
<1> QED BY <1>1, <1>2, <1>7, <1>8, <1>9, <1>10, OthersFetched DEF PageInv, PageExact

\* An operation that has a row has it with the ledger that is being filled.
LEMMA SameLedger ==
  ASSUME IInv, PageInv, NEW w \in Workers, pc[w] = "pay", NEW o \in served[w],
         NEW e \in events, e.op = o
  PROVE  e.ledger = NextOf(w)
<1>1. PICK m \in Ledgers : m.number = NextOf(w).number /\ o \in FirstPage(m)
  BY DEF PageInv, FetchedOK, IsPageOf
<1>2. e.ledger \in Active
  BY DEF IInv, IndexOK, EventsBelong
<1>3. PICK k \in Ledgers : k.number = e.ledger.number /\ OpsRecorded(e.ledger) \subseteq FirstPage(k)
  BY <1>2 DEF PageInv, PageExact, RowsOK
<1>4. o \in OpsOf[k] /\ o \in OpsOf[m]
  <2>1. o \in OpsRecorded(e.ledger)
    BY DEF OpsRecorded
  <2> QED BY <1>1, <1>3, <2>1 DEF FirstPage
<1>5. e.ledger.number = NextOf(w).number
  BY <1>1, <1>3, <1>4, OpsOK
<1>6. NextOf(w) \in Active
  BY DEF IInv, WorkersOK, HoldOK
<1> QED BY <1>2, <1>5, <1>6 DEF IInv, IndexOK, OneLedgerPerSequence

LEMMA PaymentPages ==
  ASSUME IInv, PageInv, NEW w \in Workers, UpsertPayment(w)
  PROVE  PageInv'
<1>1. /\ pc[w] = "pay" /\ Locked(w) /\ UNCHANGED <<status, torn, pc, batch>>
  BY DEF UpsertPayment, Locked
<1>2. PICK l \in Active : l = NextOf(w)
  BY <1>1 DEF IInv, WorkersOK, HoldOK
<1>3. PICK o \in served[w] :
        /\ events' = IF \E e \in events : e.op = o
                       THEN events
                       ELSE events \cup {[op |-> o, ledger |-> l]}
        /\ served' = [served EXCEPT ![w] = @ \ {o}]
  BY <1>2 DEF UpsertPayment
<1>4. /\ OthersStay(w) /\ pc'[w] = "pay" /\ served'[w] = served[w] \ {o}
      /\ NextOf(w)' = l /\ Active' = Active
  BY <1>1, <1>2, <1>3, NextSame, SameRows DEF IInv, WorkersOK, OthersStay
<1>5. OpsRecorded(l)' = OpsRecorded(l) \cup {o}
  <2>1. CASE \E e \in events : e.op = o
    <3>1. PICK e \in events : e.op = o
      BY <2>1
    <3>2. e.ledger = l
      BY <1>1, <1>2, <3>1, SameLedger
    <3>3. o \in OpsRecorded(l)
      BY <3>1, <3>2 DEF OpsRecorded
    <3>4. events' = events
      BY <1>3, <2>1
    <3> QED BY <3>3, <3>4 DEF OpsRecorded
  <2>2. CASE ~ \E e \in events : e.op = o
    <3>1. PICK new : new = [op |-> o, ledger |-> l]
      OBVIOUS
    <3>2. events' = events \cup {new} /\ new.op = o /\ new.ledger = l
      BY <1>3, <2>2, <3>1
    <3>3. {f \in events' : f.ledger = l} = {f \in events : f.ledger = l} \cup {new}
      BY <3>2
    <3> QED BY <3>2, <3>3 DEF OpsRecorded
  <2> QED BY <2>1, <2>2
<1>6. ASSUME NEW k \in Active, k # l PROVE OpsRecorded(k)' = OpsRecorded(k)
  <2>1. {f \in events' : f.ledger = k} = {f \in events : f.ledger = k}
    BY <1>3, <1>6
  <2> QED BY <2>1 DEF OpsRecorded
<1>7. PICK m \in Ledgers : m.number = l.number /\ OpsRecorded(l) \cup served[w] = FirstPage(m)
  BY <1>1, <1>2 DEF PageInv, FetchedOK, IsPageOf
<1>8. FirstPage(m)' = FirstPage(m)
  BY DEF FirstPage
<1>9. OpsRecorded(l)' \cup served'[w] = FirstPage(m)
  BY <1>3, <1>4, <1>5, <1>7
<1>10. FetchedOK(w)'
  <2>1. (OpsRecorded(NextOf(w)) \cup served[w])' = FirstPage(m)'
    BY <1>4, <1>8, <1>9
  <2> QED BY <1>4, <1>7, <2>1 DEF FetchedOK, IsPageOf
<1>11. RowsOK(l)'
  <2>1. served'[w] # {} => Underway(l)'
    BY <1>4 DEF Halfway, Underway
  <2> QED BY <1>7, <1>8, <1>9, <2>1 DEF RowsOK
<1>12. ASSUME NEW k \in Active, k # l PROVE RowsOK(k)'
  <2>1. RowsOK(k) /\ k \notin Halfway(w)
    BY <1>1, <1>2, <1>12 DEF PageInv, PageExact, Halfway
  <2> QED BY <1>1, <1>6, <1>12, <2>1, Untouched
<1> QED BY <1>1, <1>4, <1>10, <1>11, <1>12, OthersFetched DEF PageInv, PageExact

LEMMA PagesSame ==
  ASSUME PageInv, UNCHANGED <<status, events, torn, pc, batch, served>>
  PROVE  PageInv'
<1>1. \A w \in Workers : Halfway(w)' = Halfway(w) /\ FetchedOK(w)'
  <2> SUFFICES ASSUME NEW w \in Workers PROVE Halfway(w)' = Halfway(w) /\ FetchedOK(w)'
    OBVIOUS
  <2>1. NextOf(w)' = NextOf(w) /\ RolledBack(NextOf(w))' = RolledBack(NextOf(w))
    BY NextSame, SameRows
  <2>2. Halfway(w)' = Halfway(w)
    BY <2>1 DEF Halfway
  <2>3. OpsRecorded(NextOf(w))' = OpsRecorded(NextOf(w))
    BY <2>1 DEF OpsRecorded
  <2> QED BY <2>1, <2>2, <2>3 DEF PageInv, FetchedOK, IsPageOf, FirstPage
<1>2. ASSUME NEW l \in Active PROVE RowsOK(l)'
  <2>1. RowsOK(l) /\ OpsRecorded(l)' = OpsRecorded(l)
    BY DEF PageInv, PageExact, OpsRecorded
  <2>2. Underway(l) => Underway(l)'
    BY <1>1 DEF Underway
  <2>3. torn' = torn
    OBVIOUS
  <2> QED BY <2>1, <2>2, <2>3, RowsKept
<1> QED BY <1>1, <1>2, SameRows DEF PageInv, PageExact

LEMMA PageStep ==
  ASSUME IInv, PageInv, Next
  PROVE  PageInv'
<1>1. ASSUME NEW w \in Workers, Commit(w) PROVE PageInv'
  <2>1. Halfway(w) = {}
    BY <1>1 DEF Commit, Halfway
  <2> QED BY <1>1, <2>1, LeavePages DEF Commit, index
<1>2. ASSUME NEW w \in Workers, LedgerFails(w) \/ Crash(w) PROVE PageInv'
  BY <1>2, LeavePages DEF LedgerFails, Crash, LeaveHalfway
<1>3. ASSUME NEW v \in Members, MemberAdvances(v) PROVE PageInv'
  BY <1>3, PagesSame DEF MemberAdvances, index, locals
<1> QED BY <1>1, <1>2, <1>3, FreePages, FetchPages, TakePages, DeletePages, MarkPages,
           UpsertPages, PaymentPages DEF Next, Ingest

\* Whatever was rolled back, taken up again, fetched by one worker and ingested
\* by another: the rows of a ledger in force are of one answer to the request
\* for its operations, never mixed with a rival's, and they are the whole answer
\* unless a call is at the ledger or a failure cut one short (ingestLedger).
THEOREM PageTheorem == Spec => []PageExact
<1>1. Init => PageInv
  BY DEF Init, PageInv, PageExact, FetchedOK, Active
<1>2. IInv /\ PageInv /\ [Next]_vars => PageInv'
  BY PageStep, PagesSame DEF vars
<1>3. PageInv => PageExact
  BY DEF PageInv
<1> QED BY <1>1, <1>2, <1>3, Invariant, PTL DEF Spec

\* The operations of a ledger fit on the one page that is asked for.
PagesHold ==
    \A l \in Ledgers : IsFiniteSet(OpsOf[l]) /\ Cardinality(OpsOf[l]) <= PageSize

LEMMA PageIsAll ==
  ASSUME PagesHold, NEW l \in Ledgers
  PROVE  FirstPage(l) = Payments(l)
<1> SUFFICES ASSUME NEW o \in OpsOf[l]
             PROVE  Cardinality({p \in OpsOf[l] : p < o}) < PageSize
  BY DEF FirstPage, Payments
<1> DEFINE S == OpsOf[l]
           T == {p \in S : p < o}
<1>1. IsFiniteSet(S) /\ Cardinality(S) <= PageSize /\ S \in SUBSET Nat /\ T \in SUBSET S
  BY OpsOK DEF PagesHold
<1>2. o \in S /\ o \notin T
  BY <1>1
<1> HIDE DEF S, T
<1>3. /\ IsFiniteSet(T) /\ Cardinality(T) <= Cardinality(S)
      /\ (Cardinality(S) = Cardinality(T) => S = T)
  BY <1>1, FS_Subset
<1>4. Cardinality(T) \in Nat /\ Cardinality(S) \in Nat
  BY <1>1, <1>3, FS_CardinalityType
<1>5. Cardinality(T) < PageSize
  BY <1>1, <1>2, <1>3, <1>4, BoundsOK
<1> QED BY <1>5 DEF S, T

\* If no ledger has more operations than a page, a ledger in force has payments
\* of one ledger of its sequence and no others, and all of them unless a call is
\* at it or was cut short.
THEOREM EventsExactTheorem ==
  ASSUME PagesHold
  PROVE  Spec => []EventsExact
<1>1. PageExact => EventsExact
  BY PageIsAll DEF PageExact, RowsOK, OpsRecorded, EventsExact
<1> QED BY <1>1, PageTheorem, PTL

=============================================================================
