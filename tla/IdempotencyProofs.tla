------------------------- MODULE IdempotencyProofs -------------------------
(***************************************************************************)
(* Theorems about Idempotency, for any requests, instances and faults.     *)
(***************************************************************************)
EXTENDS Idempotency, TLAPS

\* A captured response is on its way only behind the handler, and a
\* response is stored only for an operation that took effect.
CaptureInv ==
    \A r \in Requests :
        /\ releases[r] > 0 => pc[r] = "answered"
        /\ stores[r] > 0 => releases[r] = Captures /\ outcome[r] = "done"
        /\ pc[r] \in {"idle", "look", "lock", "replayed", "refused"} => outcome[r] = "none"

\* Without the reasons of OneAtATime, a request that is handled has the lock.
LockInv ==
    met \cap {"unguarded", "lapse", "late"} = {} =>
        \A r \in Requests : pc[r] \in Executing => pc[r] = "handling" /\ lock = r

\* Without any reason, a response that is still to be stored keeps the lock, no request
\* is handled once a response is stored, and what is done is stored or going to be.
StoreInv ==
    met = {} =>
        \A r \in Requests :
            /\ stores[r] > 0 => lock = r
            /\ pc[r] \in Executing => result = Nobody
            /\ outcome[r] = "done" /\ result = Nobody => pc[r] = "handling" \/ stores[r] > 0

IInv == TypeOK /\ CaptureInv /\ LockInv /\ StoreInv /\ DoneOnce

LEMMA InitIInv == Init => IInv
<1> SUFFICES ASSUME Init PROVE IInv
  OBVIOUS
<1>0. \A r \in Requests : /\ ~(stores[r] > 0) /\ ~(releases[r] > 0)
                         /\ pc[r] = "idle" /\ outcome[r] = "none"
  <2> TAKE r \in Requests
  <2>1. stores[r] = 0 /\ releases[r] = 0
    BY DEF Init
  <2> QED BY <2>1 DEF Init
<1>1. TypeOK
  BY DEF Init, TypeOK, Captures, Labels, Reasons
<1>2. CaptureInv
  BY <1>0 DEF CaptureInv
<1>3. LockInv
  BY <1>0 DEF LockInv, Executing
<1>4. StoreInv
  BY <1>0 DEF StoreInv, Executing
<1>5. DoneOnce
  BY <1>0 DEF DoneOnce
<1> QED BY <1>1, <1>2, <1>3, <1>4, <1>5 DEF IInv

LEMMA ArriveStep ==
  ASSUME IInv, NEW r \in Requests, Arrive(r)
  PROVE  IInv'
<1> USE NobodyOK DEF Arrive, Goto, sending
<1>1. TypeOK'
  BY DEF IInv, TypeOK, Captures, Labels, Reasons, Executing
<1>2. CaptureInv'
  BY DEF IInv, TypeOK, CaptureInv, Captures, Executing
<1>3. LockInv'
  BY DEF IInv, TypeOK, CaptureInv, LockInv, Executing
<1>4. StoreInv'
  BY DEF IInv, TypeOK, CaptureInv, LockInv, StoreInv, Executing, Captures
<1>5. DoneOnce'
  BY DEF IInv, TypeOK, CaptureInv, LockInv, StoreInv, DoneOnce, Executing
<1> QED BY <1>1, <1>2, <1>3, <1>4, <1>5 DEF IInv

LEMMA LookStep ==
  ASSUME IInv, NEW r \in Requests, Look(r)
  PROVE  IInv'
<1> USE NobodyOK DEF Look, Goto, sending
<1>1. TypeOK'
  BY DEF IInv, TypeOK, Captures, Labels, Reasons, Executing
<1>2. CaptureInv'
  BY DEF IInv, TypeOK, CaptureInv, Captures, Executing
<1>3. LockInv'
  BY DEF IInv, TypeOK, CaptureInv, LockInv, Executing
<1>4. StoreInv'
  BY DEF IInv, TypeOK, CaptureInv, LockInv, StoreInv, Executing, Captures
<1>5. DoneOnce'
  BY DEF IInv, TypeOK, CaptureInv, LockInv, StoreInv, DoneOnce, Executing
<1> QED BY <1>1, <1>2, <1>3, <1>4, <1>5 DEF IInv

LEMMA AcquireLockStep ==
  ASSUME IInv, NEW r \in Requests, AcquireLock(r)
  PROVE  IInv'
<1> USE NobodyOK DEF AcquireLock, Goto, sending
<1>1. TypeOK'
  BY DEF IInv, TypeOK, Captures, Labels, Reasons, Executing
<1>2. CaptureInv'
  BY DEF IInv, TypeOK, CaptureInv, Captures, Executing
<1>3. LockInv'
  BY DEF IInv, TypeOK, CaptureInv, LockInv, Executing
<1>4. StoreInv'
  BY DEF IInv, TypeOK, CaptureInv, LockInv, StoreInv, Executing, Captures
<1>5. DoneOnce'
  BY DEF IInv, TypeOK, CaptureInv, LockInv, StoreInv, DoneOnce, Executing
<1> QED BY <1>1, <1>2, <1>3, <1>4, <1>5 DEF IInv

LEMMA PerformStep ==
  ASSUME IInv, NEW r \in Requests, Perform(r)
  PROVE  IInv'
<1> USE NobodyOK DEF Perform, Goto, sending
<1>1. TypeOK'
  BY DEF IInv, TypeOK, Captures, Labels, Reasons, Executing
<1>2. CaptureInv'
  BY DEF IInv, TypeOK, CaptureInv, Captures, Executing
<1>3. LockInv'
  BY DEF IInv, TypeOK, CaptureInv, LockInv, Executing
<1>4. StoreInv'
  BY DEF IInv, TypeOK, CaptureInv, LockInv, StoreInv, Executing, Captures
<1>5. DoneOnce'
  BY DEF IInv, TypeOK, CaptureInv, LockInv, StoreInv, DoneOnce, Executing
<1> QED BY <1>1, <1>2, <1>3, <1>4, <1>5 DEF IInv

LEMMA AnswerStep ==
  ASSUME IInv, NEW r \in Requests, Answer(r)
  PROVE  IInv'
<1> USE NobodyOK DEF Answer, Goto, sending
<1>1. TypeOK'
  BY DEF IInv, TypeOK, Captures, Labels, Reasons, Executing
<1>2. CaptureInv'
  BY DEF IInv, TypeOK, CaptureInv, Captures, Executing
<1>3. LockInv'
  BY DEF IInv, TypeOK, CaptureInv, LockInv, Executing
<1>4. StoreInv'
  BY DEF IInv, TypeOK, CaptureInv, LockInv, StoreInv, Executing, Captures
<1>5. DoneOnce'
  BY DEF IInv, TypeOK, CaptureInv, LockInv, StoreInv, DoneOnce, Executing
<1> QED BY <1>1, <1>2, <1>3, <1>4, <1>5 DEF IInv

LEMMA StoreStep ==
  ASSUME IInv, NEW r \in Requests, Store(r)
  PROVE  IInv'
<1> USE NobodyOK DEF Store, Goto, sending
<1>1. TypeOK'
  BY DEF IInv, TypeOK, Captures, Labels, Reasons, Executing
<1>2. CaptureInv'
  BY DEF IInv, TypeOK, CaptureInv, Captures, Executing
<1>3. LockInv'
  BY DEF IInv, TypeOK, CaptureInv, LockInv, Executing
<1>4. StoreInv'
  BY DEF IInv, TypeOK, CaptureInv, LockInv, StoreInv, Executing, Captures
<1>5. DoneOnce'
  BY DEF IInv, TypeOK, CaptureInv, LockInv, StoreInv, DoneOnce, Executing
<1> QED BY <1>1, <1>2, <1>3, <1>4, <1>5 DEF IInv

LEMMA ReleaseStep ==
  ASSUME IInv, NEW r \in Requests, Release(r)
  PROVE  IInv'
<1> USE NobodyOK DEF Release, Goto, sending
<1>1. TypeOK'
  BY DEF IInv, TypeOK, Captures, Labels, Reasons, Executing
<1>2. CaptureInv'
  BY DEF IInv, TypeOK, CaptureInv, Captures, Executing
<1>3. LockInv'
  BY DEF IInv, TypeOK, CaptureInv, LockInv, Executing
<1>4. StoreInv'
  BY DEF IInv, TypeOK, CaptureInv, LockInv, StoreInv, Executing, Captures
<1>5. DoneOnce'
  BY DEF IInv, TypeOK, CaptureInv, LockInv, StoreInv, DoneOnce, Executing
<1> QED BY <1>1, <1>2, <1>3, <1>4, <1>5 DEF IInv

LEMMA FailsOpenStep ==
  ASSUME IInv, NEW r \in Requests, FailsOpen(r)
  PROVE  IInv'
<1> USE NobodyOK DEF FailsOpen, Goto, sending, Fault
<1>1. TypeOK'
  BY DEF IInv, TypeOK, Captures, Labels, Reasons, Executing
<1>2. CaptureInv'
  BY DEF IInv, TypeOK, CaptureInv, Captures, Executing
<1>3. LockInv'
  BY DEF IInv, TypeOK, CaptureInv, LockInv, Executing
<1>4. StoreInv'
  BY DEF IInv, TypeOK, CaptureInv, LockInv, StoreInv, Executing, Captures
<1>5. DoneOnce'
  BY DEF IInv, TypeOK, CaptureInv, LockInv, StoreInv, DoneOnce, Executing
<1> QED BY <1>1, <1>2, <1>3, <1>4, <1>5 DEF IInv

LEMMA StoreFailsStep ==
  ASSUME IInv, NEW r \in Requests, StoreFails(r)
  PROVE  IInv'
<1> USE NobodyOK DEF StoreFails, Goto, sending, Fault
<1>1. TypeOK'
  BY DEF IInv, TypeOK, Captures, Labels, Reasons, Executing
<1>2. CaptureInv'
  BY DEF IInv, TypeOK, CaptureInv, Captures, Executing
<1>3. LockInv'
  BY DEF IInv, TypeOK, CaptureInv, LockInv, Executing
<1>4. StoreInv'
  BY DEF IInv, TypeOK, CaptureInv, LockInv, StoreInv, Executing, Captures
<1>5. DoneOnce'
  BY DEF IInv, TypeOK, CaptureInv, LockInv, StoreInv, DoneOnce, Executing
<1> QED BY <1>1, <1>2, <1>3, <1>4, <1>5 DEF IInv

LEMMA ReleaseFailsStep ==
  ASSUME IInv, NEW r \in Requests, ReleaseFails(r)
  PROVE  IInv'
<1> USE NobodyOK DEF ReleaseFails, Goto, sending, Fault
<1>1. TypeOK'
  BY DEF IInv, TypeOK, Captures, Labels, Reasons, Executing
<1>2. CaptureInv'
  BY DEF IInv, TypeOK, CaptureInv, Captures, Executing
<1>3. LockInv'
  BY DEF IInv, TypeOK, CaptureInv, LockInv, Executing
<1>4. StoreInv'
  BY DEF IInv, TypeOK, CaptureInv, LockInv, StoreInv, Executing, Captures
<1>5. DoneOnce'
  BY DEF IInv, TypeOK, CaptureInv, LockInv, StoreInv, DoneOnce, Executing
<1> QED BY <1>1, <1>2, <1>3, <1>4, <1>5 DEF IInv

LEMMA LockExpiresStep ==
  ASSUME IInv, LockExpires
  PROVE  IInv'
<1> USE NobodyOK DEF LockExpires, Goto, sending, Fault, AtWork
<1>1. TypeOK'
  <2>0. /\ lock' \in Requests \cup {Nobody}
        /\ UNCHANGED <<result, pc, outcome, stores, releases>>
    OBVIOUS
  <2>1. CASE AtWork(lock)
    <3>1. met' \subseteq Reasons
      BY <2>1 DEF IInv, TypeOK, Reasons
    <3>2. faults' \in Nat
      BY <2>1 DEF IInv, TypeOK
    <3> QED BY <2>0, <3>1, <3>2 DEF IInv, TypeOK
  <2>2. CASE ~AtWork(lock)
    BY <2>0, <2>2 DEF IInv, TypeOK
  <2> QED BY <2>1, <2>2
<1>2. CaptureInv'
  BY DEF IInv, TypeOK, CaptureInv, Captures, Executing
<1>3. LockInv'
  BY DEF IInv, TypeOK, CaptureInv, LockInv, Executing
<1>4. StoreInv'
  BY DEF IInv, TypeOK, CaptureInv, LockInv, StoreInv, Executing, Captures
<1>5. DoneOnce'
  BY DEF IInv, TypeOK, CaptureInv, LockInv, StoreInv, DoneOnce, Executing
<1> QED BY <1>1, <1>2, <1>3, <1>4, <1>5 DEF IInv

LEMMA CrashStep ==
  ASSUME IInv, NEW i \in Instances, Crash(i)
  PROVE  IInv'
<1> USE NobodyOK DEF Crash, Goto, sending, Fault, Underway
<1>1. TypeOK'
  BY DEF IInv, TypeOK, Captures, Labels, Reasons, Executing
<1>2. CaptureInv'
  BY DEF IInv, TypeOK, CaptureInv, Captures, Executing
<1>3. LockInv'
  BY DEF IInv, TypeOK, CaptureInv, LockInv, Executing
<1>4. StoreInv'
  BY DEF IInv, TypeOK, CaptureInv, LockInv, StoreInv, Executing, Captures
<1>5. DoneOnce'
  BY DEF IInv, TypeOK, CaptureInv, LockInv, StoreInv, DoneOnce, Executing
<1> QED BY <1>1, <1>2, <1>3, <1>4, <1>5 DEF IInv

LEMMA NextIInv == IInv /\ [Next]_vars => IInv'
<1> SUFFICES ASSUME IInv, [Next]_vars PROVE IInv'
  OBVIOUS
<1>1. ASSUME NEW r \in Requests, Arrive(r) PROVE IInv'
  BY <1>1, ArriveStep
<1>2. ASSUME NEW r \in Requests, Look(r) PROVE IInv'
  BY <1>2, LookStep
<1>3. ASSUME NEW r \in Requests, AcquireLock(r) PROVE IInv'
  BY <1>3, AcquireLockStep
<1>4. ASSUME NEW r \in Requests, Perform(r) PROVE IInv'
  BY <1>4, PerformStep
<1>5. ASSUME NEW r \in Requests, Answer(r) PROVE IInv'
  BY <1>5, AnswerStep
<1>6. ASSUME NEW r \in Requests, Store(r) PROVE IInv'
  BY <1>6, StoreStep
<1>7. ASSUME NEW r \in Requests, Release(r) PROVE IInv'
  BY <1>7, ReleaseStep
<1>8. ASSUME NEW r \in Requests, FailsOpen(r) PROVE IInv'
  BY <1>8, FailsOpenStep
<1>9. ASSUME NEW r \in Requests, StoreFails(r) PROVE IInv'
  BY <1>9, StoreFailsStep
<1>10. ASSUME NEW r \in Requests, ReleaseFails(r) PROVE IInv'
  BY <1>10, ReleaseFailsStep
<1>11. CASE LockExpires
  BY <1>11, LockExpiresStep
<1>12. ASSUME NEW i \in Instances, Crash(i) PROVE IInv'
  BY <1>12, CrashStep
<1>13. CASE UNCHANGED vars
  BY <1>13 DEF vars, IInv, TypeOK, CaptureInv, LockInv, StoreInv, DoneOnce
<1> QED BY <1>1, <1>2, <1>3, <1>4, <1>5, <1>6, <1>7, <1>8, <1>9, <1>10, <1>11, <1>12, <1>13 DEF Next, Step

THEOREM Invariance == Spec => []IInv
<1> QED BY InitIInv, NextIInv, PTL DEF Spec

\* Every variable keeps its type.
THEOREM TypeCorrect == Spec => []TypeOK
<1>1. IInv => TypeOK
  BY DEF IInv
<1> QED BY <1>1, Invariance, PTL

\* Requests with one key are handled at the same time only for one of three reasons.
THEOREM HandledOneAtATime == Spec => []OneAtATime
<1>1. IInv => OneAtATime
  BY DEF IInv, LockInv, OneAtATime
<1> QED BY <1>1, Invariance, PTL

\* The operation behind a key takes effect twice only for one of the five reasons.
THEOREM DoneAtMostOnce == Spec => []DoneOnce
<1>1. IInv => DoneOnce
  BY DEF IInv
<1> QED BY <1>1, Invariance, PTL

=============================================================================
