-------------------------- MODULE GasStationProofs --------------------------
(***************************************************************************)
(* Proofs about GasStation, for any number of pods, requests, students and *)
(* transactions and for any faults.                                        *)
(*                                                                         *)
(* The inductive invariant has four parts beside the types: what the label *)
(* of a request says of its charge and its attempts (LocalInv), who may    *)
(* run a callback (TurnInv), who owns a replay slot (SlotInv), and which   *)
(* charge backs a fee-bump that the ledger may keep (PaidInv).  The quota  *)
(* rests on them and on sums of fees, whose laws are proved first: a sum   *)
(* does not depend on the order in which it is taken (Tally).              *)
(***************************************************************************)
EXTENDS GasStation, SequenceTheorems, FiniteSetTheorems, WellFoundedInduction, TLAPS

\* What the label of r says of its own state.
Local(r) ==
    /\ pc[r] \in {"idle", "slot", "reserve", "unreserved"} =>
          /\ charge[r] = "none" /\ tries[r] = 0
          /\ "timeout" \notin met[r] /\ "reverted" \notin met[r]
    /\ pc[r] = "queued" => tries[r] < MaxTries
    /\ pc[r] \in {"queued", "refund"} \cup Critical => charge[r] \in {"today", "earlier"}
    /\ pc[r] \in {"undo", "refused"} /\ ~Hurt(r) => charge[r] \in {"none", "stray"}

LocalInv == \A r \in Requests : Local(r)

\* A running callback is the first of its pod's chain, and has the lock unless it stalled.
TurnInv ==
    \A r \in Requests : pc[r] \in Critical =>
        /\ queue[Pod[r]] # <<>>
        /\ Head(queue[Pod[r]]) = r
        /\ lock = r \/ "stall" \in met[r]

\* r keeps its transaction's slot set.
Keeps(r) ==
    \/ pc[r] \in Holding \cup {"sponsored", "crashed"}
    \/ pc[r] = "refused" /\ Hurt(r)

SlotInv ==
    /\ \A r \in Requests : pc[r] \in Holding => Inner[r] \in slots
    /\ OneSponsorPerInner
    /\ \A i \in slots : \E r \in Requests : Inner[r] = i /\ Keeps(r)

\* r pays for its fee-bump, or is excused.
Backs(r) == charge[r] \in {"today", "earlier"} \/ Excused(r)

\* r is charged for a fee-bump that it has not sent, or that was refused.
Unsent(r) ==
    /\ \/ pc[r] \in {"queued", "sign", "submit", "refund"}
       \/ pc[r] = "release" /\ ~ok[r]
    /\ ~Excused(r)

OnLedger(i) == chain[i] \in Included \cup {"pending"}

\* The refund of an unsent fee-bump never takes the last charge that backs its transaction.
PaidInv ==
    /\ LandedIsCharged
    /\ \A r \in Requests : Unsent(r) /\ OnLedger(Inner[r]) =>
          \E q \in Requests \ {r} : Inner[q] = Inner[r] /\ Backs(q)

IInv == TypeOK /\ LocalInv /\ TurnInv /\ SlotInv /\ PaidInv

-----------------------------------------------------------------------------
(* The helpers keep the types.                                             *)

LEMMA HitType ==
    ASSUME TypeOK, NEW r \in Requests, NEW kind \in Kinds, Hit(r, kind)
    PROVE  /\ met' \in [Requests -> SUBSET (Kinds \cup News)]
           /\ faults' \in Nat
BY DEF TypeOK, Hit

LEMMA HitMet ==
    ASSUME TypeOK, NEW r \in Requests, NEW kind, Hit(r, kind)
    PROVE  \A q \in Requests, k \in Kinds \cup News : k # kind => (k \in met'[q] <=> k \in met[q])
BY DEF TypeOK, Hit

LEMMA AppendType ==
    ASSUME TypeOK, NEW r \in Requests, queue' = [queue EXCEPT ![Pod[r]] = Append(@, r)]
    PROVE  queue' \in [Pods -> Seq(Requests)]
<1>1. Append(queue[Pod[r]], r) \in Seq(Requests)
  BY PodOK DEF TypeOK
<1> QED BY <1>1, PodOK DEF TypeOK

LEMMA AppendHead ==
    ASSUME NEW S, NEW s \in Seq(S), s # <<>>, NEW e \in S
    PROVE  Append(s, e) # <<>> /\ Head(Append(s, e)) = Head(s)
BY HeadTailAppend, AppendProperties

LEMMA LeaveType ==
    ASSUME TypeOK, NEW r \in Requests, queue[Pod[r]] # <<>>, Leave(r)
    PROVE  queue' \in [Pods -> Seq(Requests)]
<1>1. Tail(queue[Pod[r]]) \in Seq(Requests)
  BY PodOK DEF TypeOK
<1> QED BY <1>1, PodOK DEF TypeOK, Leave

-----------------------------------------------------------------------------
LEMMA TypeInit == Init => TypeOK
<1> SUFFICES ASSUME Init PROVE TypeOK
  OBVIOUS
<1>1. queue \in [Pods -> Seq(Requests)]
  BY DEF Init
<1>2. met \in [Requests -> SUBSET (Kinds \cup News)]
  BY DEF Init
<1>3. /\ used \in [Students -> Int]
      /\ tries \in [Requests -> 0 .. MaxTries]
      /\ charge \in [Requests -> {"none", "today", "earlier", "stray"}]
      /\ pc \in [Requests -> Labels]
  BY MaxTriesOK DEF Init, Labels
<1>4. /\ ok \in [Requests -> BOOLEAN]
      /\ chain \in [Inners -> {"none", "pending", "failed"} \cup Included]
      /\ lock = Nobody /\ slots = {} /\ midnight = FALSE /\ faults = 0
  BY DEF Init
<1> QED BY <1>1, <1>2, <1>3, <1>4 DEF TypeOK

\* A step keeps every variable's type, given that a queued request has attempts left and
\* that a running callback is on its pod's chain.
LEMMA TypeStep == TypeOK /\ LocalInv /\ TurnInv /\ [Next]_vars => TypeOK'
<1> SUFFICES ASSUME TypeOK, LocalInv, TurnInv, [Next]_vars PROVE TypeOK'
  OBVIOUS
<1> USE OwnerOK, FeeOK, InnerOK, PodOK, MaxTriesOK, HitType
    DEF TypeOK, Labels, Student, TotalFee
<1>0. {"redis", "config", "kms", "horizon", "timeout", "stall"} \subseteq Kinds
  BY DEF Kinds
<1> USE <1>0
<1>1. ASSUME NEW r \in Requests, Receive(r) PROVE TypeOK'
  BY <1>1 DEF Receive, Goto, NoFault, quota, local
<1>2. ASSUME NEW r \in Requests, TakeSlot(r) PROVE TypeOK'
  <2>1. slots' \subseteq Inners
    BY <1>2 DEF TakeSlot
  <2>2. met' \in [Requests -> SUBSET (Kinds \cup News)] /\ faults' \in Nat
    BY <1>2 DEF TakeSlot, NoFault
  <2>3. pc' \in [Requests -> Labels]
    <3>1. Goto(r, "reserve") \/ Goto(r, "refused")
      BY <1>2 DEF TakeSlot
    <3> QED BY <3>1 DEF Goto
  <2> QED BY <1>2, <2>1, <2>2, <2>3 DEF TakeSlot, quota, local
<1>3. ASSUME NEW r \in Requests, Reserve(r) PROVE TypeOK'
  <2>1. used' \in [Students -> Int] /\ charge' \in [Requests -> {"none", "today", "earlier", "stray"}]
    BY <1>3 DEF Reserve
  <2>2. met' \in [Requests -> SUBSET (Kinds \cup News)] /\ faults' \in Nat
    BY <1>3 DEF Reserve, NoFault
  <2>3. pc' \in [Requests -> Labels]
    BY <1>3 DEF Reserve, Goto
  <2>4. queue' \in [Pods -> Seq(Requests)]
    BY <1>3, AppendType DEF Reserve
  <2> QED BY <1>3, <2>1, <2>2, <2>3, <2>4 DEF Reserve, local
<1>4. ASSUME NEW r \in Requests, ReserveRefused(r) PROVE TypeOK'
  BY <1>4 DEF ReserveRefused, Goto, NoFault, quota, local
<1>5. ASSUME NEW r \in Requests, DropSlot(r) PROVE TypeOK'
  BY <1>5 DEF DropSlot, Goto, NoFault, quota, local
<1>6. ASSUME NEW r \in Requests, Acquire(r) PROVE TypeOK'
  BY <1>6 DEF Acquire, Turn, Goto, NoFault, quota, local
<1>7. ASSUME NEW r \in Requests, AcquireFails(r) PROVE TypeOK'
  <2>1. tries' \in [Requests -> 0 .. MaxTries]
    <3>1. pc[r] = "queued" /\ tries' = [tries EXCEPT ![r] = @ + 1]
      BY <1>7 DEF AcquireFails, Turn
    <3>2. tries[r] < MaxTries
      BY <1>7, <3>1 DEF LocalInv, Local
    <3> QED BY <1>7, <3>1, <3>2
  <2>2. met' \in [Requests -> SUBSET (Kinds \cup News)] /\ faults' \in Nat
    BY <1>7 DEF AcquireFails, NoFault
  <2>3. pc' \in [Requests -> Labels]
    BY <1>7 DEF AcquireFails, Goto
  <2>4. queue' \in [Pods -> Seq(Requests)]
    BY <1>7, LeaveType DEF AcquireFails, Turn
  <2> QED BY <1>7, <2>1, <2>2, <2>3, <2>4 DEF AcquireFails, quota
<1>8. ASSUME NEW r \in Requests, Release(r) PROVE TypeOK'
  BY <1>8, LeaveType DEF Release, TurnInv, Critical, Goto, NoFault, quota, local
<1>9. ASSUME NEW r \in Requests, Sign(r) PROVE TypeOK'
  BY <1>9 DEF Sign, Goto, NoFault, quota, local
<1>10. ASSUME NEW r \in Requests, SignFails(r) PROVE TypeOK'
  BY <1>10 DEF SignFails, CallbackEnds, Goto, NoFault, quota, local
<1>11. ASSUME NEW r \in Requests, Submit(r) PROVE TypeOK'
  BY <1>11 DEF Submit, Goto, NoFault, quota, local
<1>12. ASSUME NEW r \in Requests, SubmitFails(r) PROVE TypeOK'
  BY <1>12 DEF SubmitFails, CallbackEnds, Goto, NoFault, quota, local
<1>13. ASSUME NEW r \in Requests, Accepted(r) PROVE TypeOK'
  BY <1>13 DEF Accepted, CallbackEnds, Goto, NoFault, quota, local
<1>14. ASSUME NEW r \in Requests, Rejected(r) PROVE TypeOK'
  BY <1>14 DEF Rejected, CallbackEnds, Goto, NoFault, quota, local
<1>15. ASSUME NEW r \in Requests, TimesOut(r) PROVE TypeOK'
  BY <1>15 DEF TimesOut, CallbackEnds, Goto, NoFault, quota, local
<1>16. ASSUME NEW r \in Requests, Refund(r) PROVE TypeOK'
  <2>1. used' \in [Students -> Int]
    BY <1>16 DEF Refund
  <2>2. charge' \in [Requests -> {"none", "today", "earlier", "stray"}]
    BY <1>16 DEF Refund
  <2>3. met' \in [Requests -> SUBSET (Kinds \cup News)] /\ faults' \in Nat
    BY <1>16 DEF Refund, NoFault
  <2>4. pc' \in [Requests -> Labels]
    BY <1>16 DEF Refund, Goto
  <2> QED BY <1>16, <2>1, <2>2, <2>3, <2>4 DEF Refund, local
<1>17. ASSUME NEW r \in Requests, LeaseEnds(r) PROVE TypeOK'
  BY <1>17 DEF LeaseEnds, Goto, NoFault, quota, local
<1>18. ASSUME NEW i \in Inners, Settles(i) PROVE TypeOK'
  BY <1>18 DEF Settles, NoFault, quota, local
<1>19. ASSUME NEW p \in Pods, Crash(p) PROVE TypeOK'
  BY <1>19 DEF Crash, quota, local
<1>20. CASE Midnight
  BY <1>20 DEF Midnight, NoFault, local
<1>21. CASE UNCHANGED vars
  BY <1>21 DEF vars
<1> QED BY <1>1, <1>2, <1>3, <1>4, <1>5, <1>6, <1>7, <1>8, <1>9, <1>10, <1>11, <1>12, <1>13, <1>14, <1>15, <1>16, <1>17, <1>18, <1>19, <1>20, <1>21 DEF Next, Handler

LEMMA LocalInit == Init => LocalInv
BY MaxTriesOK DEF Init, LocalInv, Local, Critical, Hurt

\* A step keeps what the labels say.
LEMMA LocalStep == TypeOK /\ LocalInv /\ [Next]_vars => LocalInv'
<1> SUFFICES ASSUME TypeOK, LocalInv, [Next]_vars, NEW q \in Requests PROVE Local(q)'
  BY DEF LocalInv
<1>0. Local(q)
  BY DEF LocalInv
<1> USE <1>0, MaxTriesOK DEF TypeOK, Local, Critical, Hurt, Ended
<1>1. ASSUME NEW r \in Requests, Receive(r) PROVE Local(q)'
  BY <1>1 DEF Receive, Goto, Hit, NoFault, quota, local
<1>2. ASSUME NEW r \in Requests, TakeSlot(r) PROVE Local(q)'
  BY <1>2 DEF TakeSlot, Goto, Hit, NoFault, quota, local
<1>3. ASSUME NEW r \in Requests, Reserve(r) PROVE Local(q)'
  <2>1. charge' = [charge EXCEPT ![r] = "today"] /\ tries' = tries
    BY <1>3 DEF Reserve, local
  <2>2. CASE Goto(r, "queued") /\ NoFault
    BY <1>3, <2>1, <2>2 DEF Reserve, Goto, NoFault
  <2>3. CASE Goto(r, "refused") /\ Hit(r, "config")
    BY <1>3, <2>1, <2>3 DEF Reserve, Goto, Hit
  <2> QED BY <1>3, <2>2, <2>3 DEF Reserve
<1>4. ASSUME NEW r \in Requests, ReserveRefused(r) PROVE Local(q)'
  BY <1>4 DEF ReserveRefused, Goto, Hit, NoFault, quota, local
<1>5. ASSUME NEW r \in Requests, DropSlot(r) PROVE Local(q)'
  BY <1>5 DEF DropSlot, Goto, Hit, NoFault, quota, local
<1>6. ASSUME NEW r \in Requests, Acquire(r) PROVE Local(q)'
  BY <1>6 DEF Acquire, Turn, Goto, Hit, NoFault, quota, local
<1>7. ASSUME NEW r \in Requests, AcquireFails(r) PROVE Local(q)'
  BY <1>7 DEF AcquireFails, Turn, Leave, Goto, Hit, NoFault, quota, local
<1>8. ASSUME NEW r \in Requests, Release(r) PROVE Local(q)'
  BY <1>8 DEF Release, Leave, Goto, Hit, NoFault, quota, local
<1>9. ASSUME NEW r \in Requests, Sign(r) PROVE Local(q)'
  BY <1>9 DEF Sign, Goto, Hit, NoFault, quota, local
<1>10. ASSUME NEW r \in Requests, SignFails(r) PROVE Local(q)'
  BY <1>10 DEF SignFails, CallbackEnds, Goto, Hit, NoFault, quota, local
<1>11. ASSUME NEW r \in Requests, Submit(r) PROVE Local(q)'
  BY <1>11 DEF Submit, Goto, Hit, NoFault, quota, local
<1>12. ASSUME NEW r \in Requests, SubmitFails(r) PROVE Local(q)'
  BY <1>12 DEF SubmitFails, CallbackEnds, Goto, Hit, NoFault, quota, local
<1>13. ASSUME NEW r \in Requests, Accepted(r) PROVE Local(q)'
  BY <1>13 DEF Accepted, CallbackEnds, Goto, Hit, NoFault, quota, local
<1>14. ASSUME NEW r \in Requests, Rejected(r) PROVE Local(q)'
  BY <1>14 DEF Rejected, CallbackEnds, Goto, Hit, NoFault, quota, local
<1>15. ASSUME NEW r \in Requests, TimesOut(r) PROVE Local(q)'
  BY <1>15 DEF TimesOut, CallbackEnds, Goto, Hit, NoFault, quota, local
<1>16. ASSUME NEW r \in Requests, Refund(r) PROVE Local(q)'
  BY <1>16 DEF Refund, Goto, Hit, NoFault, quota, local
<1>17. ASSUME NEW r \in Requests, LeaseEnds(r) PROVE Local(q)'
  BY <1>17 DEF LeaseEnds, Goto, Hit, NoFault, quota, local
<1>18. ASSUME NEW i \in Inners, Settles(i) PROVE Local(q)'
  BY <1>18 DEF Settles, NoFault, quota, local
<1>19. ASSUME NEW p \in Pods, Crash(p) PROVE Local(q)'
  BY <1>19 DEF Crash, quota, local
<1>20. CASE Midnight
  BY <1>20 DEF Midnight, NoFault, local
<1>21. CASE UNCHANGED vars
  BY <1>21 DEF vars
<1> QED BY <1>1, <1>2, <1>3, <1>4, <1>5, <1>6, <1>7, <1>8, <1>9, <1>10, <1>11, <1>12, <1>13, <1>14, <1>15, <1>16, <1>17, <1>18, <1>19, <1>20, <1>21 DEF Next, Handler

LEMMA TurnInit == Init => TurnInv
BY DEF Init, TurnInv, Critical

\* A step keeps the order of the callbacks: a request that enters or leaves the chain of a
\* pod never pushes a running callback from its head, and nobody frees its lock.
LEMMA TurnStep == TypeOK /\ TurnInv /\ [Next]_vars => TurnInv'
<1> SUFFICES ASSUME TypeOK, TurnInv, [Next]_vars, NEW q \in Requests, (pc[q] \in Critical)'
             PROVE  (/\ queue[Pod[q]] # <<>>
                     /\ Head(queue[Pod[q]]) = q
                     /\ lock = q \/ "stall" \in met[q])'
  BY DEF TurnInv
<1> DEFINE P == /\ queue[Pod[q]] # <<>>
                /\ Head(queue[Pod[q]]) = q
                /\ lock = q \/ "stall" \in met[q]
<1>0. pc[q] \in Critical => P
  BY DEF TurnInv
<1> USE PodOK, NobodyOK DEF TypeOK, Critical, Ended
<1>1. ASSUME NEW r \in Requests, Receive(r) PROVE P'
  BY <1>1, <1>0 DEF Receive, Goto, NoFault, quota, local
<1>2. ASSUME NEW r \in Requests, TakeSlot(r) PROVE P'
  BY <1>2, <1>0 DEF TakeSlot, Goto, Hit, NoFault, quota, local
<1>3. ASSUME NEW r \in Requests, Reserve(r) PROVE P'
  <2>1. pc[q] \in Critical /\ lock' = lock /\ met[q] \subseteq met'[q]
    BY <1>3 DEF Reserve, Goto, Hit, NoFault, local, quota
  <2>2. queue[Pod[q]] # <<>> /\ Head(queue[Pod[q]]) = q /\ queue[Pod[q]] \in Seq(Requests)
    BY <1>0, <2>1
  <2>3. /\ Append(queue[Pod[q]], r) # <<>>
        /\ Head(Append(queue[Pod[q]], r)) = Head(queue[Pod[q]])
    BY <1>3, <2>2, AppendHead
  <2>4. queue'[Pod[q]] \in {queue[Pod[q]], Append(queue[Pod[q]], r)}
    BY <1>3 DEF Reserve
  <2> QED BY <1>0, <2>1, <2>2, <2>3, <2>4
<1>4. ASSUME NEW r \in Requests, ReserveRefused(r) PROVE P'
  BY <1>4, <1>0 DEF ReserveRefused, Goto, Hit, NoFault, quota, local
<1>5. ASSUME NEW r \in Requests, DropSlot(r) PROVE P'
  BY <1>5, <1>0 DEF DropSlot, Goto, Hit, NoFault, quota, local
<1>6. ASSUME NEW r \in Requests, Acquire(r) PROVE P'
  BY <1>6, <1>0 DEF Acquire, Turn, Goto, Hit, NoFault, quota, local
<1>7. ASSUME NEW r \in Requests, AcquireFails(r) PROVE P'
  <2>1. pc[q] \in Critical /\ q # r /\ lock' = lock /\ met[q] \subseteq met'[q]
    BY <1>7 DEF AcquireFails, Turn, Goto, Hit, NoFault, local, quota
  <2>2. Pod[q] # Pod[r]
    BY <1>7, <1>0, <2>1 DEF AcquireFails, Turn
  <2>3. queue'[Pod[q]] = queue[Pod[q]]
    BY <1>7, <2>2 DEF AcquireFails, Leave
  <2> QED BY <1>0, <2>1, <2>3
<1>8. ASSUME NEW r \in Requests, Release(r) PROVE P'
  <2>1. pc[q] \in Critical /\ q # r /\ pc[r] \in Critical /\ met[q] \subseteq met'[q]
    BY <1>8 DEF Release, Goto, Hit, NoFault, local, quota
  <2>2. Pod[q] # Pod[r]
    BY <2>1 DEF TurnInv
  <2>3. queue'[Pod[q]] = queue[Pod[q]]
    BY <1>8, <2>2 DEF Release, Leave
  <2>4. lock = q => lock' = q
    BY <1>8, <2>1 DEF Release
  <2> QED BY <1>0, <2>1, <2>3, <2>4
<1>9. ASSUME NEW r \in Requests, Sign(r) PROVE P'
  BY <1>9, <1>0 DEF Sign, Goto, Hit, NoFault, quota, local
<1>10. ASSUME NEW r \in Requests, SignFails(r) PROVE P'
  BY <1>10, <1>0 DEF SignFails, CallbackEnds, Goto, Hit, NoFault, quota, local
<1>11. ASSUME NEW r \in Requests, Submit(r) PROVE P'
  BY <1>11, <1>0 DEF Submit, Goto, Hit, NoFault, quota, local
<1>12. ASSUME NEW r \in Requests, SubmitFails(r) PROVE P'
  BY <1>12, <1>0 DEF SubmitFails, CallbackEnds, Goto, Hit, NoFault, quota, local
<1>13. ASSUME NEW r \in Requests, Accepted(r) PROVE P'
  BY <1>13, <1>0 DEF Accepted, CallbackEnds, Goto, Hit, NoFault, quota, local
<1>14. ASSUME NEW r \in Requests, Rejected(r) PROVE P'
  BY <1>14, <1>0 DEF Rejected, CallbackEnds, Goto, Hit, NoFault, quota, local
<1>15. ASSUME NEW r \in Requests, TimesOut(r) PROVE P'
  BY <1>15, <1>0 DEF TimesOut, CallbackEnds, Goto, Hit, NoFault, quota, local
<1>16. ASSUME NEW r \in Requests, Refund(r) PROVE P'
  BY <1>16, <1>0 DEF Refund, Goto, Hit, NoFault, quota, local
<1>17. ASSUME NEW r \in Requests, LeaseEnds(r) PROVE P'
  BY <1>17, <1>0 DEF LeaseEnds, Goto, Hit, NoFault, quota, local
<1>18. ASSUME NEW i \in Inners, Settles(i) PROVE P'
  BY <1>18, <1>0 DEF Settles, NoFault, quota, local
<1>19. ASSUME NEW p \in Pods, Crash(p) PROVE P'
  <2>1. pc[q] \in Critical /\ Pod[q] # p
    BY <1>19 DEF Crash
  <2> QED BY <1>19, <1>0, <2>1 DEF Crash, quota, local
<1>20. CASE Midnight
  BY <1>20, <1>0 DEF Midnight, NoFault, local
<1>21. CASE UNCHANGED vars
  BY <1>21, <1>0 DEF vars
<1> QED BY <1>1, <1>2, <1>3, <1>4, <1>5, <1>6, <1>7, <1>8, <1>9, <1>10, <1>11, <1>12, <1>13, <1>14, <1>15, <1>16, <1>17, <1>18, <1>19, <1>20, <1>21 DEF Next, Handler

-----------------------------------------------------------------------------
(* Replay slots.                                                           *)

\* A step that leaves the slots alone and adds no sponsor keeps their owners.
LEMMA SlotKept ==
    ASSUME SlotInv, slots' = slots,
           \A q \in Requests : pc'[q] \in Holding => pc[q] \in Holding,
           \A q \in Requests : Keeps(q) => Keeps(q)'
    PROVE  SlotInv'
BY DEF SlotInv, OneSponsorPerInner

LEMMA SlotInit == Init => SlotInv
BY DEF Init, SlotInv, OneSponsorPerInner, Holding

LEMMA SlotStep == TypeOK /\ SlotInv /\ [Next]_vars => SlotInv'
<1> SUFFICES ASSUME TypeOK, SlotInv, [Next]_vars PROVE SlotInv'
  OBVIOUS
<1> USE DEF TypeOK, Keeps, Holding, Hurt
<1>1. ASSUME NEW r \in Requests, Receive(r) PROVE SlotInv'
  <2>1. slots' = slots
    BY <1>1 DEF Receive, Goto, Hit, NoFault, quota, local
  <2>2. \A q \in Requests : pc'[q] \in Holding => pc[q] \in Holding
    BY <1>1 DEF Receive, Goto, Hit, NoFault, quota, local
  <2>3. \A q \in Requests : Keeps(q) => Keeps(q)'
    BY <1>1 DEF Receive, Goto, Hit, NoFault, quota, local
  <2> QED BY <2>1, <2>2, <2>3, SlotKept
<1>2. ASSUME NEW r \in Requests, TakeSlot(r) PROVE SlotInv'
  <2>1. CASE slots' = slots
    <3>1. \A q \in Requests : pc'[q] \in Holding => pc[q] \in Holding
      BY <1>2, <2>1 DEF TakeSlot, Goto
    <3>2. \A q \in Requests : Keeps(q) => Keeps(q)'
      BY <1>2, <2>1 DEF TakeSlot, Goto, Hit, NoFault
    <3> QED BY <2>1, <3>1, <3>2, SlotKept
  <2>2. CASE Inner[r] \notin slots /\ slots' = slots \cup {Inner[r]} /\ Goto(r, "reserve") /\ NoFault
    <3>1. \A q \in Requests : q # r => pc'[q] = pc[q] /\ (Keeps(q) <=> Keeps(q)')
      BY <2>2 DEF Goto, NoFault
    <3>2. pc'[r] = "reserve" /\ Keeps(r)'
      BY <2>2 DEF Goto
    <3>3. \A q \in Requests : q # r /\ pc[q] \in Holding => Inner[q] # Inner[r]
      BY <2>2 DEF SlotInv
    <3>4. \A i \in slots' : \E q \in Requests : Inner[q] = i /\ Keeps(q)'
      <4> SUFFICES ASSUME NEW i \in slots' PROVE \E q \in Requests : Inner[q] = i /\ Keeps(q)'
        OBVIOUS
      <4>1. CASE i = Inner[r]
        BY <4>1, <3>2
      <4>2. CASE i # Inner[r]
        <5>1. PICK q \in Requests : Inner[q] = i /\ Keeps(q)
          BY <2>2, <4>2 DEF SlotInv
        <5> QED BY <5>1, <4>2, <3>1
      <4> QED BY <4>1, <4>2
    <3>5. OneSponsorPerInner'
      BY <3>1, <3>2, <3>3 DEF SlotInv, OneSponsorPerInner
    <3>6. \A q \in Requests : pc'[q] \in Holding => Inner[q] \in slots'
      BY <2>2, <3>1 DEF SlotInv
    <3> QED BY <3>4, <3>5, <3>6 DEF SlotInv
  <2> QED BY <1>2, <2>1, <2>2 DEF TakeSlot
<1>3. ASSUME NEW r \in Requests, Reserve(r) PROVE SlotInv'
  <2>1. slots' = slots
    BY <1>3 DEF Reserve
  <2>2. CASE Goto(r, "queued") /\ NoFault
    <3>1. \A q \in Requests : (pc'[q] \in Holding => pc[q] \in Holding) /\ (Keeps(q) => Keeps(q)')
      BY <1>3, <2>2 DEF Reserve, Goto, NoFault
    <3> QED BY <2>1, <3>1, SlotKept
  <2>3. CASE Goto(r, "refused") /\ Hit(r, "config")
    <3>1. \A q \in Requests : (pc'[q] \in Holding => pc[q] \in Holding) /\ (Keeps(q) => Keeps(q)')
      BY <1>3, <2>3 DEF Reserve, Goto, Hit
    <3> QED BY <2>1, <3>1, SlotKept
  <2> QED BY <1>3, <2>2, <2>3 DEF Reserve
<1>4. ASSUME NEW r \in Requests, ReserveRefused(r) PROVE SlotInv'
  <2>1. slots' = slots
    BY <1>4 DEF ReserveRefused, Goto, Hit, NoFault, quota, local
  <2>2. \A q \in Requests : pc'[q] \in Holding => pc[q] \in Holding
    BY <1>4 DEF ReserveRefused, Goto, Hit, NoFault, quota, local
  <2>3. \A q \in Requests : Keeps(q) => Keeps(q)'
    BY <1>4 DEF ReserveRefused, Goto, Hit, NoFault, quota, local
  <2> QED BY <2>1, <2>2, <2>3, SlotKept
<1>5. ASSUME NEW r \in Requests, DropSlot(r) PROVE SlotInv'
  <2>0. pc[r] \in Holding /\ pc' = [pc EXCEPT ![r] = "refused"]
    BY <1>5 DEF DropSlot, Goto
  <2>1. CASE UNCHANGED slots /\ Hit(r, "redis")
    <3>1. \A q \in Requests : pc'[q] \in Holding => pc[q] \in Holding
      BY <2>0
    <3>2. \A q \in Requests : Keeps(q) => Keeps(q)'
      BY <2>0, <2>1 DEF Hit
    <3> QED BY <2>1, <3>1, <3>2, SlotKept
  <2>2. CASE slots' = slots \ {Inner[r]} /\ NoFault
    <3>1. \A q \in Requests : q # r => pc'[q] = pc[q] /\ (Keeps(q) <=> Keeps(q)')
      BY <2>0, <2>2 DEF NoFault
    <3>2. \A q \in Requests : pc'[q] \in Holding => pc[q] \in Holding /\ q # r
      BY <2>0
    <3>3. \A q \in Requests : pc'[q] \in Holding => Inner[q] # Inner[r]
      BY <2>0, <3>2 DEF SlotInv, OneSponsorPerInner
    <3>4. OneSponsorPerInner'
      BY <3>2 DEF SlotInv, OneSponsorPerInner
    <3>5. \A q \in Requests : pc'[q] \in Holding => Inner[q] \in slots'
      BY <2>2, <3>2, <3>3 DEF SlotInv
    <3>6. ASSUME NEW i \in slots' PROVE \E q \in Requests : Inner[q] = i /\ Keeps(q)'
      <4>1. PICK q \in Requests : Inner[q] = i /\ Keeps(q)
        BY <2>2, <3>6 DEF SlotInv
      <4> QED BY <4>1, <2>2, <3>1, <3>6
    <3> QED BY <3>4, <3>5, <3>6 DEF SlotInv
  <2> QED BY <1>5, <2>1, <2>2 DEF DropSlot
<1>6. ASSUME NEW r \in Requests, Acquire(r) PROVE SlotInv'
  <2>1. slots' = slots
    BY <1>6 DEF Acquire, Turn, Goto, Hit, NoFault, quota, local
  <2>2. \A q \in Requests : pc'[q] \in Holding => pc[q] \in Holding
    BY <1>6 DEF Acquire, Turn, Goto, Hit, NoFault, quota, local
  <2>3. \A q \in Requests : Keeps(q) => Keeps(q)'
    BY <1>6 DEF Acquire, Turn, Goto, Hit, NoFault, quota, local
  <2> QED BY <2>1, <2>2, <2>3, SlotKept
<1>7. ASSUME NEW r \in Requests, AcquireFails(r) PROVE SlotInv'
  <2>1. slots' = slots
    BY <1>7 DEF AcquireFails, Turn, Goto, Hit, NoFault, quota, local
  <2>2. \A q \in Requests : pc'[q] \in Holding => pc[q] \in Holding
    BY <1>7 DEF AcquireFails, Turn, Goto, Hit, NoFault, quota, local
  <2>3. \A q \in Requests : Keeps(q) => Keeps(q)'
    BY <1>7 DEF AcquireFails, Turn, Goto, Hit, NoFault, quota, local
  <2> QED BY <2>1, <2>2, <2>3, SlotKept
<1>8. ASSUME NEW r \in Requests, Release(r) PROVE SlotInv'
  <2>1. slots' = slots
    BY <1>8 DEF Release, Goto, Hit, NoFault, quota, local
  <2>2. \A q \in Requests : pc'[q] \in Holding => pc[q] \in Holding
    BY <1>8 DEF Release, Goto, Hit, NoFault, quota, local
  <2>3. \A q \in Requests : Keeps(q) => Keeps(q)'
    BY <1>8 DEF Release, Goto, Hit, NoFault, quota, local
  <2> QED BY <2>1, <2>2, <2>3, SlotKept
<1>9. ASSUME NEW r \in Requests, Sign(r) PROVE SlotInv'
  <2>1. slots' = slots
    BY <1>9 DEF Sign, Goto, Hit, NoFault, quota, local
  <2>2. \A q \in Requests : pc'[q] \in Holding => pc[q] \in Holding
    BY <1>9 DEF Sign, Goto, Hit, NoFault, quota, local
  <2>3. \A q \in Requests : Keeps(q) => Keeps(q)'
    BY <1>9 DEF Sign, Goto, Hit, NoFault, quota, local
  <2> QED BY <2>1, <2>2, <2>3, SlotKept
<1>10. ASSUME NEW r \in Requests, SignFails(r) PROVE SlotInv'
  <2>1. slots' = slots
    BY <1>10 DEF SignFails, CallbackEnds, Goto, Hit, NoFault, quota, local
  <2>2. \A q \in Requests : pc'[q] \in Holding => pc[q] \in Holding
    BY <1>10 DEF SignFails, CallbackEnds, Goto, Hit, NoFault, quota, local
  <2>3. \A q \in Requests : Keeps(q) => Keeps(q)'
    BY <1>10 DEF SignFails, CallbackEnds, Goto, Hit, NoFault, quota, local
  <2> QED BY <2>1, <2>2, <2>3, SlotKept
<1>11. ASSUME NEW r \in Requests, Submit(r) PROVE SlotInv'
  <2>1. slots' = slots
    BY <1>11 DEF Submit, Goto, Hit, NoFault, quota, local
  <2>2. \A q \in Requests : pc'[q] \in Holding => pc[q] \in Holding
    BY <1>11 DEF Submit, Goto, Hit, NoFault, quota, local
  <2>3. \A q \in Requests : Keeps(q) => Keeps(q)'
    BY <1>11 DEF Submit, Goto, Hit, NoFault, quota, local
  <2> QED BY <2>1, <2>2, <2>3, SlotKept
<1>12. ASSUME NEW r \in Requests, SubmitFails(r) PROVE SlotInv'
  <2>1. slots' = slots
    BY <1>12 DEF SubmitFails, CallbackEnds, Goto, Hit, NoFault, quota, local
  <2>2. \A q \in Requests : pc'[q] \in Holding => pc[q] \in Holding
    BY <1>12 DEF SubmitFails, CallbackEnds, Goto, Hit, NoFault, quota, local
  <2>3. \A q \in Requests : Keeps(q) => Keeps(q)'
    BY <1>12 DEF SubmitFails, CallbackEnds, Goto, Hit, NoFault, quota, local
  <2> QED BY <2>1, <2>2, <2>3, SlotKept
<1>13. ASSUME NEW r \in Requests, Accepted(r) PROVE SlotInv'
  <2>1. slots' = slots
    BY <1>13 DEF Accepted, CallbackEnds, Goto, Hit, NoFault, quota, local
  <2>2. \A q \in Requests : pc'[q] \in Holding => pc[q] \in Holding
    BY <1>13 DEF Accepted, CallbackEnds, Goto, Hit, NoFault, quota, local
  <2>3. \A q \in Requests : Keeps(q) => Keeps(q)'
    BY <1>13 DEF Accepted, CallbackEnds, Goto, Hit, NoFault, quota, local
  <2> QED BY <2>1, <2>2, <2>3, SlotKept
<1>14. ASSUME NEW r \in Requests, Rejected(r) PROVE SlotInv'
  <2>1. slots' = slots
    BY <1>14 DEF Rejected, CallbackEnds, Goto, Hit, NoFault, quota, local
  <2>2. \A q \in Requests : pc'[q] \in Holding => pc[q] \in Holding
    BY <1>14 DEF Rejected, CallbackEnds, Goto, Hit, NoFault, quota, local
  <2>3. \A q \in Requests : Keeps(q) => Keeps(q)'
    BY <1>14 DEF Rejected, CallbackEnds, Goto, Hit, NoFault, quota, local
  <2> QED BY <2>1, <2>2, <2>3, SlotKept
<1>15. ASSUME NEW r \in Requests, TimesOut(r) PROVE SlotInv'
  <2>1. slots' = slots
    BY <1>15 DEF TimesOut, CallbackEnds, Goto, Hit, NoFault, quota, local
  <2>2. \A q \in Requests : pc'[q] \in Holding => pc[q] \in Holding
    BY <1>15 DEF TimesOut, CallbackEnds, Goto, Hit, NoFault, quota, local
  <2>3. \A q \in Requests : Keeps(q) => Keeps(q)'
    BY <1>15 DEF TimesOut, CallbackEnds, Goto, Hit, NoFault, quota, local
  <2> QED BY <2>1, <2>2, <2>3, SlotKept
<1>16. ASSUME NEW r \in Requests, Refund(r) PROVE SlotInv'
  <2>1. slots' = slots
    BY <1>16 DEF Refund, Goto, Hit, NoFault, quota, local
  <2>2. \A q \in Requests : pc'[q] \in Holding => pc[q] \in Holding
    BY <1>16 DEF Refund, Goto, Hit, NoFault, quota, local
  <2>3. \A q \in Requests : Keeps(q) => Keeps(q)'
    BY <1>16 DEF Refund, Goto, Hit, NoFault, quota, local
  <2> QED BY <2>1, <2>2, <2>3, SlotKept
<1>17. ASSUME NEW r \in Requests, LeaseEnds(r) PROVE SlotInv'
  <2>1. slots' = slots
    BY <1>17 DEF LeaseEnds, Goto, Hit, NoFault, quota, local
  <2>2. \A q \in Requests : pc'[q] \in Holding => pc[q] \in Holding
    BY <1>17 DEF LeaseEnds, Goto, Hit, NoFault, quota, local
  <2>3. \A q \in Requests : Keeps(q) => Keeps(q)'
    BY <1>17 DEF LeaseEnds, Goto, Hit, NoFault, quota, local
  <2> QED BY <2>1, <2>2, <2>3, SlotKept
<1>18. ASSUME NEW i \in Inners, Settles(i) PROVE SlotInv'
  <2>1. slots' = slots
    BY <1>18 DEF Settles, NoFault, quota, local
  <2>2. \A q \in Requests : pc'[q] \in Holding => pc[q] \in Holding
    BY <1>18 DEF Settles, NoFault, quota, local
  <2>3. \A q \in Requests : Keeps(q) => Keeps(q)'
    BY <1>18 DEF Settles, NoFault, quota, local
  <2> QED BY <2>1, <2>2, <2>3, SlotKept
<1>19. ASSUME NEW p \in Pods, Crash(p) PROVE SlotInv'
  <2>1. slots' = slots
    BY <1>19 DEF Crash, quota, local, Ended
  <2>2. \A q \in Requests : pc'[q] \in Holding => pc[q] \in Holding
    BY <1>19 DEF Crash, quota, local, Ended
  <2>3. \A q \in Requests : Keeps(q) => Keeps(q)'
    BY <1>19 DEF Crash, quota, local, Ended
  <2> QED BY <2>1, <2>2, <2>3, SlotKept
<1>20. CASE Midnight
  <2>1. slots' = slots
    BY <1>20 DEF Midnight, NoFault, local
  <2>2. \A q \in Requests : pc'[q] \in Holding => pc[q] \in Holding
    BY <1>20 DEF Midnight, NoFault, local
  <2>3. \A q \in Requests : Keeps(q) => Keeps(q)'
    BY <1>20 DEF Midnight, NoFault, local
  <2> QED BY <2>1, <2>2, <2>3, SlotKept
<1>21. CASE UNCHANGED vars
  <2>1. slots' = slots
    BY <1>21 DEF vars
  <2>2. \A q \in Requests : pc'[q] \in Holding => pc[q] \in Holding
    BY <1>21 DEF vars
  <2>3. \A q \in Requests : Keeps(q) => Keeps(q)'
    BY <1>21 DEF vars
  <2> QED BY <2>1, <2>2, <2>3, SlotKept
<1> QED BY <1>1, <1>2, <1>3, <1>4, <1>5, <1>6, <1>7, <1>8, <1>9, <1>10, <1>11, <1>12, <1>13, <1>14, <1>15, <1>16, <1>17, <1>18, <1>19, <1>20, <1>21 DEF Next, Handler

-----------------------------------------------------------------------------
(* Charges and the ledger.                                                 *)

\* A step that sends nothing and takes back no charge keeps what backs the ledger.
LEMMA PaidKept ==
    ASSUME PaidInv,
           \A i \in Inners : OnLedger(i)' => OnLedger(i),
           \A q \in Requests : Backs(q) => Backs(q)',
           \A q \in Requests : Unsent(q)' /\ OnLedger(Inner[q])' => Unsent(q)
    PROVE  PaidInv'
<1>1. LandedIsCharged'
  <2> SUFFICES ASSUME NEW i \in Inners, OnLedger(i)'
               PROVE  \E r \in Requests : Inner[r] = i /\ Backs(r)'
    BY DEF LandedIsCharged, OnLedger, Backs
  <2>1. PICK r \in Requests : Inner[r] = i /\ Backs(r)
    BY DEF PaidInv, LandedIsCharged, OnLedger, Backs
  <2> QED BY <2>1
<1>2. ASSUME NEW r \in Requests, Unsent(r)', OnLedger(Inner[r])'
      PROVE  \E q \in Requests \ {r} : Inner[q] = Inner[r] /\ Backs(q)'
  <2>1. Inner[r] \in Inners
    BY InnerOK
  <2>2. PICK q \in Requests \ {r} : Inner[q] = Inner[r] /\ Backs(q)
    BY <1>2, <2>1 DEF PaidInv
  <2> QED BY <2>2
<1> QED BY <1>1, <1>2 DEF PaidInv

\* Only a time-out and the news of a failed inner transaction excuse a request.
LEMMA ExcusesKept ==
    ASSUME TypeOK, chain' = chain, NEW r \in Requests,
           NoFault \/ \E kind \in Kinds \ {"timeout"} : Hit(r, kind)
    PROVE  \A q \in Requests : Excused(q)' <=> Excused(q)
<1> SUFFICES ASSUME NEW q \in Requests PROVE Excused(q)' <=> Excused(q)
  OBVIOUS
<1>1. /\ "timeout" \in met'[q] <=> "timeout" \in met[q]
      /\ "reverted" \in met'[q] <=> "reverted" \in met[q]
  <2>1. CASE NoFault
    BY <2>1 DEF NoFault
  <2>2. ASSUME NEW kind \in Kinds \ {"timeout"}, Hit(r, kind)
        PROVE  \A k \in Kinds \cup News : k # kind => (k \in met'[q] <=> k \in met[q])
    BY <2>2, HitMet
  <2>3. ASSUME NEW kind \in Kinds \ {"timeout"}, Hit(r, kind)
        PROVE  /\ "timeout" \in met'[q] <=> "timeout" \in met[q]
               /\ "reverted" \in met'[q] <=> "reverted" \in met[q]
    BY <2>2, <2>3 DEF Kinds, News
  <2> QED BY <2>1, <2>3
<1> QED BY ONLY <1>1, chain' = chain DEF Excused

LEMMA PaidInit == Init => PaidInv
BY InnerOK DEF Init, PaidInv, LandedIsCharged, OnLedger, Included

LEMMA PaidStep == TypeOK /\ LocalInv /\ SlotInv /\ PaidInv /\ [Next]_vars => PaidInv'
<1> SUFFICES ASSUME TypeOK, LocalInv, SlotInv, PaidInv, [Next]_vars PROVE PaidInv'
  OBVIOUS
<1> USE InnerOK DEF TypeOK, Backs, Unsent, OnLedger, Excused, Included
<1>1. ASSUME NEW r \in Requests, Receive(r) PROVE PaidInv'
  <2>1. \A j \in Inners : OnLedger(j)' => OnLedger(j)
    BY <1>1 DEF Receive, Goto, Hit, NoFault, quota, local
  <2>2. \A q \in Requests : Backs(q) => Backs(q)'
    BY <1>1 DEF Receive, Goto, Hit, NoFault, quota, local
  <2>3. \A q \in Requests : Unsent(q)' /\ OnLedger(Inner[q])' => Unsent(q)
    BY <1>1 DEF Receive, Goto, Hit, NoFault, quota, local
  <2> QED BY <2>1, <2>2, <2>3, PaidKept
<1>2. ASSUME NEW r \in Requests, TakeSlot(r) PROVE PaidInv'
  <2>1. \A j \in Inners : OnLedger(j)' => OnLedger(j)
    BY <1>2 DEF TakeSlot, Goto, Hit, NoFault, quota, local
  <2>2. \A q \in Requests : Backs(q) => Backs(q)'
    <3>1. \A q \in Requests : Excused(q)' <=> Excused(q)
      BY <1>2, ExcusesKept DEF TakeSlot, Kinds
    <3> QED BY <1>2, <3>1 DEF TakeSlot, quota
  <2>3. \A q \in Requests : Unsent(q)' /\ OnLedger(Inner[q])' => Unsent(q)
    BY <1>2 DEF TakeSlot, Goto, Hit, NoFault, quota, local
  <2> QED BY <2>1, <2>2, <2>3, PaidKept
<1>3. ASSUME NEW r \in Requests, Reserve(r) PROVE PaidInv'
  <2>0. chain' = chain /\ \A q \in Requests : Excused(q)' <=> Excused(q)
    BY <1>3, ExcusesKept DEF Reserve, Kinds
  <2>1. /\ chain' = chain /\ charge' = [charge EXCEPT ![r] = "today"] /\ ok' = ok
        /\ \A q \in Requests : q # r => pc'[q] = pc[q]
    BY <1>3 DEF Reserve, Goto, local
  <2>2. charge[r] = "none" /\ ~Excused(r)
    BY <1>3 DEF Reserve, LocalInv, Local
  <2>3. \A q \in Requests : Backs(q) => Backs(q)' /\ q # r
    BY <2>0, <2>1, <2>2
  <2>4. LandedIsCharged'
    BY <2>0, <2>1, <2>3 DEF PaidInv, LandedIsCharged
  <2>5. ASSUME NEW q \in Requests, Unsent(q)', OnLedger(Inner[q])'
        PROVE  \E w \in Requests \ {q} : Inner[w] = Inner[q] /\ Backs(w)'
    <3>1. CASE q = r
      <4>1. PICK w \in Requests : Inner[w] = Inner[r] /\ Backs(w)
        BY <2>0, <2>1, <2>5, <3>1 DEF PaidInv, LandedIsCharged
      <4> QED BY <3>1, <4>1, <2>3
    <3>2. CASE q # r
      <4>1. PICK w \in Requests \ {q} : Inner[w] = Inner[q] /\ Backs(w)
        BY <2>0, <2>1, <2>5, <3>2 DEF PaidInv
      <4> QED BY <4>1, <2>3
    <3> QED BY <3>1, <3>2
  <2> QED BY <2>4, <2>5 DEF PaidInv
<1>4. ASSUME NEW r \in Requests, ReserveRefused(r) PROVE PaidInv'
  <2>1. \A j \in Inners : OnLedger(j)' => OnLedger(j)
    BY <1>4 DEF ReserveRefused, Goto, Hit, NoFault, quota, local
  <2>2. \A q \in Requests : Backs(q) => Backs(q)'
    BY <1>4 DEF ReserveRefused, Goto, Hit, NoFault, quota, local
  <2>3. \A q \in Requests : Unsent(q)' /\ OnLedger(Inner[q])' => Unsent(q)
    BY <1>4 DEF ReserveRefused, Goto, Hit, NoFault, quota, local
  <2> QED BY <2>1, <2>2, <2>3, PaidKept
<1>5. ASSUME NEW r \in Requests, DropSlot(r) PROVE PaidInv'
  <2>1. \A j \in Inners : OnLedger(j)' => OnLedger(j)
    BY <1>5 DEF DropSlot, Goto, Hit, NoFault, quota, local
  <2>2. \A q \in Requests : Backs(q) => Backs(q)'
    BY <1>5 DEF DropSlot, Goto, Hit, NoFault, quota, local
  <2>3. \A q \in Requests : Unsent(q)' /\ OnLedger(Inner[q])' => Unsent(q)
    BY <1>5 DEF DropSlot, Goto, Hit, NoFault, quota, local
  <2> QED BY <2>1, <2>2, <2>3, PaidKept
<1>6. ASSUME NEW r \in Requests, Acquire(r) PROVE PaidInv'
  <2>1. \A j \in Inners : OnLedger(j)' => OnLedger(j)
    BY <1>6 DEF Acquire, Turn, Goto, Hit, NoFault, quota, local
  <2>2. \A q \in Requests : Backs(q) => Backs(q)'
    BY <1>6 DEF Acquire, Turn, Goto, Hit, NoFault, quota, local
  <2>3. \A q \in Requests : Unsent(q)' /\ OnLedger(Inner[q])' => Unsent(q)
    BY <1>6 DEF Acquire, Turn, Goto, Hit, NoFault, quota, local
  <2> QED BY <2>1, <2>2, <2>3, PaidKept
<1>7. ASSUME NEW r \in Requests, AcquireFails(r) PROVE PaidInv'
  <2>0. chain' = chain /\ \A q \in Requests : Excused(q)' <=> Excused(q)
    BY <1>7, ExcusesKept DEF AcquireFails, Kinds
  <2>1. /\ UNCHANGED <<chain, charge, ok>> /\ pc[r] = "queued"
        /\ pc' = pc \/ pc' = [pc EXCEPT ![r] = "refund"]
    BY <1>7 DEF AcquireFails, Turn, Goto, quota
  <2>2. \A q \in Requests : (Backs(q) <=> Backs(q)') /\ (Unsent(q)' => Unsent(q))
    BY <2>0, <2>1
  <2> QED BY <2>1, <2>2, PaidKept
<1>8. ASSUME NEW r \in Requests, Release(r) PROVE PaidInv'
  <2>1. \A j \in Inners : OnLedger(j)' => OnLedger(j)
    BY <1>8 DEF Release, Goto, Hit, NoFault, quota, local
  <2>2. \A q \in Requests : Backs(q) => Backs(q)'
    BY <1>8 DEF Release, Goto, Hit, NoFault, quota, local
  <2>3. \A q \in Requests : Unsent(q)' /\ OnLedger(Inner[q])' => Unsent(q)
    BY <1>8 DEF Release, Goto, Hit, NoFault, quota, local
  <2> QED BY <2>1, <2>2, <2>3, PaidKept
<1>9. ASSUME NEW r \in Requests, Sign(r) PROVE PaidInv'
  <2>1. \A j \in Inners : OnLedger(j)' => OnLedger(j)
    BY <1>9 DEF Sign, Goto, Hit, NoFault, quota, local
  <2>2. \A q \in Requests : Backs(q) => Backs(q)'
    BY <1>9 DEF Sign, Goto, Hit, NoFault, quota, local
  <2>3. \A q \in Requests : Unsent(q)' /\ OnLedger(Inner[q])' => Unsent(q)
    BY <1>9 DEF Sign, Goto, Hit, NoFault, quota, local
  <2> QED BY <2>1, <2>2, <2>3, PaidKept
<1>10. ASSUME NEW r \in Requests, SignFails(r) PROVE PaidInv'
  <2>1. \A j \in Inners : OnLedger(j)' => OnLedger(j)
    BY <1>10 DEF SignFails, CallbackEnds, Goto, Hit, NoFault, quota, local
  <2>2. \A q \in Requests : Backs(q) => Backs(q)'
    BY <1>10 DEF SignFails, CallbackEnds, Goto, Hit, NoFault, quota, local
  <2>3. \A q \in Requests : Unsent(q)' /\ OnLedger(Inner[q])' => Unsent(q)
    BY <1>10 DEF SignFails, CallbackEnds, Goto, Hit, NoFault, quota, local
  <2> QED BY <2>1, <2>2, <2>3, PaidKept
<1>11. ASSUME NEW r \in Requests, Submit(r) PROVE PaidInv'
  <2>1. /\ charge' = charge /\ met' = met /\ ok' = ok /\ pc' = [pc EXCEPT ![r] = "sent"]
        /\ \A i \in Inners : i # Inner[r] \/ chain[i] \in Included => chain'[i] = chain[i]
        /\ \A q \in Requests : Excused(q) => Excused(q)'
    BY <1>11 DEF Submit, Goto, NoFault, quota, local
  <2>2. Backs(r)' /\ pc[r] \in Holding
    BY <1>11, <2>1 DEF Submit, LocalInv, Local, Critical, Holding
  <2>3. LandedIsCharged'
    BY <2>1, <2>2 DEF PaidInv, LandedIsCharged
  <2>4. ASSUME NEW q \in Requests, Unsent(q)', OnLedger(Inner[q])'
        PROVE  \E w \in Requests \ {q} : Inner[w] = Inner[q] /\ Backs(w)'
    <3>1. q # r /\ Unsent(q)
      BY <2>1, <2>4
    <3>2. Inner[q] # Inner[r]
      BY <2>2, <3>1 DEF SlotInv, OneSponsorPerInner, Holding
    <3>3. OnLedger(Inner[q])
      BY <2>1, <2>4, <3>2
    <3> QED BY <2>1, <3>1, <3>3 DEF PaidInv
  <2> QED BY <2>3, <2>4 DEF PaidInv
<1>12. ASSUME NEW r \in Requests, SubmitFails(r) PROVE PaidInv'
  <2>1. \A j \in Inners : OnLedger(j)' => OnLedger(j)
    BY <1>12 DEF SubmitFails, CallbackEnds, Goto, Hit, NoFault, quota, local
  <2>2. \A q \in Requests : Backs(q) => Backs(q)'
    BY <1>12 DEF SubmitFails, CallbackEnds, Goto, Hit, NoFault, quota, local
  <2>3. \A q \in Requests : Unsent(q)' /\ OnLedger(Inner[q])' => Unsent(q)
    BY <1>12 DEF SubmitFails, CallbackEnds, Goto, Hit, NoFault, quota, local
  <2> QED BY <2>1, <2>2, <2>3, PaidKept
<1>13. ASSUME NEW r \in Requests, Accepted(r) PROVE PaidInv'
  <2>1. \A j \in Inners : OnLedger(j)' => OnLedger(j)
    BY <1>13 DEF Accepted, CallbackEnds, Goto, Hit, NoFault, quota, local
  <2>2. \A q \in Requests : Backs(q) => Backs(q)'
    BY <1>13 DEF Accepted, CallbackEnds, Goto, Hit, NoFault, quota, local
  <2>3. \A q \in Requests : Unsent(q)' /\ OnLedger(Inner[q])' => Unsent(q)
    BY <1>13 DEF Accepted, CallbackEnds, Goto, Hit, NoFault, quota, local
  <2> QED BY <2>1, <2>2, <2>3, PaidKept
<1>14. ASSUME NEW r \in Requests, Rejected(r) PROVE PaidInv'
  <2>1. \A j \in Inners : OnLedger(j)' => OnLedger(j)
    BY <1>14 DEF Rejected, CallbackEnds, Goto, Hit, NoFault, quota, local
  <2>2. \A q \in Requests : Backs(q) => Backs(q)'
    BY <1>14 DEF Rejected, CallbackEnds, Goto, Hit, NoFault, quota, local
  <2>3. \A q \in Requests : Unsent(q)' /\ OnLedger(Inner[q])' => Unsent(q)
    <3>1. CASE chain[Inner[r]] = "failed" /\ NoFault
      BY <1>14, <3>1 DEF Rejected, CallbackEnds, Goto, NoFault, quota, local
    <3>2. CASE chain[Inner[r]] = "reverted" /\ met' = [met EXCEPT ![r] = @ \cup News]
      <4>1. Excused(r)'
        BY <1>14, <3>2 DEF Rejected, News
      <4>2. \A q \in Requests : q # r => (Unsent(q)' <=> Unsent(q))
        BY <1>14, <3>2 DEF Rejected, CallbackEnds, Goto, quota, local
      <4> QED BY <4>1, <4>2
    <3> QED BY <1>14, <3>1, <3>2 DEF Rejected
  <2> QED BY <2>1, <2>2, <2>3, PaidKept
<1>15. ASSUME NEW r \in Requests, TimesOut(r) PROVE PaidInv'
  <2>1. \A j \in Inners : OnLedger(j)' => OnLedger(j)
    BY <1>15 DEF TimesOut, CallbackEnds, Goto, Hit, NoFault, quota, local
  <2>2. \A q \in Requests : Backs(q) => Backs(q)'
    BY <1>15 DEF TimesOut, CallbackEnds, Goto, Hit, NoFault, quota, local
  <2>3. \A q \in Requests : Unsent(q)' /\ OnLedger(Inner[q])' => Unsent(q)
    BY <1>15 DEF TimesOut, CallbackEnds, Goto, Hit, NoFault, quota, local
  <2> QED BY <2>1, <2>2, <2>3, PaidKept
<1>16. ASSUME NEW r \in Requests, Refund(r) PROVE PaidInv'
  <2>0. chain' = chain /\ \A q \in Requests : Excused(q)' <=> Excused(q)
    BY <1>16, ExcusesKept DEF Refund, Kinds
  <2>1. /\ chain' = chain /\ ok' = ok /\ pc[r] = "refund" /\ pc' = [pc EXCEPT ![r] = "undo"]
        /\ \A q \in Requests : q # r => charge'[q] = charge[q]
    BY <1>16 DEF Refund, Goto, local
  <2>2. ASSUME NEW i \in Inners, OnLedger(i)'
        PROVE  \E q \in Requests : Inner[q] = i /\ Backs(q)'
    <3>1. PICK w \in Requests : Inner[w] = i /\ Backs(w)
      BY <2>0, <2>1, <2>2 DEF PaidInv, LandedIsCharged
    <3>2. CASE w # r \/ Excused(r)
      BY <2>0, <2>1, <3>1, <3>2
    <3>3. CASE w = r /\ ~Excused(r)
      <4>1. PICK q \in Requests \ {r} : Inner[q] = Inner[r] /\ Backs(q)
        BY <2>0, <2>1, <2>2, <3>1, <3>3 DEF PaidInv
      <4> QED BY <2>0, <2>1, <3>1, <3>3, <4>1
    <3> QED BY <3>2, <3>3
  <2>3. ASSUME NEW q \in Requests, Unsent(q)', OnLedger(Inner[q])'
        PROVE  \E w \in Requests \ {q} : Inner[w] = Inner[q] /\ Backs(w)'
    <3>1. q # r /\ Unsent(q)
      BY <2>0, <2>1, <2>3
    <3>2. Inner[q] # Inner[r]
      BY <2>0, <2>1, <3>1 DEF SlotInv, OneSponsorPerInner, Holding
    <3>3. PICK w \in Requests \ {q} : Inner[w] = Inner[q] /\ Backs(w)
      BY <2>0, <2>1, <2>3, <3>1 DEF PaidInv
    <3> QED BY <2>0, <2>1, <3>2, <3>3
  <2> QED BY <2>2, <2>3 DEF PaidInv, LandedIsCharged
<1>17. ASSUME NEW r \in Requests, LeaseEnds(r) PROVE PaidInv'
  <2>0. chain' = chain /\ \A q \in Requests : Excused(q)' <=> Excused(q)
    BY <1>17, ExcusesKept DEF LeaseEnds, Kinds
  <2>1. UNCHANGED <<pc, chain, charge, ok>>
    BY <1>17 DEF LeaseEnds, quota, local
  <2>2. \A q \in Requests : (Backs(q) <=> Backs(q)') /\ (Unsent(q) <=> Unsent(q)')
    BY <2>0, <2>1
  <2> QED BY <2>1, <2>2, PaidKept
<1>18. ASSUME NEW i \in Inners, Settles(i) PROVE PaidInv'
  <2>1. \A j \in Inners : OnLedger(j)' => OnLedger(j)
    BY <1>18 DEF Settles, NoFault, quota, local
  <2>2. \A q \in Requests : Backs(q) => Backs(q)'
    BY <1>18 DEF Settles, NoFault, quota, local
  <2>3. \A q \in Requests : Unsent(q)' /\ OnLedger(Inner[q])' => Unsent(q)
    BY <1>18 DEF Settles, NoFault, quota, local
  <2> QED BY <2>1, <2>2, <2>3, PaidKept
<1>19. ASSUME NEW p \in Pods, Crash(p) PROVE PaidInv'
  <2>1. \A j \in Inners : OnLedger(j)' => OnLedger(j)
    BY <1>19 DEF Crash, quota, local, Ended
  <2>2. \A q \in Requests : Backs(q) => Backs(q)'
    BY <1>19 DEF Crash, quota, local, Ended
  <2>3. \A q \in Requests : Unsent(q)' /\ OnLedger(Inner[q])' => Unsent(q)
    BY <1>19 DEF Crash, quota, local, Ended
  <2> QED BY <2>1, <2>2, <2>3, PaidKept
<1>20. CASE Midnight
  <2>1. \A j \in Inners : OnLedger(j)' => OnLedger(j)
    BY <1>20 DEF Midnight, NoFault, local
  <2>2. \A q \in Requests : Backs(q) => Backs(q)'
    BY <1>20 DEF Midnight, NoFault, local
  <2>3. \A q \in Requests : Unsent(q)' /\ OnLedger(Inner[q])' => Unsent(q)
    BY <1>20 DEF Midnight, NoFault, local
  <2> QED BY <2>1, <2>2, <2>3, PaidKept
<1>21. CASE UNCHANGED vars
  <2>1. \A j \in Inners : OnLedger(j)' => OnLedger(j)
    BY <1>21 DEF vars
  <2>2. \A q \in Requests : Backs(q) => Backs(q)'
    BY <1>21 DEF vars
  <2>3. \A q \in Requests : Unsent(q)' /\ OnLedger(Inner[q])' => Unsent(q)
    BY <1>21 DEF vars
  <2> QED BY <2>1, <2>2, <2>3, PaidKept
<1> QED BY <1>1, <1>2, <1>3, <1>4, <1>5, <1>6, <1>7, <1>8, <1>9, <1>10, <1>11, <1>12, <1>13, <1>14, <1>15, <1>16, <1>17, <1>18, <1>19, <1>20, <1>21 DEF Next, Handler

-----------------------------------------------------------------------------
(* The theorems.                                                           *)

LEMMA Inductive == Spec => []IInv
<1>1. Init => IInv
  BY TypeInit, LocalInit, TurnInit, SlotInit, PaidInit DEF IInv
<1>2. IInv /\ [Next]_vars => IInv'
  BY TypeStep, LocalStep, TurnStep, SlotStep, PaidStep DEF IInv
<1> QED BY <1>1, <1>2, PTL DEF Spec

\* GasStation's variables keep their types: the attempts of withLock never exceed
\* retryCount + 1, and the promise chains hold requests.
THEOREM TypeCorrect == Spec => []TypeOK
<1>1. IInv => TypeOK
  BY DEF IInv
<1> QED BY <1>1, Inductive, PTL

\* sponsor: between SET NX and DEL of a replay key there is one sponsor of its inner
\* transaction.
THEOREM OneSponsorTheorem == Spec => []OneSponsorPerInner
<1>1. IInv => OneSponsorPerInner
  BY DEF IInv, SlotInv
<1> QED BY <1>1, Inductive, PTL

\* RelayerSubmissionQueue and withLock: the callbacks of one pod never overlap, those of
\* two pods only when one has outlived its lease.
THEOREM TakeTurnsTheorem == Spec => []TakeTurns
<1>1. IInv => TakeTurns
  BY DEF IInv, TurnInv, TakeTurns
<1> QED BY <1>1, Inductive, PTL

\* sponsor's catch: a fee-bump that the relayer has paid for is backed by a charge that
\* was not given back, unless an answer timed out or Horizon told of a failed inner
\* transaction, the two cases in which the catch gives back what the ledger keeps.
THEOREM LandedIsChargedTheorem == Spec => []LandedIsCharged
<1>1. IInv => LandedIsCharged
  BY DEF IInv, PaidInv
<1> QED BY <1>1, Inductive, PTL

\* sponsor's catches: a refused request leaves neither a charge nor a slot behind, unless
\* Redis or the relayer's configuration failed it.
THEOREM RefusedIsUndoneTheorem == Spec => []RefusedIsUndone
<1>1. IInv => RefusedIsUndone
  <2> SUFFICES ASSUME IInv PROVE RefusedIsUndone
    OBVIOUS
  <2>1. \A r \in Requests :
           pc[r] = "refused" /\ ~Hurt(r) => charge[r] \in {"none", "stray"}
    BY DEF IInv, LocalInv, Local
  <2>2. \A i \in slots : \E r \in Requests : Inner[r] = i /\ Keeps(r)
    BY DEF IInv, SlotInv
  <2> QED BY <2>1, <2>2 DEF RefusedIsUndone, Keeps
<1> QED BY <1>1, Inductive, PTL

-----------------------------------------------------------------------------
(* The sum of the fees of a finite set of requests.  FeesOf takes it with  *)
(* MapThenSumSet, which adds the fees up along whatever order CHOOSE picks *)
(* the requests in; that it is a sum at all is proved here.                *)

LEMMA LeastNatural ==
  ASSUME NEW T \in SUBSET Nat, T # {}
  PROVE  \E x \in T : \A y \in T : x <= y
<1>1. PICK x \in T : \A y \in T : ~ (<<y, x>> \in OpToRel(<, Nat))
  BY NatLessThanWellFounded, WFMin, Zenon
<1>2. ASSUME NEW y \in T PROVE x <= y
  <2>1. ~ (<<y, x>> \in OpToRel(<, Nat)) /\ x \in Nat /\ y \in Nat
    BY <1>1
  <2> QED BY <2>1 DEF OpToRel
<1> QED BY <1>2

AnyOf(s) == CHOOSE x \in s : TRUE

Added(g, s) == IF s = {} THEN 0 ELSE TotalFee(AnyOf(s)) + g[s \ {AnyOf(s)}]

\* g adds up the fees of the sets in D, each from a smaller one.
Tallies(g, D) == g = [s \in D |-> Added(g, s)]

Tally(S) == CHOOSE g : Tallies(g, SUBSET S)

FeesOver(S) == Tally(S)[S]

LEMMA SumIsFeesOver ==
  ASSUME NEW S
  PROVE  MapThenSumSet(TotalFee, S) = FeesOver(S)
BY DEF MapThenSumSet, MapThenFoldSet, FeesOver, Tally, Tallies, Added, AnyOf

LEMMA Smaller ==
  ASSUME NEW s, IsFiniteSet(s), NEW x \in s
  PROVE  /\ IsFiniteSet(s \ {x})
         /\ Cardinality(s) \in Nat /\ Cardinality(s \ {x}) \in Nat
         /\ Cardinality(s) = Cardinality(s \ {x}) + 1
<1>1. IsFiniteSet(s \ {x}) /\ Cardinality(s \ {x}) = Cardinality(s) - 1
  BY FS_RemoveElement
<1> QED BY <1>1, FS_CardinalityType

LEMMA AnyIsOne ==
  ASSUME NEW s, s # {}
  PROVE  AnyOf(s) \in s
<1>1. \E x \in s : TRUE
  OBVIOUS
<1> QED BY <1>1, Zenon DEF AnyOf

UpTo(S, n) == {s \in SUBSET S : Cardinality(s) <= n}

LEMMA TallyGrows ==
  ASSUME NEW S, IsFiniteSet(S), NEW n \in Nat, NEW g, Tallies(g, UpTo(S, n))
  PROVE  \E h : Tallies(h, UpTo(S, n + 1))
<1> DEFINE h == [s \in UpTo(S, n + 1) |-> Added(g, s)]
<1>1. \A s \in UpTo(S, n + 1) : /\ s \in SUBSET S /\ IsFiniteSet(s)
                                /\ Cardinality(s) \in Nat /\ Cardinality(s) <= n + 1
  BY FS_Subset, FS_CardinalityType DEF UpTo
<1>2. UpTo(S, n) \subseteq UpTo(S, n + 1)
  <2> SUFFICES ASSUME NEW s \in UpTo(S, n) PROVE s \in UpTo(S, n + 1)
    OBVIOUS
  <2>1. s \in SUBSET S /\ Cardinality(s) <= n
    BY DEF UpTo
  <2>2. Cardinality(s) \in Nat
    BY <2>1, FS_Subset, FS_CardinalityType
  <2> QED BY <2>1, <2>2 DEF UpTo
<1>3. \A s \in UpTo(S, n) : h[s] = g[s]
  BY <1>2 DEF Tallies
<1>4. ASSUME NEW s \in UpTo(S, n + 1) PROVE Added(h, s) = Added(g, s)
  <2>1. CASE s = {}
    BY <2>1 DEF Added
  <2>2. CASE s # {}
    <3> DEFINE t == s \ {AnyOf(s)}
    <3>1. AnyOf(s) \in s
      BY <2>2, AnyIsOne
    <3>2. t \in SUBSET S /\ Cardinality(t) <= n
      BY <1>1, <3>1, Smaller
    <3>3. h[t] = g[t]
      BY <1>3, <3>2 DEF UpTo
    <3> HIDE DEF h, t
    <3> QED BY <2>2, <3>3 DEF Added, t
  <2> QED BY <2>1, <2>2
<1>5. h = [s \in UpTo(S, n + 1) |-> Added(h, s)]
  BY <1>4
<1> HIDE DEF h
<1> QED BY <1>5 DEF Tallies

LEMMA TallyExists ==
  ASSUME NEW S, IsFiniteSet(S)
  PROVE  Tally(S) = [s \in SUBSET S |-> Added(Tally(S), s)]
<1> DEFINE T == {n \in Nat : ~ \E g : Tallies(g, UpTo(S, n))}
<1>1. T = {}
  <2> SUFFICES ASSUME T # {} PROVE FALSE
    OBVIOUS
  <2>1. T \in SUBSET Nat
    OBVIOUS
  <2>2. PICK n \in T : \A m \in T : n <= m
    BY <2>1, LeastNatural
  <2>3. n \in Nat /\ ~ \E g : Tallies(g, UpTo(S, n))
    BY <2>2
  <2>4. CASE n = 0
    <3> DEFINE g == [s \in UpTo(S, 0) |-> 0]
    <3>1. \A s \in UpTo(S, 0) : s = {}
      <4> SUFFICES ASSUME NEW s \in UpTo(S, 0) PROVE s = {}
        OBVIOUS
      <4>1. s \in SUBSET S /\ Cardinality(s) <= 0
        BY DEF UpTo
      <4>2. IsFiniteSet(s) /\ Cardinality(s) \in Nat
        BY <4>1, FS_Subset, FS_CardinalityType
      <4> QED BY <4>1, <4>2, FS_EmptySet
    <3>2. \A s \in UpTo(S, 0) : Added(g, s) = 0
      BY <3>1 DEF Added
    <3>3. Tallies(g, UpTo(S, 0))
      BY <3>2 DEF Tallies
    <3> QED BY <2>3, <2>4, <3>3
  <2>5. CASE n # 0
    <3>1. n - 1 \in Nat /\ n - 1 \notin T /\ n - 1 + 1 = n
      BY <2>2, <2>3, <2>5
    <3>2. PICK g : Tallies(g, UpTo(S, n - 1))
      BY <3>1
    <3>3. \E h : Tallies(h, UpTo(S, n - 1 + 1))
      BY <3>1, <3>2, TallyGrows
    <3> QED BY <2>3, <3>1, <3>3
  <2> QED BY <2>4, <2>5
<1>2. Cardinality(S) \in Nat
  BY FS_CardinalityType
<1>3. PICK g : Tallies(g, UpTo(S, Cardinality(S)))
  BY <1>1, <1>2
<1>4. UpTo(S, Cardinality(S)) = SUBSET S
  BY FS_Subset DEF UpTo
<1>5. Tallies(g, SUBSET S)
  BY <1>3, <1>4
<1>6. Tallies(Tally(S), SUBSET S)
  BY <1>5, Zenon DEF Tally
<1> QED BY <1>6 DEF Tallies

\* Among sets of subsets there is one that loses membership with every element.
LEMMA SmallestOf ==
  ASSUME NEW S, IsFiniteSet(S), NEW B \in SUBSET (SUBSET S), B # {}
  PROVE  \E s \in B : \A x \in s : s \ {x} \notin B
<1> DEFINE C == {Cardinality(s) : s \in B}
<1>1. \A s \in B : IsFiniteSet(s) /\ Cardinality(s) \in Nat
  BY FS_Subset, FS_CardinalityType
<1>2. C \in SUBSET Nat /\ C # {}
  BY <1>1
<1>3. PICK n \in C : \A m \in C : n <= m
  BY <1>2, LeastNatural
<1>4. PICK s \in B : n = Cardinality(s)
  BY <1>3
<1>5. ASSUME NEW x \in s, s \ {x} \in B PROVE FALSE
  <2>1. Cardinality(s) \in Nat /\ Cardinality(s \ {x}) \in Nat
        /\ Cardinality(s) = Cardinality(s \ {x}) + 1
    BY <1>1, Smaller
  <2>2. Cardinality(s) <= Cardinality(s \ {x})
    BY <1>3, <1>4, <1>5
  <2> QED BY <2>1, <2>2
<1> QED BY <1>4, <1>5

LEMMA FeeType == \A r \in Requests : TotalFee(r) \in Nat
BY FeeOK, InnerOK DEF TotalFee

LEMMA TallyOf ==
  ASSUME NEW S, IsFiniteSet(S), NEW s \in SUBSET S
  PROVE  /\ s = {} => Tally(S)[s] = 0
         /\ s # {} => /\ AnyOf(s) \in s
                      /\ Tally(S)[s] = TotalFee(AnyOf(s)) + Tally(S)[s \ {AnyOf(s)}]
<1>1. Tally(S)[s] = Added(Tally(S), s)
  <2> DEFINE g == Tally(S)
  <2>1. g = [t \in SUBSET S |-> Added(g, t)]
    BY TallyExists
  <2> HIDE DEF g
  <2>2. g[s] = Added(g, s)
    BY <2>1
  <2> QED BY <2>2 DEF g
<1> QED BY <1>1, AnyIsOne DEF Added

LEMMA TallyType ==
  ASSUME NEW S \in SUBSET Requests, IsFiniteSet(S), NEW s \in SUBSET S
  PROVE  Tally(S)[s] \in Nat
<1> DEFINE B == {t \in SUBSET S : Tally(S)[t] \notin Nat}
<1> SUFFICES ASSUME B # {} PROVE FALSE
  OBVIOUS
<1>1. PICK t \in B : \A x \in t : t \ {x} \notin B
  <2>1. B \in SUBSET (SUBSET S)
    OBVIOUS
  <2> QED BY <2>1, SmallestOf
<1>2. t \in SUBSET S /\ Tally(S)[t] \notin Nat
  BY <1>1
<1>3. CASE t = {}
  <2>1. Tally(S)[t] = 0
    BY <1>2, <1>3, TallyOf
  <2> QED BY <1>2, <2>1
<1>4. CASE t # {}
  <2>1. AnyOf(t) \in t /\ Tally(S)[t] = TotalFee(AnyOf(t)) + Tally(S)[t \ {AnyOf(t)}]
    BY <1>2, <1>4, TallyOf
  <2>2. Tally(S)[t \ {AnyOf(t)}] \in Nat
    BY <1>1, <1>2, <2>1
  <2>3. TotalFee(AnyOf(t)) \in Nat
    BY <1>2, <2>1, FeeType
  <2> QED BY <1>2, <2>1, <2>2, <2>3
<1> QED BY <1>3, <1>4

\* Whichever request is taken off first, the rest adds up to the same.
LEMMA TallyAny ==
  ASSUME NEW S \in SUBSET Requests, IsFiniteSet(S), NEW s \in SUBSET S, NEW x \in s
  PROVE  Tally(S)[s] = TotalFee(x) + Tally(S)[s \ {x}]
<1> DEFINE g == Tally(S)
           Any(t) == \A y \in t : g[t] = TotalFee(y) + g[t \ {y}]
           B == {t \in SUBSET S : ~ Any(t)}
<1> SUFFICES ASSUME B # {} PROVE FALSE
  OBVIOUS
<1>1. PICK t \in B : \A y \in t : t \ {y} \notin B
  <2>1. B \in SUBSET (SUBSET S)
    OBVIOUS
  <2> QED BY <2>1, SmallestOf
<1>2. PICK y \in t : g[t] # TotalFee(y) + g[t \ {y}]
  BY <1>1
<1>3. t \in SUBSET S /\ t # {}
  BY <1>1, <1>2
<1>4. PICK c \in t : g[t] = TotalFee(c) + g[t \ {c}]
  BY <1>3, TallyOf
<1>5. c # y
  BY <1>2, <1>4
<1>6. \A z \in t : Any(t \ {z})
  BY <1>1, <1>3
<1>7. \A u \in SUBSET S : g[u] \in Nat
  BY TallyType
<1> HIDE DEF g, B
<1>8. g[t \ {c}] = TotalFee(y) + g[(t \ {c}) \ {y}]
  BY <1>2, <1>5, <1>6
<1>9. g[t \ {y}] = TotalFee(c) + g[(t \ {y}) \ {c}]
  BY <1>4, <1>5, <1>6
<1>10. (t \ {c}) \ {y} = (t \ {y}) \ {c}
  OBVIOUS
<1>11. TotalFee(c) \in Nat /\ TotalFee(y) \in Nat /\ g[(t \ {c}) \ {y}] \in Nat
  BY <1>3, <1>4, <1>7, FeeType
<1> QED BY <1>2, <1>4, <1>8, <1>9, <1>10, <1>11

LEMMA TallySame ==
  ASSUME NEW S \in SUBSET Requests, IsFiniteSet(S), NEW T \in SUBSET S, NEW s \in SUBSET T
  PROVE  Tally(T)[s] = Tally(S)[s]
<1> DEFINE B == {t \in SUBSET T : Tally(T)[t] # Tally(S)[t]}
<1> SUFFICES ASSUME B # {} PROVE FALSE
  OBVIOUS
<1>0. IsFiniteSet(T)
  BY FS_Subset
<1>1. PICK t \in B : \A x \in t : t \ {x} \notin B
  <2>1. B \in SUBSET (SUBSET T)
    OBVIOUS
  <2> QED BY <1>0, <2>1, SmallestOf
<1>2. t \in SUBSET T /\ t \in SUBSET S /\ Tally(T)[t] # Tally(S)[t]
  BY <1>1
<1>3. CASE t = {}
  BY <1>0, <1>2, <1>3, TallyOf
<1>4. CASE t # {}
  <2>1. /\ AnyOf(t) \in t
        /\ Tally(T)[t] = TotalFee(AnyOf(t)) + Tally(T)[t \ {AnyOf(t)}]
        /\ Tally(S)[t] = TotalFee(AnyOf(t)) + Tally(S)[t \ {AnyOf(t)}]
    BY <1>0, <1>2, <1>4, TallyOf
  <2>2. Tally(T)[t \ {AnyOf(t)}] = Tally(S)[t \ {AnyOf(t)}]
    BY <1>1, <1>2, <2>1
  <2> QED BY <1>2, <2>1, <2>2
<1> QED BY <1>3, <1>4

\* One request more costs its fee more.
LEMMA FeesAdd ==
  ASSUME NEW S \in SUBSET Requests, IsFiniteSet(S), NEW x \in Requests, x \notin S
  PROVE  /\ FeesOver(S) \in Nat
         /\ FeesOver(S \cup {x}) = FeesOver(S) + TotalFee(x)
<1> DEFINE U == S \cup {x}
<1>0. IsFiniteSet(U)
  BY FS_AddElement
<1>1. U \in SUBSET Requests /\ IsFiniteSet(U) /\ S \in SUBSET U /\ U \ {x} = S /\ U \in SUBSET U
  BY <1>0
<1>2. Tally(U)[U] = TotalFee(x) + Tally(U)[S]
  <2>1. x \in U
    OBVIOUS
  <2> HIDE DEF U
  <2>2. Tally(U)[U] = TotalFee(x) + Tally(U)[U \ {x}]
    BY <1>1, <2>1, TallyAny
  <2> QED BY <1>1, <2>2
<1>3. Tally(S)[S] = Tally(U)[S]
  BY <1>1, TallySame
<1>4. Tally(S)[S] \in Nat /\ TotalFee(x) \in Nat
  BY TallyType, FeeType
<1> QED BY <1>2, <1>3, <1>4 DEF FeesOver

LEMMA FeesNone == FeesOver({}) = 0
BY FS_EmptySet, TallyOf DEF FeesOver

-----------------------------------------------------------------------------
(* The quota.                                                              *)

Marks == {"none", "today", "earlier", "stray"}

Marked(c, s, k) == {r \in Requests : Student(r) = s /\ c[r] = k}

\* The requests that were ever charged; there are finitely many at any time.
Charged(c) == {r \in Requests : c[r] # "none"}

FeesIn(c, s, k) == FeesOver(Marked(c, s, k))

QuotaInv ==
    /\ IsFiniteSet(Charged(charge))
    /\ ~midnight => \A r \in Requests : charge[r] \in {"none", "today"}
    /\ \A s \in Students :
          /\ used[s] = FeesIn(charge, s, "today") - FeesIn(charge, s, "stray")
          /\ FeesIn(charge, s, "today") <= Quota + FeesIn(charge, s, "stray")

LEMMA FeesOfIs ==
  ASSUME NEW s, NEW k
  PROVE  FeesOf(s, {k}) = FeesIn(charge, s, k)
<1> DEFINE S == {r \in Requests : Student(r) = s /\ charge[r] \in {k}}
<1>1. S = Marked(charge, s, k)
  BY DEF Marked
<1>2. FeesOf(s, {k}) = MapThenSumSet(TotalFee, S)
  BY DEF FeesOf
<1> HIDE DEF S
<1> QED BY <1>1, <1>2, SumIsFeesOver DEF FeesIn

LEMMA MarkedFinite ==
  ASSUME NEW c, IsFiniteSet(Charged(c)), NEW s, NEW k, k # "none"
  PROVE  /\ Marked(c, s, k) \in SUBSET Requests /\ IsFiniteSet(Marked(c, s, k))
         /\ FeesIn(c, s, k) \in Nat
<1>1. Marked(c, s, k) \in SUBSET Charged(c) /\ Marked(c, s, k) \in SUBSET Requests
  BY DEF Marked, Charged
<1>2. IsFiniteSet(Marked(c, s, k))
  BY <1>1, FS_Subset
<1>3. FeesIn(c, s, k) \in Nat
  <2> DEFINE M == Marked(c, s, k)
  <2>1. M \in SUBSET Requests /\ IsFiniteSet(M) /\ M \in SUBSET M
    BY <1>1, <1>2
  <2> HIDE DEF M
  <2>2. Tally(M)[M] \in Nat
    BY <2>1, TallyType
  <2> QED BY <2>2 DEF FeesIn, FeesOver, M
<1> QED BY <1>1, <1>2, <1>3

\* A request that is marked anew takes its fee from one sum to the other.
Moved(c, d, r, new) ==
    /\ c \in [Requests -> Marks] /\ IsFiniteSet(Charged(c))
    /\ r \in Requests /\ new \in Marks /\ new # c[r]
    /\ d = [c EXCEPT ![r] = new]

LEMMA MovedValue ==
  ASSUME NEW c, NEW d, NEW r, NEW new, Moved(c, d, r, new)
  PROVE  \A q \in Requests : d[q] = IF q = r THEN new ELSE c[q]
BY DEF Moved

LEMMA MovedFinite ==
  ASSUME NEW c, NEW d, NEW r, NEW new, Moved(c, d, r, new)
  PROVE  IsFiniteSet(Charged(d))
<1>1. Charged(d) \in SUBSET (Charged(c) \cup {r})
  BY MovedValue DEF Charged
<1>2. IsFiniteSet(Charged(c) \cup {r})
  BY FS_AddElement DEF Moved
<1> QED BY <1>1, <1>2, FS_Subset

LEMMA MovedSame ==
  ASSUME NEW c, NEW d, NEW r, NEW new, Moved(c, d, r, new), NEW s, NEW k,
         k \notin {new, c[r]} \/ s # Student(r)
  PROVE  FeesIn(d, s, k) = FeesIn(c, s, k)
<1>1. Marked(d, s, k) = Marked(c, s, k)
  BY MovedValue DEF Marked
<1> QED BY <1>1 DEF FeesIn

LEMMA MovedIn ==
  ASSUME NEW c, NEW d, NEW r, NEW new, Moved(c, d, r, new), new # "none"
  PROVE  FeesIn(d, Student(r), new) = FeesIn(c, Student(r), new) + TotalFee(r)
<1> DEFINE M == Marked(c, Student(r), new)
<1>1. Marked(d, Student(r), new) = M \cup {r} /\ r \notin M
  BY MovedValue DEF Moved, Marked
<1>2. M \in SUBSET Requests /\ IsFiniteSet(M) /\ r \in Requests
  BY MarkedFinite DEF Moved
<1> HIDE DEF M
<1>3. FeesOver(M \cup {r}) = FeesOver(M) + TotalFee(r)
  BY <1>1, <1>2, FeesAdd
<1> QED BY <1>1, <1>3 DEF FeesIn, M

LEMMA MovedOut ==
  ASSUME NEW c, NEW d, NEW r, NEW new, Moved(c, d, r, new), c[r] # "none"
  PROVE  FeesIn(c, Student(r), c[r]) = FeesIn(d, Student(r), c[r]) + TotalFee(r)
<1> DEFINE M == Marked(d, Student(r), c[r])
<1>1. Marked(c, Student(r), c[r]) = M \cup {r} /\ r \notin M
  BY MovedValue DEF Moved, Marked
<1>2. M \in SUBSET Requests /\ IsFiniteSet(M) /\ r \in Requests
  BY MarkedFinite, MovedFinite DEF Moved
<1> HIDE DEF M
<1>3. FeesOver(M \cup {r}) = FeesOver(M) + TotalFee(r)
  BY <1>1, <1>2, FeesAdd
<1> QED BY <1>1, <1>3 DEF FeesIn, M

LEMMA QuotaInit == Init => QuotaInv
<1> SUFFICES ASSUME Init PROVE QuotaInv
  OBVIOUS
<1>1. Charged(charge) = {}
  BY DEF Init, Charged
<1>2. \A s, k : k # "none" => Marked(charge, s, k) = {}
  BY DEF Init, Marked
<1>3. \A s : FeesIn(charge, s, "today") = 0 /\ FeesIn(charge, s, "stray") = 0
  BY <1>2, FeesNone DEF FeesIn
<1>4. IsFiniteSet(Charged(charge))
  BY <1>1, FS_EmptySet
<1>5. \A s \in Students :
        /\ used[s] = FeesIn(charge, s, "today") - FeesIn(charge, s, "stray")
        /\ FeesIn(charge, s, "today") <= Quota + FeesIn(charge, s, "stray")
  <2>1. \A s \in Students : used[s] = 0
    BY DEF Init
  <2> QED BY <1>3, <2>1, QuotaOK
<1>6. \A r \in Requests : charge[r] \in {"none", "today"}
  BY DEF Init
<1> QED BY <1>4, <1>5, <1>6 DEF QuotaInv

LEMMA QuotaSteps ==
  ASSUME [Next]_vars
  PROVE  UNCHANGED quota \/ Midnight \/ \E r \in Requests : Reserve(r) \/ Refund(r)
<1>1. ASSUME NEW r \in Requests, Receive(r) \/ LeaseEnds(r) PROVE UNCHANGED quota
  BY <1>1 DEF Receive, LeaseEnds
<1>2. ASSUME NEW r \in Requests, Handler(r) PROVE UNCHANGED quota \/ Reserve(r) \/ Refund(r)
  BY <1>2 DEF Handler, TakeSlot, ReserveRefused, DropSlot, Acquire, AcquireFails, Release, Sign,
              SignFails, Submit, SubmitFails, Accepted, Rejected, TimesOut, CallbackEnds
<1>3. (\E i \in Inners : Settles(i)) \/ (\E p \in Pods : Crash(p)) \/ UNCHANGED vars => UNCHANGED quota
  BY DEF Settles, Crash, vars, quota
<1> QED BY <1>1, <1>2, <1>3 DEF Next

LEMMA QuotaStep ==
  ASSUME IInv, QuotaInv, [Next]_vars
  PROVE  QuotaInv'
<1>0. /\ TypeOK /\ LocalInv /\ used \in [Students -> Int] /\ charge \in [Requests -> Marks]
      /\ IsFiniteSet(Charged(charge))
  BY DEF IInv, TypeOK, QuotaInv, Marks
<1>1. \A r \in Requests : Student(r) \in Students /\ TotalFee(r) \in Nat
  BY OwnerOK, InnerOK, FeeType DEF Student
<1>2. \A s \in Students : FeesIn(charge, s, "today") \in Nat /\ FeesIn(charge, s, "stray") \in Nat
  BY <1>0, MarkedFinite
<1>3. CASE UNCHANGED quota
  BY <1>3 DEF quota, QuotaInv, Charged, FeesIn, Marked
<1>4. ASSUME NEW r \in Requests, Reserve(r) PROVE QuotaInv'
  <2>1. charge[r] = "none"
    BY <1>0, <1>4 DEF Reserve, LocalInv, Local
  <2>2. /\ used' = [used EXCEPT ![Student(r)] = @ + TotalFee(r)]
        /\ charge' = [charge EXCEPT ![r] = "today"] /\ midnight' = midnight
        /\ used[Student(r)] + TotalFee(r) <= Quota
    BY <1>4 DEF Reserve
  <2>3. Moved(charge, charge', r, "today")
    BY <1>0, <2>1, <2>2 DEF Moved, Marks
  <2>4. /\ IsFiniteSet(Charged(charge'))
        /\ \A s : FeesIn(charge', s, "stray") = FeesIn(charge, s, "stray")
        /\ \A s : s # Student(r) => FeesIn(charge', s, "today") = FeesIn(charge, s, "today")
        /\ FeesIn(charge', Student(r), "today") = FeesIn(charge, Student(r), "today") + TotalFee(r)
    <3>1. IsFiniteSet(Charged(charge'))
      BY <2>3, MovedFinite
    <3>2. \A s : FeesIn(charge', s, "stray") = FeesIn(charge, s, "stray")
      BY <2>1, <2>3, MovedSame
    <3>3. \A s : s # Student(r) => FeesIn(charge', s, "today") = FeesIn(charge, s, "today")
      BY <2>3, MovedSame
    <3>4. FeesIn(charge', Student(r), "today") = FeesIn(charge, Student(r), "today") + TotalFee(r)
      BY <2>3, MovedIn
    <3> QED BY <3>1, <3>2, <3>3, <3>4
  <2>5. \A s \in Students :
          /\ used'[s] = FeesIn(charge', s, "today") - FeesIn(charge', s, "stray")
          /\ FeesIn(charge', s, "today") <= Quota + FeesIn(charge', s, "stray")
    <3> SUFFICES ASSUME NEW s \in Students
                 PROVE  /\ used'[s] = FeesIn(charge', s, "today") - FeesIn(charge', s, "stray")
                        /\ FeesIn(charge', s, "today") <= Quota + FeesIn(charge', s, "stray")
      OBVIOUS
    <3>1. /\ used[s] = FeesIn(charge, s, "today") - FeesIn(charge, s, "stray")
          /\ FeesIn(charge, s, "today") <= Quota + FeesIn(charge, s, "stray")
      BY DEF QuotaInv
    <3>2. CASE s = Student(r)
      <4>1. used'[s] = used[s] + TotalFee(r)
        BY <1>0, <2>2, <3>2
      <4>2. /\ used[s] + TotalFee(r) <= Quota /\ TotalFee(r) \in Nat
            /\ FeesIn(charge, s, "today") \in Nat /\ FeesIn(charge, s, "stray") \in Nat
        BY <1>1, <1>2, <2>2, <3>2
      <4>3. /\ FeesIn(charge', s, "today") = FeesIn(charge, s, "today") + TotalFee(r)
            /\ FeesIn(charge', s, "stray") = FeesIn(charge, s, "stray")
        BY <2>4, <3>2
      <4> QED BY <3>1, <4>1, <4>2, <4>3, QuotaOK
    <3>3. CASE s # Student(r)
      <4>1. used'[s] = used[s]
        BY <1>0, <2>2, <3>3
      <4> QED BY <2>4, <3>1, <3>3, <4>1
    <3> QED BY <3>2, <3>3
  <2>6. ~midnight' => \A q \in Requests : charge'[q] \in {"none", "today"}
    BY <1>0, <2>2 DEF QuotaInv
  <2> QED BY <2>4, <2>5, <2>6 DEF QuotaInv, FeesIn, Marked, Charged
<1>5. ASSUME NEW r \in Requests, Refund(r) PROVE QuotaInv'
  <2>1. charge[r] \in {"today", "earlier"}
    BY <1>0, <1>5 DEF Refund, LocalInv, Local
  <2> DEFINE new == IF charge[r] = "today" THEN "none" ELSE "stray"
  <2>2. CASE UNCHANGED quota
    BY <1>3, <2>2
  <2>3. CASE /\ used' = [used EXCEPT ![Student(r)] = @ - TotalFee(r)]
             /\ charge' = [charge EXCEPT ![r] = new] /\ midnight' = midnight
    <3>1. new \in Marks /\ new # charge[r]
      BY <2>1 DEF Marks
    <3>2. Moved(charge, charge', r, new)
      BY <1>0, <2>3, <3>1 DEF Moved
    <3>3. \/ charge[r] = "today" /\ new = "none"
          \/ charge[r] = "earlier" /\ new = "stray"
      <4>1. ASSUME charge[r] = "today" PROVE new = "none"
        BY <4>1
      <4>2. ASSUME charge[r] = "earlier" PROVE new = "stray"
        BY <4>2
      <4> QED BY <2>1, <4>1, <4>2
    <3> HIDE DEF new
    <3>4. /\ IsFiniteSet(Charged(charge'))
          /\ \A s : s # Student(r) => /\ FeesIn(charge', s, "today") = FeesIn(charge, s, "today")
                                      /\ FeesIn(charge', s, "stray") = FeesIn(charge, s, "stray")
          /\ charge[r] = "today" =>
                /\ FeesIn(charge, Student(r), "today") = FeesIn(charge', Student(r), "today") + TotalFee(r)
                /\ FeesIn(charge', Student(r), "stray") = FeesIn(charge, Student(r), "stray")
          /\ charge[r] = "earlier" =>
                /\ FeesIn(charge', Student(r), "stray") = FeesIn(charge, Student(r), "stray") + TotalFee(r)
                /\ FeesIn(charge', Student(r), "today") = FeesIn(charge, Student(r), "today")
      <4>1. IsFiniteSet(Charged(charge'))
        BY <3>2, MovedFinite
      <4>2. \A s : s # Student(r) => /\ FeesIn(charge', s, "today") = FeesIn(charge, s, "today")
                                     /\ FeesIn(charge', s, "stray") = FeesIn(charge, s, "stray")
        BY <3>2, MovedSame
      <4>3. ASSUME charge[r] = "today", new = "none"
            PROVE  /\ FeesIn(charge, Student(r), "today") = FeesIn(charge', Student(r), "today") + TotalFee(r)
                   /\ FeesIn(charge', Student(r), "stray") = FeesIn(charge, Student(r), "stray")
        <5>1. FeesIn(charge, Student(r), charge[r]) = FeesIn(charge', Student(r), charge[r]) + TotalFee(r)
          BY <3>2, <4>3, MovedOut
        <5>2. FeesIn(charge', Student(r), "stray") = FeesIn(charge, Student(r), "stray")
          BY <3>2, <4>3, MovedSame
        <5> QED BY <4>3, <5>1, <5>2
      <4>4. ASSUME charge[r] = "earlier", new = "stray"
            PROVE  /\ FeesIn(charge', Student(r), "stray") = FeesIn(charge, Student(r), "stray") + TotalFee(r)
                   /\ FeesIn(charge', Student(r), "today") = FeesIn(charge, Student(r), "today")
        <5>1. FeesIn(charge', Student(r), new) = FeesIn(charge, Student(r), new) + TotalFee(r)
          BY <3>2, <4>4, MovedIn
        <5>2. FeesIn(charge', Student(r), "today") = FeesIn(charge, Student(r), "today")
          BY <3>2, <4>4, MovedSame
        <5> QED BY <4>4, <5>1, <5>2
      <4> QED BY <3>3, <4>1, <4>2, <4>3, <4>4
    <3>5. \A s \in Students :
            /\ used'[s] = FeesIn(charge', s, "today") - FeesIn(charge', s, "stray")
            /\ FeesIn(charge', s, "today") <= Quota + FeesIn(charge', s, "stray")
      <4> SUFFICES ASSUME NEW s \in Students
                   PROVE  /\ used'[s] = FeesIn(charge', s, "today") - FeesIn(charge', s, "stray")
                          /\ FeesIn(charge', s, "today") <= Quota + FeesIn(charge', s, "stray")
        OBVIOUS
      <4>1. /\ used[s] = FeesIn(charge, s, "today") - FeesIn(charge, s, "stray")
            /\ FeesIn(charge, s, "today") <= Quota + FeesIn(charge, s, "stray")
        BY DEF QuotaInv
      <4>2. FeesIn(charge', s, "today") \in Nat /\ FeesIn(charge', s, "stray") \in Nat
        BY <3>4, MarkedFinite
      <4>3. CASE s = Student(r)
        <5>1. used'[s] = used[s] - TotalFee(r)
          BY <1>0, <2>3, <4>3
        <5> QED BY <1>1, <1>2, <3>3, <3>4, <4>1, <4>2, <4>3, <5>1, QuotaOK
      <4>4. CASE s # Student(r)
        <5>1. used'[s] = used[s]
          BY <1>0, <2>3, <4>4
        <5> QED BY <3>4, <4>1, <4>4, <5>1
      <4> QED BY <4>3, <4>4
    <3>6. ~midnight' => \A q \in Requests : charge'[q] \in {"none", "today"}
      BY <1>0, <2>3, <3>3 DEF QuotaInv
    <3> QED BY <3>4, <3>5, <3>6 DEF QuotaInv, FeesIn, Marked, Charged
  <2> QED BY <1>5, <2>2, <2>3 DEF Refund, quota
<1>6. CASE Midnight
  <2>1. /\ midnight' /\ \A r \in Requests : charge[r] \in {"none", "today"}
        /\ used' = [s \in Students |-> 0]
        /\ charge' = [r \in Requests |-> IF charge[r] = "today" THEN "earlier" ELSE charge[r]]
    BY <1>6 DEF Midnight, QuotaInv
  <2>2. \A r \in Requests : charge'[r] \in {"none", "earlier"} /\ (charge'[r] # "none" => charge[r] # "none")
    BY <2>1
  <2>3. Charged(charge') \in SUBSET Charged(charge)
    BY <2>2 DEF Charged
  <2>4. IsFiniteSet(Charged(charge'))
    BY <1>0, <2>3, FS_Subset
  <2>5. \A s : Marked(charge', s, "today") = {} /\ Marked(charge', s, "stray") = {}
    BY <2>2 DEF Marked
  <2>6. \A s : FeesIn(charge', s, "today") = 0 /\ FeesIn(charge', s, "stray") = 0
    BY <2>5, FeesNone DEF FeesIn
  <2>7. \A s \in Students :
          /\ used'[s] = FeesIn(charge', s, "today") - FeesIn(charge', s, "stray")
          /\ FeesIn(charge', s, "today") <= Quota + FeesIn(charge', s, "stray")
    BY <2>1, <2>6, QuotaOK
  <2> QED BY <2>1, <2>4, <2>7 DEF QuotaInv, FeesIn, Marked, Charged
<1> QED BY <1>3, <1>4, <1>5, <1>6, QuotaSteps

\* reserveGasQuota, refundGasQuota and the end of the day, for any number of
\* requests and any faults: today's key is what was charged today less the
\* refunds of an earlier day's charges, and the charges of a day exceed the
\* quota by those refunds at most.
THEOREM QuotaTheorem == Spec => []QuotaLaw
<1>1. IInv /\ QuotaInv /\ [Next]_vars => QuotaInv'
  BY QuotaStep
<1>2. IInv /\ QuotaInv /\ UNCHANGED vars => QuotaInv'
  BY <1>1
<1>3. QuotaInv => QuotaLaw
  BY FeesOfIs DEF QuotaInv, QuotaLaw
<1> QED BY <1>1, <1>2, <1>3, QuotaInit, Inductive, PTL DEF Spec

=============================================================================
