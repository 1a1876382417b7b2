----------------------------- MODULE GasStation -----------------------------
(***************************************************************************)
(* The gas station relayer: services/gasStationService.ts (sponsor and the *)
(* RelayerSubmissionQueue), the daily quota of                             *)
(* middleware/gasQuotaMiddleware.ts and the Redis lock of                  *)
(* lib/lock/RedisLock.ts that makes the queues of all pods take turns on   *)
(* the relayer account.                                                    *)
(*                                                                         *)
(* A request is one POST /sponsor; each action is its code from one await  *)
(* to the next.  used, slots and lock are keys of Redis, queue is the      *)
(* promise chain of a pod, chain is what Horizon and the ledger know of    *)
(* the fee-bump of an inner transaction.  The time modelled is shorter     *)
(* than REPLAY_TTL_SECONDS (a day): no slot expires, and at most one       *)
(* midnight passes.                                                        *)
(***************************************************************************)
EXTENDS Integers, Sequences, FiniteSetsExt

CONSTANTS
    Pods,           \* server processes
    Requests,       \* POST /sponsor requests
    Inners,         \* student-signed inner transactions
    Students,
    Owner,          \* inner transaction -> the student who signed it
    Inner,          \* request -> the inner transaction it carries
    Pod,            \* request -> the process that serves it
    Fee,            \* inner transaction -> totalFee of its fee-bump
    Quota,          \* dailyQuotaStroops
    MaxTries,       \* retryCount + 1 of withLock
    Nobody,         \* the lock's key is absent
    Faults,         \* which of {"redis", "config", "kms", "horizon", "timeout",
                    \* "stall", "crash"} occur
    MaxFaults       \* how often, in all

ASSUME OwnerOK    == Owner \in [Inners -> Students]
ASSUME InnerOK    == Inner \in [Requests -> Inners]
ASSUME PodOK      == Pod \in [Requests -> Pods]
ASSUME FeeOK      == Fee \in [Inners -> Nat]
ASSUME QuotaOK    == Quota \in Nat
ASSUME MaxTriesOK == MaxTries \in Nat \ {0}
ASSUME NobodyOK   == Nobody \notin Requests
ASSUME MaxFaultsOK == MaxFaults \in Nat

Kinds == {"redis", "config", "kms", "horizon", "timeout", "stall", "crash"}

\* Not a fault: Horizon told the request that its inner transaction has failed on the ledger.
News == {"reverted"}

\* Where a request can be.
Labels == {"idle", "slot", "reserve", "unreserved", "queued", "sign", "submit", "sent",
           "release", "refund", "undo", "sponsored", "refused", "crashed"}

\* The callback of withLock is running, or its finally.
Critical == {"sign", "submit", "sent", "release"}

\* The request owns its replay slot.
Holding == {"reserve", "unreserved", "queued", "sign", "submit", "sent", "release",
            "refund", "undo"}

Ended == {"idle", "sponsored", "refused", "crashed"}

VARIABLES
    used,       \* student -> today's quota key
    midnight,   \* has the day changed yet?
    slots,      \* inner transactions whose replay key is set
    lock,       \* the request whose token is in the lock's key, or Nobody
    queue,      \* pod -> its requests on the relayer's promise chain
    chain,      \* inner transaction -> its fee-bump on the ledger
    pc,         \* request -> where it is
    tries,      \* request -> attempts to get the lock so far
    ok,         \* request -> did Horizon accept its fee-bump?
    charge,     \* request -> what it has left in the quota (history)
    met,        \* request -> the faults and news that have reached it (history)
    faults      \* faults so far

quota == <<used, midnight, charge>>
local == <<tries, ok>>
vars  == <<used, midnight, slots, lock, queue, chain, pc, tries, ok, charge, met, faults>>

Student(r) == Owner[Inner[r]]
TotalFee(r) == Fee[Inner[r]]

Goto(r, label) == pc' = [pc EXCEPT ![r] = label]

Hit(r, kind) ==
    /\ kind \in Faults
    /\ faults < MaxFaults
    /\ faults' = faults + 1
    /\ met' = [met EXCEPT ![r] = @ \cup {kind}]

NoFault == UNCHANGED <<met, faults>>

Init ==
    /\ used = [s \in Students |-> 0]
    /\ midnight = FALSE
    /\ slots = {}
    /\ lock = Nobody
    /\ queue = [p \in Pods |-> <<>>]
    /\ chain = [i \in Inners |-> "none"]
    /\ pc = [r \in Requests |-> "idle"]
    /\ tries = [r \in Requests |-> 0]
    /\ ok = [r \in Requests |-> FALSE]
    /\ charge = [r \in Requests |-> "none"]
    /\ met = [r \in Requests |-> {}]
    /\ faults = 0

-----------------------------------------------------------------------------
(* sponsor, up to the relayer's queue.                                     *)

\* gasQuotaMiddleware refuses a student with nothing left; validation passes.
Receive(r) ==
    /\ pc[r] = "idle"
    /\ Goto(r, IF used[Student(r)] < Quota THEN "slot" ELSE "refused")
    /\ UNCHANGED <<quota, slots, lock, queue, chain, local>>
    /\ NoFault

\* Mutant: the replay key is set whether or not it exists.
TakeSlotPlainSet(r) ==
    /\ pc[r] = "slot"
    /\ slots' = slots \cup {Inner[r]}
    /\ Goto(r, "reserve")
    /\ UNCHANGED <<quota, lock, queue, chain, local>>
    /\ NoFault

\* SET replayKey NX.
TakeSlot(r) ==
    /\ pc[r] = "slot"
    /\ \/ /\ Inner[r] \notin slots
          /\ slots' = slots \cup {Inner[r]}
          /\ Goto(r, "reserve")
          /\ NoFault
       \/ /\ Inner[r] \in slots
          /\ Goto(r, "refused")
          /\ UNCHANGED slots
          /\ NoFault
       \/ /\ Hit(r, "redis")
          /\ Goto(r, "refused")
          /\ UNCHANGED slots
    /\ UNCHANGED <<quota, lock, queue, chain, local>>

\* Mutant: the middleware's check is taken for the reservation.
ReserveUnchecked(r) ==
    /\ pc[r] = "reserve"
    /\ used' = [used EXCEPT ![Student(r)] = @ + TotalFee(r)]
    /\ charge' = [charge EXCEPT ![r] = "today"]
    /\ queue' = [queue EXCEPT ![Pod[r]] = Append(@, r)]
    /\ Goto(r, "queued")
    /\ UNCHANGED <<midnight, slots, lock, chain, local>>
    /\ NoFault

\* reserveGasQuota, then getRelayerPublicKey and the synchronous part of enqueue.
Reserve(r) ==
    /\ pc[r] = "reserve"
    /\ used[Student(r)] + TotalFee(r) <= Quota
    /\ used' = [used EXCEPT ![Student(r)] = @ + TotalFee(r)]
    /\ charge' = [charge EXCEPT ![r] = "today"]
    /\ \/ /\ queue' = [queue EXCEPT ![Pod[r]] = Append(@, r)]
          /\ Goto(r, "queued")
          /\ NoFault
       \/ /\ Hit(r, "config")        \* getPublicKey throws, outside of every try
          /\ Goto(r, "refused")
          /\ UNCHANGED queue
    /\ UNCHANGED <<midnight, slots, lock, chain, local>>

ReserveRefused(r) ==
    /\ pc[r] = "reserve"
    /\ \/ used[Student(r)] + TotalFee(r) > Quota /\ NoFault
       \/ Hit(r, "redis")
    /\ Goto(r, "unreserved")
    /\ UNCHANGED <<quota, slots, lock, queue, chain, local>>

\* redis.del(replayKey), after a refused reservation and after a refund.
DropSlot(r) ==
    /\ pc[r] \in {"unreserved", "undo"}
    /\ \/ slots' = slots \ {Inner[r]} /\ NoFault
       \/ UNCHANGED slots /\ Hit(r, "redis")
    /\ Goto(r, "refused")
    /\ UNCHANGED <<quota, lock, queue, chain, local>>

-----------------------------------------------------------------------------
(* RelayerSubmissionQueue.enqueue and withLock.                            *)

\* Mutant: no promise chain, only the lock.
TurnAtOnce(r) == pc[r] = "queued"

\* The promises before r on its pod's chain have settled.
Turn(r) ==
    /\ pc[r] = "queued"
    /\ queue[Pod[r]] # <<>>
    /\ Head(queue[Pod[r]]) = r

Leave(r) == queue' = [queue EXCEPT ![Pod[r]] = Tail(@)]

\* tryAcquire: SET NX with a fresh token.
Acquire(r) ==
    /\ Turn(r)
    /\ lock = Nobody
    /\ lock' = r
    /\ Goto(r, "sign")
    /\ UNCHANGED <<quota, slots, queue, chain, local>>
    /\ NoFault

\* Mutant: one attempt too many.
AcquireFailsOnceMore(r) ==
    /\ Turn(r)
    /\ lock # Nobody
    /\ tries' = [tries EXCEPT ![r] = @ + 1]
    /\ IF tries[r] < MaxTries
       THEN UNCHANGED <<pc, queue>>
       ELSE Goto(r, "refund") /\ Leave(r)
    /\ UNCHANGED <<quota, slots, lock, chain, ok>>
    /\ NoFault

\* Mutant: a link of the chain that throws is not caught, the links after it never run.
AcquireFailsUncaught(r) ==
    /\ Turn(r)
    /\ \/ lock # Nobody /\ NoFault
       \/ Hit(r, "redis")
    /\ tries' = [tries EXCEPT ![r] = @ + 1]
    /\ IF tries[r] + 1 < MaxTries THEN UNCHANGED pc ELSE Goto(r, "refund")
    /\ UNCHANGED <<quota, slots, lock, queue, chain, ok>>

\* tryAcquire returns null; after the last attempt withLock throws.
AcquireFails(r) ==
    /\ Turn(r)
    /\ \/ lock # Nobody /\ NoFault
       \/ Hit(r, "redis")
    /\ tries' = [tries EXCEPT ![r] = @ + 1]
    /\ IF tries[r] + 1 < MaxTries
       THEN UNCHANGED <<pc, queue>>
       ELSE Goto(r, "refund") /\ Leave(r)
    /\ UNCHANGED <<quota, slots, lock, chain, ok>>

\* The callback returned or threw: the finally of withLock is next.
CallbackEnds(r, success) ==
    /\ Goto(r, "release")
    /\ ok' = [ok EXCEPT ![r] = success]
    /\ UNCHANGED <<quota, slots, lock, queue, tries>>

\* RELEASE_LOCK_SCRIPT deletes the key if it still holds r's token; errors are swallowed.
Release(r) ==
    /\ pc[r] = "release"
    /\ \/ lock' = (IF lock = r THEN Nobody ELSE lock) /\ NoFault
       \/ UNCHANGED lock /\ Hit(r, "redis")
    /\ Leave(r)
    /\ Goto(r, IF ok[r] THEN "sponsored" ELSE "refund")
    /\ UNCHANGED <<quota, slots, chain, local>>

\* The key expires.  autoExtend renews it every ttl/3 for a running callback, so that
\* takes an owner that is gone, or one that has stalled for the whole ttl.
LeaseEnds(r) ==
    /\ lock = r
    /\ lock' = Nobody
    /\ IF pc[r] \in Critical THEN Hit(r, "stall") ELSE NoFault
    /\ UNCHANGED <<quota, slots, queue, chain, pc, local>>

-----------------------------------------------------------------------------
(* The callback: sign the fee-bump and submit it to Horizon.               *)

Sign(r) ==
    /\ pc[r] = "sign"
    /\ Goto(r, "submit")
    /\ UNCHANGED <<quota, slots, lock, queue, chain, local>>
    /\ NoFault

SignFails(r) ==
    /\ pc[r] = "sign"
    /\ Hit(r, "kms")
    /\ CallbackEnds(r, FALSE)
    /\ UNCHANGED chain

\* The ledger has included the fee-bump and charged the relayer, whether its inner
\* transaction succeeded ("landed") or failed ("reverted").
Included == {"landed", "reverted"}

\* The same inner transaction gives the same fee-bump: sending it again changes nothing.
Submit(r) ==
    /\ pc[r] = "submit"
    /\ chain' = [chain EXCEPT ![Inner[r]] = IF @ \in Included THEN @ ELSE "pending"]
    /\ Goto(r, "sent")
    /\ UNCHANGED <<quota, slots, lock, queue, local>>
    /\ NoFault

SubmitFails(r) ==
    /\ pc[r] = "submit"
    /\ Hit(r, "horizon")
    /\ CallbackEnds(r, FALSE)
    /\ UNCHANGED chain

Accepted(r) ==
    /\ pc[r] = "sent"
    /\ chain[Inner[r]] = "landed"
    /\ CallbackEnds(r, TRUE)
    /\ UNCHANGED chain
    /\ NoFault

\* Mutant: no answer yet is taken for a refusal.
RejectedUnheard(r) ==
    /\ pc[r] = "sent"
    /\ chain[Inner[r]] # "landed"
    /\ CallbackEnds(r, FALSE)
    /\ UNCHANGED chain
    /\ NoFault

\* Horizon answers 400: the ledger refused the fee-bump, or its inner transaction failed.
Rejected(r) ==
    /\ pc[r] = "sent"
    /\ \/ /\ chain[Inner[r]] = "failed"
          /\ NoFault
       \/ /\ chain[Inner[r]] = "reverted"
          /\ met' = [met EXCEPT ![r] = @ \cup News]
          /\ UNCHANGED faults
    /\ CallbackEnds(r, FALSE)
    /\ UNCHANGED chain

\* Horizon answers 504, or the connection breaks, while the fee-bump is still on its way.
TimesOut(r) ==
    /\ pc[r] = "sent"
    /\ Hit(r, "timeout")
    /\ CallbackEnds(r, FALSE)
    /\ UNCHANGED chain

\* Mutant: the quota is given back, the replay slot is not.
RefundKeepsSlot(r) ==
    /\ pc[r] = "refund"
    /\ used' = [used EXCEPT ![Student(r)] = @ - TotalFee(r)]
    /\ charge' = [charge EXCEPT ![r] = IF @ = "today" THEN "none" ELSE "stray"]
    /\ Goto(r, "refused")
    /\ UNCHANGED <<midnight, slots, lock, queue, chain, local>>
    /\ NoFault

\* refundGasQuota decrements the key of the day it runs on; errors are swallowed.
Refund(r) ==
    /\ pc[r] = "refund"
    /\ \/ /\ used' = [used EXCEPT ![Student(r)] = @ - TotalFee(r)]
          /\ charge' = [charge EXCEPT ![r] = IF @ = "today" THEN "none" ELSE "stray"]
          /\ NoFault
       \/ /\ Hit(r, "redis")
          /\ UNCHANGED <<used, charge>>
    /\ Goto(r, "undo")
    /\ UNCHANGED <<midnight, slots, lock, queue, chain, local>>

-----------------------------------------------------------------------------
(* The world.                                                              *)

\* The ledger decides a fee-bump that it has received.
Settles(i) ==
    /\ chain[i] = "pending"
    /\ \E result \in Included \cup {"failed"} : chain' = [chain EXCEPT ![i] = result]
    /\ UNCHANGED <<quota, slots, lock, queue, pc, local>>
    /\ NoFault

\* quotaKey names another day; the keys of the old one are never read again.
Midnight ==
    /\ ~midnight
    /\ midnight' = TRUE
    /\ used' = [s \in Students |-> 0]
    /\ charge' = [r \in Requests |-> IF charge[r] = "today" THEN "earlier" ELSE charge[r]]
    /\ UNCHANGED <<slots, lock, queue, chain, pc, local>>
    /\ NoFault

\* A pod stops with all its requests; what they left in Redis stays.
Crash(p) ==
    /\ "crash" \in Faults
    /\ faults < MaxFaults
    /\ faults' = faults + 1
    /\ queue' = [queue EXCEPT ![p] = <<>>]
    /\ pc' = [r \in Requests |->
                IF Pod[r] = p /\ pc[r] \notin Ended THEN "crashed" ELSE pc[r]]
    /\ UNCHANGED <<quota, slots, lock, chain, local, met>>

-----------------------------------------------------------------------------
Handler(r) ==
    \/ TakeSlot(r) \/ Reserve(r) \/ ReserveRefused(r) \/ DropSlot(r)
    \/ Acquire(r) \/ AcquireFails(r) \/ Release(r)
    \/ Sign(r) \/ SignFails(r) \/ Submit(r) \/ SubmitFails(r)
    \/ Accepted(r) \/ Rejected(r) \/ TimesOut(r) \/ Refund(r)

Next ==
    \/ \E r \in Requests : Receive(r) \/ Handler(r) \/ LeaseEnds(r)
    \/ \E i \in Inners : Settles(i)
    \/ \E p \in Pods : Crash(p)
    \/ Midnight

Spec == Init /\ [][Next]_vars

\* Node runs a ready continuation, the ledger decides and Redis expires keys.
FairSpec ==
    /\ Spec
    /\ \A r \in Requests : WF_vars(Handler(r)) /\ WF_vars(LeaseEnds(r))
    /\ \A i \in Inners : WF_vars(Settles(i))

-----------------------------------------------------------------------------
TypeOK ==
    /\ used \in [Students -> Int]
    /\ midnight \in BOOLEAN
    /\ slots \subseteq Inners
    /\ lock \in Requests \cup {Nobody}
    /\ queue \in [Pods -> Seq(Requests)]
    /\ chain \in [Inners -> {"none", "pending", "failed"} \cup Included]
    /\ pc \in [Requests -> Labels]
    /\ tries \in [Requests -> 0 .. MaxTries]
    /\ ok \in [Requests -> BOOLEAN]
    /\ charge \in [Requests -> {"none", "today", "earlier", "stray"}]
    /\ met \in [Requests -> SUBSET (Kinds \cup News)]
    /\ faults \in Nat

\* sponsor: the replay slot admits one request at a time for an inner transaction, from
\* SET NX until its own DEL, whatever fails in between.
OneSponsorPerInner ==
    \A r1, r2 \in Requests :
        r1 # r2 /\ pc[r1] \in Holding /\ pc[r2] \in Holding => Inner[r1] # Inner[r2]

\* RelayerSubmissionQueue: "concurrent sponsorships never race on the relayer account".
\* Two callbacks of one pod never overlap; two of different pods only after one of them
\* has stalled through its whole lease.
TakeTurns ==
    \A r1, r2 \in Requests :
        r1 # r2 /\ pc[r1] \in Critical /\ pc[r2] \in Critical =>
            /\ Pod[r1] # Pod[r2]
            /\ "stall" \in met[r1] \cup met[r2]

\* What became of its fee-bump r does not know, or knows and is not charged for.
Excused(r) ==
    \/ "timeout" \in met[r]
    \/ chain[Inner[r]] = "reverted" /\ "reverted" \in met[r]

\* sponsor's catch against the ledger: a fee-bump that the relayer has paid for, or still
\* may, is charged to the quota of a request that sent it.  Two requests are excused: the
\* one whose answer timed out, and the one that Horizon told of a failed inner transaction,
\* for which the ledger keeps the fee although sponsor says that nothing landed.
LandedIsCharged ==
    \A i \in Inners : chain[i] \in Included \cup {"pending"} =>
        \E r \in Requests :
            /\ Inner[r] = i
            /\ charge[r] \in {"today", "earlier"} \/ Excused(r)

Hurt(r) == met[r] \cap {"redis", "config"} # {}

\* sponsor's catches: a request that was refused has left no charge, and a replay slot that
\* is set belongs to a request under way, to one that succeeded or to one whose pod has
\* stopped; unless Redis failed the request or the relayer has no key.
RefusedIsUndone ==
    /\ \A r \in Requests :
          pc[r] = "refused" /\ ~Hurt(r) => charge[r] \in {"none", "stray"}
    /\ \A i \in slots : \E r \in Requests :
          /\ Inner[r] = i
          /\ \/ pc[r] \in Holding \cup {"sponsored", "crashed"}
             \/ pc[r] = "refused" /\ Hurt(r)

-----------------------------------------------------------------------------
FeesOf(s, kinds) ==
    MapThenSumSet(TotalFee, {r \in Requests : Student(r) = s /\ charge[r] \in kinds})

\* reserveGasQuota, refundGasQuota and the day's end together: today's key is exactly the
\* fees charged today less the refunds of what an earlier day was charged, so that a
\* student's fees of one day never exceed the quota by more than those stray refunds.
QuotaLaw ==
    \A s \in Students :
        /\ used[s] = FeesOf(s, {"today"}) - FeesOf(s, {"stray"})
        /\ FeesOf(s, {"today"}) <= Quota + FeesOf(s, {"stray"})

\* enqueue: the promise chain of a pod never jams, a request that got its slot is answered
\* whatever happens to those ahead of it.
EveryRequestEnds == \A r \in Requests : pc[r] = "slot" ~> pc[r] \in Ended
=============================================================================
