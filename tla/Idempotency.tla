---------------------------- MODULE Idempotency ----------------------------
(***************************************************************************)
(* middleware/idempotency.ts: requests that carry one Idempotency-Key, on  *)
(* several server instances that share Redis.                              *)
(*                                                                         *)
(* result is the key of the stored response, lock the in-flight key; the   *)
(* code writes '1' into the latter, and the model remembers whose SET it   *)
(* was.  An action is one command that Redis executes, or the code of the  *)
(* route's handler between two of them.  The time modelled is shorter than *)
(* the life of a stored response (24 h).                                   *)
(***************************************************************************)
EXTENDS Naturals

CONSTANTS
    Requests,       \* requests with the key, retries of the client included
    Instances,      \* server processes
    HomeOf,         \* request -> the process that serves it
    Nobody,         \* the key is absent
    Faults,         \* which of {"redis", "crash", "lapse"} occur
    MaxFaults       \* how often, in all

ASSUME HomeOK      == HomeOf \in [Requests -> Instances]
ASSUME NobodyOK    == Nobody \notin Requests
ASSUME MaxFaultsOK == MaxFaults \in Nat

\* How a request can come to be handled twice.  "unguarded": a request went on
\* without the lock, as Redis failed.  "unstored": an operation took effect and
\* its response will never be stored.  "lapse": the lease ended before its
\* request.  "stale": a request set the lock after a response had been stored
\* that it did not see.  "late": a request deleted the lock of another.
Reasons == {"unguarded", "unstored", "lapse", "stale", "late"}

Labels == {"idle", "look", "lock", "handling", "unguarded", "answered",
           "replayed", "refused", "stopped"}

Executing == {"handling", "unguarded"}

VARIABLES
    result,     \* the request whose response is stored, or Nobody
    lock,       \* the request that has set the in-flight key, or Nobody
    pc,         \* request -> where it is
    outcome,    \* request -> what its handler has done
    stores,     \* request -> its SETEX that Redis has still to execute
    releases,   \* request -> its DEL that Redis has still to execute
    met,        \* the reasons met so far (history)
    faults      \* faults so far

vars == <<result, lock, pc, outcome, stores, releases, met, faults>>

sending == <<stores, releases>>

Goto(r, label) == pc' = [pc EXCEPT ![r] = label]

Fault(kind) ==
    /\ kind \in Faults
    /\ faults < MaxFaults
    /\ faults' = faults + 1

Init ==
    /\ result = Nobody
    /\ lock = Nobody
    /\ pc = [r \in Requests |-> "idle"]
    /\ outcome = [r \in Requests |-> "none"]
    /\ stores = [r \in Requests |-> 0]
    /\ releases = [r \in Requests |-> 0]
    /\ met = {}
    /\ faults = 0

-----------------------------------------------------------------------------
(* The middleware, up to next().                                           *)

Arrive(r) ==
    /\ pc[r] = "idle"
    /\ Goto(r, "look")
    /\ UNCHANGED <<result, lock, outcome, sending, met, faults>>

\* GET of the stored response.
Look(r) ==
    /\ pc[r] = "look"
    /\ Goto(r, IF result = Nobody THEN "lock" ELSE "replayed")
    /\ UNCHANGED <<result, lock, outcome, sending, met, faults>>

\* Mutant: SET without NX.
AcquireLockPlainSet(r) ==
    /\ pc[r] = "lock"
    /\ lock' = r
    /\ met' = IF result = Nobody THEN met ELSE met \cup {"stale"}
    /\ Goto(r, "handling")
    /\ UNCHANGED <<result, outcome, sending, faults>>

\* SET of the in-flight key, if it does not exist.
AcquireLock(r) ==
    /\ pc[r] = "lock"
    /\ \/ /\ lock = Nobody
          /\ lock' = r
          /\ met' = IF result = Nobody THEN met ELSE met \cup {"stale"}
          /\ Goto(r, "handling")
       \/ /\ lock # Nobody
          /\ Goto(r, "refused")
          /\ UNCHANGED <<lock, met>>
    /\ UNCHANGED <<result, outcome, sending, faults>>

-----------------------------------------------------------------------------
(* The handler and the capture of its response.                            *)

\* The handler's operation takes effect, or it ends in an error.
Perform(r) ==
    /\ pc[r] \in Executing
    /\ outcome[r] = "none"
    /\ \E o \in {"done", "failed"} : outcome' = [outcome EXCEPT ![r] = o]
    /\ UNCHANGED <<result, lock, pc, sending, met, faults>>

\* The handler answers with res.json, and the response is captured.  Express'
\* json calls res.send, which is intercepted as well: it is captured twice, and
\* the commands of both captures reach Redis in order, over one connection.
\* Errors are not stored.
Captures == 2

\* Mutant: an object is given to res.send, which passes it to json: a third capture.
AnswerBySend(r) ==
    /\ pc[r] = "handling"
    /\ outcome[r] # "none"
    /\ stores' = [stores EXCEPT ![r] = IF outcome[r] = "done" THEN Captures + 1 ELSE 0]
    /\ releases' = [releases EXCEPT ![r] = Captures + 1]
    /\ Goto(r, "answered")
    /\ UNCHANGED <<result, lock, outcome, met, faults>>

Answer(r) ==
    /\ pc[r] \in Executing
    /\ outcome[r] # "none"
    /\ stores' = [stores EXCEPT ![r] =
                    IF pc[r] = "handling" /\ outcome[r] = "done" THEN Captures ELSE 0]
    /\ releases' = [releases EXCEPT ![r] = IF pc[r] = "handling" THEN Captures ELSE 0]
    /\ Goto(r, "answered")
    /\ UNCHANGED <<result, lock, outcome, met, faults>>

\* SETEX of the response.
Store(r) ==
    /\ stores[r] > 0
    /\ stores' = [stores EXCEPT ![r] = @ - 1]
    /\ result' = r
    /\ UNCHANGED <<lock, pc, outcome, releases, met, faults>>

\* Mutant: the lock is released without waiting for the response to be stored.
ReleaseAtOnce(r) ==
    /\ releases[r] > 0
    /\ releases' = [releases EXCEPT ![r] = @ - 1]
    /\ lock' = Nobody
    /\ met' = IF lock \in {r, Nobody} THEN met ELSE met \cup {"late"}
    /\ UNCHANGED <<result, pc, outcome, stores, faults>>

\* DEL of the in-flight key, whoever has set it.
Release(r) ==
    /\ stores[r] = 0 /\ releases[r] > 0
    /\ releases' = [releases EXCEPT ![r] = @ - 1]
    /\ lock' = Nobody
    /\ met' = IF lock \in {r, Nobody} THEN met ELSE met \cup {"late"}
    /\ UNCHANGED <<result, pc, outcome, stores, faults>>

-----------------------------------------------------------------------------
(* Time and failures.                                                      *)

\* GET or SET fails, and the request goes on without protection; the SET may
\* have been executed all the same.
FailsOpen(r) ==
    /\ Fault("redis")
    /\ \/ /\ pc[r] = "look"
          /\ UNCHANGED lock
       \/ /\ pc[r] = "lock"
          /\ lock' \in IF lock = Nobody THEN {Nobody, r} ELSE {lock}
    /\ Goto(r, "unguarded")
    /\ met' = met \cup {"unguarded"}
    /\ UNCHANGED <<result, outcome, sending>>

\* A command of captureAndStore fails, which goes on with the next.
StoreFails(r) ==
    /\ Fault("redis")
    /\ stores[r] > 0
    /\ stores' = [stores EXCEPT ![r] = @ - 1]
    /\ met' = IF stores[r] = 1 /\ result = Nobody THEN met \cup {"unstored"} ELSE met
    /\ UNCHANGED <<result, lock, pc, outcome, releases>>

ReleaseFails(r) ==
    /\ Fault("redis")
    /\ stores[r] = 0 /\ releases[r] > 0
    /\ releases' = [releases EXCEPT ![r] = @ - 1]
    /\ UNCHANGED <<result, lock, pc, outcome, stores, met>>

\* The request is still to release the lock.
AtWork(r) == pc[r] = "handling" \/ releases[r] > 0

\* The in-flight key expires after LOCK_TTL_SECONDS: a fault only if its
\* request is slower than that.
LockExpires ==
    /\ lock # Nobody
    /\ lock' = Nobody
    /\ IF AtWork(lock)
       THEN Fault("lapse") /\ met' = met \cup {"lapse"}
       ELSE UNCHANGED <<met, faults>>
    /\ UNCHANGED <<result, pc, outcome, sending>>

\* A process stops in the middle of its requests; what is in Redis stays.
Underway(r) == pc[r] \in {"look", "lock"} \cup Executing \/ releases[r] > 0

Crash(i) ==
    LET hit == {r \in Requests : HomeOf[r] = i /\ Underway(r)} IN
    /\ Fault("crash")
    /\ met' = IF result = Nobody /\ \E r \in hit : outcome[r] = "done"
              THEN met \cup {"unstored"} ELSE met
    /\ pc' = [r \in Requests |-> IF r \in hit THEN "stopped" ELSE pc[r]]
    /\ stores' = [r \in Requests |-> IF r \in hit THEN 0 ELSE stores[r]]
    /\ releases' = [r \in Requests |-> IF r \in hit THEN 0 ELSE releases[r]]
    /\ UNCHANGED <<result, lock, outcome>>

-----------------------------------------------------------------------------
Step(r) ==
    \/ Arrive(r) \/ Look(r) \/ AcquireLock(r)
    \/ Perform(r) \/ Answer(r) \/ Store(r) \/ Release(r)
    \/ FailsOpen(r) \/ StoreFails(r) \/ ReleaseFails(r)

Next ==
    \/ \E r \in Requests : Step(r)
    \/ LockExpires
    \/ \E i \in Instances : Crash(i)

Spec == Init /\ [][Next]_vars

-----------------------------------------------------------------------------
TypeOK ==
    /\ result \in Requests \cup {Nobody}
    /\ lock \in Requests \cup {Nobody}
    /\ pc \in [Requests -> Labels]
    /\ outcome \in [Requests -> {"none", "done", "failed"}]
    /\ stores \in [Requests -> 0 .. Captures]
    /\ releases \in [Requests -> 0 .. Captures]
    /\ met \subseteq Reasons
    /\ faults \in Nat

\* "The key is locked for the duration of the in-flight request": two requests are
\* handled at the same time only after one went on without the lock, a lease ended before
\* its request, or a request deleted the lock of another.
OneAtATime ==
    \A r1, r2 \in Requests :
        r1 # r2 /\ pc[r1] \in Executing /\ pc[r2] \in Executing =>
            met \cap {"unguarded", "lapse", "late"} # {}

\* "storing the first response in Redis and replaying it for any duplicate request": the
\* operation behind a key takes effect at most once, unless one of the five reasons
\* above has occurred.
DoneOnce ==
    \A r1, r2 \in Requests :
        r1 # r2 /\ outcome[r1] = "done" /\ outcome[r2] = "done" => met # {}

=============================================================================
