-------------------------- MODULE WebhookDelivery --------------------------
(***************************************************************************)
(* Outgoing webhooks: services/webhooks/dispatcher.ts (who is asked twice),*)
(* workers/webhookWorker.ts with services/webhooks/worker.ts (attempts,    *)
(* retries, dead letters), the endpoint circuits, the delivery log and the *)
(* re-trigger of services/webhookDeliveryService.ts and the inspector's    *)
(* store of services/dlq.service.ts.                                       *)
(*                                                                         *)
(* Every server process has its own history, log, circuits and dlq; jobs   *)
(* and dead are BullMQ's, in Redis, for all of them.  A worker has a job   *)
(* until it finishes it or until the lock on it lapses, when BullMQ takes  *)
(* the job for stalled.  BullMQ keeps a finished job for a while and       *)
(* ignores an add whose jobId it still has.  The time modelled is shorter  *)
(* than the history's 24 hours but long enough for any number of retries.  *)
(***************************************************************************)
EXTENDS Naturals, FiniteSets

CONSTANTS
    Processes,
    Workers,        \* the processes that have called startWebhookWorker
    Targets,        \* an event and a destination: what an idempotency key stands for
    Endpoints,
    EndpointOf,     \* target -> endpoint
    Deliveries,     \* delivery ids, 1 .. n, given out in this order
    Nobody,
    Threshold,      \* failureThreshold of the circuits
    MaxAttempts,    \* WEBHOOK_MAX_ATTEMPTS
    Incidents,      \* which of {"redis", "lost", "stall", "crash", "forget", "resume", "replay",
                    \* "purge"} happen
    MaxIncidents    \* how often, in all

\* A re-trigger makes a fresh key, which its new delivery stands for.
Keys == Targets \cup Deliveries

ASSUME EndpointOK  == EndpointOf \in [Targets -> Endpoints]
ASSUME WorkersOK   == Workers \subseteq Processes
ASSUME DeliveriesOK == Deliveries \subseteq Nat /\ Targets \cap Deliveries = {}
ASSUME NobodyOK    == Nobody \notin Deliveries \cup Processes
ASSUME LimitsOK    == Threshold \in Nat \ {0} /\ MaxAttempts \in Nat \ {0}
ASSUME MaxIncidentsOK == MaxIncidents \in Nat

VARIABLES
    req,        \* delivery -> its target, the delivery it re-triggers, its progress and the
                \* process in which it is being queued
    history,    \* process -> key -> deliveryHistory
    log,        \* process -> delivery -> its status in the delivery log; "open" is any that may
                \* be re-triggered
    circuit,    \* process -> endpoint -> its circuit
    jobs,       \* key -> the job of that id in BullMQ
    run,        \* process -> key -> where its worker is with the job
    accepted,   \* key -> how often its endpoint has taken the event, up to 2
    dead,       \* keys in webhookDeadLetterQueue
    dlq,        \* process -> deliveries with a record in dlqStore
    replaying,  \* process -> delivery -> replays of its record under way
    met,        \* key -> what has happened to it (history)
    incidents   \* incidents so far

memory == <<history, log, circuit, dlq>>
queues == <<jobs, dead>>
vars == <<req, history, log, circuit, jobs, run, accepted, dead, dlq, replaying, met, incidents>>

Closed == [status |-> "active", errors |-> 0]

NoJob  == [state |-> "none", attempts |-> 0, delivery |-> Nobody, by |-> Nobody,
           stalled |-> FALSE]
NewJob(d) == [NoJob EXCEPT !.state = "wait", !.delivery = d]

\* "doomed" is a job that BullMQ will fail when it is next taken.
Live == {"wait", "delayed", "active", "doomed"}

Init ==
    /\ req = [d \in Deliveries |->
                [pc |-> "unused", target |-> Nobody, from |-> Nobody, at |-> Nobody]]
    /\ history = [p \in Processes |-> [k \in Keys |-> "none"]]
    /\ log = [p \in Processes |-> [d \in Deliveries |-> "none"]]
    /\ circuit = [p \in Processes |-> [e \in Endpoints |-> Closed]]
    /\ jobs = [k \in Keys |-> NoJob]
    /\ run = [p \in Processes |-> [k \in Keys |-> "none"]]
    /\ accepted = [k \in Keys |-> 0]
    /\ dead = {}
    /\ dlq = [p \in Processes |-> {}]
    /\ replaying = [p \in Processes |-> [d \in Deliveries |-> 0]]
    /\ met = [k \in Keys |-> {}]
    /\ incidents = 0

KeyOf(d) == IF req[d].from = Nobody THEN req[d].target ELSE d
Delivery(k) == jobs[k].delivery
Endpoint(k) == EndpointOf[req[Delivery(k)].target]

Meets(k, kind) == met' = [met EXCEPT ![k] = @ \cup {kind}]
Goto(p, k, label) == run' = [run EXCEPT ![p][k] = label]
Logs(p, d, status) == log' = [log EXCEPT ![p][d] = status]
Marks(p, k, state) == history' = [history EXCEPT ![p][k] = state]

\* Something from the outside: Redis or an answer fails, a process stops or loses its lock on a
\* job, BullMQ forgets, or the admin intervenes.
Incident(kind) ==
    /\ kind \in Incidents
    /\ incidents < MaxIncidents
    /\ incidents' = incidents + 1

\* randomUUID: ids not given out before.
Fresh(d) ==
    /\ req[d].pc = "unused"
    /\ \A e \in Deliveries : e < d => req[e].pc # "unused"

-----------------------------------------------------------------------------
(* The dispatcher.                                                         *)

IsDuplicate(p, k) == history[p][k] \in {"pending", "delivered"}

\* An add for the key is on its way.
Adding(k) == \E d \in Deliveries : req[d].pc = "adding" /\ KeyOf(d) = k

\* enqueueWebhookDelivery up to queue.add; a duplicate changes nothing.
Request(p, t, d) ==
    /\ Fresh(d)
    /\ ~IsDuplicate(p, t)
    /\ req' = [req EXCEPT ![d] = [pc |-> "adding", target |-> t, from |-> Nobody, at |-> p]]
    /\ Marks(p, t, "pending")
    /\ IF accepted[t] > 0 /\ \E q \in Processes : IsDuplicate(q, t) THEN Meets(t, "elsewhere")
                                                                  ELSE UNCHANGED met
    /\ UNCHANGED <<log, circuit, queues, run, accepted, dlq, replaying, incidents>>

\* The call that queues d is over.
Ended(d, outcome) == [req EXCEPT ![d].pc = outcome, ![d].at = Nobody]

\* Mutant: finished jobs are not kept, so that an id can be used again at once.
AddedAfterEnd(k, d) ==
    IF jobs[k].state \notin Live THEN [jobs EXCEPT ![k] = NewJob(d)] ELSE jobs

\* BullMQ's add: a job whose id it still has is left as it is.
Added(k, d) ==
    IF jobs[k].state = "none" THEN [jobs EXCEPT ![k] = NewJob(d)] ELSE jobs

AddArrives(d) ==
    /\ req[d].pc = "adding"
    /\ jobs' = Added(KeyOf(d), d)
    /\ req' = IF req[d].from = Nobody THEN Ended(d, "queued") ELSE [req EXCEPT ![d].pc = "added"]
    /\ UNCHANGED <<memory, run, accepted, dead, replaying, met, incidents>>

AddFails(d) ==
    /\ req[d].pc = "adding"
    /\ Incident("redis")
    /\ req' = Ended(d, "refused")
    /\ Meets(KeyOf(d), "dropped")
    /\ UNCHANGED <<memory, queues, run, accepted, replaying>>

-----------------------------------------------------------------------------
(* The circuits.                                                           *)

\* The resumeAt of a paused endpoint has come.
CoolsDown(p, e) ==
    /\ circuit[p][e].status = "paused"
    /\ circuit' = [circuit EXCEPT ![p][e].status = "cooled"]
    /\ UNCHANGED <<req, history, log, queues, run, accepted, dlq, replaying, met, incidents>>

\* Mutant: only the admin ends a pause.
CanDeliverUnpaused(p, e) == circuit[p][e].status \notin {"paused", "cooled"}

CanDeliver(p, e) == circuit[p][e].status # "paused"

\* canDeliver lets a delivery through: the first one after the cool-down makes it a probe.
Let(c) == IF c.status = "cooled" THEN [c EXCEPT !.status = "probing"] ELSE c

\* Mutant: any client answer closes the circuit.
AfterAnyClientAnswer(c) == [c EXCEPT !.status = "active", !.errors = 0]

\* recordClientResponse
AfterClientAnswer(c) ==
    [status |-> IF c.status = "probing" THEN "active" ELSE c.status, errors |-> 0]

\* recordServerError; errors is only ever compared with the threshold.
AfterServerError(c) ==
    LET errors == IF c.errors < Threshold THEN c.errors + 1 ELSE c.errors
    IN  IF c.status = "probing" \/ errors >= Threshold
          THEN [status |-> "paused", errors |-> errors]
          ELSE [c EXCEPT !.errors = errors]

\* recordServerError for the endpoint of job k.
CountsAgainst(p, k) ==
    circuit' = [circuit EXCEPT ![p][Endpoint(k)] = AfterServerError(@)]

\* The admin resumes an endpoint.
Resume(p, e) ==
    /\ Incident("resume")
    /\ circuit[p][e] # Closed
    /\ circuit' = [circuit EXCEPT ![p][e] = Closed]
    /\ UNCHANGED <<req, history, log, queues, run, accepted, dlq, replaying, met>>

-----------------------------------------------------------------------------
(* The worker and deliverWebhook.                                          *)

\* A worker takes a job; a paused endpoint puts it off without an attempt.
Begin(p, k) ==
    /\ jobs[k].state = "wait" /\ run[p][k] = "none"
    /\ IF CanDeliver(p, Endpoint(k))
         THEN /\ circuit' = [circuit EXCEPT ![p][Endpoint(k)] = Let(@)]
              /\ jobs' = [jobs EXCEPT ![k].state = "active", ![k].by = p]
              /\ Goto(p, k, "sending")
              /\ UNCHANGED log
         ELSE /\ Logs(p, Delivery(k), "open")
              /\ jobs' = [jobs EXCEPT ![k].state = "delayed"]
              /\ UNCHANGED <<circuit, run>>
    /\ UNCHANGED <<req, history, accepted, dead, dlq, replaying, met, incidents>>

\* The delay of a retry or of a deferral is over.
Due(k) ==
    /\ jobs[k].state = "delayed"
    /\ jobs' = [jobs EXCEPT ![k].state = "wait"]
    /\ UNCHANGED <<req, memory, run, accepted, dead, replaying, met, incidents>>

\* The endpoint takes the event; its answer is on the way.
Accept(p, k) ==
    /\ run[p][k] = "sending"
    /\ accepted' = [accepted EXCEPT ![k] = IF @ = 0 THEN 1 ELSE 2]
    /\ Goto(p, k, "accepted")
    /\ UNCHANGED <<req, memory, queues, replaying, met, incidents>>

Delivered(p, k) ==
    /\ run[p][k] = "accepted"
    /\ circuit' = [circuit EXCEPT ![p][Endpoint(k)] = Closed]
    /\ Logs(p, Delivery(k), "delivered")
    /\ Marks(p, k, "delivered")
    /\ Goto(p, k, "return")
    /\ UNCHANGED <<req, queues, accepted, dlq, replaying, met, incidents>>

\* The answer to an event that was taken never arrives, or is an error.
AnswerLost(p, k) ==
    /\ run[p][k] = "accepted"
    /\ Incident("lost")
    /\ Meets(k, "unsure")
    /\ CountsAgainst(p, k)
    /\ Logs(p, Delivery(k), "open")
    /\ Goto(p, k, "throw")
    /\ UNCHANGED <<req, history, queues, accepted, dlq, replaying>>

\* A 5xx answer, or none: the connection fails or the request is aborted.
ServerError(p, k) ==
    /\ run[p][k] = "sending"
    /\ CountsAgainst(p, k)
    /\ Logs(p, Delivery(k), "open")
    /\ Goto(p, k, "throw")
    /\ UNCHANGED <<req, history, queues, accepted, dlq, replaying, met, incidents>>

\* A 4xx answer, one to try again after (408, 425, 429) or a permanent one.
ClientAnswer(p, k) ==
    /\ run[p][k] = "sending"
    /\ circuit' = [circuit EXCEPT ![p][Endpoint(k)] = AfterClientAnswer(@)]
    /\ Logs(p, Delivery(k), "open")
    /\ Goto(p, k, "throw") \/ Goto(p, k, "rejected")
    /\ UNCHANGED <<req, history, queues, accepted, dlq, replaying, met, incidents>>

\* p still has the lock on the job, without which BullMQ moves nothing.
Has(p, k) == jobs[k].state = "active" /\ jobs[k].by = p

\* moveToCompleted, which a process that has lost the job only reports as an error.
Complete(p, k) ==
    /\ run[p][k] = "return"
    /\ jobs' = IF Has(p, k) THEN [jobs EXCEPT ![k].state = "completed", ![k].by = Nobody]
                           ELSE jobs
    /\ Goto(p, k, "none")
    /\ UNCHANGED <<req, memory, accepted, dead, replaying, met, incidents>>

\* A job after one more attempt that threw.
Failed(j, exhausted) ==
    [j EXCEPT !.state = IF exhausted THEN "failed" ELSE "delayed", !.attempts = @ + 1,
              !.by = Nobody]

\* Mutant: only permanent failures are buried.
FailsUnburied(p, k, exhausted) ==
    /\ jobs' = [jobs EXCEPT ![k] = Failed(@, exhausted)]
    /\ Marks(p, k, "failed")
    /\ Logs(p, Delivery(k), "open")
    /\ Goto(p, k, "none")
    /\ UNCHANGED <<req, circuit, accepted, dead, dlq, replaying, met, incidents>>

\* BullMQ moves a job that threw, and the 'failed' handler runs up to its first await.
FailsJob(p, k, exhausted) ==
    /\ jobs' = [jobs EXCEPT ![k] = Failed(@, exhausted)]
    /\ Marks(p, k, "failed")
    /\ Logs(p, Delivery(k), "open")
    /\ Goto(p, k, IF exhausted THEN "exhausted" ELSE "none")
    /\ UNCHANGED <<req, circuit, accepted, dead, dlq, replaying, met, incidents>>

\* Mutant: one attempt too many.
FailOnceMore(p, k) ==
    /\ run[p][k] = "throw" /\ Has(p, k)
    /\ \E exhausted \in {TRUE, jobs[k].attempts >= MaxAttempts} : FailsJob(p, k, exhausted)

\* The last attempt, or one after the 48 hours, ends the job.
Fail(p, k) ==
    /\ run[p][k] = "throw" /\ Has(p, k)
    /\ \E exhausted \in {TRUE, jobs[k].attempts + 1 >= MaxAttempts} : FailsJob(p, k, exhausted)

\* Without the lock no job is moved and no handler called.
FailInVain(p, k) ==
    /\ run[p][k] = "throw" /\ ~Has(p, k)
    /\ Goto(p, k, "none")
    /\ UNCHANGED <<req, memory, queues, accepted, replaying, met, incidents>>

\* moveToDeadLetterQueue, after a permanent failure and after the last attempt; its errors
\* are logged.
Bury(p, k) ==
    /\ run[p][k] \in {"rejected", "exhausted"}
    /\ \/ /\ dead' = dead \cup {k}
          /\ dlq' = [dlq EXCEPT ![p] = @ \cup {Delivery(k)}]
          /\ UNCHANGED <<met, incidents>>
       \/ /\ Incident("redis")
          /\ Meets(k, "dropped")
          /\ UNCHANGED <<dead, dlq>>
    /\ Goto(p, k, IF run[p][k] = "rejected" THEN "return" ELSE "none")
    /\ UNCHANGED <<req, history, log, circuit, jobs, accepted, replaying>>

-----------------------------------------------------------------------------
(* BullMQ's stalled jobs.                                                  *)

\* The process that had the job has stopped, or is done with it.
Orphaned(k) == jobs[k].state = "active" /\ run[jobs[k].by][k] = "none"

\* A stall counts when the event had been taken, or may still be.
StallOf(k) == IF accepted[k] > 0 \/ ~Orphaned(k) THEN {"stalled"} ELSE {}
MeetsStall(k) == met' = [met EXCEPT ![k] = @ \cup StallOf(k)]

\* The first time a stalled job is queued again (maxStalledCount is 1).
Requeued(k) ==
    /\ ~jobs[k].stalled
    /\ jobs' = [jobs EXCEPT ![k].state = "wait", ![k].by = Nobody, ![k].stalled = TRUE]
    /\ MeetsStall(k)
    /\ UNCHANGED <<history, log>>

\* The second time BullMQ gives the job up.  It leaves that to the next worker that takes the
\* job, whose error counts as unrecoverable, or fails the job with a plain error, of which
\* the 'failed' handler of some process makes a retry that never comes.
GivenUp(k) ==
    /\ jobs[k].stalled
    /\ \/ /\ jobs' = [jobs EXCEPT ![k].state = "doomed", ![k].by = Nobody]
          /\ MeetsStall(k)
          /\ UNCHANGED <<history, log>>
       \/ \E p \in Workers :
            /\ jobs' = [jobs EXCEPT ![k].state = "failed", ![k].by = Nobody]
            /\ Marks(p, k, "failed")
            /\ Logs(p, Delivery(k), "open")
            /\ met' = [met EXCEPT ![k] = @ \cup StallOf(k) \cup {"unburied"}]

\* The checker finds the lock on a job gone: nobody renews it, or Redis was out of the
\* process's reach, or the process blocked, for longer than the lock lasts.
Stall(k) ==
    /\ jobs[k].state = "active"
    /\ IF Orphaned(k) THEN UNCHANGED incidents ELSE Incident("stall")
    /\ Requeued(k) \/ GivenUp(k)
    /\ UNCHANGED <<req, circuit, run, accepted, dead, dlq, replaying>>

\* A worker takes a job that BullMQ has given up.
FailDoomed(p, k) ==
    /\ jobs[k].state = "doomed" /\ run[p][k] = "none"
    /\ FailsJob(p, k, TRUE)

\* removeOnComplete and removeOnFail: BullMQ removes a job that ended long ago, longer than
\* any handler or add takes.
Forget(k) ==
    /\ jobs[k].state \in {"completed", "failed"}
    /\ \A p \in Processes : run[p][k] = "none"
    /\ ~Adding(k)
    /\ Incident("forget")
    /\ jobs' = [jobs EXCEPT ![k] = NoJob]
    /\ Meets(k, "forgotten")
    /\ UNCHANGED <<req, memory, run, accepted, dead, replaying>>

-----------------------------------------------------------------------------
(* The admin: re-trigger, replay, purge.                                   *)

\* Mutant: the old delivery is marked before the new one is queued.
RetriggerMarksFirst(p, d0, d) ==
    /\ log[p][d0] = "open"
    /\ Fresh(d)
    /\ req' = [req EXCEPT ![d] =
                 [pc |-> "adding", target |-> req[d0].target, from |-> d0, at |-> p]]
    /\ Marks(p, d, "pending")
    /\ Logs(p, d0, "retriggered")
    /\ UNCHANGED <<circuit, queues, run, accepted, dlq, replaying, met, incidents>>

\* retriggerDelivery up to the await of enqueueWebhookDelivery.
Retrigger(p, d0, d) ==
    /\ log[p][d0] = "open"
    /\ Fresh(d)
    /\ \E resumeEndpoint \in BOOLEAN :
            circuit' = [circuit EXCEPT ![p][EndpointOf[req[d0].target]] =
                            IF resumeEndpoint THEN Closed ELSE @]
    /\ req' = [req EXCEPT ![d] =
                 [pc |-> "adding", target |-> req[d0].target, from |-> d0, at |-> p]]
    /\ Marks(p, d, "pending")
    /\ UNCHANGED <<log, queues, run, accepted, dlq, replaying, met, incidents>>

\* Both entries of the log once the new delivery is queued.
Retriggered(d) ==
    /\ req[d].pc = "added"
    /\ req' = Ended(d, "queued")
    /\ log' = [log EXCEPT ![req[d].at][req[d].from] = "retriggered", ![req[d].at][d] = "open"]
    /\ UNCHANGED <<history, circuit, queues, run, accepted, dlq, replaying, met, incidents>>

\* replayDLQJob reads the record ...
Replay(p, d) ==
    /\ d \in dlq[p]
    /\ Incident("replay")
    /\ replaying' = [replaying EXCEPT ![p][d] = @ + 1]
    /\ UNCHANGED <<req, memory, queues, run, accepted, met>>

\* ... adds its job under the id it had and removes the record, or keeps it when the add fails.
Replayed(p, d) ==
    /\ replaying[p][d] > 0
    /\ replaying' = [replaying EXCEPT ![p][d] = @ - 1]
    /\ \/ /\ jobs' = Added(KeyOf(d), d)
          /\ dlq' = [dlq EXCEPT ![p] = @ \ {d}]
          /\ Meets(KeyOf(d), "revived")
          /\ UNCHANGED incidents
       \/ /\ Incident("redis")
          /\ UNCHANGED <<jobs, dlq, met>>
    /\ UNCHANGED <<req, history, log, circuit, run, accepted, dead>>

Purge(p) ==
    /\ Incident("purge")
    /\ dlq[p] # {}
    /\ dlq' = [dlq EXCEPT ![p] = {}]
    /\ UNCHANGED <<req, history, log, circuit, queues, run, accepted, replaying, met>>

-----------------------------------------------------------------------------
\* A process stops and is started again without its memory; its jobs stay active until
\* BullMQ finds them stalled.
Crash(p) ==
    /\ Incident("crash")
    /\ req' = [d \in Deliveries |->
                IF req[d].at = p
                  THEN [req[d] EXCEPT !.pc = IF @ = "adding" THEN "refused" ELSE "queued",
                                      !.at = Nobody]
                  ELSE req[d]]
    /\ history' = [history EXCEPT ![p] = [k \in Keys |-> "none"]]
    /\ log' = [log EXCEPT ![p] = [d \in Deliveries |-> "none"]]
    /\ circuit' = [circuit EXCEPT ![p] = [e \in Endpoints |-> Closed]]
    /\ run' = [run EXCEPT ![p] = [k \in Keys |-> "none"]]
    /\ dlq' = [dlq EXCEPT ![p] = {}]
    /\ replaying' = [replaying EXCEPT ![p] = [d \in Deliveries |-> 0]]
    /\ met' = [k \in Keys |-> met[k] \cup
                (IF accepted[k] > 0 /\ IsDuplicate(p, k) THEN {"revived"} ELSE {}) \cup
                (IF run[p][k] = "exhausted" \/ \E d \in Deliveries :
                        req[d].pc = "adding" /\ req[d].at = p /\ KeyOf(d) = k
                   THEN {"dropped"} ELSE {})]
    /\ UNCHANGED <<jobs, accepted, dead>>

Runs(p, k) ==
    \/ Begin(p, k) \/ Accept(p, k) \/ Delivered(p, k) \/ AnswerLost(p, k) \/ ServerError(p, k)
    \/ ClientAnswer(p, k) \/ Complete(p, k) \/ Fail(p, k) \/ FailInVain(p, k) \/ Bury(p, k)
    \/ FailDoomed(p, k)

Next ==
    \/ \E p \in Processes, t \in Targets, d \in Deliveries : Request(p, t, d)
    \/ \E d \in Deliveries : AddArrives(d) \/ AddFails(d) \/ Retriggered(d)
    \/ \E p \in Processes, d \in Deliveries : Replay(p, d) \/ Replayed(p, d)
    \/ \E p \in Processes, d0, d \in Deliveries : Retrigger(p, d0, d)
    \/ \E p \in Workers, k \in Keys : Runs(p, k)
    \/ \E k \in Keys : Due(k) \/ Stall(k) \/ Forget(k)
    \/ \E p \in Processes, e \in Endpoints : CoolsDown(p, e) \/ Resume(p, e)
    \/ \E p \in Processes : Purge(p) \/ Crash(p)

Spec == Init /\ [][Next]_vars

\* The workers run, timers end, fetch is aborted if nobody answers, and the stalled checker
\* finds a job whose process has gone.  Nothing is assumed of the order of the jobs.
Work ==
    \E k \in Keys :
        \/ \E p \in Workers : Runs(p, k)
        \/ Due(k)
        \/ Orphaned(k) /\ Stall(k)

FairSpec ==
    /\ Spec
    /\ WF_vars(Work)
    /\ \A p \in Workers, e \in Endpoints : WF_vars(CoolsDown(p, e))

-----------------------------------------------------------------------------
TypeOK ==
    /\ req \in [Deliveries -> [pc: {"unused", "adding", "added", "queued", "refused"},
                               target: Targets \cup {Nobody},
                               from: Deliveries \cup {Nobody},
                               at: Processes \cup {Nobody}]]
    /\ history \in [Processes -> [Keys -> {"none", "pending", "delivered", "failed"}]]
    /\ log \in [Processes -> [Deliveries -> {"none", "open", "delivered", "retriggered"}]]
    /\ circuit \in [Processes -> [Endpoints -> [status: {"active", "paused", "cooled", "probing"},
                                                errors: 0 .. Threshold]]]
    /\ jobs \in [Keys -> [state: Live \cup {"none", "completed", "failed"},
                          attempts: 0 .. MaxAttempts,
                          delivery: Deliveries \cup {Nobody},
                          by: Processes \cup {Nobody},
                          stalled: BOOLEAN]]
    /\ run \in [Processes -> [Keys -> {"none", "sending", "accepted", "return", "throw", "rejected",
                                       "exhausted"}]]
    /\ accepted \in [Keys -> 0 .. 2]
    /\ dead \subseteq Keys
    /\ dlq \in [Processes -> SUBSET Deliveries]
    /\ replaying \in [Processes -> [Deliveries -> Nat]]
    /\ met \in [Keys -> SUBSET {"unsure", "stalled", "unburied", "dropped", "forgotten", "revived",
                                "elsewhere"}]
    /\ incidents \in 0 .. MaxIncidents

\* enqueueWebhookDelivery: the histories in memory and the job ids in Redis together keep a
\* delivery, which an idempotency key stands for, from being taken twice by its endpoint.  A
\* second time takes an answer that was lost, a job that stalled, or a job that BullMQ has
\* forgotten and that comes back: through a restart, a replay, or a request at a process that
\* has not heard of it.
AcceptedOnce ==
    \A k \in Keys : accepted[k] > 1 =>
        \/ met[k] \cap {"unsure", "stalled"} # {}
        \/ "forgotten" \in met[k] /\ met[k] \cap {"revived", "elsewhere"} # {}

Underway(k) ==
    \/ Adding(k)
    \/ jobs[k].state \in Live
    \/ \E p \in Processes : run[p][k] # "none"

\* Worker, 'failed' handler and dispatcher together: an event that was taken in is under way,
\* has reached its endpoint or is in the dead letter queue, however often it is asked for,
\* re-triggered or replayed; unless Redis refused it, its process stopped before it was queued
\* or buried, or BullMQ failed it for stalling twice.
NothingVanishes ==
    \A d \in Deliveries : req[d].pc # "unused" =>
        LET k == KeyOf(d)
        IN  \/ Underway(k)
            \/ accepted[k] > 0
            \/ k \in dead
            \/ met[k] \cap {"dropped", "unburied"} # {}

\* retriggerDelivery: a delivery is marked re-triggered only when another one of its event
\* has become a job.
RetriggerIsQueued ==
    \A p \in Processes, d0 \in Deliveries : log[p][d0] = "retriggered" =>
        \E d \in Deliveries :
            /\ req[d].from = d0
            /\ jobs[d].state # "none" \/ "forgotten" \in met[d]

\* recordClientResponse, recordServerError: a pause lasts for its cool-down whatever late
\* answers arrive, unless one is a success or the admin resumes the endpoint.
PauseIsKept ==
    [][\A p \in Processes, e \in Endpoints :
            circuit[p][e].status = "paused" /\ circuit'[p][e].status # "paused"
            => \/ CoolsDown(p, e)
               \/ \E k \in Keys : Delivered(p, k) /\ Endpoint(k) = e
               \/ Resume(p, e) \/ (\E d0, d \in Deliveries : Retrigger(p, d0, d)) \/ Crash(p)]_vars

\* The workers with their retries, deferrals and probes, and the stalled checker, end every job:
\* again and again there is none left.
EveryJobEnds == []<>(\A k \in Keys : jobs[k].state \notin Live)
=============================================================================
