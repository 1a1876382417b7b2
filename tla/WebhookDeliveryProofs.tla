------------------------ MODULE WebhookDeliveryProofs ------------------------
(***************************************************************************)
(* Proofs about WebhookDelivery, for any number of processes and workers,  *)
(* events, endpoints and deliveries, any threshold and any number of       *)
(* attempts and incidents.                                                 *)
(*                                                                         *)
(* The inductive invariant has five parts beside the types: what refers to *)
(* a delivery refers to one that was made (RefsInv); for each key, a       *)
(* process that runs its job either has the job's lock or has met a stall  *)
(* (RunOK), a job that ended is accounted for (EndOK), and something keeps *)
(* an accepted event from being sent again (OnceOK), which together are    *)
(* KeyInv; what was taken in has not vanished (SafeInv); and an added      *)
(* delivery has its job (QueuedInv).                                       *)
(***************************************************************************)
EXTENDS WebhookDelivery, TLAPS

Used(d) == req[d].pc # "unused"

RefsInv ==
    /\ \A d \in Deliveries : Used(d) => req[d].target \in Targets
    /\ \A d \in Deliveries : ~Used(d) =>
          /\ req[d].from = Nobody /\ req[d].at = Nobody
          /\ jobs[d].state = "none" /\ accepted[d] = 0
    /\ \A d \in Deliveries : req[d].pc \in {"adding", "added"} => req[d].at \in Processes
    /\ \A d \in Deliveries : req[d].from # Nobody => Used(req[d].from)
    /\ \A p \in Processes, d \in Deliveries :
          d \in dlq[p] \/ replaying[p][d] > 0 \/ log[p][d] # "none" => Used(d)
    /\ \A k \in Keys : jobs[k].state # "none" => Delivery(k) \in Deliveries /\ Used(Delivery(k))

JobOK(k) ==
    /\ jobs[k].state = "active" => jobs[k].by \in Processes
    /\ jobs[k].state \in Live => jobs[k].attempts < MaxAttempts

\* The labels at which a worker has a job in hand.
InHand == {"sending", "accepted", "return", "throw", "rejected"}

Safe(k) == accepted[k] > 0 \/ k \in dead \/ met[k] \cap {"dropped", "unburied"} # {}

RunOK(k) ==
    \A p \in Processes :
        /\ run[p][k] # "none" => jobs[k].state # "none"
        /\ run[p][k] = "exhausted" => jobs[k].state = "failed"
        /\ run[p][k] = "accepted" => accepted[k] > 0
        /\ run[p][k] = "return" => Safe(k)
        /\ run[p][k] \in InHand => Has(p, k) \/ "stalled" \in met[k]

EndOK(k) ==
    jobs[k].state \in {"completed", "failed"} =>
        Safe(k) \/ \E p \in Processes : run[p][k] = "exhausted"

\* Why the endpoint of an accepted event does not get it again: the answer is being handled,
\* the process that was at it has stopped, the completed job is still there, or some process
\* knows it.
Known(k) == \E p \in Processes : history[p][k] = "delivered"

Held(k) ==
    \/ \E p \in Processes :
          /\ Has(p, k)
          /\ \/ run[p][k] \in {"accepted", "none"}
             \/ run[p][k] = "return" /\ history[p][k] = "delivered"
    \/ jobs[k].state = "completed" /\ ("revived" \in met[k] \/ Known(k))
    \/ jobs[k].state = "none" /\ "forgotten" \in met[k] /\ Known(k) /\ ~Adding(k)

Excused(k) ==
    \/ "unsure" \in met[k] \/ "stalled" \in met[k]
    \/ "forgotten" \in met[k] /\ ("revived" \in met[k] \/ "elsewhere" \in met[k])

OnceOK(k) == accepted[k] = 0 \/ Excused(k) \/ (accepted[k] = 1 /\ Held(k))

KeyInv(k) == JobOK(k) /\ RunOK(k) /\ EndOK(k) /\ OnceOK(k)

Accounted(k) == Adding(k) \/ jobs[k].state # "none" \/ Safe(k)

SafeInv == \A d \in Deliveries : Used(d) => Accounted(KeyOf(d))

\* The delivery's own key, which only a re-trigger's has, got a job.
HasJob(d) == jobs[d].state # "none" \/ "forgotten" \in met[d]

QueuedInv ==
    /\ \A d \in Deliveries : req[d].pc = "added" => req[d].from # Nobody /\ HasJob(d)
    /\ RetriggerIsQueued

IInv == TypeOK /\ RefsInv /\ (\A k \in Keys : KeyInv(k)) /\ SafeInv /\ QueuedInv

-----------------------------------------------------------------------------
(* Types: a name for each, and what the helpers keep.                      *)

Kinds == {"unsure", "stalled", "unburied", "dropped", "forgotten", "revived", "elsewhere"}
Labels == {"none", "sending", "accepted", "return", "throw", "rejected", "exhausted"}
Progress == {"unused", "adding", "added", "queued", "refused"}
ReqRecord == [pc: Progress, target: Targets \cup {Nobody}, from: Deliveries \cup {Nobody},
              at: Processes \cup {Nobody}]
Mark == {"none", "pending", "delivered", "failed"}
Entry == {"none", "open", "delivered", "retriggered"}
Circuit == [status: {"active", "paused", "cooled", "probing"}, errors: 0 .. Threshold]
Job == [state: Live \cup {"none", "completed", "failed"},
        attempts: 0 .. MaxAttempts,
        delivery: Deliveries \cup {Nobody},
        by: Processes \cup {Nobody},
        stalled: BOOLEAN]

Parts ==
    /\ req \in [Deliveries -> ReqRecord]
    /\ history \in [Processes -> [Keys -> Mark]]
    /\ log \in [Processes -> [Deliveries -> Entry]]
    /\ circuit \in [Processes -> [Endpoints -> Circuit]]
    /\ jobs \in [Keys -> Job]
    /\ run \in [Processes -> [Keys -> Labels]]
    /\ accepted \in [Keys -> 0 .. 2]
    /\ dead \subseteq Keys
    /\ dlq \in [Processes -> SUBSET Deliveries]
    /\ replaying \in [Processes -> [Deliveries -> Nat]]
    /\ met \in [Keys -> SUBSET Kinds]
    /\ incidents \in 0 .. MaxIncidents

LEMMA TypeParts == (TypeOK <=> Parts) /\ (TypeOK' <=> Parts')
BY DEF Parts, TypeOK, ReqRecord, Progress, Mark, Entry, Circuit, Job, Labels, Kinds

\* The key of a delivery that was made.
LEMMA KeyOfType ==
    ASSUME TypeOK, RefsInv, NEW d \in Deliveries, Used(d)
    PROVE  KeyOf(d) \in Keys /\ (KeyOf(d) \in Deliveries => KeyOf(d) = d)
BY DeliveriesOK, NobodyOK DEF TypeOK, RefsInv, KeyOf, Keys, Used

LEMMA KeysIn == Targets \subseteq Keys /\ Deliveries \subseteq Keys
BY DEF Keys

\* The states and statuses that occur.
LEMMA Members ==
    /\ Labels = {"none", "sending", "accepted", "return", "throw", "rejected", "exhausted"}
    /\ Mark = {"none", "pending", "delivered", "failed"}
    /\ Entry = {"none", "open", "delivered", "retriggered"}
    /\ Progress = {"unused", "adding", "added", "queued", "refused"}
    /\ Kinds = {"unsure", "stalled", "unburied", "dropped", "forgotten", "revived", "elsewhere"}
BY DEF Labels, Mark, Entry, Kinds, Progress

LEMMA CircuitType ==
    ASSUME NEW c \in Circuit
    PROVE  /\ Closed \in Circuit
           /\ Let(c) \in Circuit
           /\ AfterClientAnswer(c) \in Circuit
           /\ AfterServerError(c) \in Circuit
           /\ [c EXCEPT !.status = "cooled"] \in Circuit
<1>1. c.errors \in Nat /\ c.errors <= Threshold
  BY LimitsOK DEF Circuit
<1>2. Closed \in Circuit
  BY LimitsOK DEF Circuit, Closed
<1>3. Let(c) \in Circuit
  BY DEF Circuit, Let
<1>4. AfterClientAnswer(c) \in Circuit
  BY LimitsOK DEF Circuit, AfterClientAnswer
<1>5. AfterServerError(c) \in Circuit
  BY <1>1, LimitsOK DEF Circuit, AfterServerError
<1>6. [c EXCEPT !.status = "cooled"] \in Circuit
  BY DEF Circuit
<1> QED BY <1>2, <1>3, <1>4, <1>5, <1>6

\* A circuit may become whatever is one.
LEMMA CircuitAt ==
    ASSUME circuit \in [Processes -> [Endpoints -> Circuit]], NEW p \in Processes, NEW e,
           NEW c, e \in Endpoints => c \in Circuit, circuit' = [circuit EXCEPT ![p][e] = c]
    PROVE  circuit' \in [Processes -> [Endpoints -> Circuit]]
<1>1. circuit[p] \in [Endpoints -> Circuit]
  OBVIOUS
<1>2. [circuit[p] EXCEPT ![e] = c] \in [Endpoints -> Circuit]
  BY <1>1
<1>3. circuit' = [circuit EXCEPT ![p] = [circuit[p] EXCEPT ![e] = c]]
  OBVIOUS
<1> QED BY <1>2, <1>3

LEMMA NewJobType ==
    ASSUME NEW d \in Deliveries
    PROVE  NewJob(d) \in Job /\ NoJob \in Job
<1>1. NoJob \in Job
  BY LimitsOK DEF Job, NoJob
<1>2. "wait" \in Live
  BY DEF Live
<1> QED BY <1>1, <1>2 DEF NewJob, Job

LEMMA NewJobIs ==
    ASSUME NEW d
    PROVE  /\ NewJob(d).state = "wait" /\ NewJob(d).delivery = d /\ NewJob(d).attempts = 0
           /\ NoJob.state = "none"
BY DEF NewJob, NoJob

LEMMA AddedType ==
    ASSUME jobs \in [Keys -> Job], NEW k \in Keys, NEW d \in Deliveries
    PROVE  Added(k, d) \in [Keys -> Job]
BY NewJobType DEF Added

\* An add changes at most the job of its key, and only where there was none.
LEMMA AddedAt ==
    ASSUME jobs \in [Keys -> Job], NEW k \in Keys, NEW d, NEW q \in Keys
    PROVE  \/ Added(k, d)[q] = jobs[q] /\ (q = k => jobs[k].state # "none")
           \/ q = k /\ jobs[k].state = "none" /\ Added(k, d)[q] = NewJob(d)
BY DEF Added

LEMMA IncidentType ==
    ASSUME incidents \in 0 .. MaxIncidents, NEW kind, Incident(kind)
    PROVE  incidents' \in 0 .. MaxIncidents
BY MaxIncidentsOK DEF Incident

LEMMA MeetsType ==
    ASSUME met \in [Keys -> SUBSET Kinds], NEW k \in Keys, NEW kind \in Kinds, Meets(k, kind)
    PROVE  met' \in [Keys -> SUBSET Kinds] /\ kind \in met'[k]
BY DEF Meets

LEMMA GotoType ==
    ASSUME run \in [Processes -> [Keys -> Labels]], NEW p \in Processes, NEW k \in Keys,
           NEW label \in Labels, Goto(p, k, label)
    PROVE  /\ run' \in [Processes -> [Keys -> Labels]]
           /\ \A o \in Processes, q \in Keys :
                 run'[o][q] = IF o = p /\ q = k THEN label ELSE run[o][q]
BY DEF Goto

LEMMA LogsType ==
    ASSUME log \in [Processes -> [Deliveries -> Entry]], NEW p \in Processes, NEW d,
           NEW status \in Entry, Logs(p, d, status)
    PROVE  /\ log' \in [Processes -> [Deliveries -> Entry]]
           /\ \A o \in Processes, c \in Deliveries :
                 log'[o][c] = IF o = p /\ c = d THEN status ELSE log[o][c]
BY DEF Logs

LEMMA MarksType ==
    ASSUME history \in [Processes -> [Keys -> Mark]], NEW p \in Processes, NEW k,
           NEW mark \in Mark, Marks(p, k, mark)
    PROVE  /\ history' \in [Processes -> [Keys -> Mark]]
           /\ \A o \in Processes, q \in Keys :
                 history'[o][q] = IF o = p /\ q = k THEN mark ELSE history[o][q]
BY DEF Marks

LEMMA EndedType ==
    ASSUME req \in [Deliveries -> ReqRecord], NEW d \in Deliveries, NEW outcome \in Progress
    PROVE  /\ Ended(d, outcome) \in [Deliveries -> ReqRecord]
           /\ [req EXCEPT ![d].pc = outcome] \in [Deliveries -> ReqRecord]
<1>1. req[d] \in ReqRecord
  OBVIOUS
<1>2. [req[d] EXCEPT !.pc = outcome] \in ReqRecord
  BY <1>1 DEF ReqRecord
<1>3. [req[d] EXCEPT !.pc = outcome, !.at = Nobody] \in ReqRecord
  BY <1>1 DEF ReqRecord
<1> QED BY <1>2, <1>3 DEF Ended

\* The job that a worker or the stalled checker leaves.
LEMMA JobMoveType ==
    ASSUME jobs \in [Keys -> Job], NEW k \in Keys,
           NEW s \in Live \cup {"none", "completed", "failed"},
           NEW p \in Processes \cup {Nobody}
    PROVE  /\ [jobs EXCEPT ![k].state = s] \in [Keys -> Job]
           /\ [jobs EXCEPT ![k].state = s, ![k].by = p] \in [Keys -> Job]
           /\ [jobs EXCEPT ![k].state = s, ![k].by = p, ![k].stalled = TRUE] \in [Keys -> Job]
<1>1. jobs[k] \in Job
  OBVIOUS
<1>2. [jobs[k] EXCEPT !.state = s] \in Job
  BY <1>1 DEF Job
<1>3. [jobs[k] EXCEPT !.state = s, !.by = p] \in Job
  BY <1>1 DEF Job
<1>4. [jobs[k] EXCEPT !.state = s, !.by = p, !.stalled = TRUE] \in Job
  BY <1>1 DEF Job
<1> QED BY <1>2, <1>3, <1>4

LEMMA FailsJobType ==
    ASSUME Parts, NEW p \in Processes, NEW k \in Keys, NEW exhausted,
           jobs[k].attempts < MaxAttempts, FailsJob(p, k, exhausted)
    PROVE  Parts'
<1>1. Failed(jobs[k], exhausted) \in Job
  <2>1. jobs[k] \in Job
    BY DEF Parts
  <2>2. jobs[k].attempts + 1 \in 0 .. MaxAttempts
    BY <2>1, LimitsOK DEF Job
  <2>3. PICK s \in {"failed", "delayed"} :
            Failed(jobs[k], exhausted) = [jobs[k] EXCEPT !.state = s, !.attempts = @ + 1, !.by = Nobody]
    BY DEF Failed
  <2>4. s \in Live \cup {"none", "completed", "failed"}
    BY DEF Live
  <2> HIDE DEF Live
  <2>5. [jobs[k] EXCEPT !.state = s, !.attempts = @ + 1, !.by = Nobody] \in Job
    BY ONLY <2>1, <2>2, <2>4 DEF Job
  <2> QED BY <2>3, <2>5
<1>2. jobs' \in [Keys -> Job]
  BY <1>1 DEF FailsJob, Parts
<1>3. /\ history' \in [Processes -> [Keys -> Mark]] /\ log' \in [Processes -> [Deliveries -> Entry]]
      /\ run' \in [Processes -> [Keys -> Labels]]
  <2>1. history' \in [Processes -> [Keys -> Mark]]
    BY MarksType, Members DEF FailsJob, Parts
  <2>2. log' \in [Processes -> [Deliveries -> Entry]]
    BY LogsType, Members DEF FailsJob, Parts
  <2>3. run' \in [Processes -> [Keys -> Labels]]
    BY GotoType, Members DEF FailsJob, Parts
  <2> QED BY <2>1, <2>2, <2>3
<1> QED BY <1>2, <1>3 DEF FailsJob, Parts

\* Every step of a worker keeps the types.
LEMMA TypeRuns ==
    ASSUME TypeOK, RefsInv, NEW p \in Workers, NEW k \in Keys, KeyInv(k), Runs(p, k)
    PROVE  TypeOK'
<1>0. p \in Processes
  BY WorkersOK
<1> USE <1>0, TypeParts, Members, IncidentType DEF Parts, memory, queues
<1>a. \A label \in Labels : Goto(p, k, label) => run' \in [Processes -> [Keys -> Labels]]
  BY GotoType
<1>b. \A d, status : status \in Entry /\ Logs(p, d, status) =>
          log' \in [Processes -> [Deliveries -> Entry]]
  BY LogsType
<1>c. ASSUME NEW c, Endpoint(k) \in Endpoints => c \in Circuit,
             circuit' = [circuit EXCEPT ![p][Endpoint(k)] = c]
      PROVE  circuit' \in [Processes -> [Endpoints -> Circuit]]
  BY <1>c, CircuitAt
<1>d. /\ Closed \in Circuit
      /\ Endpoint(k) \in Endpoints =>
            /\ Let(circuit[p][Endpoint(k)]) \in Circuit
            /\ AfterClientAnswer(circuit[p][Endpoint(k)]) \in Circuit
            /\ AfterServerError(circuit[p][Endpoint(k)]) \in Circuit
  <2>1. Closed \in Circuit
    BY LimitsOK DEF Circuit, Closed
  <2>2. Endpoint(k) \in Endpoints => circuit[p][Endpoint(k)] \in Circuit
    OBVIOUS
  <2> QED BY <2>1, <2>2, CircuitType
<1>1. CASE Begin(p, k)
  <2>1. circuit' \in [Processes -> [Endpoints -> Circuit]]
    <3>1. CASE circuit' = [circuit EXCEPT ![p][Endpoint(k)] = Let(@)]
      <4>1. circuit' = [circuit EXCEPT ![p][Endpoint(k)] = Let(circuit[p][Endpoint(k)])]
        BY <3>1
      <4> QED BY <4>1, <1>c, <1>d
    <3>2. CASE circuit' = circuit
      BY <3>2
    <3> QED BY <1>1, <3>1, <3>2 DEF Begin
  <2>2. jobs' \in [Keys -> Job]
    <3>1. /\ [jobs EXCEPT ![k].state = "active", ![k].by = p] \in [Keys -> Job]
          /\ [jobs EXCEPT ![k].state = "delayed"] \in [Keys -> Job]
      BY JobMoveType DEF Live
    <3> QED BY <1>1, <3>1 DEF Begin
  <2>3. run' \in [Processes -> [Keys -> Labels]]
    BY <1>1, <1>a DEF Begin
  <2>4. log' \in [Processes -> [Deliveries -> Entry]]
    BY <1>1, <1>b DEF Begin
  <2> QED BY <1>1, <2>1, <2>2, <2>3, <2>4 DEF Begin
<1>2. CASE Accept(p, k)
  <2>1. run' \in [Processes -> [Keys -> Labels]]
    BY <1>2, <1>a DEF Accept
  <2>2. accepted' \in [Keys -> 0 .. 2]
    BY <1>2 DEF Accept
  <2> QED BY <1>2, <2>1, <2>2 DEF Accept
<1>3. CASE Delivered(p, k)
  <2>1. circuit' \in [Processes -> [Endpoints -> Circuit]]
    BY <1>3, <1>c, <1>d DEF Delivered
  <2>2. run' \in [Processes -> [Keys -> Labels]]
    BY <1>3, <1>a DEF Delivered
  <2>3. log' \in [Processes -> [Deliveries -> Entry]]
    BY <1>3, <1>b DEF Delivered
  <2>4. history' \in [Processes -> [Keys -> Mark]]
    BY <1>3, MarksType DEF Delivered
  <2> QED BY <1>3, <2>1, <2>2, <2>3, <2>4 DEF Delivered
<1>4. CASE AnswerLost(p, k)
  <2>1. circuit' \in [Processes -> [Endpoints -> Circuit]]
    <3>1. circuit' = [circuit EXCEPT ![p][Endpoint(k)] = AfterServerError(circuit[p][Endpoint(k)])]
      BY <1>4 DEF AnswerLost, CountsAgainst
    <3> QED BY <3>1, <1>c, <1>d
  <2>2. run' \in [Processes -> [Keys -> Labels]]
    BY <1>4, <1>a DEF AnswerLost
  <2>3. log' \in [Processes -> [Deliveries -> Entry]]
    BY <1>4, <1>b DEF AnswerLost
  <2>4. met' \in [Keys -> SUBSET Kinds]
    BY <1>4, MeetsType DEF AnswerLost
  <2> QED BY <1>4, <2>1, <2>2, <2>3, <2>4 DEF AnswerLost
<1>5. CASE ServerError(p, k)
  <2>1. circuit' \in [Processes -> [Endpoints -> Circuit]]
    <3>1. circuit' = [circuit EXCEPT ![p][Endpoint(k)] = AfterServerError(circuit[p][Endpoint(k)])]
      BY <1>5 DEF ServerError, CountsAgainst
    <3> QED BY <3>1, <1>c, <1>d
  <2>2. run' \in [Processes -> [Keys -> Labels]]
    BY <1>5, <1>a DEF ServerError
  <2>3. log' \in [Processes -> [Deliveries -> Entry]]
    BY <1>5, <1>b DEF ServerError
  <2> QED BY <1>5, <2>1, <2>2, <2>3 DEF ServerError
<1>6. CASE ClientAnswer(p, k)
  <2>1. circuit' \in [Processes -> [Endpoints -> Circuit]]
    <3>1. circuit' = [circuit EXCEPT ![p][Endpoint(k)] = AfterClientAnswer(circuit[p][Endpoint(k)])]
      BY <1>6 DEF ClientAnswer
    <3> QED BY <3>1, <1>c, <1>d
  <2>2. run' \in [Processes -> [Keys -> Labels]]
    BY <1>6, <1>a DEF ClientAnswer
  <2>3. log' \in [Processes -> [Deliveries -> Entry]]
    BY <1>6, <1>b DEF ClientAnswer
  <2> QED BY <1>6, <2>1, <2>2, <2>3 DEF ClientAnswer
<1>7. CASE Complete(p, k)
  <2>1. jobs' \in [Keys -> Job]
    BY <1>7, JobMoveType DEF Complete
  <2>2. run' \in [Processes -> [Keys -> Labels]]
    BY <1>7, <1>a DEF Complete
  <2> QED BY <1>7, <2>1, <2>2 DEF Complete
<1>8. CASE Fail(p, k)
  <2>1. PICK exhausted \in {TRUE, jobs[k].attempts + 1 >= MaxAttempts} : FailsJob(p, k, exhausted)
    BY <1>8 DEF Fail
  <2>2. jobs[k].attempts < MaxAttempts
    BY <1>8 DEF Fail, Has, KeyInv, JobOK, Live
  <2>3. Parts'
    BY <2>1, <2>2, FailsJobType
  <2> QED BY <2>3
<1>9. CASE FailDoomed(p, k)
  <2>1. jobs[k].attempts < MaxAttempts
    BY <1>9 DEF FailDoomed, KeyInv, JobOK, Live
  <2>2. Parts'
    BY <1>9, <2>1, FailsJobType DEF FailDoomed
  <2> QED BY <2>2
<1>10. CASE FailInVain(p, k)
  <2>1. run' \in [Processes -> [Keys -> Labels]]
    BY <1>10, <1>a DEF FailInVain
  <2> QED BY <1>10, <2>1 DEF FailInVain
<1>11. CASE Bury(p, k)
  <2>1. run' \in [Processes -> [Keys -> Labels]]
    BY <1>11, <1>a DEF Bury
  <2>2. met' \in [Keys -> SUBSET Kinds]
    BY <1>11, MeetsType DEF Bury
  <2>3. jobs[k].state # "none"
    BY <1>11 DEF Bury, KeyInv, RunOK
  <2>4. Delivery(k) \in Deliveries
    BY <2>3 DEF RefsInv
  <2>5. dlq' \in [Processes -> SUBSET Deliveries]
    <3>1. dlq[p] \cup {Delivery(k)} \in SUBSET Deliveries
      BY <2>4
    <3>2. dlq' = dlq \/ dlq' = [dlq EXCEPT ![p] = dlq[p] \cup {Delivery(k)}]
      BY <1>11 DEF Bury
    <3> QED BY <3>1, <3>2
  <2> QED BY <1>11, <2>1, <2>2, <2>5 DEF Bury
<1> QED BY <1>1, <1>2, <1>3, <1>4, <1>5, <1>6, <1>7, <1>8, <1>9, <1>10, <1>11 DEF Runs

LEMMA TypeStall ==
    ASSUME TypeOK, NEW k \in Keys, Stall(k)
    PROVE  TypeOK'
<1> USE TypeParts, Members, IncidentType DEF Parts, queues
<1>1. incidents' \in 0 .. MaxIncidents
  BY DEF Stall
<1>2. StallOf(k) \subseteq Kinds
  BY DEF StallOf
<1>3. ASSUME Requeued(k) PROVE TypeOK'
  <2>1. jobs' \in [Keys -> Job]
    BY <1>3, JobMoveType DEF Requeued, Live
  <2>2. met' \in [Keys -> SUBSET Kinds]
    BY <1>2, <1>3 DEF Requeued, MeetsStall
  <2> QED BY <1>1, <1>3, <2>1, <2>2 DEF Stall, Requeued
<1>4. ASSUME GivenUp(k) PROVE TypeOK'
  <2>1. CASE /\ jobs' = [jobs EXCEPT ![k].state = "doomed", ![k].by = Nobody]
             /\ MeetsStall(k) /\ UNCHANGED <<history, log>>
    <3>1. jobs' \in [Keys -> Job]
      BY <2>1, JobMoveType DEF Live
    <3>2. met' \in [Keys -> SUBSET Kinds]
      BY <1>2, <2>1 DEF MeetsStall
    <3> QED BY <1>1, <2>1, <3>1, <3>2 DEF Stall
  <2>2. ASSUME NEW p \in Workers,
               jobs' = [jobs EXCEPT ![k].state = "failed", ![k].by = Nobody],
               Marks(p, k, "failed"), Logs(p, Delivery(k), "open"),
               met' = [met EXCEPT ![k] = @ \cup StallOf(k) \cup {"unburied"}]
        PROVE  TypeOK'
    <3>1. jobs' \in [Keys -> Job]
      BY <2>2, JobMoveType
    <3>2. met' \in [Keys -> SUBSET Kinds]
      BY <1>2, <2>2
    <3>3. history' \in [Processes -> [Keys -> Mark]]
      BY <2>2, WorkersOK, MarksType
    <3>4. log' \in [Processes -> [Deliveries -> Entry]]
      BY <2>2, WorkersOK, LogsType
    <3> QED BY <1>1, <3>1, <3>2, <3>3, <3>4 DEF Stall
  <2> QED BY <1>4, <2>1, <2>2 DEF GivenUp
<1> QED BY <1>3, <1>4 DEF Stall

LEMMA TypeCrash ==
    ASSUME TypeOK, NEW p \in Processes, Crash(p)
    PROVE  TypeOK'
<1> USE TypeParts, Members, IncidentType DEF Parts, queues
<1>1. req' \in [Deliveries -> ReqRecord]
  <2>1. ASSUME NEW d \in Deliveries PROVE req'[d] \in ReqRecord
    <3>1. req[d] \in ReqRecord
      OBVIOUS
    <3>2. PICK s \in Progress : req'[d] = req[d] \/ req'[d] = [req[d] EXCEPT !.pc = s, !.at = Nobody]
      BY DEF Crash
    <3>3. [req[d] EXCEPT !.pc = s, !.at = Nobody] \in ReqRecord
      BY <3>1 DEF ReqRecord
    <3> QED BY <3>1, <3>2, <3>3
  <2> QED BY <2>1 DEF Crash
<1>2. circuit' \in [Processes -> [Endpoints -> Circuit]]
  <2>1. [e \in Endpoints |-> Closed] \in [Endpoints -> Circuit]
    BY LimitsOK DEF Closed, Circuit
  <2> QED BY <2>1 DEF Crash
<1>3. met' \in [Keys -> SUBSET Kinds]
  BY DEF Crash
<1>4. history' \in [Processes -> [Keys -> Mark]] /\ log' \in [Processes -> [Deliveries -> Entry]]
  BY DEF Crash
<1>5. run' \in [Processes -> [Keys -> Labels]]
  BY DEF Crash
<1>6. dlq' \in [Processes -> SUBSET Deliveries] /\ replaying' \in [Processes -> [Deliveries -> Nat]]
  BY DEF Crash
<1> QED BY <1>1, <1>2, <1>3, <1>4, <1>5, <1>6 DEF Crash

\* Every step keeps the types.
LEMMA TypeStep == TypeOK /\ RefsInv /\ (\A k \in Keys : KeyInv(k)) /\ [Next]_vars => TypeOK'
<1> SUFFICES ASSUME TypeOK, RefsInv, \A k \in Keys : KeyInv(k), [Next]_vars PROVE TypeOK'
  OBVIOUS
<1> USE TypeParts, KeysIn, Members, IncidentType DEF Parts, memory, queues
<1>1. ASSUME NEW p \in Processes, NEW t \in Targets, NEW d \in Deliveries, Request(p, t, d)
      PROVE  TypeOK'
  <2>1. [pc |-> "adding", target |-> t, from |-> Nobody, at |-> p] \in ReqRecord
    BY DEF ReqRecord
  <2>2. history' \in [Processes -> [Keys -> Mark]]
    BY <1>1, MarksType DEF Request
  <2>3. met' \in [Keys -> SUBSET Kinds]
    BY <1>1, MeetsType DEF Request
  <2> QED BY <1>1, <2>1, <2>2, <2>3 DEF Request
<1>2. ASSUME NEW d \in Deliveries, AddArrives(d) PROVE TypeOK'
  <2>1. KeyOf(d) \in Keys
    BY <1>2, KeyOfType DEF AddArrives, Used
  <2>2. jobs' \in [Keys -> Job]
    BY <1>2, <2>1, AddedType DEF AddArrives
  <2>3. req' \in [Deliveries -> ReqRecord]
    BY <1>2, EndedType DEF AddArrives
  <2> QED BY <1>2, <2>2, <2>3 DEF AddArrives
<1>3. ASSUME NEW d \in Deliveries, AddFails(d) PROVE TypeOK'
  <2>1. KeyOf(d) \in Keys
    BY <1>3, KeyOfType DEF AddFails, Used
  <2>2. met' \in [Keys -> SUBSET Kinds]
    BY <1>3, <2>1, MeetsType DEF AddFails
  <2>3. req' \in [Deliveries -> ReqRecord]
    BY <1>3, EndedType DEF AddFails
  <2> QED BY <1>3, <2>2, <2>3 DEF AddFails
<1>4. ASSUME NEW d \in Deliveries, Retriggered(d) PROVE TypeOK'
  <2>1. req' \in [Deliveries -> ReqRecord]
    BY <1>4, EndedType DEF Retriggered
  <2>2. log' \in [Processes -> [Deliveries -> Entry]]
    BY <1>4 DEF Retriggered
  <2> QED BY <1>4, <2>1, <2>2 DEF Retriggered
<1>5. ASSUME NEW p \in Processes, NEW d \in Deliveries, Replay(p, d) PROVE TypeOK'
  <2>1. replaying' \in [Processes -> [Deliveries -> Nat]]
    BY <1>5 DEF Replay
  <2> QED BY <1>5, <2>1 DEF Replay
<1>6. ASSUME NEW p \in Processes, NEW d \in Deliveries, Replayed(p, d) PROVE TypeOK'
  <2>1. KeyOf(d) \in Keys
    BY <1>6, KeyOfType DEF Replayed, RefsInv
  <2>2. jobs' \in [Keys -> Job]
    BY <1>6, <2>1, AddedType DEF Replayed
  <2>3. met' \in [Keys -> SUBSET Kinds]
    BY <1>6, <2>1, MeetsType DEF Replayed
  <2>4. replaying' \in [Processes -> [Deliveries -> Nat]]
    <3>1. replaying[p][d] - 1 \in Nat
      BY <1>6 DEF Replayed
    <3>2. replaying' = [replaying EXCEPT ![p][d] = replaying[p][d] - 1]
      BY <1>6 DEF Replayed
    <3> QED BY <3>1, <3>2
  <2>5. dlq' \in [Processes -> SUBSET Deliveries]
    <3>1. dlq' = dlq \/ dlq' = [dlq EXCEPT ![p] = dlq[p] \ {d}]
      BY <1>6 DEF Replayed
    <3>2. dlq[p] \ {d} \in SUBSET Deliveries
      OBVIOUS
    <3>3. CASE dlq' = [dlq EXCEPT ![p] = dlq[p] \ {d}]
      BY <3>2, <3>3
    <3> QED BY <3>1, <3>3
  <2> QED BY <1>6, <2>2, <2>3, <2>4, <2>5 DEF Replayed
<1>7. ASSUME NEW p \in Processes, NEW d0 \in Deliveries, NEW d \in Deliveries, Retrigger(p, d0, d)
      PROVE  TypeOK'
  <2>1. Used(d0)
    BY <1>7 DEF Retrigger, RefsInv
  <2>2. [pc |-> "adding", target |-> req[d0].target, from |-> d0, at |-> p] \in ReqRecord
    BY <2>1 DEF ReqRecord, RefsInv
  <2>3. circuit' \in [Processes -> [Endpoints -> Circuit]]
    <3>1. Closed \in Circuit
      BY LimitsOK DEF Circuit, Closed
    <3>2. PICK resumeEndpoint \in BOOLEAN :
              circuit' = [circuit EXCEPT ![p][EndpointOf[req[d0].target]] =
                            IF resumeEndpoint THEN Closed ELSE @]
      BY <1>7 DEF Retrigger
    <3>3. CASE ~resumeEndpoint
      <4>1. circuit' = [circuit EXCEPT ![p][EndpointOf[req[d0].target]] = @]
        BY <3>2, <3>3
      <4> QED BY <4>1
    <3>4. CASE resumeEndpoint
      <4>1. circuit' = [circuit EXCEPT ![p][EndpointOf[req[d0].target]] = Closed]
        BY <3>2, <3>4
      <4> QED BY <3>1, <4>1, CircuitAt
    <3> QED BY <3>3, <3>4
  <2>4. history' \in [Processes -> [Keys -> Mark]]
    BY <1>7, MarksType DEF Retrigger
  <2> QED BY <1>7, <2>2, <2>3, <2>4 DEF Retrigger
<1>8. ASSUME NEW p \in Workers, NEW k \in Keys, Runs(p, k) PROVE TypeOK'
  BY <1>8, TypeRuns
<1>9. ASSUME NEW k \in Keys, Due(k) PROVE TypeOK'
  <2>1. jobs' \in [Keys -> Job]
    BY <1>9, JobMoveType DEF Due, Live
  <2> QED BY <1>9, <2>1 DEF Due
<1>10. ASSUME NEW k \in Keys, Stall(k) PROVE TypeOK'
  BY <1>10, TypeStall
<1>11. ASSUME NEW k \in Keys, Forget(k) PROVE TypeOK'
  <2>1. met' \in [Keys -> SUBSET Kinds]
    BY <1>11, MeetsType DEF Forget
  <2>2. NoJob \in Job
    BY LimitsOK DEF Job, NoJob
  <2> QED BY <1>11, <2>1, <2>2 DEF Forget
<1>12. ASSUME NEW p \in Processes, NEW e \in Endpoints, CoolsDown(p, e) PROVE TypeOK'
  <2>1. [circuit[p][e] EXCEPT !.status = "cooled"] \in Circuit
    BY CircuitType
  <2>2. circuit' = [circuit EXCEPT ![p][e] = [circuit[p][e] EXCEPT !.status = "cooled"]]
    BY <1>12 DEF CoolsDown
  <2>3. circuit' \in [Processes -> [Endpoints -> Circuit]]
    BY <2>1, <2>2, CircuitAt
  <2> QED BY <1>12, <2>3 DEF CoolsDown
<1>13. ASSUME NEW p \in Processes, NEW e \in Endpoints, Resume(p, e) PROVE TypeOK'
  <2>1. Closed \in Circuit
    BY LimitsOK DEF Circuit, Closed
  <2>2. circuit' \in [Processes -> [Endpoints -> Circuit]]
    BY <1>13, <2>1, CircuitAt DEF Resume
  <2> QED BY <1>13, <2>2 DEF Resume
<1>14. ASSUME NEW p \in Processes, Purge(p) PROVE TypeOK'
  BY <1>14 DEF Purge
<1>15. ASSUME NEW p \in Processes, Crash(p) PROVE TypeOK'
  BY <1>15, TypeCrash
<1>16. CASE UNCHANGED vars
  BY <1>16 DEF vars
<1> QED BY <1>1, <1>2, <1>3, <1>4, <1>5, <1>6, <1>7, <1>8, <1>9, <1>10, <1>11, <1>12, <1>13,
     <1>14, <1>15, <1>16 DEF Next

-----------------------------------------------------------------------------
\* What a step on job k changes at most of what refers to deliveries.
Touches(k) ==
    /\ jobs[k].state # "none"
    /\ UNCHANGED <<req, replaying>>
    /\ \A p \in Processes, d \in Deliveries : log'[p][d] = log[p][d] \/ d = Delivery(k)
    /\ \A p \in Processes, d \in Deliveries : d \in dlq'[p] => d \in dlq[p] \/ d = Delivery(k)
    /\ \A q \in Keys : q # k => jobs'[q] = jobs[q] /\ accepted'[q] = accepted[q]
    /\ jobs'[k].state # "none" => jobs'[k].delivery = jobs[k].delivery

LEMMA RefsTouched ==
    ASSUME RefsInv, NEW k \in Keys, Touches(k)
    PROVE  RefsInv'
<1>1. Delivery(k) \in Deliveries /\ Used(Delivery(k)) /\ (k \in Deliveries => Used(k))
  BY DEF RefsInv, Touches
<1>2. \A d \in Deliveries : ~Used(d)' =>
          /\ req'[d].from = Nobody /\ req'[d].at = Nobody
          /\ jobs'[d].state = "none" /\ accepted'[d] = 0
  BY <1>1, KeysIn DEF RefsInv, Touches, Used
<1>3. \A q \in Keys : jobs'[q].state # "none" => Delivery(q)' \in Deliveries /\ Used(Delivery(q))'
  BY <1>1 DEF RefsInv, Touches, Used, Delivery
<1>4. \A p \in Processes, d \in Deliveries :
          d \in dlq'[p] \/ replaying'[p][d] > 0 \/ log'[p][d] # "none" => Used(d)'
  BY <1>1 DEF RefsInv, Touches, Used
<1> QED BY <1>2, <1>3, <1>4 DEF RefsInv, Touches, Used

LEMMA RefsAdded ==
    ASSUME RefsInv, req \in [Deliveries -> ReqRecord], jobs \in [Keys -> Job],
           NEW k \in Keys, NEW d \in Deliveries, Used(d), k \in Deliveries => k = d,
           jobs' = Added(k, d), accepted' = accepted,
           \A e \in Deliveries : /\ req'[e].target = req[e].target /\ req'[e].from = req[e].from
                                 /\ Used(e)' <=> Used(e)
                                 /\ req'[e].pc \in {"adding", "added"} => req'[e].at \in Processes
                                 /\ ~Used(e) => req'[e].at = Nobody,
           \A p \in Processes, e \in Deliveries :
                e \in dlq'[p] \/ replaying'[p][e] > 0 \/ log'[p][e] # "none"
                    => e \in dlq[p] \/ replaying[p][e] > 0 \/ log[p][e] # "none"
    PROVE  RefsInv'
<1>1. ASSUME NEW e \in Deliveries, ~Used(e) PROVE jobs'[e].state = "none"
  <2>1. jobs[e].state = "none" /\ e # k /\ e \in Keys
    BY <1>1, KeysIn DEF RefsInv
  <2>2. jobs'[e] = jobs[e]
    BY <2>1 DEF Added
  <2> QED BY <2>1, <2>2
<1>2. ASSUME NEW q \in Keys, jobs'[q].state # "none"
      PROVE  Delivery(q)' \in Deliveries /\ Used(Delivery(q))'
  <2>1. CASE jobs'[q] = jobs[q]
    BY <1>2, <2>1 DEF RefsInv, Delivery, Used
  <2>2. CASE jobs'[q] = NewJob(d)
    BY <2>2, NewJobIs DEF Delivery, Used
  <2> QED BY <2>1, <2>2, AddedAt
<1>3. \A e \in Deliveries : req[e].from # Nobody => req[e].from \in Deliveries
  BY DEF ReqRecord
<1>4. \A e \in Deliveries : req'[e].from # Nobody => Used(req[e].from)'
  BY <1>3 DEF RefsInv, Used
<1>5. \A e \in Deliveries : ~Used(e)' =>
          /\ req'[e].from = Nobody /\ req'[e].at = Nobody
          /\ jobs'[e].state = "none" /\ accepted'[e] = 0
  BY <1>1 DEF RefsInv
<1>6. \A e \in Deliveries : Used(e)' => req'[e].target \in Targets
  BY DEF RefsInv
<1>7. \A p \in Processes, e \in Deliveries :
          e \in dlq'[p] \/ replaying'[p][e] > 0 \/ log'[p][e] # "none" => Used(e)'
  BY DEF RefsInv
<1> QED BY <1>2, <1>4, <1>5, <1>6, <1>7 DEF RefsInv, Used, Delivery

LEMMA RefsSame ==
    ASSUME RefsInv, req \in [Deliveries -> ReqRecord], jobs' = jobs, accepted' = accepted,
           \A e \in Deliveries : /\ req'[e].target = req[e].target /\ req'[e].from = req[e].from
                                 /\ Used(e)' <=> Used(e)
                                 /\ req'[e].pc \in {"adding", "added"} => req'[e].at \in Processes
                                 /\ ~Used(e) => req'[e].at = Nobody,
           \A p \in Processes, e \in Deliveries :
                e \in dlq'[p] \/ replaying'[p][e] > 0 \/ log'[p][e] # "none" => Used(e)
    PROVE  RefsInv'
<1>1. \A e \in Deliveries : req[e].from # Nobody => req[e].from \in Deliveries
  BY DEF ReqRecord
<1>2. \A e \in Deliveries : req'[e].from # Nobody => Used(req[e].from)'
  BY <1>1 DEF RefsInv, Used
<1>3. \A q \in Keys : jobs'[q].state # "none" => Delivery(q)' \in Deliveries /\ Used(Delivery(q))'
  <2> SUFFICES ASSUME NEW q \in Keys, jobs'[q].state # "none"
               PROVE  Delivery(q)' \in Deliveries /\ Used(Delivery(q))'
    OBVIOUS
  <2>1. jobs[q].delivery \in Deliveries /\ Used(jobs[q].delivery)
    BY DEF RefsInv, Delivery
  <2>2. req'[jobs[q].delivery].pc # "unused"
    BY <2>1 DEF Used
  <2> QED BY <2>1, <2>2 DEF Delivery, Used
<1>4. \A e \in Deliveries :
          /\ Used(e)' => req'[e].target \in Targets
          /\ ~Used(e)' => /\ req'[e].from = Nobody /\ req'[e].at = Nobody
                          /\ jobs'[e].state = "none" /\ accepted'[e] = 0
  BY DEF RefsInv
<1>5. \A p \in Processes, e \in Deliveries :
          e \in dlq'[p] \/ replaying'[p][e] > 0 \/ log'[p][e] # "none" => Used(e)'
  OBVIOUS
<1> QED BY <1>2, <1>3, <1>4, <1>5 DEF RefsInv, Used

\* A worker's step on job k, a timer, the stalled checker and BullMQ's removal.
LEMMA TouchesOnly ==
    ASSUME TypeOK, NEW k \in Keys, KeyInv(k),
           (\E p \in Workers : Runs(p, k)) \/ Due(k) \/ Stall(k) \/ Forget(k)
    PROVE  Touches(k)
<1>a. /\ jobs \in [Keys -> Job] /\ run \in [Processes -> [Keys -> Labels]]
      /\ accepted \in [Keys -> 0 .. 2]
      /\ log \in [Processes -> [Deliveries -> Entry]] /\ dlq \in [Processes -> SUBSET Deliveries]
  BY TypeParts DEF Parts
<1> USE <1>a DEF Touches, memory, queues
<1>b. ASSUME NEW p \in Workers, NEW status, Logs(p, Delivery(k), status)
      PROVE  \A o \in Processes, d \in Deliveries : log'[o][d] = log[o][d] \/ d = Delivery(k)
  BY <1>b, WorkersOK DEF Logs
<1>c. ASSUME NEW p \in Workers, NEW exhausted, FailsJob(p, k, exhausted), jobs[k].state # "none"
      PROVE  Touches(k)
  BY <1>b, <1>c DEF FailsJob, Failed, Job
<1>1. ASSUME NEW p \in Workers, Runs(p, k) PROVE Touches(k)
  <2>0. p \in Processes /\ (run[p][k] # "none" => jobs[k].state # "none")
    BY WorkersOK DEF KeyInv, RunOK
  <2>1. CASE Begin(p, k)
    BY <1>b, <2>1 DEF Begin, Job
  <2>2. CASE Accept(p, k)
    BY <2>0, <2>2 DEF Accept
  <2>3. CASE Delivered(p, k)
    BY <1>b, <2>0, <2>3 DEF Delivered
  <2>4. CASE AnswerLost(p, k)
    BY <1>b, <2>0, <2>4 DEF AnswerLost
  <2>5. CASE ServerError(p, k)
    BY <1>b, <2>0, <2>5 DEF ServerError
  <2>6. CASE ClientAnswer(p, k)
    BY <1>b, <2>0, <2>6 DEF ClientAnswer
  <2>7. CASE Complete(p, k)
    BY <2>0, <2>7 DEF Complete, Job
  <2>8. CASE Fail(p, k)
    <3>1. jobs[k].state # "none"
      BY <2>0, <2>8 DEF Fail
    <3> QED BY <1>c, <2>8, <3>1 DEF Fail
  <2>9. CASE FailDoomed(p, k)
    BY <1>c, <2>9 DEF FailDoomed
  <2>10. CASE FailInVain(p, k)
    BY <2>0, <2>10 DEF FailInVain
  <2>11. CASE Bury(p, k)
    BY <2>0, <2>11 DEF Bury
  <2> QED BY <1>1, <2>1, <2>2, <2>3, <2>4, <2>5, <2>6, <2>7, <2>8, <2>9, <2>10, <2>11 DEF Runs
<1>2. ASSUME Due(k) PROVE Touches(k)
  BY <1>2 DEF Due, Job
<1>3. ASSUME Stall(k) PROVE Touches(k)
  <2>1. jobs[k].state # "none" /\ UNCHANGED <<req, accepted, dlq, replaying>>
    BY <1>3 DEF Stall
  <2>2. CASE Requeued(k)
    BY <2>1, <2>2 DEF Requeued, Job
  <2>3. CASE GivenUp(k)
    <3>1. /\ \A q \in Keys : q # k => jobs'[q] = jobs[q]
          /\ jobs'[k].delivery = jobs[k].delivery
      BY <2>3 DEF GivenUp, Job
    <3>2. \A o \in Processes, d \in Deliveries : log'[o][d] = log[o][d] \/ d = Delivery(k)
      BY <1>b, <2>3 DEF GivenUp
    <3> QED BY <2>1, <3>1, <3>2
  <2> QED BY <1>3, <2>2, <2>3 DEF Stall
<1>4. ASSUME Forget(k) PROVE Touches(k)
  BY <1>4 DEF Forget, NoJob
<1> QED BY <1>1, <1>2, <1>3, <1>4

\* What refers to a delivery keeps referring to one that was made.
LEMMA RefsStep == TypeOK /\ RefsInv /\ (\A k \in Keys : KeyInv(k)) /\ [Next]_vars => RefsInv'
<1> SUFFICES ASSUME TypeOK, RefsInv, \A k \in Keys : KeyInv(k), [Next]_vars PROVE RefsInv'
  OBVIOUS
<1>a. /\ req \in [Deliveries -> ReqRecord] /\ jobs \in [Keys -> Job]
      /\ log \in [Processes -> [Deliveries -> Entry]]
      /\ accepted \in [Keys -> 0 .. 2] /\ dlq \in [Processes -> SUBSET Deliveries]
      /\ replaying \in [Processes -> [Deliveries -> Nat]]
  BY TypeParts DEF Parts
<1> USE <1>a, KeysIn, DeliveriesOK, NobodyOK
    DEF RefsInv, Used, ReqRecord, Entry, Delivery, memory, queues
<1>1. ASSUME NEW p \in Processes, NEW t \in Targets, NEW d \in Deliveries, Request(p, t, d)
      PROVE  RefsInv'
  BY <1>1 DEF Request
<1>2. ASSUME NEW d \in Deliveries, AddArrives(d) PROVE RefsInv'
  <2>1. Used(d) /\ KeyOf(d) \in Keys /\ (KeyOf(d) \in Deliveries => KeyOf(d) = d)
    BY <1>2, KeyOfType DEF AddArrives
  <2>2. \A e \in Deliveries : /\ req'[e].target = req[e].target /\ req'[e].from = req[e].from
                              /\ Used(e)' <=> Used(e)
                              /\ req'[e].pc \in {"adding", "added"} => req'[e].at \in Processes
                              /\ ~Used(e) => req'[e].at = Nobody
    BY <1>2 DEF AddArrives, Ended
  <2> QED BY <1>2, <2>1, <2>2, RefsAdded DEF AddArrives
<1>3. ASSUME NEW d \in Deliveries, AddFails(d) PROVE RefsInv'
  BY <1>3 DEF AddFails, Ended
<1>4. ASSUME NEW d \in Deliveries, Retriggered(d) PROVE RefsInv'
  <2>1. Used(d) /\ req' = Ended(d, "queued")
    BY <1>4 DEF Retriggered
  <2>2. \A e \in Deliveries : /\ req'[e].target = req[e].target /\ req'[e].from = req[e].from
                              /\ Used(e)' <=> Used(e)
                              /\ req'[e].pc \in {"adding", "added"} => req'[e].at \in Processes
                              /\ ~Used(e) => req'[e].at = Nobody
    BY <2>1 DEF Ended
  <2>3. Used(req[d].from) \/ req[d].from = Nobody
    OBVIOUS
  <2>4. \A o \in Processes, e \in Deliveries : log'[o][e] # "none" => Used(e)
    BY <1>4, <2>1, <2>3 DEF Retriggered
  <2>5. \A o \in Processes, e \in Deliveries :
            e \in dlq'[o] \/ replaying'[o][e] > 0 \/ log'[o][e] # "none" => Used(e)
    BY <1>4, <2>4 DEF Retriggered
  <2> QED BY <1>4, <2>2, <2>5, RefsSame DEF Retriggered
<1>5. ASSUME NEW p \in Processes, NEW d \in Deliveries, Replay(p, d) PROVE RefsInv'
  BY <1>5 DEF Replay
<1>6. ASSUME NEW p \in Processes, NEW d \in Deliveries, Replayed(p, d) PROVE RefsInv'
  <2>1. Used(d) /\ KeyOf(d) \in Keys /\ (KeyOf(d) \in Deliveries => KeyOf(d) = d)
    BY <1>6, KeyOfType DEF Replayed
  <2>2. \A o \in Processes, e \in Deliveries : replaying'[o][e] > 0 => replaying[o][e] > 0
    BY <1>6 DEF Replayed
  <2>3. \A o \in Processes, e \in Deliveries : e \in dlq'[o] => e \in dlq[o]
    BY <1>6 DEF Replayed
  <2>4. req' = req /\ log' = log /\ accepted' = accepted
    BY <1>6 DEF Replayed
  <2>5. CASE jobs' = Added(KeyOf(d), d)
    BY <2>1, <2>2, <2>3, <2>4, <2>5, RefsAdded
  <2>6. CASE jobs' = jobs
    BY <2>2, <2>3, <2>4, <2>6
  <2> QED BY <1>6, <2>5, <2>6 DEF Replayed
<1>7. ASSUME NEW p \in Processes, NEW d0 \in Deliveries, NEW d \in Deliveries, Retrigger(p, d0, d)
      PROVE  RefsInv'
  BY <1>7 DEF Retrigger
<1>8. ASSUME NEW k \in Keys,
             (\E p \in Workers : Runs(p, k)) \/ Due(k) \/ Stall(k) \/ Forget(k)
      PROVE  RefsInv'
  BY <1>8, TouchesOnly, RefsTouched
<1>9. ASSUME NEW p \in Processes, NEW e \in Endpoints, CoolsDown(p, e) \/ Resume(p, e)
      PROVE  RefsInv'
  BY <1>9 DEF CoolsDown, Resume
<1>10. ASSUME NEW p \in Processes, Purge(p) PROVE RefsInv'
  BY <1>10 DEF Purge
<1>11. ASSUME NEW p \in Processes, Crash(p) PROVE RefsInv'
  <2>1. ASSUME NEW d \in Deliveries
        PROVE  /\ req'[d].target = req[d].target /\ req'[d].from = req[d].from
               /\ Used(d)' <=> Used(d)
               /\ req'[d].pc \in {"adding", "added"} => req'[d].at \in Processes
               /\ ~Used(d) => req'[d].at = Nobody
    <3>1. req[d].at # p => req'[d] = req[d]
      BY <1>11 DEF Crash
    <3>2. req[d].at = p => req'[d] = [req[d] EXCEPT !.pc = IF @ = "adding" THEN "refused" ELSE "queued",
                                                    !.at = Nobody]
      BY <1>11 DEF Crash
    <3>3. req[d].at = p => Used(d)
      OBVIOUS
    <3>4. CASE req[d].at # p
      BY <3>1, <3>4
    <3>5. CASE req[d].at = p
      <4>1. PICK s \in {"refused", "queued"} : req'[d] = [req[d] EXCEPT !.pc = s, !.at = Nobody]
        BY <3>2, <3>5
      <4> QED BY <3>3, <3>5, <4>1
    <3> QED BY <3>4, <3>5
  <2>2. \A o \in Processes, d \in Deliveries :
            d \in dlq'[o] \/ replaying'[o][d] > 0 \/ log'[o][d] # "none" => Used(d)
    <3> SUFFICES ASSUME NEW o \in Processes, NEW d \in Deliveries,
                        d \in dlq'[o] \/ replaying'[o][d] > 0 \/ log'[o][d] # "none"
                 PROVE  Used(d)
      OBVIOUS
    <3>1. CASE o = p
      <4>1. d \notin dlq'[p] /\ replaying'[p][d] = 0 /\ log'[p][d] = "none"
        BY <1>11 DEF Crash
      <4> QED BY <3>1, <4>1
    <3>2. CASE o # p
      <4>1. dlq'[o] = dlq[o] /\ replaying'[o] = replaying[o] /\ log'[o] = log[o]
        BY <1>11, <3>2 DEF Crash
      <4> QED BY <4>1
    <3> QED BY <3>1, <3>2
  <2> QED BY <1>11, <2>1, <2>2, RefsSame DEF Crash
<1>12. CASE UNCHANGED vars
  BY <1>12 DEF vars
<1> QED BY <1>1, <1>2, <1>3, <1>4, <1>5, <1>6, <1>7, <1>8, <1>9, <1>10, <1>11, <1>12 DEF Next

-----------------------------------------------------------------------------
Grown ==
    /\ \A k \in Keys : met[k] \subseteq met'[k] /\ (accepted[k] > 0 => accepted'[k] > 0)
    /\ dead \subseteq dead'
    /\ \A d \in Deliveries : Used(d) =>
          Used(d)' /\ req'[d].target = req[d].target /\ req'[d].from = req[d].from

\* No step takes any of this back.
LEMMA Growth == TypeOK /\ RefsInv /\ [Next]_vars => Grown
<1> SUFFICES ASSUME TypeOK, RefsInv, [Next]_vars PROVE Grown
  OBVIOUS
<1>a. /\ req \in [Deliveries -> ReqRecord] /\ met \in [Keys -> SUBSET Kinds]
      /\ accepted \in [Keys -> 0 .. 2]
  BY TypeParts DEF Parts
<1> USE <1>a DEF Used, Meets, memory, queues, Grown
<1>1. ASSUME NEW p \in Processes, NEW t \in Targets, NEW d \in Deliveries, Request(p, t, d)
      PROVE  Grown
  BY <1>1 DEF Request, Fresh
<1>2. ASSUME NEW d \in Deliveries, AddArrives(d) \/ AddFails(d) \/ Retriggered(d) PROVE Grown
  <2>1. req' = Ended(d, "queued") \/ req' = Ended(d, "refused") \/ req' = [req EXCEPT ![d].pc = "added"]
    BY <1>2 DEF AddArrives, AddFails, Retriggered
  <2>2. ASSUME NEW e \in Deliveries, Used(e)
        PROVE  Used(e)' /\ req'[e].target = req[e].target /\ req'[e].from = req[e].from
    <3>1. PICK s \in {"refused", "queued", "added"} :
              \/ req'[e] = req[e]
              \/ req'[e] = [req[e] EXCEPT !.pc = s]
              \/ req'[e] = [req[e] EXCEPT !.pc = s, !.at = Nobody]
      BY <2>1 DEF Ended
    <3>2. req[e] \in ReqRecord
      OBVIOUS
    <3> QED BY <2>2, <3>1, <3>2 DEF ReqRecord
  <2>3. UNCHANGED <<accepted, dead>> /\ \A k \in Keys : met[k] \subseteq met'[k]
    BY <1>2 DEF AddArrives, AddFails, Retriggered
  <2> QED BY <2>2, <2>3
<1>3. ASSUME NEW p \in Processes, NEW d \in Deliveries, Replay(p, d) \/ Replayed(p, d)
      PROVE  Grown
  BY <1>3 DEF Replay, Replayed
<1>4. ASSUME NEW p \in Processes, NEW d0 \in Deliveries, NEW d \in Deliveries, Retrigger(p, d0, d)
      PROVE  Grown
  BY <1>4 DEF Retrigger, Fresh
<1>5. ASSUME NEW p \in Workers, NEW k \in Keys, Runs(p, k) PROVE Grown
  <2>1. CASE Accept(p, k)
    <3>1. \A q \in Keys : accepted[q] > 0 => accepted'[q] > 0
      BY <2>1 DEF Accept
    <3> QED BY <2>1, <3>1 DEF Accept
  <2>2. CASE AnswerLost(p, k) \/ Bury(p, k)
    BY <2>2 DEF AnswerLost, Bury
  <2>3. CASE Begin(p, k) \/ Delivered(p, k) \/ ServerError(p, k) \/ ClientAnswer(p, k)
             \/ Complete(p, k) \/ FailInVain(p, k)
    BY <2>3 DEF Begin, Delivered, ServerError, ClientAnswer, Complete, FailInVain
  <2>4. CASE Fail(p, k) \/ FailDoomed(p, k)
    BY <2>4 DEF Fail, FailDoomed, FailsJob
  <2> QED BY <1>5, <2>1, <2>2, <2>3, <2>4 DEF Runs
<1>6. ASSUME NEW k \in Keys, Due(k) \/ Stall(k) \/ Forget(k) PROVE Grown
  <2>1. \A q \in Keys : met[q] \subseteq met'[q]
    BY <1>6 DEF Due, Stall, Forget, Requeued, GivenUp, MeetsStall
  <2>2. UNCHANGED <<req, accepted, dead>>
    BY <1>6 DEF Due, Stall, Forget
  <2> QED BY <2>1, <2>2
<1>7. ASSUME NEW p \in Processes, NEW e \in Endpoints, CoolsDown(p, e) \/ Resume(p, e)
      PROVE  Grown
  BY <1>7 DEF CoolsDown, Resume
<1>8. ASSUME NEW p \in Processes, Purge(p) PROVE Grown
  BY <1>8 DEF Purge
<1>9. ASSUME NEW p \in Processes, Crash(p) PROVE Grown
  <2>1. \A q \in Keys : met[q] \subseteq met'[q]
    BY <1>9 DEF Crash
  <2>2. UNCHANGED <<accepted, dead>>
    BY <1>9 DEF Crash
  <2>3. ASSUME NEW d \in Deliveries, Used(d)
        PROVE  Used(d)' /\ req'[d].target = req[d].target /\ req'[d].from = req[d].from
    <3>1. PICK s \in {"refused", "queued"} :
              req'[d] = req[d] \/ req'[d] = [req[d] EXCEPT !.pc = s, !.at = Nobody]
      BY <1>9 DEF Crash
    <3>2. req[d] \in ReqRecord
      OBVIOUS
    <3> QED BY <2>3, <3>1, <3>2 DEF ReqRecord
  <2> QED BY <2>1, <2>2, <2>3
<1>10. CASE UNCHANGED vars
  BY <1>10 DEF vars
<1> QED BY <1>1, <1>2, <1>3, <1>4, <1>5, <1>6, <1>7, <1>8, <1>9, <1>10 DEF Next

-----------------------------------------------------------------------------
(* The part of the invariant that speaks of one key.                       *)

\* The invariant's part for q does not see the step.
Same(q) ==
    /\ jobs'[q] = jobs[q] /\ accepted'[q] = accepted[q] /\ met[q] \subseteq met'[q]
    /\ q \in dead => q \in dead'
    /\ \A p \in Processes : run'[p][q] = run[p][q]
    /\ \A p \in Processes : history[p][q] = "delivered" => history'[p][q] = "delivered"
    /\ Adding(q)' => Adding(q)

LEMMA SafeStays ==
    ASSUME NEW q, met[q] \subseteq met'[q], q \in dead => q \in dead',
           accepted[q] > 0 => accepted'[q] > 0
    PROVE  Safe(q) => Safe(q)'
BY DEF Safe

LEMMA SameKeeps ==
    ASSUME NEW q, KeyInv(q), Same(q)
    PROVE  KeyInv(q)'
<1>1. Safe(q) => Safe(q)'
  BY SafeStays DEF Same
<1>2. \A p \in Processes : Has(p, q)' <=> Has(p, q)
  BY DEF Same, Has
<1>3. JobOK(q)'
  BY DEF Same, KeyInv, JobOK
<1>4. RunOK(q)'
  BY <1>1, <1>2 DEF Same, KeyInv, RunOK
<1>5. EndOK(q)'
  BY <1>1 DEF Same, KeyInv, EndOK
<1>6. OnceOK(q)'
  <2>1. Excused(q) => Excused(q)'
    BY DEF Same, Excused
  <2>2. Known(q) => Known(q)'
    BY DEF Same, Known
  <2>3. Held(q) => Held(q)'
    BY <1>2, <2>2 DEF Same, Held
  <2> QED BY <2>1, <2>3 DEF Same, KeyInv, OnceOK
<1> QED BY <1>3, <1>4, <1>5, <1>6 DEF KeyInv

LEMMA AddingSame ==
    ASSUME req' = req, NEW q
    PROVE  Adding(q)' <=> Adding(q)
BY DEF Adding, KeyOf

\* A step of a worker, a timer, the stalled checker or a removal changes its own key only.
LEMMA OthersSame ==
    ASSUME TypeOK, RefsInv, [Next]_vars, NEW k \in Keys,
           (\E p \in Workers : Runs(p, k)) \/ Due(k) \/ Stall(k) \/ Forget(k),
           NEW q \in Keys, q # k
    PROVE  Same(q)
<1>a. /\ jobs \in [Keys -> Job] /\ run \in [Processes -> [Keys -> Labels]]
      /\ history \in [Processes -> [Keys -> Mark]] /\ met \in [Keys -> SUBSET Kinds]
      /\ accepted \in [Keys -> 0 .. 2]
  BY TypeParts DEF Parts
<1>b. met[q] \subseteq met'[q] /\ (q \in dead => q \in dead')
  BY Growth DEF Grown
<1>c. ASSUME NEW p, NEW label, Goto(p, k, label)
      PROVE  \A o \in Processes : run'[o][q] = run[o][q]
  BY <1>a, <1>c DEF Goto
<1>d. ASSUME NEW p, NEW mark, Marks(p, k, mark)
      PROVE  \A o \in Processes : history'[o][q] = history[o][q]
  BY <1>a, <1>d DEF Marks
<1> USE <1>a, <1>b DEF memory, queues
<1>1. req' = req
  <2>1. ASSUME NEW p \in Workers, Runs(p, k) PROVE req' = req
    BY <2>1 DEF Runs, Begin, Accept, Delivered, AnswerLost, ServerError, ClientAnswer, Complete,
            Fail, FailsJob, FailInVain, Bury, FailDoomed
  <2> QED BY <2>1 DEF Due, Stall, Forget
<1>2. jobs'[q] = jobs[q] /\ accepted'[q] = accepted[q]
  <2>1. ASSUME NEW p \in Workers, Runs(p, k) PROVE jobs'[q] = jobs[q] /\ accepted'[q] = accepted[q]
    BY <2>1 DEF Runs, Begin, Accept, Delivered, AnswerLost, ServerError, ClientAnswer, Complete,
            Fail, FailsJob, FailInVain, Bury, FailDoomed
  <2> QED BY <2>1 DEF Due, Stall, Forget, Requeued, GivenUp
<1>3. \A o \in Processes : run'[o][q] = run[o][q]
  <2>1. ASSUME NEW p \in Workers, Runs(p, k) PROVE \A o \in Processes : run'[o][q] = run[o][q]
    BY <1>c, <2>1 DEF Runs, Begin, Accept, Delivered, AnswerLost, ServerError, ClientAnswer,
            Complete, Fail, FailsJob, FailInVain, Bury, FailDoomed
  <2> QED BY <2>1 DEF Due, Stall, Forget
<1>4. \A o \in Processes : history'[o][q] = history[o][q]
  <2>1. ASSUME NEW p \in Workers, Runs(p, k)
        PROVE  \A o \in Processes : history'[o][q] = history[o][q]
    BY <1>d, <2>1 DEF Runs, Begin, Accept, Delivered, AnswerLost, ServerError, ClientAnswer,
            Complete, Fail, FailsJob, FailInVain, Bury, FailDoomed
  <2> QED BY <1>d, <2>1 DEF Due, Stall, Forget, Requeued, GivenUp
<1> QED BY <1>1, <1>2, <1>3, <1>4, AddingSame DEF Same

\* What the worker p does with job k, as far as the invariant's part for k is concerned: it goes
\* on with the label next, and leaves the job, and what is known of it, alone.
GoesOn(p, k, next) ==
    /\ run[p][k] \in InHand
    /\ jobs'[k] = jobs[k] /\ met[k] \subseteq met'[k] /\ req' = req
    /\ k \in dead => k \in dead'
    /\ \A o \in Processes : run'[o][k] = IF o = p THEN next ELSE run[o][k]

\* A worker that has a job in hand has its lock, or the job has stalled.
LEMMA HasIt ==
    ASSUME NEW p \in Processes, NEW k, RunOK(k), run[p][k] \in InHand, "stalled" \notin met[k]
    PROVE  /\ Has(p, k)
           /\ \A o \in Processes : o # p => run[o][k] \notin InHand /\ ~Has(o, k)
BY DEF RunOK, Has

\* No more than one process holds the event that was accepted.
LEMMA HeldBy ==
    ASSUME NEW p \in Processes, NEW k, RunOK(k), run[p][k] \in InHand, "stalled" \notin met[k], Held(k)
    PROVE  run[p][k] = "accepted" \/ (run[p][k] = "return" /\ history[p][k] = "delivered")
<1>1. Has(p, k) /\ \A o \in Processes : o # p => ~Has(o, k)
  BY HasIt
<1> QED BY <1>1 DEF Held, Has, InHand

LEMMA GoesOnKeeps ==
    ASSUME NEW p \in Processes, NEW k, KeyInv(k), NEW next \in InHand, GoesOn(p, k, next),
           accepted[k] > 0 => accepted'[k] > 0,
           next = "accepted" => accepted'[k] > 0,
           next = "return" => Safe(k)',
           OnceOK(k)'
    PROVE  KeyInv(k)'
<1>1. Safe(k) => Safe(k)'
  BY SafeStays DEF GoesOn
<1>2. \A o \in Processes : Has(o, k)' <=> Has(o, k)
  BY DEF GoesOn, Has
<1>3. JobOK(k)'
  BY DEF GoesOn, KeyInv, JobOK
<1>4. RunOK(k)'
  <2>1. ASSUME NEW o \in Processes, o # p
        PROVE  /\ run'[o][k] # "none" => jobs'[k].state # "none"
               /\ run'[o][k] = "exhausted" => jobs'[k].state = "failed"
               /\ run'[o][k] = "accepted" => accepted'[k] > 0
               /\ run'[o][k] = "return" => Safe(k)'
               /\ run'[o][k] \in InHand => Has(o, k)' \/ "stalled" \in met'[k]
    BY <1>1, <1>2, <2>1 DEF GoesOn, KeyInv, RunOK
  <2>2. jobs'[k].state # "none"
    BY DEF GoesOn, KeyInv, RunOK, InHand
  <2>3. Has(p, k)' \/ "stalled" \in met'[k]
    BY <1>2 DEF GoesOn, KeyInv, RunOK
  <2>4. run'[p][k] = next
    BY DEF GoesOn
  <2> QED BY <2>1, <2>2, <2>3, <2>4 DEF RunOK, InHand
<1>5. EndOK(k)'
  <2>1. \A o \in Processes : run[o][k] = "exhausted" => run'[o][k] = "exhausted"
    BY DEF GoesOn, InHand
  <2> QED BY <1>1, <2>1 DEF GoesOn, KeyInv, EndOK
<1> QED BY <1>3, <1>4, <1>5 DEF KeyInv

LEMMA ExcusedStays ==
    ASSUME NEW q, met[q] \subseteq met'[q], Excused(q)
    PROVE  Excused(q)'
BY DEF Excused

\* An event that was accepted while its job is in hand and nobody handles the answer is excused.
LEMMA OnceIdle ==
    ASSUME NEW p \in Processes, NEW k, KeyInv(k), run[p][k] \in {"sending", "throw", "rejected"}
    PROVE  accepted[k] = 0 \/ Excused(k)
<1>1. CASE "stalled" \in met[k]
  BY <1>1 DEF Excused
<1>2. CASE "stalled" \notin met[k]
  <2>1. ~Held(k)
    BY <1>2, HeldBy DEF KeyInv, InHand
  <2> QED BY <2>1 DEF KeyInv, OnceOK
<1> QED BY <1>1, <1>2

LEMMA OnceIdleStays ==
    ASSUME NEW p \in Processes, NEW k, KeyInv(k), run[p][k] \in {"sending", "throw", "rejected"},
           met[k] \subseteq met'[k], accepted'[k] = accepted[k]
    PROVE  OnceOK(k)'
BY OnceIdle, ExcusedStays DEF OnceOK

\* What BullMQ's failing of an attempt leaves.
LEMMA KeyFails ==
    ASSUME TypeOK, NEW p \in Processes, NEW k \in Keys, KeyInv(k), NEW exhausted,
           FailsJob(p, k, exhausted), accepted[k] = 0 \/ Excused(k),
           jobs[k].state \in Live, ~exhausted => jobs[k].attempts + 1 < MaxAttempts,
           \A o \in Processes : o = p \/ run[o][k] \notin InHand \/ "stalled" \in met[k]
    PROVE  KeyInv(k)'
<1>a. /\ jobs \in [Keys -> Job] /\ run \in [Processes -> [Keys -> Labels]]
      /\ history \in [Processes -> [Keys -> Mark]]
  BY TypeParts DEF Parts
<1>1. /\ UNCHANGED <<accepted, dead, met>>
      /\ jobs'[k] = Failed(jobs[k], exhausted)
      /\ \A o \in Processes : run'[o][k] = IF o = p THEN IF exhausted THEN "exhausted" ELSE "none"
                                           ELSE run[o][k]
  BY <1>a DEF FailsJob, Goto
<1>2. /\ jobs'[k].state = IF exhausted THEN "failed" ELSE "delayed"
      /\ jobs'[k].attempts = jobs[k].attempts + 1
  BY <1>1, <1>a DEF Failed, Job
<1>3. \A o \in Processes : run[o][k] # "exhausted"
  BY DEF KeyInv, RunOK, Live
<1>4. Safe(k) => Safe(k)'
  BY <1>1, SafeStays
<1>5. JobOK(k)'
  BY <1>2 DEF JobOK, Live
<1>6. RunOK(k)'
  <2>1. ASSUME NEW o \in Processes, o # p
        PROVE  /\ run'[o][k] # "none" => jobs'[k].state # "none"
               /\ run'[o][k] = "exhausted" => jobs'[k].state = "failed"
               /\ run'[o][k] = "accepted" => accepted'[k] > 0
               /\ run'[o][k] = "return" => Safe(k)'
               /\ run'[o][k] \in InHand => "stalled" \in met'[k]
    BY <1>1, <1>2, <1>3, <1>4, <2>1 DEF KeyInv, RunOK
  <2>2. /\ run'[p][k] \in {"exhausted", "none"} /\ jobs'[k].state # "none"
        /\ run'[p][k] = "exhausted" => jobs'[k].state = "failed"
    BY <1>1, <1>2
  <2> QED BY <2>1, <2>2 DEF RunOK, InHand
<1>7. EndOK(k)'
  BY <1>1, <1>2 DEF EndOK
<1>8. OnceOK(k)'
  BY <1>1, ExcusedStays DEF OnceOK
<1> QED BY <1>5, <1>6, <1>7, <1>8 DEF KeyInv

\* Each step of a worker keeps its key's part of the invariant.
LEMMA KeyRuns ==
    ASSUME TypeOK, RefsInv, [Next]_vars, NEW p \in Workers, NEW k \in Keys, KeyInv(k), Runs(p, k)
    PROVE  KeyInv(k)'
<1>0. p \in Processes
  BY WorkersOK
<1>a. /\ jobs \in [Keys -> Job] /\ run \in [Processes -> [Keys -> Labels]]
      /\ history \in [Processes -> [Keys -> Mark]] /\ accepted \in [Keys -> 0 .. 2]
      /\ met \in [Keys -> SUBSET Kinds]
  BY TypeParts DEF Parts
<1>b. /\ met[k] \subseteq met'[k] /\ (k \in dead => k \in dead')
      /\ accepted[k] > 0 => accepted'[k] > 0
  BY Growth DEF Grown
<1>c. ASSUME NEW label, Goto(p, k, label)
      PROVE  \A o \in Processes : run'[o][k] = IF o = p THEN label ELSE run[o][k]
  BY <1>0, <1>a, <1>c DEF Goto
<1> USE <1>0, <1>a, <1>b DEF memory, queues
<1>1. CASE Begin(p, k)
  <2>1. /\ jobs[k].state = "wait" /\ run[p][k] = "none"
        /\ UNCHANGED <<req, history, accepted, dead, met>>
    BY <1>1 DEF Begin
  <2>2. accepted[k] = 0 \/ Excused(k)
    BY <2>1 DEF KeyInv, OnceOK, Held, Has
  <2>3. OnceOK(k)'
    BY <2>1, <2>2, ExcusedStays DEF OnceOK
  <2>4. Safe(k) => Safe(k)'
    BY SafeStays
  <2>5. \A o \in Processes : run[o][k] # "exhausted" /\ ~Has(o, k)
    BY <2>1 DEF KeyInv, RunOK, Has
  <2>6. CASE /\ jobs' = [jobs EXCEPT ![k].state = "active", ![k].by = p]
             /\ Goto(p, k, "sending")
    <3>1. /\ jobs'[k].state = "active" /\ jobs'[k].by = p /\ jobs'[k].attempts = jobs[k].attempts
          /\ Has(p, k)'
      BY <2>6 DEF Job, Has
    <3>2. JobOK(k)'
      BY <2>1, <3>1 DEF KeyInv, JobOK, Live
    <3>3. \A o \in Processes : run'[o][k] = IF o = p THEN "sending" ELSE run[o][k]
      BY <1>c, <2>6
    <3>4. RunOK(k)'
      BY <2>1, <2>4, <2>5, <3>1, <3>3 DEF KeyInv, RunOK, InHand
    <3>5. EndOK(k)'
      BY <3>1 DEF EndOK
    <3> QED BY <2>3, <3>2, <3>4, <3>5 DEF KeyInv
  <2>7. CASE jobs' = [jobs EXCEPT ![k].state = "delayed"] /\ run' = run
    <3>1. jobs'[k].state = "delayed" /\ jobs'[k].attempts = jobs[k].attempts
      BY <2>7 DEF Job
    <3>2. JobOK(k)'
      BY <2>1, <3>1 DEF KeyInv, JobOK, Live
    <3>3. RunOK(k)'
      BY <2>1, <2>4, <2>5, <2>7, <3>1 DEF KeyInv, RunOK, InHand
    <3>4. EndOK(k)'
      BY <3>1 DEF EndOK
    <3> QED BY <2>3, <3>2, <3>3, <3>4 DEF KeyInv
  <2> QED BY <1>1, <2>6, <2>7 DEF Begin
<1>2. CASE Accept(p, k)
  <2>1. GoesOn(p, k, "accepted") /\ run[p][k] = "sending" /\ history' = history
        /\ accepted'[k] = IF accepted[k] = 0 THEN 1 ELSE 2
    BY <1>2, <1>c DEF Accept, GoesOn, InHand
  <2>2. accepted'[k] > 0
    BY <2>1
  <2>3. OnceOK(k)'
    <3>1. CASE Excused(k)
      BY <3>1, ExcusedStays DEF OnceOK
    <3>2. CASE ~Excused(k)
      <4>1. accepted[k] = 0 /\ "stalled" \notin met[k]
        BY <2>1, <3>2, OnceIdle DEF Excused
      <4>2. Has(p, k)
        BY <2>1, <4>1, HasIt DEF KeyInv, InHand
      <4>3. Has(p, k)' /\ run'[p][k] = "accepted"
        BY <2>1, <4>2 DEF GoesOn, Has
      <4>4. Held(k)'
        BY <4>3 DEF Held
      <4>5. accepted'[k] = 1
        BY <2>1, <4>1
      <4> QED BY <4>4, <4>5 DEF OnceOK
    <3> QED BY <3>1, <3>2
  <2> QED BY <2>1, <2>2, <2>3, GoesOnKeeps DEF InHand
<1>3. CASE Delivered(p, k)
  <2>1. GoesOn(p, k, "return") /\ run[p][k] = "accepted" /\ accepted' = accepted
        /\ history'[p][k] = "delivered"
    BY <1>3, <1>c DEF Delivered, GoesOn, InHand, Marks
  <2>2. accepted[k] > 0
    BY <2>1 DEF KeyInv, RunOK
  <2>3. Safe(k)'
    BY <2>1, <2>2 DEF Safe
  <2>4. OnceOK(k)'
    <3>1. CASE Excused(k)
      BY <3>1, ExcusedStays DEF OnceOK
    <3>2. CASE ~Excused(k)
      <4>1. Has(p, k) /\ accepted[k] = 1
        BY <2>1, <2>2, <3>2, HasIt DEF KeyInv, OnceOK, InHand, Excused
      <4>2. Has(p, k)' /\ run'[p][k] = "return"
        BY <2>1, <4>1 DEF GoesOn, Has
      <4>3. Held(k)'
        BY <2>1, <4>2 DEF Held
      <4> QED BY <2>1, <4>1, <4>3 DEF OnceOK
    <3> QED BY <3>1, <3>2
  <2> QED BY <2>1, <2>3, <2>4, GoesOnKeeps DEF InHand
<1>4. CASE AnswerLost(p, k)
  <2>1. GoesOn(p, k, "throw") /\ "unsure" \in met'[k]
    BY <1>4, <1>c DEF AnswerLost, GoesOn, InHand, Meets
  <2>2. OnceOK(k)'
    BY <2>1 DEF OnceOK, Excused
  <2> QED BY <2>1, <2>2, GoesOnKeeps DEF InHand
<1>5. CASE ServerError(p, k)
  <2>1. GoesOn(p, k, "throw") /\ run[p][k] = "sending" /\ accepted' = accepted
    BY <1>5, <1>c DEF ServerError, GoesOn, InHand
  <2> QED BY <2>1, OnceIdleStays, GoesOnKeeps DEF InHand
<1>6. CASE ClientAnswer(p, k)
  <2>1. /\ GoesOn(p, k, "throw") \/ GoesOn(p, k, "rejected")
        /\ run[p][k] = "sending" /\ accepted' = accepted
    BY <1>6, <1>c DEF ClientAnswer, GoesOn, InHand
  <2>2. OnceOK(k)'
    BY <2>1, OnceIdleStays
  <2> QED BY <2>1, <2>2, GoesOnKeeps DEF InHand
<1>7. CASE Complete(p, k)
  <2>1. /\ run[p][k] = "return"
        /\ \A o \in Processes : run'[o][k] = IF o = p THEN "none" ELSE run[o][k]
        /\ UNCHANGED <<req, history, accepted, dead, met>>
    BY <1>7, <1>c DEF Complete
  <2>2. Safe(k) /\ Safe(k)'
    BY <2>1, SafeStays DEF KeyInv, RunOK
  <2>3. CASE Has(p, k)
    <3>1. jobs'[k].state = "completed"
      BY <1>7, <2>3 DEF Complete, Job
    <3>2. JobOK(k)' /\ EndOK(k)'
      BY <2>2, <3>1 DEF JobOK, EndOK, Live
    <3>3. \A o \in Processes : o # p /\ run[o][k] \in InHand => "stalled" \in met[k]
      BY <2>3 DEF KeyInv, RunOK, Has
    <3>4. \A o \in Processes : run[o][k] # "exhausted"
      BY <2>3 DEF KeyInv, RunOK, Has
    <3>5. RunOK(k)'
      BY <2>1, <2>2, <3>1, <3>3, <3>4 DEF KeyInv, RunOK, InHand
    <3>6. OnceOK(k)'
      <4>1. CASE accepted[k] = 0 \/ Excused(k)
        BY <2>1, <4>1, ExcusedStays DEF OnceOK
      <4>2. CASE accepted[k] = 1 /\ Held(k) /\ ~Excused(k)
        <5>1. history[p][k] = "delivered"
          BY <2>1, <4>2, HeldBy DEF KeyInv, InHand, Excused
        <5>2. Held(k)'
          BY <2>1, <3>1, <5>1 DEF Held, Known
        <5> QED BY <2>1, <4>2, <5>2 DEF OnceOK
      <4> QED BY <4>1, <4>2 DEF KeyInv, OnceOK
    <3> QED BY <3>2, <3>5, <3>6 DEF KeyInv
  <2>4. CASE ~Has(p, k)
    <3>1. jobs' = jobs /\ "stalled" \in met[k]
      BY <1>7, <2>1, <2>4 DEF Complete, KeyInv, RunOK, InHand
    <3>2. OnceOK(k)'
      BY <3>1 DEF OnceOK, Excused
    <3>3. RunOK(k)'
      BY <2>1, <2>2, <3>1 DEF KeyInv, RunOK, InHand
    <3>4. JobOK(k)' /\ EndOK(k)'
      BY <2>2, <3>1 DEF KeyInv, JobOK, EndOK
    <3> QED BY <3>2, <3>3, <3>4 DEF KeyInv
  <2> QED BY <2>3, <2>4
<1>8. CASE Fail(p, k)
  <2>1. run[p][k] = "throw" /\ Has(p, k) /\ jobs[k].state \in Live
    BY <1>8 DEF Fail, Has, Live
  <2>2. PICK exhausted \in {TRUE, jobs[k].attempts + 1 >= MaxAttempts} : FailsJob(p, k, exhausted)
    BY <1>8 DEF Fail
  <2>3. ~exhausted => ~(jobs[k].attempts + 1 >= MaxAttempts)
    BY <2>2, Zenon
  <2>4. jobs[k].attempts \in Nat
    BY DEF Job
  <2>5. ~exhausted => jobs[k].attempts + 1 < MaxAttempts
    BY <2>3, <2>4, LimitsOK
  <2>6. accepted[k] = 0 \/ Excused(k)
    BY <2>1, OnceIdle
  <2>7. \A o \in Processes : o = p \/ run[o][k] \notin InHand \/ "stalled" \in met[k]
    BY <2>1 DEF KeyInv, RunOK, Has
  <2> QED BY <2>1, <2>2, <2>5, <2>6, <2>7, KeyFails
<1>9. CASE FailDoomed(p, k)
  <2>1. jobs[k].state = "doomed" /\ FailsJob(p, k, TRUE)
    BY <1>9 DEF FailDoomed
  <2>2. accepted[k] = 0 \/ Excused(k)
    BY <2>1 DEF KeyInv, OnceOK, Held, Has
  <2>3. \A o \in Processes : run[o][k] \notin InHand \/ "stalled" \in met[k]
    BY <2>1 DEF KeyInv, RunOK, Has
  <2>4. jobs[k].state \in Live
    BY <2>1 DEF Live
  <2> QED BY <2>1, <2>2, <2>3, <2>4, KeyFails
<1>10. CASE FailInVain(p, k)
  <2>1. /\ run[p][k] = "throw" /\ "stalled" \in met[k]
        /\ \A o \in Processes : run'[o][k] = IF o = p THEN "none" ELSE run[o][k]
        /\ UNCHANGED <<jobs, accepted, dead, met>>
    BY <1>10, <1>c DEF FailInVain, KeyInv, RunOK, InHand
  <2>2. Safe(k) => Safe(k)'
    BY SafeStays
  <2>3. OnceOK(k)'
    BY <2>1 DEF OnceOK, Excused
  <2>4. RunOK(k)'
    BY <2>1, <2>2 DEF KeyInv, RunOK, InHand
  <2>5. JobOK(k)' /\ EndOK(k)'
    BY <2>1, <2>2 DEF KeyInv, JobOK, EndOK
  <2> QED BY <2>3, <2>4, <2>5 DEF KeyInv
<1>11. CASE Bury(p, k)
  <2>1. k \in dead' \/ "dropped" \in met'[k]
    BY <1>11 DEF Bury, Meets
  <2>2. Safe(k)'
    BY <2>1 DEF Safe
  <2>3. CASE run[p][k] = "rejected"
    <3>1. GoesOn(p, k, "return") /\ accepted' = accepted
      BY <1>11, <1>c, <2>3 DEF Bury, GoesOn, InHand
    <3> QED BY <2>2, <2>3, <3>1, OnceIdleStays, GoesOnKeeps DEF InHand
  <2>4. CASE run[p][k] = "exhausted"
    <3>1. /\ jobs' = jobs /\ accepted' = accepted
          /\ \A o \in Processes : run'[o][k] = IF o = p THEN "none" ELSE run[o][k]
      BY <1>11, <1>c, <2>4 DEF Bury
    <3>2. jobs[k].state = "failed"
      BY <2>4 DEF KeyInv, RunOK
    <3>3. OnceOK(k)'
      BY <3>1, <3>2, ExcusedStays DEF KeyInv, OnceOK, Held, Has
    <3>4. RunOK(k)'
      BY <2>2, <3>1, <3>2 DEF KeyInv, RunOK, InHand, Has
    <3>5. JobOK(k)' /\ EndOK(k)'
      BY <2>2, <3>1, <3>2 DEF KeyInv, JobOK, EndOK, Live
    <3> QED BY <3>3, <3>4, <3>5 DEF KeyInv
  <2> QED BY <1>11, <2>3, <2>4 DEF Bury
<1> QED BY <1>1, <1>2, <1>3, <1>4, <1>5, <1>6, <1>7, <1>8, <1>9, <1>10, <1>11 DEF Runs

\* An add changes a key that has no job, or nothing.
LEMMA KeyAdded ==
    ASSUME jobs \in [Keys -> Job], NEW k \in Keys, NEW d, NEW q \in Keys, KeyInv(q),
           jobs' = Added(k, d), UNCHANGED <<run, history, accepted, dead>>,
           met[q] \subseteq met'[q], Adding(q)' => Adding(q),
           jobs[k].state = "none" => Adding(k) \/ "revived" \in met'[k]
    PROVE  KeyInv(q)'
<1>1. CASE Added(k, d)[q] = jobs[q]
  <2>1. Same(q)
    BY <1>1 DEF Same
  <2> QED BY <2>1, SameKeeps
<1>2. CASE q = k /\ jobs[k].state = "none" /\ Added(k, d)[q] = NewJob(d)
  <2>1. jobs'[q].state = "wait" /\ jobs'[q].attempts = 0
    BY <1>2, NewJobIs
  <2>2. \A o \in Processes : run'[o][q] = "none"
    BY <1>2 DEF KeyInv, RunOK
  <2>3. JobOK(q)'
    BY <2>1, LimitsOK DEF JobOK
  <2>4. RunOK(q)' /\ EndOK(q)'
    BY <2>1, <2>2 DEF RunOK, EndOK, InHand
  <2>5. accepted[q] = 0 \/ Excused(q)'
    <3>1. CASE accepted[q] = 0 \/ Excused(q)
      BY <3>1, ExcusedStays
    <3>2. CASE Held(q)
      BY <1>2, <3>2 DEF Held, Has, Excused
    <3> QED BY <3>1, <3>2 DEF KeyInv, OnceOK
  <2>6. OnceOK(q)'
    BY <2>5 DEF OnceOK
  <2> QED BY <2>3, <2>4, <2>6 DEF KeyInv
<1> QED BY <1>1, <1>2, AddedAt

LEMMA KeyStall ==
    ASSUME TypeOK, RefsInv, [Next]_vars, NEW k \in Keys, KeyInv(k), Stall(k)
    PROVE  KeyInv(k)'
<1>a. /\ jobs \in [Keys -> Job] /\ run \in [Processes -> [Keys -> Labels]]
      /\ met \in [Keys -> SUBSET Kinds] /\ accepted \in [Keys -> 0 .. 2]
  BY TypeParts DEF Parts
<1>1. jobs[k].state = "active" /\ UNCHANGED <<req, run, accepted, dead>>
  BY DEF Stall
<1>2. /\ jobs'[k].state \in {"wait", "doomed"} \/ (jobs'[k].state = "failed" /\ "unburied" \in met'[k])
      /\ jobs'[k].attempts = jobs[k].attempts
      /\ StallOf(k) \subseteq met'[k]
  <2>1. CASE Requeued(k)
    BY <1>a, <2>1 DEF Requeued, MeetsStall, Job
  <2>2. CASE GivenUp(k)
    BY <1>a, <2>2 DEF GivenUp, MeetsStall, Job
  <2> QED BY <2>1, <2>2 DEF Stall
<1>3. met[k] \subseteq met'[k]
  BY Growth DEF Grown
<1>4. accepted[k] > 0 \/ run[jobs[k].by][k] # "none" => "stalled" \in met'[k]
  BY <1>1, <1>2 DEF StallOf, Orphaned
<1>5. Safe(k) => Safe(k)'
  BY <1>1, <1>3, SafeStays
<1>6. JobOK(k)'
  BY <1>1, <1>2 DEF KeyInv, JobOK, Live
<1>7. RunOK(k)'
  <2>1. \A o \in Processes : run[o][k] \in InHand => "stalled" \in met'[k]
    BY <1>1, <1>3, <1>4 DEF KeyInv, RunOK, Has, InHand
  <2>2. \A o \in Processes : run[o][k] # "exhausted"
    BY <1>1 DEF KeyInv, RunOK
  <2> QED BY <1>1, <1>2, <1>5, <2>1, <2>2 DEF KeyInv, RunOK
<1>8. EndOK(k)'
  BY <1>2 DEF EndOK, Safe
<1>9. OnceOK(k)'
  <2>1. accepted[k] = 0 \/ "stalled" \in met'[k]
    BY <1>a, <1>4
  <2> QED BY <1>1, <2>1 DEF OnceOK, Excused
<1> QED BY <1>6, <1>7, <1>8, <1>9 DEF KeyInv

LEMMA KeyForget ==
    ASSUME TypeOK, RefsInv, [Next]_vars, NEW k \in Keys, KeyInv(k), Forget(k)
    PROVE  KeyInv(k)'
<1>a. jobs \in [Keys -> Job] /\ met \in [Keys -> SUBSET Kinds]
  BY TypeParts DEF Parts
<1>1. /\ jobs[k].state \in {"completed", "failed"} /\ jobs'[k].state = "none"
      /\ \A o \in Processes : run[o][k] = "none"
      /\ ~Adding(k) /\ "forgotten" \in met'[k] /\ met[k] \subseteq met'[k]
      /\ UNCHANGED <<req, history, run, accepted, dead>>
  BY <1>a, NewJobIs DEF Forget, Meets, memory
<1>2. JobOK(k)' /\ RunOK(k)' /\ EndOK(k)'
  BY <1>1 DEF JobOK, RunOK, EndOK, Live, InHand
<1>3. OnceOK(k)'
  <2>1. CASE accepted[k] = 0 \/ Excused(k)
    BY <1>1, <2>1, ExcusedStays DEF OnceOK
  <2>2. CASE accepted[k] = 1 /\ Held(k)
    <3>1. "revived" \in met[k] \/ Known(k)
      BY <1>1, <2>2 DEF Held, Has
    <3>2. CASE "revived" \in met[k]
      BY <1>1, <3>2 DEF OnceOK, Excused
    <3>3. CASE Known(k)
      <4>1. ~Adding(k)' /\ Known(k)'
        BY <1>1, <3>3, AddingSame DEF Known
      <4>2. Held(k)'
        BY <1>1, <4>1 DEF Held
      <4> QED BY <1>1, <2>2, <4>2 DEF OnceOK
    <3> QED BY <3>1, <3>2, <3>3
  <2> QED BY <2>1, <2>2 DEF KeyInv, OnceOK
<1> QED BY <1>2, <1>3 DEF KeyInv

\* A stopped process leaves its jobs to the stalled checker and forgets what it delivered.
LEMMA KeyCrash ==
    ASSUME TypeOK, RefsInv, [Next]_vars, NEW p \in Processes, Crash(p), NEW k \in Keys, KeyInv(k)
    PROVE  KeyInv(k)'
<1>a. /\ run \in [Processes -> [Keys -> Labels]] /\ history \in [Processes -> [Keys -> Mark]]
      /\ accepted \in [Keys -> 0 .. 2] /\ req \in [Deliveries -> ReqRecord]
  BY TypeParts DEF Parts
<1>1. /\ \A o \in Processes : run'[o][k] = IF o = p THEN "none" ELSE run[o][k]
      /\ \A o \in Processes : history'[o][k] = IF o = p THEN "none" ELSE history[o][k]
      /\ UNCHANGED <<jobs, accepted, dead>>
  BY <1>a DEF Crash
<1>2. /\ met[k] \subseteq met'[k]
      /\ run[p][k] = "exhausted" => "dropped" \in met'[k]
      /\ accepted[k] > 0 /\ history[p][k] = "delivered" => "revived" \in met'[k]
  BY DEF Crash, IsDuplicate
<1>3. Safe(k) => Safe(k)'
  BY <1>1, <1>2, SafeStays
<1>4. \A o \in Processes : Has(o, k)' <=> Has(o, k)
  BY <1>1 DEF Has
<1>5. JobOK(k)'
  BY <1>1 DEF KeyInv, JobOK
<1>6. RunOK(k)'
  BY <1>1, <1>2, <1>3, <1>4 DEF KeyInv, RunOK, InHand
<1>7. EndOK(k)'
  BY <1>1, <1>2, <1>3 DEF KeyInv, EndOK, Safe
<1>8. OnceOK(k)'
  <2>1. CASE accepted[k] = 0 \/ Excused(k)
    BY <1>1, <1>2, <2>1, ExcusedStays DEF OnceOK
  <2>2. CASE accepted[k] = 1 /\ Held(k) /\ ~Excused(k)
    <3>1. Known(k) => Known(k)' \/ "revived" \in met'[k]
      BY <1>1, <1>2, <2>2 DEF Known
    <3>2. CASE \E o \in Processes :
                  /\ Has(o, k)
                  /\ \/ run[o][k] \in {"accepted", "none"}
                     \/ run[o][k] = "return" /\ history[o][k] = "delivered"
      <4>1. PICK o \in Processes :
                  /\ Has(o, k)
                  /\ \/ run[o][k] \in {"accepted", "none"}
                     \/ run[o][k] = "return" /\ history[o][k] = "delivered"
        BY <3>2
      <4>2. /\ Has(o, k)'
            /\ \/ run'[o][k] \in {"accepted", "none"}
               \/ run'[o][k] = "return" /\ history'[o][k] = "delivered"
        BY <1>1, <1>4, <4>1
      <4>3. Held(k)'
        BY <4>2 DEF Held
      <4> QED BY <1>1, <2>2, <4>3 DEF OnceOK
    <3>3. CASE jobs[k].state = "completed" /\ ("revived" \in met[k] \/ Known(k))
      <4>1. Held(k)'
        BY <1>1, <1>2, <3>1, <3>3 DEF Held
      <4> QED BY <1>1, <2>2, <4>1 DEF OnceOK
    <3>4. CASE jobs[k].state = "none" /\ "forgotten" \in met[k] /\ Known(k) /\ ~Adding(k)
      <4>1. Excused(k)' \/ Known(k)'
        BY <1>2, <3>1, <3>4 DEF Excused
      <4>2. ~Adding(k)'
        <5>1. ASSUME NEW d \in Deliveries, req'[d].pc = "adding" PROVE req'[d] = req[d]
          BY <1>a, <5>1 DEF Crash, ReqRecord
        <5> QED BY <3>4, <5>1 DEF Adding, KeyOf
      <4>3. Known(k)' => Held(k)'
        BY <1>1, <1>2, <3>4, <4>2 DEF Held
      <4> QED BY <1>1, <2>2, <4>1, <4>3 DEF OnceOK
    <3> QED BY <2>2, <3>2, <3>3, <3>4 DEF Held
  <2> QED BY <2>1, <2>2 DEF KeyInv, OnceOK
<1> QED BY <1>5, <1>6, <1>7, <1>8 DEF KeyInv


\* A step of a process in memory, or of the log, is seen by no key.
LEMMA KeyQuiet ==
    ASSUME NEW q \in Keys, KeyInv(q),
           UNCHANGED <<jobs, run, history, accepted, dead>>,
           met[q] \subseteq met'[q], Adding(q)' => Adding(q)
    PROVE  KeyInv(q)'
BY SameKeeps DEF Same

\* What a request or a re-trigger of key k by process p does: mark it pending and set about
\* adding it.
LEMMA KeyMarked ==
    ASSUME history \in [Processes -> [Keys -> Mark]], accepted \in [Keys -> 0 .. 2],
           NEW p \in Processes, NEW k \in Keys, NEW q \in Keys, KeyInv(q),
           UNCHANGED <<jobs, run, accepted, dead>>, Marks(p, k, "pending"),
           met[q] \subseteq met'[q], Adding(q)' => Adding(q) \/ q = k,
           history[p][k] # "delivered",
           accepted[k] > 0 /\ Known(k) => "elsewhere" \in met'[k]
    PROVE  KeyInv(q)'
<1>1. \A o \in Processes : history[o][q] = "delivered" => history'[o][q] = "delivered"
  BY MarksType, Members
<1>2. CASE Adding(q)' => Adding(q)
  <2>1. Same(q)
    BY <1>1, <1>2 DEF Same
  <2> QED BY <2>1, SameKeeps
<1>3. CASE q = k
  <2>1. Safe(q) => Safe(q)'
    BY SafeStays
  <2>2. \A o \in Processes : Has(o, q)' <=> Has(o, q)
    BY DEF Has
  <2>3. JobOK(q)' /\ RunOK(q)' /\ EndOK(q)'
    BY <2>1, <2>2 DEF KeyInv, JobOK, RunOK, EndOK
  <2>4. OnceOK(q)'
    <3>1. CASE accepted[q] = 0 \/ Excused(q)
      BY <3>1, ExcusedStays DEF OnceOK
    <3>2. CASE accepted[q] = 1 /\ Held(q)
      <4>1. Known(q) => Known(q)'
        BY <1>1 DEF Known
      <4>2. CASE Known(q) /\ "forgotten" \in met[q]
        BY <1>3, <3>2, <4>2 DEF OnceOK, Excused
      <4>3. CASE ~(Known(q) /\ "forgotten" \in met[q])
        <5>1. Held(q)'
          BY <1>1, <2>2, <3>2, <4>1, <4>3 DEF Held
        <5> QED BY <3>2, <5>1 DEF OnceOK
      <4> QED BY <4>2, <4>3
    <3> QED BY <3>1, <3>2 DEF KeyInv, OnceOK
  <2> QED BY <2>3, <2>4 DEF KeyInv
<1> QED BY <1>2, <1>3

\* Every step keeps the invariant's part for every key.
LEMMA KeyStep ==
    TypeOK /\ RefsInv /\ (\A k \in Keys : KeyInv(k)) /\ [Next]_vars => \A k \in Keys : KeyInv(k)'
<1> SUFFICES ASSUME TypeOK, RefsInv, \A k \in Keys : KeyInv(k), [Next]_vars, NEW q \in Keys
             PROVE  KeyInv(q)'
  OBVIOUS
<1>a. /\ req \in [Deliveries -> ReqRecord] /\ jobs \in [Keys -> Job]
      /\ history \in [Processes -> [Keys -> Mark]] /\ accepted \in [Keys -> 0 .. 2]
      /\ met \in [Keys -> SUBSET Kinds]
  BY TypeParts DEF Parts
<1>b. met[q] \subseteq met'[q]
  BY Growth DEF Grown
<1>c. KeyInv(q)
  OBVIOUS
<1>1. ASSUME NEW p \in Processes, NEW t \in Targets, NEW d \in Deliveries, Request(p, t, d)
      PROVE  KeyInv(q)'
  <2>1. \A k \in Keys : Adding(k)' => Adding(k) \/ k = t
    BY <1>a, <1>1, NobodyOK DEF Request, Adding, KeyOf
  <2>2. t \in Keys /\ history[p][t] # "delivered"
    BY <1>1, KeysIn DEF Request, IsDuplicate
  <2>3. accepted[t] > 0 /\ Known(t) => "elsewhere" \in met'[t]
    BY <1>a, <1>1, <2>2 DEF Request, Known, IsDuplicate, Meets
  <2>4. UNCHANGED <<jobs, run, accepted, dead>> /\ Marks(p, t, "pending")
    BY <1>1 DEF Request, queues
  <2> QED BY <1>a, <1>b, <1>c, <2>1, <2>2, <2>3, <2>4, KeyMarked
<1>2. ASSUME NEW d \in Deliveries, AddArrives(d) PROVE KeyInv(q)'
  <2>1. Adding(q)' => Adding(q)
    BY <1>a, <1>2 DEF AddArrives, Ended, Adding, KeyOf, ReqRecord
  <2>2. KeyOf(d) \in Keys /\ Adding(KeyOf(d))
    BY <1>2, KeyOfType DEF AddArrives, Used, Adding
  <2>3. jobs' = Added(KeyOf(d), d) /\ UNCHANGED <<run, history, accepted, dead>>
    BY <1>2 DEF AddArrives, memory
  <2> QED BY <1>a, <1>b, <1>c, <2>1, <2>2, <2>3, KeyAdded
<1>3. ASSUME NEW d \in Deliveries, AddFails(d) \/ Retriggered(d) PROVE KeyInv(q)'
  <2>1. req' = Ended(d, "refused") \/ req' = Ended(d, "queued")
    BY <1>3 DEF AddFails, Retriggered
  <2>2. Adding(q)' => Adding(q)
    BY <1>a, <2>1 DEF Ended, Adding, KeyOf, ReqRecord
  <2>3. UNCHANGED <<jobs, run, history, accepted, dead>>
    BY <1>3 DEF AddFails, Retriggered, memory, queues
  <2> QED BY <1>b, <1>c, <2>2, <2>3, KeyQuiet
<1>4. ASSUME NEW p \in Processes, NEW d \in Deliveries, Replay(p, d) PROVE KeyInv(q)'
  <2>1. UNCHANGED <<req, jobs, run, history, accepted, dead>>
    BY <1>4 DEF Replay, memory, queues
  <2> QED BY <1>b, <1>c, <2>1, AddingSame, KeyQuiet
<1>5. ASSUME NEW p \in Processes, NEW d \in Deliveries, Replayed(p, d) PROVE KeyInv(q)'
  <2>1. UNCHANGED <<req, run, history, accepted, dead>>
    BY <1>5 DEF Replayed
  <2>2. KeyOf(d) \in Keys
    BY <1>5, KeyOfType DEF Replayed, RefsInv
  <2>3. jobs' = jobs \/ (jobs' = Added(KeyOf(d), d) /\ Meets(KeyOf(d), "revived"))
    BY <1>5 DEF Replayed
  <2>4. CASE jobs' = jobs
    BY <1>b, <1>c, <2>1, <2>4, AddingSame, KeyQuiet
  <2>5. CASE jobs' = Added(KeyOf(d), d) /\ "revived" \in met'[KeyOf(d)]
    BY <1>a, <1>b, <1>c, <2>1, <2>2, <2>5, AddingSame, KeyAdded
  <2> QED BY <1>a, <2>2, <2>3, <2>4, <2>5 DEF Meets
<1>6. ASSUME NEW p \in Processes, NEW d0 \in Deliveries, NEW d \in Deliveries, Retrigger(p, d0, d)
      PROVE  KeyInv(q)'
  <2>1. accepted[d] = 0 /\ req[d].from = Nobody /\ d \in Keys
    BY <1>6, KeysIn DEF Retrigger, Fresh, RefsInv, Used
  <2>2. \A k \in Keys : Adding(k)' => Adding(k) \/ k = d
    BY <1>a, <1>6, NobodyOK DEF Retrigger, Adding, KeyOf
  <2>3. UNCHANGED <<jobs, run, accepted, dead>> /\ Marks(p, d, "pending")
    BY <1>6 DEF Retrigger, queues
  <2>4. CASE q # d
    <3>1. Adding(q)' => Adding(q)
      BY <2>2, <2>4
    <3>2. \A o \in Processes : history'[o][q] = history[o][q]
      BY <1>a, <2>1, <2>3, <2>4, MarksType, Members
    <3>3. Same(q)
      BY <1>b, <2>3, <3>1, <3>2 DEF Same
    <3> QED BY <1>c, <3>3, SameKeeps
  <2>5. CASE q = d
    <3>1. Safe(q) => Safe(q)'
      BY <1>b, <2>3, SafeStays
    <3>2. \A o \in Processes : Has(o, q)' <=> Has(o, q)
      BY <2>3 DEF Has
    <3>3. JobOK(q)' /\ RunOK(q)' /\ EndOK(q)'
      BY <1>b, <1>c, <2>3, <3>1, <3>2 DEF KeyInv, JobOK, RunOK, EndOK
    <3>4. OnceOK(q)'
      BY <2>1, <2>3, <2>5 DEF OnceOK
    <3> QED BY <3>3, <3>4 DEF KeyInv
  <2> QED BY <2>4, <2>5
<1>7. ASSUME NEW k \in Keys,
             (\E p \in Workers : Runs(p, k)) \/ Due(k) \/ Stall(k) \/ Forget(k)
      PROVE  KeyInv(q)'
  <2>1. CASE q # k
    BY <1>7, <1>c, <2>1, OthersSame, SameKeeps
  <2>2. CASE q = k
    <3>1. ASSUME NEW p \in Workers, Runs(p, k) PROVE KeyInv(k)'
      BY <3>1, KeyRuns
    <3>2. ASSUME Due(k) PROVE KeyInv(k)'
      <4>1. /\ jobs[k].state = "delayed" /\ jobs'[k].state = "wait"
            /\ jobs'[k].attempts = jobs[k].attempts
            /\ UNCHANGED <<req, run, history, accepted, dead>>
        BY <1>a, <3>2 DEF Due, memory, Job
      <4>2. KeyInv(k) /\ met[k] \subseteq met'[k]
        BY <1>b, <2>2
      <4>3. Safe(k) => Safe(k)'
        BY <4>1, <4>2, SafeStays
      <4>4. JobOK(k)' /\ EndOK(k)'
        BY <4>1, <4>2 DEF KeyInv, JobOK, EndOK, Live
      <4>5. RunOK(k)'
        BY <4>1, <4>2, <4>3 DEF KeyInv, RunOK, InHand, Has
      <4>6. accepted[k] = 0 \/ Excused(k)
        BY <4>1, <4>2 DEF KeyInv, OnceOK, Held, Has
      <4>7. OnceOK(k)'
        BY <4>1, <4>2, <4>6, ExcusedStays DEF OnceOK
      <4> QED BY <4>4, <4>5, <4>7 DEF KeyInv
    <3>3. Stall(k) => KeyInv(k)'
      BY KeyStall
    <3>4. Forget(k) => KeyInv(k)'
      BY KeyForget
    <3> QED BY <1>7, <2>2, <3>1, <3>2, <3>3, <3>4
  <2> QED BY <2>1, <2>2
<1>8. ASSUME NEW p \in Processes, NEW e \in Endpoints, CoolsDown(p, e) \/ Resume(p, e)
      PROVE  KeyInv(q)'
  <2>1. UNCHANGED <<req, jobs, run, history, accepted, dead>>
    BY <1>8 DEF CoolsDown, Resume, queues
  <2> QED BY <1>b, <1>c, <2>1, AddingSame, KeyQuiet
<1>9. ASSUME NEW p \in Processes, Purge(p) PROVE KeyInv(q)'
  <2>1. UNCHANGED <<req, jobs, run, history, accepted, dead>>
    BY <1>9 DEF Purge, queues
  <2> QED BY <1>b, <1>c, <2>1, AddingSame, KeyQuiet
<1>10. ASSUME NEW p \in Processes, Crash(p) PROVE KeyInv(q)'
  BY <1>10, <1>c, KeyCrash
<1>11. CASE UNCHANGED vars
  <2>1. UNCHANGED <<req, jobs, run, history, accepted, dead>>
    BY <1>11 DEF vars, memory, queues
  <2> QED BY <1>b, <1>c, <2>1, AddingSame, KeyQuiet
<1> QED BY <1>1, <1>2, <1>3, <1>4, <1>5, <1>6, <1>7, <1>8, <1>9, <1>10, <1>11 DEF Next

-----------------------------------------------------------------------------
\* A new delivery is on its way to BullMQ.
LEMMA NewIsAdding ==
    ASSUME TypeOK, RefsInv, [Next]_vars, NEW d \in Deliveries, ~Used(d), Used(d)'
    PROVE  req'[d].pc = "adding"
<1> USE DEF Used, memory, queues
<1>0. req \in [Deliveries -> ReqRecord]
  BY TypeParts DEF Parts
<1>1. ASSUME NEW p \in Processes, NEW t \in Targets, NEW e \in Deliveries, Request(p, t, e)
      PROVE  req'[d].pc = "adding"
  BY <1>0, <1>1 DEF Request
<1>2. ASSUME NEW e \in Deliveries, AddArrives(e) \/ AddFails(e) \/ Retriggered(e) PROVE FALSE
  <2>1. Used(e) /\ (req' = Ended(e, "refused") \/ req' = Ended(e, "queued")
                      \/ req' = [req EXCEPT ![e].pc = "added"])
    BY <1>2 DEF AddArrives, AddFails, Retriggered
  <2>2. req'[d] = req[d]
    BY <1>0, <2>1 DEF Ended
  <2> QED BY <2>2
<1>3. ASSUME NEW p \in Processes, NEW e \in Deliveries, Replay(p, e) \/ Replayed(p, e) PROVE FALSE
  BY <1>3 DEF Replay, Replayed
<1>4. ASSUME NEW p \in Processes, NEW d0 \in Deliveries, NEW e \in Deliveries, Retrigger(p, d0, e)
      PROVE  req'[d].pc = "adding"
  BY <1>0, <1>4 DEF Retrigger
<1>5. ASSUME NEW k \in Keys,
             (\E p \in Workers : Runs(p, k)) \/ Due(k) \/ Stall(k) \/ Forget(k)
      PROVE  FALSE
  <2>1. ASSUME NEW p \in Workers, Runs(p, k) PROVE req' = req
    BY <2>1 DEF Runs, Begin, Accept, Delivered, AnswerLost, ServerError, ClientAnswer, Complete,
            Fail, FailsJob, FailInVain, Bury, FailDoomed
  <2>2. req' = req
    BY <1>5, <2>1 DEF Due, Stall, Forget
  <2> QED BY <2>2
<1>6. ASSUME NEW p \in Processes, NEW e \in Endpoints, CoolsDown(p, e) \/ Resume(p, e) PROVE FALSE
  BY <1>6 DEF CoolsDown, Resume
<1>7. ASSUME NEW p \in Processes, Purge(p) PROVE FALSE
  BY <1>7 DEF Purge
<1>8. ASSUME NEW p \in Processes, Crash(p) PROVE FALSE
  <2>1. req[d].at # p
    BY NobodyOK DEF RefsInv
  <2> QED BY <1>0, <1>8, <2>1 DEF Crash
<1>9. ~UNCHANGED vars
  BY DEF vars
<1> QED BY <1>1, <1>2, <1>3, <1>4, <1>5, <1>6, <1>7, <1>8, <1>9 DEF Next

\* An add under way stays so unless its own delivery takes a step.
LEMMA AddingStays ==
    ASSUME NEW k, Adding(k),
           \A e \in Deliveries : req[e].pc = "adding" /\ KeyOf(e) = k => req'[e] = req[e]
    PROVE  Adding(k)'
BY DEF Adding, KeyOf

\* An add that is over leaves a job or an account of what befell it, and a job one of its end.
LEMMA AccountedStays ==
    ASSUME TypeOK, RefsInv, \A q \in Keys : KeyInv(q), [Next]_vars, NEW k \in Keys, Accounted(k)
    PROVE  Accounted(k)'
<1>a. /\ req \in [Deliveries -> ReqRecord] /\ jobs \in [Keys -> Job]
      /\ met \in [Keys -> SUBSET Kinds] /\ accepted \in [Keys -> 0 .. 2]
  BY TypeParts DEF Parts
<1>b. Safe(k) => Safe(k)'
  BY Growth, SafeStays DEF Grown
<1> USE <1>a DEF Accounted, memory, queues
<1>1. ASSUME req' = req, jobs'[k].state # "none" \/ jobs[k].state = "none" PROVE Accounted(k)'
  BY <1>1, <1>b, AddingSame
<1>2. ASSUME jobs[k].state # "none" => jobs'[k].state # "none",
             \A e \in Deliveries : req[e].pc = "adding" => req'[e] = req[e]
      PROVE  Accounted(k)'
  BY <1>2, <1>b, AddingStays
<1>3. ASSUME NEW p \in Processes, NEW t \in Targets, NEW d \in Deliveries, Request(p, t, d)
      PROVE  Accounted(k)'
  BY <1>2, <1>3 DEF Request, Fresh
<1>4. ASSUME NEW d \in Deliveries, AddArrives(d) PROVE Accounted(k)'
  <2>1. jobs' = Added(KeyOf(d), d) /\ KeyOf(d) \in Keys
    BY <1>4, KeyOfType DEF AddArrives, Used
  <2>2. jobs[k].state # "none" \/ k = KeyOf(d) => jobs'[k].state # "none"
    BY <2>1, NewJobIs DEF Added
  <2>3. k # KeyOf(d) /\ Adding(k) => Adding(k)'
    <3>1. \A e \in Deliveries : e # d => req'[e] = req[e]
      BY <1>4 DEF AddArrives, Ended
    <3> QED BY <3>1, AddingStays
  <2> QED BY <1>b, <2>2, <2>3
<1>5. ASSUME NEW d \in Deliveries, AddFails(d) PROVE Accounted(k)'
  <2>1. jobs' = jobs
    BY <1>5 DEF AddFails
  <2>2. k = KeyOf(d) => Safe(k)'
    BY <1>5 DEF AddFails, Meets, Safe
  <2>3. k # KeyOf(d) /\ Adding(k) => Adding(k)'
    <3>1. \A e \in Deliveries : e # d => req'[e] = req[e]
      BY <1>5 DEF AddFails, Ended
    <3> QED BY <3>1, AddingStays
  <2> QED BY <1>b, <2>1, <2>2, <2>3
<1>6. ASSUME NEW d \in Deliveries, Retriggered(d) PROVE Accounted(k)'
  BY <1>2, <1>6 DEF Retriggered, Ended
<1>7. ASSUME NEW p \in Processes, NEW d \in Deliveries, Replay(p, d) PROVE Accounted(k)'
  BY <1>1, <1>7 DEF Replay
<1>8. ASSUME NEW p \in Processes, NEW d \in Deliveries, Replayed(p, d) PROVE Accounted(k)'
  <2>1. KeyOf(d) \in Keys /\ req' = req /\ (jobs' = Added(KeyOf(d), d) \/ jobs' = jobs)
    BY <1>8, KeyOfType DEF Replayed, RefsInv
  <2>2. jobs'[k].state # "none" \/ jobs[k].state = "none"
    BY <2>1, NewJobIs DEF Added
  <2> QED BY <1>1, <2>1, <2>2
<1>9. ASSUME NEW p \in Processes, NEW d0 \in Deliveries, NEW d \in Deliveries, Retrigger(p, d0, d)
      PROVE  Accounted(k)'
  BY <1>2, <1>9 DEF Retrigger, Fresh
<1>10. ASSUME NEW q \in Keys,
              (\E p \in Workers : Runs(p, q)) \/ Due(q) \/ Stall(q)
       PROVE  Accounted(k)'
  <2>1. ASSUME NEW p \in Workers, Runs(p, q)
        PROVE  req' = req /\ (jobs'[k].state # "none" \/ jobs[k].state = "none")
    <3>1. ASSUME NEW exhausted, FailsJob(p, q, exhausted)
          PROVE  req' = req /\ (jobs'[k].state # "none" \/ jobs[k].state = "none")
      BY <3>1 DEF FailsJob, Failed, Job
    <3>2. Fail(p, q) \/ FailDoomed(p, q) => \E exhausted : FailsJob(p, q, exhausted)
      BY DEF Fail, FailDoomed
    <3>3. ~Fail(p, q) /\ ~FailDoomed(p, q)
            => req' = req /\ (jobs'[k].state # "none" \/ jobs[k].state = "none")
      BY <2>1 DEF Runs, Begin, Accept, Delivered, AnswerLost, ServerError, ClientAnswer, Complete,
              FailInVain, Bury, Job
    <3> QED BY <3>1, <3>2, <3>3
  <2>2. Due(q) => req' = req /\ (jobs'[k].state # "none" \/ jobs[k].state = "none")
    BY DEF Due, Job
  <2>3. Stall(q) => req' = req /\ (jobs'[k].state # "none" \/ jobs[k].state = "none")
    BY DEF Stall, Requeued, GivenUp, Job
  <2> QED BY <1>1, <1>10, <2>1, <2>2, <2>3
<1>11. ASSUME NEW q \in Keys, Forget(q) PROVE Accounted(k)'
  <2>1. req' = req /\ (k # q => jobs'[k] = jobs[k])
    BY <1>11 DEF Forget
  <2>2. k = q => Safe(k)
    BY <1>11 DEF Forget, KeyInv, EndOK
  <2> QED BY <1>1, <1>b, <2>1, <2>2
<1>12. ASSUME NEW p \in Processes, NEW e \in Endpoints, CoolsDown(p, e) \/ Resume(p, e)
       PROVE  Accounted(k)'
  BY <1>1, <1>12 DEF CoolsDown, Resume
<1>13. ASSUME NEW p \in Processes, Purge(p) PROVE Accounted(k)'
  BY <1>1, <1>13 DEF Purge
<1>14. ASSUME NEW p \in Processes, Crash(p) PROVE Accounted(k)'
  <2>1. CASE \E d \in Deliveries : req[d].pc = "adding" /\ req[d].at = p /\ KeyOf(d) = k
    BY <1>14, <2>1 DEF Crash, Safe
  <2>2. CASE ~\E d \in Deliveries : req[d].pc = "adding" /\ req[d].at = p /\ KeyOf(d) = k
    <3>1. Adding(k) => Adding(k)'
      BY <1>14, <2>2, AddingStays DEF Crash
    <3> QED BY <1>14, <1>b, <3>1 DEF Crash
  <2> QED BY <2>1, <2>2
<1>15. CASE UNCHANGED vars
  BY <1>1, <1>15 DEF vars
<1> QED BY <1>3, <1>4, <1>5, <1>6, <1>7, <1>8, <1>9, <1>10, <1>11, <1>12, <1>13, <1>14, <1>15 DEF Next

\* What was taken in is on its way to BullMQ, has a job, or is accounted for.
LEMMA SafeStep ==
    TypeOK /\ RefsInv /\ (\A k \in Keys : KeyInv(k)) /\ SafeInv /\ [Next]_vars => SafeInv'
<1> SUFFICES ASSUME TypeOK, RefsInv, \A k \in Keys : KeyInv(k), SafeInv, [Next]_vars,
                    NEW d \in Deliveries, Used(d)'
             PROVE  Accounted(KeyOf(d))'
  BY DEF SafeInv
<1>1. CASE ~Used(d)
  BY <1>1, NewIsAdding DEF Accounted, Adding
<1>2. CASE Used(d)
  <2> DEFINE k == KeyOf(d)
  <2>1. k \in Keys /\ KeyOf(d)' = k /\ Accounted(k)
    BY <1>2, KeyOfType, Growth DEF Grown, KeyOf, SafeInv
  <2>2. Accounted(k) => Accounted(k)'
    BY <2>1, AccountedStays
  <2> QED BY <2>1, <2>2 DEF Accounted, Adding, Safe
<1> QED BY <1>1, <1>2

-----------------------------------------------------------------------------
\* A job stays until BullMQ forgets it.
LEMMA JobsStay ==
    ASSUME TypeOK, RefsInv, [Next]_vars, NEW k \in Keys, HasJob(k)
    PROVE  HasJob(k)'
<1>a. jobs \in [Keys -> Job] /\ met \in [Keys -> SUBSET Kinds] /\ met[k] \subseteq met'[k]
  BY TypeParts, Growth DEF Parts, Grown
<1> USE <1>a DEF HasJob, memory, queues
<1>1. ASSUME jobs'[k].state # "none" \/ jobs[k].state = "none" PROVE HasJob(k)'
  BY <1>1
<1>2. ASSUME NEW p \in Processes, NEW t \in Targets, NEW d \in Deliveries, Request(p, t, d)
      PROVE  HasJob(k)'
  BY <1>2 DEF Request
<1>3. ASSUME NEW d \in Deliveries, AddArrives(d) \/ AddFails(d) \/ Retriggered(d)
      PROVE  HasJob(k)'
  <2>1. jobs' = jobs \/ (jobs' = Added(KeyOf(d), d) /\ KeyOf(d) \in Keys)
    BY <1>3, KeyOfType DEF AddArrives, AddFails, Retriggered, Used
  <2> QED BY <1>1, <2>1, NewJobIs DEF Added
<1>4. ASSUME NEW p \in Processes, NEW d \in Deliveries, Replay(p, d) \/ Replayed(p, d)
      PROVE  HasJob(k)'
  <2>1. jobs' = jobs \/ (jobs' = Added(KeyOf(d), d) /\ KeyOf(d) \in Keys)
    BY <1>4, KeyOfType DEF Replay, Replayed, RefsInv
  <2> QED BY <1>1, <2>1, NewJobIs DEF Added
<1>5. ASSUME NEW p \in Processes, NEW d0 \in Deliveries, NEW d \in Deliveries, Retrigger(p, d0, d)
      PROVE  HasJob(k)'
  BY <1>5 DEF Retrigger
<1>6. ASSUME NEW q \in Keys, NEW p \in Workers, Runs(p, q) PROVE HasJob(k)'
  <2>1. ASSUME NEW exhausted, FailsJob(p, q, exhausted) PROVE HasJob(k)'
    BY <2>1 DEF FailsJob, Failed, Job
  <2>2. Fail(p, q) \/ FailDoomed(p, q) => \E exhausted : FailsJob(p, q, exhausted)
    BY DEF Fail, FailDoomed
  <2>3. ~Fail(p, q) /\ ~FailDoomed(p, q) => jobs'[k].state # "none" \/ jobs[k].state = "none"
    BY <1>6 DEF Runs, Begin, Accept, Delivered, AnswerLost, ServerError, ClientAnswer, Complete,
            FailInVain, Bury, Job
  <2> QED BY <1>1, <2>1, <2>2, <2>3
<1>7. ASSUME NEW q \in Keys, Due(q) \/ Stall(q) PROVE HasJob(k)'
  <2>1. jobs'[k].state # "none" \/ jobs[k].state = "none"
    BY <1>7 DEF Due, Stall, Requeued, GivenUp, Job
  <2> QED BY <1>1, <2>1
<1>8. ASSUME NEW q \in Keys, Forget(q) PROVE HasJob(k)'
  BY <1>8 DEF Forget, Meets
<1>9. ASSUME NEW p \in Processes, NEW e \in Endpoints, CoolsDown(p, e) \/ Resume(p, e)
      PROVE  HasJob(k)'
  BY <1>9 DEF CoolsDown, Resume
<1>10. ASSUME NEW p \in Processes, Purge(p) \/ Crash(p) PROVE HasJob(k)'
  BY <1>10 DEF Purge, Crash
<1>11. CASE UNCHANGED vars
  BY <1>11 DEF vars
<1> QED BY <1>2, <1>3, <1>4, <1>5, <1>6, <1>7, <1>8, <1>9, <1>10, <1>11 DEF Next

\* The log gains no "retriggered" and no re-trigger has just become a job.
LEMMA QueuedQuiet ==
    ASSUME TypeOK, RefsInv, QueuedInv, [Next]_vars,
           \A d \in Deliveries : req'[d].pc = "added" => req[d].pc = "added",
           \A p \in Processes, d \in Deliveries : log'[p][d] = "retriggered" => log[p][d] = "retriggered"
    PROVE  QueuedInv'
<1>1. \A d \in Deliveries : HasJob(d) => HasJob(d)'
  BY JobsStay, KeysIn
<1>2. \A d \in Deliveries : req[d].from # Nobody => req'[d].from = req[d].from
  <2>1. \A d \in Deliveries : req[d].from # Nobody => Used(d)
    BY DEF RefsInv
  <2> QED BY <2>1, Growth DEF Grown
<1>3. RetriggerIsQueued'
  <2> SUFFICES ASSUME NEW p \in Processes, NEW d0 \in Deliveries, log'[p][d0] = "retriggered"
               PROVE  \E d \in Deliveries : req'[d].from = d0 /\ HasJob(d)'
    BY DEF RetriggerIsQueued, HasJob
  <2>1. PICK d \in Deliveries : req[d].from = d0 /\ HasJob(d)
    BY DEF QueuedInv, RetriggerIsQueued, HasJob
  <2> QED BY <1>1, <1>2, <2>1, NobodyOK
<1>4. \A d \in Deliveries : req'[d].pc = "added" => req'[d].from # Nobody /\ HasJob(d)'
  BY <1>1, <1>2 DEF QueuedInv
<1> QED BY <1>3, <1>4 DEF QueuedInv

\* A delivery that was marked re-triggered has a successor with a job.
LEMMA QueuedStep == TypeOK /\ RefsInv /\ QueuedInv /\ [Next]_vars => QueuedInv'
<1> SUFFICES ASSUME TypeOK, RefsInv, QueuedInv, [Next]_vars PROVE QueuedInv'
  OBVIOUS
<1>a. /\ req \in [Deliveries -> ReqRecord] /\ log \in [Processes -> [Deliveries -> Entry]]
      /\ jobs \in [Keys -> Job]
  BY TypeParts DEF Parts
<1>b. \A d \in Deliveries : HasJob(d) => HasJob(d)'
  BY JobsStay, KeysIn
<1>c. \A d \in Deliveries : req[d].from # Nobody => req'[d].from = req[d].from
  <2>1. \A d \in Deliveries : req[d].from # Nobody => Used(d)
    BY DEF RefsInv
  <2> QED BY <2>1, Growth DEF Grown
<1>d. ASSUME log' = log, \A d \in Deliveries : req'[d].pc = "added" => req[d].pc = "added"
      PROVE  QueuedInv'
  BY <1>d, QueuedQuiet
<1> USE <1>a DEF memory, queues
<1>1. ASSUME NEW p \in Processes, NEW t \in Targets, NEW d \in Deliveries, Request(p, t, d)
      PROVE  QueuedInv'
  BY <1>1, <1>d DEF Request
<1>2. ASSUME NEW d \in Deliveries, AddArrives(d) PROVE QueuedInv'
  <2>1. CASE req[d].from = Nobody
    <3>1. \A e \in Deliveries : req'[e].pc = "added" => req[e].pc = "added"
      BY <1>2, <2>1 DEF AddArrives, Ended, ReqRecord
    <3> QED BY <1>2, <1>d, <3>1 DEF AddArrives
  <2>2. CASE req[d].from # Nobody
    <3>1. KeyOf(d) = d /\ d \in Keys /\ jobs' = Added(KeyOf(d), d)
      BY <1>2, <2>2, KeysIn DEF AddArrives, KeyOf
    <3>2. HasJob(d)'
      BY <3>1, NewJobIs DEF Added, HasJob
    <3>3. \A e \in Deliveries : req'[e].from = req[e].from /\ (e # d => req'[e] = req[e])
      BY <1>2, <2>2 DEF AddArrives
    <3>4. \A e \in Deliveries : req'[e].pc = "added" => req'[e].from # Nobody /\ HasJob(e)'
      BY <1>b, <2>2, <3>2, <3>3 DEF QueuedInv
    <3>5. log' = log
      BY <1>2 DEF AddArrives
    <3>6. RetriggerIsQueued'
      <4> SUFFICES ASSUME NEW p \in Processes, NEW d0 \in Deliveries, log'[p][d0] = "retriggered"
                   PROVE  \E e \in Deliveries : req'[e].from = d0 /\ HasJob(e)'
        BY DEF RetriggerIsQueued, HasJob
      <4>1. PICK e \in Deliveries : req[e].from = d0 /\ HasJob(e)
        BY <3>5 DEF QueuedInv, RetriggerIsQueued, HasJob
      <4> QED BY <1>b, <3>3, <4>1
    <3> QED BY <3>4, <3>6 DEF QueuedInv
  <2> QED BY <2>1, <2>2
<1>3. ASSUME NEW d \in Deliveries, AddFails(d) PROVE QueuedInv'
  <2>1. \A e \in Deliveries : req'[e].pc = "added" => req[e].pc = "added"
    BY <1>3 DEF AddFails, Ended, ReqRecord
  <2> QED BY <1>3, <1>d, <2>1 DEF AddFails
<1>4. ASSUME NEW d \in Deliveries, Retriggered(d) PROVE QueuedInv'
  <2>1. HasJob(d)' /\ req[d].from \in Deliveries
    BY <1>4, <1>b DEF Retriggered, QueuedInv, ReqRecord
  <2>2. \A e \in Deliveries : /\ req'[e].from = req[e].from
                              /\ req'[e].pc = "added" => req[e].pc = "added"
    BY <1>4 DEF Retriggered, Ended, ReqRecord
  <2>3. \A o \in Processes, e \in Deliveries :
            log'[o][e] = "retriggered" => log[o][e] = "retriggered" \/ e = req[d].from
    BY <1>4, <2>1 DEF Retriggered
  <2>4. \A e \in Deliveries : req'[e].pc = "added" => req'[e].from # Nobody /\ HasJob(e)'
    BY <1>b, <2>2 DEF QueuedInv
  <2>5. RetriggerIsQueued'
    <3> SUFFICES ASSUME NEW p \in Processes, NEW d0 \in Deliveries, log'[p][d0] = "retriggered"
                 PROVE  \E e \in Deliveries : req'[e].from = d0 /\ HasJob(e)'
      BY DEF RetriggerIsQueued, HasJob
    <3>1. CASE d0 = req[d].from
      BY <2>1, <2>2, <3>1
    <3>2. CASE log[p][d0] = "retriggered"
      <4>1. PICK e \in Deliveries : req[e].from = d0 /\ HasJob(e)
        BY <3>2 DEF QueuedInv, RetriggerIsQueued, HasJob
      <4> QED BY <1>b, <2>2, <4>1
    <3> QED BY <2>3, <3>1, <3>2
  <2> QED BY <2>4, <2>5 DEF QueuedInv
<1>5. ASSUME NEW p \in Processes, NEW d \in Deliveries, Replay(p, d) \/ Replayed(p, d)
      PROVE  QueuedInv'
  BY <1>5, <1>d DEF Replay, Replayed
<1>6. ASSUME NEW p \in Processes, NEW d0 \in Deliveries, NEW d \in Deliveries, Retrigger(p, d0, d)
      PROVE  QueuedInv'
  BY <1>6, <1>d DEF Retrigger
<1>7. ASSUME NEW k \in Keys,
             (\E p \in Workers : Runs(p, k)) \/ Due(k) \/ Stall(k) \/ Forget(k)
      PROVE  QueuedInv'
  <2>0. ASSUME NEW p, NEW status \in {"open", "delivered"}, Logs(p, Delivery(k), status)
        PROVE  \A o \in Processes, d \in Deliveries :
                  log'[o][d] = "retriggered" => log[o][d] = "retriggered"
    BY <2>0 DEF Logs
  <2>1. ASSUME NEW p \in Workers, Runs(p, k)
        PROVE  /\ req' = req
               /\ log' = log \/ Logs(p, Delivery(k), "open") \/ Logs(p, Delivery(k), "delivered")
    BY <2>1 DEF Runs, Begin, Accept, Delivered, AnswerLost, ServerError, ClientAnswer, Complete,
            Fail, FailsJob, FailInVain, Bury, FailDoomed
  <2>2. Due(k) \/ Stall(k) \/ Forget(k) =>
            /\ req' = req
            /\ log' = log \/ \E p \in Workers : Logs(p, Delivery(k), "open")
    BY DEF Due, Stall, Forget, Requeued, GivenUp
  <2>3. req' = req /\ \A o \in Processes, d \in Deliveries :
                          log'[o][d] = "retriggered" => log[o][d] = "retriggered"
    BY <1>7, <2>0, <2>1, <2>2
  <2> QED BY <2>3, QueuedQuiet
<1>8. ASSUME NEW p \in Processes, NEW e \in Endpoints, CoolsDown(p, e) \/ Resume(p, e)
      PROVE  QueuedInv'
  BY <1>8, <1>d DEF CoolsDown, Resume
<1>9. ASSUME NEW p \in Processes, Purge(p) PROVE QueuedInv'
  BY <1>9, <1>d DEF Purge
<1>10. ASSUME NEW p \in Processes, Crash(p) PROVE QueuedInv'
  <2>1. \A d \in Deliveries : req'[d].pc = "added" => req[d].pc = "added"
    BY <1>10 DEF Crash, ReqRecord
  <2>2. \A o \in Processes, d \in Deliveries :
            log'[o][d] = "retriggered" => log[o][d] = "retriggered"
    BY <1>10 DEF Crash
  <2> QED BY <2>1, <2>2, QueuedQuiet
<1>11. CASE UNCHANGED vars
  BY <1>11, <1>d DEF vars
<1> QED BY <1>1, <1>2, <1>3, <1>4, <1>5, <1>6, <1>7, <1>8, <1>9, <1>10, <1>11 DEF Next

-----------------------------------------------------------------------------
LEMMA InitOK == Init => IInv
<1> SUFFICES ASSUME Init PROVE IInv
  OBVIOUS
<1>1. TypeOK
  <2>1. circuit \in [Processes -> [Endpoints -> Circuit]]
    BY LimitsOK DEF Init, Circuit, Closed
  <2>2. jobs \in [Keys -> Job]
    BY LimitsOK DEF Init, Job, NoJob
  <2>3. req \in [Deliveries -> ReqRecord]
    BY DEF Init, ReqRecord, Progress
  <2>4. /\ history \in [Processes -> [Keys -> Mark]] /\ log \in [Processes -> [Deliveries -> Entry]]
        /\ run \in [Processes -> [Keys -> Labels]] /\ met \in [Keys -> SUBSET Kinds]
    BY DEF Init, Mark, Entry, Labels
  <2>5. replaying \in [Processes -> [Deliveries -> Nat]] /\ dlq \in [Processes -> SUBSET Deliveries]
    BY DEF Init
  <2> QED BY <2>1, <2>2, <2>3, <2>4, <2>5, TypeParts, MaxIncidentsOK DEF Init, Parts
<1>2. \A d \in Deliveries :
          /\ req[d].pc = "unused" /\ req[d].from = Nobody /\ req[d].at = Nobody
          /\ \A p \in Processes : log[p][d] = "none" /\ replaying[p][d] = 0 /\ d \notin dlq[p]
  BY DEF Init
<1>3. \A k \in Keys :
          /\ jobs[k].state = "none" /\ accepted[k] = 0
          /\ \A p \in Processes : run[p][k] = "none"
  BY DEF Init, NoJob
<1>4. RefsInv
  BY <1>2, <1>3, KeysIn DEF RefsInv, Used
<1>5. \A k \in Keys : KeyInv(k)
  BY <1>3 DEF KeyInv, JobOK, RunOK, EndOK, OnceOK, InHand, Live
<1>6. SafeInv
  BY <1>2 DEF SafeInv, Used
<1>7. QueuedInv
  BY <1>2 DEF QueuedInv, RetriggerIsQueued
<1> QED BY <1>1, <1>4, <1>5, <1>6, <1>7 DEF IInv

\* The inductive invariant holds of every behaviour.
THEOREM Invariance == Spec => []IInv
<1>1. Init => IInv
  BY InitOK
<1>2. IInv /\ [Next]_vars => IInv'
  BY TypeStep, RefsStep, KeyStep, SafeStep, QueuedStep DEF IInv
<1> QED BY <1>1, <1>2, PTL DEF Spec

\* Every variable keeps its type: no job is given an attempt too many (the 'failed' handler
\* and BullMQ's attempts in workers/webhookWorker.ts).
THEOREM TypeCorrect == Spec => []TypeOK
BY Invariance, PTL DEF IInv

\* dispatcher.ts with webhookWorker.ts: what one idempotency key stands for is not delivered a
\* second time, whatever the processes, Redis, BullMQ and the admin do, unless an answer was
\* lost, the job stalled, or BullMQ had forgotten the finished job and a restart, a replay or
\* a request at another process brought it back.
THEOREM DeliveredOnce == Spec => []AcceptedOnce
<1>1. IInv => AcceptedOnce
  <2> SUFFICES ASSUME IInv, NEW k \in Keys, accepted[k] > 1 PROVE Excused(k)
    BY DEF AcceptedOnce, Excused
  <2>1. accepted[k] # 0 /\ accepted[k] # 1
    OBVIOUS
  <2> QED BY <2>1 DEF IInv, KeyInv, OnceOK
<1> QED BY <1>1, Invariance, PTL

\* webhookWorker.ts and its 'failed' handler: what was taken in is under way, delivered or in
\* the dead letter queue, unless Redis refused it, its process stopped before it was queued or
\* buried, or BullMQ failed its job for stalling twice.
THEOREM NothingVanishesEver == Spec => []NothingVanishes
<1>1. IInv => NothingVanishes
  <2> SUFFICES ASSUME IInv, NEW d \in Deliveries, Used(d)
               PROVE  Underway(KeyOf(d)) \/ Safe(KeyOf(d))
    BY DEF NothingVanishes, Used, Safe
  <2> DEFINE k == KeyOf(d)
  <2>1. k \in Keys /\ Accounted(k)
    BY KeyOfType DEF IInv, SafeInv
  <2>2. jobs[k].state \in Live \cup {"none", "completed", "failed"}
    BY <2>1, TypeParts DEF IInv, Parts, Job
  <2>3. jobs[k].state \in {"completed", "failed"} => Underway(k) \/ Safe(k)
    BY <2>1 DEF IInv, KeyInv, EndOK, Underway
  <2> QED BY <2>1, <2>2, <2>3 DEF Accounted, Underway
<1> QED BY <1>1, Invariance, PTL

\* retriggerDelivery: only a delivery whose successor was queued is marked re-triggered.
THEOREM RetriggeredIsQueued == Spec => []RetriggerIsQueued
<1>1. IInv => RetriggerIsQueued
  BY DEF IInv, QueuedInv
<1> QED BY <1>1, Invariance, PTL

-----------------------------------------------------------------------------
\* A step that ends a pause of e in process p, and one that may.
EndsPause(p, e) == circuit[p][e].status = "paused" /\ circuit'[p][e].status # "paused"

MayEndPause(p, e) ==
    \/ CoolsDown(p, e)
    \/ \E k \in Keys : Delivered(p, k) /\ Endpoint(k) = e
    \/ Resume(p, e) \/ (\E d0, d \in Deliveries : Retrigger(p, d0, d)) \/ Crash(p)

LEMMA PauseStep ==
    ASSUME TypeOK, [Next]_vars, NEW p \in Processes, NEW e \in Endpoints, EndsPause(p, e)
    PROVE  MayEndPause(p, e)
<1>0. circuit \in [Processes -> [Endpoints -> Circuit]]
  BY TypeParts DEF Parts
<1>a. circuit[p][e] \in Circuit /\ circuit[p][e].status = "paused" /\ circuit'[p][e].status # "paused"
  BY <1>0 DEF EndsPause
<1>b. circuit'[p][e] # circuit[p][e] /\ circuit' # circuit
  BY <1>a
<1>c. ASSUME NEW o, NEW f, NEW c, circuit' = [circuit EXCEPT ![o][f] = c]
      PROVE  o = p /\ f = e /\ circuit'[p][e] = c
  BY <1>0, <1>b, <1>c
<1> USE <1>a, <1>b DEF memory, queues
<1>1. ASSUME NEW o \in Processes, NEW t \in Targets, NEW d \in Deliveries, Request(o, t, d)
      PROVE  FALSE
  BY <1>1 DEF Request
<1>2. ASSUME NEW d \in Deliveries, AddArrives(d) \/ AddFails(d) \/ Retriggered(d) PROVE FALSE
  BY <1>2 DEF AddArrives, AddFails, Retriggered
<1>3. ASSUME NEW o \in Processes, NEW d \in Deliveries, Replay(o, d) \/ Replayed(o, d) PROVE FALSE
  BY <1>3 DEF Replay, Replayed
<1>4. ASSUME NEW o \in Processes, NEW d0 \in Deliveries, NEW d \in Deliveries, Retrigger(o, d0, d)
      PROVE  MayEndPause(p, e)
  <2>1. o = p
    BY <1>4, <1>c DEF Retrigger
  <2> QED BY <1>4, <2>1 DEF MayEndPause
<1>5. ASSUME NEW o \in Workers, NEW k \in Keys, Runs(o, k) PROVE MayEndPause(p, e)
  <2>1. CASE Begin(o, k)
    <3>1. CanDeliver(o, Endpoint(k))
          /\ circuit' = [circuit EXCEPT ![o][Endpoint(k)] = Let(circuit[o][Endpoint(k)])]
      BY <2>1 DEF Begin
    <3>2. o = p /\ Endpoint(k) = e
      BY <3>1, <1>c
    <3> QED BY <3>1, <3>2 DEF CanDeliver
  <2>2. CASE AnswerLost(o, k) \/ ServerError(o, k)
    <3>1. circuit' = [circuit EXCEPT ![o][Endpoint(k)] = AfterServerError(circuit[o][Endpoint(k)])]
      BY <2>2 DEF AnswerLost, ServerError, CountsAgainst
    <3>2. circuit'[p][e] = AfterServerError(circuit[p][e])
      BY <3>1, <1>c
    <3> QED BY <3>2 DEF AfterServerError
  <2>3. CASE ClientAnswer(o, k)
    <3>1. circuit' = [circuit EXCEPT ![o][Endpoint(k)] = AfterClientAnswer(circuit[o][Endpoint(k)])]
      BY <2>3 DEF ClientAnswer
    <3>2. circuit'[p][e] = AfterClientAnswer(circuit[p][e])
      BY <3>1, <1>c
    <3> QED BY <3>2 DEF AfterClientAnswer
  <2>4. CASE Delivered(o, k)
    <3>1. o = p /\ Endpoint(k) = e
      BY <2>4, <1>c DEF Delivered
    <3> QED BY <2>4, <3>1 DEF MayEndPause
  <2>5. ~(Accept(o, k) \/ Complete(o, k) \/ FailInVain(o, k) \/ Bury(o, k))
    BY DEF Accept, Complete, FailInVain, Bury
  <2>6. ~Fail(o, k) /\ ~FailDoomed(o, k)
    BY DEF Fail, FailDoomed, FailsJob
  <2> QED BY <1>5, <2>1, <2>2, <2>3, <2>4, <2>5, <2>6 DEF Runs
<1>6. ASSUME NEW k \in Keys, Due(k) \/ Stall(k) \/ Forget(k) PROVE FALSE
  BY <1>6 DEF Due, Stall, Forget
<1>7. ASSUME NEW o \in Processes, NEW f \in Endpoints, CoolsDown(o, f) PROVE MayEndPause(p, e)
  <2>1. o = p /\ f = e
    BY <1>0, <1>7 DEF CoolsDown
  <2> QED BY <1>7, <2>1 DEF MayEndPause
<1>8. ASSUME NEW o \in Processes, NEW f \in Endpoints, Resume(o, f) PROVE MayEndPause(p, e)
  <2>1. o = p /\ f = e
    BY <1>8, <1>c DEF Resume
  <2> QED BY <1>8, <2>1 DEF MayEndPause
<1>9. ASSUME NEW o \in Processes, Purge(o) PROVE FALSE
  BY <1>9 DEF Purge
<1>10. ASSUME NEW o \in Processes, Crash(o) PROVE MayEndPause(p, e)
  <2>1. o = p
    BY <1>0, <1>10 DEF Crash
  <2> QED BY <1>10, <2>1 DEF MayEndPause
<1>11. ~UNCHANGED vars
  BY DEF vars
<1> QED BY <1>1, <1>2, <1>3, <1>4, <1>5, <1>6, <1>7, <1>8, <1>9, <1>10, <1>11 DEF Next

\* The endpoint circuits of webhookDeliveryService.ts: a late answer to a delivery that began
\* before the pause does not end it.
THEOREM PausesLast == Spec => PauseIsKept
<1>1. TypeOK /\ [Next]_vars =>
        [\A p \in Processes, e \in Endpoints :
            circuit[p][e].status = "paused" /\ circuit'[p][e].status # "paused" =>
                \/ CoolsDown(p, e)
                \/ \E k \in Keys : Delivered(p, k) /\ Endpoint(k) = e
                \/ Resume(p, e) \/ (\E d0, d \in Deliveries : Retrigger(p, d0, d)) \/ Crash(p)]_vars
  BY PauseStep DEF EndsPause, MayEndPause
<1> QED BY <1>1, TypeCorrect, PTL DEF Spec, PauseIsKept
=============================================================================
