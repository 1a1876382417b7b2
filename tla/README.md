# TLA+ models of the Web3 Student Lab backend

These modules specify the parts of Web3 Student Lab in which several processes
share state that must not go wrong: the off-chain state channels that pay
students and mentors, the index of Stellar ledgers, the tamper-evident audit
chain, the relayer that sponsors fees, outgoing webhooks, and the idempotency of
requests. TLC checks each of them on small instances; TLAPS proves the most
important properties for every value of the constants.

| module | what it is |
|---|---|
| `StateChannel` | `services/stateChannelService.ts` over `db/channelStore.ts` and the channel contract |
| `ChannelPromise` | what a channel promises its parties; `StateChannel` implements it |
| `LedgerIngestion` | `jobs/horizonLedgerIngestionEngine.ts` and `…Worker.ts` against a pool of Horizon servers |
| `LedgerHistory` | what the ledger index promises its readers; `LedgerIngestion` implements it |
| `AuditChain` | `services/tamperEvidentAuditService.ts`, `db/auditChainStore.ts`, `jobs/anchorMerkleRootJob.ts` |
| `AuditLog` | what the audit chain promises; `AuditChain` implements it while its tables are left alone |
| `MerkleRoot` | `computeMerkleRoot`, which `AuditChain` abstracts |
| `GasStation` | `services/gasStationService.ts`, `middleware/gasQuotaMiddleware.ts` and the lock of `lib/lock/RedisLock.ts` |
| `WebhookDelivery` | `services/webhooks/`, `workers/webhookWorker.ts`, `services/webhookDeliveryService.ts` and the replays of `services/dlq.service.ts` |
| `Idempotency` | `middleware/idempotency.ts` |
| `MC…` | small instances for TLC, with their `.cfg` files |
| `…Proofs` | theorems and proofs, in one module for each component, and `AuditVerificationProofs` for what verifications and anchors say of the chain |

Paths below are relative to `backend/src/` unless they start with `src/`.

## 1. Inventory

The platform is a learning environment for Stellar/Soroban: a Node/Express
backend on Postgres (through Prisma), Redis and BullMQ; a Next.js frontend;
about forty Soroban contracts in Rust; a stand-alone event indexer in Rust. The
backend runs as several server instances beside each other. Each instance is one
Node.js thread: code runs without a gap between two `await`s, and anything may
happen in between. The instances share Postgres and Redis and talk to Stellar
through Horizon and Soroban RPC.

One thing about the database holds everywhere below. The default client of
`db/index.ts` routes every model operation through an extension that calls
`prisma[model][operation]` (line 232) and not `query(args)`, so the operations of
an interactive `$transaction` on it run on the base client, outside the
transaction: each commits by itself, and a failure between two of them leaves the
first. Raw statements are not routed. An advisory lock taken by one stays in the
transaction and is held to its end.

### Modelled

**Off-chain state channels** (`services/stateChannelService.ts`,
`db/channelStore.ts`).
- *State*: a row of `state_channels` (status, latest state, its signatures,
  transaction hashes, dispute deadline), the rows of `state_channel_updates`,
  and on the ledger the escrow and the payout.
- *Operations*: `openChannel`, `submitUpdate`, `initiateDispute`,
  `settleLatest`, and the timer's `sweepExpiredDisputes`.
- *Interaction*: HTTP handlers and the watchers of all instances write the same
  rows by compare-and-set; the Soroban contract answers through polls.
- *Hard*: what a handler read before an await is stale after it; settlements
  overlap; a transaction lands after `invoke` gave up on it; an instance stops
  in the middle.
- *Correct if*: the states a row has held are one gap-free line of co-signed
  states, and the journal lacks one of them only while its request is still
  writing or because it broke off; one handler at a time settles a channel; a
  channel is paid once, with a state of that line, and stays settled; disputes get
  settled.

**Ledger ingestion** (`jobs/horizonLedgerIngestionEngine.ts`,
`jobs/horizonLedgerIngestionWorker.ts`).
- *State*: `processed_blocks`, `bridge_events`; per worker a cursor and a batch.
- *Operations*: `pollOnce` (resolve the start, fetch ledgers, fetch the payments
  of each, ingest) and `ingestLedger` with `rollbackFrom`.
- *Interaction*: any number of workers, whose writes an advisory lock keeps
  apart, though each of them commits by itself; a load-balanced Horizon pool whose
  members lag and may disagree.
- *Hard*: forks, rival ledgers sharing operation ids, two workers at different
  cursors, failures between the requests of one poll and between the writes of one
  ledger, a poll that reads an index another worker has half rolled back.
- *Correct if*: one ledger per sequence, payments exactly those of the ledgers in
  force but for what a failure left unwritten, one history, and progress.

**Tamper-evident audit chain** (`services/tamperEvidentAuditService.ts`,
`db/auditChainStore.ts`, `jobs/anchorMerkleRootJob.ts`).
- *State*: `audit_chain_entries`, `audit_chain_anchors`, the advisory lock, and
  in each process `highestAppended`.
- *Operations*: `record`, `verifyChain` with `checkLatestAnchor`,
  `runAnchorMerkleRootJob`, and the timers that start them.
- *Interaction*: every instance appends, verifies and anchors; a GET request
  verifies through a client that may read from the replica.
- *Hard*: scans in batches while the chain grows; overlapping and abandoned
  anchors; an update that took effect and whose answer is lost; what a process
  remembers is lost when it stops.
- *Correct if*: the chain is linked, anchors are true and leave nothing out,
  damage is reported and not anchored, growth is not reported as damage, and
  every entry gets anchored.

**Gas station** (`services/gasStationService.ts`,
`middleware/gasQuotaMiddleware.ts`, `lib/lock/RedisLock.ts`).
- *State*: in Redis the quota of each student's day, the replay slot of each
  inner transaction and the relayer's lock; in each pod a chain of promises; on
  the ledger the fee-bumps.
- *Operations*: `sponsor`, `reserveGasQuota`, `refundGasQuota`, `enqueue`,
  `withLock` with `tryAcquire`, `extend` and `release`.
- *Interaction*: the queue orders the requests of one pod, the lock the pods;
  KMS and Horizon are called while the lock is held.
- *Hard*: a lease that lapses under its owner, an undo that is itself several
  steps and may fail, answers of Horizon that do not come, a fee the ledger keeps
  for an inner transaction that failed, midnight.
- *Correct if*: one request sponsors an inner transaction, submissions take
  turns, a fee that the ledger keeps is charged but for two known cases, a refusal
  leaves nothing behind, the quota is exact, and every request is answered.

**Webhook delivery** (`services/webhooks/`, `workers/webhookWorker.ts`,
`services/webhookDeliveryService.ts`, `services/dlq.service.ts`).
- *State*: in the memory of each process a delivery history, a delivery log, a
  circuit for each endpoint and the inspector's records; in Redis, for all of them,
  BullMQ's jobs and dead letters. The Helm chart starts three replicas or more.
- *Operations*: `enqueueWebhookDelivery`, the worker's attempt with its retries,
  deferrals and dead letters, `retriggerDelivery`, `resume`, `replayDLQJob`,
  `purgeDLQ`.
- *Interaction*: requests, workers and the admin meet on one idempotency key, at
  any of the processes; BullMQ ignores an add whose job id it still has.
- *Hard*: memory is lost, or is another process's, and Redis is shared; answers
  get lost; the lock on a job lapses under its worker, and BullMQ takes the job for
  stalled; endpoints pause while deliveries are under way; handlers nothing waits
  for.
- *Correct if*: a delivery reaches its endpoint once but for known reasons, never
  vanishes, pauses last, and every job ends.

**Idempotency of requests** (`middleware/idempotency.ts`).
- *State*: in Redis the stored response and the in-flight key of an
  `Idempotency-Key`.
- *Operations*: look, lock, run the handler, capture its response, release.
- *Interaction*: all instances share the two keys; Express calls back.
- *Hard*: look and lock are two commands; the release names no owner; leases,
  Redis errors and stops between the operation and the storing of its response.
- *Correct if*: requests of one key are handled one at a time and the operation
  takes effect once, and where not, for a known reason.

### Not modelled yet, or left out

| component | source | why |
|---|---|---|
| database routing and transactions | `db/index.ts`, `db/requestContext.ts`, `db/prismaMiddleware.ts` | next (section 10) |
| transaction coordinator, migration lock | `db/atomicTransactionCoordinator.ts`, `db/migrationLock.ts` | with the routing |
| chain indexer engine | `blockchain/chain-indexer-engine.ts` | planned (a block delivered twice is taken for a re-organisation, and the last block is read outside the transaction that stores the next) |
| Soroban event ingestor | `indexer/sorobanEventIngestor.ts`, `indexer/checkpointManager.ts`, `db/eventStore.ts` | planned; nothing in the repository starts it. Its flushes run concurrently, so a later batch can move the checkpoint past an earlier one that is not stored yet |
| Rust event indexer | `src/indexer/src/` | planned |
| the rest of the dead-letter queues | `workers/dlqProcessor.ts`, `queues/queueManager.ts` | the inspector's replay and purge are in `WebhookDelivery` |
| Redlock over several Redis nodes | `lib/lock/RedlockCoordinator.ts`, `lib/lock/DistributedLockManager.ts` | planned; the lock of one node is in `GasStation` |
| circuit breaker | `lib/circuit-breaker/CircuitBreaker.ts` | planned |
| contracts | `src/contracts/` | sequential; `multisig_wallet_timelock` and `payment_streaming` come last |
| authentication, sessions | `auth/` | credentials are not a subject here |
| collaboration | `collaborationServer.ts`, `graphqlWsServer.ts` | merging is the Yjs library's |
| routes, GraphQL, frontend, deployment | | parsing, formatting, user interface, configuration |

`PROJECT.json` lists the hazards, each at its line, with the properties that
cover it or the reason why none does.

## 2. StateChannel

A *handler* is an HTTP request or a run of the watcher. `pc` is the await it is
at, `chan`, `rec`, `sgn`, `tid` and `todo` are its local variables: the channel,
the record it has read, the signed state it was sent, the transaction it waits
for and the rest of the sweep. `db` and `deadline` are the rows of
`state_channels`, `journal` those of `state_channel_updates`, and `txs`,
`escrow` and `paid` are the ledger. An action is the code from one await to the
next. Two variables are history, which no code reads: `agreed` has the co-signed
states a row has held, and `lost` those whose request broke off before it wrote
their journal entry.

| code | actions |
|---|---|
| `openChannel` | `OpenChannel`, `SendFund`, `FundConfirmed` / `FundThrows`, `MarkFunded` |
| `submitUpdate` | `SubmitUpdate` (read and validate), `AppendUpdate` / `AppendConflict`, `WriteJournal`, `Reread` |
| `initiateDispute` | `InitiateDispute`, `StartDispute` |
| `sweepExpiredDisputes` | `BeginSweep`, `SweepNext` |
| `settleLatest` | `Claim` / `ClaimRefused`, `SendSettle`, `SettleConfirmed` / `SettleThrows`, `MarkSettled`, `ReleaseSettlement` |
| the ledger, time, failures | `TxLands`, `TxFails`, `DeadlinePasses`, `DbError`, `ClaimUnanswered`, `Crash` |

`appendUpdate` is a transaction in the source and two actions here: through the
routed client its `updateMany` (`AppendUpdate`) and its `create` (`WriteJournal`)
commit one after the other, and a `DbError` or a `Crash` in between leaves the row
with a state that the journal lacks. `JournalIsLinear` says that this, and a write
that is still to come, are the only ways to miss an entry, and `SettledIsPaid` that
what is paid is a state the row has held, in the journal or not.

What is abstracted: a signed state carries the set of those whose signature
verifies; a request that is rejected before it changes anything is a stutter;
the limit of 50 rows of a sweep is left out; `findExpiredDisputes` sees all
expired rows. What is assumed: the contract, which is not in the repository,
takes the reward once and pays out once; and the handlers read the primary (none
of them is a GET, `db/requestContext.ts:77-93`). A query in flight when its
process stops has been carried out by then, or never is.

| run | instance | shows |
|---|---|---|
| `sc_safety` | one channel, two requests, one watcher, six states of which two are rivals and one is final, four transactions, any two faults | the row's states are one line and the journal is that line but for entries to come or lost, one settler, settled rows are paid and final, `ChannelPromise` is kept |
| `sc_live` | one channel, two requests (the second state is final, so that cooperative settlements run beside the watcher), a watcher, two failures of the ledger or the RPC node, or answers that come too late | `DisputeSettles` |
| `sc_lost` | one RPC failure | **violated** `DisputeIsKept` |

One channel is enough for safety, for no action reads or writes two of them; two
requests and a watcher give every pair of handlers that can meet, and all the
safety properties of `sc_safety` are proved for any number. Three sequences reach
an update that follows an update that follows the first. A sweep settles its
channels one after the other, and each ends in finitely many fair steps; that a
second channel waits for the first is not exercised by `sc_live`.

*Fairness* of `sc_live`: every handler goes on (Node.js runs each continuation
that is ready), the interval timer starts a sweep again and again, time passes,
and the ledger decides every transaction. Clients need not send anything.

`DisputeSettles` names the ways in which the faults of `sc_live` keep a disputed
channel from getting settled. `PaidUnnoticed`: `invoke` gave up on a settlement
that then landed, the contract refuses every later one, and nobody marks the row.
`DisputeLost`: a failed cooperative settlement has put the channel back to `open`.
`HeldOnSettling`: a handler has claimed the channel with a record read in
`settling`, to which a failure releases it. The run excludes crashes and database
errors: a handler that stops between `claimForSettlement` and `markSettled`, or a
claim whose answer is lost, leaves the row in `settling`, and nothing in the code
looks for such rows, so liveness does not hold with them.

*Divergence* the run shows: a failed cooperative
settlement can put a channel whose dispute was opened meanwhile back to `open`
(`sc_lost`). Also seen while modelling: the watcher can pay a state that is
older than the journal's last, as `claimForSettlement` compares the status alone
and `settleLatest` uses the record read before it (line 387), although the
comment at line 340 promises the latest state; updates are accepted after the dispute
deadline until a sweep claims the channel.

## 3. LedgerIngestion

`status` is the state of each ledger's row in `processed_blocks` (`active` is a
row with `isRolledBack` false) and `events` the rows of `bridge_events`, a pair
of operation and ledger. The worker's `pollOnce` is one action per request it
awaits: `PollBegins`, `ResolveStart`, `FetchLedgers`, and for each ledger
`FetchPayments` and the engine's call, `Ingest`, or `LedgerFails`. `PollFails` and
`Crash` end a poll; `MemberAdvances` is the pool.

`Ingest` has a disjunct per write of `ingestLedger`: `TakeLock` (the advisory lock,
the reads, and what is decided from them), `DeleteEvents` and `MarkRolledBack`
(`rollbackFrom`), `UpsertLedger`, `UpsertPayment` for one payment after the other,
and `Commit`, which gives the lock back. The engine's header (lines 7-17) has every
ingest run "inside a single `$transaction`", but its only caller passes the routed
client (`jobs/horizonLedgerIngestionCron.ts:11,18`), with which each write commits
by itself while the lock holds. So a `LedgerFails` or a `Crash` may come between any
two of them, and what has been written stays (`LeaveHalfway`). `torn`, which is
history, has the ledgers in force that were left with a part of their payments.
The next poll starts after the last ledger in force, and does not look back.

Horizon is external: each request may be answered by another member; a member
serves a prefix of its history, and two histories may part. Operation ids start
with the ledger's sequence, so rivals share them. It is assumed that the
transaction stays within the limit of an interactive one (five seconds by default
in Prisma): past it the server ends the transaction and frees the lock while the
callback goes on. A query in flight when its process stops has been carried out
before the lock is free, or never is.

| run | instance | shows |
|---|---|---|
| `li_fork` | two workers, two members that part for one ledger, one fault | one ledger per sequence, events that belong, and are exact but for what a failure left unwritten, `LedgerHistory`, and `CatchesUp` |

The fork of one ledger is the deepest the engine handles, and it has a ledger on
either side and one after it; batches of two ledgers let a poll cross the fork. A
page of three operations holds every ledger's, and one ledger has two payments, so
that a call can break off between them. Two workers: the lock admits one at a time,
and what a call does depends on the tables and on its own batch only; the safety
theorems hold for any number of workers. The run has 248,155 states.

`EventsExact` says that a ledger in force has the payments of one ledger of its
sequence and no others, and that it lacks some of them only if it is `torn` or a
call is at it (`Underway`).

*Fairness* of `li_fork`: the timer fires for ever; a poll's first question and the
engine's calls go on (weak fairness for each worker); members catch up; and the
load balancer leaves no member that is ahead out of the fetches for ever (strong
fairness: requests are made again and again, not held open). How it treats the
members that lag does not matter.

`CatchesUp` says that the latest ledger of the pool gets into force for good, or
that workers poll midway again and again (`PollsMidway`): between `MarkRolledBack`
and `UpsertLedger` of a call the index ends below where the call will leave it, and
a worker that begins its poll then starts from there. One that fetches from a
lagging member takes the index back to its history, which again is a rollback to
poll in the middle of. The writes of one transaction would not be seen apart.

*Divergence* seen while modelling: `rollbackFrom` removes the ledgers from the
mismatch upwards, and a mismatch names the last ledger only, so after a fork of
two ledgers the lower lost one stays in force, although the header (lines 24-26)
promises to roll back "every ledger (and its payments) at or after the divergence
point"; the same header notes that Stellar closes ledgers for good. Also seen: a ledger whose payments could not be fetched is
skipped for good if the next of its batch succeeds; only the first page (200) of
a ledger's operations is read; payments are fetched by sequence, so they may be
those of a rival (`EventsExact` therefore says *a ledger of its sequence*); a
ledger that comes late, below the last one, is taken for a fork.

## 4. AuditChain and MerkleRoot

A *recorder* is a request that records an event; a *job* is a verification or a
run of the anchor job, which starts with one. `rows` and `anchors` are the
tables, `replica` both tables as a lagging replica has them, `holder` the
advisory lock, `highest` the `highestAppended` of each process. `rec` and `job`
hold the await each is at and its local variables. `wrong` is history for the
properties, not state of the code: what has been wrong all through a job's
verification (below); `clean` in a job and in `reports` says that it was nothing.

| code | actions |
|---|---|
| `record`, `append` | `BeginAppend` (lock, head, build), `CommitAppend`, `AppendReturns`, `AppendFails` |
| `verifyChain` | `BeginVerify`, `ReadBatch`, `CheckBatch` |
| `checkLatestAnchor` | `ReadLatestAnchor`, `CheckAnchor`, both with `Conclude` |
| `runAnchorMerkleRootJob` | the above, then `ReadHead`, `ReadPrevious`, `ReadRange`, `CreateAnchor`, `Submit`, `UpdateAnchor` |
| failures, surroundings | `QueryFails` (`QueryRefused`, `CreatedUnseen`, `AnchoredUnseen`), `Crash`, `Replicate`, `Damage` |

A query and the arrival of its answer are two steps (`ReadBatch`, `CheckBatch`)
where the code looks at `highestAppended` in between. SHA-256 is taken to be free
of collisions: a hash is the list of everything hashed into it. The Merkle root
of a range is the set of its entry hashes, which `MerkleRoot` justifies: with
equal counts, two lists of hashes have equal roots exactly if they are equal.
(Without the count they need not: `[a, b, c]` and `[a, b, c, c]` share a root, and
the code compares counts as well.) Left out: the limit of 100 findings, the
webhooks of the alarm, and `verifyPublishedAnchor`, which only reads.

`append` writes one row, so that nothing rests on the atomicity of its transaction,
only on the lock's: an `AppendFails` may happen after the row was stored. As in
section 3, the transaction is assumed to stay within its limit of five seconds, and
a query in flight when its process stops to be carried out before the lock is free
or not at all.

A query can fail without effect (`QueryRefused`), or take effect and lose its answer.
The lost answer of `createAnchor` leaves a pending anchor that nobody looks at
(`CreatedUnseen`). The lost answer of `updateAnchor('anchored')` is worse
(`AnchoredUnseen`): the catch marks the anchor, which counts as anchored by then, as
failed (`anchorMerkleRootJob.ts:127-139`), and another job may have started its
range behind it in between. `revoked`, which is history, has such anchors.
`AnchorsCover` names them as the only reason why an entry below the latest anchor is
in no anchored range, `AuditLog` lets a seal be taken back, of each anchor once, and
`EntriesGetAnchored` excepts the entries of a revoked anchor, for the next range
starts behind the latest one and may leave them out for good.

| run | instance | shows |
|---|---|---|
| `ac_safety` | two recorders and two anchor jobs on two instances, batches of one row, one failure (2,226,141 states) | no append refused, chain linked, anchors true and complete but for revoked ones, growth never taken for a change, `AuditLog` |
| `ac_damage` | a recorder of two kinds of events, a verifier and an anchor job, one change with or without its hash, deletion or cut of the end (1,840,508 states) | `DamageIsFound`, `TamperedNotAnchored` |
| `ac_live` | a recorder, an anchor job and a request that reads the replica, one failure (542,135 states) | `EntriesGetAnchored` |
| `ac_false` | a recorder and a verifier of one instance, no failure | **violated** `NoFalseAlarm` |
| `mr_root` | all pairs of lists of up to six hashes | `RootTellsRange` |

Two entries and batches of one row make every scan cross a batch boundary, and
let an append fall before, between and after its batches; five anchors let two
jobs overlap, fail and repeat. Six hashes make a Merkle tree of three levels with
odd nodes on two of them. No run has both a stop and a damage, so that a cut of the
end whose witness, `highestAppended`, went with its process is not exercised:
`DamageIsFound` would not hold the code to finding it, for it is not `Wrong` for that
instance. `ac_false` has no anchor jobs; an anchor that covers entries a scan has not
seen yet is another way to the same alarm. In `ac_damage` nothing tells the two kinds of events
apart, so that it checks one of two alike states (`SYMMETRY`).

What a verification must find is what is wrong *all through* it (`Wrong`): a row
that is missing below the last one or among those its instance appended, or that
does not have the hash of its content; a row that does not link to the one before;
a latest anchored range of which no anchor that ends there is true. `Watch`, a part
of every action, keeps in `wrong` what was wrong when the verification began and
has been in every state since; for a request, in both copies. Nothing less will do:
a scan that starts on one damage and ends on another need not see either, when the
first is cut off with the end of the chain and the second falls behind the scan.

*Fairness* of `ac_live`: a recorder that holds the lock goes on (Postgres ends a
transaction whose process stops), and the timers of the anchor job and its steps
go on. Nobody is obliged to record.

*Divergences*: an append that commits after a scan's query and returns before its
answer raises the `TRUNCATED` alarm for a chain nobody touched (`ac_false`); the
anchor job then skips its turn, which `EntriesGetAnchored` survives. Also seen:
anchor jobs of two instances publish overlapping ranges; the end of the chain
beyond the last anchor can be removed unnoticed by an instance that did not
append it; a GET verification that mixes the primary with a lagging replica
reports a mismatch that is none (`NoFalseMismatch` is checked for jobs that read
the primary).

## 5. GasStation

A *request* is one `POST /sponsor`; `pc` is the await it is at. `used` is each
student's quota key of today, `slots` the replay keys that are set, `lock` the
request whose token is in the relayer's lock, `queue` the promise chain of each
pod, `chain` what the ledger knows of the fee-bump of an inner transaction.
`charge` and `met` are records for the properties.

| code | actions |
|---|---|
| `gasQuotaMiddleware`, `SET … NX` of the replay key | `Receive`, `TakeSlot` |
| `reserveGasQuota`, `getRelayerPublicKey` | `Reserve`, `ReserveRefused` |
| `enqueue`, `withLock`, `tryAcquire` | `Turn`, `Acquire`, `AcquireFails` |
| the callback: KMS, Horizon | `Sign` / `SignFails`, `Submit` / `SubmitFails`, `Accepted`, `Rejected`, `TimesOut` |
| the `finally` of `withLock` | `Release` |
| the catches of `sponsor` | `Refund`, `DropSlot` |
| time, the ledger, stops | `LeaseEnds`, `Midnight`, `Settles`, `Crash` |

`autoExtend` renews the lease of a running callback, so that it lapses only if
its pod stalls for the whole of it (`"stall"`). The fee-bump of an inner
transaction is one transaction however often it is built. The ledger does one of
three things with it (`Settles`): it includes it and the inner transaction succeeds
(`landed`); it includes it, keeps the relayer's fee, and the inner transaction fails
(`reverted`), for which Horizon answers 400 and `submitTransaction` throws; or it
never includes it (`failed`). The time modelled is
shorter than `REPLAY_TTL_SECONDS` (a day), so that no slot expires and at most
one midnight passes. Left out: the checks of the inner transaction's operations.

`gs_relay` has three requests of one student on two pods, two of them with one
inner transaction; fees 1 and 2 under a quota of 3, so that not all are
affordable; two attempts to get the lock; a midnight; and one fault of any of
seven kinds (403,511 states). Three requests give a pair on one pod, a pair on two,
and a third that fails while both wait. Three requests on three pods, where a late
release frees the lock of the next owner for a third one, are beyond the instance:
that case is the theorem's alone. The run shows `OneSponsorPerInner`, `TakeTurns`,
`LandedIsCharged`, `RefusedIsUndone`, `QuotaLaw` and `EveryRequestEnds`.

*Fairness*: Node.js runs each ready continuation, Redis expires keys, the ledger
decides. Nobody is obliged to send a request.

*Seen while modelling*: the catch says "Nothing landed on-chain, so give the
quota and replay slot back" (line 272). It is false in two cases, which
`LandedIsCharged` names and excuses: Horizon times out and the fee-bump lands later,
or Horizon reports an inner transaction that failed, and the ledger keeps the fee.
Also: a refund after
midnight is taken from the new day's key, which `QuotaLaw` counts as stray;
`getRelayerPublicKey` throws outside of every `try`, and then charge and slot
stay (`"config"`); `extend`'s answer is ignored, and two pods submit at once
after a stall.

## 6. WebhookDelivery

A *key* is an idempotency key: an event for a destination, or the fresh key of a
re-trigger, and stands for one delivery. `history`, `log`, `circuit` and `dlq` are
in the memory of each of the `Processes`, of which `Workers` have called
`startWebhookWorker`; `jobs` and `dead` are BullMQ's. `run` is where a worker is
with a key's job and `by`, in the job, who has the lock on it; the two part when the
lock lapses. `accepted` is how often the endpoint took the event, `met` what has
happened to the key (history, for the properties).

| code | actions |
|---|---|
| `enqueueWebhookDelivery` | `Request`, `AddArrives` / `AddFails` |
| the processor and `deliverWebhook` | `Begin` (or defer), `Accept`, `Delivered`, `AnswerLost`, `ServerError`, `ClientAnswer`, `Complete` |
| BullMQ's retries, the `failed` handler | `Due`, `Fail` / `FailInVain`, `Bury` |
| BullMQ's stalled jobs | `Stall` (`Requeued` or `GivenUp`), `FailDoomed` |
| endpoint circuits | `CoolsDown`, `Resume`, and in the answers above |
| `retriggerDelivery` | `Retrigger`, `Retriggered` |
| `replayDLQJob`, `purgeDLQ` | `Replay`, `Replayed`, `Purge` |
| surroundings | `Forget` (BullMQ drops a finished job), `Crash` (of one process, and its restart) |

*Stalls.* A worker keeps its job while it renews the lock. When its process stops,
blocks, or cannot reach Redis for longer than the lock lasts, `Stall` takes the job
from it, whatever the worker is doing, also after the endpoint took the event and
before `moveToCompleted`. The worker goes on without it: then `Complete` and
`FailInVain` change nothing in Redis, for BullMQ moves a job only for who has its
lock (`Has`). The first stall queues the job again. The second ends it, as
`maxStalledCount` is 1: either the next worker that takes it gets an error that
counts as unrecoverable (`"doomed"`, `FailDoomed`), or the checker fails it with a
plain error, which the `failed` handler does not take for exhausted
(`webhookWorker.ts:137`), so that it is never buried (`"unburied"`). Which one
depends on the version of BullMQ, which is not in the repository; the model has both.

Abstracted: the statuses pending, retrying and paused of a log entry are one,
*open*; the answer and the reading of its body are one step. Left out: the
eviction of log entries beyond 5000, the expiry of the history after 24 hours,
a deferral whose `moveToDelayed` fails, signatures. It is assumed that a process
does not take a job again while its own earlier run of that job still goes; with a
concurrency of 25 BullMQ may do that after a stall, and both runs would share the
process' memory. Nothing in the repository calls `startWebhookWorker`.

`wh_deliver` has two processes, one of them a worker; one event for one endpoint;
two deliveries (a request, and a second request at either process or a re-trigger of
the first); two attempts for each job; a circuit that opens at the first error; and
two incidents of eight kinds (1,945,402 states). Keys share only their endpoint's
circuit, which two keys exercise. A second worker makes some fifteen million states:
that is left to the theorems, which hold for any number of processes and workers. It
shows `AcceptedOnce`, `NothingVanishes`, `RetriggerIsQueued`, `PauseIsKept` and
`EveryJobEnds`.

`AcceptedOnce` does not hold without exceptions, and it names all of them: an answer
that was lost (*unsure*); a job that stalled when its event had been taken or still
could be (*stalled*); and a job that BullMQ has *forgotten*, if it is *revived* (its
process has restarted without its history, or an admin replays it) or asked for
*elsewhere*, at a process whose history does not know it. It speaks of a delivery:
a re-trigger of one that is still open sends the same event under a fresh key, by
design. `NothingVanishes` excepts what Redis refused or a stop cut off before it was
queued or buried (*dropped*), and the job that failed for stalling twice
(*unburied*). A pause is kept at each process for itself, and ends by its cool-down
(`CoolsDown`), a success, or the admin.

*Fairness*: some job goes on as long as one can (`Work`, over all keys: attempts,
due retries, and the stalled checker for jobs whose worker has gone), and pauses
cool down at the workers. Nothing is assumed of the order of the jobs.
`EveryJobEnds` then says that again and again there is no live job.

*Seen while modelling*: a replayed job keeps its job id, so that its add is
ignored while BullMQ has the failed job, and its record is deleted all the same;
a permanent 4xx leaves the history at pending, and a dead letter keeps its failed
job, so that later requests for such an event are swallowed; two concurrent
re-triggers of one delivery both go out, and the mark of a re-trigger can
overwrite *delivered*; a circuit that probes lets every concurrent delivery
through, although `webhookDeliveryService.ts:180` says "a single probe delivery
is let through"; re-trigger keys contain `:`, which `dlqProcessor.ts:55` says
BullMQ forbids in job ids (the model takes every id as valid).

## 7. Idempotency

A *request* carries the one key that is modelled; a client's retry is another
request. `result` is the stored response and `lock` the in-flight key (the model
remembers whose it is; the code does not). `outcome` is what the route's handler
has done, `stores` and `releases` are the commands of `captureAndStore` that
Redis has still to execute, `met` the reasons so far for a second execution.

| code | actions |
|---|---|
| the middleware up to `next()` | `Arrive`, `Look`, `AcquireLock`; `FailsOpen` |
| a route's handler | `Perform` |
| the wrapped `res.json` and `res.send` | `Answer`, `Store` / `StoreFails`, `Release` / `ReleaseFails` |
| surroundings | `LockExpires`, `Crash` |

Express' `json` calls `send`, and both are wrapped: a response is captured twice,
and one request sends two `SETEX` and two `DEL`, in that order over its process'
connection. The handler answers 2xx exactly if its operation took effect. The
time modelled is shorter than the day that a response is stored.

`id_keys` has four requests on two instances and two faults. `OneAtATime` and
`DoneOnce` do not hold without exceptions, and they name all of them: a request
that went on *unguarded* because Redis failed; a response that will never be
stored (*unstored*); a *lapse* of the lease under a slow handler; a *stale* look,
when a request looks before another's response is stored and locks after its
release; a *late* second `DEL` that takes the lock of the next request. Each can
occur alone, and the last two need no fault at all: a fifth way would be a
violation. Three requests are needed for the *late* one, and the fourth lets two
reasons meet.

The header says that concurrent duplicates "receive a 409 rather than triggering
two executions"; the *stale* and the *late* order show when they do trigger two.
Also seen: no route passes a `scopeFn`, so that all users and routes share the
scope `global`.

## 8. Abstract specifications

Three components implement a short specification that a reader of their data can
rely on, through an `INSTANCE … WITH` at the end of the component's module.

- **ChannelPromise**: a channel is funded once, lives on a history of co-signed
  states that is only extended, is paid at most once and with a state of that
  history, and is closed only when paid. What is recorded of the history may lag
  behind it and have gaps; it holds nothing else and loses nothing. `KeepsPromise`
  maps the five statuses of a row to its phases, the states the row has held
  (`agreed`) to the history, the journal to its record, and the ledger's payout to
  the payout.
- **LedgerHistory**: the index is a stack of ledgers in the order of their
  sequences. A ledger is pushed without payments, which are credited to it one by
  one while it is on top; before ledgers leave the top, what was credited to them is
  taken back. `KeepsHistory` maps the active rows to the stack and `bridge_events`
  to the credits.
- **AuditLog**: a log that only grows, and a seal that never passes its end and
  moves forward, except that the record of a seal may be taken back, of each seal
  once. `KeepsLog` maps the rows to the log, the end of the latest anchor to the
  seal, and `revoked` to the seals taken back. It holds while nobody but the service
  writes the tables.

## 9. Proofs

All theorems hold for any sets of channels, requests, workers, instances, jobs,
pods, endpoints and events, any bounds, and any number and mix of faults, under the assumptions
named in the modules (`ASSUME … OK`), which TLC evaluates in its runs.

| theorem | property | assumes |
|---|---|---|
| `StateChannelProofs!TypeCorrect` | `TypeOK` | |
| `…!JournalTheorem` | `JournalIsLinear` | |
| `…!OneSettlerTheorem` | `OneSettler` | |
| `…!SettledIsPaidTheorem` | `SettledIsPaid` | |
| `…!SettledIsFinalTheorem` | `SettledIsFinal` | |
| `…!PromiseTheorem` | `KeepsPromise` | |
| `LedgerIngestionProofs!TypeTheorem` | `TypeOK` | |
| `…!OneLedgerTheorem` | `OneLedgerPerSequence` | |
| `…!EventsTheorem` | `EventsBelong` | |
| `…!HistoryTheorem` | `KeepsHistory` | |
| `…!PageTheorem` | (`PageExact`) | |
| `…!EventsExactTheorem` | `EventsExact` | `PagesHold` |
| `AuditChainProofs!TypeTheorem` | `TypeOK` | |
| `…!NoAppendConflictTheorem` | `NoAppendConflict` | |
| `…!AnchorsCoverTheorem` | `AnchorsCover` | |
| `…!ChainTheorem` | `ChainLinked` | `LeftAlone` |
| `…!LogTheorem` | `KeepsLog` | `LeftAlone` |
| `AuditVerificationProofs!AnchorsTrueTheorem` | `AnchorsTrue` | `LeftAlone` |
| `…!AnchorsTrueUntilChanged` | `ChainLinked => AnchorsTrue` | `PlainDamage` |
| `…!NoFalseMismatchTheorem` | `NoFalseMismatch` | `LeftAlone`, no requests |
| `…!NoFalseMismatchUntilChanged` | `ChainLinked => NoFalseMismatch` | `PlainDamage`, no requests |
| `…!TamperedNotAnchoredTheorem` | `TamperedNotAnchored` | |
| `…!DamageIsFoundTheorem` | `DamageIsFound` | |
| `MerkleRootProofs!RootTheorem` | `RootTellsRange` | |
| `GasStationProofs!TypeCorrect` | `TypeOK` | |
| `…!OneSponsorTheorem` | `OneSponsorPerInner` | |
| `…!TakeTurnsTheorem` | `TakeTurns` | |
| `…!LandedIsChargedTheorem` | `LandedIsCharged` | |
| `…!RefusedIsUndoneTheorem` | `RefusedIsUndone` | |
| `…!QuotaTheorem` | `QuotaLaw` | |
| `WebhookDeliveryProofs!TypeCorrect` | `TypeOK` | |
| `…!DeliveredOnce` | `AcceptedOnce` | |
| `…!NothingVanishesEver` | `NothingVanishes` | |
| `…!RetriggeredIsQueued` | `RetriggerIsQueued` | |
| `…!PausesLast` | `PauseIsKept` | |
| `IdempotencyProofs!TypeCorrect` | `TypeOK` | |
| `…!HandledOneAtATime` | `OneAtATime` | |
| `…!DoneAtMostOnce` | `DoneOnce` | |

Each hypothesis is on the constants and is needed.

- `LeftAlone`: no change of the table behind the service's back is among the
  faults. The chain cannot be linked when a row was taken out of it.
- `PlainDamage`: edits and deletions inside the chain may be among them, any
  number of them; cuts of the end and changes together with the hash are not. A
  shorter chain, or one whose last row was rewritten, is linked again, and its
  anchors are not of it.
- no requests: nobody verifies through a GET request. Such a verification reads
  some rows from the primary and others from a lagging replica, and may take the
  difference for a mismatch (section 4); the timers' verifications, of any number,
  remain.
- `PagesHold`: no ledger has more operations than a page (200). The code reads
  one page, so `EventsExact` fails without it; `PageTheorem` says what holds
  then: the rows are those of one first page, never a mixture of two, and all of
  them unless the ledger is torn or a call is at it.

**StateChannel.** None of the properties is inductive. `JournalInv` adds to
`JournalIsLinear` what handlers keep across an await: every state they have read
or will settle is one the row has held (`ReadsKnown`, `SweepsKnown`), what is about
to be appended was valid for the record that was read (`AppendsValid`), and no two
handlers are about to write the same journal entry, or one that is there or lost
(`WritersApart`). The step that matters is `AppendUpdate`: the compare-and-set on
the sequence makes the row's latest state the very one the update was validated
against, since `agreed` has one state for a sequence. The new state is then written
by this handler (`WriteJournal`) or lost with it, which is what keeps the account of
the missing entries. `ExclusiveInv` says that a handler that holds a claim finds the
row in `settling`, that two never hold the same one, and the same of funding.
`ClaimsInv` adds what a handler about to claim knows: a record read as settled is
still settled. From these follow `OneSettler` and `SettledIsFinal`. `LedgerInv` ties
transactions, handlers that wait for them, escrow and payout together: a waiting
handler's transaction carries a state of `agreed`, and a successful settlement is the
payout. It yields `SettledIsPaid`, and all of them together the refinement of
`ChannelPromise`, with one step lemma per action.

**LedgerIngestion.** `IInv` has three parts. `IndexOK`: types, `OneLedgerPerSequence`,
`EventsBelong`, and that the active ledgers are bounded (so that a last one exists,
by well-founded induction on the numbers). `WorkersOK`: what a worker has fetched is
operations of its next ledger's sequence (where operations of another sequence could
be served, an upsert could credit them to a ledger that keeps them already); at most
one worker is between two writes (`OneHolder`); and what it has decided under the lock
still fits the index (`HoldOK`): the events of the ledgers it is about to mark are
gone, and its ledger fits on top of what is left. `CountsOK` are the members' tips
and the faults. From `IInv` each disjunct of `Ingest` is a step of `LedgerHistory` or
changes nothing. `PageInv` says of each ledger in force that its rows are a part of
one first page of its sequence, and the whole of it unless the ledger is torn or
underway (`PageExact`), and of the call that is at it that written and still to be
written make up that page (`FetchedOK`): it takes no operation from a ledger that
stays, since these lie below and operations of two sequences differ. With
`PagesHold` the first page is everything.

**AuditChain.** `TypeInv` adds to `TypeOK` that a range about to be anchored is
not empty. `LockInv`: a recorder that has built a row holds the lock, and its
sequence is behind all rows. `AnchorInv`: an anchor, and a range about to become
one, starts at the first entry or right behind a range that is anchored or revoked
(`Continues`); each job's anchor is its own, and pending, or anchored and about to be
marked failed (`OwnOK`); and a revoked anchor is marked failed (`RevokedOK`). So no step takes a range out of those that
are anchored or revoked (`Kept`). `AnchorsCover` follows: of these ranges that end
behind an entry that none holds, one that ends first would continue another that
ends behind it. `ChainInv`: the chain is intact and without a gap, and a built row
follows the head (`FollowsHead`); it needs `LockInv`, which lets only one row be
built at a time. `ReachInv`: no anchor or range reaches past the chain. With these, a
`CommitAppend` is a `Record`, an update that moves the latest anchor forward is a
`Seal`, one that revokes an anchor is a `TakeBack`, and every other step changes
neither log nor seal.

`AuditVerificationProofs` needs no hypothesis for `DamageIsFound` and
`TamperedNotAnchored`. `ScanInv` says, of each thing that has been wrong all
through a verification, why it does not escape (`Caught`). Something wrong with a
row is ahead of the scan, or in the batch that was read and will give a finding, or
ahead of that batch too, which then was full or ends before what the instance
appended; or there is a finding already. For a broken link the scan has, when it is
right before the row, the hash the row does not link to (`Ahead`). Something wrong
with a range is wrong with the one whose hashes are about to be read, since all the
latest anchors end where it does, and on the replica where they do on the primary
(`CopyInv`). What others do in between can only take from what has been wrong all
through, and an instance's highest entry only grows until it stops, and its jobs
with it. The batches are exact: the first numbers of a set, with none left out
between (`BatchShape`), which is shown on cardinalities.

The rest of the module goes on when rows may be edited, and rows inside the chain
deleted, at any time and in any number. `Bad` is the set of sequences whose row is
missing or is not what was hashed; under `PlainDamage` it only grows, for what a
row was changed to was never hashed (`Unhashed`), and it is empty exactly if the
chain is linked. `GrowInv`: stored neighbours are linked, whatever has become of
their contents, and what a process remembers as its highest entry is there.
`TrueInv`: while nothing is bad, an anchor, and a range that was read, has the root
of its range; appends fall behind it. That the count is right too follows from it:
the hashes of a range of a linked chain are as many as its sequences, as each
contains its own. `HonestInv` is the converse of `ScanInv`: while nothing is bad,
`prev` is the hash of row `last`, a batch is a stretch of the chain as it is, though
it may have grown since, and nothing has been found but a missing end.

**MerkleRoot.** `LevelInv`: the levels of both sides have the same shape, and are
equal exactly if the lists are; `Parents` is injective on lists of one length.

**GasStation.** `LocalInv` ties a request's label to its attempts and its charge.
`TurnInv`: a running callback is the first of its pod's chain, and holds the lock
unless it has stalled; with both, two callbacks of one pod would be one, and of
two pods one has stalled. `SlotInv`: who holds a slot finds it set, and a slot
that is set has somebody who keeps it. `PaidInv` is what makes `LandedIsCharged`
inductive: an inner transaction may be on the ledger through one request while
another one for it is refunded, and then the charge that backs it is not the one
given back. Whether a request is excused may change only with the ledger and with
what the request was told (`ExcusesKept`). `QuotaInv` is `QuotaLaw`, that only finitely many requests have been
charged so far (so that there is a sum, however many there may be), and that
nothing is stray before midnight. Its sums are folds that take their elements in
an order the definition leaves open. `Tally` is the same sum as a function on
the subsets of a finite set; that it exists, and that taking any element out
first gives the same, are shown by well-founded induction on cardinalities. Each
step then moves at most one fee from one sum to another (`MovedIn`, `MovedOut`).

**WebhookDelivery.** `RefsInv`: what refers to a delivery refers to one that was
made. Four invariants are about one key at a time. `JobOK`: an active job has an
owner, and a live one attempts left. `RunOK`: what a worker is at agrees with the
job, and it has the job, or the job has stalled. `EndOK`: a job that has ended has
delivered, is buried, or is excused, or is about to be buried. `OnceOK`: an accepted
event is excused, or was taken once and will not be sent again for a reason that
`Held` names: the worker that has the job is handling the answer, or has gone, so
that only a stall can free the job; the completed job is retained; or the job is
forgotten and a history knows it. `SafeInv` accounts for every delivery
(`Accounted`), and `QueuedInv` says that a re-trigger about to be marked has its job.
`PausesLast` needs the types alone, one step for each action that writes a circuit.

**Idempotency.** `CaptureInv`: captured responses follow their handlers, and only
what took effect is stored. `LockInv`: without the three reasons of `OneAtATime`,
who is handled has the lock. `StoreInv`: without any reason, a response on its way
to be stored keeps the lock, nobody is handled once a response is stored, and
what took effect is stored or on its way. A second operation would then take
effect under a lock that the first one still has.

**Only model-checked.** Liveness (`DisputeSettles`, `CatchesUp`,
`EntriesGetAnchored`, `EveryRequestEnds`, `EveryJobEnds`), for TLAPS does not
reason about fairness and `ENABLED`.

## 10. Plan

What the routing does to transactions (section 1) is in the models by its effect:
the operations of `appendUpdate` and of `ingestLedger` commit one by one. What is
left of it is the routing itself.

1. **DbRouting** (`db/index.ts`, `db/requestContext.ts`): primary, lagging
   replica, read-your-writes window, replica circuit, and the five seconds after
   which an interactive transaction ends under its callback, which `AuditChain` and
   `LedgerIngestion` assume not to pass. Abstract specification: a client that reads
   its own writes. Then compose it with the GET verification of `AuditChain`.
2. **ChainIndexer** (`blockchain/chain-indexer-engine.ts`): deliveries out of
   order, twice and concurrently, against `LedgerHistory`.
3. **EventIngestor** (`indexer/`, `db/eventStore.ts`): concurrent flushes,
   deduplication, checkpoint; abstract specification: every event stored before
   the checkpoint passes it. The Rust indexer's `reorg.rs` beside it.
4. **Redlock** (`lib/lock/RedlockCoordinator.ts`): quorum, drift, and the
   coordinators in `db/` that rely on it.
5. **CircuitBreaker**, then `multisig_wallet_timelock` and `payment_streaming`.

Also seen in `db/index.ts`: a read that the replica rejects is returned without
`await` inside its `try`, so that it is neither counted against the replica nor
"falling back to primary"; and the read-your-writes mark is kept per process, and
set by one route only.

Instances stay at two or three actors of each kind and one or two faults. The
number of runs stays small: a new component gets one safety run, one liveness run
where something must happen, and a violated one where code and documentation
disagree; related instances of the present components are merged to make room.

Theorems next: the safety of DbRouting and of the ingestor's checkpoint, once
they are modelled.

## 11. Running

    tlc -workers 2 -config MCStateChannel.cfg MCStateChannel
    tlapm AuditChainProofs.tla

`PROJECT.json` lists every run with its configuration and properties, for each
property a mutation of a definition that violates it (defined beside the original
and marked *Mutant*), the source lines of each definition, the hazards, the
divergences found, and the theorems.
