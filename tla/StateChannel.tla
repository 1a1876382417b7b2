---------------------------- MODULE StateChannel ----------------------------
(***************************************************************************)
(* The off-chain state channels of the backend:                            *)
(* services/stateChannelService.ts (the coordinator) over                  *)
(* db/channelStore.ts (its rows) and the Soroban channel contract.         *)
(*                                                                         *)
(* Handlers are the HTTP requests and the dispute sweeps running at one    *)
(* time, on any number of server instances.  A handler runs without a gap  *)
(* between two awaits, so each action below is the code from one await to  *)
(* the next; db and journal are the rows of state_channels and             *)
(* state_channel_updates; txs, escrow and paid are the ledger.  agreed and *)
(* lost are history: no code reads them.                                   *)
(***************************************************************************)
EXTENDS Naturals

CONSTANTS
    Channels,       \* channel ids
    Requests,       \* HTTP handlers (open, update, dispute)
    Sweepers,       \* runs of the dispute watcher, one per server instance
    Milestones,     \* milestone ids
    Reward,         \* rewardStroops of every channel
    SignedStates,   \* the signed states clients may send
    TxIds, NoTx,    \* ledger transaction hashes, and null
    Faults,         \* which of {"crash", "db", "rpc", "timeout", "chain"} occur
    MaxFaults       \* how often, in all

Parties == {"student", "mentor"}

Statuses == {"absent", "pending_funding", "open", "disputed", "settling", "settled"}

Handlers == Requests \cup Sweepers

\* signedBy: whose signature over the state's hash verifies.
State == [channel: Channels, sequence: Nat, milestones: SUBSET Milestones,
          student: Nat, mentor: Nat, isFinal: BOOLEAN, signedBy: SUBSET Parties]

ASSUME RewardNat       == Reward \in Nat
ASSUME SignedStatesOK  == SignedStates \subseteq State
ASSUME NoTxOK          == NoTx \notin TxIds
ASSUME HandlersOK      == Requests \cap Sweepers = {}
ASSUME MaxFaultsNat    == MaxFaults \in Nat

\* latestState of a channel on which nothing has been co-signed yet (null).
Unsigned(c) == [channel |-> c, sequence |-> 0, milestones |-> {}, student |-> 0,
                mentor |-> 0, isFinal |-> FALSE, signedBy |-> {}]

\* A row of state_channels.  latest stands for the columns latestSequence,
\* latestState and the two signatures, which are always written together.
Row == [status: Statuses, latest: State, settlementTx: TxIds \cup {NoTx}]

NoRow(c) == [status |-> "absent", latest |-> Unsigned(c), settlementTx |-> NoTx]

\* The awaits a handler can be at.
Labels == {"idle", "fund", "fund_wait", "mark_funded", "append", "journal", "reread",
           "dispute", "sweep", "claim", "settle", "settle_wait", "mark_settled", "release"}

TxStatuses == {"none", "pending", "success", "failed"}

Tx == [status: TxStatuses, kind: {"fund", "settle"}, state: State]

VARIABLES
    db,         \* channel -> row of state_channels
    deadline,   \* channel -> its disputeDeadline: null, or ahead of or behind the clock
    journal,    \* channel -> rows of state_channel_updates
    agreed,     \* channel -> the co-signed states its row has held so far (history)
    lost,       \* channel -> those whose appendUpdate broke off before the journal (history)
    txs,        \* transaction -> what the ledger knows of it
    escrow,     \* channel -> has the contract received the reward?
    paid,       \* channel -> the state the contract has paid out
    pc,         \* handler -> the await it is at
    chan,       \* handler -> the channel it serves
    rec,        \* handler -> the row it has read
    sgn,        \* handler -> the signed state it was sent
    tid,        \* handler -> the transaction it waits for
    todo,       \* sweeper -> the rows of findExpiredDisputes not yet settled
    faults      \* faults so far

past   == <<agreed, lost>>
stores == <<db, deadline, journal, past>>
chain  == <<txs, escrow, paid>>
locals == <<pc, chan, rec, sgn, tid, todo>>
vars   == <<db, deadline, journal, agreed, lost, txs, escrow, paid, pc, chan, rec, sgn, tid, todo,
            faults>>

Fault(kind) ==
    /\ kind \in Faults
    /\ faults < MaxFaults
    /\ faults' = faults + 1

Init ==
    /\ db = [c \in Channels |-> NoRow(c)]
    /\ deadline = [c \in Channels |-> "none"]
    /\ journal = [c \in Channels |-> {}]
    /\ agreed = [c \in Channels |-> {}]
    /\ lost = [c \in Channels |-> {}]
    /\ escrow = [c \in Channels |-> FALSE]
    /\ paid = [c \in Channels |-> Unsigned(c)]
    /\ pc = [h \in Handlers |-> "idle"]
    /\ \E c \in Channels :
            /\ txs = [t \in TxIds |-> [status |-> "none", kind |-> "fund", state |-> Unsigned(c)]]
            /\ chan = [h \in Handlers |-> c]
            /\ rec = [h \in Handlers |-> NoRow(c)]
            /\ sgn = [h \in Handlers |-> Unsigned(c)]
    /\ tid = [h \in Handlers |-> NoTx]
    /\ todo = [h \in Handlers |-> {}]
    /\ faults = 0

-----------------------------------------------------------------------------
(* How a handler moves on.                                                 *)

Goto(h, label) == pc' = [pc EXCEPT ![h] = label]

\* The handler is done with its channel; a sweep goes on to its next one.
Finish(h) ==
    /\ Goto(h, IF todo[h] = {} THEN "idle" ELSE "sweep")
    /\ rec' = [rec EXCEPT ![h] = NoRow(chan[h])]
    /\ sgn' = [sgn EXCEPT ![h] = Unsigned(chan[h])]
    /\ tid' = [tid EXCEPT ![h] = NoTx]
    /\ UNCHANGED <<chan, todo>>

\* A request arrives at an idle handler, which reads the channel's row.
Receive(h, c, s, label) ==
    /\ h \in Requests
    /\ pc[h] = "idle"
    /\ Goto(h, label)
    /\ chan' = [chan EXCEPT ![h] = c]
    /\ rec' = [rec EXCEPT ![h] = db[c]]
    /\ sgn' = [sgn EXCEPT ![h] = s]
    /\ UNCHANGED <<tid, todo>>

SetStatus(c, s) == db' = [db EXCEPT ![c].status = s]

-----------------------------------------------------------------------------
(* openChannel                                                             *)

\* store.create, up to the call of settlement.fundChannel.
OpenChannel(h, c) ==
    /\ db[c].status = "absent"
    /\ Receive(h, c, Unsigned(c), "fund")
    /\ SetStatus(c, "pending_funding")
    /\ UNCHANGED <<deadline, journal, past, chain, faults>>

\* A hash that is new; one of a failed transaction that nobody asks for any more
\* is as good as new, so that TxIds bounds those pending, waited for or applied.
Unused(t) ==
    \/ txs[t].status = "none"
    \/ txs[t].status = "failed" /\ \A h \in Handlers : tid[h] # t

\* invoke: sendTransaction accepts a new transaction.
Send(h, kind, s, label) ==
    \E t \in TxIds :
        /\ Unused(t)
        /\ txs' = [txs EXCEPT ![t] = [status |-> "pending", kind |-> kind, state |-> s]]
        /\ tid' = [tid EXCEPT ![h] = t]
        /\ Goto(h, label)
        /\ UNCHANGED <<stores, escrow, paid, chan, rec, sgn, todo, faults>>

SendFund(h) ==
    /\ pc[h] = "fund"
    /\ Send(h, "fund", Unsigned(chan[h]), "fund_wait")

FundConfirmed(h) ==
    /\ pc[h] = "fund_wait"
    /\ txs[tid[h]].status = "success"
    /\ Goto(h, "mark_funded")
    /\ UNCHANGED <<stores, chain, chan, rec, sgn, tid, todo, faults>>

\* The invocation threw: before it was sent, because it failed, or because
\* thirty polls (or a broken connection) ended before the ledger answered.
InvokeThrows(h, sending, waiting) ==
    \/ /\ pc[h] = sending
       /\ Fault("rpc")
    \/ /\ pc[h] = waiting
       /\ txs[tid[h]].status = "failed"
       /\ UNCHANGED faults
    \/ /\ pc[h] = waiting
       /\ txs[tid[h]].status = "pending"
       /\ Fault("timeout")

\* The row stays in pending_funding.
FundThrows(h) ==
    /\ InvokeThrows(h, "fund", "fund_wait")
    /\ Finish(h)
    /\ UNCHANGED <<stores, chain>>

\* Mutant: the status column is a plain string, and this is not one of its values.
MarkFundedMisspelt(h) ==
    /\ pc[h] = "mark_funded"
    /\ SetStatus(chan[h], "funded")
    /\ Finish(h)
    /\ UNCHANGED <<deadline, journal, past, chain, faults>>

\* An update by id, whatever the status.
MarkFunded(h) ==
    /\ pc[h] = "mark_funded"
    /\ SetStatus(chan[h], "open")
    /\ Finish(h)
    /\ UNCHANGED <<deadline, journal, past, chain, faults>>

-----------------------------------------------------------------------------
(* submitUpdate                                                            *)

\* Mutant: the check of the milestones is forgotten.
ValidWithFewerMilestones(c, row, s) ==
    /\ s.channel = c
    /\ s.sequence = row.latest.sequence + 1
    /\ s.student + s.mentor <= Reward
    /\ s.signedBy = Parties

\* validateSignedState against the row that was read.
ValidSignedState(c, row, s) ==
    /\ s.channel = c
    /\ s.sequence = row.latest.sequence + 1
    /\ row.latest.milestones \subseteq s.milestones
    /\ s.student + s.mentor <= Reward
    /\ s.signedBy = Parties

\* The read and the checks that follow it; a request that fails them changes nothing.
SubmitUpdate(h, c, s) ==
    /\ db[c].status \in {"open", "disputed"}
    /\ ValidSignedState(c, db[c], s)
    /\ Receive(h, c, s, "append")
    /\ UNCHANGED <<stores, chain, faults>>

\* Mutant: the compare-and-set compares the status only.
AppendableAtAnySequence(c, s) == db[c].status \in {"open", "disputed"}

\* The condition of the updateMany in appendUpdate.
Appendable(c, s) ==
    /\ db[c].latest.sequence = s.sequence - 1
    /\ db[c].status \in {"open", "disputed"}

\* The updateMany of appendUpdate.  The routed client runs every model operation
\* on the base client (db/index.ts), so that it commits here, whatever becomes
\* of the transaction around it.
AppendUpdate(h) ==
    LET c == chan[h]
        s == sgn[h]
    IN  /\ pc[h] = "append"
        /\ Appendable(c, s)
        /\ db' = [db EXCEPT ![c].latest = s]
        /\ agreed' = [agreed EXCEPT ![c] = @ \cup {s}]
        /\ Goto(h, "journal")
        /\ UNCHANGED <<deadline, journal, lost, chain, chan, rec, sgn, tid, todo, faults>>

\* The create of appendUpdate, by itself as well.
WriteJournal(h) ==
    /\ pc[h] = "journal"
    /\ journal' = [journal EXCEPT ![chan[h]] = @ \cup {sgn[h]}]
    /\ Goto(h, "reread")
    /\ UNCHANGED <<db, deadline, past, chain, chan, rec, sgn, tid, todo, faults>>

\* SequenceConflictError
AppendConflict(h) ==
    /\ pc[h] = "append"
    /\ ~Appendable(chan[h], sgn[h])
    /\ Finish(h)
    /\ UNCHANGED <<stores, chain, faults>>

\* getChannel after the append, and then settleLatest if the state is final.
Reread(h) ==
    /\ pc[h] = "reread"
    /\ IF sgn[h].isFinal
         THEN /\ Goto(h, "claim")
              /\ rec' = [rec EXCEPT ![h] = db[chan[h]]]
              /\ UNCHANGED <<chan, sgn, tid, todo>>
         ELSE Finish(h)
    /\ UNCHANGED <<stores, chain, faults>>

-----------------------------------------------------------------------------
(* initiateDispute                                                         *)

\* A participant's request, signed over the sequence of the row that is read.
InitiateDispute(h, c) ==
    /\ db[c].status = "open"
    /\ db[c].latest.sequence >= 1
    /\ Receive(h, c, Unsigned(c), "dispute")
    /\ UNCHANGED <<stores, chain, faults>>

\* Mutant: an update by id, which relies on the status read before.
StartDisputeUnconditionally(h) ==
    /\ pc[h] = "dispute"
    /\ SetStatus(chan[h], "disputed")
    /\ deadline' = [deadline EXCEPT ![chan[h]] = "running"]
    /\ Finish(h)
    /\ UNCHANGED <<journal, past, chain, faults>>

StartDispute(h) ==
    LET c == chan[h]
    IN  /\ pc[h] = "dispute"
        /\ IF db[c].status = "open"
             THEN /\ SetStatus(c, "disputed")
                  /\ deadline' = [deadline EXCEPT ![c] = "running"]
             ELSE UNCHANGED <<db, deadline>>
        /\ Finish(h)
        /\ UNCHANGED <<journal, past, chain, faults>>

\* The clock reaches disputeDeadline.
DeadlinePasses(c) ==
    /\ deadline[c] = "running"
    /\ deadline' = [deadline EXCEPT ![c] = "expired"]
    /\ UNCHANGED <<db, journal, past, chain, locals, faults>>

-----------------------------------------------------------------------------
(* sweepExpiredDisputes and settleLatest                                   *)

Expired == {c \in Channels : db[c].status = "disputed" /\ deadline[c] = "expired"}

\* findExpiredDisputes reads all the rows at once; they are settled one by one.
BeginSweep(h) ==
    /\ h \in Sweepers
    /\ pc[h] = "idle"
    /\ Expired # {}
    /\ todo' = [todo EXCEPT ![h] = {[channel |-> c, row |-> db[c]] : c \in Expired}]
    /\ Goto(h, "sweep")
    /\ UNCHANGED <<stores, chain, chan, rec, sgn, tid, faults>>

SweepNext(h) ==
    /\ pc[h] = "sweep"
    /\ \E e \in todo[h] :
            /\ chan' = [chan EXCEPT ![h] = e.channel]
            /\ rec' = [rec EXCEPT ![h] = e.row]
            /\ sgn' = [sgn EXCEPT ![h] = Unsigned(e.channel)]
            /\ todo' = [todo EXCEPT ![h] = @ \ {e}]
    /\ Goto(h, "claim")
    /\ UNCHANGED <<stores, chain, tid, faults>>

From(h) == IF h \in Sweepers THEN {"disputed"} ELSE {"open", "disputed"}

\* Mutant: the claim relies on the status read before.
ClaimableByRecord(h) ==
    /\ rec[h].latest.signedBy = Parties
    /\ rec[h].status \in From(h)

\* claimForSettlement: a compare-and-set on the status alone.
Claimable(h) ==
    /\ rec[h].latest.signedBy = Parties
    /\ db[chan[h]].status \in From(h)

Claim(h) ==
    /\ pc[h] = "claim"
    /\ Claimable(h)
    /\ SetStatus(chan[h], "settling")
    /\ Goto(h, "settle")
    /\ UNCHANGED <<deadline, journal, past, chain, chan, rec, sgn, tid, todo, faults>>

ClaimRefused(h) ==
    /\ pc[h] = "claim"
    /\ ~Claimable(h)
    /\ Finish(h)
    /\ UNCHANGED <<stores, chain, faults>>

\* settlement.settle with the state of the row read before the claim.
SendSettle(h) ==
    /\ pc[h] = "settle"
    /\ Send(h, "settle", rec[h].latest, "settle_wait")

\* Mutant: a transaction that was accepted for processing counts as settled.
SettleConfirmedEarly(h) ==
    /\ pc[h] = "settle_wait"
    /\ txs[tid[h]].status \in {"pending", "success"}
    /\ Goto(h, "mark_settled")
    /\ UNCHANGED <<stores, chain, chan, rec, sgn, tid, todo, faults>>

SettleConfirmed(h) ==
    /\ pc[h] = "settle_wait"
    /\ txs[tid[h]].status = "success"
    /\ Goto(h, "mark_settled")
    /\ UNCHANGED <<stores, chain, chan, rec, sgn, tid, todo, faults>>

\* Mutant: the failure is passed on and the claim not given back.
SettleThrowsOnly(h) ==
    /\ InvokeThrows(h, "settle", "settle_wait")
    /\ Finish(h)
    /\ UNCHANGED <<stores, chain>>

SettleThrows(h) ==
    /\ InvokeThrows(h, "settle", "settle_wait")
    /\ Goto(h, "release")
    /\ UNCHANGED <<stores, chain, chan, rec, sgn, tid, todo>>

\* An update by id, whatever the status.
MarkSettled(h) ==
    /\ pc[h] = "mark_settled"
    /\ db' = [db EXCEPT ![chan[h]] = [@ EXCEPT !.status = "settled",
                                               !.settlementTx = tid[h]]]
    /\ Finish(h)
    /\ UNCHANGED <<deadline, journal, past, chain, faults>>

\* releaseSettlement, back to the status of the row read before the claim.
ReleaseSettlement(h) ==
    /\ pc[h] = "release"
    /\ IF db[chan[h]].status = "settling"
         THEN SetStatus(chan[h], rec[h].status)
         ELSE UNCHANGED db
    /\ Finish(h)
    /\ UNCHANGED <<deadline, journal, past, chain, faults>>

-----------------------------------------------------------------------------
(* The ledger, and what can go wrong.                                      *)

\* The contract (external) takes the reward once and pays out once, after that.
Accepts(t) ==
    LET c == txs[t].state.channel
    IN  IF txs[t].kind = "fund" THEN ~escrow[c]
                                ELSE escrow[c] /\ paid[c] = Unsigned(c)

TxLands(t) ==
    LET c == txs[t].state.channel
    IN  /\ txs[t].status = "pending"
        /\ Accepts(t)
        /\ txs' = [txs EXCEPT ![t].status = "success"]
        /\ IF txs[t].kind = "fund"
             THEN escrow' = [escrow EXCEPT ![c] = TRUE] /\ UNCHANGED paid
             ELSE paid' = [paid EXCEPT ![c] = txs[t].state] /\ UNCHANGED escrow
        /\ UNCHANGED <<stores, locals, faults>>

\* The contract refuses it; or the ledger does, or drops it when it expires.
TxFails(t) ==
    /\ txs[t].status = "pending"
    /\ \/ ~Accepts(t) /\ UNCHANGED faults
       \/ Fault("chain")
    /\ txs' = [txs EXCEPT ![t].status = "failed"]
    /\ UNCHANGED <<stores, escrow, paid, locals>>

\* What a handler that ends between the two writes of appendUpdate leaves unwritten.
LeaveUnwritten(h) ==
    /\ lost' = IF pc[h] = "journal" THEN [lost EXCEPT ![chan[h]] = @ \cup {sgn[h]}] ELSE lost
    /\ UNCHANGED <<db, deadline, journal, agreed>>

\* A database call of the handler throws.  It changed nothing, or it was carried
\* out and its answer lost, which is this step after the call's own.  None of these
\* calls is inside the try of settleLatest: its markSettled is not awaited there.
DbError(h) ==
    /\ pc[h] \in {"mark_funded", "append", "journal", "reread", "dispute", "claim",
                  "mark_settled", "release"}
    /\ Fault("db")
    /\ LeaveUnwritten(h)
    /\ Finish(h)
    /\ UNCHANGED chain

\* The claim is carried out and its answer lost: nobody gives it back.
ClaimUnanswered(h) ==
    /\ pc[h] = "claim"
    /\ Claimable(h)
    /\ Fault("db")
    /\ SetStatus(chan[h], "settling")
    /\ Finish(h)
    /\ UNCHANGED <<deadline, journal, past, chain>>

\* The server instance stops.
Crash(h) ==
    /\ pc[h] # "idle"
    /\ Fault("crash")
    /\ LeaveUnwritten(h)
    /\ Goto(h, "idle")
    /\ rec' = [rec EXCEPT ![h] = NoRow(chan[h])]
    /\ sgn' = [sgn EXCEPT ![h] = Unsigned(chan[h])]
    /\ tid' = [tid EXCEPT ![h] = NoTx]
    /\ todo' = [todo EXCEPT ![h] = {}]
    /\ UNCHANGED <<chain, chan>>

-----------------------------------------------------------------------------

\* What a handler does once it runs.
Continue(h) ==
    \/ SendFund(h) \/ FundConfirmed(h) \/ FundThrows(h) \/ MarkFunded(h)
    \/ AppendUpdate(h) \/ AppendConflict(h) \/ WriteJournal(h) \/ Reread(h)
    \/ StartDispute(h)
    \/ SweepNext(h) \/ Claim(h) \/ ClaimRefused(h)
    \/ SendSettle(h) \/ SettleConfirmed(h) \/ SettleThrows(h)
    \/ MarkSettled(h) \/ ReleaseSettlement(h)

Arrive(h) ==
    \E c \in Channels :
        \/ OpenChannel(h, c)
        \/ \E s \in SignedStates : SubmitUpdate(h, c, s)
        \/ InitiateDispute(h, c)

Fails(h) == DbError(h) \/ ClaimUnanswered(h) \/ Crash(h)

Ledger(t) == TxLands(t) \/ TxFails(t)

Next ==
    \/ \E h \in Handlers :
            Arrive(h) \/ BeginSweep(h) \/ Continue(h) \/ Fails(h)
    \/ \E c \in Channels : DeadlinePasses(c)
    \/ \E t \in TxIds : Ledger(t)

Spec == Init /\ [][Next]_vars

\* Node.js runs every continuation that is ready, the interval timer of the
\* watcher fires for ever, time passes, and the ledger answers; clients may
\* stop sending at any time.
Fairness ==
    /\ \A h \in Handlers : WF_vars(Continue(h)) /\ WF_vars(BeginSweep(h))
    /\ \A c \in Channels : WF_vars(DeadlinePasses(c))
    /\ \A t \in TxIds : WF_vars(Ledger(t))

FairSpec == Spec /\ Fairness

-----------------------------------------------------------------------------
(* Properties.                                                             *)

\* Every variable holds what its comment says (stateChannelService.ts and
\* channelStore.ts: the rows, and what a handler keeps across an await).
TypeOK ==
    /\ db \in [Channels -> Row]
    /\ deadline \in [Channels -> {"none", "running", "expired"}]
    /\ journal \in [Channels -> SUBSET State]
    /\ agreed \in [Channels -> SUBSET State]
    /\ lost \in [Channels -> SUBSET State]
    /\ txs \in [TxIds -> Tx]
    /\ escrow \in [Channels -> BOOLEAN]
    /\ paid \in [Channels -> State]
    /\ pc \in [Handlers -> Labels]
    /\ chan \in [Handlers -> Channels]
    /\ rec \in [Handlers -> Row]
    /\ sgn \in [Handlers -> State]
    /\ tid \in [Handlers -> TxIds \cup {NoTx}]
    /\ todo \in [Handlers -> SUBSET [channel: Channels, row: Row]]
    /\ faults \in 0 .. MaxFaults

\* However requests interleave between the read, the validation and the
\* compare-and-set of appendUpdate, the states a channel's row has held are one
\* line of co-signed states without a gap or a fork: sequences 1, 2, ... up to
\* latestSequence, each signed by both for this channel, within the reward,
\* and with every milestone of the states before it.
AgreedIsLinear ==
    \A c \in Channels :
        /\ {s.sequence : s \in agreed[c]} = 1 .. db[c].latest.sequence
        /\ db[c].latest \in agreed[c] \cup {Unsigned(c)}
        /\ \A s \in agreed[c] :
                s.channel = c /\ s.signedBy = Parties /\ s.student + s.mentor <= Reward
        /\ \A s1, s2 \in agreed[c] :
                /\ s1.sequence = s2.sequence => s1 = s2
                /\ s1.sequence < s2.sequence => s1.milestones \subseteq s2.milestones

\* h is between the two writes of appendUpdate.
Writing(h) == pc[h] = "journal"

\* The journal is that line, except for the states that a request is about to
\* write and those whose request broke off between the two writes: each is
\* missing for one of these reasons and no other.
JournalIsLinear ==
    /\ AgreedIsLinear
    /\ \A c \in Channels :
            /\ journal[c] \cap lost[c] = {}
            /\ agreed[c] = journal[c] \cup lost[c]
                                \cup {sgn[h] : h \in {g \in Handlers : Writing(g) /\ chan[g] = c}}

\* h has claimed its channel and not yet settled or released it.
Holding(h) == pc[h] \in {"settle", "settle_wait", "mark_settled", "release"}

\* claimForSettlement lets one handler at a time settle a channel, and nobody
\* moves the channel out of settling under its feet: not another request, not
\* a sweep of another instance, not a release that comes late.
OneSettler ==
    \A h \in Handlers : Holding(h) =>
        /\ db[chan[h]].status = "settling"
        /\ \A g \in Handlers : Holding(g) /\ chan[g] = chan[h] => g = h

\* A row says settled only if the transaction it names succeeded, for this
\* channel, and the state it paid out is one that both signed and the row held,
\* be its journal entry written, still to be written, or lost.
SettledIsPaid ==
    \A c \in Channels : db[c].status = "settled" =>
        /\ db[c].settlementTx # NoTx
        /\ txs[db[c].settlementTx] = [status |-> "success", kind |-> "settle", state |-> paid[c]]
        /\ paid[c] \in agreed[c]

\* settled is the end: no late update, dispute, release or markFunded touches
\* a settled channel again, and its journal gains at most the entry of a state
\* agreed before.
SettledIsFinal ==
    [][\A c \in Channels : db[c].status = "settled" =>
            db'[c] = db[c] /\ agreed'[c] = agreed[c] /\ journal'[c] \subseteq agreed[c]]_vars

\* The component keeps the promise of ChannelPromise.
Phase(c) ==
    CASE db[c].status = "absent" -> "absent"
      [] db[c].status = "pending_funding" -> "pending"
      [] db[c].status = "settled" -> "closed"
      [] OTHER -> "live"

Promise == INSTANCE ChannelPromise WITH
    Proposals <- SignedStates,
    phase     <- [c \in Channels |-> Phase(c)],
    funded    <- escrow,
    history   <- agreed,
    recorded  <- journal,
    payout    <- [c \in Channels |-> {paid[c]} \ {Unsigned(c)}]

KeepsPromise == Promise!Spec

\* The contract has paid by a settlement that invoke gave up on: it refuses every
\* later one, so that no handler can mark the row any more.
PaidUnnoticed(c) ==
    \E t \in TxIds :
        /\ txs[t].status = "success" /\ txs[t].kind = "settle" /\ txs[t].state.channel = c
        /\ \A h \in Handlers : tid[h] # t

\* A failed cooperative settlement has put the channel back to open (DisputeIsKept).
DisputeLost(c) == db[c].status = "open" /\ deadline[c] # "none"

\* A handler has claimed the channel after it read the row while another one was
\* settling it: if it fails, it puts the channel back to settling, for good.
HeldOnSettling(c) ==
    \E h \in Handlers : Holding(h) /\ chan[h] = c /\ rec[h].status = "settling"

\* A disputed channel whose window has closed gets settled (initiateDispute:
\* "the dispute watcher settles the latest state on-chain"), although the ledger
\* or the RPC node may fail or answer too late a bounded number of times on the
\* way, and cooperative settlements run beside the watcher; unless it was paid
\* unnoticed, or a cooperative settlement that fails puts it back where the
\* watcher never looks.
DisputeSettles ==
    \A c \in Channels :
        c \in Expired ~>
            db[c].status = "settled" \/ PaidUnnoticed(c) \/ DisputeLost(c) \/ HeldOnSettling(c)

\* settleLatest: "Put the channel back so a retry (or the dispute watcher) can
\* settle it."  A channel whose dispute is running must stay where the
\* watcher looks for it.
DisputeIsKept ==
    \A c \in Channels : deadline[c] # "none" => db[c].status # "open"

=============================================================================
