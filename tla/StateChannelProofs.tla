------------------------- MODULE StateChannelProofs -------------------------
(***************************************************************************)
(* What StateChannel guarantees for any channels, handlers, signed states  *)
(* and faults: its types, the linear history, the exclusive claim, the     *)
(* meaning and finality of "settled", and the promise of ChannelPromise.   *)
(***************************************************************************)
EXTENDS StateChannel, TLAPS

LEMMA UnsignedType == \A c \in Channels : Unsigned(c) \in State
  BY DEF Unsigned, State

LEMMA NoRowType == \A c \in Channels : NoRow(c) \in Row
  BY UnsignedType DEF NoRow, Row, Statuses

\* Finish resets the locals of a handler and keeps their types.
LEMMA FinishType ==
  ASSUME TypeOK, NEW h \in Handlers, Finish(h)
  PROVE  /\ pc' \in [Handlers -> Labels]
         /\ chan' \in [Handlers -> Channels]
         /\ rec' \in [Handlers -> Row]
         /\ sgn' \in [Handlers -> State]
         /\ tid' \in [Handlers -> TxIds \cup {NoTx}]
         /\ todo' \in [Handlers -> SUBSET [channel: Channels, row: Row]]
  BY UnsignedType, NoRowType DEF TypeOK, Finish, Goto, Labels

LEMMA StatusType ==
  ASSUME TypeOK, NEW c \in Channels, NEW s \in Statuses, SetStatus(c, s)
  PROVE  db' \in [Channels -> Row]
<1>1. db \in [Channels -> Row] /\ db[c] \in Row
  BY DEF TypeOK
<1>2. [db[c] EXCEPT !.status = s] \in Row
  BY <1>1 DEF Row
<1> QED BY <1>1, <1>2 DEF SetStatus

LEMMA FaultType ==
  ASSUME TypeOK, NEW k, Fault(k)
  PROVE  faults' \in 0 .. MaxFaults
  BY MaxFaultsNat DEF TypeOK, Fault

LEMMA TypeInit == Init => TypeOK
  BY UnsignedType, NoRowType, MaxFaultsNat
  DEF Init, TypeOK, Labels, Tx, TxStatuses

LEMMA TypeStep == TypeOK /\ [Next]_vars => TypeOK'
<1> SUFFICES ASSUME TypeOK, [Next]_vars PROVE TypeOK'
  OBVIOUS
<1> USE DEF stores, past, chain, locals
<1>1. ASSUME NEW h \in Handlers, NEW c \in Channels, OpenChannel(h, c) PROVE TypeOK'
  <2>1. db' \in [Channels -> Row]
    BY <1>1, StatusType DEF OpenChannel, Statuses
  <2> QED BY <1>1, <2>1, UnsignedType DEF OpenChannel, Receive, Goto, TypeOK, Labels
<1>2. ASSUME NEW h \in Handlers, NEW c \in Channels, NEW s \in SignedStates, SubmitUpdate(h, c, s)
      PROVE TypeOK'
  BY <1>2, SignedStatesOK DEF SubmitUpdate, Receive, Goto, TypeOK, Labels
<1>3. ASSUME NEW h \in Handlers, NEW c \in Channels, InitiateDispute(h, c) PROVE TypeOK'
  BY <1>3, UnsignedType DEF InitiateDispute, Receive, Goto, TypeOK, Labels
<1>4. ASSUME NEW h \in Handlers, SendFund(h) PROVE TypeOK'
  BY <1>4, UnsignedType DEF SendFund, Send, Goto, TypeOK, Labels, Tx, TxStatuses
<1>5. ASSUME NEW h \in Handlers, FundConfirmed(h) PROVE TypeOK'
  BY <1>5 DEF FundConfirmed, Goto, TypeOK, Labels
<1>6. ASSUME NEW h \in Handlers, FundThrows(h) PROVE TypeOK'
  BY <1>6, FinishType, FaultType DEF FundThrows, InvokeThrows, TypeOK
<1>7. ASSUME NEW h \in Handlers, MarkFunded(h) PROVE TypeOK'
  <2>1. chan[h] \in Channels /\ "open" \in Statuses
    BY DEF TypeOK, Statuses
  <2>2. db' \in [Channels -> Row]
    BY <1>7, <2>1, StatusType DEF MarkFunded
  <2> QED BY <1>7, <2>2, FinishType DEF MarkFunded, TypeOK
<1>8. ASSUME NEW h \in Handlers, AppendUpdate(h) PROVE TypeOK'
  <2>1. chan[h] \in Channels /\ sgn[h] \in State
    BY DEF TypeOK
  <2>2. db \in [Channels -> Row] /\ [db[chan[h]] EXCEPT !.latest = sgn[h]] \in Row
    BY <2>1 DEF TypeOK, Row
  <2>3. db' \in [Channels -> Row]
    BY <1>8, <2>1, <2>2 DEF AppendUpdate
  <2> QED BY <1>8, <2>1, <2>3 DEF AppendUpdate, Goto, TypeOK, Labels
<1>9. ASSUME NEW h \in Handlers, AppendConflict(h) PROVE TypeOK'
  BY <1>9, FinishType DEF AppendConflict, TypeOK
<1>10. ASSUME NEW h \in Handlers, Reread(h) PROVE TypeOK'
  <2>1. CASE sgn[h].isFinal
    BY <1>10, <2>1 DEF Reread, Goto, TypeOK, Labels
  <2>2. CASE ~sgn[h].isFinal
    BY <1>10, <2>2, FinishType DEF Reread, TypeOK
  <2> QED BY <2>1, <2>2
<1>11. ASSUME NEW h \in Handlers, StartDispute(h) PROVE TypeOK'
  <2>1. chan[h] \in Channels /\ "disputed" \in Statuses
    BY DEF TypeOK, Statuses
  <2>2. db' \in [Channels -> Row]
    BY <1>11, <2>1, StatusType DEF StartDispute, TypeOK
  <2>3. deadline' \in [Channels -> {"none", "running", "expired"}]
    BY <1>11, <2>1 DEF StartDispute, TypeOK
  <2> QED BY <1>11, <2>2, <2>3, FinishType DEF StartDispute, TypeOK
<1>12. ASSUME NEW c \in Channels, DeadlinePasses(c) PROVE TypeOK'
  BY <1>12 DEF DeadlinePasses, TypeOK
<1>13. ASSUME NEW h \in Handlers, BeginSweep(h) PROVE TypeOK'
  BY <1>13 DEF BeginSweep, Expired, Goto, TypeOK, Labels
<1>14. ASSUME NEW h \in Handlers, SweepNext(h) PROVE TypeOK'
  BY <1>14, UnsignedType DEF SweepNext, Goto, TypeOK, Labels
<1>15. ASSUME NEW h \in Handlers, Claim(h) PROVE TypeOK'
  <2>1. chan[h] \in Channels /\ "settling" \in Statuses
    BY DEF TypeOK, Statuses
  <2>2. db' \in [Channels -> Row]
    BY <1>15, <2>1, StatusType DEF Claim
  <2> QED BY <1>15, <2>2 DEF Claim, Goto, TypeOK, Labels
<1>16. ASSUME NEW h \in Handlers, ClaimRefused(h) PROVE TypeOK'
  BY <1>16, FinishType DEF ClaimRefused, TypeOK
<1>17. ASSUME NEW h \in Handlers, SendSettle(h) PROVE TypeOK'
  BY <1>17 DEF SendSettle, Send, Goto, TypeOK, Labels, Tx, TxStatuses, Row
<1>18. ASSUME NEW h \in Handlers, SettleConfirmed(h) PROVE TypeOK'
  BY <1>18 DEF SettleConfirmed, Goto, TypeOK, Labels
<1>19. ASSUME NEW h \in Handlers, SettleThrows(h) PROVE TypeOK'
  BY <1>19, FaultType DEF SettleThrows, InvokeThrows, Goto, TypeOK, Labels
<1>20. ASSUME NEW h \in Handlers, MarkSettled(h) PROVE TypeOK'
  <2>1. chan[h] \in Channels /\ tid[h] \in TxIds \cup {NoTx} /\ "settled" \in Statuses
    BY DEF TypeOK, Statuses
  <2>2. db \in [Channels -> Row] /\ db[chan[h]] \in Row
    BY <2>1 DEF TypeOK
  <2>3. [db[chan[h]] EXCEPT !.status = "settled", !.settlementTx = tid[h]] \in Row
    BY <2>1, <2>2 DEF Row
  <2>4. db' \in [Channels -> Row]
    BY <1>20, <2>1, <2>2, <2>3 DEF MarkSettled
  <2> QED BY <1>20, <2>4, FinishType DEF MarkSettled, TypeOK
<1>21. ASSUME NEW h \in Handlers, ReleaseSettlement(h) PROVE TypeOK'
  <2>1. chan[h] \in Channels /\ rec[h].status \in Statuses
    BY DEF TypeOK, Row
  <2>2. db' \in [Channels -> Row]
    BY <1>21, <2>1, StatusType DEF ReleaseSettlement, TypeOK
  <2> QED BY <1>21, <2>2, FinishType DEF ReleaseSettlement, TypeOK
<1>22. ASSUME NEW t \in TxIds, TxLands(t) PROVE TypeOK'
  <2>1. txs[t].state \in State /\ txs[t].state.channel \in Channels
    BY DEF TypeOK, Tx, State
  <2>2. txs' \in [TxIds -> Tx]
    BY <1>22 DEF TxLands, TypeOK, Tx, TxStatuses
  <2>3. escrow' \in [Channels -> BOOLEAN] /\ paid' \in [Channels -> State]
    BY <1>22, <2>1 DEF TxLands, TypeOK
  <2> QED BY <1>22, <2>2, <2>3 DEF TxLands, TypeOK
<1>23. ASSUME NEW t \in TxIds, TxFails(t) PROVE TypeOK'
  <2>1. txs' \in [TxIds -> Tx]
    BY <1>23 DEF TxFails, TypeOK, Tx, TxStatuses
  <2>2. faults' \in 0 .. MaxFaults
    BY <1>23, FaultType DEF TxFails, TypeOK
  <2> QED BY <1>23, <2>1, <2>2 DEF TxFails, TypeOK
<1>24. ASSUME NEW h \in Handlers, DbError(h) PROVE TypeOK'
  BY <1>24, FinishType, FaultType DEF DbError, LeaveUnwritten, TypeOK
<1>25. ASSUME NEW h \in Handlers, Crash(h) PROVE TypeOK'
  BY <1>25, UnsignedType, NoRowType, FaultType DEF Crash, LeaveUnwritten, Goto, TypeOK, Labels
<1>27. ASSUME NEW h \in Handlers, WriteJournal(h) PROVE TypeOK'
  BY <1>27 DEF WriteJournal, Goto, TypeOK, Labels
<1>28. ASSUME NEW h \in Handlers, ClaimUnanswered(h) PROVE TypeOK'
  <2>1. chan[h] \in Channels /\ "settling" \in Statuses
    BY DEF TypeOK, Statuses
  <2>2. db' \in [Channels -> Row]
    BY <1>28, <2>1, StatusType DEF ClaimUnanswered
  <2> QED BY <1>28, <2>2, FinishType, FaultType DEF ClaimUnanswered, TypeOK
<1>26. CASE UNCHANGED vars
  BY <1>26 DEF vars, TypeOK
<1> QED
  BY <1>1, <1>2, <1>3, <1>4, <1>5, <1>6, <1>7, <1>8, <1>9, <1>10, <1>11, <1>12, <1>13,
     <1>14, <1>15, <1>16, <1>17, <1>18, <1>19, <1>20, <1>21, <1>22, <1>23, <1>24, <1>25, <1>26,
     <1>27, <1>28
  DEF Next, Arrive, Continue, Fails, Ledger

\* The rows, the ledger's records and what handlers keep across an await always
\* have the shape the code of channelStore.ts and stateChannelService.ts relies on.
THEOREM TypeCorrect == Spec => []TypeOK
  BY TypeInit, TypeStep, PTL DEF Spec

-----------------------------------------------------------------------------
(* The agreed states.  A compare-and-set on latestSequence protects them   *)
(* because what a handler read is one of them: the state it appends        *)
(* extends a state that is known, and the sequence says which one.         *)

Known(c, s) == s \in agreed[c] \cup {Unsigned(c)}

ReadsKnown == \A h \in Handlers : Known(chan[h], rec[h].latest)

SweepsKnown == \A h \in Handlers : \A e \in todo[h] : Known(e.channel, e.row.latest)

AppendsValid == \A h \in Handlers :
    pc[h] = "append" => sgn[h] \in SignedStates /\ ValidSignedState(chan[h], rec[h], sgn[h])

LocalsKnown == ReadsKnown /\ SweepsKnown /\ AppendsValid

\* A state that a request is about to write is in no other hand, and neither
\* written nor given up.
WritersApart ==
    /\ \A h \in Handlers : Writing(h) => sgn[h] \notin journal[chan[h]] \cup lost[chan[h]]
    /\ \A h, g \in Handlers :
            Writing(h) /\ Writing(g) /\ chan[g] = chan[h] /\ sgn[g] = sgn[h] => g = h

JournalInv == JournalIsLinear /\ LocalsKnown /\ WritersApart

InFlight(c) == {sgn[h] : h \in {g \in Handlers : Writing(g) /\ chan[g] = c}}

RowsKept ==
    /\ UNCHANGED <<journal, agreed, lost>>
    /\ \A c \in Channels : db'[c].latest = db[c].latest

\* The step neither begins nor ends the write of a journal entry.
WritersKept == \A g \in Handlers :
    /\ Writing(g)' <=> Writing(g)
    /\ Writing(g) => chan'[g] = chan[g] /\ sgn'[g] = sgn[g]

LEMMA StatusKeepsRows ==
  ASSUME TypeOK, NEW c \in Channels, NEW s, SetStatus(c, s), UNCHANGED <<journal, agreed, lost>>
  PROVE  RowsKept
  BY DEF RowsKept, SetStatus, TypeOK, Row

LEMMA DbKeepsRows ==
  ASSUME UNCHANGED <<db, journal, agreed, lost>>
  PROVE  RowsKept
  BY DEF RowsKept

LEMMA WritersStay ==
  ASSUME TypeOK, NEW h \in Handlers, ~Writing(h), NEW l, l # "journal", Goto(h, l),
         \A g \in Handlers \ {h} : chan'[g] = chan[g] /\ sgn'[g] = sgn[g]
  PROVE  WritersKept
  BY DEF WritersKept, Writing, Goto, TypeOK

LEMMA FinishStays ==
  ASSUME TypeOK, NEW h \in Handlers, ~Writing(h), Finish(h)
  PROVE  WritersKept
  BY DEF WritersKept, Writing, Finish, Goto, TypeOK

\* What a handler knows when it is done, or waits for something else.
LEMMA FinishKnown ==
  ASSUME TypeOK, LocalsKnown, NEW h \in Handlers, Finish(h), agreed' = agreed
  PROVE  LocalsKnown'
  BY DEF Finish, Goto, LocalsKnown, ReadsKnown, SweepsKnown, AppendsValid, Known, NoRow, TypeOK

LEMMA WaitKnown ==
  ASSUME TypeOK, LocalsKnown, NEW h \in Handlers, NEW l, l # "append", Goto(h, l),
         UNCHANGED <<agreed, chan, rec, sgn, todo>>
  PROVE  LocalsKnown'
  BY DEF Goto, LocalsKnown, ReadsKnown, SweepsKnown, AppendsValid, Known, TypeOK

LEMMA ReceiveKnown ==
  ASSUME TypeOK, JournalInv, NEW h \in Handlers, NEW c \in Channels, NEW s, NEW l,
         Receive(h, c, s, l), agreed' = agreed,
         l = "append" => s \in SignedStates /\ ValidSignedState(c, db[c], s)
  PROVE  LocalsKnown'
<1>1. Known(c, db[c].latest)
  BY DEF JournalInv, JournalIsLinear, AgreedIsLinear, Known
<1> QED
  BY <1>1 DEF Receive, Goto, JournalInv, LocalsKnown, ReadsKnown, SweepsKnown, AppendsValid,
              Known, TypeOK

LEMMA IdleKnown ==
  ASSUME LocalsKnown, UNCHANGED <<agreed, locals>>
  PROVE  LocalsKnown'
  BY DEF locals, LocalsKnown, ReadsKnown, SweepsKnown, AppendsValid, Known

LEMMA RowsKeptLinear ==
  ASSUME JournalIsLinear, WritersApart, RowsKept, WritersKept, TypeOK
  PROVE  JournalIsLinear' /\ WritersApart'
<1>1. AgreedIsLinear'
  BY DEF JournalIsLinear, AgreedIsLinear, RowsKept, Unsigned, Parties
<1>2. \A c \in Channels : InFlight(c)' = InFlight(c)
  BY DEF InFlight, WritersKept
<1>3. JournalIsLinear'
  BY <1>1, <1>2 DEF JournalIsLinear, RowsKept, InFlight
<1>4. WritersApart'
  BY DEF WritersApart, RowsKept, WritersKept
<1> QED BY <1>3, <1>4

\* The heart of the matter: appendUpdate extends the journal by one state that
\* agrees with all the states before it.
LEMMA AppendLinear ==
  ASSUME TypeOK, JournalInv, NEW h \in Handlers, AppendUpdate(h)
  PROVE  AgreedIsLinear' /\ LocalsKnown' /\ sgn[h] \notin agreed[chan[h]]
<1> DEFINE c == chan[h]
           s == sgn[h]
           n == db[c].latest.sequence
<1>1. c \in Channels /\ s \in State /\ s.sequence \in Nat /\ n \in Nat /\ n = s.sequence - 1
  BY DEF AppendUpdate, Appendable, TypeOK, Row, State
<1>2. /\ agreed' = [agreed EXCEPT ![c] = @ \cup {s}]
      /\ db'[c].latest = s
      /\ \A d \in Channels \ {c} : db'[d] = db[d]
  BY <1>1 DEF AppendUpdate, TypeOK, Row
<1>3. agreed'[c] = agreed[c] \cup {s} /\ \A d \in Channels \ {c} : agreed'[d] = agreed[d]
  BY <1>1, <1>2 DEF TypeOK
<1>4. /\ s.channel = c
      /\ s.signedBy = Parties
      /\ s.student + s.mentor <= Reward
      /\ s.sequence = rec[h].latest.sequence + 1
      /\ rec[h].latest.milestones \subseteq s.milestones
  BY DEF AppendUpdate, JournalInv, LocalsKnown, AppendsValid, ValidSignedState
<1>5. /\ {r.sequence : r \in agreed[c]} = 1 .. n
      /\ db[c].latest \in agreed[c] \cup {Unsigned(c)}
      /\ rec[h].latest \in agreed[c] \cup {Unsigned(c)}
      /\ agreed[c] \subseteq State
  BY <1>1 DEF JournalInv, JournalIsLinear, AgreedIsLinear, LocalsKnown, ReadsKnown, Known, TypeOK
<1>6. \A r \in agreed[c] : r.sequence \in 1 .. n
  BY <1>5
<1>7. \A r \in agreed[c] : r.milestones \subseteq s.milestones
  <2>1. SUFFICES ASSUME NEW r \in agreed[c] PROVE r.milestones \subseteq s.milestones
    OBVIOUS
  <2>2. r.sequence \in 1 .. n /\ rec[h].latest.sequence = n
    <3>1. rec[h].latest.sequence \in Nat
      BY DEF TypeOK, Row, State
    <3> QED BY <3>1, <1>1, <1>4, <1>6
  <2>3. rec[h].latest \in agreed[c]
    BY <2>2, <1>5 DEF Unsigned
  <2>4. CASE r.sequence = n
    BY <2>2, <2>3, <2>4, <1>1, <1>4 DEF JournalInv, JournalIsLinear, AgreedIsLinear
  <2>5. CASE r.sequence < n
    BY <2>2, <2>3, <2>5, <1>1, <1>4 DEF JournalInv, JournalIsLinear, AgreedIsLinear
  <2> QED BY <2>2, <2>4, <2>5, <1>1
<1>8. {r.sequence : r \in agreed'[c]} = 1 .. s.sequence
  <2>1. {r.sequence : r \in agreed'[c]} = {r.sequence : r \in agreed[c]} \cup {s.sequence}
    BY <1>3
  <2>2. 1 .. s.sequence = (1 .. n) \cup {s.sequence}
    BY <1>1
  <2> QED BY <2>1, <2>2, <1>5
<1>9. AgreedIsLinear'
  <2>1. SUFFICES ASSUME NEW d \in Channels
                 PROVE  /\ {r.sequence : r \in agreed'[d]} = 1 .. db'[d].latest.sequence
                        /\ db'[d].latest \in agreed'[d] \cup {Unsigned(d)}
                        /\ \A r \in agreed'[d] :
                              r.channel = d /\ r.signedBy = Parties /\ r.student + r.mentor <= Reward
                        /\ \A r1, r2 \in agreed'[d] :
                              /\ r1.sequence = r2.sequence => r1 = r2
                              /\ r1.sequence < r2.sequence => r1.milestones \subseteq r2.milestones
    BY DEF AgreedIsLinear, Unsigned, Parties
  <2>2. CASE d # c
    BY <2>2, <1>1, <1>2, <1>3 DEF JournalInv, JournalIsLinear, AgreedIsLinear
  <2>3. CASE d = c
    <3>1. \A r \in agreed[c] :
            r.channel = c /\ r.signedBy = Parties /\ r.student + r.mentor <= Reward
      BY <1>1 DEF JournalInv, JournalIsLinear, AgreedIsLinear
    <3>2. \A r1, r2 \in agreed[c] :
            /\ r1.sequence = r2.sequence => r1 = r2
            /\ r1.sequence < r2.sequence => r1.milestones \subseteq r2.milestones
      BY <1>1 DEF JournalInv, JournalIsLinear, AgreedIsLinear
    <3>3. \A r \in agreed[c] : r.sequence < s.sequence
      BY <1>1, <1>6
    <3>4. \A r1, r2 \in agreed'[c] :
            /\ r1.sequence = r2.sequence => r1 = r2
            /\ r1.sequence < r2.sequence => r1.milestones \subseteq r2.milestones
      BY <3>2, <3>3, <1>1, <1>3, <1>5, <1>7 DEF State
    <3> QED BY <2>3, <3>1, <3>4, <1>2, <1>3, <1>4, <1>8
  <2> QED BY <2>2, <2>3
<1>10. LocalsKnown'
  BY <1>1, <1>3 DEF AppendUpdate, Goto, JournalInv, LocalsKnown, ReadsKnown, SweepsKnown,
                    AppendsValid, Known, TypeOK
<1>11. s \notin agreed[c]
  BY <1>1, <1>6
<1> QED BY <1>9, <1>10, <1>11

LEMMA Account ==
  ASSUME JournalIsLinear, NEW d \in Channels
  PROVE  /\ journal[d] \cap lost[d] = {}
         /\ agreed[d] = journal[d] \cup lost[d] \cup InFlight(d)
  BY DEF JournalIsLinear, InFlight

\* Between the two writes of appendUpdate: what its first one begins, its second
\* one ends, and a failure in between gives up.
LEMMA AppendBegins ==
  ASSUME TypeOK, JournalInv, NEW h \in Handlers, AppendUpdate(h)
  PROVE  JournalInv'
<1> DEFINE s == sgn[h]
<1>0. PICK c \in Channels : c = chan[h]
  BY DEF TypeOK
<1>1. AgreedIsLinear' /\ LocalsKnown' /\ s \notin agreed[c]
  BY <1>0, AppendLinear
<1>2. /\ c \in Channels /\ agreed' = [agreed EXCEPT ![c] = @ \cup {s}]
      /\ UNCHANGED <<journal, lost, chan, sgn>>
      /\ pc'[h] = "journal" /\ pc[h] = "append"
      /\ \A g \in Handlers \ {h} : pc'[g] = pc[g]
  BY <1>0 DEF AppendUpdate, Goto, past, chain, TypeOK
<1>3. /\ agreed'[c] = agreed[c] \cup {s}
      /\ \A d \in Channels \ {c} : agreed'[d] = agreed[d]
  BY <1>2 DEF TypeOK
<1>4. \A g \in Handlers : Writing(g)' <=> Writing(g) \/ g = h
  BY <1>2 DEF Writing
<1>5. /\ InFlight(c)' = InFlight(c) \cup {s}
      /\ \A d \in Channels \ {c} : InFlight(d)' = InFlight(d)
  BY <1>0, <1>2, <1>4 DEF InFlight
<1>6. JournalIsLinear'
  <2>1. SUFFICES ASSUME NEW d \in Channels
                 PROVE  /\ journal[d] \cap lost[d] = {}
                        /\ agreed'[d] = journal[d] \cup lost[d] \cup InFlight(d)'
    BY <1>1, <1>2 DEF JournalIsLinear, InFlight
  <2>2. /\ journal[d] \cap lost[d] = {}
        /\ agreed[d] = journal[d] \cup lost[d] \cup InFlight(d)
    BY Account DEF JournalInv
  <2>3. CASE d = c
    BY <2>2, <2>3, <1>3, <1>5
  <2>4. CASE d # c
    BY <2>2, <2>4, <1>3, <1>5
  <2> QED BY <2>3, <2>4
<1>7. WritersApart'
  <2>1. s \notin journal[c] \cup lost[c]
    BY <1>1, <1>2 DEF JournalInv, JournalIsLinear
  <2>2. \A g \in Handlers : Writing(g) /\ chan[g] = c => sgn[g] # s
    <3>1. InFlight(c) \subseteq agreed[c]
      BY <1>2 DEF JournalInv, JournalIsLinear, InFlight
    <3> QED BY <1>1, <3>1 DEF InFlight
  <2> QED BY <1>0, <1>2, <1>4, <2>1, <2>2 DEF JournalInv, WritersApart
<1> QED BY <1>1, <1>6, <1>7 DEF JournalInv

LEMMA SetMove ==
  ASSUME NEW J, NEW L, NEW I, NEW J2, NEW L2, NEW I2, NEW s,
         J \cap L = {}, s \notin J \cup L, I = I2 \cup {s},
         \/ J2 = J \cup {s} /\ L2 = L
         \/ L2 = L \cup {s} /\ J2 = J
  PROVE  J2 \cap L2 = {} /\ J \cup L \cup I = J2 \cup L2 \cup I2
<1>1. J \cup L \cup I = J \cup L \cup {s} \cup I2
  OBVIOUS
<1>2. J2 \cup L2 = J \cup L \cup {s}
  OBVIOUS
<1> QED BY <1>1, <1>2

\* h stops writing its state s, which goes to the journal or to the lost ones.
LEMMA AppendEnds ==
  ASSUME TypeOK, JournalInv, NEW h \in Handlers, Writing(h), ~Writing(h)',
         \A g \in Handlers \ {h} : pc'[g] = pc[g] /\ chan'[g] = chan[g] /\ sgn'[g] = sgn[g],
         UNCHANGED agreed, \A d \in Channels : db'[d].latest = db[d].latest,
         \/ journal' = [journal EXCEPT ![chan[h]] = @ \cup {sgn[h]}] /\ lost' = lost
         \/ lost' = [lost EXCEPT ![chan[h]] = @ \cup {sgn[h]}] /\ journal' = journal
  PROVE  JournalIsLinear' /\ WritersApart'
<1> DEFINE s == sgn[h]
<1>0. PICK c \in Channels : c = chan[h]
  BY DEF TypeOK
<1>1. c \in Channels /\ s \notin journal[c] \cup lost[c]
  BY <1>0 DEF JournalInv, WritersApart
<1>2. AgreedIsLinear'
  BY DEF JournalInv, JournalIsLinear, AgreedIsLinear, Unsigned, Parties
<1>3. \A g \in Handlers : Writing(g)' <=> Writing(g) /\ g # h
  BY DEF Writing
<1>4. /\ InFlight(c) = InFlight(c)' \cup {s}
      /\ \A d \in Channels \ {c} : InFlight(d)' = InFlight(d)
  <2>1. \A g \in Handlers \ {h} : Writing(g)' <=> Writing(g)
    BY <1>3
  <2>2. ASSUME NEW x
        PROVE  x \in InFlight(c)' <=> \E g \in Handlers \ {h} : Writing(g) /\ chan[g] = c /\ sgn[g] = x
    BY <1>3 DEF InFlight
  <2>3. ASSUME NEW x
        PROVE  x \in InFlight(c) <=> \E g \in Handlers : Writing(g) /\ chan[g] = c /\ sgn[g] = x
    BY DEF InFlight
  <2>4. InFlight(c) = InFlight(c)' \cup {s}
    BY <1>0, <2>2, <2>3
  <2>5. ASSUME NEW d \in Channels \ {c} PROVE InFlight(d)' = InFlight(d)
    BY <1>0, <1>3 DEF InFlight
  <2> QED BY <2>4, <2>5
<1>5. \A g \in Handlers : Writing(g)' /\ chan'[g] = c => sgn'[g] # s
  BY <1>0, <1>3 DEF JournalInv, WritersApart
<1>6. /\ journal'[c] \cup lost'[c] = journal[c] \cup lost[c] \cup {s}
      /\ \A d \in Channels \ {c} : journal'[d] = journal[d] /\ lost'[d] = lost[d]
      /\ \/ journal'[c] = journal[c] \cup {s} /\ lost'[c] = lost[c]
         \/ lost'[c] = lost[c] \cup {s} /\ journal'[c] = journal[c]
  BY <1>0, <1>1 DEF TypeOK
<1>7. JournalIsLinear'
  <2>1. SUFFICES ASSUME NEW d \in Channels
                 PROVE  /\ journal'[d] \cap lost'[d] = {}
                        /\ agreed[d] = journal'[d] \cup lost'[d] \cup InFlight(d)'
    BY <1>2 DEF JournalIsLinear, InFlight
  <2>2. /\ journal[d] \cap lost[d] = {}
        /\ agreed[d] = journal[d] \cup lost[d] \cup InFlight(d)
    BY Account DEF JournalInv
  <2>3. CASE d = c
    <3>1. journal[c] \cap lost[c] = {} /\ InFlight(c) = InFlight(c)' \cup {s}
      BY <2>2, <2>3, <1>4
    <3>2. /\ journal'[c] \cap lost'[c] = {}
          /\ journal[c] \cup lost[c] \cup InFlight(c)
               = journal'[c] \cup lost'[c] \cup InFlight(c)'
      BY ONLY <3>1, <1>1, <1>6, SetMove
    <3> HIDE DEF InFlight
    <3> QED BY <2>2, <2>3, <3>2
  <2>4. CASE d # c
    BY <2>2, <2>4, <1>4, <1>6
  <2> QED BY <2>3, <2>4
<1>8. WritersApart'
  <2>1. ASSUME NEW g \in Handlers, Writing(g)' PROVE sgn'[g] \notin journal'[chan'[g]] \cup lost'[chan'[g]]
    <3>1. Writing(g) /\ g # h /\ chan'[g] = chan[g] /\ sgn'[g] = sgn[g] /\ chan[g] \in Channels
      BY <2>1, <1>3 DEF TypeOK
    <3>2. sgn[g] \notin journal[chan[g]] \cup lost[chan[g]]
      BY <3>1 DEF JournalInv, WritersApart
    <3>3. chan[g] = c => sgn[g] # s
      BY <2>1, <3>1, <1>5
    <3> QED BY <3>1, <3>2, <3>3, <1>6
  <2>2. \A k, g \in Handlers :
          Writing(k)' /\ Writing(g)' /\ chan'[g] = chan'[k] /\ sgn'[g] = sgn'[k] => g = k
    BY <1>3 DEF JournalInv, WritersApart
  <2> QED BY <2>1, <2>2 DEF WritersApart, Writing
<1> QED BY <1>7, <1>8

LEMMA JournalInit == Init => JournalInv
<1> SUFFICES ASSUME Init PROVE JournalInv
  OBVIOUS
<1>1. JournalIsLinear
  <2>1. \A c \in Channels : agreed[c] = {} /\ db[c].latest = Unsigned(c)
    BY DEF Init, NoRow
  <2>2. \A c \in Channels : {s.sequence : s \in agreed[c]} = 1 .. db[c].latest.sequence
    <3> SUFFICES ASSUME NEW c \in Channels
                 PROVE  {s.sequence : s \in agreed[c]} = 1 .. db[c].latest.sequence
      OBVIOUS
    <3>1. {s.sequence : s \in agreed[c]} = {}
      BY <2>1
    <3>2. db[c].latest.sequence = 0
      <4>1. db[c].latest = Unsigned(c)
        BY <2>1
      <4> QED BY <4>1 DEF Unsigned
    <3>3. 1 .. 0 = {}
      OBVIOUS
    <3> QED BY <3>1, <3>2, <3>3
  <2>3. AgreedIsLinear
    BY <2>1, <2>2 DEF AgreedIsLinear
  <2>4. /\ \A h \in Handlers : ~Writing(h)
        /\ \A c \in Channels : journal[c] = {} /\ lost[c] = {}
    BY DEF Init, Writing
  <2> QED BY <2>1, <2>3, <2>4 DEF JournalIsLinear
<1>2. ReadsKnown
  BY DEF Init, ReadsKnown, Known, NoRow
<1>3. SweepsKnown /\ AppendsValid
  BY DEF Init, SweepsKnown, AppendsValid
<1>4. WritersApart
  BY DEF Init, WritersApart, Writing
<1> QED BY <1>1, <1>2, <1>3, <1>4 DEF JournalInv, LocalsKnown

LEMMA JournalStep == TypeOK /\ JournalInv /\ [Next]_vars => JournalInv'
<1> SUFFICES ASSUME TypeOK, JournalInv, [Next]_vars PROVE JournalInv'
  OBVIOUS
<1> USE DEF stores, past, chain
<1>a. JournalIsLinear /\ LocalsKnown /\ WritersApart
  BY DEF JournalInv
<1>b. ASSUME RowsKept, LocalsKnown', WritersKept PROVE JournalInv'
  BY <1>a, <1>b, RowsKeptLinear DEF JournalInv
\* A handler that writes no journal entry is done, receives or goes on.
<1>f. ASSUME NEW h \in Handlers, ~Writing(h), Finish(h), agreed' = agreed
      PROVE  LocalsKnown' /\ WritersKept
  BY <1>a, <1>f, FinishKnown, FinishStays
<1>g. ASSUME NEW h \in Handlers, ~Writing(h), NEW l, l \notin {"append", "journal"}, Goto(h, l),
             UNCHANGED <<agreed, chan, rec, sgn, todo>>
      PROVE  LocalsKnown' /\ WritersKept
  BY <1>a, <1>g, WaitKnown, WritersStay
<1>r. ASSUME NEW h \in Handlers, NEW c \in Channels, NEW s, NEW l, l # "journal",
             Receive(h, c, s, l), agreed' = agreed,
             l = "append" => s \in SignedStates /\ ValidSignedState(c, db[c], s)
      PROVE  LocalsKnown' /\ WritersKept
  <2>1. LocalsKnown'
    BY <1>r, ReceiveKnown
  <2>2. ~Writing(h) /\ Goto(h, l) /\ \A g \in Handlers \ {h} : chan'[g] = chan[g] /\ sgn'[g] = sgn[g]
    BY <1>r DEF Receive, Writing, TypeOK
  <2> QED BY <1>r, <2>1, <2>2, WritersStay
<1>i. ASSUME UNCHANGED agreed, UNCHANGED locals PROVE LocalsKnown' /\ WritersKept
  BY <1>a, <1>i, IdleKnown DEF WritersKept, Writing, locals
<1>1. ASSUME NEW h \in Handlers, NEW c \in Channels, OpenChannel(h, c) PROVE JournalInv'
  <2>1. RowsKept
    BY <1>1, StatusKeepsRows DEF OpenChannel
  <2>2. LocalsKnown' /\ WritersKept
    BY <1>1, <1>r DEF OpenChannel
  <2> QED BY <2>1, <2>2, <1>b
<1>2. ASSUME NEW h \in Handlers, NEW c \in Channels, NEW s \in SignedStates, SubmitUpdate(h, c, s)
      PROVE JournalInv'
  <2>1. LocalsKnown' /\ WritersKept
    BY <1>2, <1>r DEF SubmitUpdate
  <2> QED BY <1>2, <2>1, <1>b, DbKeepsRows DEF SubmitUpdate
<1>3. ASSUME NEW h \in Handlers, NEW c \in Channels, InitiateDispute(h, c) PROVE JournalInv'
  <2>1. LocalsKnown' /\ WritersKept
    BY <1>3, <1>r DEF InitiateDispute
  <2> QED BY <1>3, <2>1, <1>b, DbKeepsRows DEF InitiateDispute
<1>4. ASSUME NEW h \in Handlers, SendFund(h) PROVE JournalInv'
  <2>1. LocalsKnown' /\ WritersKept
    BY <1>4, <1>g DEF SendFund, Writing, Send
  <2> QED BY <1>4, <2>1, <1>b, DbKeepsRows DEF SendFund, Send
<1>5. ASSUME NEW h \in Handlers, FundConfirmed(h) PROVE JournalInv'
  <2>1. LocalsKnown' /\ WritersKept
    BY <1>5, <1>g DEF FundConfirmed, Writing
  <2> QED BY <1>5, <2>1, <1>b, DbKeepsRows DEF FundConfirmed
<1>6. ASSUME NEW h \in Handlers, FundThrows(h) PROVE JournalInv'
  <2>1. LocalsKnown' /\ WritersKept
    BY <1>6, <1>f DEF FundThrows, InvokeThrows, Writing
  <2> QED BY <1>6, <2>1, <1>b, DbKeepsRows DEF FundThrows
<1>7. ASSUME NEW h \in Handlers, MarkFunded(h) PROVE JournalInv'
  <2>1. LocalsKnown' /\ WritersKept
    BY <1>7, <1>f DEF MarkFunded, Writing
  <2>2. RowsKept
    BY <1>7, StatusKeepsRows DEF MarkFunded, TypeOK
  <2> QED BY <2>1, <2>2, <1>b
<1>8. ASSUME NEW h \in Handlers, AppendUpdate(h) PROVE JournalInv'
  BY <1>8, AppendBegins
<1>9. ASSUME NEW h \in Handlers, AppendConflict(h) PROVE JournalInv'
  <2>1. LocalsKnown' /\ WritersKept
    BY <1>9, <1>f DEF AppendConflict, Writing
  <2> QED BY <1>9, <2>1, <1>b, DbKeepsRows DEF AppendConflict
<1>10. ASSUME NEW h \in Handlers, Reread(h) PROVE JournalInv'
  <2>1. CASE sgn[h].isFinal
    <3>1. Known(chan[h], db[chan[h]].latest)
      BY DEF JournalInv, JournalIsLinear, AgreedIsLinear, Known, TypeOK
    <3>2. LocalsKnown'
      BY <1>10, <2>1, <3>1 DEF Reread, Goto, JournalInv, LocalsKnown, ReadsKnown, SweepsKnown,
                               AppendsValid, Known, TypeOK
    <3>3. WritersKept
      BY <1>10, <2>1, WritersStay DEF Reread, Writing, TypeOK
    <3> QED BY <1>10, <3>2, <3>3, <1>b, DbKeepsRows DEF Reread
  <2>2. CASE ~sgn[h].isFinal
    <3>1. LocalsKnown' /\ WritersKept
      BY <1>10, <2>2, <1>f DEF Reread, Writing
    <3> QED BY <1>10, <3>1, <1>b, DbKeepsRows DEF Reread
  <2> QED BY <2>1, <2>2
<1>11. ASSUME NEW h \in Handlers, StartDispute(h) PROVE JournalInv'
  <2>1. LocalsKnown' /\ WritersKept
    BY <1>11, <1>f DEF StartDispute, Writing
  <2>2. RowsKept
    BY <1>11, StatusKeepsRows, DbKeepsRows DEF StartDispute, TypeOK
  <2> QED BY <2>1, <2>2, <1>b
<1>12. ASSUME NEW c \in Channels, DeadlinePasses(c) PROVE JournalInv'
  BY <1>12, <1>b, <1>i, DbKeepsRows DEF DeadlinePasses
<1>13. ASSUME NEW h \in Handlers, BeginSweep(h) PROVE JournalInv'
  <2>1. \A c \in Channels : Known(c, db[c].latest)
    BY DEF JournalInv, JournalIsLinear, AgreedIsLinear, Known
  <2>2. LocalsKnown'
    BY <1>13, <2>1 DEF BeginSweep, Expired, Goto, JournalInv, LocalsKnown, ReadsKnown,
                       SweepsKnown, AppendsValid, Known, TypeOK
  <2>3. WritersKept
    BY <1>13, WritersStay DEF BeginSweep, Writing
  <2> QED BY <1>13, <2>2, <2>3, <1>b, DbKeepsRows DEF BeginSweep
<1>14. ASSUME NEW h \in Handlers, SweepNext(h) PROVE JournalInv'
  <2>1. LocalsKnown'
    BY <1>14 DEF SweepNext, Goto, JournalInv, LocalsKnown, ReadsKnown, SweepsKnown,
                 AppendsValid, Known, TypeOK
  <2>2. WritersKept
    BY <1>14, WritersStay DEF SweepNext, Writing, TypeOK
  <2> QED BY <1>14, <2>1, <2>2, <1>b, DbKeepsRows DEF SweepNext
<1>15. ASSUME NEW h \in Handlers, Claim(h) PROVE JournalInv'
  <2>1. LocalsKnown' /\ WritersKept
    BY <1>15, <1>g DEF Claim, Writing
  <2>2. RowsKept
    BY <1>15, StatusKeepsRows DEF Claim, TypeOK
  <2> QED BY <2>1, <2>2, <1>b
<1>16. ASSUME NEW h \in Handlers, ClaimRefused(h) PROVE JournalInv'
  <2>1. LocalsKnown' /\ WritersKept
    BY <1>16, <1>f DEF ClaimRefused, Writing
  <2> QED BY <1>16, <2>1, <1>b, DbKeepsRows DEF ClaimRefused
<1>17. ASSUME NEW h \in Handlers, SendSettle(h) PROVE JournalInv'
  <2>1. LocalsKnown' /\ WritersKept
    BY <1>17, <1>g DEF SendSettle, Writing, Send
  <2> QED BY <1>17, <2>1, <1>b, DbKeepsRows DEF SendSettle, Send
<1>18. ASSUME NEW h \in Handlers, SettleConfirmed(h) PROVE JournalInv'
  <2>1. LocalsKnown' /\ WritersKept
    BY <1>18, <1>g DEF SettleConfirmed, Writing
  <2> QED BY <1>18, <2>1, <1>b, DbKeepsRows DEF SettleConfirmed
<1>19. ASSUME NEW h \in Handlers, SettleThrows(h) PROVE JournalInv'
  <2>1. LocalsKnown' /\ WritersKept
    BY <1>19, <1>g DEF SettleThrows, InvokeThrows, Writing
  <2> QED BY <1>19, <2>1, <1>b, DbKeepsRows DEF SettleThrows
<1>20. ASSUME NEW h \in Handlers, MarkSettled(h) PROVE JournalInv'
  <2>1. LocalsKnown' /\ WritersKept
    BY <1>20, <1>f DEF MarkSettled, Writing
  <2>2. RowsKept
    BY <1>20 DEF MarkSettled, RowsKept, TypeOK, Row
  <2> QED BY <2>1, <2>2, <1>b
<1>21. ASSUME NEW h \in Handlers, ReleaseSettlement(h) PROVE JournalInv'
  <2>1. LocalsKnown' /\ WritersKept
    BY <1>21, <1>f DEF ReleaseSettlement, Writing
  <2>2. RowsKept
    BY <1>21, StatusKeepsRows, DbKeepsRows DEF ReleaseSettlement, TypeOK
  <2> QED BY <2>1, <2>2, <1>b
<1>22. ASSUME NEW t \in TxIds, Ledger(t) PROVE JournalInv'
  BY <1>22, <1>b, <1>i, DbKeepsRows DEF Ledger, TxLands, TxFails
<1>23. ASSUME NEW h \in Handlers, DbError(h) PROVE JournalInv'
  <2>1. LocalsKnown'
    BY <1>23, <1>a, FinishKnown DEF DbError, LeaveUnwritten
  <2>2. CASE Writing(h)
    <3>1. /\ ~Writing(h)'
          /\ \A g \in Handlers \ {h} : pc'[g] = pc[g] /\ chan'[g] = chan[g] /\ sgn'[g] = sgn[g]
      BY <1>23 DEF DbError, Finish, Goto, Writing, TypeOK
    <3>2. JournalIsLinear' /\ WritersApart'
      BY <1>23, <2>2, <3>1, AppendEnds DEF DbError, LeaveUnwritten, Writing
    <3> QED BY <2>1, <3>2 DEF JournalInv
  <2>3. CASE ~Writing(h)
    <3>1. UNCHANGED <<db, journal, agreed, lost>> /\ Finish(h)
      BY <1>23, <2>3 DEF DbError, LeaveUnwritten, Writing
    <3> QED BY <2>3, <3>1, <1>f, <1>b, DbKeepsRows
  <2> QED BY <2>2, <2>3
<1>24. ASSUME NEW h \in Handlers, Crash(h) PROVE JournalInv'
  <2>1. LocalsKnown'
    BY <1>24 DEF Crash, LeaveUnwritten, Goto, JournalInv, LocalsKnown, ReadsKnown, SweepsKnown,
                 AppendsValid, Known, NoRow, TypeOK
  <2>2. /\ ~Writing(h)'
        /\ \A g \in Handlers \ {h} : pc'[g] = pc[g] /\ chan'[g] = chan[g] /\ sgn'[g] = sgn[g]
    BY <1>24 DEF Crash, Goto, Writing, TypeOK
  <2>3. CASE Writing(h)
    <3>1. JournalIsLinear' /\ WritersApart'
      BY <1>24, <2>2, <2>3, AppendEnds DEF Crash, LeaveUnwritten, Writing
    <3> QED BY <2>1, <3>1 DEF JournalInv
  <2>4. CASE ~Writing(h)
    <3>1. UNCHANGED <<db, journal, agreed, lost>>
      BY <1>24, <2>4 DEF Crash, LeaveUnwritten, Writing
    <3>2. WritersKept
      BY <1>24, <2>4, WritersStay DEF Crash, TypeOK
    <3> QED BY <2>1, <3>1, <3>2, <1>b, DbKeepsRows
  <2> QED BY <2>3, <2>4
<1>26. ASSUME NEW h \in Handlers, WriteJournal(h) PROVE JournalInv'
  <2>1. LocalsKnown'
    BY <1>26, <1>a, WaitKnown DEF WriteJournal
  <2>2. /\ Writing(h) /\ ~Writing(h)'
        /\ \A g \in Handlers \ {h} : pc'[g] = pc[g] /\ chan'[g] = chan[g] /\ sgn'[g] = sgn[g]
    BY <1>26 DEF WriteJournal, Goto, Writing, TypeOK
  <2>3. JournalIsLinear' /\ WritersApart'
    BY <1>26, <2>2, AppendEnds DEF WriteJournal
  <2> QED BY <2>1, <2>3 DEF JournalInv
<1>27. ASSUME NEW h \in Handlers, ClaimUnanswered(h) PROVE JournalInv'
  <2>1. LocalsKnown' /\ WritersKept
    BY <1>27, <1>f DEF ClaimUnanswered, Writing
  <2>2. RowsKept
    BY <1>27, StatusKeepsRows DEF ClaimUnanswered, TypeOK
  <2> QED BY <2>1, <2>2, <1>b
<1>25. CASE UNCHANGED vars
  BY <1>25, <1>b, <1>i, DbKeepsRows DEF vars, locals
<1> QED
  BY <1>1, <1>2, <1>3, <1>4, <1>5, <1>6, <1>7, <1>8, <1>9, <1>10, <1>11, <1>12, <1>13,
     <1>14, <1>15, <1>16, <1>17, <1>18, <1>19, <1>20, <1>21, <1>22, <1>23, <1>24, <1>25,
     <1>26, <1>27
  DEF Next, Arrive, Continue, Fails

\* submitUpdate and appendUpdate: however many requests race, on however many
\* instances, the states of a row stay one line of co-signed states, and the
\* journal misses one only while its request is between its two writes, or
\* because it broke off there.
THEOREM JournalTheorem == Spec => []JournalIsLinear
<1>1. Spec => []JournalInv
  BY JournalInit, JournalStep, TypeCorrect, PTL DEF Spec
<1>2. JournalInv => JournalIsLinear
  BY DEF JournalInv
<1> QED BY <1>1, <1>2, PTL

-----------------------------------------------------------------------------
(* Funding and settling.  A channel in pending_funding or settling belongs *)
(* to at most one handler, which alone moves it on; this is what makes the *)
(* unconditional updates of markFunded and markSettled harmless.           *)

Funding(h) == pc[h] \in {"fund", "fund_wait", "mark_funded"}

ExclusiveInv ==
    /\ \A h \in Handlers : Holding(h) => db[chan[h]].status = "settling"
    /\ \A h \in Handlers : Funding(h) => db[chan[h]].status = "pending_funding"
    /\ \A h, g \in Handlers : Holding(h) /\ Holding(g) /\ chan[g] = chan[h] => g = h
    /\ \A h, g \in Handlers : Funding(h) /\ Funding(g) /\ chan[g] = chan[h] => g = h

Live == {"open", "disputed", "settling"}

Past == Live \cup {"settled"}

\* What h knows of the rows it has read.
ClaimOK(h) ==
    /\ pc[h] \in {"append", "journal", "reread"} => db[chan[h]].status \in Past
    /\ pc[h] = "claim" => /\ rec[h].status \in Past
                          /\ rec[h].status = "settled" => db[chan[h]].status = "settled"
    /\ Holding(h) => rec[h].latest.signedBy = Parties /\ rec[h].status \in Live
    /\ \A e \in todo[h] : e.row.status = "disputed"

ClaimsInv == \A h \in Handlers : ClaimOK(h)

\* Only h moves, and only on its channel c: what is left to show.
LEMMA ExclusiveStep ==
  ASSUME TypeOK, ExclusiveInv, NEW h \in Handlers, NEW c \in Channels,
         chan'[h] = c,
         \A g \in Handlers \ {h} : pc'[g] = pc[g] /\ chan'[g] = chan[g],
         \A d \in Channels \ {c} : db'[d].status = db[d].status,
         db'[c].status = db[c].status
            \/ \A g \in Handlers \ {h} : chan[g] = c => ~Holding(g) /\ ~Funding(g),
         Holding(h)' => /\ db'[c].status = "settling"
                        /\ \A g \in Handlers \ {h} : chan[g] = c => ~Holding(g),
         Funding(h)' => /\ db'[c].status = "pending_funding"
                        /\ \A g \in Handlers \ {h} : chan[g] = c => ~Funding(g)
  PROVE  ExclusiveInv'
<1>1. \A g \in Handlers \ {h} :
        /\ Holding(g)' <=> Holding(g)
        /\ Funding(g)' <=> Funding(g)
        /\ chan'[g] \in Channels
  BY DEF Holding, Funding, TypeOK
<1>2. \A g \in Handlers : Holding(g)' => db'[chan'[g]].status = "settling"
  BY <1>1 DEF ExclusiveInv
<1>3. \A g \in Handlers : Funding(g)' => db'[chan'[g]].status = "pending_funding"
  BY <1>1 DEF ExclusiveInv
<1>4. \A g, k \in Handlers : Holding(g)' /\ Holding(k)' /\ chan'[k] = chan'[g] => k = g
  BY <1>1 DEF ExclusiveInv
<1>5. \A g, k \in Handlers : Funding(g)' /\ Funding(k)' /\ chan'[k] = chan'[g] => k = g
  BY <1>1 DEF ExclusiveInv
<1> QED BY <1>2, <1>3, <1>4, <1>5 DEF ExclusiveInv, Holding, Funding

LEMMA ExclusiveIdle ==
  ASSUME ExclusiveInv, UNCHANGED <<pc, chan>>, TypeOK,
         \A c \in Channels : db'[c].status = db[c].status
  PROVE  ExclusiveInv'
  BY DEF ExclusiveInv, Holding, Funding, TypeOK

LEMMA ExclusiveInit == Init => ExclusiveInv /\ ClaimsInv
  BY DEF Init, ExclusiveInv, ClaimsInv, ClaimOK, Holding, Funding

\* h finishes, with a row that only h could be moving, or that stays as it is.
LEMMA ExclusiveFinish ==
  ASSUME TypeOK, ExclusiveInv, NEW h \in Handlers, Finish(h),
         \A d \in Channels \ {chan[h]} : db'[d].status = db[d].status,
         \/ db'[chan[h]].status = db[chan[h]].status
         \/ Holding(h) \/ Funding(h)
         \/ db[chan[h]].status \notin {"settling", "pending_funding"}
  PROVE  ExclusiveInv'
<1>1. /\ chan'[h] = chan[h] /\ chan[h] \in Channels
      /\ \A g \in Handlers \ {h} : pc'[g] = pc[g] /\ chan'[g] = chan[g]
      /\ ~Holding(h)' /\ ~Funding(h)'
  BY DEF Finish, Goto, Holding, Funding, TypeOK
<1>2. \/ db'[chan[h]].status = db[chan[h]].status
      \/ \A g \in Handlers \ {h} : chan[g] = chan[h] => ~Holding(g) /\ ~Funding(g)
  BY DEF ExclusiveInv
<1> QED BY <1>1, <1>2, ExclusiveStep

LEMMA ExclusiveNext == TypeOK /\ ExclusiveInv /\ [Next]_vars => ExclusiveInv'
<1> SUFFICES ASSUME TypeOK, ExclusiveInv, [Next]_vars PROVE ExclusiveInv'
  OBVIOUS
<1> USE DEF stores, past, chain
<1>a. ASSUME NEW h \in Handlers, NEW l, Goto(h, l), UNCHANGED <<db, chan>>,
             \/ l \notin {"fund", "fund_wait", "mark_funded", "settle", "settle_wait", "mark_settled", "release"}
             \/ Funding(h) /\ l \in {"fund", "fund_wait", "mark_funded"}
             \/ Holding(h) /\ l \in {"settle", "settle_wait", "mark_settled", "release"}
      PROVE  ExclusiveInv'
  <2>1. pc'[h] = l /\ \A g \in Handlers \ {h} : pc'[g] = pc[g] /\ chan'[g] = chan[g]
    BY <1>a DEF Goto, TypeOK
  <2>2. /\ Holding(h)' => Holding(h)
        /\ Funding(h)' => Funding(h)
        /\ chan[h] \in Channels /\ chan'[h] = chan[h]
    BY <1>a, <2>1 DEF Holding, Funding, TypeOK
  <2> QED BY <1>a, <2>1, <2>2, ExclusiveStep DEF ExclusiveInv
<1>b. ASSUME NEW h \in Handlers, NEW c \in Channels, NEW s, NEW l, Receive(h, c, s, l),
             UNCHANGED db, l \in {"append", "dispute"}
      PROVE  ExclusiveInv'
  <2>1. /\ pc'[h] = l /\ chan'[h] = c
        /\ \A g \in Handlers \ {h} : pc'[g] = pc[g] /\ chan'[g] = chan[g]
    BY <1>b DEF Receive, Goto, TypeOK
  <2>2. ~Holding(h)' /\ ~Funding(h)'
    BY <1>b, <2>1 DEF Holding, Funding
  <2> QED BY <1>b, <2>1, <2>2, ExclusiveStep
<1>1. ASSUME NEW h \in Handlers, NEW c \in Channels, OpenChannel(h, c) PROVE ExclusiveInv'
  <2>1. /\ pc'[h] = "fund" /\ chan'[h] = c
        /\ \A g \in Handlers \ {h} : pc'[g] = pc[g] /\ chan'[g] = chan[g]
    BY <1>1 DEF OpenChannel, Receive, Goto, TypeOK
  <2>2. /\ db[c].status = "absent" /\ db'[c].status = "pending_funding"
        /\ \A d \in Channels \ {c} : db'[d] = db[d]
    BY <1>1 DEF OpenChannel, SetStatus, TypeOK, Row
  <2>3. \A g \in Handlers : chan[g] = c => ~Holding(g) /\ ~Funding(g)
    BY <2>2 DEF ExclusiveInv
  <2>4. ~Holding(h)'
    BY <2>1 DEF Holding
  <2> QED BY <2>1, <2>2, <2>3, <2>4, ExclusiveStep
<1>2. ASSUME NEW h \in Handlers, NEW c \in Channels, NEW s \in SignedStates, SubmitUpdate(h, c, s)
      PROVE ExclusiveInv'
  BY <1>2, <1>b DEF SubmitUpdate
<1>3. ASSUME NEW h \in Handlers, NEW c \in Channels, InitiateDispute(h, c) PROVE ExclusiveInv'
  BY <1>3, <1>b DEF InitiateDispute
<1>4. ASSUME NEW h \in Handlers, SendFund(h) PROVE ExclusiveInv'
  BY <1>4, <1>a DEF SendFund, Send, Funding
<1>5. ASSUME NEW h \in Handlers, FundConfirmed(h) PROVE ExclusiveInv'
  BY <1>5, <1>a DEF FundConfirmed, Funding
<1>6. ASSUME NEW h \in Handlers, FundThrows(h) PROVE ExclusiveInv'
  BY <1>6, ExclusiveFinish DEF FundThrows
<1>7. ASSUME NEW h \in Handlers, MarkFunded(h) PROVE ExclusiveInv'
  <2>1. Funding(h) /\ \A d \in Channels \ {chan[h]} : db'[d].status = db[d].status
    BY <1>7 DEF MarkFunded, SetStatus, Funding, TypeOK
  <2> QED BY <1>7, <2>1, ExclusiveFinish DEF MarkFunded
<1>8. ASSUME NEW h \in Handlers, AppendUpdate(h) PROVE ExclusiveInv'
  <2>1. \A d \in Channels : db'[d].status = db[d].status
    BY <1>8 DEF AppendUpdate, TypeOK, Row
  <2>2. /\ pc'[h] = "journal" /\ chan' = chan /\ chan[h] \in Channels
        /\ \A g \in Handlers \ {h} : pc'[g] = pc[g]
    BY <1>8 DEF AppendUpdate, Goto, TypeOK
  <2>3. ~Holding(h)' /\ ~Funding(h)'
    BY <2>2 DEF Holding, Funding
  <2> QED BY <2>1, <2>2, <2>3, ExclusiveStep
<1>9. ASSUME NEW h \in Handlers, AppendConflict(h) PROVE ExclusiveInv'
  BY <1>9, ExclusiveFinish DEF AppendConflict
<1>10. ASSUME NEW h \in Handlers, Reread(h) PROVE ExclusiveInv'
  BY <1>10, <1>a, ExclusiveFinish DEF Reread
<1>11. ASSUME NEW h \in Handlers, StartDispute(h) PROVE ExclusiveInv'
  <2>1. \A d \in Channels \ {chan[h]} : db'[d].status = db[d].status
    BY <1>11 DEF StartDispute, SetStatus, TypeOK
  <2> QED BY <1>11, <2>1, ExclusiveFinish DEF StartDispute
<1>12. ASSUME NEW c \in Channels, DeadlinePasses(c) PROVE ExclusiveInv'
  BY <1>12, ExclusiveIdle DEF DeadlinePasses, locals
<1>13. ASSUME NEW h \in Handlers, BeginSweep(h) PROVE ExclusiveInv'
  BY <1>13, <1>a DEF BeginSweep
<1>14. ASSUME NEW h \in Handlers, SweepNext(h) PROVE ExclusiveInv'
  <2>1. /\ pc'[h] = "claim" /\ chan'[h] \in Channels
        /\ \A g \in Handlers \ {h} : pc'[g] = pc[g] /\ chan'[g] = chan[g]
        /\ db' = db
    BY <1>14 DEF SweepNext, Goto, TypeOK
  <2>2. ~Holding(h)' /\ ~Funding(h)'
    BY <2>1 DEF Holding, Funding
  <2> QED BY <2>1, <2>2, ExclusiveStep
<1>15. ASSUME NEW h \in Handlers, Claim(h) PROVE ExclusiveInv'
  <2>1. /\ pc'[h] = "settle" /\ chan' = chan /\ chan[h] \in Channels
        /\ \A g \in Handlers \ {h} : pc'[g] = pc[g]
    BY <1>15 DEF Claim, Goto, TypeOK
  <2>2. /\ db[chan[h]].status \in {"open", "disputed"}
        /\ db'[chan[h]].status = "settling"
        /\ \A d \in Channels \ {chan[h]} : db'[d] = db[d]
    BY <1>15, <2>1 DEF Claim, Claimable, From, SetStatus, TypeOK, Row
  <2>3. \A g \in Handlers : chan[g] = chan[h] => ~Holding(g) /\ ~Funding(g)
    BY <2>2 DEF ExclusiveInv
  <2>4. ~Funding(h)'
    BY <2>1 DEF Funding
  <2> QED BY <2>1, <2>2, <2>3, <2>4, ExclusiveStep
<1>16. ASSUME NEW h \in Handlers, ClaimRefused(h) PROVE ExclusiveInv'
  BY <1>16, ExclusiveFinish DEF ClaimRefused
<1>17. ASSUME NEW h \in Handlers, SendSettle(h) PROVE ExclusiveInv'
  BY <1>17, <1>a DEF SendSettle, Send, Holding
<1>18. ASSUME NEW h \in Handlers, SettleConfirmed(h) PROVE ExclusiveInv'
  BY <1>18, <1>a DEF SettleConfirmed, Holding
<1>19. ASSUME NEW h \in Handlers, SettleThrows(h) PROVE ExclusiveInv'
  BY <1>19, <1>a DEF SettleThrows, InvokeThrows, Holding
<1>20. ASSUME NEW h \in Handlers, MarkSettled(h) PROVE ExclusiveInv'
  <2>1. Holding(h) /\ \A d \in Channels \ {chan[h]} : db'[d].status = db[d].status
    BY <1>20 DEF MarkSettled, Holding, TypeOK
  <2> QED BY <1>20, <2>1, ExclusiveFinish DEF MarkSettled
<1>21. ASSUME NEW h \in Handlers, ReleaseSettlement(h) PROVE ExclusiveInv'
  <2>1. Holding(h) /\ \A d \in Channels \ {chan[h]} : db'[d].status = db[d].status
    BY <1>21 DEF ReleaseSettlement, SetStatus, Holding, TypeOK
  <2> QED BY <1>21, <2>1, ExclusiveFinish DEF ReleaseSettlement
<1>22. ASSUME NEW t \in TxIds, Ledger(t) PROVE ExclusiveInv'
  BY <1>22, ExclusiveIdle DEF Ledger, TxLands, TxFails, locals
<1>23. ASSUME NEW h \in Handlers, DbError(h) PROVE ExclusiveInv'
  BY <1>23, ExclusiveFinish DEF DbError, LeaveUnwritten
<1>24. ASSUME NEW h \in Handlers, Crash(h) PROVE ExclusiveInv'
  BY <1>24, <1>a DEF Crash, LeaveUnwritten
<1>26. ASSUME NEW h \in Handlers, WriteJournal(h) PROVE ExclusiveInv'
  BY <1>26, <1>a DEF WriteJournal
<1>27. ASSUME NEW h \in Handlers, ClaimUnanswered(h) PROVE ExclusiveInv'
  <2>1. /\ db[chan[h]].status \notin {"settling", "pending_funding"}
        /\ \A d \in Channels \ {chan[h]} : db'[d].status = db[d].status
    BY <1>27 DEF ClaimUnanswered, Claimable, From, SetStatus, TypeOK
  <2> QED BY <1>27, <2>1, ExclusiveFinish DEF ClaimUnanswered
<1>25. CASE UNCHANGED vars
  BY <1>25, ExclusiveIdle DEF vars
<1> QED
  BY <1>1, <1>2, <1>3, <1>4, <1>5, <1>6, <1>7, <1>8, <1>9, <1>10, <1>11, <1>12, <1>13,
     <1>14, <1>15, <1>16, <1>17, <1>18, <1>19, <1>20, <1>21, <1>22, <1>23, <1>24, <1>25,
     <1>26, <1>27
  DEF Next, Arrive, Continue, Fails

\* claimForSettlement, markSettled and releaseSettlement: one handler at a time
\* settles a channel, and the channel stays in settling until it is done.
THEOREM OneSettlerTheorem == Spec => []OneSettler
<1>1. Spec => []ExclusiveInv
  BY ExclusiveInit, ExclusiveNext, TypeCorrect, PTL DEF Spec
<1>2. ExclusiveInv => OneSettler
  BY DEF ExclusiveInv, OneSettler
<1> QED BY <1>1, <1>2, PTL

-----------------------------------------------------------------------------
(* Where a step may take a row and the ledger: a channel never leaves the  *)
(* statuses behind, a settled row never changes, a transaction that is     *)
(* pending, waited for or applied is never rewritten, and what the         *)
(* contract has taken or paid stays so.                                    *)

RowMoves(c) ==
    /\ db[c].status # "absent" => db'[c].status # "absent"
    /\ db[c].status \in Past => db'[c].status \in Past
    /\ db[c].status = "settled" => db'[c] = db[c] /\ agreed'[c] = agreed[c]
    /\ agreed[c] \subseteq agreed'[c]

TxMoves(t) ==
    ~Unused(t) =>
        /\ txs'[t].status # "none"
        /\ txs'[t].kind = txs[t].kind
        /\ txs'[t].state = txs[t].state
        /\ txs[t].status = "success" => txs'[t] = txs[t]

ChainMoves(c) ==
    /\ escrow[c] => escrow'[c]
    /\ paid[c] # Unsigned(c) => paid'[c] = paid[c]

Moves ==
    /\ \A c \in Channels : RowMoves(c) /\ ChainMoves(c)
    /\ \A t \in TxIds : TxMoves(t)

LEMMA RowsStay ==
  ASSUME UNCHANGED <<db, agreed>>
  PROVE  \A c \in Channels : RowMoves(c)
  BY DEF RowMoves

LEMMA ChainStays ==
  ASSUME UNCHANGED chain
  PROVE  /\ \A c \in Channels : ChainMoves(c)
         /\ \A t \in TxIds : TxMoves(t)
  BY DEF chain, ChainMoves, TxMoves, Unused

LEMMA StatusMoves ==
  ASSUME TypeOK, NEW c \in Channels, NEW s, SetStatus(c, s), agreed' = agreed,
         \/ db[c].status = "absent"
         \/ db[c].status = "pending_funding" /\ s # "absent"
         \/ db[c].status \in Live /\ s \in Past
  PROVE  \A d \in Channels : RowMoves(d)
<1>1. /\ db'[c].status = s
      /\ \A d \in Channels \ {c} : db'[d] = db[d]
  BY DEF SetStatus, TypeOK, Row
<1> QED BY <1>1 DEF RowMoves, Live, Past

LEMMA SendMoves ==
  ASSUME TypeOK, NEW h \in Handlers, NEW k, NEW s, NEW l, Send(h, k, s, l)
  PROVE  Moves
<1>1. \A t \in TxIds : TxMoves(t)
  BY DEF Send, TxMoves, Unused, TypeOK
<1>2. \A c \in Channels : RowMoves(c) /\ ChainMoves(c)
  BY RowsStay DEF Send, stores, past, ChainMoves
<1> QED BY <1>1, <1>2 DEF Moves

LEMMA StepMoves == TypeOK /\ ExclusiveInv /\ ClaimsInv /\ [Next]_vars => Moves
<1> SUFFICES ASSUME TypeOK, ExclusiveInv, ClaimsInv, [Next]_vars PROVE Moves
  OBVIOUS
<1> USE DEF stores, past
<1>a. ASSUME UNCHANGED <<db, agreed>>, UNCHANGED chain PROVE Moves
  BY <1>a, RowsStay, ChainStays DEF Moves
<1>b. ASSUME \A c \in Channels : RowMoves(c), UNCHANGED chain PROVE Moves
  BY <1>b, ChainStays DEF Moves
<1>1. ASSUME NEW h \in Handlers, NEW c \in Channels, OpenChannel(h, c) PROVE Moves
  BY <1>1, <1>b, StatusMoves DEF OpenChannel
<1>2. ASSUME NEW h \in Handlers, NEW c \in Channels, NEW s \in SignedStates, SubmitUpdate(h, c, s)
      PROVE Moves
  BY <1>2, <1>a DEF SubmitUpdate
<1>3. ASSUME NEW h \in Handlers, NEW c \in Channels, InitiateDispute(h, c) PROVE Moves
  BY <1>3, <1>a DEF InitiateDispute
<1>4. ASSUME NEW h \in Handlers, SendFund(h) PROVE Moves
  BY <1>4, SendMoves DEF SendFund
<1>5. ASSUME NEW h \in Handlers, FundConfirmed(h) PROVE Moves
  BY <1>5, <1>a DEF FundConfirmed
<1>6. ASSUME NEW h \in Handlers, FundThrows(h) PROVE Moves
  BY <1>6, <1>a DEF FundThrows
<1>7. ASSUME NEW h \in Handlers, MarkFunded(h) PROVE Moves
  <2>1. chan[h] \in Channels /\ db[chan[h]].status = "pending_funding"
    BY <1>7 DEF MarkFunded, ExclusiveInv, Funding, TypeOK
  <2> QED BY <1>7, <1>b, <2>1, StatusMoves DEF MarkFunded
<1>8. ASSUME NEW h \in Handlers, AppendUpdate(h) PROVE Moves
  <2>1. \A c \in Channels : RowMoves(c)
    BY <1>8 DEF AppendUpdate, Appendable, RowMoves, TypeOK, Row, Past, Live
  <2> QED BY <1>8, <1>b, <2>1 DEF AppendUpdate
<1>9. ASSUME NEW h \in Handlers, AppendConflict(h) PROVE Moves
  BY <1>9, <1>a DEF AppendConflict
<1>10. ASSUME NEW h \in Handlers, Reread(h) PROVE Moves
  BY <1>10, <1>a DEF Reread
<1>11. ASSUME NEW h \in Handlers, StartDispute(h) PROVE Moves
  <2>1. chan[h] \in Channels
    BY DEF TypeOK
  <2>2. \A c \in Channels : RowMoves(c)
    BY <1>11, <2>1, StatusMoves, RowsStay DEF StartDispute, Live, Past
  <2> QED BY <1>11, <1>b, <2>2 DEF StartDispute
<1>12. ASSUME NEW c \in Channels, DeadlinePasses(c) PROVE Moves
  BY <1>12, <1>a DEF DeadlinePasses
<1>13. ASSUME NEW h \in Handlers, BeginSweep(h) PROVE Moves
  BY <1>13, <1>a DEF BeginSweep
<1>14. ASSUME NEW h \in Handlers, SweepNext(h) PROVE Moves
  BY <1>14, <1>a DEF SweepNext
<1>15. ASSUME NEW h \in Handlers, Claim(h) PROVE Moves
  <2>1. chan[h] \in Channels /\ db[chan[h]].status \in Live
    BY <1>15 DEF Claim, Claimable, From, TypeOK, Live
  <2> QED BY <1>15, <1>b, <2>1, StatusMoves DEF Claim, Live, Past
<1>16. ASSUME NEW h \in Handlers, ClaimRefused(h) PROVE Moves
  BY <1>16, <1>a DEF ClaimRefused
<1>17. ASSUME NEW h \in Handlers, SendSettle(h) PROVE Moves
  BY <1>17, SendMoves DEF SendSettle
<1>18. ASSUME NEW h \in Handlers, SettleConfirmed(h) PROVE Moves
  BY <1>18, <1>a DEF SettleConfirmed
<1>19. ASSUME NEW h \in Handlers, SettleThrows(h) PROVE Moves
  BY <1>19, <1>a DEF SettleThrows
<1>20. ASSUME NEW h \in Handlers, MarkSettled(h) PROVE Moves
  <2>1. chan[h] \in Channels /\ db[chan[h]].status = "settling"
    BY <1>20 DEF MarkSettled, ExclusiveInv, Holding, TypeOK
  <2>2. \A c \in Channels : RowMoves(c)
    BY <1>20, <2>1 DEF MarkSettled, RowMoves, TypeOK, Row, Past, Live
  <2> QED BY <1>20, <1>b, <2>2 DEF MarkSettled
<1>21. ASSUME NEW h \in Handlers, ReleaseSettlement(h) PROVE Moves
  <2>1. chan[h] \in Channels /\ db[chan[h]].status = "settling" /\ rec[h].status \in Past
    BY <1>21 DEF ReleaseSettlement, ExclusiveInv, ClaimsInv, ClaimOK, Holding, TypeOK, Past
  <2> QED BY <1>21, <1>b, <2>1, StatusMoves DEF ReleaseSettlement, Live
<1>22. ASSUME NEW t \in TxIds, TxLands(t) PROVE Moves
  <2>1. txs[t].state.channel \in Channels
    BY DEF TypeOK, Tx, State
  <2>2. \A c \in Channels : ChainMoves(c)
    BY <1>22, <2>1 DEF TxLands, Accepts, ChainMoves, TypeOK
  <2>3. \A u \in TxIds : TxMoves(u)
    BY <1>22 DEF TxLands, TxMoves, Unused, TypeOK, Tx
  <2> QED BY <1>22, <2>2, <2>3, RowsStay DEF TxLands, Moves
<1>23. ASSUME NEW t \in TxIds, TxFails(t) PROVE Moves
  <2>1. \A c \in Channels : ChainMoves(c)
    BY <1>23 DEF TxFails, ChainMoves
  <2>2. \A u \in TxIds : TxMoves(u)
    BY <1>23 DEF TxFails, TxMoves, Unused, TypeOK, Tx
  <2> QED BY <1>23, <2>1, <2>2, RowsStay DEF TxFails, Moves
<1>24. ASSUME NEW h \in Handlers, DbError(h) PROVE Moves
  BY <1>24, <1>a DEF DbError, LeaveUnwritten
<1>25. ASSUME NEW h \in Handlers, Crash(h) PROVE Moves
  BY <1>25, <1>a DEF Crash, LeaveUnwritten
<1>27. ASSUME NEW h \in Handlers, WriteJournal(h) PROVE Moves
  BY <1>27, <1>a DEF WriteJournal
<1>28. ASSUME NEW h \in Handlers, ClaimUnanswered(h) PROVE Moves
  <2>1. chan[h] \in Channels /\ db[chan[h]].status \in Live
    BY <1>28 DEF ClaimUnanswered, Claimable, From, TypeOK, Live
  <2> QED BY <1>28, <1>b, <2>1, StatusMoves DEF ClaimUnanswered, Live, Past
<1>26. CASE UNCHANGED vars
  BY <1>26, <1>a DEF vars, chain
<1> QED
  BY <1>1, <1>2, <1>3, <1>4, <1>5, <1>6, <1>7, <1>8, <1>9, <1>10, <1>11, <1>12, <1>13,
     <1>14, <1>15, <1>16, <1>17, <1>18, <1>19, <1>20, <1>21, <1>22, <1>23, <1>24, <1>25, <1>26,
     <1>27, <1>28
  DEF Next, Arrive, Continue, Fails, Ledger

\* A handler that does not move keeps what it knows.
LEMMA OthersClaim ==
  ASSUME TypeOK, ClaimsInv, Moves, NEW g \in Handlers,
         pc'[g] = pc[g], chan'[g] = chan[g], rec'[g] = rec[g], todo'[g] = todo[g]
  PROVE  ClaimOK(g)'
<1>1. chan[g] \in Channels /\ RowMoves(chan[g])
  BY DEF Moves, TypeOK
<1> QED BY <1>1 DEF ClaimsInv, ClaimOK, Holding, RowMoves

LEMMA FinishClaim ==
  ASSUME TypeOK, ClaimsInv, Moves, NEW h \in Handlers, Finish(h)
  PROVE  ClaimsInv'
<1>1. ClaimOK(h)'
  BY DEF Finish, Goto, ClaimsInv, ClaimOK, Holding, TypeOK
<1>2. \A g \in Handlers \ {h} : ClaimOK(g)'
  BY OthersClaim DEF Finish, Goto, TypeOK
<1> QED BY <1>1, <1>2 DEF ClaimsInv

\* h goes on and nobody else does: what h knows is left to show.
LEMMA GotoClaim ==
  ASSUME TypeOK, ClaimsInv, Moves, NEW h \in Handlers, NEW l, Goto(h, l),
         \A g \in Handlers \ {h} : chan'[g] = chan[g] /\ rec'[g] = rec[g] /\ todo'[g] = todo[g],
         ClaimOK(h)'
  PROVE  ClaimsInv'
<1>1. \A g \in Handlers \ {h} : pc'[g] = pc[g]
  BY DEF Goto, TypeOK
<1>2. \A g \in Handlers \ {h} : ClaimOK(g)'
  BY <1>1, OthersClaim
<1> QED BY <1>2 DEF ClaimsInv

LEMMA ClaimsNext == TypeOK /\ ExclusiveInv /\ ClaimsInv /\ [Next]_vars => ClaimsInv'
<1> SUFFICES ASSUME TypeOK, ExclusiveInv, ClaimsInv, [Next]_vars PROVE ClaimsInv'
  OBVIOUS
<1> USE DEF stores, past, chain
<1>m. Moves
  BY StepMoves
<1>a. ASSUME NEW h \in Handlers, NEW l, Goto(h, l), UNCHANGED <<chan, rec, todo>>,
             \/ l \in {"fund", "fund_wait", "mark_funded", "settle_wait", "mark_settled", "release"},
             l \in {"settle_wait", "mark_settled", "release"} => Holding(h)
      PROVE  ClaimsInv'
  <2>1. ClaimOK(h)'
    BY <1>a DEF Goto, TypeOK, ClaimsInv, ClaimOK, Holding
  <2> QED BY <1>a, <1>m, <2>1, GotoClaim
<1>b. ASSUME NEW h \in Handlers, Finish(h) PROVE ClaimsInv'
  BY <1>b, <1>m, FinishClaim
<1>c. ASSUME NEW h \in Handlers, NEW c \in Channels, NEW s, NEW l, Receive(h, c, s, l),
             l \in {"fund", "dispute", "append"},
             l = "append" => db[c].status \in Live
      PROVE  ClaimsInv'
  <2>1. pc'[h] = l /\ chan'[h] = c /\ todo' = todo
    BY <1>c DEF Receive, Goto, TypeOK
  <2>2. l = "append" => db'[c].status \in Past
    BY <1>c, <1>m DEF Moves, RowMoves, Past
  <2>3. ClaimOK(h)'
    BY <1>c, <2>1, <2>2 DEF ClaimsInv, ClaimOK, Holding
  <2> QED BY <1>c, <1>m, <2>3, GotoClaim DEF Receive, TypeOK
<1>1. ASSUME NEW h \in Handlers, NEW c \in Channels, OpenChannel(h, c) PROVE ClaimsInv'
  BY <1>1, <1>c DEF OpenChannel
<1>2. ASSUME NEW h \in Handlers, NEW c \in Channels, NEW s \in SignedStates, SubmitUpdate(h, c, s)
      PROVE ClaimsInv'
  BY <1>2, <1>c DEF SubmitUpdate, Live
<1>3. ASSUME NEW h \in Handlers, NEW c \in Channels, InitiateDispute(h, c) PROVE ClaimsInv'
  BY <1>3, <1>c DEF InitiateDispute
<1>4. ASSUME NEW h \in Handlers, SendFund(h) PROVE ClaimsInv'
  BY <1>4, <1>a DEF SendFund, Send
<1>5. ASSUME NEW h \in Handlers, FundConfirmed(h) PROVE ClaimsInv'
  BY <1>5, <1>a DEF FundConfirmed
<1>6. ASSUME NEW h \in Handlers, FundThrows(h) PROVE ClaimsInv'
  BY <1>6, <1>b DEF FundThrows
<1>7. ASSUME NEW h \in Handlers, MarkFunded(h) PROVE ClaimsInv'
  BY <1>7, <1>b DEF MarkFunded
<1>8. ASSUME NEW h \in Handlers, AppendUpdate(h) PROVE ClaimsInv'
  <2>1. chan[h] \in Channels /\ db[chan[h]].status \in Past
    BY <1>8 DEF AppendUpdate, ClaimsInv, ClaimOK, TypeOK
  <2>2. db'[chan[h]].status \in Past
    BY <1>m, <2>1 DEF Moves, RowMoves
  <2>3. ClaimOK(h)'
    BY <1>8, <2>2 DEF AppendUpdate, Goto, TypeOK, ClaimsInv, ClaimOK, Holding
  <2> QED BY <1>8, <1>m, <2>3, GotoClaim DEF AppendUpdate
<1>9. ASSUME NEW h \in Handlers, AppendConflict(h) PROVE ClaimsInv'
  BY <1>9, <1>b DEF AppendConflict
<1>10. ASSUME NEW h \in Handlers, Reread(h) PROVE ClaimsInv'
  <2>1. CASE sgn[h].isFinal
    <3>1. chan[h] \in Channels /\ db[chan[h]].status \in Past
      BY <1>10 DEF Reread, ClaimsInv, ClaimOK, TypeOK
    <3>2. ClaimOK(h)'
      BY <1>10, <2>1, <3>1 DEF Reread, Goto, TypeOK, ClaimsInv, ClaimOK, Holding
    <3> QED BY <1>10, <1>m, <2>1, <3>2, GotoClaim DEF Reread, TypeOK
  <2> QED BY <1>10, <1>b, <2>1 DEF Reread
<1>11. ASSUME NEW h \in Handlers, StartDispute(h) PROVE ClaimsInv'
  BY <1>11, <1>b DEF StartDispute
<1>12. ASSUME UNCHANGED locals PROVE ClaimsInv'
  BY <1>12, <1>m, OthersClaim DEF locals, ClaimsInv
<1>13. ASSUME NEW h \in Handlers, BeginSweep(h) PROVE ClaimsInv'
  <2>1. ClaimOK(h)'
    BY <1>13 DEF BeginSweep, Expired, Goto, TypeOK, ClaimsInv, ClaimOK, Holding
  <2> QED BY <1>13, <1>m, <2>1, GotoClaim DEF BeginSweep, TypeOK
<1>14. ASSUME NEW h \in Handlers, SweepNext(h) PROVE ClaimsInv'
  <2>1. ClaimOK(h)'
    BY <1>14 DEF SweepNext, Goto, TypeOK, ClaimsInv, ClaimOK, Holding, Past, Live
  <2> QED BY <1>14, <1>m, <2>1, GotoClaim DEF SweepNext, TypeOK
<1>15. ASSUME NEW h \in Handlers, Claim(h) PROVE ClaimsInv'
  <2>1. rec[h].status \in Live /\ rec[h].latest.signedBy = Parties
    BY <1>15 DEF Claim, Claimable, From, ClaimsInv, ClaimOK, Past
  <2>2. ClaimOK(h)'
    BY <1>15, <2>1 DEF Claim, Goto, TypeOK, ClaimsInv, ClaimOK, Holding, Parties
  <2> QED BY <1>15, <1>m, <2>2, GotoClaim DEF Claim
<1>16. ASSUME NEW h \in Handlers, ClaimRefused(h) PROVE ClaimsInv'
  BY <1>16, <1>b DEF ClaimRefused
<1>17. ASSUME NEW h \in Handlers, SendSettle(h) PROVE ClaimsInv'
  BY <1>17, <1>a DEF SendSettle, Send, Holding
<1>18. ASSUME NEW h \in Handlers, SettleConfirmed(h) PROVE ClaimsInv'
  BY <1>18, <1>a DEF SettleConfirmed, Holding
<1>19. ASSUME NEW h \in Handlers, SettleThrows(h) PROVE ClaimsInv'
  BY <1>19, <1>a DEF SettleThrows, InvokeThrows, Holding
<1>20. ASSUME NEW h \in Handlers, MarkSettled(h) PROVE ClaimsInv'
  BY <1>20, <1>b DEF MarkSettled
<1>21. ASSUME NEW h \in Handlers, ReleaseSettlement(h) PROVE ClaimsInv'
  BY <1>21, <1>b DEF ReleaseSettlement
<1>22. ASSUME NEW h \in Handlers, DbError(h) PROVE ClaimsInv'
  BY <1>22, <1>b DEF DbError
<1>24. ASSUME NEW h \in Handlers, WriteJournal(h) PROVE ClaimsInv'
  <2>1. chan[h] \in Channels /\ db[chan[h]].status \in Past
    BY <1>24 DEF WriteJournal, ClaimsInv, ClaimOK, TypeOK
  <2>2. ClaimOK(h)'
    BY <1>24, <2>1 DEF WriteJournal, Goto, TypeOK, ClaimsInv, ClaimOK, Holding
  <2> QED BY <1>24, <1>m, <2>2, GotoClaim DEF WriteJournal
<1>25. ASSUME NEW h \in Handlers, ClaimUnanswered(h) PROVE ClaimsInv'
  BY <1>25, <1>b DEF ClaimUnanswered
<1>23. ASSUME NEW h \in Handlers, Crash(h) PROVE ClaimsInv'
  <2>1. ClaimOK(h)'
    BY <1>23 DEF Crash, Goto, TypeOK, ClaimOK, Holding
  <2> QED BY <1>23, <1>m, <2>1, GotoClaim DEF Crash, TypeOK
<1> QED
  BY <1>1, <1>2, <1>3, <1>4, <1>5, <1>6, <1>7, <1>8, <1>9, <1>10, <1>11, <1>12, <1>13,
     <1>14, <1>15, <1>16, <1>17, <1>18, <1>19, <1>20, <1>21, <1>22, <1>23, <1>24, <1>25
  DEF Next, Arrive, Continue, Fails, Ledger, DeadlinePasses, TxLands, TxFails, vars, locals

\* markSettled, markFunded, appendUpdate and startDispute: nothing of a settled
\* row ever changes again, and its journal gains at most what was agreed before.
THEOREM SettledIsFinalTheorem == Spec => SettledIsFinal
<1>1. TypeOK /\ ExclusiveInv /\ ClaimsInv /\ JournalInv' /\ [Next]_vars =>
        [\A c \in Channels : db[c].status = "settled" =>
            db'[c] = db[c] /\ agreed'[c] = agreed[c] /\ journal'[c] \subseteq agreed[c]]_vars
  BY StepMoves DEF Moves, RowMoves, JournalInv, JournalIsLinear
<1>2. Spec => [](ExclusiveInv /\ ClaimsInv)
  BY ExclusiveInit, ExclusiveNext, ClaimsNext, TypeCorrect, PTL DEF Spec
<1>3. Spec => []JournalInv
  BY JournalInit, JournalStep, TypeCorrect, PTL DEF Spec
<1> QED BY <1>1, <1>2, <1>3, TypeCorrect, PTL DEF Spec, SettledIsFinal

-----------------------------------------------------------------------------
(* The ledger.  A settlement in flight pays out an agreed state, the       *)
(* handler that waits for it still has that state in hand, and the contract *)
(* has the money of every channel that has left pending_funding.            *)

TxOK(t) ==
    LET c == txs[t].state.channel
    IN  txs[t].status # "none" =>
            /\ txs[t].kind = "settle" => txs[t].state \in agreed[c]
            /\ txs[t].kind = "fund" => db[c].status # "absent"
            /\ txs[t].status = "success" =>
                    IF txs[t].kind = "fund" THEN escrow[c] ELSE paid[c] = txs[t].state

WaitOK(h) ==
    /\ pc[h] \in {"fund_wait", "mark_funded"} =>
            /\ tid[h] \in TxIds
            /\ txs[tid[h]].status # "none"
            /\ txs[tid[h]].kind = "fund"
            /\ txs[tid[h]].state = Unsigned(chan[h])
    /\ pc[h] \in {"settle_wait", "mark_settled"} =>
            /\ tid[h] \in TxIds
            /\ txs[tid[h]].status # "none"
            /\ txs[tid[h]].kind = "settle"
            /\ txs[tid[h]].state = rec[h].latest
    /\ pc[h] \in {"mark_funded", "mark_settled"} => txs[tid[h]].status = "success"

LedgerInv ==
    /\ \A t \in TxIds : TxOK(t)
    /\ \A h \in Handlers : WaitOK(h)
    /\ \A c \in Channels : paid[c] \in agreed[c] \cup {Unsigned(c)}
    /\ \A c \in Channels : db[c].status \in Past => escrow[c]
    /\ SettledIsPaid

Control == TypeOK /\ JournalInv /\ ExclusiveInv /\ ClaimsInv

LEMMA LedgerInit == Init => LedgerInv
<1> SUFFICES ASSUME Init PROVE LedgerInv
  OBVIOUS
<1>1. \A t \in TxIds : TxOK(t)
  BY DEF Init, TxOK
<1>2. \A h \in Handlers : WaitOK(h)
  BY DEF Init, WaitOK
<1>3. \A c \in Channels : paid[c] \in agreed[c] \cup {Unsigned(c)}
  BY DEF Init
<1>4. \A c \in Channels : db[c].status = "absent"
  BY DEF Init, NoRow
<1> QED BY <1>1, <1>2, <1>3, <1>4 DEF LedgerInv, SettledIsPaid, Past, Live

LEMMA ClaimedState ==
  ASSUME Control, NEW h \in Handlers, Holding(h)
  PROVE  /\ chan[h] \in Channels
         /\ rec[h].latest \in agreed[chan[h]]
         /\ rec[h].latest.channel = chan[h]
         /\ rec[h].latest # Unsigned(chan[h])
<1>1. chan[h] \in Channels /\ rec[h].latest.signedBy = Parties
  BY DEF Control, TypeOK, ClaimsInv, ClaimOK
<1>2. rec[h].latest \in agreed[chan[h]] \cup {Unsigned(chan[h])}
  BY DEF Control, JournalInv, LocalsKnown, ReadsKnown, Known
<1>3. rec[h].latest # Unsigned(chan[h])
  BY <1>1 DEF Unsigned, Parties
<1> QED BY <1>1, <1>2, <1>3 DEF Control, JournalInv, JournalIsLinear, AgreedIsLinear

LEMMA SignedNotNull ==
  ASSUME Control, NEW c \in Channels, NEW s \in agreed[c]
  PROVE  s # Unsigned(c) /\ s.channel = c
<1>1. s.signedBy = Parties /\ s.channel = c
  BY DEF Control, JournalInv, JournalIsLinear, AgreedIsLinear
<1> QED BY <1>1 DEF Unsigned, Parties

\* What a step that sends, confirms or lands nothing leaves as it was.
LEMMA LedgerFrame ==
  ASSUME Control, LedgerInv, Moves, UNCHANGED chain,
         \A h \in Handlers : WaitOK(h)',
         \A c \in Channels : db[c].status \notin Past /\ db'[c].status \in Past => escrow[c],
         \A c \in Channels : db[c].status # "settled" /\ db'[c].status = "settled" =>
            /\ db'[c].settlementTx # NoTx
            /\ txs[db'[c].settlementTx] = [status |-> "success", kind |-> "settle", state |-> paid[c]]
            /\ paid[c] \in agreed[c]
  PROVE  LedgerInv'
<1>1. ASSUME NEW t \in TxIds PROVE TxOK(t)'
  <2>1. txs[t].state.channel \in Channels /\ txs' = txs /\ escrow' = escrow /\ paid' = paid
    BY DEF Control, TypeOK, Tx, State, chain
  <2>2. RowMoves(txs[t].state.channel) /\ TxOK(t)
    BY <2>1 DEF Moves, LedgerInv
  <2> QED BY <2>1, <2>2 DEF TxOK, RowMoves
<1>2. \A c \in Channels : paid'[c] \in agreed'[c] \cup {Unsigned(c)}
  BY DEF LedgerInv, Moves, RowMoves, chain
<1>3. \A c \in Channels : db'[c].status \in Past => escrow'[c]
  BY DEF LedgerInv, Moves, RowMoves, chain
<1>4. SettledIsPaid'
  BY DEF LedgerInv, SettledIsPaid, Moves, RowMoves, chain
<1> QED BY <1>1, <1>2, <1>3, <1>4 DEF LedgerInv

LEMMA OthersWait ==
  ASSUME Control, LedgerInv, Moves, NEW g \in Handlers,
         pc'[g] = pc[g], chan'[g] = chan[g], rec'[g] = rec[g], tid'[g] = tid[g]
  PROVE  WaitOK(g)'
<1>1. WaitOK(g) /\ (tid[g] \in TxIds => TxMoves(tid[g]))
  BY DEF LedgerInv, Moves
<1> QED BY <1>1 DEF WaitOK, TxMoves, Unused

LEMMA GotoWait ==
  ASSUME Control, LedgerInv, Moves, NEW h \in Handlers, NEW l, Goto(h, l),
         \A g \in Handlers \ {h} : chan'[g] = chan[g] /\ rec'[g] = rec[g] /\ tid'[g] = tid[g],
         WaitOK(h)'
  PROVE  \A g \in Handlers : WaitOK(g)'
<1>1. \A g \in Handlers \ {h} : pc'[g] = pc[g]
  BY DEF Goto, Control, TypeOK
<1> QED BY <1>1, OthersWait

LEMMA FinishWait ==
  ASSUME Control, LedgerInv, Moves, NEW h \in Handlers, Finish(h)
  PROVE  \A g \in Handlers : WaitOK(g)'
<1>1. WaitOK(h)'
  BY DEF Finish, Goto, WaitOK, Control, TypeOK
<1> QED BY <1>1, GotoWait DEF Finish, Control, TypeOK

LEMMA SettledTx ==
  ASSUME TypeOK, LedgerInv, NEW c \in Channels, db[c].status = "settled"
  PROVE  /\ db[c].settlementTx \in TxIds
         /\ txs[db[c].settlementTx].status = "success"
         /\ paid[c] \in agreed[c]
<1>1. /\ db[c].settlementTx # NoTx
      /\ txs[db[c].settlementTx] = [status |-> "success", kind |-> "settle", state |-> paid[c]]
      /\ paid[c] \in agreed[c]
  BY DEF LedgerInv, SettledIsPaid
<1>2. db[c].settlementTx \in TxIds \cup {NoTx}
  BY DEF TypeOK, Row
<1> QED BY <1>1, <1>2

LEMMA LedgerNext == Control /\ LedgerInv /\ [Next]_vars => LedgerInv'
<1> SUFFICES ASSUME Control, LedgerInv, [Next]_vars PROVE LedgerInv'
  OBVIOUS
<1> USE DEF stores, past
<1>m. Moves
  BY StepMoves DEF Control
<1>t. TypeOK
  BY DEF Control
\* The rows stay, nothing lands, and the handlers are where they may be.
<1>a. ASSUME UNCHANGED <<db, agreed>>, UNCHANGED chain, \A h \in Handlers : WaitOK(h)'
      PROVE  LedgerInv'
  BY <1>a, <1>m, LedgerFrame
<1>b. ASSUME NEW h \in Handlers, Finish(h), UNCHANGED <<db, agreed>>, UNCHANGED chain
      PROVE  LedgerInv'
  BY <1>a, <1>b, <1>m, FinishWait
<1>c. ASSUME NEW h \in Handlers, NEW l, Goto(h, l), UNCHANGED chain, UNCHANGED tid,
             \A g \in Handlers \ {h} : chan'[g] = chan[g] /\ rec'[g] = rec[g],
             l \notin {"fund_wait", "mark_funded", "settle_wait", "mark_settled"}
      PROVE  \A g \in Handlers : WaitOK(g)'
  <2>1. WaitOK(h)'
    BY <1>c, <1>t DEF Goto, WaitOK, TypeOK
  <2> QED BY <1>c, <1>m, <2>1, GotoWait
<1>d. ASSUME NEW h \in Handlers, NEW c \in Channels, NEW s, NEW l, Receive(h, c, s, l),
             UNCHANGED chain, l \in {"fund", "append", "dispute"}
      PROVE  \A g \in Handlers : WaitOK(g)'
  BY <1>c, <1>d, <1>t DEF Receive, TypeOK
<1>1. ASSUME NEW h \in Handlers, NEW c \in Channels, OpenChannel(h, c) PROVE LedgerInv'
  <2>1. \A g \in Handlers : WaitOK(g)'
    BY <1>1, <1>d DEF OpenChannel
  <2>2. \A d \in Channels : db'[d].status \in Past => db[d] = db'[d]
    BY <1>1, <1>t DEF OpenChannel, SetStatus, TypeOK, Row, Past, Live
  <2> QED BY <1>1, <1>m, <2>1, <2>2, LedgerFrame DEF OpenChannel, Past
<1>2. ASSUME NEW h \in Handlers, NEW c \in Channels, NEW s \in SignedStates, SubmitUpdate(h, c, s)
      PROVE LedgerInv'
  BY <1>2, <1>a, <1>d DEF SubmitUpdate
<1>3. ASSUME NEW h \in Handlers, NEW c \in Channels, InitiateDispute(h, c) PROVE LedgerInv'
  BY <1>3, <1>a, <1>d DEF InitiateDispute
<1>4. ASSUME NEW h \in Handlers, NEW k \in {"fund", "settle"}, NEW s \in State, NEW l,
             Send(h, k, s, l),
             \/ k = "fund" /\ l = "fund_wait" /\ s = Unsigned(chan[h])
                /\ db[s.channel].status # "absent"
             \/ k = "settle" /\ l = "settle_wait" /\ s = rec[h].latest
                /\ s \in agreed[s.channel]
      PROVE LedgerInv'
  <2>1. PICK u \in TxIds : /\ Unused(u)
                           /\ txs' = [txs EXCEPT ![u] = [status |-> "pending", kind |-> k, state |-> s]]
                           /\ tid' = [tid EXCEPT ![h] = u]
                           /\ Goto(h, l)
                           /\ UNCHANGED <<db, agreed, escrow, paid, chan, rec>>
    BY <1>4 DEF Send
  <2>2. /\ txs'[u] = [status |-> "pending", kind |-> k, state |-> s] /\ tid'[h] = u /\ pc'[h] = l
        /\ \A t \in TxIds \ {u} : txs'[t] = txs[t]
        /\ \A g \in Handlers \ {h} : tid'[g] = tid[g]
    BY <2>1, <1>t DEF TypeOK, Goto
  <2>3. WaitOK(h)'
    BY <2>1, <2>2, <1>4 DEF WaitOK
  <2>4. \A g \in Handlers : WaitOK(g)'
    BY <2>1, <2>2, <2>3, <1>m, GotoWait
  <2>5. TxOK(u)'
    BY <2>1, <2>2, <1>4 DEF TxOK
  <2>6. \A t \in TxIds \ {u} : TxOK(t)'
    BY <2>1, <2>2 DEF LedgerInv, TxOK
  <2>7. SettledIsPaid'
    <3> SUFFICES ASSUME NEW c \in Channels, db[c].status = "settled"
                 PROVE  txs'[db[c].settlementTx] = txs[db[c].settlementTx]
      BY <2>1 DEF LedgerInv, SettledIsPaid
    <3> QED BY <2>1, <2>2, <1>t, SettledTx DEF Unused
  <2> QED BY <2>1, <2>4, <2>5, <2>6, <2>7 DEF LedgerInv
<1>5. ASSUME NEW h \in Handlers, SendFund(h) PROVE LedgerInv'
  <2>1. /\ chan[h] \in Channels /\ Unsigned(chan[h]).channel = chan[h]
        /\ db[chan[h]].status = "pending_funding"
    BY <1>5, <1>t DEF SendFund, Control, ExclusiveInv, Funding, TypeOK, Unsigned
  <2>2. Unsigned(chan[h]) \in State
    BY <2>1, UnsignedType
  <2> QED BY <1>4, <1>5, <2>1, <2>2 DEF SendFund
<1>6. ASSUME NEW h \in Handlers, SendSettle(h) PROVE LedgerInv'
  <2>1. Holding(h)
    BY <1>6 DEF SendSettle, Holding
  <2>2. rec[h].latest \in State /\ rec[h].latest \in agreed[rec[h].latest.channel]
    BY <2>1, <1>t, ClaimedState DEF TypeOK, Row
  <2> QED BY <1>4, <1>6, <2>2 DEF SendSettle
<1>7. ASSUME NEW h \in Handlers, FundConfirmed(h) PROVE LedgerInv'
  <2>1. WaitOK(h)'
    BY <1>7, <1>t DEF FundConfirmed, Goto, WaitOK, TypeOK, LedgerInv, chain
  <2> QED BY <1>7, <1>a, <1>m, <2>1, GotoWait DEF FundConfirmed
<1>8. ASSUME NEW h \in Handlers, SettleConfirmed(h) PROVE LedgerInv'
  <2>1. WaitOK(h)'
    BY <1>8, <1>t DEF SettleConfirmed, Goto, WaitOK, TypeOK, LedgerInv, chain
  <2> QED BY <1>8, <1>a, <1>m, <2>1, GotoWait DEF SettleConfirmed
<1>9. ASSUME NEW h \in Handlers, FundThrows(h) \/ AppendConflict(h) \/ ClaimRefused(h) \/ DbError(h)
      PROVE LedgerInv'
  BY <1>9, <1>b DEF FundThrows, AppendConflict, ClaimRefused, DbError, LeaveUnwritten
<1>10. ASSUME NEW h \in Handlers, MarkFunded(h) PROVE LedgerInv'
  <2>1. \A g \in Handlers : WaitOK(g)'
    BY <1>10, <1>m, FinishWait DEF MarkFunded
  <2>2. chan[h] \in Channels /\ escrow[chan[h]]
    <3>1. /\ chan[h] \in Channels /\ Unsigned(chan[h]).channel = chan[h]
          /\ tid[h] \in TxIds /\ WaitOK(h) /\ TxOK(tid[h])
      BY <1>10, <1>t DEF MarkFunded, LedgerInv, WaitOK, TypeOK, Unsigned
    <3> QED BY <1>10, <3>1 DEF MarkFunded, WaitOK, TxOK
  <2>3. /\ db'[chan[h]].status = "open"
        /\ \A d \in Channels \ {chan[h]} : db'[d] = db[d]
    BY <1>10, <2>2, <1>t DEF MarkFunded, SetStatus, TypeOK, Row
  <2> QED BY <1>10, <1>m, <2>1, <2>2, <2>3, LedgerFrame DEF MarkFunded
<1>11. ASSUME NEW h \in Handlers, AppendUpdate(h) PROVE LedgerInv'
  <2>1. \A g \in Handlers : WaitOK(g)'
    BY <1>11, <1>c DEF AppendUpdate
  <2>2. \A d \in Channels : db'[d].status = db[d].status
    BY <1>11, <1>t DEF AppendUpdate, TypeOK, Row
  <2> QED BY <1>11, <1>m, <2>1, <2>2, LedgerFrame DEF AppendUpdate
<1>12. ASSUME NEW h \in Handlers, Reread(h) PROVE LedgerInv'
  <2>1. CASE sgn[h].isFinal
    BY <1>12, <2>1, <1>a, <1>c, <1>t DEF Reread, TypeOK
  <2> QED BY <1>12, <2>1, <1>b DEF Reread
<1>13. ASSUME NEW h \in Handlers, StartDispute(h) PROVE LedgerInv'
  <2>1. \A g \in Handlers : WaitOK(g)'
    BY <1>13, <1>m, FinishWait DEF StartDispute
  <2>2. \A d \in Channels : /\ db'[d].status \in Past => db[d].status \in Past
                            /\ db'[d].status = "settled" => db[d].status = "settled"
    <3>1. CASE db' = db
      BY <3>1
    <3>2. CASE db[chan[h]].status = "open" /\ SetStatus(chan[h], "disputed")
      BY <3>2, <1>t DEF SetStatus, TypeOK, Row, Past, Live
    <3> QED BY <1>13, <3>1, <3>2 DEF StartDispute
  <2> QED BY <1>13, <1>m, <2>1, <2>2, LedgerFrame DEF StartDispute
<1>14. ASSUME UNCHANGED <<db, agreed>>, UNCHANGED chain, UNCHANGED locals PROVE LedgerInv'
  BY <1>14, <1>a, <1>m, OthersWait DEF locals
<1>15. ASSUME NEW h \in Handlers, BeginSweep(h) PROVE LedgerInv'
  BY <1>15, <1>a, <1>c DEF BeginSweep
<1>16. ASSUME NEW h \in Handlers, SweepNext(h) PROVE LedgerInv'
  BY <1>16, <1>a, <1>c, <1>t DEF SweepNext, TypeOK
<1>17. ASSUME NEW h \in Handlers, Claim(h) PROVE LedgerInv'
  <2>1. \A g \in Handlers : WaitOK(g)'
    BY <1>17, <1>c DEF Claim
  <2>2. \A d \in Channels : /\ db'[d].status \in Past => db[d].status \in Past
                            /\ db'[d].status = "settled" => db[d].status = "settled"
    BY <1>17, <1>t DEF Claim, Claimable, From, SetStatus, TypeOK, Row, Past, Live
  <2> QED BY <1>17, <1>m, <2>1, <2>2, LedgerFrame DEF Claim
<1>18. ASSUME NEW h \in Handlers, SettleThrows(h) PROVE LedgerInv'
  BY <1>18, <1>a, <1>c DEF SettleThrows
<1>19. ASSUME NEW h \in Handlers, MarkSettled(h) PROVE LedgerInv'
  <2>1. \A g \in Handlers : WaitOK(g)'
    BY <1>19, <1>m, FinishWait DEF MarkSettled
  <2>2. Holding(h)
    BY <1>19 DEF MarkSettled, Holding
  <2>3. /\ chan[h] \in Channels
        /\ rec[h].latest \in agreed[chan[h]]
        /\ rec[h].latest.channel = chan[h]
    BY <2>2, ClaimedState
  <2>4. /\ tid[h] \in TxIds
        /\ txs[tid[h]].status = "success" /\ txs[tid[h]].kind = "settle"
        /\ txs[tid[h]].state = rec[h].latest
    BY <1>19 DEF MarkSettled, LedgerInv, WaitOK
  <2>5. paid[chan[h]] = rec[h].latest
    BY <2>3, <2>4 DEF LedgerInv, TxOK
  <2>6. txs[tid[h]] = [status |-> "success", kind |-> "settle", state |-> paid[chan[h]]]
    BY <2>4, <2>5, <1>t DEF TypeOK, Tx
  <2>7. /\ db'[chan[h]].status = "settled" /\ db'[chan[h]].settlementTx = tid[h]
        /\ \A d \in Channels \ {chan[h]} : db'[d] = db[d]
    BY <1>19, <2>3, <1>t DEF MarkSettled, TypeOK, Row
  <2>8. db[chan[h]].status \in Past
    BY <2>2 DEF Control, ExclusiveInv, Past, Live
  <2> QED BY <1>19, <1>m, <2>1, <2>3, <2>4, <2>5, <2>6, <2>7, <2>8, NoTxOK, LedgerFrame DEF MarkSettled
<1>20. ASSUME NEW h \in Handlers, ReleaseSettlement(h) PROVE LedgerInv'
  <2>1. \A g \in Handlers : WaitOK(g)'
    BY <1>20, <1>m, FinishWait DEF ReleaseSettlement
  <2>2. rec[h].status \in Live
    BY <1>20 DEF ReleaseSettlement, Holding, Control, ClaimsInv, ClaimOK
  <2>r. db \in [Channels -> Row] /\ chan[h] \in Channels /\ db[chan[h]] \in Row
    BY <1>t DEF TypeOK
  <2>s. \/ db' = db
        \/ db' = [db EXCEPT ![chan[h]].status = rec[h].status] /\ db[chan[h]].status = "settling"
    BY <1>20 DEF ReleaseSettlement, SetStatus
  <2>3. \A d \in Channels : /\ db'[d].status \in Past => db[d].status \in Past
                            /\ db'[d].status = "settled" => db[d].status = "settled"
    BY <2>2, <2>r, <2>s DEF Row, Past, Live
  <2> QED BY <1>20, <1>m, <2>1, <2>3, LedgerFrame DEF ReleaseSettlement
<1>21. ASSUME NEW u \in TxIds, Ledger(u) PROVE LedgerInv'
  <2> DEFINE k == txs[u].state.channel
  <2>1. /\ txs[u].status = "pending" /\ UNCHANGED <<db, agreed>> /\ UNCHANGED locals
        /\ k \in Channels /\ TxOK(u)
    BY <1>21, <1>t DEF Ledger, TxLands, TxFails, TypeOK, Tx, State, LedgerInv
  <2>2. /\ txs'[u].kind = txs[u].kind /\ txs'[u].state = txs[u].state /\ txs'[u].status # "pending"
        /\ \A t \in TxIds \ {u} : txs'[t] = txs[t]
    BY <1>21, <1>t DEF Ledger, TxLands, TxFails, TypeOK, Tx
  <2>3. \A h \in Handlers : WaitOK(h)'
    BY <2>1, <1>m, OthersWait DEF locals
  <2>4. \A t \in TxIds \ {u} : TxOK(t)'
    <3> SUFFICES ASSUME NEW t \in TxIds \ {u} PROVE TxOK(t)'
      OBVIOUS
    <3>1. txs[t].state.channel \in Channels /\ TxOK(t)
      BY <1>t DEF TypeOK, Tx, State, LedgerInv
    <3>2. ChainMoves(txs[t].state.channel)
      BY <3>1, <1>m DEF Moves
    <3>3. txs[t].kind = "settle" /\ txs[t].status # "none" => txs[t].state # Unsigned(txs[t].state.channel)
      BY <3>1, SignedNotNull DEF TxOK
    <3>4. txs[t].kind \in {"fund", "settle"}
      BY <1>t DEF TypeOK, Tx
    <3> QED BY <2>1, <2>2, <3>1, <3>2, <3>3, <3>4 DEF TxOK, ChainMoves
  <2>5. TxOK(u)'
    <3>1. txs'[u].status = "success" => IF txs[u].kind = "fund" THEN escrow'[k] ELSE paid'[k] = txs[u].state
      <4>1. CASE TxLands(u)
        BY <4>1, <2>1, <1>t DEF TxLands, TypeOK
      <4>2. CASE TxFails(u)
        BY <4>2, <1>t DEF TxFails, TypeOK, Tx
      <4> QED BY <1>21, <4>1, <4>2 DEF Ledger
    <3> QED BY <2>1, <2>2, <3>1 DEF TxOK
  <2>6. \A c \in Channels : paid'[c] \in agreed'[c] \cup {Unsigned(c)}
    <3>1. txs[u].kind # "fund" => txs[u].state \in agreed[k]
      BY <2>1, <1>t DEF TxOK, TypeOK, Tx
    <3> QED BY <1>21, <2>1, <3>1, <1>t DEF Ledger, TxLands, TxFails, LedgerInv, TypeOK
  <2>7. \A c \in Channels : db'[c].status \in Past => escrow'[c]
    BY <2>1, <1>m DEF LedgerInv, Moves, ChainMoves
  <2>8. SettledIsPaid'
    <3> SUFFICES ASSUME NEW c \in Channels, db[c].status = "settled"
                 PROVE  txs'[db[c].settlementTx] = txs[db[c].settlementTx] /\ paid'[c] = paid[c]
      BY <2>1 DEF LedgerInv, SettledIsPaid
    <3>1. paid[c] # Unsigned(c)
      BY <1>t, SettledTx, SignedNotNull
    <3> QED BY <3>1, <1>m, <1>t, SettledTx DEF Moves, TxMoves, Unused, ChainMoves
  <2> QED BY <2>3, <2>4, <2>5, <2>6, <2>7, <2>8 DEF LedgerInv
<1>22. ASSUME NEW h \in Handlers, Crash(h) PROVE LedgerInv'
  <2>1. WaitOK(h)'
    BY <1>22, <1>t DEF Crash, Goto, WaitOK, TypeOK
  <2>2. \A g \in Handlers : WaitOK(g)'
    BY <1>22, <1>t, <1>m, <2>1, GotoWait DEF Crash, TypeOK
  <2> QED BY <1>22, <1>a, <2>2 DEF Crash, LeaveUnwritten
<1>23. ASSUME NEW h \in Handlers, WriteJournal(h) PROVE LedgerInv'
  BY <1>23, <1>a, <1>c DEF WriteJournal
<1>24. ASSUME NEW h \in Handlers, ClaimUnanswered(h) PROVE LedgerInv'
  <2>1. \A g \in Handlers : WaitOK(g)'
    BY <1>24, <1>m, FinishWait DEF ClaimUnanswered
  <2>2. \A d \in Channels : /\ db'[d].status \in Past => db[d].status \in Past
                            /\ db'[d].status = "settled" => db[d].status = "settled"
    BY <1>24, <1>t DEF ClaimUnanswered, Claimable, From, SetStatus, TypeOK, Row, Past, Live
  <2> QED BY <1>24, <1>m, <2>1, <2>2, LedgerFrame DEF ClaimUnanswered
<1> QED
  BY <1>1, <1>2, <1>3, <1>5, <1>6, <1>7, <1>8, <1>9, <1>10, <1>11, <1>12, <1>13, <1>14,
     <1>15, <1>16, <1>17, <1>18, <1>19, <1>20, <1>21, <1>22,
     <1>23, <1>24
  DEF Next, Arrive, Continue, Fails, DeadlinePasses, vars, chain, locals

LEMMA ControlInv == Spec => []Control
  BY TypeInit, TypeStep, JournalInit, JournalStep, ExclusiveInit, ExclusiveNext, ClaimsNext, PTL
  DEF Spec, Control

\* markSettled: a channel that is settled has been paid out, by the transaction
\* it names, in a state that both parties have signed and its row has held.
THEOREM SettledIsPaidTheorem == Spec => []SettledIsPaid
<1>1. Spec => []LedgerInv
  BY LedgerInit, LedgerNext, ControlInv, PTL DEF Spec
<1>2. LedgerInv => SettledIsPaid
  BY DEF LedgerInv
<1> QED BY <1>1, <1>2, PTL

-----------------------------------------------------------------------------
(* The promise.  Opening, funding, activating, co-signing, paying and      *)
(* closing are the steps that ChannelPromise sees; the rest are stutters.  *)

PhaseMap == [c \in Channels |-> Phase(c)]
PayoutMap == [c \in Channels |-> {paid[c]} \ {Unsigned(c)}]

LEMMA PhaseOf ==
  ASSUME NEW c \in Channels
  PROVE  /\ db[c].status = "absent" => Phase(c) = "absent"
         /\ db[c].status = "pending_funding" => Phase(c) = "pending"
         /\ db[c].status = "settled" => Phase(c) = "closed"
         /\ db[c].status \in Live => Phase(c) = "live"
  BY DEF Phase, Live

LEMMA SamePhases ==
  ASSUME \A c \in Channels : \/ db'[c].status = db[c].status
                             \/ db[c].status \in Live /\ db'[c].status \in Live
  PROVE  PhaseMap' = PhaseMap
<1>1. ASSUME NEW c \in Channels PROVE Phase(c)' = Phase(c)
  BY DEF Phase, Live
<1> QED BY <1>1 DEF PhaseMap

LEMMA PhaseMoves ==
  ASSUME TypeOK, NEW c \in Channels, NEW s, db'[c].status = s,
         \A d \in Channels \ {c} : db'[d].status = db[d].status
  PROVE  /\ s = "pending_funding" => PhaseMap' = [PhaseMap EXCEPT ![c] = "pending"]
         /\ s \in Live => PhaseMap' = [PhaseMap EXCEPT ![c] = "live"]
         /\ s = "settled" => PhaseMap' = [PhaseMap EXCEPT ![c] = "closed"]
<1>1. ASSUME NEW d \in Channels \ {c} PROVE Phase(d)' = Phase(d)
  BY <1>1 DEF Phase
<1>2. /\ s = "pending_funding" => Phase(c)' = "pending"
      /\ s \in Live => Phase(c)' = "live"
      /\ s = "settled" => Phase(c)' = "closed"
  BY DEF Phase, Live
<1> QED BY <1>1, <1>2 DEF PhaseMap

LEMMA PromiseStutter ==
  ASSUME \A c \in Channels : \/ db'[c].status = db[c].status
                             \/ db[c].status \in Live /\ db'[c].status \in Live,
         UNCHANGED <<agreed, journal, escrow, paid>>
  PROVE  [Promise!Next]_(Promise!promise)
<1>1. PhaseMap' = PhaseMap
  BY SamePhases
<1>2. PayoutMap' = PayoutMap
  BY DEF PayoutMap, Unsigned
<1> QED BY <1>1, <1>2 DEF PhaseMap, PayoutMap, Promise!promise

LEMMA PromiseInit == Init => Promise!Init
<1> SUFFICES ASSUME Init PROVE Promise!Init
  OBVIOUS
<1>1. \A c \in Channels : Phase(c) = "absent"
  BY DEF Init, NoRow, Phase
<1>2. \A c \in Channels : {paid[c]} \ {Unsigned(c)} = {}
  BY DEF Init
<1> QED BY <1>1, <1>2 DEF Init, Promise!Init

LEMMA PromiseStep == Control /\ LedgerInv /\ [Next]_vars => [Promise!Next]_(Promise!promise)
<1> SUFFICES ASSUME Control, LedgerInv, [Next]_vars PROVE [Promise!Next]_(Promise!promise)
  OBVIOUS
<1> USE DEF stores, past, chain
<1>t. TypeOK
  BY DEF Control
<1>1. ASSUME NEW h \in Handlers, NEW c \in Channels, OpenChannel(h, c)
      PROVE [Promise!Next]_(Promise!promise)
  <2>1. /\ db[c].status = "absent" /\ db'[c].status = "pending_funding"
        /\ \A d \in Channels \ {c} : db'[d].status = db[d].status
    BY <1>1, <1>t DEF OpenChannel, SetStatus, TypeOK, Row
  <2>2. PhaseMap[c] = "absent" /\ PhaseMap' = [PhaseMap EXCEPT ![c] = "pending"]
    BY <2>1, <1>t, PhaseOf, PhaseMoves DEF PhaseMap
  <2>3. UNCHANGED <<agreed, journal, escrow>> /\ PayoutMap' = PayoutMap
    BY <1>1 DEF OpenChannel, PayoutMap, Unsigned
  <2>4. Promise!Open(c)
    BY <2>2, <2>3 DEF PhaseMap, PayoutMap, Promise!Open
  <2> QED BY <2>4 DEF Promise!Next
<1>2. ASSUME NEW h \in Handlers, MarkFunded(h) PROVE [Promise!Next]_(Promise!promise)
  <2> DEFINE c == chan[h]
  <2>1. /\ c \in Channels /\ db[c].status = "pending_funding" /\ db'[c].status = "open"
        /\ \A d \in Channels \ {c} : db'[d].status = db[d].status
    BY <1>2, <1>t DEF MarkFunded, SetStatus, TypeOK, Row, Control, ExclusiveInv, Funding
  <2>2. escrow[c]
    <3>1. tid[h] \in TxIds /\ WaitOK(h) /\ TxOK(tid[h]) /\ Unsigned(c).channel = c
      BY <1>2 DEF MarkFunded, LedgerInv, WaitOK, Unsigned
    <3> QED BY <1>2, <3>1 DEF MarkFunded, WaitOK, TxOK
  <2>3. PhaseMap[c] = "pending" /\ PhaseMap' = [PhaseMap EXCEPT ![c] = "live"]
    BY <2>1, <1>t, PhaseOf, PhaseMoves DEF PhaseMap, Live
  <2>4. UNCHANGED <<agreed, journal, escrow>> /\ PayoutMap' = PayoutMap
    BY <1>2 DEF MarkFunded, PayoutMap, Unsigned
  <2>5. Promise!Activate(c)
    BY <2>2, <2>3, <2>4 DEF PhaseMap, PayoutMap, Promise!Activate
  <2> QED BY <2>1, <2>5 DEF Promise!Next
<1>3. ASSUME NEW h \in Handlers, AppendUpdate(h) PROVE [Promise!Next]_(Promise!promise)
  <2> DEFINE c == chan[h]
             s == sgn[h]
  <2>1. /\ c \in Channels /\ s \in State /\ s \in SignedStates
        /\ db[c].status \in Live /\ UNCHANGED <<journal, escrow, paid>>
        /\ agreed' = [agreed EXCEPT ![c] = @ \cup {s}]
    BY <1>3, <1>t DEF AppendUpdate, Appendable, TypeOK, Live, Control, JournalInv, LocalsKnown,
                      AppendsValid
  <2>2. \A d \in Channels : db'[d].status = db[d].status
    BY <1>3, <1>t DEF AppendUpdate, TypeOK, Row
  <2>3. PhaseMap' = PhaseMap /\ PhaseMap[c] = "live"
    BY <2>1, <2>2, SamePhases, PhaseOf DEF PhaseMap
  <2>4. PayoutMap' = PayoutMap
    BY <2>1 DEF PayoutMap, Unsigned
  <2>5. AgreedIsLinear' /\ AgreedIsLinear
    BY <1>3, <1>t, AppendLinear DEF Control, JournalInv, JournalIsLinear
  <2>6. /\ s.channel = c /\ s.signedBy = Parties /\ s.student + s.mentor <= Reward
        /\ s.sequence = db[c].latest.sequence + 1
    <3>1. /\ db[c].latest.sequence \in Nat /\ s.sequence \in Nat
          /\ db[c].latest.sequence = s.sequence - 1
      BY <1>3, <1>t, <2>1 DEF AppendUpdate, Appendable, TypeOK, Row, State
    <3> QED BY <1>3, <3>1 DEF AppendUpdate, Control, JournalInv, LocalsKnown, AppendsValid,
                              ValidSignedState
  <2>7. {r.sequence : r \in agreed[c]} = 1 .. (s.sequence - 1)
    <3>1. db[c].latest.sequence \in Nat
      BY <1>t, <2>1 DEF TypeOK, Row, State
    <3>2. s.sequence - 1 = db[c].latest.sequence
      BY <2>6, <3>1
    <3> QED BY <2>1, <2>5, <3>2 DEF AgreedIsLinear
  <2>8. \A r \in agreed[c] : r.sequence < s.sequence /\ r.milestones \subseteq s.milestones
    <3> SUFFICES ASSUME NEW r \in agreed[c]
                 PROVE  r.sequence < s.sequence /\ r.milestones \subseteq s.milestones
      OBVIOUS
    <3>1. r.sequence \in 1 .. (s.sequence - 1) /\ s.sequence \in Nat
      BY <2>1, <2>7 DEF State
    <3>2. r \in agreed'[c] /\ s \in agreed'[c]
      BY <2>1, <1>t DEF TypeOK
    <3>3. r.sequence < s.sequence
      BY <3>1
    <3> QED BY <2>1, <2>5, <3>2, <3>3 DEF AgreedIsLinear
  <2>9. Promise!Extends(c, s)
    BY <2>6, <2>7, <2>8 DEF Promise!Extends, Parties
  <2>10. Promise!CoSign(c)
    BY <2>1, <2>3, <2>4, <2>9 DEF PhaseMap, PayoutMap, Promise!CoSign
  <2> QED BY <2>1, <2>10 DEF Promise!Next
<1>4. ASSUME NEW t \in TxIds, TxLands(t) PROVE [Promise!Next]_(Promise!promise)
  <2>0. PICK c \in Channels : c = txs[t].state.channel
    BY <1>t DEF TypeOK, Tx, State
  <2>1. /\ txs[t].state.channel = c /\ TxOK(t) /\ txs[t].status = "pending"
        /\ txs[t].kind \in {"fund", "settle"} /\ Accepts(t) /\ UNCHANGED <<db, agreed, journal>>
    BY <1>4, <1>t, <2>0 DEF TxLands, LedgerInv, TypeOK, Tx, State
  <2>2. PhaseMap' = PhaseMap
    BY <2>1, SamePhases
  <2>3. CASE txs[t].kind = "fund"
    <3>1. /\ ~escrow[c] /\ escrow' = [escrow EXCEPT ![c] = TRUE] /\ paid' = paid
          /\ db[c].status # "absent"
      BY <1>4, <2>1, <2>3 DEF TxLands, Accepts, TxOK
    <3>2. PhaseMap[c] # "absent"
      BY <2>1, <3>1, <1>t DEF PhaseMap, Phase, TypeOK, Row, Statuses
    <3>3. PayoutMap' = PayoutMap
      BY <3>1 DEF PayoutMap, Unsigned
    <3>4. Promise!Fund(c)
      BY <2>1, <2>2, <3>1, <3>2, <3>3 DEF PhaseMap, PayoutMap, Promise!Fund
    <3> QED BY <2>1, <3>4 DEF Promise!Next
  <2>4. CASE txs[t].kind = "settle"
    <3>0. PICK s \in State : s = txs[t].state
      BY <1>t DEF TypeOK, Tx
    <3>1. /\ escrow[c] /\ paid[c] = Unsigned(c) /\ escrow' = escrow
          /\ paid' = [paid EXCEPT ![c] = s] /\ s \in agreed[c]
      BY <1>4, <2>1, <2>4, <3>0 DEF TxLands, Accepts, TxOK
    <3>2. s # Unsigned(c)
      BY <2>1, <3>1, SignedNotNull
    <3>3. PayoutMap[c] = {} /\ PayoutMap' = [PayoutMap EXCEPT ![c] = {s}]
      <4>1. paid'[c] = s /\ \A d \in Channels \ {c} : paid'[d] = paid[d]
        BY <2>1, <3>1, <1>t DEF TypeOK
      <4>2. {paid[c]} \ {Unsigned(c)} = {} /\ {paid'[c]} \ {Unsigned(c)} = {s}
        BY <3>1, <3>2, <4>1 DEF Unsigned
      <4>3. \A d \in Channels \ {c} : {paid'[d]} \ {Unsigned(d)} = {paid[d]} \ {Unsigned(d)}
        BY <4>1 DEF Unsigned
      <4> QED BY <2>1, <4>2, <4>3 DEF PayoutMap
    <3>4. Promise!Pay(c)
      BY <2>1, <2>2, <3>1, <3>3 DEF PhaseMap, PayoutMap, Promise!Pay
    <3> QED BY <3>4 DEF Promise!Next
  <2> QED BY <2>1, <2>3, <2>4
<1>5. ASSUME NEW h \in Handlers, MarkSettled(h) PROVE [Promise!Next]_(Promise!promise)
  <2> DEFINE c == chan[h]
  <2>1. /\ c \in Channels /\ db[c].status = "settling" /\ db'[c].status = "settled"
        /\ \A d \in Channels \ {c} : db'[d].status = db[d].status
    BY <1>5, <1>t DEF MarkSettled, TypeOK, Row, Control, ExclusiveInv, Holding
  <2>2. paid[c] # Unsigned(c)
    <3>1. Holding(h)
      BY <1>5 DEF MarkSettled, Holding
    <3>2. rec[h].latest.channel = c /\ rec[h].latest # Unsigned(c)
      BY <3>1, ClaimedState
    <3>3. /\ tid[h] \in TxIds /\ txs[tid[h]].state = rec[h].latest
          /\ txs[tid[h]].status = "success" /\ txs[tid[h]].kind = "settle"
      BY <1>5 DEF MarkSettled, LedgerInv, WaitOK
    <3> QED BY <3>2, <3>3 DEF LedgerInv, TxOK
  <2>3. PhaseMap[c] = "live" /\ PhaseMap' = [PhaseMap EXCEPT ![c] = "closed"]
    BY <2>1, <1>t, PhaseOf, PhaseMoves DEF PhaseMap, Live
  <2>4. /\ UNCHANGED <<agreed, journal, escrow>> /\ PayoutMap' = PayoutMap /\ PayoutMap[c] # {}
    BY <1>5, <2>1, <2>2 DEF MarkSettled, PayoutMap, Unsigned
  <2>5. Promise!Close(c)
    BY <2>3, <2>4 DEF PhaseMap, PayoutMap, Promise!Close
  <2> QED BY <2>1, <2>5 DEF Promise!Next
<1>6. ASSUME NEW h \in Handlers, StartDispute(h) \/ Claim(h) \/ ClaimUnanswered(h) \/ ReleaseSettlement(h)
      PROVE [Promise!Next]_(Promise!promise)
  <2>1. chan[h] \in Channels /\ UNCHANGED <<agreed, journal, escrow, paid>>
    BY <1>6, <1>t DEF StartDispute, Claim, ClaimUnanswered, ReleaseSettlement, TypeOK
  <2>2. ReleaseSettlement(h) => rec[h].status \in Live
    BY DEF ReleaseSettlement, Holding, Control, ClaimsInv, ClaimOK
  <2>3. \/ db' = db
        \/ \E s \in Live : db[chan[h]].status \in Live /\ SetStatus(chan[h], s)
    BY <1>6, <2>2 DEF StartDispute, Claim, ClaimUnanswered, Claimable, From, ReleaseSettlement, Live
  <2>4. \A c \in Channels : \/ db'[c].status = db[c].status
                            \/ db[c].status \in Live /\ db'[c].status \in Live
    BY <2>1, <2>3, <1>t DEF SetStatus, TypeOK, Row
  <2> QED BY <2>1, <2>4, PromiseStutter
<1>7. ASSUME UNCHANGED db, UNCHANGED <<agreed, journal, escrow, paid>> PROVE [Promise!Next]_(Promise!promise)
  BY <1>7, PromiseStutter
<1>8. ASSUME NEW h \in Handlers, WriteJournal(h) PROVE [Promise!Next]_(Promise!promise)
  <2> DEFINE c == chan[h]
  <2>1. /\ c \in Channels /\ journal' = [journal EXCEPT ![c] = @ \cup {sgn[h]}]
        /\ UNCHANGED <<db, agreed, escrow, paid>>
    BY <1>8, <1>t DEF WriteJournal, TypeOK
  <2>2. sgn[h] \in agreed[c] \ journal[c]
    <3>1. Writing(h)
      BY <1>8 DEF WriteJournal, Writing
    <3> QED BY <2>1, <3>1 DEF Control, JournalInv, JournalIsLinear, WritersApart
  <2>3. PhaseMap' = PhaseMap /\ PayoutMap' = PayoutMap
    BY <2>1, SamePhases DEF PayoutMap, Unsigned
  <2>4. Promise!Record(c)
    BY <2>1, <2>2, <2>3 DEF PhaseMap, PayoutMap, Promise!Record
  <2> QED BY <2>1, <2>4 DEF Promise!Next
<1> QED
  <2>1. CASE UNCHANGED vars
    BY <2>1, <1>7 DEF vars
  <2>2. CASE \E h \in Handlers : Arrive(h) \/ BeginSweep(h) \/ Fails(h)
    BY <2>2, <1>1, <1>6, <1>7
    DEF Arrive, SubmitUpdate, InitiateDispute, BeginSweep, Fails, DbError, Crash, LeaveUnwritten
  <2>3. CASE \E h \in Handlers : Continue(h)
    BY <2>3, <1>2, <1>3, <1>5, <1>6, <1>7, <1>8
    DEF Continue, SendFund, SendSettle, Send, FundConfirmed, FundThrows, AppendConflict, Reread,
        SweepNext, ClaimRefused, SettleConfirmed, SettleThrows
  <2>4. CASE (\E c \in Channels : DeadlinePasses(c)) \/ \E t \in TxIds : Ledger(t)
    BY <2>4, <1>4, <1>7 DEF Ledger, DeadlinePasses, TxFails
  <2> QED BY <2>1, <2>2, <2>3, <2>4 DEF Next

\* The coordinator, its rows and the contract together keep the promise of
\* ChannelPromise: the history of a channel is only ever extended, its journal
\* holds nothing else and loses nothing, the contract pays once and a co-signed
\* state, and a closed channel is a paid one.
THEOREM PromiseTheorem == Spec => KeepsPromise
<1>1. Spec => []LedgerInv
  BY LedgerInit, LedgerNext, ControlInv, PTL DEF Spec
<1> QED BY <1>1, PromiseInit, PromiseStep, ControlInv, PTL DEF Spec, KeepsPromise, Promise!Spec

=============================================================================
