--------------------------- MODULE ChannelPromise ---------------------------
(***************************************************************************)
(* What a state channel promises its student and its mentor, without the   *)
(* requests, rows, retries and transactions that bring it about.  A        *)
(* channel is funded once, then lives on a history of co-signed states     *)
(* that is only ever extended; the record of that history may come later   *)
(* and have gaps, but holds nothing else and loses nothing; the contract   *)
(* pays at most once, and only a state of that history; a channel is       *)
(* closed only when it has been paid, and a closed channel stays as it is. *)
(***************************************************************************)
EXTENDS Naturals

CONSTANTS
    Channels,
    Proposals,      \* the states the parties may agree on
    Parties,        \* who must sign
    Reward          \* what the contract holds for a channel

VARIABLES
    phase,      \* channel -> absent, pending, live or closed
    funded,     \* channel -> does the contract hold the reward?
    history,    \* channel -> the co-signed states
    recorded,   \* channel -> those of them that can be looked up
    payout      \* channel -> the set of states paid out

promise == <<phase, funded, history, recorded, payout>>

Init ==
    /\ phase = [c \in Channels |-> "absent"]
    /\ funded = [c \in Channels |-> FALSE]
    /\ history = [c \in Channels |-> {}]
    /\ recorded = [c \in Channels |-> {}]
    /\ payout = [c \in Channels |-> {}]

Open(c) ==
    /\ phase[c] = "absent"
    /\ phase' = [phase EXCEPT ![c] = "pending"]
    /\ UNCHANGED <<funded, history, recorded, payout>>

Fund(c) ==
    /\ phase[c] # "absent"
    /\ ~funded[c]
    /\ funded' = [funded EXCEPT ![c] = TRUE]
    /\ UNCHANGED <<phase, history, recorded, payout>>

Activate(c) ==
    /\ phase[c] = "pending"
    /\ funded[c]
    /\ phase' = [phase EXCEPT ![c] = "live"]
    /\ UNCHANGED <<funded, history, recorded, payout>>

\* s extends every state before it and is agreed by both parties.
Extends(c, s) ==
    /\ s.channel = c
    /\ s.signedBy = Parties
    /\ s.student + s.mentor <= Reward
    /\ \A r \in history[c] : r.sequence < s.sequence /\ r.milestones \subseteq s.milestones
    /\ {r.sequence : r \in history[c]} = 1 .. (s.sequence - 1)

CoSign(c) ==
    /\ phase[c] = "live"
    /\ \E s \in Proposals :
            /\ Extends(c, s)
            /\ history' = [history EXCEPT ![c] = @ \cup {s}]
    /\ UNCHANGED <<phase, funded, recorded, payout>>

\* A state of the history is written down, once.
Record(c) ==
    /\ \E s \in history[c] \ recorded[c] : recorded' = [recorded EXCEPT ![c] = @ \cup {s}]
    /\ UNCHANGED <<phase, funded, history, payout>>

Pay(c) ==
    /\ funded[c]
    /\ payout[c] = {}
    /\ \E s \in history[c] : payout' = [payout EXCEPT ![c] = {s}]
    /\ UNCHANGED <<phase, funded, history, recorded>>

Close(c) ==
    /\ phase[c] = "live"
    /\ payout[c] # {}
    /\ phase' = [phase EXCEPT ![c] = "closed"]
    /\ UNCHANGED <<funded, history, recorded, payout>>

Next == \E c \in Channels :
    Open(c) \/ Fund(c) \/ Activate(c) \/ CoSign(c) \/ Record(c) \/ Pay(c) \/ Close(c)

Spec == Init /\ [][Next]_promise

=============================================================================
