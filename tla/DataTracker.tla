---------------------------- MODULE DataTracker -----------------------------
(***************************************************************************)
(* net/dcsctp/rx/data_tracker.cc: which TSNs have arrived, and when a SACK *)
(* is due. Received TSNs are the ones up to last_cumulative_acked_tsn_ and *)
(* a sorted vector of blocks beyond it. Its callers, the socket's packet   *)
(* loop and the TransmissionControlBlock, are the environment: a packet is *)
(* a run of chunk steps that ends with PacketEnd.                          *)
(*                                                                         *)
(* TSNs are unwrapped and counted from the peer's initial TSN, which is 1. *)
(***************************************************************************)
EXTENDS Integers, Sequences, FiniteSets, SequencesExt

CONSTANTS
    MaxTsn,        \* bound: the highest TSN
    MaxAccepted,   \* kMaxAcceptedOutstandingFragments
    MaxDuplicates, \* kMaxDuplicateTsnReported
    MaxGaps,       \* kMaxGapAckBlocksReported
    GapModulus     \* 2^16: gap ack block offsets are uint16_t

ASSUME TrackerAssumption ==
    /\ MaxTsn \in Nat
    /\ MaxAccepted \in Nat
    /\ MaxDuplicates \in Nat
    /\ MaxGaps \in Nat
    /\ GapModulus \in Nat \ {0}

VARIABLES
    cum,       \* last_cumulative_acked_tsn_
    blocks,    \* additional_tsn_blocks_
    dups,      \* duplicate_tsns_
    ackState,  \* ack_state_
    timerOn,   \* delayed_ack_timer_->is_running()
    seen,      \* seen_packet_
    inPacket,  \* chunks of a packet have been handled, its end has not
    fresh,     \* the last answer of Observe
    claimed,   \* TSNs acknowledged by the last SACK
    owed       \* a chunk called for a SACK, and none has been sent since

tracker == <<cum, blocks, dups, ackState, timerOn, seen>>
vars == <<tracker, inPacket, fresh, claimed, owed>>

Tsns == 1..MaxTsn
AckState == {"Idle", "BecomingDelayed", "Delayed", "Immediate"}
Block == [first : Tsns, last : Tsns]
Range1(t) == [first |-> t, last |-> t]

-----------------------------------------------------------------------------
(* AdditionalTsnBlocks *)

\* std::lower_bound for a predicate that holds of a prefix of the blocks: the
\* index of the first block whose last TSN is at least t, Len + 1 for ::end.
LowerBound(bs, t) ==
    CHOOSE i \in 1..(Len(bs) + 1) :
        /\ i <= Len(bs) => bs[i].last >= t
        /\ \A j \in 1..(i - 1) : bs[j].last < t

\* Add: the block found contains t, ends right before it, begins right after
\* it, or lies beyond it.
Within(bs, i, t) == i <= Len(bs) /\ bs[i].first <= t /\ t <= bs[i].last
AddWithoutMerge(bs, t) ==
    LET i == LowerBound(bs, t - 1) IN
    CASE i > Len(bs) -> Append(bs, Range1(t))
      [] Within(bs, i, t) -> bs
      [] i <= Len(bs) /\ bs[i].last + 1 = t -> [bs EXCEPT ![i].last = t]
      [] i <= Len(bs) /\ bs[i].first = t + 1 -> [bs EXCEPT ![i].first = t]
      [] OTHER -> InsertAt(bs, i, Range1(t))
Add(bs, t) ==
    LET i == LowerBound(bs, t - 1) IN
    CASE i > Len(bs) -> Append(bs, Range1(t))
      [] Within(bs, i, t) -> bs
      [] i <= Len(bs) /\ bs[i].last + 1 = t ->
           IF i + 1 <= Len(bs) /\ t + 1 = bs[i + 1].first
           THEN RemoveAt([bs EXCEPT ![i].last = bs[i + 1].last], i + 1)
           ELSE [bs EXCEPT ![i].last = t]
      [] i <= Len(bs) /\ bs[i].first = t + 1 -> [bs EXCEPT ![i].first = t]
      [] OTHER -> InsertAt(bs, i, Range1(t))
Added(bs, t) == ~Within(bs, LowerBound(bs, t - 1), t)

\* EraseTo: blocks below t go, and one that holds t loses its lower part.
EraseTo(bs, t) ==
    LET i == LowerBound(bs, t)
        rest == SubSeq(bs, i, Len(bs))
    IN  IF Within(bs, i, t) THEN [rest EXCEPT ![1].first = t + 1] ELSE rest

\* The cumulative ack moves to c, and past a first block that follows it.
AdvanceOneTooFar(c, bs) ==
    IF bs # <<>> /\ bs[1].first = c + 1
    THEN cum' = bs[1].last + 1 /\ blocks' = Tail(bs)
    ELSE cum' = c /\ blocks' = bs
Advance(c, bs) ==
    IF bs # <<>> /\ bs[1].first = c + 1
    THEN cum' = bs[1].last /\ blocks' = Tail(bs)
    ELSE cum' = c /\ blocks' = bs

-----------------------------------------------------------------------------
(* The acknowledgement state *)

\* UpdateAckState: leaving kDelayed stops the timer, entering it starts it.
TimerAfterNeverStarts(s, new) == IF s # new /\ s = "Delayed" THEN FALSE
                                 ELSE timerOn
TimerAfter(s, new) == CASE s # new /\ s = "Delayed" -> FALSE
                        [] s # new /\ new = "Delayed" -> TRUE
                        [] OTHER -> timerOn
UpdateAckState(new) ==
    ackState' = new /\ timerOn' = TimerAfter(ackState, new)

\* A chunk without reason to hurry: the first one since the last SACK delays
\* the next, the second one makes it due.
Delay(s) == CASE s = "Idle" -> "BecomingDelayed"
              [] s = "Delayed" -> "Immediate"
              [] OTHER -> s

IsTSNValid(t) == t - cum <= MaxAccepted /\ cum - t <= MaxAccepted

Duplicate(t) == t <= cum \/ (t # cum + 1 /\ ~Added(blocks, t))

\* CreateSelectiveAck and CreateGapAckBlocks: what the SACK says to its reader,
\* who adds the 16 bit offsets to the cumulative ack.
GapAckBlocksPastEnd ==
    [i \in 1..(IF Len(blocks) < MaxGaps THEN Len(blocks) ELSE MaxGaps) |->
        [start |-> (blocks[i].first - cum) % GapModulus,
         end |-> (blocks[i].last - cum + 1) % GapModulus]]
GapAckBlocks ==
    [i \in 1..(IF Len(blocks) < MaxGaps THEN Len(blocks) ELSE MaxGaps) |->
        [start |-> (blocks[i].first - cum) % GapModulus,
         end |-> (blocks[i].last - cum) % GapModulus]]
Claimed == {n \in Tsns : \/ n <= cum
                         \/ \E i \in DOMAIN GapAckBlocks :
                              /\ cum + GapAckBlocks[i].start <= n
                              /\ n <= cum + GapAckBlocks[i].end}
CreateSelectiveAck == claimed' = Claimed /\ dups' = {} /\ owed' = FALSE

-----------------------------------------------------------------------------
Init ==
    /\ cum = 0 /\ blocks = <<>> /\ dups = {}
    /\ ackState = "Idle" /\ timerOn = FALSE /\ seen = FALSE
    /\ inPacket = FALSE /\ fresh = FALSE /\ claimed = {} /\ owed = FALSE

\* Observe, called by HandleDataCommon for a TSN that IsTSNValid accepts.
Observe(t, immediateAck) ==
    /\ IsTSNValid(t)
    /\ IF t <= cum THEN UNCHANGED <<cum, blocks>>
       ELSE IF t = cum + 1 THEN Advance(t, blocks)
       ELSE cum' = cum /\ blocks' = Add(blocks, t)
    /\ dups' = IF Duplicate(t) /\ Cardinality(dups) < MaxDuplicates
               THEN dups \cup {t} ELSE dups
    /\ fresh' = ~Duplicate(t)
    /\ UpdateAckState(
         IF t <= cum \/ blocks' # <<>> \/ immediateAck \/ ~seen
         THEN "Immediate" ELSE Delay(ackState))
    /\ seen' = TRUE
    /\ inPacket' = TRUE /\ owed' = TRUE
    /\ UNCHANGED claimed

\* HandleForwardTsn
HandleForwardTsn(t) ==
    /\ IF t <= cum
       THEN /\ UpdateAckState("Immediate")
            /\ UNCHANGED <<cum, blocks>>
       ELSE /\ Advance(t, EraseTo(blocks, t))
            /\ UpdateAckState(Delay(ackState))
    /\ inPacket' = TRUE /\ owed' = TRUE
    /\ UNCHANGED <<dups, seen, fresh, claimed>>

\* HandleDataCommon above the watermark of the reassembly queue, which may be
\* reached at any time: DATA that would not move the cumulative ack is dropped
\* and ForceImmediateSack sets the state without UpdateAckState.
RejectData(t) ==
    /\ t # cum + 1
    /\ ackState' = "Immediate"
    /\ inPacket' = TRUE /\ owed' = TRUE
    /\ UNCHANGED <<cum, blocks, dups, timerOn, seen, fresh, claimed>>

\* The end of ReceivePacket: ObservePacketEnd, then MaybeSendSack.
PacketEnd ==
    /\ inPacket' = FALSE
    /\ \/ /\ ackState = "BecomingDelayed"
          /\ UpdateAckState("Delayed")
          /\ UNCHANGED <<dups, claimed, owed>>
       \/ /\ ackState = "Immediate"
          /\ UpdateAckState("Idle")
          /\ CreateSelectiveAck
       \/ /\ ackState \in {"Idle", "Delayed"}
          /\ UNCHANGED <<dups, ackState, timerOn, claimed, owed>>
    /\ UNCHANGED <<cum, blocks, seen, fresh>>

\* SendBufferedPackets: a SACK that is due, or delayed, leaves with the DATA.
SendBufferedPackets ==
    /\ ackState # "Idle"
    /\ UpdateAckState("Idle")
    /\ CreateSelectiveAck
    /\ UNCHANGED <<cum, blocks, seen, inPacket, fresh>>

\* OnDelayedAckTimerExpiry, between packets: the timer does not restart.
\* HandleDelayedAckTimerExpiry makes the SACK due and MaybeSendSack sends it.
OnDelayedAckTimerExpirySilent ==
    /\ timerOn /\ ~inPacket
    /\ ackState' = "Idle" /\ timerOn' = FALSE
    /\ UNCHANGED <<cum, blocks, dups, seen, inPacket, fresh, claimed, owed>>
OnDelayedAckTimerExpiry ==
    /\ timerOn /\ ~inPacket
    /\ ackState' = "Idle" /\ timerOn' = FALSE
    /\ CreateSelectiveAck
    /\ UNCHANGED <<cum, blocks, seen, inPacket, fresh>>

\* Handover: AddHandoverState on the old tracker, which is ready when it has no
\* blocks, and RestoreFromState on a pristine one. The acknowledgement state is
\* not saved: a SACK that the old tracker owed is owed no more.
HandoverForgetsCum ==
    /\ ~inPacket /\ blocks = <<>>
    /\ cum' = 0 /\ ackState' = "Idle" /\ timerOn' = FALSE /\ dups' = {}
    /\ owed' = FALSE
    /\ UNCHANGED <<blocks, seen, inPacket, fresh, claimed>>
Handover ==
    /\ ~inPacket /\ blocks = <<>>
    /\ ackState' = "Idle" /\ timerOn' = FALSE /\ dups' = {}
    /\ owed' = FALSE
    /\ UNCHANGED <<cum, blocks, seen, inPacket, fresh, claimed>>

Next ==
    \/ \E t \in Tsns : \/ \E i \in BOOLEAN : Observe(t, i)
                       \/ HandleForwardTsn(t)
                       \/ RejectData(t)
    \/ PacketEnd
    \/ SendBufferedPackets
    \/ OnDelayedAckTimerExpiry
    \/ Handover

\* A packet is processed to its end and a running timer expires.
Fairness == WF_vars(PacketEnd) /\ WF_vars(OnDelayedAckTimerExpiry)

Spec == Init /\ [][Next]_vars
FairSpec == Spec /\ Fairness

-----------------------------------------------------------------------------
(* Properties *)

\* Every variable has values of its type.
TypeOK ==
    /\ cum \in 0..MaxTsn
    /\ blocks \in Seq(Block)
    /\ dups \in SUBSET Tsns
    /\ ackState \in AckState
    /\ timerOn \in BOOLEAN /\ seen \in BOOLEAN
    /\ inPacket \in BOOLEAN /\ fresh \in BOOLEAN /\ owed \in BOOLEAN
    /\ claimed \in SUBSET Tsns

\* The representation invariant of AdditionalTsnBlocks ("a sorted vector of
\* non-overlapping and non-adjacent blocks"), whatever the order in which TSNs
\* arrive and FORWARD-TSNs cut into the blocks. The first block leaves a gap
\* after the cumulative ack, and no block is out of IsTSNValid's reach.
BlocksSorted ==
    /\ \A i \in 1..Len(blocks) :
         /\ cum + 1 < blocks[i].first
         /\ blocks[i].first <= blocks[i].last
         /\ blocks[i].last <= cum + MaxAccepted
    /\ \A i, j \in 1..Len(blocks) :
         i < j => blocks[i].last + 1 < blocks[j].first

\* The TSNs that the cumulative ack and the blocks stand for.
Covers(bs, n) == \E i \in 1..Len(bs) : bs[i].first <= n /\ n <= bs[i].last
Received == {n \in Tsns : n <= cum \/ Covers(blocks, n)}

\* DataTracker implements the set of received TSNs of ReceivedTsns: Observe
\* tells new TSNs from duplicates, nothing received is forgotten, and a SACK
\* acknowledges what was received and nothing else.
Abstract == INSTANCE ReceivedTsns WITH received <- Received
ImplementsReceivedTsns == Abstract!Spec

\* A SACK never acknowledges a TSN that has not been received: the sender would
\* drop the chunk and it would be lost for good.
SackIsTruthful == claimed \subseteq Received

\* No acknowledgement is forgotten, but by a handover: between packets, when a
\* SACK is owed, the delayed ack timer runs and will send it.
OwedSackIsScheduled ==
    owed /\ ~inPacket => ackState = "Delayed" /\ timerOn

\* A SACK that is owed is sent, by the end of the packet or by the timer, unless
\* the tracker that owes it is handed over.
OwedSackIsSent == owed ~> ~owed

=============================================================================
