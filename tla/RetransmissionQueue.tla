------------------------- MODULE RetransmissionQueue -------------------------
(***************************************************************************)
(* The sending half of an association: net/dcsctp/tx/outstanding_data.cc   *)
(* and tx/retransmission_queue.cc, with the loop of                        *)
(* TransmissionControlBlock::SendBufferedPackets that drives them and the  *)
(* front of the send queue that feeds them. Chunks are acknowledged,       *)
(* nacked, retransmitted (after T3-rtx or fast) and abandoned (too many    *)
(* retransmissions, or the message's lifetime is over, RFC 3758).          *)
(*                                                                         *)
(* The peer acknowledges what its data tracker has, and puts the messages  *)
(* together again (rx/reassembly_queue.cc, traditional_reassembly_streams  *)
(* .cc). The path between the two loses, repeats and reorders DATA,        *)
(* FORWARD-TSN and SACK chunks.                                            *)
(*                                                                         *)
(* Every DATA chunk is as large as a packet, and sizes are counted in      *)
(* packets. All messages use one ordered stream; it is another stream that *)
(* is reset. TSNs start at 1.                                              *)
(***************************************************************************)
EXTENDS Integers, Sequences, FiniteSets, SequencesExt, FiniteSetsExt

CONSTANTS
    Fragments,              \* how many chunks each message takes
    MaxRetransmits,         \* max_retransmissions of each message, or NoLimit
    NoLimit,                \* MaxRetransmits::NoLimit()
    Mortal,                 \* messages with a limited lifetime
    NacksForRetransmission, \* kNumberOfNacksForRetransmission
    MaxBurst,               \* options_.max_burst
    InitialCwnd,            \* options_.cwnd_mtus_initial
    MinCwnd,                \* options_.cwnd_mtus_min
    SmallWindow,            \* options_.avoid_fragmentation_cwnd_mtus
    PeerWindows,            \* the receiver windows the peer may advertise
    SizeModulus,            \* size_t wraps at this value
    MaxResets               \* bound: outgoing stream resets

Messages == 1..Len(Fragments)

ASSUME QueueAssumption ==
    /\ Fragments \in Seq(Nat \ {0})
    /\ NoLimit \notin Nat
    /\ MaxRetransmits \in [Messages -> Nat \cup {NoLimit}]
    /\ Mortal \subseteq Messages
    /\ NacksForRetransmission \in Nat \ {0}
    /\ MaxBurst \in Nat \ {0} /\ MaxResets \in Nat
    /\ InitialCwnd \in Nat \ {0} /\ MinCwnd \in Nat \ {0}
    /\ SmallWindow \in Nat
    /\ PeerWindows \subseteq Nat /\ SizeModulus \in Nat \ {0}

VARIABLES
    \* OutstandingData
    cum,        \* last_cumulative_tsn_ack_
    log,        \* log[t]: message and fragment that TSN t was assigned to
    item,       \* outstanding_data_: the Item of every TSN above cum
    unacked,    \* unacked_items_, and unacked_bytes_ counted in packets
    toRtx,      \* to_be_retransmitted_
    breaks,     \* stream_reset_breakpoint_tsns_
    \* RetransmissionQueue
    exit,       \* fast_recovery_exit_tsn_, or NoExit
    cwnd, ssthresh, pba, rwnd,
    t3,         \* t3_rtx_.is_running()
    \* TransmissionControlBlock and the send queue
    sending,    \* packets SendBufferedPackets may still send, see SendControl
    limited,    \* now < limit_forward_tsn_until_
    sends,      \* messages the client has sent: 1..sends
    head,       \* the fragment that the send queue produces next
    expired,    \* messages whose lifetime is over
    resets,     \* TSNs at which outgoing streams were reset
    \* the path and the peer
    sent,       \* TSNs of DATA chunks that were sent
    fwds,       \* new cumulative TSNs of FORWARD-TSNs that were sent
    sacks,      \* SACKs that were sent: the TSNs each one reports
    arrived,    \* TSNs of DATA chunks that the peer has processed
    skip,       \* new cumulative TSN of the last FORWARD-TSN it has processed
    rx,         \* the ordered stream: next_ssn_, chunks_by_ssn_, messages read
    deferred,   \* deferred_reset_streams_, with the FORWARD-TSNs to be done
    performed,  \* the resets that the peer has performed
    delivered   \* messages reported with OnLifecycleMessageDelivered

outstanding == <<cum, log, item, unacked, toRtx, breaks>>
congestion == <<exit, cwnd, ssthresh, pba, rwnd, t3>>
client == <<sends, expired>>
path == <<sent, fwds>>
reassembly == <<rx, deferred, performed>>
peer == <<arrived, skip, sacks, reassembly>>
vars == <<outstanding, congestion, sending, limited, client, head, resets,
          path, peer, delivered>>

-----------------------------------------------------------------------------
(* Items *)

NoExit == -1
LastTsn == Len(log)            \* highest_outstanding_tsn()
Outstanding == DOMAIN item
MessageOf(t) == log[t].msg
Ssn(t) == Cardinality({MessageOf(u) : u \in 1..t}) - 1
AckState == {"Unacked", "Acked", "Nacked"}
Lifecycle == {"Active", "ToBeRetransmitted", "Abandoned"}
Item == [ack : AckState, life : Lifecycle,
         nacks : 0..NacksForRetransmission, rtx : Nat]

InFlight == [ack |-> "Unacked", life |-> "Active", nacks |-> 0, rtx |-> 0]

\* The placeholder that ends an abandoned message, fragment 0 of its message.
Placeholder == [ack |-> "Acked", life |-> "Abandoned", nacks |-> 0, rtx |-> 0]

Unacked(it) == {t \in DOMAIN it : it[t].ack = "Unacked"}
Abandoned(it) == {t \in DOMAIN it : it[t].life = "Abandoned"}

\* Item::Ack
AckItemStaysDue(i) == [i EXCEPT !.ack = "Acked"]
AckItem(i) == [i EXCEPT !.ack = "Acked",
                        !.life = IF @ = "Abandoned" THEN @ ELSE "Active"]

\* Item::Nack: enough nacks, or retransmit_now, make an active chunk lost. A
\* lost chunk is retransmitted, unless its retransmissions are used up.
IsLost(i, now) == /\ i.life = "Active"
                  /\ now \/ i.nacks + 1 >= NacksForRetransmission
IsExhausted(t, i) == /\ MaxRetransmits[MessageOf(t)] # NoLimit
                     /\ i.rtx >= MaxRetransmits[MessageOf(t)]
NackCount(i) == IF i.nacks = NacksForRetransmission THEN i.nacks
                ELSE i.nacks + 1
NackItem(t, i, now) ==
    [i EXCEPT !.ack = "Nacked", !.nacks = NackCount(i),
              !.life = IF IsLost(i, now) /\ ~IsExhausted(t, i)
                       THEN "ToBeRetransmitted" ELSE @]

\* Item::MarkAsRetransmitted. Only messages with a limit need the count.
MarkAsRetransmitted(t, i) ==
    [InFlight EXCEPT !.rtx = IF MaxRetransmits[MessageOf(t)] = NoLimit THEN 0
                             ELSE i.rtx + 1]

-----------------------------------------------------------------------------
(* Abandoning *)

\* AbandonAllFor, for the messages ms, when the items are "it", the assigned
\* TSNs l and the next fragment h. The rest of a message that is partly sent is
\* discarded from the send queue, and a placeholder takes the TSN of its end:
\* at most one, since messages are sent one after the other.
AbandonedItems(l, it, ms) ==
    [t \in DOMAIN it |-> IF l[t].msg \in ms
                         THEN [it[t] EXCEPT !.life = "Abandoned"] ELSE it[t]]
AbandonAllFor(l, it, rtx, h, ms) ==
    /\ toRtx' = {t \in rtx : l[t].msg \notin ms}
    /\ IF h.msg \in ms /\ h.frag > 1
       THEN /\ item' = [t \in DOMAIN it \cup {Len(l) + 1} |->
                          IF t = Len(l) + 1 THEN Placeholder
                          ELSE AbandonedItems(l, it, ms)[t]]
            /\ log' = Append(l, [h EXCEPT !.frag = 0])
            /\ head' = [msg |-> h.msg + 1, frag |-> 1]
       ELSE /\ item' = AbandonedItems(l, it, ms)
            /\ log' = l /\ head' = h

\* ExpireOutstandingChunks walks over abandoned chunks, and over nacked ones of
\* messages that have expired, whose later fragments it abandons with them.
IsExpired(t) == item[t].ack = "Nacked" /\ MessageOf(t) \in expired
IsPassed(t) == \/ item[t].life = "Abandoned"
               \/ \E u \in Outstanding : /\ u <= t
                                         /\ MessageOf(u) = MessageOf(t)
                                         /\ IsExpired(u)
ExpiredMessages ==
    {MessageOf(t) : t \in {u \in Outstanding :
        /\ item[u].life # "Abandoned" /\ IsExpired(u)
        /\ \A v \in Outstanding : v < u => IsPassed(v)}}

\* CreateForwardTsn and CreateIForwardTsn: up to the first chunk that is not
\* abandoned, and never across the point of a stream reset.
ForwardTsnAcrossResets(it) ==
    CHOOSE f \in cum..Max(DOMAIN it) :
        /\ (cum + 1)..f \subseteq Abandoned(it)
        /\ f + 1 \notin Abandoned(it)
ForwardTsnOneTooFar(it) ==
    LET f == CHOOSE f \in cum..Max(DOMAIN it) :
                 /\ (cum + 1)..f \subseteq Abandoned(it) \ breaks
                 /\ f + 1 \notin Abandoned(it) \ breaks
    IN  Min({f + 1, Max(DOMAIN it)})
ForwardTsn(it) ==
    CHOOSE f \in cum..Max(DOMAIN it) :
        /\ (cum + 1)..f \subseteq Abandoned(it) \ breaks
        /\ f + 1 \notin Abandoned(it) \ breaks

-----------------------------------------------------------------------------
(* Sending *)

Min2(a, b) == IF a < b THEN a ELSE b
Max2(a, b) == IF a < b THEN b ELSE a

\* max_bytes_to_send and can_send_data
MaxToSend == LET left == Max2(cwnd - unacked, 0)
             IN  IF unacked = 0 THEN left ELSE Min2(rwnd, left)
CanSendData == cwnd < SmallWindow \/ MaxToSend >= 1

\* SendBufferedPackets begins: the control chunks of the first packet, then up
\* to MaxBurst packets. The thread does nothing else before it ends.
SendBufferedPackets == sending' = MaxBurst + 1
Idle == sending = 0

\* The control chunks: MaybeSendForwardTsn, which lets chunks expire first, and
\* MakeStreamResetRequest, which may be due when the last request is done.
ForwardTsnStep ==
    IF limited
    THEN UNCHANGED <<log, item, toRtx, head, limited, fwds>>
    ELSE /\ AbandonAllFor(log, item, toRtx, head, ExpiredMessages)
         /\ IF cum + 1 \in Abandoned(item')
            THEN fwds' = fwds \cup {ForwardTsn(item')} /\ limited' = TRUE
            ELSE UNCHANGED <<fwds, limited>>
BeginResetStreams ==
    /\ Cardinality(resets) < MaxResets /\ resets = performed
    /\ breaks' = breaks \cup {Len(log') + 1}
    /\ resets' = resets \cup {Len(log') + 1}
SendControl ==
    /\ sending = MaxBurst + 1
    /\ IF CanSendData
       THEN /\ sending' = MaxBurst /\ ForwardTsnStep
            /\ BeginResetStreams \/ UNCHANGED <<breaks, resets>>
       ELSE /\ sending' = 0
            /\ UNCHANGED <<log, item, toRtx, head, limited, fwds,
                           breaks, resets>>
    /\ UNCHANGED <<cum, unacked, congestion, client, sent, peer, delivered>>

\* Produce drops messages that expired before their first fragment was sent.
NextHead == IF head.frag > 1 THEN head
            ELSE [msg |-> Min({m \in head.msg..(sends + 1) : m \notin expired}),
                  frag |-> 1]
HasData == NextHead.msg <= sends
AfterHead == IF NextHead.frag = Fragments[NextHead.msg]
             THEN [msg |-> NextHead.msg + 1, frag |-> 1]
             ELSE [NextHead EXCEPT !.frag = @ + 1]

\* A packet of SendBufferedPackets: GetChunksToSend takes a chunk that waits
\* for its retransmission, or else one from the send queue. When the packet
\* stays empty the loop ends.
CanSendPacket == sending \in 1..MaxBurst /\ CanSendData /\ MaxToSend >= 1
Retransmit ==
    /\ CanSendPacket /\ toRtx # {}
    /\ LET t == Min(toRtx) IN
       /\ item' = [item EXCEPT ![t] = MarkAsRetransmitted(t, @)]
       /\ toRtx' = toRtx \ {t}
    /\ unacked' = unacked + 1
    /\ t3' = TRUE
    /\ sending' = sending - 1
    /\ UNCHANGED <<cum, log, breaks, exit, cwnd, ssthresh, pba, rwnd,
                   limited, client, head, resets, path, peer, delivered>>

\* Insert: the next chunk of the send queue takes a TSN and is in flight.
WithChunk == [t \in Outstanding \cup {LastTsn + 1} |->
                IF t = LastTsn + 1 THEN InFlight ELSE item[t]]

\* A chunk from the send queue is sent, unless its message has expired since
\* its first fragment was sent: then it is abandoned, and nothing is sent.
Produce ==
    /\ CanSendPacket /\ toRtx = {} /\ HasData /\ NextHead.msg \notin expired
    /\ log' = Append(log, NextHead)
    /\ head' = AfterHead
    /\ item' = WithChunk
    /\ sent' = sent \cup {LastTsn + 1}
    /\ unacked' = unacked + 1
    /\ rwnd' = (rwnd - 1) % SizeModulus
    /\ t3' = TRUE
    /\ sending' = sending - 1
    /\ UNCHANGED <<cum, toRtx, breaks, exit, cwnd, ssthresh, pba,
                   limited, client, resets, fwds, peer, delivered>>
ProduceExpired ==
    /\ CanSendPacket /\ toRtx = {} /\ HasData /\ NextHead.msg \in expired
    /\ AbandonAllFor(Append(log, head), WithChunk, toRtx, AfterHead, {head.msg})
    /\ unacked' = unacked + 1
    /\ rwnd' = (rwnd - 1) % SizeModulus
    /\ sending' = 0
    /\ UNCHANGED <<cum, breaks, exit, cwnd, ssthresh, pba, t3, limited, client,
                   resets, path, peer, delivered>>
SendNothing ==
    /\ sending \in 1..MaxBurst
    /\ ~CanSendPacket \/ (toRtx = {} /\ ~HasData)
    /\ sending' = 0
    /\ head' = IF CanSendPacket THEN NextHead ELSE head
    /\ UNCHANGED <<outstanding, congestion, limited, client, resets, path, peer,
                   delivered>>

-----------------------------------------------------------------------------
(* Acknowledgements *)

CumulativeAck(s) == CHOOSE c \in 0..Cardinality(s) :
                       1..c \subseteq s /\ c + 1 \notin s

IsSackValid(s) == cum <= CumulativeAck(s) /\ s \subseteq 1..LastTsn

\* RemoveAcked and AckGapBlocks
NewlyAcked(s) == {t \in Outstanding : t \in s /\ item[t].ack # "Acked"}
AckedItems(s) ==
    [t \in (CumulativeAck(s) + 1)..LastTsn |->
        IF t \in s THEN AckItem(item[t]) ELSE item[t]]

\* NackBetweenAckBlocks: chunks missing below the highest one newly acked. In
\* fast recovery all that the SACK reports missing, when it advances the
\* cumulative ack, "now" being the value RemoveAcked has left there.
HighestTsnAcked(s) == Max(NewlyAcked(s) \cup {CumulativeAck(s)})
MaxTsnToNack(s, now, recovering) ==
    IF recovering /\ CumulativeAck(s) > now THEN Max(s \cup {CumulativeAck(s)})
    ELSE HighestTsnAcked(s)
Missing(s, now, recovering) ==
    {t \in (CumulativeAck(s) + 1)..MaxTsnToNack(s, now, recovering) : t \notin s}

\* NackItem for every chunk of ts, then AbandonAllFor. The order in which the
\* chunks are nacked makes no difference to what is left.
LostOf(it, ts, now) == {t \in ts : IsLost(it[t], now)}
Exhausted(it, ts) == {MessageOf(t) : t \in {u \in ts : IsExhausted(u, it[u])}}
NackedItems(it, ts, now) ==
    [t \in DOMAIN it |-> IF t \in ts THEN NackItem(t, it[t], now) ELSE it[t]]
\* OnLifecycleMessageDelivered for the last fragments that are removed.
DeliveredBy(s) ==
    {MessageOf(t) : t \in {u \in Outstanding :
        /\ u <= CumulativeAck(s)
        /\ log[u].frag = Fragments[MessageOf(u)]
        /\ item[u].life # "Abandoned"}}

\* HandleIncreasedCumulativeTsnAck: the window grows in slow start, or when a
\* whole window of data has been acknowledged. Values <<cwnd_, pba>>.
Grown(acks, recovering) ==
    LET full == unacked + 1 >= cwnd IN
    CASE cwnd <= ssthresh ->
           <<IF full /\ ~recovering THEN cwnd + Min2(acks, 1) ELSE cwnd, pba>>
      [] cwnd > ssthresh /\ pba + acks >= cwnd /\ full ->
           <<cwnd + 1, pba + acks - cwnd>>
      [] OTHER -> <<cwnd, pba + acks>>

\* The window after a loss.
HalvedToNothing(w) == w \div 2
Halved(w) == Max2(w \div 2, MinCwnd)

\* RetransmissionQueue::HandleSack up to the fast retransmission, "advances"
\* being that the cumulative ack moves. HandlePacketLoss halves the window once
\* for each fast recovery.
HandleCongestion(s, advances, recovering, loss) ==
    LET grown == IF advances
                 THEN Grown(Cardinality(NewlyAcked(s)), recovering)
                 ELSE <<cwnd, pba>>
    IN  IF loss /\ ~recovering
        THEN /\ exit' = Len(log') /\ pba' = 0
             /\ cwnd' = Halved(grown[1]) /\ ssthresh' = Halved(grown[1])
        ELSE /\ exit' = IF recovering THEN exit ELSE NoExit
             /\ cwnd' = grown[1] /\ pba' = grown[2]
             /\ UNCHANGED ssthresh

\* T3-rtx stops when the cumulative ack advances, and is started again by
\* StartT3RtxTimerIfOutstandingData.
TimerIfInFlight(advances, it) == (~advances /\ t3) \/ Unacked(it) # {}
TimerAfterSack(advances, it) == (~advances /\ t3) \/ DOMAIN it # {}

\* The SACK s with receiver window "a": DcSctpSocket::HandleSack. Chunks to be
\* fast retransmitted leave in one packet, whatever the window; those that do
\* not fit wait with the others.
HandleSack(s, a) ==
    /\ Idle /\ IsSackValid(s)
    /\ LET advances == CumulativeAck(s) > cum
           recovering == exit # NoExit /\ CumulativeAck(s) < exit
           acks == AckedItems(s)
           ts == Missing(s, CumulativeAck(s), recovering)
           lost == LostOf(acks, ts, FALSE)
           left == unacked - Cardinality({t \in NewlyAcked(s) :
                                            item[t].ack = "Unacked"})
                           - Cardinality(Unacked(acks) \cap ts)
           gone == {t \in lost : MessageOf(t) \in Exhausted(acks, lost)}
           fast == IF recovering THEN {} ELSE lost \ gone
           first == {t \in fast : \A u \in fast : t <= u}
           nacked == NackedItems(acks, ts, FALSE)
       IN  /\ cum' = CumulativeAck(s)
           /\ AbandonAllFor(log,
                [t \in DOMAIN nacked |->
                    IF t \in first THEN MarkAsRetransmitted(t, nacked[t])
                    ELSE nacked[t]],
                (toRtx \ s) \cup (lost \ first), head, Exhausted(acks, lost))
           /\ unacked' = left + Cardinality(first)
           /\ HandleCongestion(s, advances, recovering, lost # {})
           /\ rwnd' = Max2(a - left, 0)
           /\ t3' = TimerAfterSack(advances, item')
    /\ breaks' = {b \in breaks : b > CumulativeAck(s) + 1}
    /\ delivered' = delivered \cup DeliveredBy(s)
    /\ sacks' = {r \in sacks : CumulativeAck(r) >= CumulativeAck(s)}
    /\ SendBufferedPackets
    /\ UNCHANGED <<limited, client, resets, path, arrived, skip, reassembly>>

\* OnRtxTimerExpiry and HandleT3RtxTimerExpiry, NackAll: every chunk that is
\* not acknowledged is lost. The timer goes on running.
OnRtxTimerExpiry ==
    /\ Idle /\ t3
    /\ LET ts == {t \in Outstanding : item[t].ack # "Acked"} IN
       /\ AbandonAllFor(log, NackedItems(item, ts, TRUE),
                        toRtx \cup LostOf(item, ts, TRUE), head,
                        Exhausted(item, LostOf(item, ts, TRUE)))
       /\ unacked' = unacked - Cardinality(Unacked(item))
    /\ ssthresh' = Max2(cwnd \div 2, 4)
    /\ cwnd' = 1 /\ pba' = 0
    /\ SendBufferedPackets
    /\ UNCHANGED <<cum, breaks, exit, rwnd, t3, limited, client, resets, path,
                   peer, delivered>>

-----------------------------------------------------------------------------
(* Client, time, path and peer *)

Send ==
    /\ Idle /\ sends < Len(Fragments)
    /\ sends' = sends + 1
    /\ SendBufferedPackets
    /\ UNCHANGED <<outstanding, congestion, limited, expired, head, resets,
                   path, peer, delivered>>

ResetStreams ==
    /\ Idle /\ UNCHANGED log /\ BeginResetStreams
    /\ UNCHANGED <<cum, item, unacked, toRtx, congestion, sending, limited, client,
                   head, path, peer, delivered>>

\* Time passes: a lifetime ends, or FORWARD-TSNs may be sent again.
Expire(m) ==
    /\ Idle /\ m \in (Mortal \cap 1..sends) \ expired
    /\ expired' = expired \cup {m}
    /\ UNCHANGED <<outstanding, congestion, sending, limited, sends, head,
                   resets, path, peer, delivered>>
LimitEnds ==
    /\ Idle /\ limited
    /\ limited' = FALSE
    /\ UNCHANGED <<outstanding, congestion, sending, client, head, resets,
                   path, peer, delivered>>

-----------------------------------------------------------------------------
(* The peer *)

NotDeferred == [last |-> 0, fwds |-> <<>>]

\* Its DataTracker, and the SACK it may answer with at any time. What it has
\* skipped it takes for a duplicate.
Received == arrived \cup 1..skip

\* OrderedStream::TryToAssembleMessages: whole messages are read as long as the
\* first of chunks_by_ssn_ is the next one.
WholeWithoutEnd(ts) ==
    ts # {} /\ log[Min(ts)].frag = 1 /\ Max(ts) - Min(ts) = Cardinality(ts) - 1
Whole(ts) ==
    /\ ts # {}
    /\ log[Min(ts)].frag = 1
    /\ log[Max(ts)].frag = Fragments[MessageOf(Max(ts))]
    /\ Max(ts) - Min(ts) = Cardinality(ts) - 1
ChunksOf(r, n) == {t \in r.held : Ssn(t) = n}
CanAssemble(r, k) ==
    /\ k > 0 => \A t \in r.held : Ssn(t) >= r.next
    /\ \A n \in r.next..(r.next + k - 1) : Whole(ChunksOf(r, n))
TryToAssembleMessages(r) ==
    LET k == Max({i \in 0..Cardinality(r.held) : CanAssemble(r, i)})
    IN  [next |-> r.next + k,
         held |-> {t \in r.held : Ssn(t) \notin r.next..(r.next + k - 1)},
         read |-> r.read \o [i \in 1..k |-> MessageOf(Min(ChunksOf(r, r.next + i - 1)))]]

\* OrderedStream::Add
AddChunk(r, t) ==
    IF Ssn(t) = r.next /\ Whole({t})
    THEN TryToAssembleMessages([r EXCEPT !.next = @ + 1, !.read = Append(@, MessageOf(t))])
    ELSE IF Ssn(t) = r.next
         THEN TryToAssembleMessages([r EXCEPT !.held = @ \cup {t}])
         ELSE [r EXCEPT !.held = @ \cup {t}]

\* OrderedStream::EraseTo, for the stream that a FORWARD-TSN to f skips.
EraseToAndWait(r, f) ==
    [r EXCEPT !.held = {t \in @ : Ssn(t) > Ssn(f)}, !.next = Max2(@, Ssn(f) + 1)]
EraseToKeepsChunks(r, f) ==
    TryToAssembleMessages([r EXCEPT !.next = Max2(@, Ssn(f) + 1)])
EraseTo(r, f) ==
    TryToAssembleMessages(
        [r EXCEPT !.held = {t \in @ : Ssn(t) > Ssn(f)}, !.next = Max2(@, Ssn(f) + 1)])

ReceiveData(t) ==
    /\ t \in sent \ Received
    /\ arrived' = arrived \cup {t}
    /\ rx' = AddChunk(rx, t)
    /\ sacks' = sacks \cup {Received \cup {t}}
    /\ UNCHANGED <<outstanding, congestion, sending, limited, client, head,
                   resets, path, skip, deferred, performed, delivered>>

\* ReassemblyQueue::HandleForwardTsn waits while a reset before it is deferred.
HandleForwardTsn(f) ==
    IF deferred # NotDeferred /\ f > deferred.last
    THEN deferred' = [deferred EXCEPT !.fwds = Append(@, f)] /\ UNCHANGED rx
    ELSE rx' = EraseTo(rx, f) /\ UNCHANGED deferred

\* HandleForwardTsnCommon: the data tracker tells whether it is out of date.
ReceiveForwardTsn(f) ==
    /\ f \in fwds
    /\ IF f > CumulativeAck(Received)
       THEN skip' = f /\ HandleForwardTsn(f)
       ELSE UNCHANGED <<skip, rx, deferred>>
    /\ sacks' = sacks \cup {arrived \cup 1..skip'}
    /\ UNCHANGED <<outstanding, congestion, sending, limited, client, head,
                   resets, path, arrived, performed, delivered>>

\* The FORWARD-TSNs fs, which were put off, one after the other.
EraseToEach(r, fs) ==
    LET done[i \in 0..Len(fs)] ==
          IF i = 0 THEN r ELSE EraseTo(done[i - 1], fs[i])
    IN  done[Len(fs)]

\* The request for a reset at TSN b, which is repeated until it is performed: it
\* is deferred until the chunks before it have arrived.
ReceiveResetRequest(b) ==
    /\ b \in resets \ performed
    /\ IF CumulativeAck(Received) < b - 1
       THEN /\ deferred = NotDeferred
            /\ deferred' = [NotDeferred EXCEPT !.last = b - 1]
            /\ UNCHANGED <<rx, performed>>
       ELSE /\ rx' = EraseToEach(rx, deferred.fwds)
            /\ deferred' = NotDeferred
            /\ performed' = performed \cup {b}
    /\ UNCHANGED <<outstanding, congestion, sending, limited, client, head,
                   resets, path, arrived, skip, sacks, delivered>>

Init ==
    /\ cum = 0 /\ log = <<>> /\ item = <<>> /\ unacked = 0
    /\ toRtx = {} /\ breaks = {}
    /\ exit = NoExit /\ cwnd = InitialCwnd /\ pba = 0
    /\ rwnd \in PeerWindows /\ ssthresh = rwnd
    /\ t3 = FALSE /\ sending = 0 /\ limited = FALSE
    /\ sends = 0 /\ head = [msg |-> 1, frag |-> 1]
    /\ expired = {} /\ resets = {}
    /\ sent = {} /\ fwds = {} /\ sacks = {} /\ arrived = {} /\ skip = 0
    /\ rx = [next |-> 0, held |-> {}, read |-> <<>>]
    /\ deferred = NotDeferred /\ performed = {}
    /\ delivered = {}

Next ==
    \/ Send \/ ResetStreams \/ SendControl \/ Retransmit \/ Produce \/ ProduceExpired
    \/ SendNothing
    \/ \E s \in sacks, a \in PeerWindows : HandleSack(s, a)
    \/ OnRtxTimerExpiry
    \/ LimitEnds \/ \E m \in Messages : Expire(m)
    \/ \E t \in sent : ReceiveData(t)
    \/ \E f \in fwds : ReceiveForwardTsn(f)
    \/ \E b \in resets : ReceiveResetRequest(b)

Spec == Init /\ [][Next]_vars

-----------------------------------------------------------------------------
(* Properties *)

\* Every variable has values of its type; every TSN above the cumulative ack
\* has an item.
TypeOK ==
    /\ cum \in Nat
    /\ log \in Seq([msg : Messages, frag : Nat])
    /\ item \in [(cum + 1)..LastTsn -> Item]
    /\ unacked \in Nat
    /\ toRtx \subseteq Outstanding
    /\ breaks \subseteq Nat
    /\ exit \in Nat \cup {NoExit}
    /\ cwnd \in Nat \ {0} /\ ssthresh \in Nat /\ pba \in Nat /\ rwnd \in Nat
    /\ t3 \in BOOLEAN /\ limited \in BOOLEAN
    /\ sending \in 0..(MaxBurst + 1)
    /\ sends \in 0..Len(Fragments)
    /\ head \in [msg : 1..(sends + 1), frag : Nat \ {0}]
    /\ expired \subseteq Mortal
    /\ resets \subseteq Nat
    /\ sent \subseteq 1..LastTsn /\ fwds \subseteq 0..LastTsn
    /\ sacks \subseteq SUBSET (1..LastTsn)
    /\ arrived \subseteq sent /\ skip \in fwds \cup {0}
    /\ rx \in [next : Nat, held : SUBSET arrived, read : Seq(Messages)]
    /\ deferred \in [last : Nat, fwds : Seq(fwds)] /\ performed \subseteq resets
    /\ delivered \subseteq Messages

\* OutstandingData::IsConsistent, which every method asserts: unacked_bytes_,
\* which the congestion window is compared with, counts the chunks in flight,
\* and exactly the chunks due for retransmission are queued for it. They are
\* nacked, as ExtractChunksThatCanFit asserts.
IsConsistent ==
    /\ unacked = Cardinality(Unacked(item))
    /\ toRtx = {t \in Outstanding : item[t].life = "ToBeRetransmitted"}
    /\ \A t \in toRtx : item[t].ack = "Nacked"

\* A FORWARD-TSN makes the peer skip a chunk that it has not received only when
\* the chunk's message was allowed to be lost and is not reported as delivered.
SkipsOnlyAbandoned ==
    \A f \in fwds : \A t \in 1..f \ arrived :
        /\ MessageOf(t) \in expired \/ MaxRetransmits[MessageOf(t)] # NoLimit
        /\ MessageOf(t) \notin delivered

\* The peer's client reads the messages once and in the order they were sent,
\* each one whole, whatever is skipped between them (OrderedStream).
ReadIsSound ==
    /\ \A i, j \in DOMAIN rx.read : i < j => rx.read[i] < rx.read[j]
    /\ \A m \in ToSet(rx.read) : \A k \in 1..Fragments[m] :
         \E t \in arrived : log[t] = [msg |-> m, frag |-> k]

\* OnLifecycleMessageDelivered is true: the peer's client has read the message,
\* although messages before it were skipped in part. It may have to wait for a
\* FORWARD-TSN that the peer has put off until a stream is reset. A message may
\* stay unread when a stream was reset between the chunks of one before it: see
\* NoStaleChunks.
ResetInsideBefore(m) ==
    \E b \in resets \cap 2..LastTsn :
        MessageOf(b - 1) = MessageOf(b) /\ MessageOf(b) < m
DeliveredIsRead ==
    \A m \in delivered :
        m \in ToSet(rx.read) \/ deferred.fwds # <<>> \/ ResetInsideBefore(m)

\* The peer keeps no chunk of a message that it has read or skipped, which would
\* stay the first of chunks_by_ssn_ and hold up all messages of several chunks
\* after it; unless a stream was reset between the chunks of the message, where
\* the FORWARD-TSN that skips the message ends (CreateForwardTsn).
NoStaleChunks ==
    \A t \in rx.held : Ssn(t) < rx.next =>
        \E b \in resets \cap 2..t : MessageOf(b - 1) = MessageOf(t)

\* T3-rtx runs while a chunk that is not abandoned is outstanding, and while
\* messages wait in the send queue, so that the sender always wakes up again;
\* with one exception: an abandoned chunk that still counts as in flight may
\* fill the window, and it has no timer when it was never sent.
ChunksAreTimed ==
    Idle /\ ~t3 => /\ Outstanding = Abandoned(item)
                   /\ HasData => Unacked(item) # {}

\* A FORWARD-TSN never goes past the TSN at which outgoing streams were reset
\* and skips TSNs on both sides of it: the peer would skip messages of the
\* stream's new life before it has ended the old one.
ResetsAreNotCrossed ==
    [][\A f \in fwds' \ fwds : \A b \in resets : ~(cum + 1 < b /\ b <= f)]_vars

=============================================================================
