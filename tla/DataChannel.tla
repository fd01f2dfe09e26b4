----------------------------- MODULE DataChannel -----------------------------
(***************************************************************************)
(* Data channels over SCTP (RFC 8831, RFC 8832) between two peers:         *)
(* pc/sctp_data_channel.cc (a channel and the allocator of stream ids),    *)
(* pc/data_channel_controller.cc (the channels of a peer connection) and   *)
(* media/sctp/dcsctp_transport.cc (the closing procedure), on the socket   *)
(* of StreamReset. A channel is opened with an OPEN message, which the     *)
(* peer acknowledges, and closed by resetting its stream in both           *)
(* directions; then its stream id is free for another channel.             *)
(*                                                                         *)
(* All of this runs on the network thread. A call from the client, a task  *)
(* or a received packet is one step, with every callback it causes; how    *)
(* many chunks the congestion window lets out meanwhile is not known here. *)
(* The connection is established and is not closed.                        *)
(*                                                                         *)
(* The n-th channel of a stream id has life n. The life is the label of    *)
(* the channel, which the OPEN message carries; in other messages it is    *)
(* history, which no operation reads.                                      *)
(***************************************************************************)
EXTENDS StreamReset

CONSTANTS
    Peers,          \* the two peers
    MySids,         \* MySids[p]: the stream ids the role of p lets it allocate
    Unordered,      \* lives of the channels that are not ordered
    Moving,         \* peers whose socket may be handed over
    Scenarios,      \* bound: what the clients do, see below
    MaxRoom,        \* bound: chunks sent in one step
    MaxRetries      \* bound: reset requests sent before their data arrived

\* What the clients do in a behaviour: which channels were negotiated, how many
\* are created on each stream id, who closes the channel of which stream id,
\* and how many fragments each data message has that a peer sends.
ASSUME DataChannelAssumption ==
    /\ Cardinality(Peers) = 2
    /\ MySids \in [Peers -> SUBSET Sids] /\ Moving \subseteq Peers
    /\ MaxRoom \in Nat \ {0} /\ MaxRetries \in Nat
    /\ \A c \in Scenarios :
         /\ c.negotiated \subseteq Sids /\ c.lives \in [Sids -> Nat]
         /\ c.closers \subseteq Peers \X Sids
         /\ c.data \in [Peers -> Seq(Nat \ {0})]

VARIABLES
    node,       \* the state of each peer
    lives,      \* channels created so far on each stream id
    scenario    \* what the clients may do, and the data still to send

vars == <<node, lives, scenario>>

Peer(p) == CHOOSE q \in Peers : q # p

NoChannel == [life |-> 0, state |-> "Closed"]
NewStream == [open |-> TRUE, closure |-> FALSE, incoming |-> FALSE, outgoing |-> FALSE]
NoStream == [NewStream EXCEPT !.open = FALSE]

NewChannel(life, handshake, ready) ==
    [life |-> life,
     state |-> "Connecting",
     handshake |-> handshake,   \* handshake_state_
     queued |-> <<>>,           \* queued_send_data_
     control |-> <<>>,          \* queued_control_data_
     waiting |-> <<>>,          \* queued_received_data_
     started |-> FALSE,         \* started_closing_procedure_
     posted |-> ready,          \* OnTransportReady is posted to the thread
     accepted |-> 0,            \* messages_sent_ and queued ones
     received |-> 0]            \* messages_received_

NewNode ==
    [sock |-> NewSocket,
     chan |-> [s \in Sids |-> NoChannel],
     order |-> <<>>,            \* sctp_data_channels_n_, by stream id
     used |-> {},               \* used_sids_
     stream |-> [s \in Sids |-> NoStream],  \* stream_states_
     ready |-> TRUE,            \* ready_to_send_data_
     \* History, which no operation reads.
     strays |-> {},             \* messages an observer should not have got
     unclaimed |-> {},          \* channels whose messages found no channel
     joined |-> {},             \* channels that existed here
     abrupt |-> FALSE,          \* a channel was closed abruptly
     skipped |-> FALSE]         \* a reset was not passed on to its channel

Ordered(life) == life \notin Unordered
Message(kind, life, unordered, size, id) ==
    [kind |-> kind, life |-> life, unordered |-> unordered, size |-> size, id |-> id]

-----------------------------------------------------------------------------
(* Operations of a node n. They call each other as the code does: what the *)
(* socket calls back is run when the call into the socket ends.            *)

RECURSIVE TriggerDeferred(_), SendQueuedDataMessages(_, _), SendQueuedControlMessages(_, _, _)
RECURSIVE OnIncomingStreamsReset(_, _), OnStreamsResetPerformed(_, _)

Known(n, s) == n.stream[s].open

\* DcSctpTransport::SendData.
SendStatus(n, s) ==
    CASE ~Known(n, s) -> "InvalidState"
      [] n.stream[s].closure \/ n.stream[s].incoming \/ n.stream[s].outgoing -> "InvalidState"
      [] IsFull(n.sock) -> "ResourceExhausted"
      [] OTHER -> "Ok"

SendData(n, s, m) == TriggerDeferred([n EXCEPT !.sock = SocketSend(@, s, m)])
Blocked(n) == [n EXCEPT !.ready = FALSE]

\* DcSctpTransport::ResetStream, of CloseChannel.
ResetStream(n, s) ==
    IF SendStatus(n, s) = "InvalidState" THEN n
    ELSE TriggerDeferred([n EXCEPT !.stream[s].closure = TRUE,
                                   !.sock = SocketResetStreams(@, s)])

\* Mutant: the stream id is never released.
ForgetKeepsSid(n, s) == [n EXCEPT !.chan[s] = NoChannel, !.order = Remove(@, s)]

\* The channel leaves the list and its stream id is free.
Forget(n, s) ==
    [n EXCEPT !.chan[s] = NoChannel, !.order = Remove(@, s), !.used = @ \ {s}]

CloseAbruptlyWithError(n, s) == [Forget(n, s) EXCEPT !.abrupt = TRUE]

\* What becomes of the handshake when its message was sent.
HandshakeSent(n, s) ==
    IF n.chan[s] = NoChannel THEN n
    ELSE [n EXCEPT !.chan[s].handshake = CASE @ = "ShouldSendAck" -> "Ready"
                                           [] @ = "ShouldSendOpen" -> "WaitingForAck"
                                           [] OTHER -> @]

SendControlMessage(n, s, kind) ==
    LET c == n.chan[s]
        m == Message(kind, c.life, ~Ordered(c.life) /\ c.handshake # "ShouldSendOpen", 1, 0)
    IN  CASE SendStatus(n, s) = "Ok" -> HandshakeSent(SendData(n, s, m), s)
          [] SendStatus(n, s) = "ResourceExhausted" ->
               [Blocked(n) EXCEPT !.chan[s].control = Append(@, kind)]
          [] OTHER -> CloseAbruptlyWithError(n, s)

SendQueuedControlMessages(n, s, kinds) ==
    IF kinds = <<>> \/ n.chan[s] = NoChannel THEN n
    ELSE SendQueuedControlMessages(SendControlMessage(n, s, Head(kinds)), s, Tail(kinds))

\* Mutant: messages overtake the OPEN message.
DataUnorderedAtOnce(c) == ~Ordered(c.life)

\* The message of an unordered channel is sent in order during the handshake.
DataUnordered(c) == ~Ordered(c.life) /\ c.handshake = "Ready"

DataMessage(c, d) == Message("data", c.life, DataUnordered(c), d.size, d.id)

SendDataMessage(n, s, d) ==
    CASE SendStatus(n, s) = "Ok" -> SendData(n, s, DataMessage(n.chan[s], d))
      [] SendStatus(n, s) = "ResourceExhausted" ->
           [Blocked(n) EXCEPT !.chan[s].queued = Append(@, d)]
      [] OTHER -> CloseAbruptlyWithError(n, s)

SendQueuedDataMessages(n, s) ==
    IF n.chan[s] = NoChannel \/ n.chan[s].queued = <<>> THEN n
    ELSE CASE SendStatus(n, s) = "Ok" ->
                SendQueuedDataMessages(
                  SendData([n EXCEPT !.chan[s].queued = Tail(@)], s,
                           DataMessage(n.chan[s], Head(n.chan[s].queued))), s)
           [] SendStatus(n, s) = "ResourceExhausted" -> Blocked(n)
           [] OTHER -> CloseAbruptlyWithError(n, s)

\* The observer of channel s gets m. The message strays when it belongs to
\* another channel, or to an ordered one and it is not the next.
OnMessage(n, s, m) ==
    LET c == n.chan[s]
        right == m.life = c.life /\ (Ordered(c.life) => m.id = c.received + 1)
    IN  [n EXCEPT !.chan[s].received = @ + 1,
                  !.strays = IF right THEN @ ELSE @ \cup {[sid |-> s, life |-> c.life, m |-> m]}]

\* DeliverQueuedReceivedData, of a channel that has just opened.
Opened(n, s) ==
    FoldLeft(LAMBDA f, m : OnMessage(f, s, m),
             [n EXCEPT !.chan[s].state = "Open", !.chan[s].waiting = <<>>],
             n.chan[s].waiting)

\* A channel opens when its handshake needs nothing more of it.
MaybeOpened(n, s) ==
    IF n.chan[s].state = "Connecting" /\ n.chan[s].handshake \in {"Ready", "WaitingForAck"}
    THEN Opened(n, s) ELSE n

UpdateState(n, s) ==
    LET c == n.chan[s] IN
    CASE c.state = "Connecting" ->
           MaybeOpened(CASE c.handshake = "ShouldSendOpen" -> SendControlMessage(n, s, "open")
                         [] c.handshake = "ShouldSendAck" -> SendControlMessage(n, s, "ack")
                         [] OTHER -> n, s)
      [] c.state = "Closing" ->
           IF c.queued = <<>> /\ c.control = <<>> /\ ~c.started
           THEN ResetStream([n EXCEPT !.chan[s].started = TRUE], s) ELSE n
      [] OTHER -> n

OnTransportReady(n, s) ==
    IF n.chan[s] = NoChannel THEN n
    ELSE UpdateState(
           SendQueuedDataMessages(
             SendQueuedControlMessages([n EXCEPT !.chan[s].control = <<>>], s,
                                       n.chan[s].control), s), s)

OnTotalBufferedAmountLow(n) ==
    IF n.ready THEN n
    ELSE FoldLeft(OnTransportReady, [n EXCEPT !.ready = TRUE], n.order)

-----------------------------------------------------------------------------
(* What the peer sends.                                                    *)

\* CreateDataChannel, with a stream id that is not used.
AddChannel(n, s, life, handshake) ==
    [n EXCEPT !.chan[s] = NewChannel(life, handshake, n.ready),
              !.order = Append(@, s),
              !.used = @ \cup {s},
              !.joined = @ \cup {[sid |-> s, life |-> life]},
              !.stream[s] = NewStream]

\* DataChannelController::OnDataReceived and SctpDataChannel::OnDataReceived.
OnDataReceived(n, s, m) ==
    LET c == n.chan[s]
        acked == IF c.handshake = "WaitingForAck"
                 THEN [n EXCEPT !.chan[s].handshake = "Ready"] ELSE n
    IN  CASE m.kind = "open" ->
               IF s \in n.used THEN n ELSE AddChannel(n, s, m.life, "ShouldSendAck")
          [] m.kind # "open" /\ c = NoChannel ->
               [n EXCEPT !.unclaimed = @ \cup {[sid |-> s, life |-> m.life]}]
          [] m.kind = "ack" /\ c # NoChannel -> acked
          [] m.kind = "data" /\ c # NoChannel ->
               IF c.state = "Open"
               THEN OnMessage(acked, s, m)
               ELSE [acked EXCEPT !.chan[s].waiting = Append(@, m)]

OnChannelClosing(n, s) ==
    IF n.chan[s].state \in {"Closing", "Closed"} THEN n
    ELSE [n EXCEPT !.chan[s].state = "Closing", !.chan[s].started = TRUE,
                   !.chan[s].queued = <<>>, !.chan[s].control = <<>>]

\* The stream was reset both ways.
OnChannelClosed(n, s) == [Forget(n, s) EXCEPT !.stream[s] = NoStream]

\* The loop over the streams of a request ends at one that is not open.
OnStreamsResetPerformed(n, streams) ==
    IF streams = {} \/ ~Known(n, Min(streams)) THEN n
    ELSE LET s == Min(streams)
             done == [n EXCEPT !.stream[s].outgoing = TRUE]
         IN  OnStreamsResetPerformed(
               IF n.stream[s].incoming THEN OnChannelClosed(done, s) ELSE done,
               streams \ {s})

\* Mutant: the channel is told, but nothing is sent to the peer.
ResetBackNever(n, s) == OnChannelClosing(n, s)

\* A stream that the peer has reset is reset in the other direction too.
ResetBack(n, s) ==
    OnChannelClosing(TriggerDeferred([n EXCEPT !.sock = SocketResetStreams(@, s)]), s)

OnIncomingStreamsReset(n, streams) ==
    IF streams = {} THEN n
    ELSE IF ~Known(n, Min(streams)) THEN [n EXCEPT !.skipped = @ \/ Cardinality(streams) > 1]
    ELSE LET s == Min(streams)
             noted == [n EXCEPT !.stream[s].incoming = TRUE]
             reset == IF n.stream[s].closure THEN noted ELSE ResetBack(noted, s)
         IN  OnIncomingStreamsReset(
               IF n.stream[s].outgoing THEN OnChannelClosed(reset, s) ELSE reset,
               streams \ {s})

Callback(n, c) ==
    CASE c.call = "OnTotalBufferedAmountLow" -> OnTotalBufferedAmountLow(n)
      [] c.call = "OnMessageReceived" -> OnDataReceived(n, c.sid, c.m)
      [] c.call = "OnIncomingStreamsReset" -> OnIncomingStreamsReset(n, c.streams)
      [] c.call = "OnStreamsResetPerformed" -> OnStreamsResetPerformed(n, c.streams)

TriggerDeferred(n) ==
    FoldLeft(Callback, [n EXCEPT !.sock.calls = <<>>], n.sock.calls)

-----------------------------------------------------------------------------
(* Steps.                                                                  *)

\* The negotiated channels are open: they need no handshake.
WithNegotiated(sids) ==
    [NewNode EXCEPT
       !.chan = [s \in Sids |-> IF s \notin sids THEN NoChannel
                                ELSE [NewChannel(1, "Ready", FALSE) EXCEPT !.state = "Open"]],
       !.order = SetToSortSeq(sids, <),
       !.used = sids,
       !.joined = {[sid |-> s, life |-> 1] : s \in sids},
       !.stream = [s \in Sids |-> IF s \in sids THEN NewStream ELSE NoStream]]

Init ==
    /\ scenario \in Scenarios
    /\ node = [p \in Peers |-> WithNegotiated(scenario.negotiated)]
    /\ lives = [s \in Sids |-> IF s \in scenario.negotiated THEN 1 ELSE 0]

\* Peer p performs op, and the congestion window lets out room chunks.
Step(p, room, op(_)) ==
    node' = [node EXCEPT ![p] =
               [op([@ EXCEPT !.sock.room = room]) EXCEPT !.sock.room = 0]]

\* A call into the socket of p.
SocketStep(p, room, op(_)) ==
    Step(p, room, LAMBDA n : TriggerDeferred([n EXCEPT !.sock = op(@)]))

CreateDataChannel(p) ==
    LET free == MySids[p] \ node[p].used
    IN  /\ free # {} /\ lives[Min(free)] < scenario.lives[Min(free)]
        /\ lives' = [lives EXCEPT ![Min(free)] = @ + 1]
        /\ node' = [node EXCEPT ![p] =
                      AddChannel(@, Min(free), lives[Min(free)] + 1, "ShouldSendOpen")]
        /\ UNCHANGED scenario

PostedTransportReady(p, s) ==
    /\ node[p].chan[s] # NoChannel /\ node[p].chan[s].posted
    /\ \E room \in 0..MaxRoom :
         Step(p, room, LAMBDA n : OnTransportReady([n EXCEPT !.chan[s].posted = FALSE], s))
    /\ UNCHANGED <<lives, scenario>>

Send(p, s) ==
    /\ node[p].chan[s].state = "Open" /\ scenario.data[p] # <<>>
    /\ scenario' = [scenario EXCEPT !.data[p] = Tail(@)]
    /\ LET d == [size |-> Head(scenario.data[p]), id |-> node[p].chan[s].accepted + 1]
           counted(n) == [n EXCEPT !.chan[s].accepted = @ + 1]
       IN  \E room \in 0..MaxRoom : Step(p, room, LAMBDA n :
             IF n.chan[s].queued # <<>>
             THEN counted([n EXCEPT !.chan[s].queued = Append(@, d)])
             ELSE SendDataMessage(counted(n), s, d))
    /\ UNCHANGED lives

Close(p, s) ==
    /\ <<p, s>> \in scenario.closers
    /\ node[p].chan[s].state \in {"Connecting", "Open"}
    /\ \E room \in 0..MaxRoom :
         Step(p, room, LAMBDA n : UpdateState([n EXCEPT !.chan[s].state = "Closing"], s))
    /\ UNCHANGED <<lives, scenario>>

\* A SACK made room for more chunks.
HandleSack(p) ==
    /\ \E room \in 1..MaxRoom : SocketStep(p, room, SendBufferedPackets)
    /\ UNCHANGED <<lives, scenario>>

\* Nothing is sent in answer to a message.
ReceiveData(p) ==
    /\ \E t \in (1..Len(node[Peer(p)].sock.log)) \ node[p].sock.got :
         SocketStep(p, 0, LAMBDA e : HandleData(e, node[Peer(p)].sock.log, t))
    /\ UNCHANGED <<lives, scenario>>

ReceiveRequest(p) ==
    /\ \E r \in node[Peer(p)].sock.requests, room \in 0..MaxRoom :
         SocketStep(p, room, LAMBDA e : AfterReconfig(
                               HandleResetOutgoing(e, node[Peer(p)].sock.log, r)))
    /\ UNCHANGED <<lives, scenario>>

\* A response to another request than the current one is ignored.
ReceiveResponse(p) ==
    /\ \E r \in node[Peer(p)].sock.responses, room \in 0..MaxRoom :
         /\ r.sn = node[p].sock.req.sn
         /\ SocketStep(p, room, LAMBDA e : AfterReconfig(HandleResponse(e, r)))
    /\ UNCHANGED <<lives, scenario>>

\* A request without an answer is sent again, which changes nothing here: it may
\* arrive several times anyway. One that was answered "in progress" is sent with
\* a new number; after MaxRetries requests, when its data has arrived.
ReconfigTimer(p) ==
    LET e == node[p].sock IN
    /\ e.req # NoRequest /\ e.req.sn = 0
    /\ e.nextSn <= MaxRetries \/ CumAck(node[Peer(p)].sock) >= e.req.last
    /\ SocketStep(p, 0, OnReconfigTimerExpiry)
    /\ UNCHANGED <<lives, scenario>>

Handover(p) ==
    /\ p \in Moving /\ HandoverReady(node[p].sock, node[Peer(p)].sock)
    /\ node' = [node EXCEPT ![p].sock = AfterHandover(@)]
    /\ UNCHANGED <<lives, scenario>>

Next ==
    \E p \in Peers :
        \/ CreateDataChannel(p)
        \/ \E s \in Sids : PostedTransportReady(p, s) \/ Send(p, s) \/ Close(p, s)
        \/ HandleSack(p) \/ ReceiveData(p)
        \/ ReceiveRequest(p) \/ ReceiveResponse(p)
        \/ ReconfigTimer(p) \/ Handover(p)

Spec == Init /\ [][Next]_vars

-----------------------------------------------------------------------------
(* Properties.                                                             *)

\* Callbacks and room for chunks do not outlive the step they belong to, and the
\* stream ids in use are those of the channels in the list of the controller
\* (SctpSidAllocator against sctp_data_channels_n_).
TypeOK ==
    /\ lives \in [Sids -> Nat] /\ scenario.data \in [Peers -> Seq(Nat)]
    /\ \A p \in Peers :
         /\ node[p].sock.calls = <<>> /\ node[p].sock.room = 0
         /\ node[p].used = {s \in Sids : node[p].chan[s] # NoChannel}
         /\ node[p].used = ToSet(node[p].order)

\* StreamResetHandler and ReassemblyQueue: however requests and responses are
\* lost, repeated and reordered, and whatever data is still on its way, a reset
\* happens once at both ends, at the same place in the stream.
ResetsInStep == \A p \in Peers : InStep(node[p].sock, node[Peer(p)].sock)

\* No channel was closed abruptly because its data could not be sent: that frees
\* the stream id before the stream is reset (CloseAbruptlyWithError).
Orderly == \A p \in Peers : ~node[p].abrupt

\* The observer of a channel gets the messages of the peer's channel with the
\* same life and of no other, though they use the same stream id, and in order
\* and complete when the channel is ordered (OnClosingProcedureComplete: the id
\* is free for another channel).
NoStrays == Orderly => \A p \in Peers : node[p].strays = {}

\* A message never arrives before the OPEN message of its channel, so that none
\* is dropped because its channel is not there yet (SendDataMessage: "Send as
\* ordered if it is still going through OPEN/ACK signaling").
OpenComesFirst ==
    \A p \in Peers, s \in Sids :
        node[p].chan[s].state \in {"Connecting", "Open"} =>
            [sid |-> s, life |-> node[p].chan[s].life] \notin node[p].unclaimed

\* A channel is closed from afar only if the channel it belongs to is being
\* closed at the peer: a late or repeated reset of an earlier channel with the
\* same stream id does not close it (OnIncomingStreamsReset).
ClosedByItsPeer ==
    Orderly =>
        \A p \in Peers, s \in Sids :
            /\ node[p].chan[s].state = "Closing"
            /\ node[p].stream[s].incoming /\ ~node[p].stream[s].closure
            /\ node[p].chan[s].life = node[Peer(p)].chan[s].life
            => node[Peer(p)].chan[s].state = "Closing"

\* Nothing more happens unless a client calls: everything sent has arrived and
\* was answered, no task is posted and no timer has anything new to send. Every
\* step brings a behaviour closer to such a state.
Quiet ==
    \A p \in Peers :
        LET e == node[p].sock
            f == node[Peer(p)].sock
        IN  /\ e.got = 1..Len(f.log)
            /\ \A r \in f.requests :
                 /\ r.sn # e.lastSn + 1
                 /\ r.sn = e.lastSn => [sn |-> r.sn, result |-> e.lastResult] \in e.responses
            /\ \A r \in f.responses : HandleResponse(e, r) = e
            /\ e.req # NoRequest => e.req.sn # 0
            /\ e.req = NoRequest => ReadyToBeReset(e) = {}
            /\ Active(e) = {}
            /\ \A s \in Sids : node[p].chan[s] # NoChannel => ~node[p].chan[s].posted

\* Every request for a reset gets an answer that ends it, also when it was first
\* "in progress" and when the peer was handed over meanwhile, and a send queue
\* that was full accepts messages again (OnTotalBufferedAmountLow).
RequestsResolve ==
    Quiet => \A p \in Peers : node[p].sock.req = NoRequest /\ node[p].ready

\* A channel that is closed at one end is closed in the end at both, if the peer
\* had it at all (UpdateState: "OnClosingProcedureComplete will end up called
\* asynchronously afterwards"), unless the loop of OnIncomingStreamsReset ended
\* before it came to it.
ClosingCompletes ==
    Quiet /\ Orderly /\ (\A p \in Peers : ~node[p].skipped) =>
        \A p \in Peers, s \in Sids :
            node[p].chan[s].state = "Closing" =>
                [sid |-> s, life |-> node[p].chan[s].life] \notin node[Peer(p)].joined
=============================================================================
