--------------------------- MODULE StreamResetPair ---------------------------
(***************************************************************************)
(* Two dcSCTP sockets (StreamReset) whose clients send messages and reset  *)
(* streams whenever they like, also on streams that are being reset: what  *)
(* socket/dcsctp_socket.h promises to any client, of which the data        *)
(* channels of DataChannel are one. A client call, a received packet and a *)
(* timeout is a step, at the end of which the client gets its callbacks.   *)
(* The client does not call the socket from a callback; what it would call *)
(* there is a step of its own.                                             *)
(***************************************************************************)
EXTENDS StreamReset

CONSTANTS
    Peers,          \* the two sockets
    Sizes,          \* sizes of messages, in fragments
    Moving,         \* peers whose socket may be handed over
    MaxRoom,        \* bound: chunks sent in one step
    MaxSends,       \* bound: messages each client sends
    MaxResets,      \* bound: calls of ResetStreams by each client
    MaxRequests     \* bound: requests of a socket whose data has not arrived

ASSUME PairAssumption ==
    /\ \E p, q \in Peers : p # q /\ Peers = {p, q}
    /\ Sizes \subseteq Nat \ {0} /\ Moving \subseteq Peers
    /\ MaxRoom \in Nat
    /\ MaxSends \in [Peers -> Nat] /\ MaxResets \in [Peers -> Nat]
    /\ MaxRequests \in Nat

VARIABLES
    sock,       \* the socket of each peer
    heard,      \* history: the callbacks that each client got
    sends,      \* messages each client has sent
    resets      \* streams each client has asked to reset

vars == <<sock, heard, sends, resets>>

Other(p) == CHOOSE q \in Peers : q # p

-----------------------------------------------------------------------------
(* Steps.                                                                  *)

Init ==
    /\ sock = [p \in Peers |-> NewSocket]
    /\ heard = [p \in Peers |-> <<>>]
    /\ sends = [p \in Peers |-> 0]
    /\ resets = [p \in Peers |-> 0]

\* The socket of p while the congestion window lets out room chunks.
WithRoom(p, room) == [sock[p] EXCEPT !.room = room]

\* A call into the socket of p ends with socket e: callbacks are made.
TriggerDeferred(p, e) ==
    /\ sock' = [sock EXCEPT ![p] = [e EXCEPT !.room = 0, !.calls = <<>>]]
    /\ heard' = [heard EXCEPT ![p] = @ \o e.calls]

\* The client numbers its messages.
Send(p) ==
    /\ sends[p] < MaxSends[p] /\ ~IsFull(sock[p])
    /\ sends' = [sends EXCEPT ![p] = @ + 1]
    /\ \E s \in Sids, size \in Sizes, unordered \in BOOLEAN, room \in 0..MaxRoom :
         TriggerDeferred(p, SocketSend(WithRoom(p, room), s,
             [size |-> size, unordered |-> unordered, id |-> sends[p] + 1]))
    /\ UNCHANGED resets

ResetStreams(p) ==
    /\ resets[p] < MaxResets[p]
    /\ resets' = [resets EXCEPT ![p] = @ + 1]
    /\ \E s \in Sids : TriggerDeferred(p, SocketResetStreams(sock[p], s))
    /\ UNCHANGED sends

\* A SACK made room for more chunks.
HandleSack(p) ==
    /\ \E room \in 1..MaxRoom : TriggerDeferred(p, SendBufferedPackets(WithRoom(p, room)))
    /\ UNCHANGED <<sends, resets>>

ReceiveData(p) ==
    /\ \E t \in (1..Len(sock[Other(p)].log)) \ sock[p].got :
         TriggerDeferred(p, HandleData(sock[p], sock[Other(p)].log, t))
    /\ UNCHANGED <<sends, resets>>

ReceiveRequest(p) ==
    /\ \E r \in sock[Other(p)].requests, room \in 0..MaxRoom :
         TriggerDeferred(p, AfterReconfig(
             HandleResetOutgoing(WithRoom(p, room), sock[Other(p)].log, r)))
    /\ UNCHANGED <<sends, resets>>

ReceiveResponse(p) ==
    /\ \E r \in sock[Other(p)].responses, room \in 0..MaxRoom :
         TriggerDeferred(p, AfterReconfig(HandleResponse(WithRoom(p, room), r)))
    /\ UNCHANGED <<sends, resets>>

\* A request that was answered "in progress" is sent again with a new number,
\* after MaxRequests of them when its data has arrived.
ReconfigTimer(p) ==
    LET e == sock[p] IN
    /\ e.req # NoRequest
    /\ e.req.sn = 0 => e.nextSn <= MaxRequests \/ CumAck(sock[Other(p)]) >= e.req.last
    /\ TriggerDeferred(p, OnReconfigTimerExpiry(e))
    /\ UNCHANGED <<sends, resets>>

Handover(p) ==
    /\ p \in Moving /\ HandoverReady(sock[p], sock[Other(p)])
    /\ TriggerDeferred(p, AfterHandover(sock[p]))
    /\ UNCHANGED <<sends, resets>>

Next ==
    \E p \in Peers :
        \/ Send(p) \/ ResetStreams(p) \/ HandleSack(p) \/ ReceiveData(p)
        \/ ReceiveRequest(p) \/ ReceiveResponse(p) \/ ReconfigTimer(p) \/ Handover(p)

Spec == Init /\ [][Next]_vars

-----------------------------------------------------------------------------
(* Properties.                                                             *)

Results == {"SuccessNothingToDo", "SuccessPerformed", "InProgress", "ErrorBadSequenceNumber"}
Message == [size : Sizes, unordered : BOOLEAN, id : Nat \ {0}]
Chunk == [sid : Sids, m : Message, ssn : Nat, begins : BOOLEAN, ends : BOOLEAN, epoch : Nat]
Request == [last : Nat, streams : SUBSET Sids, sn : Nat]
Response == [sn : Nat, result : Results]
OutgoingStream == [items : Seq(Message), sent : Nat, ssn : Nat, epoch : Nat,
                   pause : {"NotPaused", "Pending", "Paused", "Resetting"}]
IncomingStream == [ssn : Nat, ordered : SUBSET Nat, unordered : SUBSET Nat, epoch : Nat]
Call == [call : {"OnTotalBufferedAmountLow"}]
        \cup [call : {"OnMessageReceived"}, sid : Sids, m : Message]
        \cup [call : {"OnIncomingStreamsReset", "OnStreamsResetPerformed"}, streams : SUBSET Sids]
Socket ==
    [out : [Sids -> OutgoingStream], current : Sids, log : Seq(Chunk), room : Nat,
     req : Request, nextSn : Nat \ {0}, lastSn : Nat, lastResult : Results,
     got : SUBSET Nat, in : [Sids -> IncomingStream],
     deferred : [last : Nat, streams : SUBSET Sids, tsns : Seq(Nat)],
     calls : Seq(Call), requests : SUBSET Request, responses : SUBSET Response]

TypeOK ==
    /\ sock \in [Peers -> Socket]
    /\ heard \in [Peers -> Seq(Call)]
    /\ sends \in [Peers -> Nat] /\ resets \in [Peers -> Nat]
    /\ \A p \in Peers : sock[p].room = 0 /\ sock[p].calls = <<>>

\* StreamResetHandler and ReassemblyQueue: whatever the clients send and reset, and
\* however requests, responses and data are lost, repeated and reordered, a reset
\* happens once at both ends, at the same place in the stream.
ResetsInStep == \A p \in Peers : InStep(sock[p], sock[Other(p)])

\* Nothing more happens unless a client calls: everything sent has arrived and
\* was answered, and no timer has anything new to send.
Quiet ==
    \A p \in Peers :
        LET e == sock[p]
            f == sock[Other(p)]
        IN  /\ e.got = 1..Len(f.log)
            /\ \A r \in f.requests :
                 /\ r.sn # e.lastSn + 1
                 /\ r.sn = e.lastSn => [sn |-> r.sn, result |-> e.lastResult] \in e.responses
            /\ \A r \in f.responses : HandleResponse(e, r) = e
            /\ e.req # NoRequest => e.req.sn # 0
            /\ e.req = NoRequest => ReadyToBeReset(e) = {}
            /\ Active(e) = {}

\* A stream that was paused for a reset is reset and can be used again
\* (MakeStreamResetRequest: "no current ongoing request"; HandleResponse:
\* PrepareRetransmission), also when the peer was handed over in between: the
\* sockets never come to rest before.
ResetsComplete ==
    Quiet => \A p \in Peers, s \in Sids : sock[p].out[s].pause = "NotPaused"

\* When everything that was sent has arrived, the client has got every message
\* that was sent, across any number of resets of its stream: nothing is left in
\* reassembly (ResetStreamsAndLeaveDeferredReset resets next_ssn_ only).
NothingIsStuck ==
    \A p \in Peers, s \in Sids :
        LET e == sock[p]
            f == sock[Other(p)]
        IN  f.got = 1..Len(e.log) /\ e.out[s].sent = 0 =>
                \A t \in 1..Len(e.log) :
                    e.log[t].sid = s => OnMessageReceived(e.log, t) \in ToSet(heard[Other(p)])

\* The client gets a message once, and the ordered ones of a stream in the order
\* in which they were sent, also when the stream is reset in between.
HeardInOrder ==
    \A p \in Peers : \A i, j \in DOMAIN heard[p] :
        LET c == heard[p][i]
            d == heard[p][j]
        IN  i < j /\ c.call = "OnMessageReceived" /\ d.call = "OnMessageReceived" =>
                /\ c.m.id # d.m.id
                /\ c.sid = d.sid /\ ~c.m.unordered /\ ~d.m.unordered => c.m.id < d.m.id
=============================================================================
