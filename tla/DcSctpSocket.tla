---------------------------- MODULE DcSctpSocket ----------------------------
(***************************************************************************)
(* Two dcSCTP sockets joined by an unreliable datagram path: the           *)
(* association state machine of net/dcsctp/socket/dcsctp_socket.cc (INIT / *)
(* COOKIE handshake, restart and collision handling, graceful SHUTDOWN,    *)
(* ABORT, the T1, T2 and T3 timers) together with as much of the           *)
(* TransmissionControlBlock as its control flow looks at: which chunks are *)
(* in flight, waiting to be retransmitted or still in the send queue.      *)
(*                                                                         *)
(* Each socket runs on one thread: a public call, a received packet or a   *)
(* timeout is one atomic step, and steps of the two sockets interleave.    *)
(***************************************************************************)
EXTENDS Naturals, Integers, Sequences, FiniteSets

CONSTANTS
    Peers,               \* the two sockets
    NoTcb,               \* a null tcb_
    NoCookie,            \* an empty cookie_echo_chunk_
    MaxInitRetransmits,  \* options_.max_init_retransmits, for each socket
    MaxRetransmissions,  \* options_.max_retransmissions
    Window,              \* initial congestion window, in chunks
    SmallWindow,         \* options_.avoid_fragmentation_cwnd_mtus
    ShutdownCallers,     \* bound: the sockets whose client calls Shutdown
    MaxConnects,         \* bound: calls of Connect, for each socket
    MaxSends             \* bound: calls of Send, for each socket

ASSUME PeersAssumption == \E p, q \in Peers : p # q /\ Peers = {p, q}
ASSUME BoundsAssumption ==
    /\ MaxInitRetransmits \in [Peers -> Nat]
    /\ ShutdownCallers \subseteq Peers
    /\ MaxRetransmissions \in Nat
    /\ Window \in Nat \ {0}
    /\ SmallWindow \in Nat
    /\ MaxConnects \in [Peers -> Nat]
    /\ MaxSends \in [Peers -> Nat]

VARIABLES
    state,      \* state_
    tcb,        \* tcb_, NoTcb when null
    tag,        \* connect_params_.verification_tag
    timer,      \* t1_init_, t1_cookie_, t2_shutdown_: Stopped or expiration_count
    sendq,      \* send_queue_: messages not yet given a TSN
    drawn,      \* how many random values the socket has drawn
    connects,   \* how often Connect was called (bounds the model)
    sends,      \* how many messages Send accepted; their identities are 1..sends
    net,        \* packets under way; a packet never received is a lost one
    \* what the two clients know, and past associations
    delivered,  \* messages of the other side handed to OnMessageReceived
    acked,      \* own messages a SACK has covered
    hadTcb      \* <<my, peer>> tags of every TCB the socket has had

socketVars == <<state, tcb, tag, timer, sendq, drawn, connects, sends>>
clientVars == <<delivered, acked, hadTcb>>
vars == <<socketVars, net, clientVars>>

-----------------------------------------------------------------------------
(* Values *)

State == {"Closed", "CookieWait", "CookieEchoed", "Established",
          "ShutdownPending", "ShutdownSent", "ShutdownReceived",
          "ShutdownAckSent"}

ShuttingDown == {"ShutdownPending", "ShutdownSent", "ShutdownReceived",
                 "ShutdownAckSent"}

Other(p) == CHOOSE q \in Peers : q # p

\* GetRandomInt. A verification tag, the initial TSN drawn with it, and a tie
\* tag are 32 or 64 random bits: the n-th draw of socket p is the pair <<p, n>>,
\* so distinct draws differ. Draw 0 stands for the value 0.
Tag == Peers \X Nat
Zero(p) == <<p, 0>>
Draw(p) == <<p, drawn[p] + 1>>
IsZero(t) == t[2] = 0

Stopped == -1
TimerIds == {"t1_init", "t1_cookie", "t2_shutdown"}
NoTimer == [i \in TimerIds |-> Stopped]

\* StateCookie: what a socket needs to build its TCB when the cookie returns.
Cookie == [my : Tag, peer : Tag, tie : Tag]

\* A DATA chunk: its TSN is an initial TSN (identified by the tag drawn with it)
\* plus an offset; messages are one chunk long.
Chunk == [base : Tag, n : Nat, msg : Nat]

Tcb == [my : Tag, peer : Tag, tie : Tag,
        cookie : Cookie \cup {NoCookie},   \* cookie_echo_chunk_
        next : Nat,                        \* next TSN offset to assign
        inflight : SUBSET Chunk,           \* sent, not acked, not nacked
        rtx : SUBSET Chunk,                \* nacked: to be retransmitted
        cwnd : Nat,                        \* cwnd_, in chunks
        rx : SUBSET Nat,                   \* offsets of TSNs received
        err : Nat]                         \* tx_error_counter_

ASSUME NullAssumption == NoTcb \notin Tcb /\ NoCookie \notin Cookie

NewTcb(my, peer, tie) ==
    [my |-> my, peer |-> peer, tie |-> tie, cookie |-> NoCookie, next |-> 1,
     inflight |-> {}, rtx |-> {}, cwnd |-> Window, rx |-> {}, err |-> 0]

(* Packets. "data" holds the DATA chunk bundled with the packet, if any. *)

Init_(to, itag) == [type |-> "INIT", to |-> to, itag |-> itag]
InitAck(to, vtag, itag, cookie) ==
    [type |-> "INIT_ACK", to |-> to, vtag |-> vtag, itag |-> itag,
     cookie |-> cookie]
CookieEcho(to, vtag, cookie, data) ==
    [type |-> "COOKIE_ECHO", to |-> to, vtag |-> vtag, cookie |-> cookie,
     data |-> data]
Carrier(type, to, vtag, data) ==
    [type |-> type, to |-> to, vtag |-> vtag, data |-> data]
CookieAck(to, vtag, data) == Carrier("COOKIE_ACK", to, vtag, data)
Data(to, vtag, chunk) == Carrier("DATA", to, vtag, {chunk})
Sack(to, vtag, base, ns) ==
    [type |-> "SACK", to |-> to, vtag |-> vtag, base |-> base, acked |-> ns]
Control(type, to, vtag) == [type |-> type, to |-> to, vtag |-> vtag]
ShutdownComplete(to, vtag, tbit) ==
    [type |-> "SHUTDOWN_COMPLETE", to |-> to, vtag |-> vtag, tbit |-> tbit]

Packet ==
    [type : {"INIT"}, to : Peers, itag : Tag]
      \cup [type : {"INIT_ACK"}, to : Peers, vtag : Tag, itag : Tag,
            cookie : Cookie]
      \cup [type : {"COOKIE_ECHO"}, to : Peers, vtag : Tag, cookie : Cookie,
            data : SUBSET Chunk]
      \cup [type : {"COOKIE_ACK", "DATA"}, to : Peers, vtag : Tag,
            data : SUBSET Chunk]
      \cup [type : {"SACK"}, to : Peers, vtag : Tag, base : Tag,
            acked : SUBSET Nat]
      \cup [type : {"SHUTDOWN", "SHUTDOWN_ACK", "ABORT"}, to : Peers,
            vtag : Tag]
      \cup [type : {"SHUTDOWN_COMPLETE"}, to : Peers, vtag : Tag,
            tbit : BOOLEAN]

-----------------------------------------------------------------------------
(* TransmissionControlBlock *)

HasTcb(p) == tcb[p] # NoTcb

\* RetransmissionQueue::can_send_data: a small congestion window never stops a
\* packet from being built, though it leaves no room for DATA in it.
CanSendData(t) == t.cwnd < SmallWindow \/ Cardinality(t.inflight) < t.cwnd

\* max_bytes_to_send, in chunks
Room(t) == IF Cardinality(t.inflight) >= t.cwnd
           THEN 0 ELSE t.cwnd - Cardinality(t.inflight)

\* RetransmissionQueue::GetChunksToSend: chunks to be retransmitted go first,
\* lowest TSN first, then messages of the send queue, at most "limit" chunks in
\* all. The value holds the chunks, the TCB once they are in flight, and what
\* stays queued.
GetChunksToSend(t, q, limit) ==
    LET again == {c \in t.rtx : Cardinality({d \in t.rtx : d.n < c.n}) < limit}
        room == limit - Cardinality(again)
        k == IF Len(q) < room THEN Len(q) ELSE room
        fresh == {[base |-> t.my, n |-> t.next + i - 1, msg |-> q[i]] :
                    i \in 1..k}
    IN  [chunks |-> again \cup fresh,
         tcb |-> [t EXCEPT !.next = @ + k,
                           !.rtx = @ \ again,
                           !.inflight = @ \cup again \cup fresh],
         q |-> SubSeq(q, k + 1, Len(q))]

\* TransmissionControlBlock::SendBufferedPackets with an empty builder. A
\* COOKIE ECHO chunk comes first and stops the loop after one packet.
SendBufferedPackets(p, t, q) ==
    IF ~CanSendData(t)
    THEN [tcb |-> t, q |-> q, packets |-> {}]
    ELSE IF t.cookie # NoCookie
    THEN LET g == GetChunksToSend(t, q, IF Room(t) = 0 THEN 0 ELSE 1) IN
         [tcb |-> g.tcb, q |-> g.q,
          packets |-> {CookieEcho(Other(p), t.peer, t.cookie, g.chunks)}]
    ELSE LET g == GetChunksToSend(t, q, Room(t)) IN
         [tcb |-> g.tcb, q |-> g.q,
          packets |-> {Data(Other(p), t.peer, c) : c \in g.chunks}]

\* SendBufferedPackets with a builder that already holds a COOKIE ACK, which
\* leaves with the first packet; the other chunks leave in packets of their
\* own. When nothing may be sent the COOKIE ACK is not sent either.
SendCookieAck(p, t, q) ==
    LET g == GetChunksToSend(t, q, Room(t))
        first == {c \in g.chunks : \A d \in g.chunks : c.n <= d.n}
    IN  IF ~CanSendData(t)
        THEN [tcb |-> t, q |-> q, packets |-> {}]
        ELSE [tcb |-> g.tcb, q |-> g.q,
              packets |-> {CookieAck(Other(p), t.peer, first)}
                            \cup {Data(Other(p), t.peer, c) :
                                    c \in g.chunks \ first}]

\* OutstandingData::last_cumulative_tsn_ack: the offset before the lowest one
\* not yet acknowledged. Every SACK reports a superset of the ones before it.
Unacked(t) == {c.n : c \in t.inflight \cup t.rtx}
CumAck(ns) == CHOOSE k \in 0..Cardinality(ns) :
                 1..k \subseteq ns /\ k + 1 \notin ns
LastCumAck(t) == CumAck((1..(t.next - 1)) \ Unacked(t))

\* RetransmissionQueue::IsSackValid
IsSackValid(t, m) ==
    /\ m.base = t.my
    /\ LastCumAck(t) <= CumAck(m.acked)
    /\ m.acked \subseteq 1..(t.next - 1)

\* RetransmissionQueue::HandleSack. In slow start a window that was in use grows
\* by one chunk when the cumulative ack advances (never past its first value,
\* a bound of the model); any newly acked chunk clears the error counter.
AckedByOneTooMany(t, m) ==
    {c \in t.inflight \cup t.rtx : c.n \in m.acked \/ c.n = CumAck(m.acked) + 1}
AckedBy(t, m) == {c \in t.inflight \cup t.rtx : c.n \in m.acked}
HandledSackCountsDown(t, m) ==
    [t EXCEPT !.inflight = @ \ AckedBy(t, m), !.rtx = @ \ AckedBy(t, m),
              !.err = IF AckedBy(t, m) = {} THEN @ ELSE @ - 1]
HandledSack(t, m) ==
    LET grows == /\ CumAck(m.acked) > LastCumAck(t)
                 /\ Cardinality(t.inflight) + 1 >= t.cwnd
                 /\ t.cwnd < Window
    IN  [t EXCEPT !.inflight = @ \ AckedBy(t, m),
                  !.rtx = @ \ AckedBy(t, m),
                  !.cwnd = IF grows THEN @ + 1 ELSE @,
                  !.err = IF AckedBy(t, m) = {} THEN @ ELSE 0]

\* HandleDataCommon and the SACK that ends ReceivePacket. A chunk of another
\* TSN space fails IsTSNValid; a TSN seen before is not delivered again.
Valid(t, data) == {c \in data : c.base = t.peer}
ObserveData(t, data) ==
    [t EXCEPT !.rx = @ \cup {c.n : c \in Valid(t, data)}]
NewMessages(t, data) == {c.msg : c \in {d \in Valid(t, data) : d.n \notin t.rx}}
SackFor(p, t, data) ==
    IF Valid(t, data) = {} THEN {}
    ELSE {Sack(Other(p), t.peer, t.peer, ObserveData(t, data).rx)}

-----------------------------------------------------------------------------
Init ==
    /\ state = [p \in Peers |-> "Closed"]
    /\ tcb = [p \in Peers |-> NoTcb]
    /\ tag = [p \in Peers |-> Zero(p)]
    /\ timer = [p \in Peers |-> NoTimer]
    /\ sendq = [p \in Peers |-> <<>>]
    /\ drawn = [p \in Peers |-> 0]
    /\ connects = [p \in Peers |-> 0]
    /\ sends = [p \in Peers |-> 0]
    /\ net = {}
    /\ delivered = [p \in Peers |-> {}]
    /\ acked = [p \in Peers |-> {}]
    /\ hadTcb = [p \in Peers |-> {}]

\* The state after a handshake that c began and whose packets have all arrived,
\* before anything is sent: each socket has drawn its tag and its tie tag.
InitEstablished(c) ==
    /\ state = [p \in Peers |-> "Established"]
    /\ tcb = [p \in Peers |-> NewTcb(<<p, 1>>, <<Other(p), 1>>, <<p, 2>>)]
    /\ tag = [p \in Peers |-> IF p = c THEN <<p, 1>> ELSE Zero(p)]
    /\ timer = [p \in Peers |-> NoTimer]
    /\ sendq = [p \in Peers |-> <<>>]
    /\ drawn = [p \in Peers |-> 2]
    /\ connects = [p \in Peers |-> IF p = c THEN 1 ELSE 0]
    /\ sends = [p \in Peers |-> 0]
    /\ net = {}
    /\ delivered = [p \in Peers |-> {}]
    /\ acked = [p \in Peers |-> {}]
    /\ hadTcb = [p \in Peers |-> {<<<<p, 1>>, <<Other(p), 1>>>>}]

\* Steps change one socket at a time: the new value of variable f at p.
Set(f, p, v) == [f EXCEPT ![p] = v]

\* The TCB of p becomes t and the chunks and packets of "sent" leave.
Transmit(p, sent, packets) ==
    /\ tcb' = Set(tcb, p, sent.tcb)
    /\ sendq' = Set(sendq, p, sent.q)
    /\ net' = packets \cup sent.packets

\* InternalClose, reached with state_ other than kClosed: all timers stop, the
\* TCB is destroyed and the client hears OnClosed or OnAborted.
InternalClose(p, packets) ==
    /\ state' = Set(state, p, "Closed")
    /\ tcb' = Set(tcb, p, NoTcb)
    /\ timer' = Set(timer, p, NoTimer)
    /\ net' = packets
    /\ UNCHANGED <<tag, sendq, drawn, connects, sends, clientVars>>

Abort(p) == Control("ABORT", Other(p), tcb[p].peer)

-----------------------------------------------------------------------------
(* Calls of the client *)

Connect(p) ==
    /\ state[p] = "Closed"
    /\ connects[p] < MaxConnects[p]
    /\ connects' = Set(connects, p, connects[p] + 1)
    /\ drawn' = Set(drawn, p, drawn[p] + 1)
    /\ tag' = Set(tag, p, Draw(p))
    /\ net' = net \cup {Init_(Other(p), Draw(p))}
    /\ timer' = [timer EXCEPT ![p]["t1_init"] = 0]
    /\ state' = Set(state, p, "CookieWait")
    /\ UNCHANGED <<tcb, sendq, sends, clientVars>>

\* Shutdown on a socket without TCB: there is nothing to send.
ShutdownUnconnected(p) ==
    /\ p \in ShutdownCallers
    /\ state[p] # "Closed" /\ ~HasTcb(p)
    /\ InternalClose(p, net)

\* Shutdown, then MaybeSendShutdownOrAck: SHUTDOWN leaves at once when no
\* chunk is in flight.
Shutdown(p) ==
    /\ p \in ShutdownCallers
    /\ HasTcb(p)
    /\ state[p] \notin {"ShutdownSent", "ShutdownAckSent"}
    /\ LET stopped == [timer[p] EXCEPT !["t1_init"] = Stopped,
                                       !["t1_cookie"] = Stopped]
       IN  \/ /\ tcb[p].inflight = {}
              /\ state' = Set(state, p, "ShutdownSent")
              /\ timer' = Set(timer, p, [stopped EXCEPT !["t2_shutdown"] = 0])
              /\ net' = net \cup {Control("SHUTDOWN", Other(p), tcb[p].peer)}
           \/ /\ tcb[p].inflight # {}
              /\ state' = Set(state, p, "ShutdownPending")
              /\ timer' = Set(timer, p, stopped)
              /\ net' = net
    /\ UNCHANGED <<tcb, tag, sendq, drawn, connects, sends, clientVars>>

Close(p) ==
    /\ state[p] # "Closed"
    /\ InternalClose(p, net \cup (IF HasTcb(p) THEN {Abort(p)} ELSE {}))

\* Send: refused while shutting down, queued before there is a TCB.
Send(p) ==
    /\ state[p] \notin ShuttingDown
    /\ sends[p] < MaxSends[p]
    /\ sends' = Set(sends, p, sends[p] + 1)
    /\ LET q == Append(sendq[p], sends[p] + 1) IN
       IF HasTcb(p)
       THEN Transmit(p, SendBufferedPackets(p, tcb[p], q), net)
       ELSE /\ sendq' = Set(sendq, p, q)
            /\ UNCHANGED <<tcb, net>>
    /\ UNCHANGED <<state, tag, timer, drawn, connects, clientVars>>

-----------------------------------------------------------------------------
(* Timers. Timer::Trigger counts the expiry and leaves the timer running *)
(* only while the count is within max_restarts.                          *)

ExpireUncounted(p, id) == timer' = timer
Expire(p, id) == timer' = [timer EXCEPT ![p][id] = @ + 1]

OnInitTimerExpiry(p) ==
    /\ timer[p]["t1_init"] # Stopped
    /\ \/ /\ timer[p]["t1_init"] < MaxInitRetransmits[p]
          /\ Expire(p, "t1_init")
          /\ net' = net \cup {Init_(Other(p), tag[p])}
          /\ UNCHANGED <<state, tcb, tag, sendq, drawn, connects, sends,
                         clientVars>>
       \/ /\ timer[p]["t1_init"] >= MaxInitRetransmits[p]
          /\ InternalClose(p, net)

OnCookieTimerExpiry(p) ==
    /\ timer[p]["t1_cookie"] # Stopped
    /\ \/ /\ timer[p]["t1_cookie"] < MaxInitRetransmits[p]
          /\ Expire(p, "t1_cookie")
          /\ Transmit(p, SendBufferedPackets(p, tcb[p], sendq[p]), net)
          /\ UNCHANGED <<state, tag, drawn, connects, sends, clientVars>>
       \/ /\ timer[p]["t1_cookie"] >= MaxInitRetransmits[p]
          /\ InternalClose(p, net)

\* The timer resends SHUTDOWN in every state.
OnShutdownTimerExpiry(p) ==
    /\ timer[p]["t2_shutdown"] # Stopped
    /\ \/ /\ timer[p]["t2_shutdown"] < MaxRetransmissions
          /\ Expire(p, "t2_shutdown")
          /\ net' = net \cup {Control("SHUTDOWN", Other(p), tcb[p].peer)}
          /\ UNCHANGED <<state, tcb, tag, sendq, drawn, connects, sends,
                         clientVars>>
       \/ /\ timer[p]["t2_shutdown"] >= MaxRetransmissions
          /\ InternalClose(p, net \cup {Abort(p)})

\* HandleT3RtxTimerExpiry and the error counter: chunks in flight are nacked and
\* the congestion window shrinks to one chunk.
NackedUncounted(t) == [t EXCEPT !.cwnd = 1, !.inflight = {},
                                !.rtx = @ \cup t.inflight]
Nacked(t) == [t EXCEPT !.err = @ + 1, !.cwnd = 1, !.inflight = {},
                       !.rtx = @ \cup t.inflight]

\* OnRtxTimerExpiry: t3_rtx_ runs while data is outstanding. It does nothing
\* while the COOKIE ECHO chunk is kept; otherwise the error is counted and the
\* chunks that fit in the window are sent again. HandleTimeout closes the
\* connection once the error counter exceeds its limit.
OnRtxTimerExpiry(p) ==
    /\ HasTcb(p)
    /\ tcb[p].inflight \cup tcb[p].rtx # {}
    /\ tcb[p].cookie = NoCookie
    /\ \/ /\ tcb[p].err < MaxRetransmissions
          /\ Transmit(p, SendBufferedPackets(p, Nacked(tcb[p]), sendq[p]), net)
          /\ UNCHANGED <<state, tag, timer, drawn, connects, sends, clientVars>>
       \/ /\ tcb[p].err >= MaxRetransmissions
          /\ InternalClose(p, net \cup {Abort(p)})

-----------------------------------------------------------------------------
(* Packets. A handler's guard holds what ValidatePacket and its own early   *)
(* returns ask of the packet. One that is turned away changes nothing, so   *)
(* it needs no action: it is a packet that is lost.                         *)

Rest(m) == net \ {m}

\* The tag check of packets without a rule of their own.
ForMe(p, m) == HasTcb(p) /\ m.vtag = tcb[p].my

\* ReceivePacket for a packet that may bundle DATA: "sent" is what its first
\* chunk made the socket send, then the DATA is observed by the TCB there is
\* now and acknowledged.
Observe(p, m, sent, packets) ==
    /\ tcb' = Set(tcb, p, IF sent.tcb = NoTcb THEN NoTcb
                          ELSE ObserveData(sent.tcb, m.data))
    /\ sendq' = Set(sendq, p, sent.q)
    /\ delivered' = IF sent.tcb = NoTcb THEN delivered
                    ELSE Set(delivered, p, delivered[p]
                                \cup NewMessages(sent.tcb, m.data))
    /\ net' = Rest(m) \cup packets \cup sent.packets
                \cup (IF sent.tcb = NoTcb THEN {}
                      ELSE SackFor(p, sent.tcb, m.data))

\* Nothing sent, and the TCB as it was.
Nothing(p) == [tcb |-> tcb[p], q |-> sendq[p], packets |-> {}]

\* MaybeSendShutdownOnPacketReceived: SHUTDOWN answers DATA in kShutdownSent.
ShutdownOnPacketReceived(p, m) ==
    IF state[p] = "ShutdownSent" /\ m.data # {}
    THEN {Control("SHUTDOWN", Other(p), tcb[p].peer)} ELSE {}
TimerOnPacketReceived(p, m) ==
    IF state[p] = "ShutdownSent" /\ m.data # {}
    THEN [timer[p] EXCEPT !["t2_shutdown"] = 0] ELSE timer[p]

-----------------------------------------------------------------------------
(* Handshake *)

\* The part of HandleInit that answers: tags come from the connection attempt
\* that is under way, or are drawn anew.
AnswerInit(p, m, my, tie) ==
    /\ drawn' = Set(drawn, p, IF my = Draw(p) THEN drawn[p] + 1 ELSE drawn[p])
    /\ net' = Rest(m) \cup
         {InitAck(Other(p), m.itag, my, [my |-> my, peer |-> m.itag,
                                         tie |-> tie])}
    /\ UNCHANGED <<state, tcb, tag, timer, sendq, connects, sends, clientVars>>

HandleInit(p, m) ==
    /\ m.type = "INIT"
    /\ \/ /\ state[p] = "ShutdownAckSent"
          /\ net' = Rest(m) \cup {Control("SHUTDOWN_ACK", Other(p), tcb[p].peer)}
          /\ timer' = [timer EXCEPT ![p]["t2_shutdown"] = 0]
          /\ UNCHANGED <<state, tcb, tag, sendq, drawn, connects, sends,
                         clientVars>>
       \/ /\ state[p] = "Closed"
          /\ AnswerInit(p, m, Draw(p), Zero(p))
       \/ /\ state[p] \in {"CookieWait", "CookieEchoed"}
          /\ AnswerInit(p, m, tag[p], Zero(p))
       \/ /\ state[p] \in {"Established", "ShutdownPending", "ShutdownSent",
                           "ShutdownReceived"}
          /\ AnswerInit(p, m, Draw(p), tcb[p].tie)

\* An INIT ACK is taken in kCookieWait, when it carries the tag of the attempt.
IsExpectedInitAckAnyTag(p, m) == state[p] = "CookieWait"
IsExpectedInitAck(p, m) == state[p] = "CookieWait" /\ m.vtag = tag[p]

HandleInitAck(p, m) ==
    /\ m.type = "INIT_ACK" /\ IsExpectedInitAck(p, m)
    /\ LET t == [NewTcb(tag[p], m.itag, Draw(p)) EXCEPT !.cookie = m.cookie]
       IN  Transmit(p, SendBufferedPackets(p, t, sendq[p]), Rest(m))
    /\ drawn' = Set(drawn, p, drawn[p] + 1)
    /\ state' = Set(state, p, "CookieEchoed")
    /\ timer' = [timer EXCEPT ![p]["t1_init"] = Stopped,
                              ![p]["t1_cookie"] = 0]
    /\ hadTcb' = Set(hadTcb, p, hadTcb[p] \cup {<<tag[p], m.itag>>})
    /\ UNCHANGED <<tag, connects, sends, delivered, acked>>

\* HandleCookieEchoWithTCB, the cases of RFC 4960 section 5.2.4: "Restarted"
\* and "Collision" rebuild the TCB, "Late" drops the cookie, everything else,
\* case D and pairs of tags that none of the cases describes, goes on.
CookieCase(t, m) ==
    IF /\ m.vtag # t.my /\ t.peer # m.cookie.peer
       /\ m.cookie.tie = t.tie                              THEN "Restarted"
    ELSE IF m.vtag = t.my /\ t.peer # m.cookie.peer         THEN "Collision"
    ELSE IF /\ m.vtag # t.my /\ t.peer = m.cookie.peer
            /\ IsZero(m.cookie.tie)                         THEN "Late"
    ELSE "Accepted"

\* The handshake timers stop when a cookie is accepted.
StoppedT1InitOnly(p, m) ==
    [TimerOnPacketReceived(p, m) EXCEPT !["t1_init"] = Stopped]
StoppedT1(p, m) ==
    [TimerOnPacketReceived(p, m) EXCEPT !["t1_init"] = Stopped,
                                        !["t1_cookie"] = Stopped]

\* HandleCookieEcho once the cookie is accepted: "t" is the TCB that stays, or
\* NoTcb when one is built from the cookie.
AcceptCookie(p, m, t) ==
    LET new == NewTcb(m.cookie.my, m.cookie.peer, Draw(p))
        kept == IF state[p] = "Established" THEN t
                ELSE [t EXCEPT !.cookie = NoCookie]
        now == IF t = NoTcb THEN new ELSE kept
    IN  /\ Observe(p, m, SendCookieAck(p, now, sendq[p]),
                   ShutdownOnPacketReceived(p, m))
        /\ timer' = Set(timer, p, StoppedT1(p, m))
        /\ state' = Set(state, p, "Established")
        /\ drawn' = Set(drawn, p, IF t = NoTcb THEN drawn[p] + 1 ELSE drawn[p])
        /\ hadTcb' = Set(hadTcb, p, hadTcb[p] \cup {<<now.my, now.peer>>})
        /\ UNCHANGED <<tag, connects, sends, acked>>

\* The cookie is rejected, and DATA bundled with it is processed all the same.
RejectCookie(p, m, packets) ==
    /\ Observe(p, m, Nothing(p), ShutdownOnPacketReceived(p, m) \cup packets)
    /\ timer' = Set(timer, p, TimerOnPacketReceived(p, m))
    /\ UNCHANGED <<state, tag, drawn, connects, sends, acked, hadTcb>>

HandleCookieEcho(p, m) ==
    /\ m.type = "COOKIE_ECHO"
    /\ \/ ~HasTcb(p) /\ m.vtag = m.cookie.my /\ AcceptCookie(p, m, NoTcb)
       \/ /\ HasTcb(p)
          /\ LET case == CookieCase(tcb[p], m) IN
             \/ case = "Accepted" /\ AcceptCookie(p, m, tcb[p])
             \/ case = "Collision" /\ AcceptCookie(p, m, NoTcb)
             \/ case = "Late" /\ RejectCookie(p, m, {})
             \/ /\ case = "Restarted"
                /\ IF state[p] = "ShutdownAckSent"
                   THEN RejectCookie(p, m, {Control("SHUTDOWN_ACK", Other(p),
                                                    m.cookie.peer)})
                   ELSE AcceptCookie(p, m, NoTcb)

\* HandleCookieAck, then the DATA bundled with it; outside kCookieEchoed only
\* the DATA counts.
HandleCookieAck(p, m) ==
    /\ m.type = "COOKIE_ACK" /\ ForMe(p, m)
    /\ IF state[p] = "CookieEchoed"
       THEN LET t == [tcb[p] EXCEPT !.cookie = NoCookie] IN
            /\ Observe(p, m, SendBufferedPackets(p, t, sendq[p]), {})
            /\ state' = Set(state, p, "Established")
            /\ timer' = [timer EXCEPT ![p]["t1_cookie"] = Stopped]
       ELSE /\ Observe(p, m, Nothing(p), ShutdownOnPacketReceived(p, m))
            /\ timer' = Set(timer, p, TimerOnPacketReceived(p, m))
            /\ UNCHANGED state
    /\ UNCHANGED <<tag, drawn, connects, sends, acked, hadTcb>>

-----------------------------------------------------------------------------
(* Data, shutdown and abort *)

HandleData(p, m) ==
    /\ m.type = "DATA" /\ ForMe(p, m)
    /\ Observe(p, m, Nothing(p), ShutdownOnPacketReceived(p, m))
    /\ timer' = Set(timer, p, TimerOnPacketReceived(p, m))
    /\ UNCHANGED <<state, tag, drawn, connects, sends, acked, hadTcb>>

\* MaybeSendShutdownOrAck for a socket in state s with TCB t: the state it
\* enters, T2-shutdown, and the packet it sends. It waits for chunks in flight
\* only (unacked_bytes).
MaybeSendShutdownOrAckForgetsState(p, s, t) ==
    IF t.inflight = {} /\ s \in {"ShutdownPending", "ShutdownReceived"}
    THEN [state |-> s, timer |-> [timer[p] EXCEPT !["t2_shutdown"] = 0],
          packets |-> {Control(IF s = "ShutdownPending" THEN "SHUTDOWN"
                               ELSE "SHUTDOWN_ACK", Other(p), t.peer)}]
    ELSE [state |-> s, timer |-> timer[p], packets |-> {}]
MaybeSendShutdownOrAck(p, s, t) ==
    LET step(next, chunk) ==
          [state |-> next, timer |-> [timer[p] EXCEPT !["t2_shutdown"] = 0],
           packets |-> {Control(chunk, Other(p), t.peer)}]
    IN  CASE t.inflight = {} /\ s = "ShutdownPending" ->
               step("ShutdownSent", "SHUTDOWN")
          [] t.inflight = {} /\ s = "ShutdownReceived" ->
               step("ShutdownAckSent", "SHUTDOWN_ACK")
          [] OTHER -> [state |-> s, timer |-> timer[p], packets |-> {}]

\* HandleSack: the shutdown goes on before buffered data is sent.
HandleSack(p, m) ==
    /\ m.type = "SACK" /\ ForMe(p, m) /\ IsSackValid(tcb[p], m)
    /\ LET t == HandledSack(tcb[p], m)
           down == MaybeSendShutdownOrAck(p, state[p], t)
       IN  /\ state' = Set(state, p, down.state)
           /\ timer' = Set(timer, p, down.timer)
           /\ Transmit(p, SendBufferedPackets(p, t, sendq[p]),
                       Rest(m) \cup down.packets)
    /\ acked' = Set(acked, p, acked[p] \cup {c.msg : c \in AckedBy(tcb[p], m)})
    /\ UNCHANGED <<tag, drawn, connects, sends, delivered, hadTcb>>

HandleShutdown(p, m) ==
    /\ m.type = "SHUTDOWN" /\ ForMe(p, m)
    /\ \/ /\ state[p] = "ShutdownSent"
          /\ state' = Set(state, p, "ShutdownAckSent")
          /\ timer' = [timer EXCEPT ![p]["t2_shutdown"] = 0]
          /\ net' = Rest(m) \cup {Control("SHUTDOWN_ACK", Other(p), tcb[p].peer)}
       \/ /\ state[p] \in {"Established", "ShutdownPending"}
          /\ LET down == MaybeSendShutdownOrAck(p, "ShutdownReceived", tcb[p])
             IN  /\ state' = Set(state, p, down.state)
                 /\ timer' = Set(timer, p, down.timer)
                 /\ net' = Rest(m) \cup down.packets
    /\ UNCHANGED <<tcb, tag, sendq, drawn, connects, sends, clientVars>>

HandleShutdownAck(p, m) ==
    /\ m.type = "SHUTDOWN_ACK" /\ ForMe(p, m)
    /\ IF state[p] \in {"ShutdownSent", "ShutdownAckSent"}
       THEN InternalClose(p, Rest(m) \cup
                {ShutdownComplete(Other(p), tcb[p].peer, FALSE)})
       ELSE /\ net' = Rest(m) \cup {ShutdownComplete(Other(p), m.vtag, TRUE)}
            /\ UNCHANGED <<socketVars, clientVars>>

HandleShutdownComplete(p, m) ==
    /\ m.type = "SHUTDOWN_COMPLETE"
    /\ state[p] = "ShutdownAckSent"
    /\ m.vtag = IF m.tbit THEN tcb[p].peer ELSE tcb[p].my
    /\ InternalClose(p, Rest(m))

HandleAbort(p, m) ==
    /\ m.type = "ABORT" /\ ForMe(p, m)
    /\ InternalClose(p, Rest(m))

Handle(p, m) ==
    \/ HandleInit(p, m)        \/ HandleInitAck(p, m)
    \/ HandleCookieEcho(p, m)  \/ HandleCookieAck(p, m)
    \/ HandleData(p, m)        \/ HandleSack(p, m)
    \/ HandleShutdown(p, m)    \/ HandleShutdownAck(p, m)
    \/ HandleShutdownComplete(p, m) \/ HandleAbort(p, m)

Receive(p) == \E m \in net : m.to = p /\ Handle(p, m)

Next ==
    \E p \in Peers :
        \/ Connect(p) \/ ShutdownUnconnected(p) \/ Shutdown(p) \/ Close(p)
        \/ Send(p)
        \/ OnInitTimerExpiry(p) \/ OnCookieTimerExpiry(p)
        \/ OnShutdownTimerExpiry(p) \/ OnRtxTimerExpiry(p)
        \/ Receive(p)

Spec == Init /\ [][Next]_vars

\* A running timer expires: the client delivers every timeout it was asked for.
\* Nothing is assumed of the network, which may lose every packet.
Fairness ==
    \A p \in Peers : /\ WF_vars(OnInitTimerExpiry(p))
                     /\ WF_vars(OnCookieTimerExpiry(p))
                     /\ WF_vars(OnShutdownTimerExpiry(p))
                     /\ WF_vars(OnRtxTimerExpiry(p))

FairSpec == Spec /\ Fairness

-----------------------------------------------------------------------------
(* Properties *)

\* Every variable has values of its type.
TypeOK ==
    /\ state \in [Peers -> State]
    /\ tcb \in [Peers -> Tcb \cup {NoTcb}]
    /\ tag \in [Peers -> Tag]
    /\ timer \in [Peers -> [TimerIds -> Nat \cup {Stopped}]]
    /\ sendq \in [Peers -> Seq(Nat)]
    /\ drawn \in [Peers -> Nat]
    /\ connects \in [Peers -> Nat]
    /\ sends \in [Peers -> Nat]
    /\ net \subseteq Packet
    /\ delivered \in [Peers -> SUBSET Nat]
    /\ acked \in [Peers -> SUBSET Nat]
    /\ hadTcb \in [Peers -> SUBSET (Tag \X Tag)]

Running(p) == {i \in TimerIds : timer[p][i] # Stopped}

\* DcSctpSocket::IsConsistent, which every public method and handler asserts
\* on its way out: state_ decides whether there is a TCB and which of the three
\* connection timers run.
IsConsistent ==
    \A p \in Peers :
        CASE state[p] = "Closed" -> ~HasTcb(p) /\ Running(p) = {}
          [] state[p] = "CookieWait" -> ~HasTcb(p) /\ Running(p) = {"t1_init"}
          [] state[p] = "CookieEchoed" ->
               /\ HasTcb(p) /\ tcb[p].cookie # NoCookie
               /\ Running(p) = {"t1_cookie"}
          [] state[p] \in {"ShutdownSent", "ShutdownAckSent"} ->
               HasTcb(p) /\ Running(p) = {"t2_shutdown"}
          [] OTHER -> HasTcb(p) /\ Running(p) = {}

\* The part of IsConsistent that no sequence of packets can break: a socket
\* waits with the timer its state needs, never with a timer of an earlier phase
\* of the handshake, and no timer runs whose handler would dereference a null
\* tcb_. T2-shutdown may be left running in any state that has a TCB.
TimersMatchState ==
    \A p \in Peers :
        /\ HasTcb(p) <=> state[p] \notin {"Closed", "CookieWait"}
        /\ "t1_init" \in Running(p) <=> state[p] = "CookieWait"
        /\ "t1_cookie" \in Running(p) <=> state[p] = "CookieEchoed"
        /\ state[p] = "CookieEchoed" => tcb[p].cookie # NoCookie
        /\ state[p] \in {"ShutdownSent", "ShutdownAckSent"}
             => "t2_shutdown" \in Running(p)
        /\ "t2_shutdown" \in Running(p) => HasTcb(p)

\* A socket that reports OnConnected is not alone: the other one has, now or
\* earlier, had a TCB with the same two verification tags.
PeerHasMirrorTcb ==
    \A p \in Peers : state[p] = "Established" =>
        <<tcb[p].peer, tcb[p].my>> \in hadTcb[Other(p)]

\* What OnLifecycleMessageDelivered reports is true: a message that HandleSack
\* takes for acknowledged has been handed to the client of the other side, also
\* across restarts and packets of associations that are gone.
AckedIsDelivered ==
    \A p \in Peers : acked[p] \subseteq delivered[Other(p)]

\* SHUTDOWN is sent only once everything the client sent has been acknowledged:
\* nothing is in flight, waits to be retransmitted or waits in the send queue.
ShutdownAfterAllData ==
    \A p \in Peers : state[p] = "ShutdownSent" =>
        tcb[p].inflight \cup tcb[p].rtx = {} /\ sendq[p] = <<>>

\* Graceful closing is agreed on: a socket that answers SHUTDOWN ACK with
\* SHUTDOWN COMPLETE and forgets the association leaves its peer waiting for
\* just that, or already closed, never in a state where it could still send.
CloseIsAgreed ==
    [][\A m \in net' \ net : (m.type = "SHUTDOWN_COMPLETE" /\ ~m.tbit) =>
         state[m.to] \in {"ShutdownAckSent", "Closed"}]_vars

\* A connection attempt ends: T1-init and T1-cookie give up after their limit
\* when no answer comes.
ConnectResolves ==
    \A p \in Peers : (state[p] \in {"CookieWait", "CookieEchoed"}) ~>
                     (state[p] \notin {"CookieWait", "CookieEchoed"})

\* A shutdown ends: whatever the network loses, a socket that is shutting down
\* is closed by the handshake or by one of its timers.
ShutdownResolves ==
    \A p \in Peers : (state[p] \in ShuttingDown) ~> (state[p] = "Closed")

\* Outstanding data ends: it is acknowledged, or T3-rtx gives up and the
\* connection is closed.
OutstandingResolves ==
    \A p \in Peers :
        (HasTcb(p) /\ tcb[p].inflight \cup tcb[p].rtx # {}) ~>
        (HasTcb(p) => tcb[p].inflight \cup tcb[p].rtx = {})

=============================================================================
