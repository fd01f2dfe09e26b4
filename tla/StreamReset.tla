----------------------------- MODULE StreamReset -----------------------------
(***************************************************************************)
(* What a dcSCTP socket keeps for its streams, and how it resets them      *)
(* (RFC 6525): the outgoing streams of tx/rr_send_queue.cc, the requests   *)
(* and responses of socket/stream_reset_handler.cc, the deferred reset of  *)
(* rx/reassembly_queue.cc and the streams of                               *)
(* rx/traditional_reassembly_streams.cc. The callbacks to the client wait  *)
(* in calls until the call that caused them ends                           *)
(* (socket/callback_deferrer.cc).                                          *)
(*                                                                         *)
(* A socket is a record and an operation maps a socket to a socket,        *)
(* because the client calls back into the socket from its callbacks: the   *)
(* composition in DataChannel chains them in the order the code does.      *)
(*                                                                         *)
(* The log of a socket is the chunks it has sent: the chunk with TSN t is  *)
(* log[t]. Retransmission makes every chunk arrive, in any order. The      *)
(* last RE-CONFIG chunks a socket has sent stay in requests and responses: *)
(* they may be received late, several times, out of order or not at all.   *)
(***************************************************************************)
EXTENDS Integers, Sequences, FiniteSets, SequencesExt, FiniteSetsExt

CONSTANTS
    Sids,           \* stream identifiers
    BufferSize,     \* buffer_size_, in fragments
    LowThreshold,   \* total_buffered_amount_low_threshold, in fragments
    Lateness        \* bound: how many RE-CONFIG chunks a late one is behind

ASSUME StreamResetAssumption ==
    /\ Sids \subseteq Nat /\ IsFiniteSet(Sids) /\ Sids # {}
    /\ LowThreshold \in Nat /\ BufferSize \in Nat /\ LowThreshold < BufferSize
    /\ Lateness \in Nat

NoRequest == [last |-> 0, streams |-> {}, sn |-> 0]
NotDeferred == [last |-> 0, streams |-> {}, tsns |-> <<>>]

\* epoch counts the resets of a stream, on either side: it is history, which
\* no operation reads.
NewOutgoingStream == [items |-> <<>>, sent |-> 0, pause |-> "NotPaused",
                      ssn |-> 0, epoch |-> 0]
NewIncomingStream == [ssn |-> 0, ordered |-> {}, unordered |-> {}, epoch |-> 0]

NewSocket ==
    [out |-> [s \in Sids |-> NewOutgoingStream],    \* RRSendQueue::streams_
     current |-> Min(Sids),     \* the stream that produced last
     log |-> <<>>,              \* DATA chunks sent
     room |-> 0,                \* fragments the congestion window lets out
     req |-> NoRequest,         \* current_request_
     nextSn |-> 1,              \* next_outgoing_req_seq_nbr_
     lastSn |-> 0,              \* last_processed_req_seq_nbr_
     lastResult |-> "SuccessNothingToDo",   \* last_processed_req_result_
     got |-> {},                \* TSNs the data tracker has observed
     in |-> [s \in Sids |-> NewIncomingStream],
     deferred |-> NotDeferred,  \* deferred_reset_streams_
     calls |-> <<>>,            \* callbacks deferred to the end of the call
     requests |-> {}, responses |-> {}]     \* RE-CONFIG chunks in the network

\* Of the RE-CONFIG chunks of a socket only those with the last numbers may still
\* arrive.
InNetwork(chunks, c) == {d \in chunks \cup {c} : d.sn >= c.sn - Lateness}

-----------------------------------------------------------------------------
(* The send queue.                                                         *)

Buffered(e) ==
    MapThenSumSet(LAMBDA s : FoldLeft(LAMBDA n, m : n + m.size, 0, e.out[s].items)
                                 - e.out[s].sent, Sids)

IsFull(e) == Buffered(e) >= BufferSize

\* The socket f after its buffered amount fell from that of e.
LowWatched(e, f) ==
    IF Buffered(e) > LowThreshold /\ Buffered(f) <= LowThreshold
    THEN [f EXCEPT !.calls = Append(@, [call |-> "OnTotalBufferedAmountLow"])]
    ELSE f

\* A partly sent message stays and is sent to its end; the others are dropped.
Pause(st) ==
    IF st.pause # "NotPaused" THEN st
    ELSE IF st.sent > 0
         THEN [st EXCEPT !.items = <<Head(@)>>, !.pause = "Pending"]
         ELSE [st EXCEPT !.items = <<>>, !.pause = "Paused"]

PrepareResetStream(e, s) ==
    LowWatched(e, [e EXCEPT !.out[s] = Pause(@)])

CommitResetStreams(e) ==
    [e EXCEPT !.out = [s \in Sids |->
        IF e.out[s].pause # "Resetting" THEN e.out[s]
        ELSE [e.out[s] EXCEPT !.epoch = @ + 1, !.pause = "NotPaused", !.ssn = 0,
                              !.sent = 0]]]

RollbackResetStreams(e) ==
    [e EXCEPT !.out = [s \in Sids |->
        IF e.out[s].pause # "Resetting" THEN e.out[s]
        ELSE [e.out[s] EXCEPT !.pause = "NotPaused"]]]

\* Streams with bytes_to_send_in_next_message() > 0.
Active(e) ==
    {s \in Sids : e.out[s].items # <<>> /\ e.out[s].pause \in {"NotPaused", "Pending"}}

\* The message under way is finished first, then streams take turns.
NextStream(e) ==
    LET partly == {s \in Active(e) : e.out[s].sent > 0}
        later == {s \in Active(e) : s > e.current}
    IN  IF partly # {} THEN Min(partly)
        ELSE IF later # {} THEN Min(later) ELSE Min(Active(e))

\* One fragment of stream s becomes a chunk with the next TSN.
Produce(e, s) ==
    LET st == e.out[s]
        m == Head(st.items)
        isEnd == st.sent + 1 = m.size
        chunk == [sid |-> s, m |-> m, ssn |-> IF m.unordered THEN 0 ELSE st.ssn,
                  begins |-> st.sent = 0, ends |-> isEnd, epoch |-> st.epoch]
    IN  [e EXCEPT
           !.log = Append(@, chunk),
           !.current = s,
           !.out[s] = [items |-> IF isEnd THEN Tail(st.items) ELSE st.items,
                       sent |-> IF isEnd THEN 0 ELSE st.sent + 1,
                       ssn |-> IF isEnd /\ ~m.unordered THEN st.ssn + 1 ELSE st.ssn,
                       pause |-> IF isEnd /\ st.pause = "Pending" THEN "Paused" ELSE st.pause,
                       epoch |-> st.epoch]]

-----------------------------------------------------------------------------
(* Requests.                                                               *)

ReadyToBeReset(e) == {s \in Sids : e.out[s].pause = "Paused"}

\* A request is sent again with its number, unless the peer said "in progress".
MakeReconfigChunk(e) ==
    LET r == IF e.req.sn = 0 THEN [e.req EXCEPT !.sn = e.nextSn] ELSE e.req
    IN  [e EXCEPT !.req = r,
                  !.nextSn = IF e.req.sn = 0 THEN @ + 1 ELSE @,
                  !.requests = InNetwork(@, r)]

\* Mutant: the request does not wait for the last chunk.
MakeStreamResetRequestTooEarly(e) ==
    IF e.req # NoRequest \/ ReadyToBeReset(e) = {} THEN e
    ELSE MakeReconfigChunk(
           [e EXCEPT !.req = [last |-> Len(e.log) - 1, streams |-> ReadyToBeReset(e),
                              sn |-> 0],
                     !.out = [s \in Sids |->
                        IF s \in ReadyToBeReset(e)
                        THEN [@[s] EXCEPT !.pause = "Resetting"] ELSE @[s]]])

MakeStreamResetRequest(e) ==
    IF e.req # NoRequest \/ ReadyToBeReset(e) = {} THEN e
    ELSE MakeReconfigChunk(
           [e EXCEPT !.req = [last |-> Len(e.log), streams |-> ReadyToBeReset(e),
                              sn |-> 0],
                     !.out = [s \in Sids |->
                        IF s \in ReadyToBeReset(e)
                        THEN [@[s] EXCEPT !.pause = "Resetting"] ELSE @[s]]])

SendChunk(e) ==
    IF Active(e) = {} THEN e ELSE [Produce(e, NextStream(e)) EXCEPT !.room = @ - 1]

\* TransmissionControlBlock::SendBufferedPackets, with room for e.room chunks.
SendBufferedPackets(e) ==
    LET after[i \in 0..e.room] ==
          IF i = 0 THEN MakeStreamResetRequest(e) ELSE SendChunk(after[i - 1])
    IN  IF e.room = 0 THEN e ELSE LowWatched(e, after[e.room])

\* DcSctpSocket::Send, when the queue is not full.
SocketSend(e, s, m) ==
    SendBufferedPackets([e EXCEPT !.out[s].items = Append(@, m)])

\* DcSctpSocket::ResetStreams.
SocketResetStreams(e, s) == MakeStreamResetRequest(PrepareResetStream(e, s))

\* The timer runs as long as there is a request.
OnReconfigTimerExpiry(e) == MakeReconfigChunk(e)

-----------------------------------------------------------------------------
(* The receiving side. The chunks come from the log of the peer.           *)

CumAck(e) == Max({n \in 0..Cardinality(e.got) : 1..n \subseteq e.got})

\* The message of chunk t is handed to the client.
OnMessageReceived(log, t) ==
    [call |-> "OnMessageReceived", sid |-> log[t].sid, m |-> log[t].m]

\* A message is whole when it has its first chunk, its last and all between.
Whole(log, tsns) ==
    /\ tsns # {}
    /\ log[Min(tsns)].begins /\ log[Max(tsns)].ends
    /\ Max(tsns) - Min(tsns) = Cardinality(tsns) - 1

\* Mutant: a whole message does not wait for those before it.
AddOrderedAtOnce(e, log, t) ==
    LET s == log[t].sid
        held == e.in[s].ordered \cup {t}
        of == {u \in held : log[u].ssn = log[t].ssn}
    IN  IF Whole(log, of)
        THEN [e EXCEPT !.in[s].ordered = held \ of, !.in[s].ssn = @ + 1,
                       !.calls = Append(@, OnMessageReceived(log, t))]
        ELSE [e EXCEPT !.in[s].ordered = held]

\* Messages are handed out in the order of their SSNs, from the next one on.
AddOrdered(e, log, t) ==
    LET s == log[t].sid
        next == e.in[s].ssn
        held == e.in[s].ordered \cup {t}
        of(n) == {u \in held : log[u].ssn = n}
        run == {n \in {log[u].ssn : u \in held} :
                  n >= next /\ \A k \in next..n : Whole(log, of(k))}
        left == {u \in held : log[u].ssn \notin run}
    IN  [e EXCEPT !.in[s] = [e.in[s] EXCEPT !.ordered = left,
                                            !.ssn = next + Cardinality(run)],
                  !.calls = @ \o [i \in 1..Cardinality(run) |->
                                    OnMessageReceived(log, Min(of(next + i - 1)))]]

\* The chunks with TSNs from t to u or from u to t are of one message.
Joined(log, t, u) == \A k \in (t + 1)..u \cup (u + 1)..t : ~log[k].begins

\* FindBeginning and FindEnd go from chunk t to both ends of its message.
AddUnordered(e, log, t) ==
    LET s == log[t].sid
        held == e.in[s].unordered \cup {t}
        part == {u \in held : t..u \cup u..t \subseteq held /\ Joined(log, t, u)}
    IN  IF Whole(log, part)
        THEN [e EXCEPT !.in[s].unordered = held \ part,
                       !.calls = Append(@, OnMessageReceived(log, t))]
        ELSE [e EXCEPT !.in[s].unordered = held]

\* ReassemblyQueue::Add.
AddChunk(e, log, t) ==
    IF e.deferred # NotDeferred /\ t > e.deferred.last /\ log[t].sid \in e.deferred.streams
    THEN [e EXCEPT !.deferred.tsns = Append(@, t)]
    ELSE IF log[t].m.unordered THEN AddUnordered(e, log, t)
    ELSE AddOrdered(e, log, t)

\* DcSctpSocket::HandleDataCommon, for a TSN that was not received before.
HandleData(e, log, t) ==
    AddChunk([e EXCEPT !.got = @ \cup {t}], log, t)

EnterDeferredReset(e, r) ==
    IF e.deferred # NotDeferred THEN e
    ELSE [e EXCEPT !.deferred = [last |-> r.last, streams |-> r.streams, tsns |-> <<>>]]

\* Mutant: the stream goes on with the SSN it had reached.
ResetStreamsAndLeaveDeferredResetKeepsSsn(e, log, streams) ==
    LET reset == [e EXCEPT !.in = [s \in Sids |->
                               IF s \in streams THEN [e.in[s] EXCEPT !.epoch = @ + 1]
                               ELSE e.in[s]],
                           !.deferred = NotDeferred]
        after[i \in 0..Len(e.deferred.tsns)] ==
          IF i = 0 THEN reset ELSE AddChunk(after[i - 1], log, e.deferred.tsns[i])
    IN  after[Len(e.deferred.tsns)]

ResetStreamsAndLeaveDeferredReset(e, log, streams) ==
    LET reset == [e EXCEPT !.in = [s \in Sids |->
                               IF s \in streams
                               THEN [e.in[s] EXCEPT !.epoch = @ + 1, !.ssn = 0]
                               ELSE e.in[s]],
                           !.deferred = NotDeferred]
        after[i \in 0..Len(e.deferred.tsns)] ==
          IF i = 0 THEN reset ELSE AddChunk(after[i - 1], log, e.deferred.tsns[i])
    IN  after[Len(e.deferred.tsns)]

\* OnIncomingStreamsReset is deferred before the messages that leave the
\* deferred reset: MaybeDeliverMessages comes last in HandleReconfig.
PerformReset(e, log, r) ==
    ResetStreamsAndLeaveDeferredReset(
        [e EXCEPT !.calls = Append(@, [call |-> "OnIncomingStreamsReset",
                                       streams |-> r.streams])],
        log, r.streams)

RespondTo(e, r, result) ==
    [e EXCEPT !.responses = InNetwork(@, [sn |-> r.sn, result |-> result])]

\* Mutant: a repeated request is not told from a new one.
HandleResetOutgoingAgain(e, log, r) ==
    IF r.sn \notin {e.lastSn, e.lastSn + 1} THEN RespondTo(e, r, "ErrorBadSequenceNumber")
    ELSE IF r.last > CumAck(e)
    THEN RespondTo(EnterDeferredReset([e EXCEPT !.lastSn = r.sn], r), r, "InProgress")
    ELSE RespondTo(PerformReset([e EXCEPT !.lastSn = r.sn], log, r), r, "SuccessPerformed")

HandleResetOutgoing(e, log, r) ==
    IF r.sn = e.lastSn THEN RespondTo(e, r, e.lastResult)
    ELSE IF r.sn # e.lastSn + 1 THEN RespondTo(e, r, "ErrorBadSequenceNumber")
    ELSE LET inProgress == r.last > CumAck(e)
             result == IF inProgress THEN "InProgress" ELSE "SuccessPerformed"
             f == [e EXCEPT !.lastSn = r.sn, !.lastResult = result]
         IN  RespondTo(IF inProgress THEN EnterDeferredReset(f, r)
                       ELSE PerformReset(f, log, r), r, result)

\* Mutant: a request in progress is sent again with the number it had.
HandleResponseKeepsNumber(e, r) ==
    IF e.req.sn = 0 \/ r.sn # e.req.sn \/ r.result = "InProgress" THEN e
    ELSE CommitResetStreams(
           [e EXCEPT !.req = NoRequest,
                     !.calls = Append(@, [call |-> "OnStreamsResetPerformed",
                                          streams |-> e.req.streams])])

HandleResponse(e, r) ==
    IF e.req.sn = 0 \/ r.sn # e.req.sn THEN e
    ELSE CASE r.result \in {"SuccessNothingToDo", "SuccessPerformed"} ->
                CommitResetStreams(
                  [e EXCEPT !.req = NoRequest,
                            !.calls = Append(@, [call |-> "OnStreamsResetPerformed",
                                                 streams |-> e.req.streams])])
           [] r.result = "InProgress" -> [e EXCEPT !.req.sn = 0]
           [] OTHER -> RollbackResetStreams([e EXCEPT !.req = NoRequest])

\* DcSctpSocket::HandleReconfig continues with the streams that were waiting
\* for this request to finish, and with the data that may now be sent.
AfterReconfig(e) == SendBufferedPackets(MakeStreamResetRequest(e))

\* A new socket takes over: see GetHandoverReadiness and AddHandoverState of
\* the queues and of the stream reset handler. It knows the number of the last
\* request it has handled but not its result.
HandoverReady(e, peer) ==
    /\ Buffered(e) = 0 /\ peer.got = 1..Len(e.log)
    /\ e.got = 1..CumAck(e)
    /\ \A s \in Sids : e.in[s].ordered = {} /\ e.in[s].unordered = {}
    /\ e.deferred = NotDeferred
    /\ e.req = NoRequest /\ ReadyToBeReset(e) = {}

AfterHandover(e) == [e EXCEPT !.lastResult = NewSocket.lastResult]

-----------------------------------------------------------------------------
(* The streams from socket e to socket f.                                  *)

\* Chunks of stream s that f has not yet handed on.
Underway(e, f, s) ==
    {t \in 1..Len(e.log) :
       /\ e.log[t].sid = s
       /\ \/ t \notin f.got
          \/ t \in f.in[s].ordered \cup f.in[s].unordered \cup ToSet(f.deferred.tsns)}

\* Both ends of every stream have been reset equally often, except while the
\* answer to a reset that f has performed is under way, and f will hand on every
\* chunk in the epoch it was sent in.
InStep(e, f) ==
    \A s \in Sids :
        /\ f.in[s].epoch \in {e.out[s].epoch, e.out[s].epoch + 1}
        /\ f.in[s].epoch # e.out[s].epoch => e.out[s].pause = "Resetting"
        /\ e.out[s].pause = "Resetting" <=> s \in e.req.streams
        /\ \A t \in Underway(e, f, s) : e.log[t].epoch = f.in[s].epoch
=============================================================================
