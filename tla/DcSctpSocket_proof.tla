-------------------------- MODULE DcSctpSocket_proof --------------------------
(***************************************************************************)
(* Proofs about DcSctpSocket, for every value of its constants.            *)
(***************************************************************************)
EXTENDS DcSctpSocket, FiniteSetTheorems, SequenceTheorems, TLAPS

-----------------------------------------------------------------------------
(* The two sockets, and values *)

LEMMA TwoPeers ==
    ASSUME NEW p \in Peers
    PROVE  /\ Other(p) \in Peers /\ Other(p) # p
           /\ \A x \in Peers : x = p \/ x = Other(p)
<1>1. \E x \in Peers : x # p
  BY PeersAssumption
<1> QED BY <1>1, PeersAssumption DEF Other

LEMMA TagValues ==
    ASSUME TypeOK, NEW p \in Peers
    PROVE  Zero(p) \in Tag /\ Draw(p) \in Tag
BY DEF TypeOK, Zero, Draw, Tag

\* The chunks of a TCB that are not acknowledged.
Pool(t) == t.inflight \cup t.rtx

\* Their TSNs are distinct, were assigned by the TCB and are its own.
GoodTcb(t) ==
    /\ t \in Tcb /\ t.next >= 1
    /\ IsFiniteSet(t.inflight) /\ IsFiniteSet(t.rtx)
    /\ \A c \in Pool(t) : c.base = t.my /\ 1 <= c.n /\ c.n < t.next
    /\ \A c, d \in Pool(t) : c.n = d.n => c = d

\* Two TCBs of one association, which differ in the chunks that were sent.
SameButChunks(t, u) ==
    /\ u.my = t.my /\ u.peer = t.peer /\ u.tie = t.tie /\ u.cookie = t.cookie
    /\ u.cwnd = t.cwnd /\ u.rx = t.rx /\ u.err = t.err
    /\ t.next <= u.next

\* The chunks of u that are not chunks of t have new TSNs.
OnlyFresh(t, u) ==
    \A c \in Pool(u) : c \in Pool(t) \/ t.next <= c.n

LEMMA TcbFields ==
    ASSUME NEW t \in Tcb
    PROVE  /\ t.my \in Tag /\ t.peer \in Tag /\ t.tie \in Tag
           /\ t.cookie \in Cookie \cup {NoCookie} /\ t.next \in Nat
           /\ t.inflight \subseteq Chunk /\ t.rtx \subseteq Chunk
           /\ t.cwnd \in Nat /\ t.rx \subseteq Nat /\ t.err \in Nat
           /\ t # NoTcb
BY NullAssumption DEF Tcb

LEMMA NewTcbGood ==
    ASSUME NEW my \in Tag, NEW peer \in Tag, NEW tie \in Tag
    PROVE  GoodTcb(NewTcb(my, peer, tie))
<1> DEFINE t == NewTcb(my, peer, tie)
<1>1. t \in Tcb /\ t.next = 1 /\ t.inflight = {} /\ t.rtx = {}
  BY BoundsAssumption DEF NewTcb, Tcb
<1> QED BY <1>1, FS_EmptySet DEF GoodTcb, Pool

-----------------------------------------------------------------------------
(* Chunks to send *)

\* Of the chunks R at most limit have fewer than limit chunks before them.
LEMMA LowestChunks ==
    ASSUME NEW R, IsFiniteSet(R), \A c \in R : c.n \in Nat,
           \A c, d \in R : c.n = d.n => c = d,
           NEW limit \in Nat,
           NEW A, A = {c \in R : Cardinality({d \in R : d.n < c.n}) < limit}
    PROVE  IsFiniteSet(A) /\ Cardinality(A) \in Nat /\ Cardinality(A) <= limit
<1> DEFINE Before(c) == {d \in R : d.n < c.n}
           f == [c \in A |-> Cardinality(Before(c))]
<1>1. \A c \in R : IsFiniteSet(Before(c)) /\ Cardinality(Before(c)) \in Nat
  BY FS_Subset, FS_CardinalityType
<1>2. f \in [A -> 0..(limit - 1)]
  <2>1. \A c \in A : Cardinality(Before(c)) \in Nat /\ Cardinality(Before(c)) < limit
    BY <1>1
  <2> HIDE DEF Before
  <2> QED BY <2>1
<1>3. ASSUME NEW c \in A, NEW d \in A, c.n < d.n
      PROVE  f[c] # f[d]
  <2>1. Before(c) \subseteq Before(d) /\ c \in Before(d) /\ c \notin Before(c)
    BY <1>3
  <2>2. Before(c) # Before(d)
    BY <2>1
  <2>3. Cardinality(Before(c)) # Cardinality(Before(d))
    <3> HIDE DEF Before
    <3> QED BY <2>1, <2>2, <1>1, FS_Subset
  <2> QED BY <2>3
<1>4. \A c, d \in A : f[c] = f[d] => c = d
  <2> SUFFICES ASSUME NEW c \in A, NEW d \in A, c # d PROVE f[c] # f[d]
    OBVIOUS
  <2>1. c.n < d.n \/ d.n < c.n
    OBVIOUS
  <2> HIDE DEF f
  <2> QED BY <2>1, <1>3
<1>5. f \in Injection(A, 0..(limit - 1))
  <2> HIDE DEF f
  <2> QED BY <1>2, <1>4 DEF Injection, IsInjective
<1>6. IsFiniteSet(0..(limit - 1)) /\ Cardinality(0..(limit - 1)) = limit
  BY FS_Interval
<1>7. IsFiniteSet(A) /\ Cardinality(A) <= Cardinality(0..(limit - 1))
  <2> HIDE DEF f
  <2> QED BY <1>5, <1>6, FS_Injection
<1> QED BY <1>6, <1>7, FS_CardinalityType

LEMMA GetChunksEffect ==
    ASSUME NEW t, GoodTcb(t), NEW q \in Seq(Nat), NEW limit \in Nat,
           NEW g, g = GetChunksToSend(t, q, limit)
    PROVE  /\ GoodTcb(g.tcb) /\ g.q \in Seq(Nat)
           /\ SameButChunks(t, g.tcb) /\ OnlyFresh(t, g.tcb)
           /\ g.chunks \subseteq g.tcb.inflight
<1> DEFINE again == {c \in t.rtx : Cardinality({d \in t.rtx : d.n < c.n}) < limit}
           room == limit - Cardinality(again)
           k == IF Len(q) < room THEN Len(q) ELSE room
           fresh == {[base |-> t.my, n |-> t.next + i - 1, msg |-> q[i]] : i \in 1..k}
<1>0. /\ t \in Tcb /\ t.my \in Tag /\ t.next \in Nat /\ t.next >= 1
      /\ t.inflight \subseteq Chunk /\ t.rtx \subseteq Chunk
      /\ IsFiniteSet(t.inflight) /\ IsFiniteSet(t.rtx)
      /\ \A c \in t.rtx : c.n \in Nat
  BY TcbFields DEF GoodTcb, Chunk
<1>1. IsFiniteSet(again) /\ Cardinality(again) \in Nat /\ Cardinality(again) <= limit
  <2>1. \A c, d \in t.rtx : c.n = d.n => c = d
    BY DEF GoodTcb, Pool
  <2> QED BY <1>0, <2>1, LowestChunks
<1>2. again \subseteq t.rtx
  OBVIOUS
<1> HIDE DEF again
<1>3. Len(q) \in Nat /\ k \in Nat /\ k <= Len(q) /\ \A i \in 1..Len(q) : q[i] \in Nat
  BY <1>1, LenProperties, ElementOfSeq
<1>4. g = [chunks |-> again \cup fresh,
           tcb |-> [t EXCEPT !.next = @ + k,
                             !.rtx = @ \ again,
                             !.inflight = @ \cup again \cup fresh],
           q |-> SubSeq(q, k + 1, Len(q))]
  BY DEF GetChunksToSend, again
<1> HIDE DEF k
<1>5. /\ fresh \subseteq Chunk
      /\ \A c \in fresh : c.base = t.my /\ t.next <= c.n /\ c.n < t.next + k
      /\ \A c, d \in fresh : c.n = d.n => c = d
  <2>1. \A i \in 1..k : /\ q[i] \in Nat /\ t.next + i - 1 \in Nat
                        /\ t.next <= t.next + i - 1 /\ t.next + i - 1 < t.next + k
    BY <1>0, <1>3
  <2>2. \A i, j \in 1..k : t.next + i - 1 = t.next + j - 1 => i = j
    BY <1>0, <1>3
  <2>3. fresh \subseteq Chunk
    BY <1>0, <2>1 DEF Chunk
  <2>4. \A c \in fresh : c.base = t.my /\ t.next <= c.n /\ c.n < t.next + k
    BY <2>1
  <2>5. \A c, d \in fresh : c.n = d.n => c = d
    BY <2>2
  <2> QED BY <2>3, <2>4, <2>5
<1>6. IsFiniteSet(fresh)
  <2> DEFINE h == [i \in 1..k |-> [base |-> t.my, n |-> t.next + i - 1, msg |-> q[i]]]
  <2>1. h \in Surjection(1..k, fresh)
    BY DEF Surjection
  <2>2. IsFiniteSet(1..k)
    BY <1>3, FS_Interval
  <2> HIDE DEF h, fresh
  <2> QED BY <2>1, <2>2, FS_Surjection
<1> HIDE DEF fresh
<1>7. /\ g.tcb \in Tcb /\ g.tcb.next = t.next + k
      /\ g.tcb.rtx = t.rtx \ again
      /\ g.tcb.inflight = t.inflight \cup again \cup fresh
      /\ g.tcb.my = t.my
      /\ SameButChunks(t, g.tcb)
  <2>1. g.tcb = [t EXCEPT !.next = @ + k, !.rtx = @ \ again,
                          !.inflight = @ \cup again \cup fresh]
    BY <1>4
  <2>2. t.next + k \in Nat /\ t.next <= t.next + k
    BY <1>0, <1>3
  <2>3. t.inflight \cup again \cup fresh \subseteq Chunk /\ t.rtx \ again \subseteq Chunk
    BY <1>0, <1>2, <1>5
  <2>4. g.tcb \in Tcb
    BY <2>1, <2>2, <2>3, <1>0 DEF Tcb
  <2>5. SameButChunks(t, g.tcb)
    BY <2>1, <2>2, <1>0 DEF Tcb, SameButChunks
  <2> QED BY <2>1, <2>4, <2>5, <1>0 DEF Tcb
<1>8. Pool(g.tcb) = Pool(t) \cup fresh
  BY <1>7, <1>2 DEF Pool
<1>9. IsFiniteSet(g.tcb.inflight) /\ IsFiniteSet(g.tcb.rtx)
  <2>1. IsFiniteSet(t.inflight \cup again)
    BY <1>0, <1>1, FS_Union
  <2>2. IsFiniteSet((t.inflight \cup again) \cup fresh)
    BY <2>1, <1>6, FS_Union
  <2>3. IsFiniteSet(t.rtx \ again)
    BY <1>0, FS_Difference
  <2> QED BY <2>2, <2>3, <1>7
<1>10. \A c \in Pool(t) : c.base = t.my /\ 1 <= c.n /\ c.n < t.next /\ c.n \in Nat
  BY <1>0 DEF GoodTcb, Pool, Chunk
<1>11. \A c \in fresh : c.n \in Nat
  BY <1>5 DEF Chunk
<1>12. GoodTcb(g.tcb)
  <2>1. \A c \in Pool(g.tcb) : c.base = g.tcb.my /\ 1 <= c.n /\ c.n < g.tcb.next
    BY <1>0, <1>3, <1>5, <1>7, <1>8, <1>10, <1>11
  <2>2. ASSUME NEW c \in Pool(g.tcb), NEW d \in Pool(g.tcb), c.n = d.n
        PROVE  c = d
    <3>1. \A x, y \in Pool(t) : x.n = y.n => x = y
      BY DEF GoodTcb
    <3> QED BY <3>1, <2>2, <1>0, <1>5, <1>8, <1>10, <1>11
  <2>3. g.tcb.next >= 1
    BY <1>0, <1>3, <1>7
  <2> QED BY <2>1, <2>2, <2>3, <1>7, <1>9 DEF GoodTcb
<1>13. g.q \in Seq(Nat)
  BY <1>3, <1>4, SubSeqProperties
<1>14. OnlyFresh(t, g.tcb)
  BY <1>5, <1>8 DEF OnlyFresh
<1>15. g.chunks \subseteq g.tcb.inflight
  BY <1>4, <1>7
<1> QED BY <1>7, <1>12, <1>13, <1>14, <1>15

-----------------------------------------------------------------------------
(* Packets *)

\* The fields of a packet, by its type.
LEMMA PacketFields ==
    ASSUME NEW m \in Packet
    PROVE  /\ m.to \in Peers
           /\ m.type = "INIT" => m.itag \in Tag
           /\ m.type # "INIT" => m.vtag \in Tag
           /\ m.type = "INIT_ACK" => m.itag \in Tag /\ m.cookie \in Cookie
           /\ m.type = "COOKIE_ECHO" => m.cookie \in Cookie /\ m.data \subseteq Chunk
           /\ m.type \in {"COOKIE_ACK", "DATA"} => m.data \subseteq Chunk
           /\ m.type = "SACK" => m.base \in Tag /\ m.acked \subseteq Nat
           /\ m.type = "SHUTDOWN_COMPLETE" => m.tbit \in BOOLEAN
BY DEF Packet

LEMMA PacketTypes ==
    ASSUME NEW to \in Peers, NEW vtag \in Tag
    PROVE  /\ Init_(to, vtag) \in Packet
           /\ \A itag \in Tag, c \in Cookie : InitAck(to, vtag, itag, c) \in Packet
           /\ \A c \in Cookie, d \in SUBSET Chunk : CookieEcho(to, vtag, c, d) \in Packet
           /\ \A d \in SUBSET Chunk : CookieAck(to, vtag, d) \in Packet
           /\ \A c \in Chunk : Data(to, vtag, c) \in Packet
           /\ \A b \in Tag, ns \in SUBSET Nat : Sack(to, vtag, b, ns) \in Packet
           /\ \A x \in {"SHUTDOWN", "SHUTDOWN_ACK", "ABORT"} : Control(x, to, vtag) \in Packet
           /\ \A b \in BOOLEAN : ShutdownComplete(to, vtag, b) \in Packet
BY DEF Packet, Init_, InitAck, CookieEcho, CookieAck, Data, Carrier, Sack, Control,
       ShutdownComplete

\* What "sent", the packets and the TCB that are left when a socket with TCB t
\* has sent what it may, can be.
Transmission(p, t, sent) ==
    /\ GoodTcb(sent.tcb) /\ SameButChunks(t, sent.tcb) /\ OnlyFresh(t, sent.tcb)
    /\ sent.q \in Seq(Nat) /\ sent.packets \subseteq Packet
    /\ \A m \in sent.packets :
         /\ m.type \in {"COOKIE_ECHO", "COOKIE_ACK", "DATA"}
         /\ m.to = Other(p) /\ m.vtag = t.peer /\ m.data \subseteq sent.tcb.inflight
         /\ m.type = "COOKIE_ECHO" => m.cookie = t.cookie /\ t.cookie # NoCookie

LEMMA RoomType ==
    ASSUME NEW t, GoodTcb(t)
    PROVE  Room(t) \in Nat
<1>1. t.cwnd \in Nat /\ Cardinality(t.inflight) \in Nat
  BY TcbFields, FS_CardinalityType DEF GoodTcb
<1> QED BY <1>1 DEF Room

LEMMA SameButChunksReflexive ==
    ASSUME NEW t, GoodTcb(t)
    PROVE  SameButChunks(t, t) /\ OnlyFresh(t, t)
BY TcbFields DEF GoodTcb, SameButChunks, OnlyFresh

LEMMA SendBufferedEffect ==
    ASSUME NEW p \in Peers, NEW t, GoodTcb(t), NEW q \in Seq(Nat),
           NEW s, s = SendBufferedPackets(p, t, q)
    PROVE  Transmission(p, t, s)
<1>0. /\ t.peer \in Tag /\ t.cookie \in Cookie \cup {NoCookie} /\ Other(p) \in Peers
      /\ t.inflight \subseteq Chunk /\ t \in Tcb
  BY TcbFields, TwoPeers DEF GoodTcb
<1>1. CASE ~CanSendData(t)
  <2>1. s.tcb = t /\ s.q = q /\ s.packets = {}
    BY <1>1 DEF SendBufferedPackets
  <2> QED BY <2>1, SameButChunksReflexive DEF Transmission
<1>2. CASE CanSendData(t) /\ t.cookie # NoCookie
  <2> DEFINE g == GetChunksToSend(t, q, IF Room(t) = 0 THEN 0 ELSE 1)
  <2>1. /\ s.tcb = g.tcb /\ s.q = g.q
        /\ s.packets = {CookieEcho(Other(p), t.peer, t.cookie, g.chunks)}
    BY <1>2 DEF SendBufferedPackets
  <2>2. /\ GoodTcb(g.tcb) /\ g.q \in Seq(Nat)
        /\ SameButChunks(t, g.tcb) /\ OnlyFresh(t, g.tcb)
        /\ g.chunks \subseteq g.tcb.inflight
    BY GetChunksEffect
  <2> HIDE DEF g
  <2>3. g.chunks \subseteq Chunk /\ t.cookie \in Cookie
    BY <2>2, <1>0, <1>2, TcbFields DEF GoodTcb
  <2>4. CookieEcho(Other(p), t.peer, t.cookie, g.chunks) \in Packet
    BY <2>3, <1>0, PacketTypes
  <2> QED BY <2>1, <2>2, <2>4, <1>2 DEF Transmission, CookieEcho
<1>3. CASE CanSendData(t) /\ t.cookie = NoCookie
  <2> DEFINE g == GetChunksToSend(t, q, Room(t))
  <2>1. /\ s.tcb = g.tcb /\ s.q = g.q
        /\ s.packets = {Data(Other(p), t.peer, c) : c \in g.chunks}
    BY <1>3 DEF SendBufferedPackets
  <2>2. /\ GoodTcb(g.tcb) /\ g.q \in Seq(Nat)
        /\ SameButChunks(t, g.tcb) /\ OnlyFresh(t, g.tcb)
        /\ g.chunks \subseteq g.tcb.inflight
    BY GetChunksEffect, RoomType
  <2> HIDE DEF g
  <2>3. g.chunks \subseteq Chunk
    BY <2>2, TcbFields DEF GoodTcb
  <2>4. \A c \in g.chunks : Data(Other(p), t.peer, c) \in Packet
    BY <2>3, <1>0, PacketTypes
  <2> QED BY <2>1, <2>2, <2>4, <1>3 DEF Transmission, Data, Carrier
<1> QED BY <1>1, <1>2, <1>3

LEMMA SendCookieAckEffect ==
    ASSUME NEW p \in Peers, NEW t, GoodTcb(t), NEW q \in Seq(Nat),
           NEW s, s = SendCookieAck(p, t, q)
    PROVE  Transmission(p, t, s) /\ \A m \in s.packets : m.type # "COOKIE_ECHO"
<1> DEFINE g == GetChunksToSend(t, q, Room(t))
           first == {c \in g.chunks : \A d \in g.chunks : c.n <= d.n}
<1>0. t.peer \in Tag /\ Other(p) \in Peers
  BY TcbFields, TwoPeers DEF GoodTcb
<1>1. CASE ~CanSendData(t)
  <2>1. s.tcb = t /\ s.q = q /\ s.packets = {}
    BY <1>1 DEF SendCookieAck
  <2> QED BY <2>1, SameButChunksReflexive DEF Transmission
<1>2. CASE CanSendData(t)
  <2>1. /\ s.tcb = g.tcb /\ s.q = g.q
        /\ s.packets = {CookieAck(Other(p), t.peer, first)}
                          \cup {Data(Other(p), t.peer, c) : c \in g.chunks \ first}
    BY <1>2 DEF SendCookieAck
  <2>2. /\ GoodTcb(g.tcb) /\ g.q \in Seq(Nat)
        /\ SameButChunks(t, g.tcb) /\ OnlyFresh(t, g.tcb)
        /\ g.chunks \subseteq g.tcb.inflight
    BY GetChunksEffect, RoomType
  <2>5. first \subseteq g.chunks
    OBVIOUS
  <2> HIDE DEF g, first
  <2>3. g.chunks \subseteq Chunk
    BY <2>2, TcbFields DEF GoodTcb
  <2>4. /\ CookieAck(Other(p), t.peer, first) \in Packet
        /\ \A c \in g.chunks : Data(Other(p), t.peer, c) \in Packet
    BY <2>3, <2>5, <1>0, PacketTypes
  <2> QED BY <2>1, <2>2, <2>4, <2>5 DEF Transmission, Data, Carrier, CookieAck
<1> QED BY <1>1, <1>2

-----------------------------------------------------------------------------
(* TCBs that receive *)

LEMMA ObserveEffect ==
    ASSUME NEW p \in Peers, NEW t, GoodTcb(t), NEW data, data \subseteq Chunk,
           NEW u, u = ObserveData(t, data)
    PROVE  /\ GoodTcb(u) /\ u = [t EXCEPT !.rx = u.rx] /\ Pool(u) = Pool(t)
           /\ u.rx = t.rx \cup {c.n : c \in Valid(t, data)}
           /\ NewMessages(t, data) \subseteq Nat
           /\ SackFor(p, t, data) \subseteq Packet
           /\ SackFor(p, t, data) \subseteq {Sack(Other(p), t.peer, t.peer, u.rx)}
<1>0. /\ t \in Tcb /\ t.peer \in Tag /\ t.rx \subseteq Nat /\ Other(p) \in Peers
  BY TcbFields, TwoPeers DEF GoodTcb
<1>1. Valid(t, data) \subseteq Chunk /\ \A c \in Chunk : c.n \in Nat /\ c.msg \in Nat
  BY DEF Valid, Chunk
<1>2. u = [t EXCEPT !.rx = t.rx \cup {c.n : c \in Valid(t, data)}]
  BY <1>0 DEF ObserveData, Tcb
<1>3. t.rx \cup {c.n : c \in Valid(t, data)} \in SUBSET Nat
  BY <1>0, <1>1
<1>4. /\ u \in Tcb /\ u.rx = t.rx \cup {c.n : c \in Valid(t, data)}
      /\ u.inflight = t.inflight /\ u.rtx = t.rtx /\ u.my = t.my /\ u.next = t.next
  <2> DEFINE r == t.rx \cup {c.n : c \in Valid(t, data)}
  <2> HIDE DEF r
  <2>1. u = [t EXCEPT !.rx = r] /\ r \in SUBSET Nat
    BY <1>2, <1>3 DEF r
  <2>2. u \in Tcb /\ u.rx = r
    BY <2>1, <1>0 DEF Tcb
  <2>3. u.inflight = t.inflight /\ u.rtx = t.rtx /\ u.my = t.my /\ u.next = t.next
    BY <2>1, <1>0 DEF Tcb
  <2> QED BY <2>2, <2>3 DEF r
<1>5. GoodTcb(u) /\ Pool(u) = Pool(t)
  BY <1>4 DEF GoodTcb, Pool
<1>6. NewMessages(t, data) \subseteq Nat
  BY <1>1 DEF NewMessages
<1>7. Sack(Other(p), t.peer, t.peer, u.rx) \in Packet
  BY <1>0, <1>3, <1>4, PacketTypes
<1>8. SackFor(p, t, data) \subseteq {Sack(Other(p), t.peer, t.peer, u.rx)}
  BY DEF SackFor
<1>9. u = [t EXCEPT !.rx = u.rx]
  BY <1>2, <1>4
<1> QED BY <1>4, <1>5, <1>6, <1>7, <1>8, <1>9

LEMMA SmallerTcb ==
    ASSUME NEW t, GoodTcb(t), NEW u \in Tcb, u.my = t.my, u.next = t.next,
           u.inflight \subseteq Pool(t), u.rtx \subseteq Pool(t)
    PROVE  GoodTcb(u) /\ Pool(u) \subseteq Pool(t)
<1>1. IsFiniteSet(Pool(t))
  BY FS_Union DEF GoodTcb, Pool
<1>2. IsFiniteSet(u.inflight) /\ IsFiniteSet(u.rtx)
  BY <1>1, FS_Subset
<1>3. Pool(u) \subseteq Pool(t)
  BY DEF Pool
<1> QED BY <1>2, <1>3 DEF GoodTcb

LEMMA HandledSackEffect ==
    ASSUME NEW t, GoodTcb(t), NEW m, NEW u, u = HandledSack(t, m)
    PROVE  /\ GoodTcb(u) /\ Pool(u) \subseteq Pool(t) /\ AckedBy(t, m) \subseteq Pool(t)
           /\ u.my = t.my /\ u.peer = t.peer /\ u.tie = t.tie /\ u.cookie = t.cookie
           /\ u.rx = t.rx /\ u.next = t.next
<1>0. /\ t \in Tcb /\ t.inflight \subseteq Chunk /\ t.rtx \subseteq Chunk /\ t.cwnd \in Nat
      /\ t.err \in Nat
  BY TcbFields DEF GoodTcb
<1> DEFINE w == u.cwnd
           e == u.err
           i == t.inflight \ AckedBy(t, m)
           r == t.rtx \ AckedBy(t, m)
<1>1. u = [t EXCEPT !.inflight = i, !.rtx = r, !.cwnd = w, !.err = e]
  BY <1>0 DEF HandledSack, Tcb
<1>2. w \in Nat /\ e \in Nat
  BY <1>0 DEF HandledSack, Tcb
<1>3. i \in SUBSET Chunk /\ r \in SUBSET Chunk /\ i \subseteq Pool(t) /\ r \subseteq Pool(t)
  BY <1>0 DEF Pool
<1> HIDE DEF w, e, i, r
<1>4. /\ u \in Tcb /\ u.my = t.my /\ u.peer = t.peer /\ u.tie = t.tie
      /\ u.cookie = t.cookie /\ u.rx = t.rx /\ u.next = t.next
      /\ u.inflight = i /\ u.rtx = r
  BY <1>0, <1>1, <1>2, <1>3 DEF Tcb
<1>5. AckedBy(t, m) \subseteq Pool(t)
  BY DEF AckedBy, Pool
<1> QED BY <1>3, <1>4, <1>5, SmallerTcb

LEMMA NackedEffect ==
    ASSUME NEW t, GoodTcb(t), NEW u, u = Nacked(t)
    PROVE  /\ GoodTcb(u) /\ Pool(u) = Pool(t)
           /\ u.my = t.my /\ u.peer = t.peer /\ u.tie = t.tie /\ u.cookie = t.cookie
           /\ u.rx = t.rx /\ u.next = t.next
<1>0. /\ t \in Tcb /\ t.inflight \subseteq Chunk /\ t.rtx \subseteq Chunk /\ t.err \in Nat
  BY TcbFields DEF GoodTcb
<1>1. /\ u \in Tcb /\ u.my = t.my /\ u.peer = t.peer /\ u.tie = t.tie
      /\ u.cookie = t.cookie /\ u.rx = t.rx /\ u.next = t.next
      /\ u.inflight = {} /\ u.rtx = t.rtx \cup t.inflight
  <2> DEFINE e == t.err + 1
             r == t.rtx \cup t.inflight
             i == {}
             w == 1
  <2>1. u = [t EXCEPT !.err = e, !.cwnd = w, !.inflight = i, !.rtx = r]
    BY <1>0 DEF Nacked, Tcb
  <2>2. /\ e \in Nat /\ r \in SUBSET Chunk /\ r = t.rtx \cup t.inflight
        /\ i \in SUBSET Chunk /\ i = {} /\ w \in Nat
    BY <1>0
  <2> HIDE DEF e, r, i, w
  <2>3. u \in Tcb
    BY <1>0, <2>1, <2>2 DEF Tcb
  <2>4. /\ u.my = t.my /\ u.peer = t.peer /\ u.tie = t.tie /\ u.cookie = t.cookie
        /\ u.rx = t.rx /\ u.next = t.next /\ u.inflight = i /\ u.rtx = r
    BY <1>0, <2>1 DEF Tcb
  <2> QED BY <2>2, <2>3, <2>4
<1>2. Pool(u) = Pool(t)
  BY <1>1 DEF Pool
<1>3. GoodTcb(u)
  BY <1>1, SmallerTcb DEF Pool
<1> QED BY <1>1, <1>2, <1>3

LEMMA WithCookieEffect ==
    ASSUME NEW t, GoodTcb(t), NEW c \in Cookie \cup {NoCookie},
           NEW u, u = [t EXCEPT !.cookie = c]
    PROVE  /\ GoodTcb(u) /\ Pool(u) = Pool(t) /\ u.cookie = c
           /\ u.my = t.my /\ u.peer = t.peer /\ u.tie = t.tie
           /\ u.rx = t.rx /\ u.next = t.next
<1>1. /\ u \in Tcb /\ u.cookie = c /\ u.my = t.my /\ u.peer = t.peer /\ u.tie = t.tie
      /\ u.rx = t.rx /\ u.next = t.next /\ u.inflight = t.inflight /\ u.rtx = t.rtx
  BY DEF Tcb, GoodTcb
<1> QED BY <1>1 DEF GoodTcb, Pool

-----------------------------------------------------------------------------
(* The invariant: types, good TCBs, and timers that match the state *)

TimerType == [TimerIds -> Nat \cup {Stopped}]

\* TimersMatchState, for a socket in state s with TCB t and timers tm.
Matches(s, t, tm) ==
    /\ t # NoTcb <=> s \notin {"Closed", "CookieWait"}
    /\ tm["t1_init"] # Stopped <=> s = "CookieWait"
    /\ tm["t1_cookie"] # Stopped <=> s = "CookieEchoed"
    /\ s = "CookieEchoed" => t.cookie # NoCookie
    /\ s \in {"ShutdownSent", "ShutdownAckSent"} => tm["t2_shutdown"] # Stopped
    /\ tm["t2_shutdown"] # Stopped => t # NoTcb

SocketOK(s, t, tm, q) ==
    /\ s \in State /\ tm \in TimerType /\ q \in Seq(Nat)
    /\ t # NoTcb => GoodTcb(t)
    /\ Matches(s, t, tm)

Inv ==
    /\ TypeOK
    /\ \A x \in Peers : SocketOK(state[x], tcb[x], timer[x], sendq[x])

LEMMA InvMatches == Inv => TimersMatchState
<1> SUFFICES ASSUME Inv, NEW p \in Peers
             PROVE  /\ HasTcb(p) <=> state[p] \notin {"Closed", "CookieWait"}
                    /\ "t1_init" \in Running(p) <=> state[p] = "CookieWait"
                    /\ "t1_cookie" \in Running(p) <=> state[p] = "CookieEchoed"
                    /\ state[p] = "CookieEchoed" => tcb[p].cookie # NoCookie
                    /\ state[p] \in {"ShutdownSent", "ShutdownAckSent"}
                         => "t2_shutdown" \in Running(p)
                    /\ "t2_shutdown" \in Running(p) => HasTcb(p)
  BY DEF TimersMatchState
<1> QED BY DEF Inv, SocketOK, Matches, HasTcb, Running, TimerIds

\* What Inv says of a socket.
LEMMA SocketFacts ==
    ASSUME Inv, NEW p \in Peers
    PROVE  /\ state[p] \in State /\ timer[p] \in TimerType /\ sendq[p] \in Seq(Nat)
           /\ tag[p] \in Tag /\ Draw(p) \in Tag /\ Zero(p) \in Tag
           /\ drawn[p] \in Nat /\ sends[p] \in Nat /\ connects[p] \in Nat
           /\ HasTcb(p) => GoodTcb(tcb[p]) /\ tcb[p] \in Tcb /\ tcb[p].peer \in Tag
           /\ Matches(state[p], tcb[p], timer[p])
           /\ Other(p) \in Peers /\ Other(p) # p
BY TcbFields, TagValues, TwoPeers DEF Inv, SocketOK, TypeOK, HasTcb, GoodTcb

\* A step of socket p keeps Inv when its new values are right.
LEMMA Assemble ==
    ASSUME Inv, NEW p \in Peers, NEW s, NEW t, NEW tm, NEW q,
           state' = [state EXCEPT ![p] = s], tcb' = [tcb EXCEPT ![p] = t],
           timer' = [timer EXCEPT ![p] = tm], sendq' = [sendq EXCEPT ![p] = q],
           SocketOK(s, t, tm, q),
           tag' \in [Peers -> Tag], drawn' \in [Peers -> Nat],
           connects' \in [Peers -> Nat], sends' \in [Peers -> Nat],
           net' \subseteq Packet,
           delivered' \in [Peers -> SUBSET Nat], acked' \in [Peers -> SUBSET Nat],
           hadTcb' \in [Peers -> SUBSET (Tag \X Tag)]
    PROVE  Inv'
<1>1. t \in Tcb \cup {NoTcb}
  BY DEF SocketOK, GoodTcb
<1>2. /\ state' \in [Peers -> State] /\ timer' \in [Peers -> TimerType]
      /\ sendq' \in [Peers -> Seq(Nat)]
  BY DEF Inv, TypeOK, SocketOK, TimerType
<1>3. tcb' \in [Peers -> Tcb \cup {NoTcb}]
  BY <1>1 DEF Inv, TypeOK
<1>4. TypeOK'
  BY <1>2, <1>3 DEF TypeOK, TimerType
<1>5. ASSUME NEW x \in Peers
      PROVE  SocketOK(state'[x], tcb'[x], timer'[x], sendq'[x])
  <2>1. CASE x = p
    <3>1. state'[x] = s /\ tcb'[x] = t /\ timer'[x] = tm /\ sendq'[x] = q
      BY <2>1 DEF Inv, TypeOK
    <3> QED BY <3>1
  <2>2. CASE x # p
    <3>1. /\ state'[x] = state[x] /\ tcb'[x] = tcb[x]
          /\ timer'[x] = timer[x] /\ sendq'[x] = sendq[x]
      BY <2>2 DEF Inv, TypeOK
    <3> QED BY <3>1 DEF Inv
  <2> QED BY <2>1, <2>2
<1> QED BY <1>4, <1>5 DEF Inv

LEMMA Types ==
    ASSUME Inv
    PROVE  /\ tag \in [Peers -> Tag] /\ drawn \in [Peers -> Nat]
           /\ connects \in [Peers -> Nat] /\ sends \in [Peers -> Nat]
           /\ net \subseteq Packet
           /\ delivered \in [Peers -> SUBSET Nat] /\ acked \in [Peers -> SUBSET Nat]
           /\ hadTcb \in [Peers -> SUBSET (Tag \X Tag)]
BY DEF Inv, TypeOK

\* A variable that does not change is one that is set to its value.
LEMMA NoChange ==
    ASSUME NEW S, NEW f \in [Peers -> S], NEW p \in Peers
    PROVE  f = [f EXCEPT ![p] = f[p]]
OBVIOUS

LEMMA SetType ==
    ASSUME NEW S, NEW f \in [Peers -> S], NEW p \in Peers, NEW v \in S
    PROVE  Set(f, p, v) \in [Peers -> S]
BY DEF Set

\* The counters and tags of a socket.
LEMMA CounterTypes ==
    ASSUME Inv, NEW p \in Peers
    PROVE  /\ tag \in [Peers -> Tag] /\ Set(tag, p, Draw(p)) \in [Peers -> Tag]
           /\ drawn \in [Peers -> Nat] /\ Set(drawn, p, drawn[p] + 1) \in [Peers -> Nat]
           /\ Set(drawn, p, drawn[p]) \in [Peers -> Nat]
           /\ connects \in [Peers -> Nat]
           /\ Set(connects, p, connects[p] + 1) \in [Peers -> Nat]
           /\ sends \in [Peers -> Nat] /\ Set(sends, p, sends[p] + 1) \in [Peers -> Nat]
<1>1. /\ drawn[p] + 1 \in Nat /\ connects[p] + 1 \in Nat /\ sends[p] + 1 \in Nat
      /\ drawn[p] \in Nat /\ Draw(p) \in Tag
  BY SocketFacts
<1> QED BY <1>1, SetType DEF Inv, TypeOK

LEMMA Unchanging ==
    ASSUME Inv, NEW p \in Peers
    PROVE  /\ state = [state EXCEPT ![p] = state[p]]
           /\ tcb = [tcb EXCEPT ![p] = tcb[p]]
           /\ timer = [timer EXCEPT ![p] = timer[p]]
           /\ sendq = [sendq EXCEPT ![p] = sendq[p]]
BY DEF Inv, TypeOK

\* Matches when nothing or only the TCB of a socket with a TCB changes.
LEMMA MatchesTcb ==
    ASSUME NEW s, NEW t, NEW tm, Matches(s, t, tm), t # NoTcb,
           NEW u, u # NoTcb, u.cookie = t.cookie
    PROVE  Matches(s, u, tm)
BY DEF Matches

LEMMA CloseInv ==
    ASSUME Inv, NEW p \in Peers, NEW packets, packets \subseteq Packet,
           InternalClose(p, packets)
    PROVE  Inv'
<1>1. /\ state' = [state EXCEPT ![p] = "Closed"] /\ tcb' = [tcb EXCEPT ![p] = NoTcb]
      /\ timer' = [timer EXCEPT ![p] = NoTimer]
      /\ sendq' = [sendq EXCEPT ![p] = sendq[p]] /\ net' \subseteq Packet
      /\ UNCHANGED <<tag, drawn, connects, sends, delivered, acked, hadTcb>>
  BY Unchanging DEF InternalClose, Set, clientVars
<1>2. SocketOK("Closed", NoTcb, NoTimer, sendq[p])
  <2>1. NoTimer \in TimerType /\ \A i \in TimerIds : NoTimer[i] = Stopped
    BY DEF NoTimer, TimerType
  <2>2. Matches("Closed", NoTcb, NoTimer)
    BY <2>1 DEF Matches, TimerIds
  <2> QED BY <2>1, <2>2, SocketFacts DEF SocketOK, State
<1> QED BY <1>1, <1>2, Types, Assemble

LEMMA AbortPacket ==
    ASSUME Inv, NEW p \in Peers, HasTcb(p)
    PROVE  Abort(p) \in Packet /\ \A x \in {"SHUTDOWN", "SHUTDOWN_ACK"} :
                                     Control(x, Other(p), tcb[p].peer) \in Packet
BY SocketFacts, PacketTypes DEF Abort

LEMMA SetTimer ==
    ASSUME NEW tm \in TimerType, NEW i \in TimerIds, NEW v \in Nat \cup {Stopped}
    PROVE  /\ [tm EXCEPT ![i] = v] \in TimerType /\ [tm EXCEPT ![i] = v][i] = v
           /\ \A j \in TimerIds \ {i} : [tm EXCEPT ![i] = v][j] = tm[j]
BY DEF TimerType

LEMMA TimerValues ==
    /\ 0 \in Nat \cup {Stopped} /\ 0 # Stopped /\ Stopped \in Nat \cup {Stopped}
    /\ \A n \in Nat \cup {Stopped} : n # Stopped => n + 1 \in Nat /\ n + 1 # Stopped
    /\ "t1_init" \in TimerIds /\ "t1_cookie" \in TimerIds /\ "t2_shutdown" \in TimerIds
BY DEF Stopped, TimerIds

-----------------------------------------------------------------------------
(* Steps of the client keep the invariant *)

LEMMA ConnectInv ==
    ASSUME Inv, NEW p \in Peers, Connect(p)
    PROVE  Inv'
<1> DEFINE tm == [timer[p] EXCEPT !["t1_init"] = 0]
<1>1. /\ state' = [state EXCEPT ![p] = "CookieWait"] /\ tcb' = [tcb EXCEPT ![p] = tcb[p]]
      /\ timer' = [timer EXCEPT ![p] = tm] /\ sendq' = [sendq EXCEPT ![p] = sendq[p]]
  BY Unchanging DEF Connect, Set
<1>2. SocketOK("CookieWait", tcb[p], tm, sendq[p])
  <2>1. tm \in TimerType /\ tm["t1_init"] = 0 /\ \A j \in TimerIds \ {"t1_init"} : tm[j] = timer[p][j]
    BY SocketFacts, SetTimer, TimerValues
  <2> HIDE DEF tm
  <2>2. Matches("Closed", tcb[p], timer[p])
    BY SocketFacts DEF Connect
  <2>3. Matches("CookieWait", tcb[p], tm)
    BY <2>1, <2>2, TimerValues DEF Matches, TimerIds
  <2> QED BY <2>1, <2>2, <2>3, SocketFacts DEF SocketOK, State, Matches
<1>3. net' \subseteq Packet
  BY SocketFacts, PacketTypes DEF Connect, Inv, TypeOK
<1>4. /\ tag' \in [Peers -> Tag] /\ drawn' \in [Peers -> Nat]
      /\ connects' \in [Peers -> Nat] /\ sends' \in [Peers -> Nat]
  BY CounterTypes DEF Connect
<1>5. /\ delivered' \in [Peers -> SUBSET Nat] /\ acked' \in [Peers -> SUBSET Nat]
      /\ hadTcb' \in [Peers -> SUBSET (Tag \X Tag)]
  BY DEF Connect, Inv, TypeOK, clientVars
<1> HIDE DEF tm
<1> QED BY <1>1, <1>2, <1>3, <1>4, <1>5, Assemble

LEMMA ShutdownInv ==
    ASSUME Inv, NEW p \in Peers, Shutdown(p)
    PROVE  Inv'
<1> DEFINE stopped == [timer[p] EXCEPT !["t1_init"] = Stopped, !["t1_cookie"] = Stopped]
           sent == [stopped EXCEPT !["t2_shutdown"] = 0]
<1>0. /\ HasTcb(p) /\ tcb[p] # NoTcb /\ GoodTcb(tcb[p]) /\ sendq[p] \in Seq(Nat)
      /\ tcb' = [tcb EXCEPT ![p] = tcb[p]] /\ sendq' = [sendq EXCEPT ![p] = sendq[p]]
      /\ UNCHANGED <<tag, drawn, connects, sends, delivered, acked, hadTcb>>
  BY SocketFacts, Unchanging DEF Shutdown, clientVars, HasTcb
<1>1. /\ stopped \in TimerType /\ stopped["t1_init"] = Stopped
      /\ stopped["t1_cookie"] = Stopped
  BY SocketFacts, TimerValues DEF TimerType
<1>2. /\ sent \in TimerType /\ sent["t1_init"] = Stopped /\ sent["t1_cookie"] = Stopped
      /\ sent["t2_shutdown"] # Stopped
  <2> HIDE DEF stopped
  <2> QED BY <1>1, SetTimer, TimerValues
<1> HIDE DEF sent
<1>3. CASE /\ state' = Set(state, p, "ShutdownSent") /\ timer' = Set(timer, p, sent)
           /\ net' = net \cup {Control("SHUTDOWN", Other(p), tcb[p].peer)}
  <2>1. SocketOK("ShutdownSent", tcb[p], sent, sendq[p])
    BY <1>0, <1>2 DEF SocketOK, Matches, State
  <2>2. net' \subseteq Packet
    BY <1>3, <1>0, Types, AbortPacket
  <2> QED BY <1>0, <1>3, <2>1, <2>2, Types, Assemble DEF Set
<1> HIDE DEF stopped
<1>4. CASE /\ state' = Set(state, p, "ShutdownPending") /\ timer' = Set(timer, p, stopped)
           /\ net' = net
  <2>1. SocketOK("ShutdownPending", tcb[p], stopped, sendq[p])
    BY <1>0, <1>1 DEF SocketOK, Matches, State
  <2> QED BY <1>0, <1>4, <2>1, Types, Assemble DEF Set
<1> QED BY <1>3, <1>4 DEF Shutdown, stopped, sent

LEMMA UnconnectedInv ==
    ASSUME Inv, NEW p \in Peers, ShutdownUnconnected(p)
    PROVE  Inv'
BY CloseInv DEF ShutdownUnconnected, Inv, TypeOK

LEMMA ClientCloseInv ==
    ASSUME Inv, NEW p \in Peers, Close(p)
    PROVE  Inv'
<1>1. net \cup (IF HasTcb(p) THEN {Abort(p)} ELSE {}) \subseteq Packet
  BY Types, AbortPacket
<1> QED BY <1>1, CloseInv DEF Close

\* A socket sends what it may, and otherwise only its timers change.
LEMMA TransmitInv ==
    ASSUME Inv, NEW p \in Peers, NEW t, NEW s, NEW tm \in TimerType,
           NEW sent, Transmission(p, t, sent), NEW packets, packets \subseteq Packet,
           Transmit(p, sent, packets), state' = [state EXCEPT ![p] = s],
           timer' = [timer EXCEPT ![p] = tm], s \in State, GoodTcb(t), Matches(s, t, tm),
           tag' \in [Peers -> Tag], drawn' \in [Peers -> Nat],
           connects' \in [Peers -> Nat], sends' \in [Peers -> Nat],
           delivered' \in [Peers -> SUBSET Nat], acked' \in [Peers -> SUBSET Nat],
           hadTcb' \in [Peers -> SUBSET (Tag \X Tag)]
    PROVE  Inv'
<1>1. /\ tcb' = [tcb EXCEPT ![p] = sent.tcb] /\ sendq' = [sendq EXCEPT ![p] = sent.q]
      /\ net' \subseteq Packet
  BY DEF Transmit, Transmission, Set
<1>2. t # NoTcb /\ sent.tcb # NoTcb /\ sent.tcb.cookie = t.cookie
  BY TcbFields DEF Transmission, GoodTcb, SameButChunks
<1>3. SocketOK(s, sent.tcb, tm, sent.q)
  BY <1>2, MatchesTcb DEF Transmission, SocketOK
<1> QED BY <1>1, <1>3, Assemble

LEMMA SendInv ==
    ASSUME Inv, NEW p \in Peers, Send(p)
    PROVE  Inv'
<1> DEFINE q == Append(sendq[p], sends[p] + 1)
<1>1. q \in Seq(Nat)
  BY SocketFacts, AppendProperties
<1>2. /\ state' = [state EXCEPT ![p] = state[p]] /\ timer' = [timer EXCEPT ![p] = timer[p]]
      /\ tag' \in [Peers -> Tag] /\ drawn' \in [Peers -> Nat]
      /\ connects' \in [Peers -> Nat] /\ sends' \in [Peers -> Nat]
      /\ delivered' \in [Peers -> SUBSET Nat] /\ acked' \in [Peers -> SUBSET Nat]
      /\ hadTcb' \in [Peers -> SUBSET (Tag \X Tag)]
  BY Unchanging, CounterTypes DEF Send, clientVars, Inv, TypeOK
<1>3. CASE HasTcb(p)
  <2>1. Transmit(p, SendBufferedPackets(p, tcb[p], q), net)
    BY <1>3 DEF Send
  <2>2. Transmission(p, tcb[p], SendBufferedPackets(p, tcb[p], q))
    BY <1>1, <1>3, SocketFacts, SendBufferedEffect
  <2> HIDE DEF q
  <2> QED BY <1>2, <1>3, <2>1, <2>2, SocketFacts, Types, TransmitInv
<1>4. CASE ~HasTcb(p)
  <2>1. /\ tcb' = [tcb EXCEPT ![p] = tcb[p]] /\ sendq' = [sendq EXCEPT ![p] = q] /\ net' = net
    BY <1>4, Unchanging DEF Send, Set
  <2> HIDE DEF q
  <2>2. SocketOK(state[p], tcb[p], timer[p], q)
    BY <1>1, <1>4, SocketFacts DEF SocketOK, HasTcb
  <2> QED BY <1>2, <2>1, <2>2, Types, Assemble
<1> QED BY <1>3, <1>4

-----------------------------------------------------------------------------
(* Timers keep the invariant *)

LEMMA ExpireEffect ==
    ASSUME Inv, NEW p \in Peers, NEW i \in TimerIds, timer[p][i] # Stopped, Expire(p, i),
           NEW t, Matches(state[p], t, timer[p])
    PROVE  \E tm \in TimerType : timer' = [timer EXCEPT ![p] = tm] /\ Matches(state[p], t, tm)
<1> DEFINE v == timer[p][i] + 1
           tm == [timer[p] EXCEPT ![i] = v]
<1>1. v \in Nat /\ v # Stopped
  BY SocketFacts, TimerValues DEF TimerType
<1> HIDE DEF v
<1>2. /\ tm \in TimerType /\ tm[i] # Stopped
      /\ \A j \in TimerIds \ {i} : tm[j] = timer[p][j]
  BY <1>1, SocketFacts, SetTimer
<1>3. timer' = [timer EXCEPT ![p] = tm]
  BY DEF Expire, v
<1> HIDE DEF tm
<1>4. Matches(state[p], t, tm)
  <2>1. \A j \in TimerIds : tm[j] # Stopped <=> timer[p][j] # Stopped
    BY <1>2
  <2> QED BY <2>1, TimerValues DEF Matches
<1> QED BY <1>2, <1>3, <1>4

LEMMA InitTimerInv ==
    ASSUME Inv, NEW p \in Peers, OnInitTimerExpiry(p)
    PROVE  Inv'
<1>1. CASE /\ Expire(p, "t1_init") /\ net' = net \cup {Init_(Other(p), tag[p])}
           /\ UNCHANGED <<state, tcb, tag, sendq, drawn, connects, sends, clientVars>>
  <2>1. PICK tm \in TimerType : /\ timer' = [timer EXCEPT ![p] = tm]
                                /\ Matches(state[p], tcb[p], tm)
    BY <1>1, SocketFacts, ExpireEffect, TimerValues DEF OnInitTimerExpiry
  <2>2. SocketOK(state[p], tcb[p], tm, sendq[p])
    BY <2>1, SocketFacts DEF SocketOK, HasTcb
  <2>3. net' \subseteq Packet
    BY <1>1, SocketFacts, PacketTypes DEF Inv, TypeOK
  <2>4. /\ state' = [state EXCEPT ![p] = state[p]] /\ tcb' = [tcb EXCEPT ![p] = tcb[p]]
        /\ sendq' = [sendq EXCEPT ![p] = sendq[p]]
        /\ UNCHANGED <<tag, drawn, connects, sends, delivered, acked, hadTcb>>
    BY <1>1, Unchanging DEF clientVars
  <2> QED BY <2>1, <2>2, <2>3, <2>4, Types, Assemble
<1>2. CASE InternalClose(p, net)
  BY <1>2, Types, CloseInv
<1> QED BY <1>1, <1>2 DEF OnInitTimerExpiry

LEMMA CookieTimerInv ==
    ASSUME Inv, NEW p \in Peers, OnCookieTimerExpiry(p)
    PROVE  Inv'
<1>1. CASE /\ Expire(p, "t1_cookie")
           /\ Transmit(p, SendBufferedPackets(p, tcb[p], sendq[p]), net)
           /\ UNCHANGED <<state, tag, drawn, connects, sends, clientVars>>
  <2>1. PICK tm \in TimerType : /\ timer' = [timer EXCEPT ![p] = tm]
                                /\ Matches(state[p], tcb[p], tm)
    BY <1>1, SocketFacts, ExpireEffect, TimerValues DEF OnCookieTimerExpiry
  <2>2. HasTcb(p)
    BY SocketFacts DEF OnCookieTimerExpiry, Matches, HasTcb
  <2>3. Transmission(p, tcb[p], SendBufferedPackets(p, tcb[p], sendq[p]))
    BY <2>2, SocketFacts, SendBufferedEffect
  <2> QED BY <1>1, <2>1, <2>2, <2>3, SocketFacts, Unchanging, Types, TransmitInv
          DEF clientVars
<1>2. CASE InternalClose(p, net)
  BY <1>2, Types, CloseInv
<1> QED BY <1>1, <1>2 DEF OnCookieTimerExpiry

LEMMA ShutdownTimerInv ==
    ASSUME Inv, NEW p \in Peers, OnShutdownTimerExpiry(p)
    PROVE  Inv'
<1>0. HasTcb(p)
  BY SocketFacts DEF OnShutdownTimerExpiry, Matches, HasTcb
<1>1. CASE /\ Expire(p, "t2_shutdown")
           /\ net' = net \cup {Control("SHUTDOWN", Other(p), tcb[p].peer)}
           /\ UNCHANGED <<state, tcb, tag, sendq, drawn, connects, sends, clientVars>>
  <2>1. PICK tm \in TimerType : /\ timer' = [timer EXCEPT ![p] = tm]
                                /\ Matches(state[p], tcb[p], tm)
    BY <1>1, SocketFacts, ExpireEffect, TimerValues DEF OnShutdownTimerExpiry
  <2>2. SocketOK(state[p], tcb[p], tm, sendq[p])
    BY <2>1, SocketFacts DEF SocketOK, HasTcb
  <2>3. net' \subseteq Packet
    BY <1>0, <1>1, Types, AbortPacket
  <2>4. /\ state' = [state EXCEPT ![p] = state[p]] /\ tcb' = [tcb EXCEPT ![p] = tcb[p]]
        /\ sendq' = [sendq EXCEPT ![p] = sendq[p]]
        /\ UNCHANGED <<tag, drawn, connects, sends, delivered, acked, hadTcb>>
    BY <1>1, Unchanging DEF clientVars
  <2> QED BY <2>1, <2>2, <2>3, <2>4, Types, Assemble
<1>2. CASE InternalClose(p, net \cup {Abort(p)})
  BY <1>0, <1>2, AbortPacket, Types, CloseInv
<1> QED BY <1>1, <1>2 DEF OnShutdownTimerExpiry

LEMMA RtxTimerInv ==
    ASSUME Inv, NEW p \in Peers, OnRtxTimerExpiry(p)
    PROVE  Inv'
<1>0. HasTcb(p)
  BY DEF OnRtxTimerExpiry
<1>1. CASE /\ Transmit(p, SendBufferedPackets(p, Nacked(tcb[p]), sendq[p]), net)
           /\ UNCHANGED <<state, tag, timer, drawn, connects, sends, clientVars>>
  <2> DEFINE t == Nacked(tcb[p])
  <2>1. GoodTcb(t) /\ t.cookie = tcb[p].cookie
    BY <1>0, SocketFacts, NackedEffect
  <2>2. t # NoTcb
    BY <2>1, TcbFields DEF GoodTcb
  <2>3. Matches(state[p], t, timer[p])
    <3> HIDE DEF t
    <3> QED BY <1>0, <2>1, <2>2, SocketFacts, MatchesTcb DEF HasTcb
  <2>4. Transmission(p, t, SendBufferedPackets(p, t, sendq[p]))
    BY <2>1, SocketFacts, SendBufferedEffect
  <2> HIDE DEF t
  <2>5. Transmit(p, SendBufferedPackets(p, t, sendq[p]), net)
    BY <1>1 DEF t
  <2> QED BY <1>1, <2>1, <2>3, <2>4, <2>5, SocketFacts, Unchanging, Types, TransmitInv
          DEF clientVars
<1>2. CASE InternalClose(p, net \cup {Abort(p)})
  BY <1>0, <1>2, AbortPacket, Types, CloseInv
<1> QED BY <1>1, <1>2 DEF OnRtxTimerExpiry

-----------------------------------------------------------------------------
(* Received packets keep the invariant *)

LEMMA NothingEffect ==
    ASSUME Inv, NEW p \in Peers, HasTcb(p)
    PROVE  Transmission(p, tcb[p], Nothing(p))
BY SocketFacts, SameButChunksReflexive DEF Nothing, Transmission

LEMMA ObserveInv ==
    ASSUME Inv, NEW p \in Peers, NEW t, NEW s, NEW tm \in TimerType,
           NEW m, m.data \subseteq Chunk,
           NEW sent, Transmission(p, t, sent), NEW packets, packets \subseteq Packet,
           Observe(p, m, sent, packets), state' = [state EXCEPT ![p] = s],
           timer' = [timer EXCEPT ![p] = tm], s \in State, GoodTcb(t), Matches(s, t, tm),
           tag' \in [Peers -> Tag], drawn' \in [Peers -> Nat],
           connects' \in [Peers -> Nat], sends' \in [Peers -> Nat],
           acked' \in [Peers -> SUBSET Nat], hadTcb' \in [Peers -> SUBSET (Tag \X Tag)]
    PROVE  Inv'
<1> DEFINE u == ObserveData(sent.tcb, m.data)
<1>1. GoodTcb(sent.tcb) /\ sent.tcb # NoTcb /\ t # NoTcb /\ sent.tcb.cookie = t.cookie
  BY TcbFields DEF Transmission, GoodTcb, SameButChunks
<1>2. /\ GoodTcb(u) /\ u = [sent.tcb EXCEPT !.rx = u.rx]
      /\ NewMessages(sent.tcb, m.data) \subseteq Nat
      /\ SackFor(p, sent.tcb, m.data) \subseteq Packet
  BY <1>1, ObserveEffect
<1>3. /\ tcb' = [tcb EXCEPT ![p] = u] /\ sendq' = [sendq EXCEPT ![p] = sent.q]
      /\ delivered' = Set(delivered, p, delivered[p] \cup NewMessages(sent.tcb, m.data))
      /\ net' = Rest(m) \cup packets \cup sent.packets \cup SackFor(p, sent.tcb, m.data)
  BY <1>1 DEF Observe, Set
<1> HIDE DEF u
<1>4. u # NoTcb /\ u.cookie = t.cookie
  BY <1>1, <1>2, TcbFields DEF GoodTcb, Tcb
<1>5. SocketOK(s, u, tm, sent.q)
  BY <1>1, <1>2, <1>4, MatchesTcb DEF SocketOK, Transmission
<1>6. net' \subseteq Packet
  BY <1>2, <1>3 DEF Rest, Transmission, Inv, TypeOK
<1>7. delivered' \in [Peers -> SUBSET Nat]
  <2>1. delivered \in [Peers -> SUBSET Nat] /\ delivered[p] \cup NewMessages(sent.tcb, m.data) \in SUBSET Nat
    BY <1>2 DEF Inv, TypeOK
  <2> QED BY <2>1, <1>3, SetType
<1> QED BY <1>3, <1>5, <1>6, <1>7, Assemble

\* The answer of a socket that shuts down to DATA.
LEMMA ShutdownAnswer ==
    ASSUME Inv, NEW p \in Peers, HasTcb(p), NEW m, NEW tm, tm = TimerOnPacketReceived(p, m)
    PROVE  /\ ShutdownOnPacketReceived(p, m) \subseteq Packet
           /\ tm \in TimerType /\ tm["t1_init"] = timer[p]["t1_init"]
           /\ tm["t1_cookie"] = timer[p]["t1_cookie"]
           /\ timer[p]["t2_shutdown"] # Stopped => tm["t2_shutdown"] # Stopped
           /\ Matches(state[p], tcb[p], tm)
<1>1. ShutdownOnPacketReceived(p, m) \subseteq Packet
  BY AbortPacket DEF ShutdownOnPacketReceived
<1>2. /\ timer[p] \in TimerType /\ Matches(state[p], tcb[p], timer[p])
  BY SocketFacts
<1>3. CASE tm = timer[p]
  BY <1>1, <1>2, <1>3
<1>4. CASE tm = [timer[p] EXCEPT !["t2_shutdown"] = 0]
  <2>1. /\ tm \in TimerType /\ tm["t2_shutdown"] = 0 /\ tm["t1_init"] = timer[p]["t1_init"]
        /\ tm["t1_cookie"] = timer[p]["t1_cookie"]
    BY <1>2, <1>4, SetTimer, TimerValues
  <2>2. Matches(state[p], tcb[p], tm)
    BY <2>1, <1>2, TimerValues DEF Matches, HasTcb
  <2> QED BY <1>1, <2>1, <2>2, TimerValues
<1> QED BY <1>3, <1>4 DEF TimerOnPacketReceived

LEMMA AnswerInitInv ==
    ASSUME Inv, NEW p \in Peers, NEW m \in net, m.itag \in Tag, NEW my \in Tag, NEW tie \in Tag,
           AnswerInit(p, m, my, tie)
    PROVE  Inv'
<1>1. /\ state' = [state EXCEPT ![p] = state[p]] /\ tcb' = [tcb EXCEPT ![p] = tcb[p]]
      /\ timer' = [timer EXCEPT ![p] = timer[p]] /\ sendq' = [sendq EXCEPT ![p] = sendq[p]]
      /\ UNCHANGED <<tag, connects, sends, delivered, acked, hadTcb>>
  BY Unchanging DEF AnswerInit, clientVars
<1>2. SocketOK(state[p], tcb[p], timer[p], sendq[p])
  BY DEF Inv
<1>3. drawn' \in [Peers -> Nat]
  BY CounterTypes DEF AnswerInit
<1>4. [my |-> my, peer |-> m.itag, tie |-> tie] \in Cookie
  BY DEF Cookie
<1>5. net' \subseteq Packet
  BY <1>4, Types, SocketFacts, PacketTypes DEF AnswerInit, Rest
<1> QED BY <1>1, <1>2, <1>3, <1>5, Types, Assemble

LEMMA HandleInitInv ==
    ASSUME Inv, NEW p \in Peers, NEW m \in net, HandleInit(p, m)
    PROVE  Inv'
<1>0. m.itag \in Tag
  BY PacketFields, Types DEF HandleInit
<1>1. CASE /\ state[p] = "ShutdownAckSent"
           /\ net' = Rest(m) \cup {Control("SHUTDOWN_ACK", Other(p), tcb[p].peer)}
           /\ timer' = [timer EXCEPT ![p]["t2_shutdown"] = 0]
           /\ UNCHANGED <<state, tcb, tag, sendq, drawn, connects, sends, clientVars>>
  <2> DEFINE tm == [timer[p] EXCEPT !["t2_shutdown"] = 0]
  <2>1. HasTcb(p)
    BY <1>1, SocketFacts DEF Matches, HasTcb
  <2>2. /\ tm \in TimerType /\ tm["t2_shutdown"] = 0 /\ tm["t1_init"] = timer[p]["t1_init"]
        /\ tm["t1_cookie"] = timer[p]["t1_cookie"]
    BY SocketFacts, SetTimer, TimerValues
  <2>3. timer' = [timer EXCEPT ![p] = tm]
    BY <1>1
  <2> HIDE DEF tm
  <2>4. SocketOK(state[p], tcb[p], tm, sendq[p])
    BY <2>1, <2>2, SocketFacts, TimerValues DEF SocketOK, Matches, HasTcb
  <2>5. net' \subseteq Packet
    BY <1>1, <2>1, Types, AbortPacket DEF Rest
  <2>6. /\ state' = [state EXCEPT ![p] = state[p]] /\ tcb' = [tcb EXCEPT ![p] = tcb[p]]
        /\ sendq' = [sendq EXCEPT ![p] = sendq[p]]
        /\ UNCHANGED <<tag, drawn, connects, sends, delivered, acked, hadTcb>>
    BY <1>1, Unchanging DEF clientVars
  <2> QED BY <2>3, <2>4, <2>5, <2>6, Types, Assemble
<1>2. CASE AnswerInit(p, m, Draw(p), Zero(p)) \/ AnswerInit(p, m, tag[p], Zero(p))
  BY <1>0, <1>2, SocketFacts, AnswerInitInv
<1>3. CASE /\ state[p] \in {"Established", "ShutdownPending", "ShutdownSent", "ShutdownReceived"}
           /\ AnswerInit(p, m, Draw(p), tcb[p].tie)
  <2>1. HasTcb(p)
    BY <1>3, SocketFacts DEF Matches, HasTcb
  <2>2. tcb[p].tie \in Tag
    BY <2>1, SocketFacts, TcbFields
  <2> QED BY <1>0, <1>3, <2>2, SocketFacts, AnswerInitInv
<1> QED BY <1>1, <1>2, <1>3 DEF HandleInit

\* Histories of TCBs.
LEMMA HadTcbType ==
    ASSUME Inv, NEW p \in Peers, NEW my \in Tag, NEW peer \in Tag
    PROVE  Set(hadTcb, p, hadTcb[p] \cup {<<my, peer>>}) \in [Peers -> SUBSET (Tag \X Tag)]
<1>1. hadTcb[p] \cup {<<my, peer>>} \in SUBSET (Tag \X Tag)
  BY Types
<1> QED BY <1>1, Types, SetType

LEMMA HandleInitAckInv ==
    ASSUME Inv, NEW p \in Peers, NEW m \in net, HandleInitAck(p, m)
    PROVE  Inv'
<1> DEFINE n == NewTcb(tag[p], m.itag, Draw(p))
           t == [n EXCEPT !.cookie = m.cookie]
           tm == [timer[p] EXCEPT !["t1_init"] = Stopped, !["t1_cookie"] = 0]
<1>0. m.itag \in Tag /\ m.cookie \in Cookie /\ state[p] = "CookieWait"
  BY PacketFields, Types DEF HandleInitAck, IsExpectedInitAck
<1>1. GoodTcb(t) /\ t.cookie = m.cookie
  <2>1. GoodTcb(n)
    BY <1>0, SocketFacts, NewTcbGood
  <2> HIDE DEF n
  <2> QED BY <1>0, <2>1, WithCookieEffect
<1>2. t # NoTcb /\ t.cookie # NoCookie
  BY <1>0, <1>1, TcbFields, NullAssumption DEF GoodTcb
<1>3. Transmit(p, SendBufferedPackets(p, t, sendq[p]), Rest(m))
  BY DEF HandleInitAck
<1> HIDE DEF t, n
<1>4. Transmission(p, t, SendBufferedPackets(p, t, sendq[p]))
  BY <1>1, SocketFacts, SendBufferedEffect
<1>5. /\ tm \in TimerType /\ tm["t1_init"] = Stopped /\ tm["t1_cookie"] # Stopped
      /\ tm["t2_shutdown"] = timer[p]["t2_shutdown"]
  BY SocketFacts, TimerValues DEF TimerType
<1>6. timer' = [timer EXCEPT ![p] = tm]
  <2>1. timer' = [timer EXCEPT ![p]["t1_init"] = Stopped, ![p]["t1_cookie"] = 0]
    BY DEF HandleInitAck
  <2> QED BY <2>1 DEF Inv, TypeOK
<1> HIDE DEF tm
<1>7. Matches("CookieEchoed", t, tm)
  BY <1>0, <1>2, <1>5, SocketFacts DEF Matches
<1>8. /\ state' = [state EXCEPT ![p] = "CookieEchoed"] /\ drawn' \in [Peers -> Nat]
      /\ hadTcb' \in [Peers -> SUBSET (Tag \X Tag)]
      /\ UNCHANGED <<tag, connects, sends, delivered, acked>>
  BY <1>0, CounterTypes, SocketFacts, HadTcbType DEF HandleInitAck, Set
<1>9. Rest(m) \subseteq Packet /\ "CookieEchoed" \in State
  BY Types DEF Rest, State
<1> QED BY <1>1, <1>3, <1>4, <1>5, <1>6, <1>7, <1>8, <1>9, Types, TransmitInv

LEMMA AcceptCookieInv ==
    ASSUME Inv, NEW p \in Peers, NEW m \in net, m.type = "COOKIE_ECHO",
           NEW t, t = NoTcb \/ (t = tcb[p] /\ HasTcb(p)), AcceptCookie(p, m, t)
    PROVE  Inv'
<1> DEFINE new == NewTcb(m.cookie.my, m.cookie.peer, Draw(p))
           kept == IF state[p] = "Established" THEN t ELSE [t EXCEPT !.cookie = NoCookie]
           now == IF t = NoTcb THEN new ELSE kept
           tm == StoppedT1(p, m)
<1>0. m.data \subseteq Chunk /\ m.cookie.my \in Tag /\ m.cookie.peer \in Tag
  BY PacketFields, Types DEF Cookie
<1>1. GoodTcb(now)
  <2>1. CASE t = NoTcb
    BY <2>1, <1>0, SocketFacts, NewTcbGood
  <2>2. CASE t # NoTcb
    BY <2>2, SocketFacts, WithCookieEffect DEF HasTcb
  <2> QED BY <2>1, <2>2
<1>2. Observe(p, m, SendCookieAck(p, now, sendq[p]), ShutdownOnPacketReceived(p, m))
  BY DEF AcceptCookie
<1>3. hadTcb' = Set(hadTcb, p, hadTcb[p] \cup {<<now.my, now.peer>>})
  BY DEF AcceptCookie
<1> HIDE DEF now
<1>4. Transmission(p, now, SendCookieAck(p, now, sendq[p]))
  BY <1>1, SocketFacts, SendCookieAckEffect
<1>5. now # NoTcb /\ now.my \in Tag /\ now.peer \in Tag
  BY <1>1, TcbFields DEF GoodTcb
<1>6. /\ TimerOnPacketReceived(p, m) \in TimerType
      /\ ShutdownOnPacketReceived(p, m) \subseteq Packet
  <2>1. CASE HasTcb(p)
    BY <2>1, ShutdownAnswer
  <2>2. CASE ~HasTcb(p)
    <3>1. state[p] # "ShutdownSent"
      BY <2>2, SocketFacts DEF Matches, HasTcb
    <3> QED BY <3>1, SocketFacts DEF TimerOnPacketReceived, ShutdownOnPacketReceived
  <2> QED BY <2>1, <2>2
<1>7. tm \in TimerType /\ tm["t1_init"] = Stopped /\ tm["t1_cookie"] = Stopped
  BY <1>6, TimerValues DEF StoppedT1, TimerType
<1> HIDE DEF tm
<1>8. Matches("Established", now, tm)
  BY <1>5, <1>7 DEF Matches
<1>9. /\ state' = [state EXCEPT ![p] = "Established"] /\ timer' = [timer EXCEPT ![p] = tm]
      /\ UNCHANGED <<tag, connects, sends, acked>>
  BY DEF AcceptCookie, Set, tm
<1>10. drawn' \in [Peers -> Nat] /\ hadTcb' \in [Peers -> SUBSET (Tag \X Tag)]
  <2>1. hadTcb' \in [Peers -> SUBSET (Tag \X Tag)]
    BY <1>3, <1>5, HadTcbType
  <2>2. drawn' = Set(drawn, p, IF t = NoTcb THEN drawn[p] + 1 ELSE drawn[p])
    BY DEF AcceptCookie
  <2>3. drawn' = Set(drawn, p, drawn[p] + 1) \/ drawn' = Set(drawn, p, drawn[p])
    BY <2>2
  <2> QED BY <2>1, <2>3, CounterTypes
<1>11. "Established" \in State
  BY DEF State
<1> QED BY <1>0, <1>1, <1>2, <1>4, <1>6, <1>7, <1>8, <1>9, <1>10, <1>11, Types, ObserveInv

\* DATA that is observed while nothing else happens.
LEMMA OnlyObserveInv ==
    ASSUME Inv, NEW p \in Peers, HasTcb(p), NEW m \in net, m.data \subseteq Chunk,
           NEW packets, packets \subseteq Packet,
           Observe(p, m, Nothing(p), ShutdownOnPacketReceived(p, m) \cup packets),
           timer' = Set(timer, p, TimerOnPacketReceived(p, m)),
           UNCHANGED <<state, tag, drawn, connects, sends, acked, hadTcb>>
    PROVE  Inv'
<1> DEFINE tm == TimerOnPacketReceived(p, m)
<1>1. /\ ShutdownOnPacketReceived(p, m) \subseteq Packet /\ tm \in TimerType
      /\ Matches(state[p], tcb[p], tm)
  BY ShutdownAnswer
<1>2. timer' = [timer EXCEPT ![p] = tm] /\ state' = [state EXCEPT ![p] = state[p]]
  BY Unchanging DEF Set
<1> HIDE DEF tm
<1>3. ShutdownOnPacketReceived(p, m) \cup packets \subseteq Packet
  BY <1>1
<1>4. /\ tag' \in [Peers -> Tag] /\ drawn' \in [Peers -> Nat]
      /\ connects' \in [Peers -> Nat] /\ sends' \in [Peers -> Nat]
      /\ acked' \in [Peers -> SUBSET Nat] /\ hadTcb' \in [Peers -> SUBSET (Tag \X Tag)]
  BY Types
<1> QED BY <1>1, <1>2, <1>3, <1>4, SocketFacts, NothingEffect, ObserveInv

LEMMA HandleCookieEchoInv ==
    ASSUME Inv, NEW p \in Peers, NEW m \in net, HandleCookieEcho(p, m)
    PROVE  Inv'
<1>0. /\ m.type = "COOKIE_ECHO" /\ m.data \subseteq Chunk /\ m.cookie.peer \in Tag
  BY PacketFields, Types DEF HandleCookieEcho, Cookie
<1>1. CASE AcceptCookie(p, m, NoTcb) \/ (HasTcb(p) /\ AcceptCookie(p, m, tcb[p]))
  BY <1>0, <1>1, AcceptCookieInv
<1>2. ASSUME HasTcb(p), NEW packets, packets \subseteq Packet, RejectCookie(p, m, packets)
      PROVE  Inv'
  BY <1>0, <1>2, OnlyObserveInv DEF RejectCookie
<1>3. {Control("SHUTDOWN_ACK", Other(p), m.cookie.peer)} \subseteq Packet
  BY <1>0, SocketFacts, PacketTypes
<1> QED BY <1>1, <1>2, <1>3 DEF HandleCookieEcho

LEMMA HandleCookieAckInv ==
    ASSUME Inv, NEW p \in Peers, NEW m \in net, HandleCookieAck(p, m)
    PROVE  Inv'
<1>0. m.data \subseteq Chunk /\ HasTcb(p)
  BY PacketFields, Types DEF HandleCookieAck, ForMe
<1>1. CASE state[p] = "CookieEchoed"
  <2> DEFINE t == [tcb[p] EXCEPT !.cookie = NoCookie]
             tm == [timer[p] EXCEPT !["t1_cookie"] = Stopped]
  <2>1. GoodTcb(t)
    BY <1>0, SocketFacts, WithCookieEffect
  <2> DEFINE none == {}
  <2>2. /\ Observe(p, m, SendBufferedPackets(p, t, sendq[p]), none)
        /\ state' = [state EXCEPT ![p] = "Established"] /\ timer' = [timer EXCEPT ![p] = tm]
        /\ UNCHANGED <<tag, drawn, connects, sends, acked, hadTcb>>
    BY <1>1 DEF HandleCookieAck, Set
  <2>3. /\ tm \in TimerType /\ tm["t1_cookie"] = Stopped
        /\ tm["t1_init"] = timer[p]["t1_init"] /\ tm["t2_shutdown"] = timer[p]["t2_shutdown"]
    BY SocketFacts, TimerValues DEF TimerType
  <2> HIDE DEF t, tm
  <2>4. Transmission(p, t, SendBufferedPackets(p, t, sendq[p]))
    BY <2>1, SocketFacts, SendBufferedEffect
  <2>5. t # NoTcb
    BY <2>1, TcbFields DEF GoodTcb
  <2>6. Matches("Established", t, tm) /\ "Established" \in State
    BY <1>1, <2>3, <2>5, SocketFacts DEF Matches, State
  <2>7. /\ tag' \in [Peers -> Tag] /\ drawn' \in [Peers -> Nat]
        /\ connects' \in [Peers -> Nat] /\ sends' \in [Peers -> Nat]
        /\ acked' \in [Peers -> SUBSET Nat] /\ hadTcb' \in [Peers -> SUBSET (Tag \X Tag)]
    BY <2>2, Types
  <2>8. none \subseteq Packet
    OBVIOUS
  <2> HIDE DEF none
  <2> QED BY <1>0, <2>1, <2>2, <2>3, <2>4, <2>6, <2>7, <2>8, ObserveInv
<1>2. CASE state[p] # "CookieEchoed"
  <2> DEFINE none == {}
  <2>1. /\ Observe(p, m, Nothing(p), ShutdownOnPacketReceived(p, m) \cup none)
        /\ timer' = Set(timer, p, TimerOnPacketReceived(p, m))
        /\ UNCHANGED <<state, tag, drawn, connects, sends, acked, hadTcb>>
    <3>1. ShutdownOnPacketReceived(p, m) \cup none = ShutdownOnPacketReceived(p, m)
      OBVIOUS
    <3> QED BY <1>2, <3>1 DEF HandleCookieAck
  <2>2. none \subseteq Packet
    OBVIOUS
  <2> HIDE DEF none
  <2> QED BY <1>0, <2>1, <2>2, OnlyObserveInv
<1> QED BY <1>1, <1>2

LEMMA HandleDataInv ==
    ASSUME Inv, NEW p \in Peers, NEW m \in net, HandleData(p, m)
    PROVE  Inv'
<1>0. m.data \subseteq Chunk /\ HasTcb(p)
  BY PacketFields, Types DEF HandleData, ForMe
<1> DEFINE none == {}
<1>1. ShutdownOnPacketReceived(p, m) \cup none = ShutdownOnPacketReceived(p, m)
  OBVIOUS
<1>2. /\ Observe(p, m, Nothing(p), ShutdownOnPacketReceived(p, m) \cup none)
      /\ timer' = Set(timer, p, TimerOnPacketReceived(p, m))
      /\ UNCHANGED <<state, tag, drawn, connects, sends, acked, hadTcb>>
  BY <1>1 DEF HandleData
<1>3. none \subseteq Packet
  OBVIOUS
<1> HIDE DEF none
<1> QED BY <1>0, <1>2, <1>3, OnlyObserveInv

LEMMA MaybeSendShutdownEffect ==
    ASSUME Inv, NEW p \in Peers, NEW s \in State, NEW t, GoodTcb(t),
           Matches(s, t, timer[p]), NEW down, down = MaybeSendShutdownOrAck(p, s, t)
    PROVE  /\ down.state \in State /\ down.timer \in TimerType
           /\ Matches(down.state, t, down.timer)
           /\ down.packets \subseteq Packet
           /\ \A m \in down.packets : m.type \in {"SHUTDOWN", "SHUTDOWN_ACK"}
           /\ down.state = s \/ down.state \in {"ShutdownSent", "ShutdownAckSent"}
<1> DEFINE tm == [timer[p] EXCEPT !["t2_shutdown"] = 0]
<1>0. t.peer \in Tag /\ t # NoTcb /\ Other(p) \in Peers /\ timer[p] \in TimerType
  BY TcbFields, SocketFacts DEF GoodTcb
<1>1. /\ tm \in TimerType /\ tm["t2_shutdown"] # Stopped
      /\ tm["t1_init"] = timer[p]["t1_init"] /\ tm["t1_cookie"] = timer[p]["t1_cookie"]
  BY <1>0, SetTimer, TimerValues
<1> HIDE DEF tm
<1>2. CASE t.inflight = {} /\ s = "ShutdownPending"
  <2>1. /\ down.state = "ShutdownSent" /\ down.timer = tm
        /\ down.packets = {Control("SHUTDOWN", Other(p), t.peer)}
    BY <1>2 DEF MaybeSendShutdownOrAck, tm
  <2>2. Matches("ShutdownSent", t, tm)
    BY <1>0, <1>1, <1>2 DEF Matches
  <2>3. down.packets \subseteq Packet
    BY <2>1, <1>0, PacketTypes
  <2> QED BY <1>1, <2>1, <2>2, <2>3 DEF State, Control
<1>3. CASE t.inflight = {} /\ s = "ShutdownReceived"
  <2>1. /\ down.state = "ShutdownAckSent" /\ down.timer = tm
        /\ down.packets = {Control("SHUTDOWN_ACK", Other(p), t.peer)}
    BY <1>3 DEF MaybeSendShutdownOrAck, tm
  <2>2. Matches("ShutdownAckSent", t, tm)
    BY <1>0, <1>1, <1>3 DEF Matches
  <2>3. down.packets \subseteq Packet
    BY <2>1, <1>0, PacketTypes
  <2> QED BY <1>1, <2>1, <2>2, <2>3 DEF State, Control
<1>4. CASE ~(t.inflight = {} /\ s \in {"ShutdownPending", "ShutdownReceived"})
  <2>1. down.state = s /\ down.timer = timer[p] /\ down.packets = {}
    BY <1>4 DEF MaybeSendShutdownOrAck
  <2> QED BY <1>0, <2>1
<1> QED BY <1>2, <1>3, <1>4

LEMMA HandleSackInv ==
    ASSUME Inv, NEW p \in Peers, NEW m \in net, HandleSack(p, m)
    PROVE  Inv'
<1> DEFINE t == HandledSack(tcb[p], m)
           down == MaybeSendShutdownOrAck(p, state[p], t)
<1>0. HasTcb(p) /\ tcb[p] # NoTcb
  BY DEF HandleSack, ForMe, HasTcb
<1>1. GoodTcb(t) /\ t.cookie = tcb[p].cookie /\ AckedBy(tcb[p], m) \subseteq Pool(tcb[p])
  BY <1>0, SocketFacts, HandledSackEffect
<1>2. /\ state' = [state EXCEPT ![p] = down.state] /\ timer' = [timer EXCEPT ![p] = down.timer]
      /\ Transmit(p, SendBufferedPackets(p, t, sendq[p]), Rest(m) \cup down.packets)
      /\ acked' = Set(acked, p, acked[p] \cup {c.msg : c \in AckedBy(tcb[p], m)})
      /\ UNCHANGED <<tag, drawn, connects, sends, delivered, hadTcb>>
  BY DEF HandleSack, Set
<1> HIDE DEF t
<1>3. t # NoTcb
  BY <1>1, TcbFields DEF GoodTcb
<1>4. Matches(state[p], t, timer[p])
  BY <1>0, <1>1, <1>3, SocketFacts, MatchesTcb
<1>5. /\ down.state \in State /\ down.timer \in TimerType
      /\ Matches(down.state, t, down.timer) /\ down.packets \subseteq Packet
  BY <1>1, <1>4, SocketFacts, MaybeSendShutdownEffect
<1> HIDE DEF down
<1>6. Rest(m) \cup down.packets \subseteq Packet
  BY <1>5, Types DEF Rest
<1>7. Transmission(p, t, SendBufferedPackets(p, t, sendq[p]))
  BY <1>1, SocketFacts, SendBufferedEffect
<1>8. acked' \in [Peers -> SUBSET Nat]
  <2>1. Pool(tcb[p]) \subseteq Chunk
    BY <1>0, SocketFacts, TcbFields DEF Pool
  <2>2. acked[p] \cup {c.msg : c \in AckedBy(tcb[p], m)} \in SUBSET Nat
    BY <1>1, <2>1, Types DEF Chunk
  <2> QED BY <1>2, <2>2, Types, SetType
<1> QED BY <1>1, <1>2, <1>5, <1>6, <1>7, <1>8, Types, TransmitInv

LEMMA HandleShutdownInv ==
    ASSUME Inv, NEW p \in Peers, NEW m \in net, HandleShutdown(p, m)
    PROVE  Inv'
<1>0. /\ HasTcb(p) /\ tcb[p] # NoTcb /\ GoodTcb(tcb[p]) /\ sendq[p] \in Seq(Nat)
      /\ tcb' = [tcb EXCEPT ![p] = tcb[p]] /\ sendq' = [sendq EXCEPT ![p] = sendq[p]]
      /\ UNCHANGED <<tag, drawn, connects, sends, delivered, acked, hadTcb>>
  BY SocketFacts, Unchanging DEF HandleShutdown, ForMe, HasTcb, clientVars
<1>1. CASE /\ state[p] = "ShutdownSent" /\ state' = Set(state, p, "ShutdownAckSent")
           /\ timer' = [timer EXCEPT ![p]["t2_shutdown"] = 0]
           /\ net' = Rest(m) \cup {Control("SHUTDOWN_ACK", Other(p), tcb[p].peer)}
  <2> DEFINE tm == [timer[p] EXCEPT !["t2_shutdown"] = 0]
  <2>1. /\ tm \in TimerType /\ tm["t2_shutdown"] # Stopped
        /\ tm["t1_init"] = timer[p]["t1_init"] /\ tm["t1_cookie"] = timer[p]["t1_cookie"]
    BY SocketFacts, SetTimer, TimerValues
  <2>2. timer' = [timer EXCEPT ![p] = tm] /\ state' = [state EXCEPT ![p] = "ShutdownAckSent"]
    BY <1>1 DEF Set
  <2> HIDE DEF tm
  <2>3. Matches("ShutdownAckSent", tcb[p], tm)
    BY <1>0, <1>1, <2>1, SocketFacts DEF Matches
  <2>4. SocketOK("ShutdownAckSent", tcb[p], tm, sendq[p])
    BY <1>0, <2>1, <2>3 DEF SocketOK, State
  <2>5. net' \subseteq Packet
    BY <1>0, <1>1, Types, AbortPacket DEF Rest
  <2> QED BY <1>0, <2>2, <2>4, <2>5, Types, Assemble
<1>2. CASE /\ state[p] \in {"Established", "ShutdownPending"}
           /\ LET down == MaybeSendShutdownOrAck(p, "ShutdownReceived", tcb[p])
              IN  /\ state' = Set(state, p, down.state)
                  /\ timer' = Set(timer, p, down.timer)
                  /\ net' = Rest(m) \cup down.packets
  <2> DEFINE down == MaybeSendShutdownOrAck(p, "ShutdownReceived", tcb[p])
  <2>1. /\ state' = [state EXCEPT ![p] = down.state]
        /\ timer' = [timer EXCEPT ![p] = down.timer]
        /\ net' = Rest(m) \cup down.packets
    BY <1>2 DEF Set
  <2>2. Matches("ShutdownReceived", tcb[p], timer[p]) /\ "ShutdownReceived" \in State
    BY <1>0, <1>2, SocketFacts DEF Matches, State
  <2>3. /\ down.state \in State /\ down.timer \in TimerType
        /\ Matches(down.state, tcb[p], down.timer) /\ down.packets \subseteq Packet
    BY <1>0, <2>2, MaybeSendShutdownEffect
  <2> HIDE DEF down
  <2>4. SocketOK(down.state, tcb[p], down.timer, sendq[p])
    BY <1>0, <2>3 DEF SocketOK
  <2>5. net' \subseteq Packet
    BY <2>1, <2>3, Types DEF Rest
  <2> QED BY <1>0, <2>1, <2>4, <2>5, Types, Assemble
<1> QED BY <1>1, <1>2 DEF HandleShutdown

LEMMA HandleShutdownAckInv ==
    ASSUME Inv, NEW p \in Peers, NEW m \in net, HandleShutdownAck(p, m)
    PROVE  Inv'
<1>0. HasTcb(p) /\ m.vtag \in Tag
  BY PacketFields, Types DEF HandleShutdownAck, ForMe
<1>1. /\ Rest(m) \cup {ShutdownComplete(Other(p), tcb[p].peer, FALSE)} \subseteq Packet
      /\ Rest(m) \cup {ShutdownComplete(Other(p), m.vtag, TRUE)} \subseteq Packet
  BY <1>0, SocketFacts, Types, PacketTypes DEF Rest
<1>2. CASE InternalClose(p, Rest(m) \cup {ShutdownComplete(Other(p), tcb[p].peer, FALSE)})
  BY <1>1, <1>2, CloseInv
<1>3. CASE /\ net' = Rest(m) \cup {ShutdownComplete(Other(p), m.vtag, TRUE)}
           /\ UNCHANGED <<socketVars, clientVars>>
  BY <1>1, <1>3 DEF Inv, TypeOK, socketVars, clientVars
<1> QED BY <1>2, <1>3 DEF HandleShutdownAck

LEMMA HandleEndInv ==
    ASSUME Inv, NEW p \in Peers, NEW m \in net,
           HandleShutdownComplete(p, m) \/ HandleAbort(p, m)
    PROVE  Inv'
<1>1. Rest(m) \subseteq Packet /\ InternalClose(p, Rest(m))
  BY Types DEF Rest, HandleShutdownComplete, HandleAbort
<1> QED BY <1>1, CloseInv

LEMMA InitInv == Init => Inv
<1> SUFFICES ASSUME Init PROVE Inv
  OBVIOUS
<1>1. NoTimer \in TimerType /\ \A i \in TimerIds : NoTimer[i] = Stopped
  BY DEF NoTimer, TimerType
<1>2. <<>> \in Seq(Nat)
  BY EmptySeq
<1>3. TypeOK
  BY <1>1, <1>2 DEF Init, TypeOK, State, Zero, Tag, TimerType
<1>4. \A x \in Peers : SocketOK("Closed", NoTcb, NoTimer, <<>>)
  BY <1>1, <1>2, TimerValues DEF SocketOK, Matches, State
<1>5. ASSUME NEW x \in Peers PROVE SocketOK(state[x], tcb[x], timer[x], sendq[x])
  <2>1. state[x] = "Closed" /\ tcb[x] = NoTcb /\ timer[x] = NoTimer /\ sendq[x] = <<>>
    BY DEF Init
  <2> QED BY <1>4, <2>1
<1> QED BY <1>3, <1>5 DEF Inv

LEMMA NextInv == Inv /\ [Next]_vars => Inv'
<1> SUFFICES ASSUME Inv, [Next]_vars PROVE Inv'
  OBVIOUS
<1>1. CASE UNCHANGED vars
  BY <1>1 DEF Inv, TypeOK, vars, socketVars, clientVars
<1>2. CASE Next
  <2>1. PICK p \in Peers :
          \/ Connect(p) \/ ShutdownUnconnected(p) \/ Shutdown(p) \/ Close(p)
          \/ Send(p)
          \/ OnInitTimerExpiry(p) \/ OnCookieTimerExpiry(p)
          \/ OnShutdownTimerExpiry(p) \/ OnRtxTimerExpiry(p)
          \/ Receive(p)
    BY <1>2 DEF Next
  <2>2. CASE Receive(p)
    <3>1. PICK m \in net : m.to = p /\ Handle(p, m)
      BY <2>2 DEF Receive
    <3> QED BY <3>1, HandleInitInv, HandleInitAckInv, HandleCookieEchoInv, HandleCookieAckInv,
               HandleDataInv, HandleSackInv, HandleShutdownInv, HandleShutdownAckInv,
               HandleEndInv DEF Handle
  <2> QED BY <2>1, <2>2, ConnectInv, UnconnectedInv, ShutdownInv, ClientCloseInv, SendInv,
             InitTimerInv, CookieTimerInv, ShutdownTimerInv, RtxTimerInv
<1> QED BY <1>1, <1>2

-----------------------------------------------------------------------------
(* Theorems *)

\* Types, for any number of connections, sends, retransmissions and lost packets.
THEOREM TypeCorrect == Spec => []TypeOK
<1>1. Inv => TypeOK
  BY DEF Inv
<1> QED BY <1>1, InitInv, NextInv, PTL DEF Spec

\* However calls, packets and timeouts interleave, a socket has the timer that
\* its state needs, no timer of an earlier phase, and a TCB when one is used.
THEOREM TimersAlwaysMatch == Spec => []TimersMatchState
<1> QED BY InvMatches, InitInv, NextInv, PTL DEF Spec

-----------------------------------------------------------------------------
(* Closing an established association *)

Handshake == {"INIT", "INIT_ACK", "COOKIE_ECHO", "COOKIE_ACK"}
InHandshake == {"CookieWait", "CookieEchoed"}
Closing == {"ShutdownAckSent", "Closed"}

\* The handshake is over for good, and a socket whose SHUTDOWN ACK is under way
\* waits for the answer or is closed.
Agreed ==
    /\ \A m \in net : m.type \notin Handshake
    /\ \A m \in net : m.type = "SHUTDOWN_ACK" => state[Other(m.to)] \in Closing
    /\ \A x \in Peers : /\ state[x] \notin InHandshake
                        /\ tcb[x] # NoTcb => tcb[x].cookie = NoCookie
                        /\ connects[x] >= MaxConnects[x]

\* What socket p may send when it enters state s.
MaySend(p, s, m) ==
    /\ m.type \notin Handshake
    /\ m.type = "SHUTDOWN_ACK" => m.to = Other(p) /\ s \in Closing
    /\ m.type = "SHUTDOWN_COMPLETE" /\ ~m.tbit => state[m.to] \in Closing

\* The condition that CloseIsAgreed puts on a step.
CompletesAgreed ==
    \A m \in net' \ net : (m.type = "SHUTDOWN_COMPLETE" /\ ~m.tbit) =>
        state[m.to] \in {"ShutdownAckSent", "Closed"}

LEMMA PlainMaySend ==
    ASSUME NEW p, NEW s, NEW m, m.type \in {"DATA", "SACK", "SHUTDOWN", "ABORT"}
    PROVE  MaySend(p, s, m)
BY DEF MaySend, Handshake

LEMMA AgreedStep ==
    ASSUME Inv, Agreed, NEW p \in Peers, NEW s, NEW t,
           state' = [state EXCEPT ![p] = s], tcb' = [tcb EXCEPT ![p] = t],
           UNCHANGED connects,
           s \notin InHandshake, state[p] \in Closing => s \in Closing,
           t # NoTcb => t.cookie = NoCookie,
           \A m \in net' \ net : MaySend(p, s, m)
    PROVE  Agreed' /\ CompletesAgreed
<1>0. \A x \in Peers : /\ state'[x] = IF x = p THEN s ELSE state[x]
                       /\ tcb'[x] = IF x = p THEN t ELSE tcb[x]
  BY DEF Inv, TypeOK
<1>1. \A x \in Peers : state[x] \in Closing => state'[x] \in Closing
  BY <1>0
<1>2. ASSUME NEW m \in net'
      PROVE  /\ m.type \notin Handshake
             /\ m.type = "SHUTDOWN_ACK" => state'[Other(m.to)] \in Closing
  <2>1. CASE m \in net
    <3>1. m.to \in Peers /\ Other(m.to) \in Peers
      BY <2>1, Types, PacketFields, TwoPeers
    <3> QED BY <2>1, <3>1, <1>1 DEF Agreed
  <2>2. CASE m \notin net
    <3>1. MaySend(p, s, m)
      BY <2>2
    <3>2. Other(Other(p)) = p
      BY TwoPeers
    <3> QED BY <3>1, <3>2, <1>0 DEF MaySend
  <2> QED BY <2>1, <2>2
<1>3. \A x \in Peers : /\ state'[x] \notin InHandshake
                       /\ tcb'[x] # NoTcb => tcb'[x].cookie = NoCookie
                       /\ connects'[x] >= MaxConnects[x]
  BY <1>0 DEF Agreed
<1>4. CompletesAgreed
  BY DEF CompletesAgreed, MaySend, Closing
<1> QED BY <1>2, <1>3, <1>4 DEF Agreed

\* What holds of a socket with a TCB.
LEMMA AgreedFacts ==
    ASSUME Inv, Agreed, NEW p \in Peers
    PROVE  /\ state[p] \notin InHandshake
           /\ state = [state EXCEPT ![p] = state[p]] /\ tcb = [tcb EXCEPT ![p] = tcb[p]]
           /\ HasTcb(p) => /\ GoodTcb(tcb[p]) /\ tcb[p] # NoTcb
                           /\ tcb[p].cookie = NoCookie /\ state[p] # "Closed"
           /\ timer[p]["t1_init"] = Stopped /\ timer[p]["t1_cookie"] = Stopped
BY SocketFacts, Unchanging DEF Agreed, HasTcb, Matches, InHandshake

LEMMA CloseAgreed ==
    ASSUME Inv, Agreed, NEW p \in Peers, NEW packets, InternalClose(p, packets),
           \A m \in packets \ net : MaySend(p, "Closed", m)
    PROVE  Agreed' /\ CompletesAgreed
<1>1. /\ state' = [state EXCEPT ![p] = "Closed"] /\ tcb' = [tcb EXCEPT ![p] = NoTcb]
      /\ UNCHANGED connects /\ net' = packets
  BY DEF InternalClose, Set
<1> QED BY <1>1, AgreedStep DEF InHandshake, Closing

\* Buffered packets hold DATA when there is no COOKIE ECHO to send.
LEMMA OnlyDataIsSent ==
    ASSUME NEW p \in Peers, NEW t, GoodTcb(t), t.cookie = NoCookie, NEW q \in Seq(Nat),
           NEW sent, sent = SendBufferedPackets(p, t, q)
    PROVE  sent.tcb.cookie = NoCookie /\ \A m \in sent.packets : m.type = "DATA"
<1>1. Transmission(p, t, sent)
  BY SendBufferedEffect
<1>2. sent.tcb.cookie = NoCookie
  BY <1>1 DEF Transmission, SameButChunks
<1>3. \A m \in sent.packets : m.type = "DATA"
  BY DEF SendBufferedPackets, Data, Carrier
<1> QED BY <1>2, <1>3

LEMMA ClientAgreed ==
    ASSUME Inv, Agreed, NEW p \in Peers,
           Connect(p) \/ ShutdownUnconnected(p) \/ Shutdown(p) \/ Close(p) \/ Send(p)
    PROVE  Agreed' /\ CompletesAgreed
<1>1. CASE Connect(p)
  <2>1. connects[p] \in Nat /\ MaxConnects[p] \in Nat
    BY SocketFacts, BoundsAssumption
  <2> QED BY <1>1, <2>1 DEF Connect, Agreed
<1>2. CASE ShutdownUnconnected(p)
  BY <1>2, CloseAgreed DEF ShutdownUnconnected
<1>3. CASE Close(p)
  <2>1. \A m \in (net \cup (IF HasTcb(p) THEN {Abort(p)} ELSE {})) \ net : m.type = "ABORT"
    BY DEF Abort, Control
  <2> QED BY <1>3, <2>1, CloseAgreed, PlainMaySend DEF Close
<1>4. CASE Shutdown(p)
  <2>1. HasTcb(p) /\ state[p] \notin Closing /\ UNCHANGED <<tcb, connects>>
    BY <1>4, AgreedFacts DEF Shutdown, Closing
  <2>2. PICK s \in {"ShutdownSent", "ShutdownPending"} :
          /\ state' = [state EXCEPT ![p] = s]
          /\ \A m \in net' \ net : m.type = "SHUTDOWN"
    BY <1>4 DEF Shutdown, Set, Control
  <2>3. s \notin InHandshake
    BY <2>2 DEF InHandshake
  <2>4. \A m \in net' \ net : MaySend(p, s, m)
    BY <2>2, PlainMaySend
  <2> QED BY <2>1, <2>2, <2>3, <2>4, AgreedFacts, AgreedStep
<1>5. CASE Send(p)
  <2>0. UNCHANGED <<state, connects>> /\ sends[p] \in Nat /\ sendq[p] \in Seq(Nat)
    BY <1>5, SocketFacts DEF Send
  <2>1. Append(sendq[p], sends[p] + 1) \in Seq(Nat)
    BY <2>0, AppendProperties
  <2>2. CASE HasTcb(p)
    <3> DEFINE queue == Append(sendq[p], sends[p] + 1)
               sent == SendBufferedPackets(p, tcb[p], queue)
    <3>0. queue \in Seq(Nat) /\ GoodTcb(tcb[p]) /\ tcb[p].cookie = NoCookie
      BY <2>1, <2>2, AgreedFacts
    <3> HIDE DEF queue
    <3>1. sent.tcb.cookie = NoCookie /\ \A m \in sent.packets : m.type = "DATA"
      BY <3>0, OnlyDataIsSent
    <3>2. tcb' = [tcb EXCEPT ![p] = sent.tcb] /\ net' = net \cup sent.packets
      BY <1>5, <2>2 DEF Send, Transmit, Set, queue
    <3> HIDE DEF sent
    <3>3. \A m \in net' \ net : MaySend(p, state[p], m)
      BY <3>1, <3>2, PlainMaySend
    <3> QED BY <2>0, <3>1, <3>2, <3>3, AgreedFacts, AgreedStep
  <2>3. CASE ~HasTcb(p)
    <3>1. UNCHANGED <<tcb, net>>
      BY <1>5, <2>3 DEF Send
    <3> QED BY <2>0, <3>1 DEF Agreed, CompletesAgreed
  <2> QED BY <2>2, <2>3
<1> QED BY <1>1, <1>2, <1>3, <1>4, <1>5

LEMMA TimerAgreed ==
    ASSUME Inv, Agreed, NEW p \in Peers,
           \/ OnInitTimerExpiry(p) \/ OnCookieTimerExpiry(p)
           \/ OnShutdownTimerExpiry(p) \/ OnRtxTimerExpiry(p)
    PROVE  Agreed' /\ CompletesAgreed
<1>1. ~OnInitTimerExpiry(p) /\ ~OnCookieTimerExpiry(p)
  BY AgreedFacts DEF OnInitTimerExpiry, OnCookieTimerExpiry
<1>2. \A m \in (net \cup {Abort(p)}) \ net : MaySend(p, "Closed", m)
  <2>1. Abort(p).type = "ABORT"
    BY DEF Abort, Control
  <2> QED BY <2>1, PlainMaySend
<1>3. CASE InternalClose(p, net \cup {Abort(p)})
  BY <1>2, <1>3, CloseAgreed
<1>4. CASE /\ net' = net \cup {Control("SHUTDOWN", Other(p), tcb[p].peer)}
           /\ UNCHANGED <<state, tcb, connects>>
  <2>1. \A m \in net' \ net : m.type = "SHUTDOWN"
    BY <1>4 DEF Control
  <2>2. \A m \in net' \ net : MaySend(p, state[p], m)
    BY <2>1, PlainMaySend
  <2>3. tcb[p] # NoTcb => tcb[p].cookie = NoCookie
    BY DEF Agreed
  <2> QED BY <1>4, <2>2, <2>3, AgreedFacts, AgreedStep
<1>5. CASE /\ HasTcb(p) /\ UNCHANGED <<state, connects>>
           /\ Transmit(p, SendBufferedPackets(p, Nacked(tcb[p]), sendq[p]), net)
  <2> DEFINE t == Nacked(tcb[p])
             sent == SendBufferedPackets(p, t, sendq[p])
  <2>1. GoodTcb(t) /\ t.cookie = NoCookie
    BY <1>5, AgreedFacts, NackedEffect
  <2>2. sent.tcb.cookie = NoCookie /\ \A m \in sent.packets : m.type = "DATA"
    BY <2>1, SocketFacts, OnlyDataIsSent
  <2>3. tcb' = [tcb EXCEPT ![p] = sent.tcb] /\ net' = net \cup sent.packets
    BY <1>5 DEF Transmit, Set
  <2> HIDE DEF sent
  <2>4. \A m \in net' \ net : MaySend(p, state[p], m)
    BY <2>2, <2>3, PlainMaySend
  <2> QED BY <1>5, <2>2, <2>3, <2>4, AgreedFacts, AgreedStep
<1> QED BY <1>1, <1>3, <1>4, <1>5 DEF OnShutdownTimerExpiry, OnRtxTimerExpiry

LEMMA HandleDataAgreed ==
    ASSUME Inv, Agreed, NEW p \in Peers, NEW m \in net, HandleData(p, m)
    PROVE  Agreed' /\ CompletesAgreed
<1>1. /\ m.data \subseteq Chunk /\ HasTcb(p) /\ UNCHANGED <<state, connects>>
      /\ Observe(p, m, Nothing(p), ShutdownOnPacketReceived(p, m))
  BY Types, PacketFields DEF HandleData, ForMe
<1> DEFINE u == ObserveData(tcb[p], m.data)
<1>2. GoodTcb(tcb[p]) /\ tcb[p] # NoTcb /\ tcb[p].cookie = NoCookie
  BY <1>1, AgreedFacts
<1>3. u.cookie = NoCookie
  <2>1. u = [tcb[p] EXCEPT !.rx = u.rx] /\ tcb[p] \in Tcb
    BY <1>1, <1>2, ObserveEffect DEF GoodTcb
  <2> HIDE DEF u
  <2> QED BY <1>2, <2>1 DEF Tcb
<1>4. /\ tcb' = [tcb EXCEPT ![p] = u]
      /\ net' = Rest(m) \cup ShutdownOnPacketReceived(p, m) \cup {} \cup SackFor(p, tcb[p], m.data)
  BY <1>1, <1>2 DEF Observe, Nothing, Set
<1>5. \A x \in ShutdownOnPacketReceived(p, m) \cup SackFor(p, tcb[p], m.data) :
        x.type \in {"SHUTDOWN", "SACK"}
  BY DEF ShutdownOnPacketReceived, SackFor, Sack, Control
<1>6. \A x \in net' \ net : MaySend(p, state[p], x)
  <2>1. \A x \in net' \ net : x.type \in {"SHUTDOWN", "SACK"}
    BY <1>4, <1>5 DEF Rest
  <2> QED BY <2>1, PlainMaySend
<1> HIDE DEF u
<1> QED BY <1>1, <1>3, <1>4, <1>6, AgreedFacts, AgreedStep

\* The shutdown that goes on: what it sends, and that it does not go back.
LEMMA DownAgreed ==
    ASSUME NEW p \in Peers, NEW s \in State, NEW t,
           s \notin InHandshake, NEW down, down = MaybeSendShutdownOrAck(p, s, t)
    PROVE  /\ down.state \notin InHandshake /\ (s \in Closing => down.state \in Closing)
           /\ \A m \in down.packets : MaySend(p, down.state, m)
<1>1. CASE t.inflight = {} /\ s = "ShutdownPending"
  <2>1. /\ down.state = "ShutdownSent"
        /\ down.packets = {Control("SHUTDOWN", Other(p), t.peer)}
    BY <1>1 DEF MaybeSendShutdownOrAck
  <2> QED BY <1>1, <2>1, PlainMaySend DEF Control, InHandshake, Closing
<1>2. CASE t.inflight = {} /\ s = "ShutdownReceived"
  <2>1. /\ down.state = "ShutdownAckSent"
        /\ down.packets = {Control("SHUTDOWN_ACK", Other(p), t.peer)}
    BY <1>2 DEF MaybeSendShutdownOrAck
  <2> QED BY <1>2, <2>1 DEF Control, InHandshake, Closing, MaySend, Handshake
<1>3. CASE ~(t.inflight = {} /\ s \in {"ShutdownPending", "ShutdownReceived"})
  <2>1. down.state = s /\ down.packets = {}
    BY <1>3 DEF MaybeSendShutdownOrAck
  <2> QED BY <2>1
<1> QED BY <1>1, <1>2, <1>3

LEMMA HandleSackAgreed ==
    ASSUME Inv, Agreed, NEW p \in Peers, NEW m \in net, HandleSack(p, m)
    PROVE  Agreed' /\ CompletesAgreed
<1> DEFINE t == HandledSack(tcb[p], m)
           down == MaybeSendShutdownOrAck(p, state[p], t)
           sent == SendBufferedPackets(p, t, sendq[p])
<1>1. HasTcb(p) /\ UNCHANGED connects
  BY DEF HandleSack, ForMe
<1>2. GoodTcb(t) /\ t.cookie = NoCookie
  BY <1>1, AgreedFacts, HandledSackEffect
<1>3. /\ state' = [state EXCEPT ![p] = down.state]
      /\ tcb' = [tcb EXCEPT ![p] = sent.tcb]
      /\ net' = (Rest(m) \cup down.packets) \cup sent.packets
  BY DEF HandleSack, Transmit, Set
<1>4. sent.tcb.cookie = NoCookie /\ \A x \in sent.packets : x.type = "DATA"
  BY <1>2, SocketFacts, OnlyDataIsSent
<1>5. /\ down.state \notin InHandshake /\ (state[p] \in Closing => down.state \in Closing)
      /\ \A x \in down.packets : MaySend(p, down.state, x)
  BY AgreedFacts, SocketFacts, DownAgreed
<1> HIDE DEF sent, down
<1>6. \A x \in net' \ net : MaySend(p, down.state, x)
  BY <1>3, <1>4, <1>5, PlainMaySend DEF Rest
<1> QED BY <1>1, <1>3, <1>4, <1>5, <1>6, AgreedStep

LEMMA HandleShutdownAgreed ==
    ASSUME Inv, Agreed, NEW p \in Peers, NEW m \in net, HandleShutdown(p, m)
    PROVE  Agreed' /\ CompletesAgreed
<1>0. HasTcb(p) /\ UNCHANGED <<tcb, connects>> /\ state[p] \notin Closing
  BY DEF HandleShutdown, ForMe, Closing
<1>1. CASE /\ state' = Set(state, p, "ShutdownAckSent")
           /\ net' = Rest(m) \cup {Control("SHUTDOWN_ACK", Other(p), tcb[p].peer)}
  <2>1. \A x \in net' \ net : MaySend(p, "ShutdownAckSent", x)
    BY <1>1 DEF Rest, Control, MaySend, Handshake, Closing
  <2>2. state' = [state EXCEPT ![p] = "ShutdownAckSent"] /\ "ShutdownAckSent" \notin InHandshake
    BY <1>1 DEF Set, InHandshake
  <2> QED BY <1>0, <2>1, <2>2, AgreedFacts, AgreedStep
<1>2. CASE LET down == MaybeSendShutdownOrAck(p, "ShutdownReceived", tcb[p])
           IN  state' = Set(state, p, down.state) /\ net' = Rest(m) \cup down.packets
  <2> DEFINE down == MaybeSendShutdownOrAck(p, "ShutdownReceived", tcb[p])
  <2>1. state' = [state EXCEPT ![p] = down.state] /\ net' = Rest(m) \cup down.packets
    BY <1>2 DEF Set
  <2>2. /\ down.state \notin InHandshake
        /\ \A x \in down.packets : MaySend(p, down.state, x)
    <3>1. "ShutdownReceived" \in State /\ "ShutdownReceived" \notin InHandshake
      BY DEF State, InHandshake
    <3> QED BY <3>1, DownAgreed
  <2> HIDE DEF down
  <2>3. \A x \in net' \ net : MaySend(p, down.state, x)
    BY <2>1, <2>2 DEF Rest
  <2> QED BY <1>0, <2>1, <2>2, <2>3, AgreedFacts, AgreedStep
<1> QED BY <1>1, <1>2 DEF HandleShutdown

\* The sender of a SHUTDOWN ACK waits for its answer or is closed, which is what
\* SHUTDOWN COMPLETE relies on.
LEMMA HandleShutdownAckAgreed ==
    ASSUME Inv, Agreed, NEW p \in Peers, NEW m \in net, m.to = p, HandleShutdownAck(p, m)
    PROVE  Agreed' /\ CompletesAgreed
<1>0. state[Other(p)] \in Closing
  BY DEF Agreed, HandleShutdownAck
<1>1. CASE InternalClose(p, Rest(m) \cup {ShutdownComplete(Other(p), tcb[p].peer, FALSE)})
  <2>1. \A x \in (Rest(m) \cup {ShutdownComplete(Other(p), tcb[p].peer, FALSE)}) \ net :
          MaySend(p, "Closed", x)
    BY <1>0 DEF Rest, ShutdownComplete, MaySend, Handshake
  <2> QED BY <1>1, <2>1, CloseAgreed
<1>2. CASE /\ net' = Rest(m) \cup {ShutdownComplete(Other(p), m.vtag, TRUE)}
           /\ UNCHANGED <<socketVars, clientVars>>
  <2>1. \A x \in net' \ net : MaySend(p, state[p], x)
    BY <1>2 DEF Rest, ShutdownComplete, MaySend, Handshake
  <2>2. UNCHANGED <<state, tcb, connects>>
    BY <1>2 DEF socketVars
  <2>3. tcb[p] # NoTcb => tcb[p].cookie = NoCookie
    BY DEF Agreed
  <2> QED BY <2>1, <2>2, <2>3, AgreedFacts, AgreedStep
<1> QED BY <1>1, <1>2 DEF HandleShutdownAck

LEMMA AgreedNext ==
    ASSUME Inv, Agreed, [Next]_vars
    PROVE  Agreed' /\ CompletesAgreed
<1>1. CASE UNCHANGED vars
  BY <1>1 DEF Agreed, CompletesAgreed, vars, socketVars
<1>2. CASE Next
  <2>1. PICK p \in Peers :
          \/ Connect(p) \/ ShutdownUnconnected(p) \/ Shutdown(p) \/ Close(p)
          \/ Send(p)
          \/ OnInitTimerExpiry(p) \/ OnCookieTimerExpiry(p)
          \/ OnShutdownTimerExpiry(p) \/ OnRtxTimerExpiry(p)
          \/ Receive(p)
    BY <1>2 DEF Next
  <2>2. CASE Receive(p)
    <3>1. PICK m \in net : m.to = p /\ Handle(p, m)
      BY <2>2 DEF Receive
    <3>2. ~HandleInit(p, m) /\ ~HandleInitAck(p, m) /\ ~HandleCookieEcho(p, m) /\ ~HandleCookieAck(p, m)
      BY <3>1 DEF Agreed, Handshake, HandleInit, HandleInitAck, HandleCookieEcho, HandleCookieAck
    <3>3. CASE HandleShutdownComplete(p, m) \/ HandleAbort(p, m)
      <4>1. InternalClose(p, Rest(m)) /\ Rest(m) \ net = {}
        BY <3>3 DEF HandleShutdownComplete, HandleAbort, Rest
      <4> QED BY <4>1, CloseAgreed
    <3> QED BY <3>1, <3>2, <3>3, HandleDataAgreed, HandleSackAgreed, HandleShutdownAgreed,
               HandleShutdownAckAgreed DEF Handle
  <2> QED BY <2>1, <2>2, ClientAgreed, TimerAgreed
<1> QED BY <1>1, <1>2

\* The state after the handshake.
LEMMA EstablishedInv ==
    ASSUME NEW c \in Peers, InitEstablished(c),
           \A x \in Peers : MaxConnects[x] <= IF x = c THEN 1 ELSE 0
    PROVE  Inv /\ Agreed
<1> DEFINE New(x) == NewTcb(<<x, 1>>, <<Other(x), 1>>, <<x, 2>>)
<1>0. NoTimer \in TimerType /\ \A i \in TimerIds : NoTimer[i] = Stopped
  BY DEF NoTimer, TimerType
<1>1. \A x \in Peers : /\ <<x, 1>> \in Tag /\ <<Other(x), 1>> \in Tag /\ <<x, 2>> \in Tag
                       /\ Zero(x) \in Tag
  BY TwoPeers DEF Tag, Zero
<1>2. ASSUME NEW x \in Peers
      PROVE  GoodTcb(New(x)) /\ New(x) \in Tcb /\ New(x) # NoTcb /\ New(x).cookie = NoCookie
  <2>1. GoodTcb(New(x))
    BY <1>1, NewTcbGood
  <2> QED BY <2>1, TcbFields DEF GoodTcb, NewTcb
<1> HIDE DEF New
<1>3. <<>> \in Seq(Nat)
  BY EmptySeq
<1>4. ASSUME NEW x \in Peers
      PROVE  /\ state[x] = "Established" /\ tcb[x] = New(x) /\ timer[x] = NoTimer
             /\ sendq[x] = <<>> /\ connects[x] = IF x = c THEN 1 ELSE 0
  BY DEF InitEstablished, New
<1>5. /\ state \in [Peers -> State] /\ timer \in [Peers -> TimerType]
      /\ sendq \in [Peers -> Seq(Nat)] /\ drawn \in [Peers -> Nat]
      /\ connects \in [Peers -> Nat] /\ sends \in [Peers -> Nat] /\ net = {}
      /\ delivered \in [Peers -> SUBSET Nat] /\ acked \in [Peers -> SUBSET Nat]
  BY <1>0, <1>3 DEF InitEstablished, State
<1>6. tcb \in [Peers -> Tcb \cup {NoTcb}]
  BY <1>2 DEF InitEstablished, New
<1>7. tag \in [Peers -> Tag]
  BY <1>1 DEF InitEstablished
<1>8. hadTcb \in [Peers -> SUBSET (Tag \X Tag)]
  <2>1. ASSUME NEW x \in Peers PROVE {<<<<x, 1>>, <<Other(x), 1>>>>} \in SUBSET (Tag \X Tag)
    <3> DEFINE mine == <<x, 1>>
               theirs == <<Other(x), 1>>
    <3>1. mine \in Tag /\ theirs \in Tag
      BY <1>1
    <3> HIDE DEF mine, theirs
    <3>2. {<<mine, theirs>>} \in SUBSET (Tag \X Tag)
      BY <3>1
    <3> QED BY <3>2 DEF mine, theirs
  <2>2. hadTcb = [x \in Peers |-> {<<<<x, 1>>, <<Other(x), 1>>>>}]
    BY DEF InitEstablished
  <2> QED BY <2>1, <2>2
<1>9. TypeOK
  BY <1>5, <1>6, <1>7, <1>8 DEF TypeOK, TimerType
<1>10. ASSUME NEW x \in Peers PROVE SocketOK(state[x], tcb[x], timer[x], sendq[x])
  <2>1. Matches("Established", New(x), NoTimer)
    BY <1>0, <1>2 DEF Matches, TimerIds
  <2> QED BY <1>0, <1>2, <1>3, <1>4, <2>1 DEF SocketOK, State
<1>11. Agreed
  BY <1>2, <1>4, <1>5 DEF Agreed, InHandshake
<1> QED BY <1>9, <1>10, <1>11 DEF Inv

\* Once an association is established and its handshake is over, a socket that sends
\* SHUTDOWN COMPLETE (HandleShutdownAck) and forgets the association leaves no peer
\* behind that could still send, whatever is sent, lost, aborted or timed out before.
THEOREM ClosingIsAgreed ==
    ASSUME NEW c \in Peers, \A x \in Peers : MaxConnects[x] <= IF x = c THEN 1 ELSE 0
    PROVE  InitEstablished(c) /\ [][Next]_vars => CloseIsAgreed
<1>1. InitEstablished(c) => Inv /\ Agreed
  BY EstablishedInv
<1>2. Inv /\ Agreed /\ [Next]_vars => Agreed' /\ [CompletesAgreed]_vars
  BY AgreedNext
<1>3. [CompletesAgreed]_vars => [\A m \in net' \ net : (m.type = "SHUTDOWN_COMPLETE" /\ ~m.tbit) =>
                                   state[m.to] \in {"ShutdownAckSent", "Closed"}]_vars
  BY DEF CompletesAgreed
<1> QED BY <1>1, <1>2, <1>3, NextInv, PTL DEF CloseIsAgreed
=============================================================================
