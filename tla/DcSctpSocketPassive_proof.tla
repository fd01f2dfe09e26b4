---------------------- MODULE DcSctpSocketPassive_proof ----------------------
(***************************************************************************)
(* Proofs about DcSctpSocket when only one of the two sockets, q, calls    *)
(* Connect, however often: connection attempts do not collide.             *)
(***************************************************************************)
EXTENDS DcSctpSocket_proof

-----------------------------------------------------------------------------
(* Associations have two ends *)

\* The same association at the other end.
Mirrored(e) == <<e[2], e[1]>>

\* Every TCB is on record; what Other(q) had, q had mirrored; a tag of q stands
\* for one association and was drawn by q.
PairsOK(q) ==
    /\ \A p \in Peers : HasTcb(p) => <<tcb[p].my, tcb[p].peer>> \in hadTcb[p]
    /\ \A e \in hadTcb[Other(q)] : Mirrored(e) \in hadTcb[q]
    /\ \A e, f \in hadTcb[q] : e[1] = f[1] => e = f
    /\ \A e \in hadTcb[q] : e[1][1] = q /\ e[1][2] <= drawn[q]

\* The socket that connects keeps the cookie of its own association, waits with
\* a tag never used, and is established only if its peer has had the association.
ActiveOK(q) ==
    /\ HasTcb(q) /\ tcb[q].cookie # NoCookie =>
         tcb[q].cookie.my = tcb[q].peer /\ tcb[q].cookie.peer = tcb[q].my
    /\ tag[q][1] = q /\ tag[q][2] <= drawn[q]
    /\ state[q] = "CookieWait" => \A e \in hadTcb[q] : e[1] # tag[q]
    /\ state[q] = "Established" => <<tcb[q].peer, tcb[q].my>> \in hadTcb[Other(q)]

PassiveOK(p) ==
    /\ state[p] \notin {"CookieWait", "CookieEchoed"}
    /\ HasTcb(p) => tcb[p].cookie = NoCookie

\* The packets of the handshake.
PacketOK(q, m) ==
    /\ m.type = "INIT_ACK" => m.cookie.my = m.itag /\ m.cookie.peer = m.vtag
    /\ m.type = "COOKIE_ECHO" =>
         m.to = Other(q) /\ <<m.cookie.peer, m.cookie.my>> \in hadTcb[q]
    /\ m.type = "COOKIE_ACK" /\ m.to = q => \E e \in hadTcb[Other(q)] : e[2] = m.vtag

MirrorOK(q) ==
    /\ PairsOK(q) /\ ActiveOK(q) /\ PassiveOK(Other(q))
    /\ \A m \in net : PacketOK(q, m)

-----------------------------------------------------------------------------
(* What is acknowledged was delivered *)

Carriers == {"COOKIE_ECHO", "COOKIE_ACK", "DATA"}

\* Chunks on their way from q, and those that q may still send.
Carried(q) == UNION {m.data : m \in {k \in net : k.to = Other(q) /\ k.type \in Carriers}}
Afloat(q) == Carried(q) \cup (IF HasTcb(q) THEN Pool(tcb[q]) ELSE {})

\* The TSN n of the association in which q has tag b was given to a chunk.
Assigned(q, b, n) ==
    /\ \E e \in hadTcb[q] : e[1] = b
    /\ HasTcb(q) /\ tcb[q].my = b => n < tcb[q].next

\* The peer has received it: the message, if it can still be sent, is delivered.
Heard(q, b, n) ==
    /\ Assigned(q, b, n)
    /\ \A c \in Afloat(q) : c.base = b /\ c.n = n => c.msg \in delivered[Other(q)]

AckOK(q) ==
    /\ \A c \in Carried(q) : Assigned(q, c.base, c.n)
    /\ \A c, d \in Afloat(q) : c.base = d.base /\ c.n = d.n => c = d
    /\ HasTcb(Other(q)) => \A n \in tcb[Other(q)].rx : Heard(q, tcb[Other(q)].peer, n)
    /\ \A m \in net : m.type = "SACK" /\ m.to = q => \A n \in m.acked : Heard(q, m.base, n)
    /\ acked[q] \subseteq delivered[Other(q)]

-----------------------------------------------------------------------------
(* What most steps do *)

\* u is a later TCB of the association of t.
Continues(t, u) ==
    /\ u.my = t.my /\ u.peer = t.peer /\ u.cookie \in {t.cookie, NoCookie}
    /\ t.next <= u.next /\ OnlyFresh(t, u)

\* Packets that p sends in a step.
Issued(p, m) ==
    /\ m.to = Other(p)
    /\ m.type = "INIT_ACK" => m.cookie.my = m.itag /\ m.cookie.peer = m.vtag
    /\ m.type \in Carriers =>
         tcb'[p] # NoTcb /\ m.vtag = tcb'[p].peer /\ m.data \subseteq Pool(tcb'[p])
    /\ m.type = "COOKIE_ECHO" => tcb'[p].cookie # NoCookie /\ m.cookie = tcb'[p].cookie
    /\ m.type = "SACK" =>
         tcb'[p] # NoTcb /\ m.base = tcb'[p].peer /\ m.acked \subseteq tcb'[p].rx

\* TSNs that p has received after a step were received before or came in data
\* whose messages are delivered.
Took(p, old) ==
    \A n \in tcb'[p].rx : n \in old \/
        \E m \in net : /\ m.to = p /\ m.type \in Carriers
                       /\ \E c \in m.data : /\ c.base = tcb'[p].peer /\ c.n = n
                                            /\ c.msg \in delivered'[p]

\* The other socket is not touched.
Alone(p) ==
    \A x \in Peers \ {p} :
        /\ state'[x] = state[x] /\ tcb'[x] = tcb[x] /\ tag'[x] = tag[x]
        /\ drawn'[x] = drawn[x] /\ hadTcb'[x] = hadTcb[x]
        /\ delivered'[x] = delivered[x] /\ acked'[x] = acked[x]

\* What p learns from a SACK.
Learnt(p, k) ==
    \E m \in net : /\ m.type = "SACK" /\ m.to = p /\ HasTcb(p) /\ m.base = tcb[p].my
                   /\ \E c \in Pool(tcb[p]) : c.n \in m.acked /\ k = c.msg

\* A step of p that neither begins a connection attempt nor an association.
Moves(p) ==
    /\ Alone(p)
    /\ tag'[p] = tag[p] /\ hadTcb'[p] = hadTcb[p] /\ drawn[p] <= drawn'[p]
    /\ drawn'[p] \in Nat
    /\ state'[p] \in {"CookieWait", "CookieEchoed"} => state'[p] = state[p]
    /\ state'[p] = "Established" /\ state[p] # "Established" =>
         \E m \in net : /\ m.to = p
                        /\ \/ m.type = "COOKIE_ECHO"
                           \/ m.type = "COOKIE_ACK" /\ HasTcb(p) /\ m.vtag = tcb[p].my
    /\ tcb'[p] # NoTcb => HasTcb(p) /\ Continues(tcb[p], tcb'[p]) /\ Took(p, tcb[p].rx)
    /\ delivered[p] \subseteq delivered'[p]
    /\ \A k \in acked'[p] : k \in acked[p] \/ Learnt(p, k)
    /\ \A m \in net' : m \in net \/ Issued(p, m)

LEMMA ContinuesReflexive ==
    ASSUME Inv, NEW p \in Peers, HasTcb(p)
    PROVE  Continues(tcb[p], tcb[p])
BY SocketFacts, SameButChunksReflexive DEF Continues, SameButChunks

\* What a step leaves of all TCBs.
LEMMA MoveFacts ==
    ASSUME Inv, Inv', NEW p \in Peers, Moves(p), NEW x \in Peers
    PROVE  /\ hadTcb'[x] = hadTcb[x] /\ tag'[x] = tag[x]
           /\ drawn[x] \in Nat /\ drawn'[x] \in Nat /\ drawn[x] <= drawn'[x]
           /\ HasTcb(x)' <=> tcb'[x] # NoTcb
           /\ tcb'[x] # NoTcb => HasTcb(x) /\ Continues(tcb[x], tcb'[x])
<1>1. drawn[x] \in Nat
  BY DEF Inv, TypeOK
<1>2. HasTcb(x)' <=> tcb'[x] # NoTcb
  BY DEF HasTcb
<1>3. CASE x = p
  BY <1>1, <1>2, <1>3 DEF Moves
<1>4. CASE x # p
  <2>1. /\ hadTcb'[x] = hadTcb[x] /\ tag'[x] = tag[x] /\ drawn'[x] = drawn[x]
        /\ tcb'[x] = tcb[x]
    BY <1>4 DEF Moves, Alone
  <2>2. HasTcb(x) => Continues(tcb[x], tcb[x])
    BY ContinuesReflexive
  <2> QED BY <1>1, <1>2, <2>1, <2>2 DEF HasTcb
<1> QED BY <1>3, <1>4

\* Packets are right after a step that leaves the sockets right.
LEMMA PacketsStay ==
    ASSUME NEW q \in Peers, MirrorOK(q), NEW p \in Peers,
           PairsOK(q)', ActiveOK(q)', PassiveOK(Other(q))',
           \A x \in Peers : hadTcb[x] \subseteq hadTcb'[x],
           \A m \in net' : m \in net \/ Issued(p, m)
    PROVE  \A m \in net' : PacketOK(q, m)'
<1> DEFINE z == Other(q)
<1>0. /\ z \in Peers /\ z # q /\ p \in {q, z} /\ Other(z) = q
      /\ \A x \in Peers : HasTcb(x)' <=> tcb'[x] # NoTcb
  BY TwoPeers DEF HasTcb
<1> HIDE DEF z
<1>1. SUFFICES ASSUME NEW m \in net' PROVE PacketOK(q, m)'
  OBVIOUS
<1>2. CASE m \in net
  <2>1. hadTcb[q] \subseteq hadTcb'[q] /\ hadTcb[z] \subseteq hadTcb'[z] /\ PacketOK(q, m)
    BY <1>0, <1>2 DEF MirrorOK
  <2> QED BY <2>1 DEF PacketOK, z
<1>3. CASE Issued(p, m)
  <2>1. m.type = "INIT_ACK" => m.cookie.my = m.itag /\ m.cookie.peer = m.vtag
    BY <1>3 DEF Issued
  <2>2. ASSUME m.type = "COOKIE_ECHO"
        PROVE  m.to = z /\ <<m.cookie.peer, m.cookie.my>> \in hadTcb'[q]
    <3>1. tcb'[p] # NoTcb /\ tcb'[p].cookie # NoCookie /\ m.cookie = tcb'[p].cookie
      BY <1>3, <2>2 DEF Issued, Carriers
    <3>2. p = q
      BY <1>0, <3>1 DEF PassiveOK, z
    <3>3. m.to = z
      BY <1>3, <3>2 DEF Issued, z
    <3> QED BY <1>0, <3>1, <3>2, <3>3 DEF ActiveOK, PairsOK
  <2>3. ASSUME m.type = "COOKIE_ACK", m.to = q
        PROVE  \E e \in hadTcb'[z] : e[2] = m.vtag
    <3>1. p = z /\ tcb'[p] # NoTcb /\ m.vtag = tcb'[p].peer
      BY <1>0, <1>3, <2>3 DEF Issued, Carriers, z
    <3>2. <<tcb'[z].my, tcb'[z].peer>> \in hadTcb'[z]
      BY <1>0, <3>1 DEF PairsOK
    <3> QED BY <3>1, <3>2
  <2> QED BY <2>1, <2>2, <2>3 DEF PacketOK, z
<1> QED BY <1>2, <1>3

LEMMA MoveMirror ==
    ASSUME Inv, Inv', NEW q \in Peers, MirrorOK(q), NEW p \in Peers, Moves(p)
    PROVE  MirrorOK(q)'
<1> DEFINE z == Other(q)
<1>0. /\ z \in Peers /\ z # q /\ p \in {q, z} /\ Other(z) = q
      /\ Other(p) \in Peers /\ Other(p) # p
  BY TwoPeers
<1>1. \A x \in Peers : /\ hadTcb'[x] = hadTcb[x] /\ tag'[x] = tag[x]
                       /\ drawn[x] \in Nat /\ drawn'[x] \in Nat /\ drawn[x] <= drawn'[x]
                       /\ HasTcb(x)' <=> tcb'[x] # NoTcb
                       /\ tcb'[x] # NoTcb => HasTcb(x) /\ Continues(tcb[x], tcb'[x])
  BY MoveFacts
<1> HIDE DEF z
<1>2. PairsOK(q)'
  <2>1. \A x \in Peers : HasTcb(x)' => <<tcb'[x].my, tcb'[x].peer>> \in hadTcb'[x]
    BY <1>1 DEF MirrorOK, PairsOK, Continues
  <2>2. \A e \in hadTcb'[z] : Mirrored(e) \in hadTcb'[q]
    <3>1. \A e \in hadTcb[z] : Mirrored(e) \in hadTcb[q]
      BY DEF MirrorOK, PairsOK, z
    <3>2. hadTcb'[z] = hadTcb[z] /\ hadTcb'[q] = hadTcb[q]
      BY <1>0, <1>1
    <3> QED BY <3>1, <3>2
  <2>3. \A e, f \in hadTcb'[q] : e[1] = f[1] => e = f
    BY <1>1 DEF MirrorOK, PairsOK
  <2>4. \A e \in hadTcb'[q] : e[1][1] = q /\ e[1][2] <= drawn'[q]
    <3>1. \A e \in hadTcb[q] : e[1][1] = q /\ e[1][2] \in Nat /\ e[1][2] <= drawn[q]
      BY Types DEF MirrorOK, PairsOK, Tag
    <3> QED BY <3>1, <1>1
  <2> QED BY <2>1, <2>2, <2>3, <2>4 DEF PairsOK, z
<1>3. ActiveOK(q)'
  <2>1. HasTcb(q)' /\ tcb'[q].cookie # NoCookie =>
          tcb'[q].cookie.my = tcb'[q].peer /\ tcb'[q].cookie.peer = tcb'[q].my
    BY <1>1 DEF MirrorOK, ActiveOK, Continues
  <2>2. state'[q] = "CookieWait" => state[q] = "CookieWait"
    BY <1>0 DEF Moves, Alone
  <2>3. state'[q] = "CookieWait" => \A e \in hadTcb'[q] : e[1] # tag'[q]
    BY <1>1, <2>2 DEF MirrorOK, ActiveOK
  <2>4. ASSUME state'[q] = "Established"
        PROVE  <<tcb'[q].peer, tcb'[q].my>> \in hadTcb'[z]
    <3>1. tcb'[q] # NoTcb
      BY <2>4 DEF Inv, SocketOK, Matches
    <3>2. HasTcb(q) /\ tcb'[q].my = tcb[q].my /\ tcb'[q].peer = tcb[q].peer
      BY <1>1, <3>1 DEF Continues
    <3>3. CASE state[q] = "Established"
      BY <1>0, <1>1, <3>2, <3>3 DEF MirrorOK, ActiveOK, z
    <3>4. CASE state[q] # "Established"
      <4>1. p = q
        BY <1>0, <2>4, <3>4 DEF Moves, Alone
      <4>2. PICK m \in net : /\ m.to = q
                             /\ \/ m.type = "COOKIE_ECHO"
                                \/ m.type = "COOKIE_ACK" /\ HasTcb(q) /\ m.vtag = tcb[q].my
        BY <2>4, <3>4, <4>1 DEF Moves
      <4>3. m.type = "COOKIE_ACK" /\ m.vtag = tcb[q].my
        BY <1>0, <4>2 DEF MirrorOK, PacketOK, z
      <4>4. PICK e \in hadTcb[z] : e[2] = tcb[q].my
        BY <4>2, <4>3 DEF MirrorOK, PacketOK, z
      <4>5. <<e[2], e[1]>> \in hadTcb[q] /\ <<tcb[q].my, tcb[q].peer>> \in hadTcb[q]
        BY <3>2, <4>4 DEF MirrorOK, PairsOK, Mirrored, z
      <4>6. <<e[2], e[1]>> = <<tcb[q].my, tcb[q].peer>>
        BY <4>4, <4>5 DEF MirrorOK, PairsOK
      <4>7. e = <<e[1], e[2]>>
        BY <1>0, <4>4, Types
      <4> QED BY <1>0, <1>1, <3>2, <4>4, <4>6, <4>7
    <3> QED BY <3>3, <3>4
  <2>5. tag'[q][1] = q /\ tag'[q][2] <= drawn'[q]
    <3>1. tag[q][1] = q /\ tag[q][2] \in Nat /\ tag[q][2] <= drawn[q]
      BY SocketFacts DEF MirrorOK, ActiveOK, Tag
    <3> QED BY <1>1, <3>1
  <2> QED BY <2>1, <2>3, <2>4, <2>5 DEF ActiveOK, z
<1>4. PassiveOK(z)'
  <2>1. state'[z] \in {"CookieWait", "CookieEchoed"} => state'[z] = state[z]
    BY <1>0 DEF Moves, Alone
  <2>2. HasTcb(z)' => tcb'[z].cookie = NoCookie
    BY <1>0, <1>1 DEF MirrorOK, PassiveOK, Continues, z
  <2> QED BY <2>1, <2>2 DEF MirrorOK, PassiveOK, z
<1>5. \A m \in net' : PacketOK(q, m)'
  <2>1. \A x \in Peers : hadTcb[x] \subseteq hadTcb'[x]
    BY <1>1
  <2>2. PassiveOK(Other(q))'
    BY <1>4 DEF z
  <2>3. \A m \in net' : m \in net \/ Issued(p, m)
    BY DEF Moves
  <2> QED BY <1>2, <1>3, <2>1, <2>2, <2>3, PacketsStay
<1> QED BY <1>2, <1>3, <1>4, <1>5 DEF MirrorOK, z

\* A step of the socket that connects: chunks are given new TSNs.
LEMMA AckActive ==
    ASSUME Inv, Inv', NEW q \in Peers, AckOK(q), PairsOK(q)', Alone(q),
           hadTcb[q] \subseteq hadTcb'[q],
           tcb'[q] # NoTcb =>
             \/ HasTcb(q) /\ Continues(tcb[q], tcb'[q])
             \/ ~HasTcb(q) /\ \A e \in hadTcb[q] : e[1] # tcb'[q].my,
           \A k \in acked'[q] : k \in acked[q] \/ Learnt(q, k),
           \A m \in net' : m \in net \/ Issued(q, m)
    PROVE  AckOK(q)'
<1> DEFINE z == Other(q)
           New == IF tcb'[q] # NoTcb THEN Pool(tcb'[q]) ELSE {}
<1>0. /\ z \in Peers /\ z # q
      /\ tcb'[z] = tcb[z] /\ delivered'[z] = delivered[z]
  BY TwoPeers DEF Alone
<1> HIDE DEF z
<1>1. tcb'[q] # NoTcb => GoodTcb(tcb'[q])
  BY DEF Inv, SocketOK
<1>2. HasTcb(q) => GoodTcb(tcb[q])
  BY SocketFacts
<1>3. \A c \in New : /\ tcb'[q] # NoTcb /\ c \in Pool(tcb'[q]) /\ c.base = tcb'[q].my
                     /\ c.n \in Nat /\ c.n < tcb'[q].next
  <2>1. tcb'[q] # NoTcb => Pool(tcb'[q]) \subseteq Chunk
    BY <1>1, TcbFields DEF GoodTcb, Pool
  <2> QED BY <1>1, <2>1 DEF GoodTcb, Chunk
<1>4. \A c \in Carried(q)' : c \in Carried(q) \/ c \in New
  <2> SUFFICES ASSUME NEW c \in Carried(q)' PROVE c \in Carried(q) \/ c \in New
    OBVIOUS
  <2>1. PICK m \in net' : m.to = z /\ m.type \in Carriers /\ c \in m.data
    BY DEF Carried, z
  <2>2. CASE m \in net
    BY <2>1, <2>2 DEF Carried, z
  <2>3. CASE Issued(q, m)
    BY <2>1, <2>3 DEF Issued
  <2> QED BY <2>2, <2>3
<1>5. \A c \in Afloat(q)' : c \in Carried(q) \/ c \in New
  BY <1>4 DEF Afloat, HasTcb
<1>6. HasTcb(q)' <=> tcb'[q] # NoTcb
  BY DEF HasTcb
<1>7. ASSUME NEW b, NEW n \in Nat, Assigned(q, b, n)
      PROVE  /\ Assigned(q, b, n)'
             /\ \A c \in New : c.base = b /\ c.n = n => HasTcb(q) /\ c \in Pool(tcb[q])
  <2>1. \E e \in hadTcb'[q] : e[1] = b
    BY <1>7 DEF Assigned
  <2>2. CASE tcb'[q] = NoTcb \/ tcb'[q].my # b
    BY <1>3, <1>6, <2>1, <2>2 DEF Assigned
  <2>3. CASE tcb'[q] # NoTcb /\ tcb'[q].my = b
    <3>1. HasTcb(q) /\ Continues(tcb[q], tcb'[q])
      BY <1>7, <2>3 DEF Assigned
    <3>2. tcb[q].my = b /\ n < tcb[q].next /\ tcb[q].next <= tcb'[q].next
      BY <1>7, <2>3, <3>1 DEF Assigned, Continues
    <3>3. tcb[q].next \in Nat /\ tcb'[q].next \in Nat
      BY <1>1, <1>2, <2>3, <3>1, TcbFields DEF GoodTcb
    <3>4. n < tcb'[q].next
      BY <3>2, <3>3
    <3>5. ASSUME NEW c \in New, c.n = n PROVE c \in Pool(tcb[q])
      <4>1. c \in Pool(tcb[q]) \/ tcb[q].next <= c.n
        BY <1>3, <3>1 DEF Continues, OnlyFresh
      <4> QED BY <4>1, <3>2, <3>3, <3>5
    <3> QED BY <1>6, <2>1, <3>1, <3>4, <3>5 DEF Assigned
  <2> QED BY <2>2, <2>3
<1>8. \A c \in Carried(q) : Assigned(q, c.base, c.n) /\ c.n \in Nat
  <2>1. Carried(q) \subseteq Chunk
    BY PacketFields, Types DEF Carried, Carriers
  <2> QED BY <2>1 DEF AckOK, Chunk
<1>9. ASSUME NEW b, NEW n \in Nat, Heard(q, b, n) PROVE Heard(q, b, n)'
  <2>1. Assigned(q, b, n)' /\ \A c \in New : c.base = b /\ c.n = n => HasTcb(q) /\ c \in Pool(tcb[q])
    BY <1>7, <1>9 DEF Heard
  <2>2. ASSUME NEW c \in Afloat(q)', c.base = b, c.n = n PROVE c.msg \in delivered'[z]
    <3>1. c \in Afloat(q)
      BY <1>5, <2>1, <2>2 DEF Afloat
    <3> QED BY <1>0, <1>9, <2>2, <3>1 DEF Heard, z
  <2> QED BY <2>1, <2>2 DEF Heard, z
<1>10. \A c \in Carried(q)' : Assigned(q, c.base, c.n)'
  <2>1. ASSUME NEW c \in New PROVE Assigned(q, c.base, c.n)'
    <3>1. <<tcb'[q].my, tcb'[q].peer>> \in hadTcb'[q]
      BY <1>3, <1>6, <2>1 DEF PairsOK
    <3>2. <<tcb'[q].my, tcb'[q].peer>>[1] = c.base
      BY <1>3
    <3> QED BY <1>3, <3>1, <3>2 DEF Assigned
  <2> QED BY <1>4, <1>7, <1>8, <2>1
<1>11. ASSUME NEW c \in Carried(q), NEW d \in New, c.base = d.base, c.n = d.n PROVE c = d
  <2>1. HasTcb(q) /\ d \in Pool(tcb[q])
    BY <1>7, <1>8, <1>11
  <2> QED BY <1>11, <2>1 DEF AckOK, Afloat
<1>12. \A c, d \in Afloat(q)' : c.base = d.base /\ c.n = d.n => c = d
  <2>1. \A c, d \in New : c.n = d.n => c = d
    BY <1>1 DEF GoodTcb
  <2>2. \A c, d \in Carried(q) : c.base = d.base /\ c.n = d.n => c = d
    BY DEF AckOK, Afloat
  <2> HIDE DEF New
  <2>3. \A c \in Carried(q), d \in New : c.base = d.base /\ c.n = d.n => c = d
    BY <1>11
  <2> QED BY <1>5, <2>1, <2>2, <2>3
<1>13. HasTcb(z)' => \A n \in tcb'[z].rx : Heard(q, tcb[z].peer, n)'
  <2>1. HasTcb(z) => tcb[z].rx \subseteq Nat
    BY <1>0, SocketFacts, TcbFields
  <2>2. HasTcb(z)' <=> HasTcb(z)
    BY <1>0 DEF HasTcb
  <2> QED BY <1>0, <1>9, <2>1, <2>2 DEF AckOK, z
<1>14. ASSUME NEW m \in net', m.type = "SACK", m.to = q, NEW n \in m.acked
       PROVE  Heard(q, m.base, n)'
  <2>1. m \in net
    BY <1>0, <1>14 DEF Issued, z
  <2>2. n \in Nat
    BY <1>14, <2>1, PacketFields, Types
  <2> QED BY <1>9, <1>14, <2>1, <2>2 DEF AckOK
<1>15. acked'[q] \subseteq delivered'[z]
  <2> SUFFICES ASSUME NEW k, Learnt(q, k) PROVE k \in delivered[z]
    BY <1>0 DEF AckOK, z
  <2>1. PICK m \in net : /\ m.type = "SACK" /\ m.to = q /\ HasTcb(q) /\ m.base = tcb[q].my
                         /\ \E c \in Pool(tcb[q]) : c.n \in m.acked /\ k = c.msg
    BY DEF Learnt
  <2>2. PICK c \in Pool(tcb[q]) : c.n \in m.acked /\ k = c.msg
    BY <2>1
  <2>3. c \in Afloat(q) /\ c.base = tcb[q].my
    BY <1>2, <2>1 DEF Afloat, GoodTcb
  <2> QED BY <2>1, <2>2, <2>3 DEF AckOK, Heard, z
<1> QED BY <1>10, <1>12, <1>13, <1>14, <1>15 DEF AckOK, z

\* A step of its peer: chunks are received and acknowledged.
LEMMA AckPassive ==
    ASSUME Inv, Inv', NEW q \in Peers, AckOK(q), NEW z, z = Other(q), Alone(z),
           delivered[z] \subseteq delivered'[z],
           NEW old, tcb'[z] # NoTcb =>
                      Took(z, old) /\ \A n \in old : Heard(q, tcb'[z].peer, n),
           \A m \in net' : m \in net \/ Issued(z, m)
    PROVE  AckOK(q)'
<1>0. /\ z \in Peers /\ z # q /\ Other(z) = q /\ tcb'[q] = tcb[q]
      /\ acked'[q] = acked[q] /\ hadTcb'[q] = hadTcb[q]
  BY TwoPeers DEF Alone
<1>1. \A c \in Carried(q)' : c \in Carried(q)
  <2> SUFFICES ASSUME NEW c \in Carried(q)' PROVE c \in Carried(q)
    OBVIOUS
  <2>1. PICK m \in net' : m.to = z /\ m.type \in Carriers /\ c \in m.data
    BY DEF Carried
  <2>2. m \in net
    BY <1>0, <2>1 DEF Issued
  <2> QED BY <2>1, <2>2 DEF Carried
<1>2. \A c \in Afloat(q)' : c \in Afloat(q)
  BY <1>0, <1>1 DEF Afloat, HasTcb
<1>3. \A b, n : Assigned(q, b, n) => Assigned(q, b, n)'
  BY <1>0 DEF Assigned, HasTcb
<1>4. \A b, n : Heard(q, b, n) => Heard(q, b, n)'
  BY <1>2, <1>3 DEF Heard
<1>5. ASSUME HasTcb(z)', NEW n \in tcb'[z].rx PROVE Heard(q, tcb[z].peer, n)'
  <2>1. tcb'[z] # NoTcb
    BY <1>5 DEF HasTcb
  <2>2. CASE n \in old
    BY <1>4, <2>1, <2>2
  <2>3. CASE n \notin old
    <3>1. PICK m \in net : /\ m.to = z /\ m.type \in Carriers
                           /\ \E c \in m.data : /\ c.base = tcb'[z].peer /\ c.n = n
                                                /\ c.msg \in delivered'[z]
      BY <2>1, <2>3, <1>5 DEF Took
    <3>2. PICK c \in m.data : c.base = tcb'[z].peer /\ c.n = n /\ c.msg \in delivered'[z]
      BY <3>1
    <3>3. c \in Carried(q)
      BY <3>1, <3>2 DEF Carried
    <3>4. Assigned(q, tcb[z].peer, n)'
      BY <1>3, <3>2, <3>3 DEF AckOK
    <3>5. ASSUME NEW d \in Afloat(q)', d.base = tcb'[z].peer, d.n = n
          PROVE  d.msg \in delivered'[z]
      <4>1. d = c
        BY <1>2, <3>2, <3>3, <3>5 DEF AckOK, Afloat
      <4> QED BY <3>2, <4>1
    <3> QED BY <3>4, <3>5 DEF Heard
  <2> QED BY <2>2, <2>3
<1>6. ASSUME NEW m \in net', m.type = "SACK", m.to = q, NEW n \in m.acked
      PROVE  Heard(q, m.base, n)'
  <2>1. CASE m \in net
    BY <1>4, <1>6, <2>1 DEF AckOK
  <2>2. CASE Issued(z, m)
    <3>1. tcb'[z] # NoTcb /\ m.base = tcb'[z].peer /\ n \in tcb'[z].rx
      BY <1>6, <2>2 DEF Issued
    <3> QED BY <1>5, <3>1 DEF HasTcb
  <2> QED BY <2>1, <2>2
<1>7. \A c \in Carried(q)' : Assigned(q, c.base, c.n)'
  BY <1>1, <1>3 DEF AckOK
<1>8. \A c, d \in Afloat(q)' : c.base = d.base /\ c.n = d.n => c = d
  BY <1>2 DEF AckOK
<1>9. acked'[q] \subseteq delivered'[z]
  BY <1>0 DEF AckOK
<1> QED BY <1>5, <1>6, <1>7, <1>8, <1>9 DEF AckOK

LEMMA MoveAck ==
    ASSUME Inv, Inv', NEW q \in Peers, MirrorOK(q), AckOK(q), NEW p \in Peers, Moves(p)
    PROVE  AckOK(q)'
<1>0. PairsOK(q)'
  BY MoveMirror DEF MirrorOK
<1>1. CASE p = q
  BY <1>0, <1>1, AckActive DEF Moves
<1>2. CASE p = Other(q)
  <2>1. tcb'[p] # NoTcb => HasTcb(p) /\ tcb'[p].peer = tcb[p].peer /\ Took(p, tcb[p].rx)
    BY DEF Moves, Continues
  <2>2. tcb'[p] # NoTcb => \A n \in tcb[p].rx : Heard(q, tcb'[p].peer, n)
    BY <1>2, <2>1 DEF AckOK
  <2>3. Alone(p) /\ delivered[p] \subseteq delivered'[p] /\ \A m \in net' : m \in net \/ Issued(p, m)
    BY DEF Moves
  <2> QED BY <1>2, <2>1, <2>2, <2>3, AckPassive
<1> QED BY <1>1, <1>2, TwoPeers

-----------------------------------------------------------------------------
(* Parts of steps *)

\* Packets that say nothing of associations, tags or data.
Plain(p, m) == m.to = Other(p) /\ m.type \notin Carriers \cup {"INIT_ACK", "SACK"}

Leaving == {"Closed", "ShutdownPending", "ShutdownSent", "ShutdownReceived", "ShutdownAckSent"}

LEMMA PlainIssued ==
    ASSUME NEW p, NEW m, Plain(p, m)
    PROVE  Issued(p, m)
BY DEF Plain, Issued, Carriers

LEMMA PlainPackets ==
    ASSUME NEW p, NEW v
    PROVE  /\ Plain(p, Init_(Other(p), v)) /\ Plain(p, Abort(p))
           /\ Plain(p, Control("SHUTDOWN", Other(p), v))
           /\ Plain(p, Control("SHUTDOWN_ACK", Other(p), v))
           /\ \A b : Plain(p, ShutdownComplete(Other(p), v, b))
BY DEF Plain, Carriers, Init_, Abort, Control, ShutdownComplete

LEMMA Elsewhere ==
    ASSUME NEW S, NEW f \in [Peers -> S], NEW p \in Peers, NEW v
    PROVE  [f EXCEPT ![p] = v][p] = v /\ \A x \in Peers \ {p} : [f EXCEPT ![p] = v][x] = f[x]
OBVIOUS

\* The same for the variables of DcSctpSocket.
LEMMA OneSocket ==
    ASSUME Inv, NEW p \in Peers, NEW v
    PROVE  /\ Set(state, p, v)[p] = v /\ \A x \in Peers \ {p} : Set(state, p, v)[x] = state[x]
           /\ Set(tcb, p, v)[p] = v /\ \A x \in Peers \ {p} : Set(tcb, p, v)[x] = tcb[x]
           /\ Set(tag, p, v)[p] = v /\ \A x \in Peers \ {p} : Set(tag, p, v)[x] = tag[x]
           /\ Set(drawn, p, v)[p] = v /\ \A x \in Peers \ {p} : Set(drawn, p, v)[x] = drawn[x]
           /\ Set(hadTcb, p, v)[p] = v /\ \A x \in Peers \ {p} : Set(hadTcb, p, v)[x] = hadTcb[x]
           /\ Set(delivered, p, v)[p] = v
           /\ \A x \in Peers \ {p} : Set(delivered, p, v)[x] = delivered[x]
           /\ Set(acked, p, v)[p] = v /\ \A x \in Peers \ {p} : Set(acked, p, v)[x] = acked[x]
<1>1. /\ state \in [Peers -> State] /\ tcb \in [Peers -> Tcb \cup {NoTcb}]
      /\ tag \in [Peers -> Tag] /\ drawn \in [Peers -> Nat]
      /\ hadTcb \in [Peers -> SUBSET (Tag \X Tag)]
      /\ delivered \in [Peers -> SUBSET Nat] /\ acked \in [Peers -> SUBSET Nat]
  BY DEF Inv, TypeOK
<1> QED BY <1>1, Elsewhere DEF Set

\* A step that keeps the TCB or drops it, and sends no data.
LEMMA StayMoves ==
    ASSUME Inv, NEW p \in Peers, NEW s, state' = Set(state, p, s),
           s = state[p] \/ s \in Leaving,
           \/ tcb' = tcb
           \/ tcb' = Set(tcb, p, NoTcb) /\ s = "Closed",
           UNCHANGED <<tag, delivered, acked, hadTcb>>,
           drawn' = drawn \/ drawn' = Set(drawn, p, drawn[p]) \/ drawn' = Set(drawn, p, drawn[p] + 1),
           \A m \in net' : m \in net \/ Issued(p, m)
    PROVE  Moves(p)
<1>1. /\ state'[p] = s /\ \A x \in Peers \ {p} : state'[x] = state[x] /\ tcb'[x] = tcb[x]
      /\ tcb'[p] = tcb[p] \/ tcb'[p] = NoTcb
  BY OneSocket
<1>2. /\ drawn[p] \in Nat /\ drawn'[p] \in {drawn[p], drawn[p] + 1}
      /\ \A x \in Peers \ {p} : drawn'[x] = drawn[x]
  BY OneSocket, SocketFacts
<1>3. drawn'[p] \in Nat /\ drawn[p] <= drawn'[p]
  BY <1>2
<1>4. Alone(p)
  BY <1>1, <1>2 DEF Alone
<1>5. tcb'[p] # NoTcb => HasTcb(p) /\ Continues(tcb[p], tcb'[p]) /\ Took(p, tcb[p].rx)
  <2>1. ASSUME tcb'[p] # NoTcb PROVE tcb'[p] = tcb[p] /\ HasTcb(p)
    BY <1>1, <2>1 DEF HasTcb
  <2>2. HasTcb(p) => Continues(tcb[p], tcb[p])
    BY ContinuesReflexive
  <2> QED BY <2>1, <2>2 DEF Took
<1>6. /\ state'[p] \in {"CookieWait", "CookieEchoed"} => state'[p] = state[p]
      /\ state'[p] = "Established" => state[p] = "Established"
  BY <1>1 DEF Leaving
<1> QED BY <1>3, <1>4, <1>5, <1>6 DEF Moves

LEMMA CloseMoves ==
    ASSUME Inv, NEW p \in Peers, NEW packets, InternalClose(p, packets),
           \A m \in packets : m \in net \/ Plain(p, m)
    PROVE  Moves(p)
<1>1. \A m \in net' : m \in net \/ Issued(p, m)
  BY PlainIssued DEF InternalClose
<1> QED BY <1>1, StayMoves DEF InternalClose, clientVars, Leaving

\* What has happened when a socket with TCB t has sent what it may.
Sends(p, t) ==
    /\ tcb'[p] # NoTcb /\ Continues(t, tcb'[p]) /\ tcb'[p].cookie = t.cookie
    /\ Took(p, t.rx)
    /\ delivered[p] \subseteq delivered'[p]
    /\ \A x \in Peers \ {p} : tcb'[x] = tcb[x] /\ delivered'[x] = delivered[x]
    /\ \A m \in net' : m \in net \/ Issued(p, m)

LEMMA TransmissionIssued ==
    ASSUME NEW p, NEW t, NEW sent, Transmission(p, t, sent), tcb'[p] # NoTcb,
           tcb'[p].peer = t.peer, tcb'[p].cookie = t.cookie, Pool(tcb'[p]) = Pool(sent.tcb),
           NEW m \in sent.packets
    PROVE  Issued(p, m)
<1>1. /\ m.type \in Carriers /\ m.to = Other(p) /\ m.vtag = t.peer
      /\ m.data \subseteq sent.tcb.inflight
      /\ m.type = "COOKIE_ECHO" => m.cookie = t.cookie /\ t.cookie # NoCookie
  BY DEF Transmission, Carriers
<1>2. m.data \subseteq Pool(tcb'[p])
  BY <1>1 DEF Pool
<1> QED BY <1>1, <1>2 DEF Issued, Carriers

LEMMA TransmitSends ==
    ASSUME Inv, NEW p \in Peers, NEW t, GoodTcb(t), NEW sent, Transmission(p, t, sent),
           NEW packets, Transmit(p, sent, packets), \A m \in packets : m \in net \/ Plain(p, m),
           delivered' = delivered
    PROVE  Sends(p, t)
<1>1. tcb'[p] = sent.tcb /\ \A x \in Peers \ {p} : tcb'[x] = tcb[x]
  BY OneSocket DEF Transmit
<1>2. GoodTcb(sent.tcb) /\ SameButChunks(t, sent.tcb) /\ OnlyFresh(t, sent.tcb)
  BY DEF Transmission
<1>3. tcb'[p] # NoTcb /\ Continues(t, tcb'[p]) /\ tcb'[p].cookie = t.cookie
  BY <1>1, <1>2, TcbFields DEF GoodTcb, SameButChunks, Continues
<1>4. Took(p, t.rx)
  BY <1>1, <1>2 DEF Took, SameButChunks
<1>5. \A m \in sent.packets : Issued(p, m)
  BY <1>1, <1>3, TransmissionIssued DEF Continues
<1>6. \A m \in net' : m \in net \/ Issued(p, m)
  BY <1>5, PlainIssued DEF Transmit
<1> QED BY <1>1, <1>3, <1>4, <1>6 DEF Sends

LEMMA ObserveSends ==
    ASSUME Inv, NEW p \in Peers, NEW t, GoodTcb(t), NEW sent, Transmission(p, t, sent),
           NEW m \in net, m.to = p, m.type \in Carriers, m.data \subseteq Chunk,
           NEW packets, Observe(p, m, sent, packets),
           \A k \in packets : k \in net \/ Plain(p, k)
    PROVE  Sends(p, t)
<1> DEFINE s == sent.tcb
           u == ObserveData(s, m.data)
<1>1. /\ GoodTcb(s) /\ s # NoTcb /\ SameButChunks(t, s) /\ OnlyFresh(t, s)
  BY TcbFields DEF Transmission, GoodTcb
<1>2. /\ GoodTcb(u) /\ u = [s EXCEPT !.rx = u.rx] /\ Pool(u) = Pool(s)
      /\ u.rx = s.rx \cup {c.n : c \in Valid(s, m.data)}
      /\ SackFor(p, s, m.data) \subseteq {Sack(Other(p), s.peer, s.peer, u.rx)}
  BY <1>1, ObserveEffect
<1>3. /\ tcb' = Set(tcb, p, u)
      /\ delivered' = Set(delivered, p, delivered[p] \cup NewMessages(s, m.data))
      /\ net' = Rest(m) \cup packets \cup sent.packets \cup SackFor(p, s, m.data)
  BY <1>1 DEF Observe
<1> HIDE DEF s, u
<1>4. /\ tcb'[p] = u /\ delivered'[p] = delivered[p] \cup NewMessages(s, m.data)
      /\ \A x \in Peers \ {p} : tcb'[x] = tcb[x] /\ delivered'[x] = delivered[x]
  BY <1>3, OneSocket
<1>5. /\ u # NoTcb /\ u.my = s.my /\ u.peer = s.peer /\ u.cookie = s.cookie
      /\ u.next = s.next
  <2>1. s \in Tcb /\ u \in Tcb
    BY <1>1, <1>2 DEF GoodTcb
  <2>2. u # NoTcb
    BY <2>1, TcbFields
  <2> QED BY <1>2, <2>1, <2>2 DEF Tcb
<1>6. Continues(t, u) /\ u.cookie = t.cookie /\ u.peer = t.peer /\ s.rx = t.rx
  BY <1>1, <1>2, <1>5 DEF Continues, SameButChunks, OnlyFresh
<1>7. Took(p, t.rx)
  <2> SUFFICES ASSUME NEW n \in u.rx, n \notin t.rx
               PROVE  \E c \in m.data : c.base = u.peer /\ c.n = n /\ c.msg \in delivered'[p]
    BY <1>4 DEF Took
  <2>1. PICK c \in Valid(s, m.data) : c.n = n
    BY <1>2, <1>6
  <2>2. c \in m.data /\ c.base = s.peer
    BY DEF Valid
  <2>3. c.msg \in NewMessages(s, m.data)
    BY <1>6, <2>1 DEF NewMessages
  <2> QED BY <1>4, <1>5, <2>1, <2>2, <2>3
<1>8. \A k \in sent.packets : Issued(p, k)
  <2>1. Pool(tcb'[p]) = Pool(sent.tcb)
    BY <1>2, <1>4 DEF s
  <2> QED BY <1>4, <1>5, <1>6, <2>1, TransmissionIssued
<1>9. Issued(p, Sack(Other(p), s.peer, s.peer, u.rx))
  BY <1>4, <1>5 DEF Issued, Sack, Carriers
<1>10. \A k \in net' : k \in net \/ Issued(p, k)
  BY <1>2, <1>3, <1>8, <1>9, PlainIssued DEF Rest
<1> QED BY <1>4, <1>5, <1>6, <1>7, <1>10 DEF Sends

\* t is the TCB u, perhaps with fewer chunks or without its cookie.
Lighter(u, t) ==
    /\ t.my = u.my /\ t.peer = u.peer /\ t.rx = u.rx /\ t.next = u.next
    /\ t.cookie \in {u.cookie, NoCookie} /\ Pool(t) \subseteq Pool(u)

LEMMA SendsMoves ==
    ASSUME Inv, NEW p \in Peers, HasTcb(p), NEW t, Lighter(tcb[p], t), Sends(p, t),
           NEW s, state' = Set(state, p, s),
           s \in {"CookieWait", "CookieEchoed"} => s = state[p],
           s = "Established" /\ state[p] # "Established" =>
             \E m \in net : /\ m.to = p
                            /\ \/ m.type = "COOKIE_ECHO"
                               \/ m.type = "COOKIE_ACK" /\ HasTcb(p) /\ m.vtag = tcb[p].my,
           UNCHANGED <<tag, drawn, hadTcb>>,
           \A x \in Peers \ {p} : acked'[x] = acked[x],
           \A k \in acked'[p] : k \in acked[p] \/ Learnt(p, k)
    PROVE  Moves(p)
<1>1. state'[p] = s /\ \A x \in Peers \ {p} : state'[x] = state[x]
  BY OneSocket
<1>2. Alone(p)
  BY <1>1 DEF Alone, Sends
<1>3. drawn'[p] \in Nat /\ drawn[p] <= drawn'[p]
  BY SocketFacts
<1>4. Continues(tcb[p], tcb'[p])
  BY DEF Sends, Continues, Lighter, OnlyFresh
<1>5. Took(p, tcb[p].rx)
  BY DEF Sends, Lighter
<1> QED BY <1>1, <1>2, <1>3, <1>4, <1>5 DEF Moves, Sends

-----------------------------------------------------------------------------
(* The steps that are moves *)

LEMMA SameState ==
    ASSUME Inv, NEW p \in Peers
    PROVE  state = Set(state, p, state[p])
BY Unchanging DEF Set

LEMMA LighterReflexive ==
    ASSUME NEW t
    PROVE  Lighter(t, t)
BY DEF Lighter

LEMMA ClientMoves ==
    ASSUME Inv, NEW p \in Peers, ShutdownUnconnected(p) \/ Close(p) \/ Shutdown(p)
    PROVE  Moves(p)
<1>1. CASE ShutdownUnconnected(p)
  BY <1>1, CloseMoves DEF ShutdownUnconnected
<1>2. CASE Close(p)
  <2>1. \A m \in net \cup (IF HasTcb(p) THEN {Abort(p)} ELSE {}) : m \in net \/ Plain(p, m)
    BY PlainPackets
  <2> QED BY <1>2, <2>1, CloseMoves DEF Close
<1>3. CASE Shutdown(p)
  <2>1. PICK s \in Leaving : state' = Set(state, p, s)
    BY <1>3 DEF Shutdown, Leaving
  <2>2. \A m \in net' : m \in net \/ Issued(p, m)
    BY <1>3, PlainPackets, PlainIssued DEF Shutdown
  <2> QED BY <1>3, <2>1, <2>2, StayMoves DEF Shutdown, clientVars
<1> QED BY <1>1, <1>2, <1>3

\* Sending with TCB t, which is at most lighter than the one before.
LEMMA TransmitMoves ==
    ASSUME Inv, NEW p \in Peers, HasTcb(p), NEW t, GoodTcb(t), Lighter(tcb[p], t),
           NEW b \in Seq(Nat), NEW packets, Transmit(p, SendBufferedPackets(p, t, b), packets),
           \A m \in packets : m \in net \/ Plain(p, m),
           state' = state, UNCHANGED <<tag, drawn, hadTcb, delivered, acked>>
    PROVE  Moves(p)
<1>1. Transmission(p, t, SendBufferedPackets(p, t, b))
  BY SendBufferedEffect
<1>2. Sends(p, t)
  BY <1>1, TransmitSends
<1>3. state' = Set(state, p, state[p])
  BY SameState
<1> QED BY <1>2, <1>3, SendsMoves

LEMMA SendMoves ==
    ASSUME Inv, NEW p \in Peers, Send(p)
    PROVE  Moves(p)
<1> DEFINE b == Append(sendq[p], sends[p] + 1)
<1>1. b \in Seq(Nat)
  BY SocketFacts, AppendProperties
<1>2. CASE HasTcb(p)
  <2>1. Transmit(p, SendBufferedPackets(p, tcb[p], b), net)
    BY <1>2 DEF Send
  <2>2. state' = state /\ UNCHANGED <<tag, drawn, hadTcb, delivered, acked>>
    BY DEF Send, clientVars
  <2> HIDE DEF b
  <2>3. GoodTcb(tcb[p]) /\ Lighter(tcb[p], tcb[p])
    BY <1>2, SocketFacts, LighterReflexive
  <2> QED BY <1>1, <1>2, <2>1, <2>2, <2>3, TransmitMoves
<1>3. CASE ~HasTcb(p)
  <2>1. state' = Set(state, p, state[p])
    BY SameState DEF Send
  <2>2. UNCHANGED <<tcb, net, tag, drawn, hadTcb, delivered, acked>>
    BY <1>3 DEF Send, clientVars
  <2> QED BY <2>1, <2>2, StayMoves
<1> QED BY <1>2, <1>3

LEMMA TimerMoves ==
    ASSUME Inv, NEW p \in Peers,
           \/ OnInitTimerExpiry(p) \/ OnCookieTimerExpiry(p)
           \/ OnShutdownTimerExpiry(p) \/ OnRtxTimerExpiry(p)
    PROVE  Moves(p)
<1>0. sendq[p] \in Seq(Nat) /\ (HasTcb(p) => GoodTcb(tcb[p]))
  BY SocketFacts
<1>1. CASE InternalClose(p, net) \/ InternalClose(p, net \cup {Abort(p)})
  BY <1>1, PlainPackets, CloseMoves
<1>2. CASE /\ UNCHANGED <<state, tcb, tag, sendq, drawn, connects, sends, clientVars>>
           /\ \/ net' = net \cup {Init_(Other(p), tag[p])}
              \/ net' = net \cup {Control("SHUTDOWN", Other(p), tcb[p].peer)}
  <2>1. \A m \in net' : m \in net \/ Issued(p, m)
    BY <1>2, PlainPackets, PlainIssued
  <2>2. state' = Set(state, p, state[p])
    BY <1>2, SameState
  <2> QED BY <1>2, <2>1, <2>2, StayMoves DEF clientVars
<1>3. CASE /\ OnCookieTimerExpiry(p)
           /\ Transmit(p, SendBufferedPackets(p, tcb[p], sendq[p]), net)
           /\ UNCHANGED <<state, tag, drawn, connects, sends, clientVars>>
  <2>1. HasTcb(p)
    BY <1>3, SocketFacts DEF OnCookieTimerExpiry, Matches, HasTcb
  <2> QED BY <1>0, <1>3, <2>1, LighterReflexive, TransmitMoves DEF clientVars
<1>4. CASE /\ OnRtxTimerExpiry(p)
           /\ Transmit(p, SendBufferedPackets(p, Nacked(tcb[p]), sendq[p]), net)
           /\ UNCHANGED <<state, tag, timer, drawn, connects, sends, clientVars>>
  <2>1. HasTcb(p)
    BY <1>4 DEF OnRtxTimerExpiry
  <2>2. GoodTcb(Nacked(tcb[p])) /\ Lighter(tcb[p], Nacked(tcb[p]))
    BY <1>0, <2>1, NackedEffect DEF Lighter
  <2> QED BY <1>0, <1>4, <2>1, <2>2, TransmitMoves DEF clientVars
<1> QED BY <1>1, <1>2, <1>3, <1>4
        DEF OnInitTimerExpiry, OnCookieTimerExpiry, OnShutdownTimerExpiry, OnRtxTimerExpiry

LEMMA HandleInitMoves ==
    ASSUME Inv, NEW p \in Peers, NEW m \in net, HandleInit(p, m)
    PROVE  Moves(p)
<1>0. state' = Set(state, p, state[p])
  BY SameState DEF HandleInit, AnswerInit
<1>1. CASE /\ net' = Rest(m) \cup {Control("SHUTDOWN_ACK", Other(p), tcb[p].peer)}
           /\ UNCHANGED <<state, tcb, tag, sendq, drawn, connects, sends, clientVars>>
  <2>1. \A k \in net' : k \in net \/ Issued(p, k)
    BY <1>1, PlainPackets, PlainIssued DEF Rest
  <2> QED BY <1>0, <1>1, <2>1, StayMoves DEF clientVars
<1>2. ASSUME NEW my, NEW tie, AnswerInit(p, m, my, tie)
      PROVE  Moves(p)
  <2>1. Issued(p, InitAck(Other(p), m.itag, my, [my |-> my, peer |-> m.itag, tie |-> tie]))
    BY DEF Issued, InitAck, Carriers
  <2>2. \A k \in net' : k \in net \/ Issued(p, k)
    BY <1>2, <2>1 DEF AnswerInit, Rest
  <2>3. drawn' = Set(drawn, p, drawn[p]) \/ drawn' = Set(drawn, p, drawn[p] + 1)
    BY <1>2 DEF AnswerInit
  <2>4. UNCHANGED <<tcb, tag, delivered, acked, hadTcb>>
    BY <1>2 DEF AnswerInit, clientVars
  <2> QED BY <1>0, <2>2, <2>3, <2>4, StayMoves
<1> QED BY <1>1, <1>2 DEF HandleInit

\* DATA that is observed while at most the state changes.
LEMMA ObserveMoves ==
    ASSUME Inv, NEW p \in Peers, HasTcb(p), NEW t, GoodTcb(t), Lighter(tcb[p], t),
           NEW sent, Transmission(p, t, sent),
           NEW m \in net, m.to = p, m.type \in Carriers, m.data \subseteq Chunk,
           NEW packets, Observe(p, m, sent, packets),
           \A k \in packets : k \in net \/ Plain(p, k),
           NEW s, state' = Set(state, p, s), s = state[p] \/ s = "Established",
           s # state[p] => \/ m.type = "COOKIE_ECHO"
                           \/ m.type = "COOKIE_ACK" /\ m.vtag = tcb[p].my,
           UNCHANGED <<tag, drawn, hadTcb, acked>>
    PROVE  Moves(p)
<1>1. Sends(p, t)
  BY ObserveSends
<1>2. s \in {"CookieWait", "CookieEchoed"} => s = state[p]
  OBVIOUS
<1>3. s = "Established" /\ state[p] # "Established" =>
        \E k \in net : /\ k.to = p
                       /\ \/ k.type = "COOKIE_ECHO"
                          \/ k.type = "COOKIE_ACK" /\ HasTcb(p) /\ k.vtag = tcb[p].my
  OBVIOUS
<1> QED BY <1>1, <1>2, <1>3, SendsMoves

LEMMA PlainAnswer ==
    ASSUME NEW p, NEW m
    PROVE  \A k \in ShutdownOnPacketReceived(p, m) : Plain(p, k)
BY PlainPackets DEF ShutdownOnPacketReceived

\* The TCB observes DATA, and nothing else happens.
LEMMA OnlyObserveMoves ==
    ASSUME Inv, NEW p \in Peers, HasTcb(p),
           NEW m \in net, m.to = p, m.type \in Carriers, m.data \subseteq Chunk,
           NEW packets, Observe(p, m, Nothing(p), packets),
           \A k \in packets : Plain(p, k),
           UNCHANGED <<state, tag, drawn, hadTcb, acked>>
    PROVE  Moves(p)
<1>1. GoodTcb(tcb[p]) /\ Lighter(tcb[p], tcb[p]) /\ Transmission(p, tcb[p], Nothing(p))
  BY SocketFacts, LighterReflexive, NothingEffect
<1>2. state' = Set(state, p, state[p])
  BY SameState
<1> QED BY <1>1, <1>2, ObserveMoves

LEMMA RejectCookieMoves ==
    ASSUME Inv, NEW p \in Peers, NEW m \in net, m.to = p, m.type = "COOKIE_ECHO",
           HasTcb(p), NEW packets, RejectCookie(p, m, packets), \A k \in packets : Plain(p, k)
    PROVE  Moves(p)
<1>1. m.data \subseteq Chunk /\ m.type \in Carriers
  BY PacketFields, Types DEF Carriers
<1>2. \A k \in ShutdownOnPacketReceived(p, m) \cup packets : Plain(p, k)
  BY PlainAnswer
<1> QED BY <1>1, <1>2, OnlyObserveMoves DEF RejectCookie

\* A cookie that changes nothing about the association.
LEMMA KeepCookieMoves ==
    ASSUME Inv, NEW q \in Peers, MirrorOK(q), NEW p \in Peers, NEW m \in net, m.to = p,
           m.type = "COOKIE_ECHO", HasTcb(p), AcceptCookie(p, m, tcb[p])
    PROVE  Moves(p)
<1> DEFINE now == IF state[p] = "Established" THEN tcb[p] ELSE [tcb[p] EXCEPT !.cookie = NoCookie]
<1>1. m.data \subseteq Chunk /\ m.type \in Carriers
  BY PacketFields, Types DEF Carriers
<1>2. GoodTcb(now) /\ Lighter(tcb[p], now)
  <2>1. GoodTcb(tcb[p])
    BY SocketFacts
  <2> QED BY <2>1, WithCookieEffect, LighterReflexive DEF Lighter
<1>3. /\ Observe(p, m, SendCookieAck(p, now, sendq[p]), ShutdownOnPacketReceived(p, m))
      /\ state' = Set(state, p, "Established")
      /\ drawn' = Set(drawn, p, drawn[p])
      /\ hadTcb' = Set(hadTcb, p, hadTcb[p] \cup {<<now.my, now.peer>>})
      /\ UNCHANGED <<tag, acked>>
  BY DEF AcceptCookie, HasTcb
<1> HIDE DEF now
<1>4. <<now.my, now.peer>> \in hadTcb[p]
  BY <1>2 DEF Lighter, MirrorOK, PairsOK
<1>5. hadTcb' = hadTcb /\ drawn' = drawn
  <2>1. hadTcb' = Set(hadTcb, p, hadTcb[p])
    BY <1>3, <1>4
  <2> QED BY <1>3, <2>1, NoChange, Types DEF Set
<1>6. Transmission(p, now, SendCookieAck(p, now, sendq[p]))
  BY <1>2, SocketFacts, SendCookieAckEffect
<1>7. \A k \in ShutdownOnPacketReceived(p, m) : k \in net \/ Plain(p, k)
  BY PlainAnswer
<1> QED BY <1>1, <1>2, <1>3, <1>5, <1>6, <1>7, ObserveMoves

LEMMA HandleDataMoves ==
    ASSUME Inv, NEW p \in Peers, NEW m \in net, m.to = p, HandleData(p, m)
    PROVE  Moves(p)
<1>1. m.data \subseteq Chunk /\ m.type \in Carriers /\ HasTcb(p)
  BY PacketFields, Types DEF Carriers, HandleData, ForMe
<1> QED BY <1>1, PlainAnswer, OnlyObserveMoves DEF HandleData

LEMMA HandleCookieAckMoves ==
    ASSUME Inv, NEW p \in Peers, NEW m \in net, m.to = p, HandleCookieAck(p, m)
    PROVE  Moves(p)
<1>1. /\ m.data \subseteq Chunk /\ m.type \in Carriers /\ HasTcb(p) /\ m.type = "COOKIE_ACK"
      /\ m.vtag = tcb[p].my
  BY PacketFields, Types DEF Carriers, HandleCookieAck, ForMe
<1>2. CASE state[p] = "CookieEchoed"
  <2> DEFINE t == [tcb[p] EXCEPT !.cookie = NoCookie]
             none == {}
  <2>1. GoodTcb(t) /\ Lighter(tcb[p], t)
    <3>1. GoodTcb(tcb[p])
      BY <1>1, SocketFacts
    <3> QED BY <3>1, WithCookieEffect DEF Lighter
  <2>2. /\ Observe(p, m, SendBufferedPackets(p, t, sendq[p]), none)
        /\ state' = Set(state, p, "Established")
        /\ UNCHANGED <<tag, drawn, hadTcb, acked>>
    BY <1>2 DEF HandleCookieAck
  <2>3. \A k \in none : k \in net \/ Plain(p, k)
    OBVIOUS
  <2> HIDE DEF t, none
  <2>4. Transmission(p, t, SendBufferedPackets(p, t, sendq[p]))
    BY <2>1, SocketFacts, SendBufferedEffect
  <2> QED BY <1>1, <2>1, <2>2, <2>3, <2>4, ObserveMoves
<1>3. CASE state[p] # "CookieEchoed"
  BY <1>1, <1>3, PlainAnswer, OnlyObserveMoves DEF HandleCookieAck
<1> QED BY <1>2, <1>3

LEMMA HandleSackMoves ==
    ASSUME Inv, NEW p \in Peers, NEW m \in net, m.to = p, HandleSack(p, m)
    PROVE  Moves(p)
<1> DEFINE t == HandledSack(tcb[p], m)
           down == MaybeSendShutdownOrAck(p, state[p], t)
<1>0. HasTcb(p) /\ tcb[p] # NoTcb /\ m.type = "SACK" /\ m.base = tcb[p].my
  BY DEF HandleSack, ForMe, HasTcb, IsSackValid
<1>1. /\ GoodTcb(t) /\ Lighter(tcb[p], t) /\ AckedBy(tcb[p], m) \subseteq Pool(tcb[p])
      /\ t.cookie = tcb[p].cookie
  BY <1>0, SocketFacts, HandledSackEffect DEF Lighter
<1>2. /\ state' = Set(state, p, down.state)
      /\ Transmit(p, SendBufferedPackets(p, t, sendq[p]), Rest(m) \cup down.packets)
      /\ acked' = Set(acked, p, acked[p] \cup {c.msg : c \in AckedBy(tcb[p], m)})
      /\ UNCHANGED <<tag, drawn, delivered, hadTcb>>
  BY DEF HandleSack
<1> HIDE DEF t
<1>3. down.state = state[p] \/ down.state \in {"ShutdownSent", "ShutdownAckSent"}
  <2>1. t # NoTcb
    BY <1>1, TcbFields DEF GoodTcb
  <2>2. Matches(state[p], t, timer[p])
    BY <1>0, <1>1, <2>1, SocketFacts, MatchesTcb
  <2> QED BY <1>1, <2>2, SocketFacts, MaybeSendShutdownEffect
<1>4. \A k \in Rest(m) \cup down.packets : k \in net \/ Plain(p, k)
  BY PlainPackets DEF Rest, MaybeSendShutdownOrAck
<1> HIDE DEF down
<1>5. Transmission(p, t, SendBufferedPackets(p, t, sendq[p]))
  BY <1>1, SocketFacts, SendBufferedEffect
<1>6. Sends(p, t)
  BY <1>1, <1>2, <1>4, <1>5, TransmitSends
<1>7. /\ \A x \in Peers \ {p} : acked'[x] = acked[x]
      /\ acked'[p] = acked[p] \cup {c.msg : c \in AckedBy(tcb[p], m)}
  BY <1>2, OneSocket
<1>8. \A k \in acked'[p] : k \in acked[p] \/ Learnt(p, k)
  <2> SUFFICES ASSUME NEW c \in AckedBy(tcb[p], m) PROVE Learnt(p, c.msg)
    BY <1>7
  <2>1. c \in Pool(tcb[p]) /\ c.n \in m.acked
    BY <1>1 DEF AckedBy
  <2> QED BY <1>0, <2>1 DEF Learnt
<1> QED BY <1>0, <1>1, <1>2, <1>3, <1>6, <1>7, <1>8, SendsMoves

LEMMA HandleShutdownMoves ==
    ASSUME Inv, NEW p \in Peers, NEW m \in net,
           \/ HandleShutdown(p, m) \/ HandleShutdownAck(p, m)
           \/ HandleShutdownComplete(p, m) \/ HandleAbort(p, m)
    PROVE  Moves(p)
<1>1. CASE HandleShutdown(p, m)
  <2>1. PICK s \in Leaving : state' = Set(state, p, s)
    BY <1>1 DEF HandleShutdown, Leaving, MaybeSendShutdownOrAck
  <2>2. \A k \in net' : k \in net \/ Issued(p, k)
    BY <1>1, PlainPackets, PlainIssued DEF HandleShutdown, Rest, MaybeSendShutdownOrAck
  <2> QED BY <1>1, <2>1, <2>2, StayMoves DEF HandleShutdown, clientVars
<1>2. CASE InternalClose(p, Rest(m))
           \/ InternalClose(p, Rest(m) \cup {ShutdownComplete(Other(p), tcb[p].peer, FALSE)})
  BY <1>2, PlainPackets, CloseMoves DEF Rest
<1>3. CASE /\ net' = Rest(m) \cup {ShutdownComplete(Other(p), m.vtag, TRUE)}
           /\ UNCHANGED <<socketVars, clientVars>>
  <2>1. \A k \in net' : k \in net \/ Issued(p, k)
    BY <1>3, PlainPackets, PlainIssued DEF Rest
  <2>2. state' = Set(state, p, state[p]) /\ UNCHANGED <<tcb, tag, drawn, delivered, acked, hadTcb>>
    BY <1>3, SameState DEF socketVars, clientVars
  <2> QED BY <2>1, <2>2, StayMoves
<1> QED BY <1>1, <1>2, <1>3 DEF HandleShutdownAck, HandleShutdownComplete, HandleAbort

-----------------------------------------------------------------------------
(* The steps that begin something *)

\* The invariant of this module.
PassiveInv(q) == Inv /\ MirrorOK(q) /\ AckOK(q)

\* A connection attempt has a tag that no association had.
LEMMA ConnectKeeps ==
    ASSUME Inv, Inv', NEW q \in Peers, MirrorOK(q), AckOK(q), Connect(q)
    PROVE  MirrorOK(q)' /\ AckOK(q)'
<1> DEFINE z == Other(q)
<1>0. z \in Peers /\ z # q /\ drawn[q] \in Nat
  BY TwoPeers, SocketFacts
<1>1. /\ state'[q] = "CookieWait" /\ drawn'[q] = drawn[q] + 1 /\ tag'[q] = <<q, drawn[q] + 1>>
      /\ \A x \in Peers \ {q} : state'[x] = state[x] /\ drawn'[x] = drawn[x] /\ tag'[x] = tag[x]
      /\ UNCHANGED <<tcb, hadTcb, delivered, acked>>
  BY OneSocket DEF Connect, Draw, clientVars
<1>2. \A m \in net' : m \in net \/ Issued(q, m)
  BY PlainPackets, PlainIssued DEF Connect
<1>3. Alone(q)
  BY <1>1 DEF Alone
<1>4. \A x \in Peers : HasTcb(x)' <=> HasTcb(x)
  BY <1>1 DEF HasTcb
<1>5. \A e \in hadTcb[q] : e[1][1] = q /\ e[1][2] \in Nat /\ e[1][2] <= drawn[q]
  BY Types DEF MirrorOK, PairsOK, Tag
<1> HIDE DEF z
<1>6. PairsOK(q)'
  <2>1. \A e \in hadTcb'[q] : e[1][1] = q /\ e[1][2] <= drawn'[q]
    BY <1>0, <1>1, <1>5
  <2>2. \A x \in Peers : HasTcb(x)' => <<tcb'[x].my, tcb'[x].peer>> \in hadTcb'[x]
    BY <1>1, <1>4 DEF MirrorOK, PairsOK
  <2> QED BY <1>1, <2>1, <2>2 DEF MirrorOK, PairsOK
<1>7. ActiveOK(q)'
  <2>1. \A e \in hadTcb'[q] : e[1] # tag'[q]
    <3>1. \A e \in hadTcb[q] : e[1][2] # drawn[q] + 1
      BY <1>0, <1>5
    <3> QED BY <1>1, <3>1
  <2>2. tag'[q][1] = q /\ tag'[q][2] <= drawn'[q]
    BY <1>0, <1>1
  <2> QED BY <1>1, <1>4, <2>1, <2>2 DEF MirrorOK, ActiveOK
<1>8. PassiveOK(z)'
  BY <1>0, <1>1, <1>4 DEF MirrorOK, PassiveOK, z
<1>9. \A m \in net' : PacketOK(q, m)'
  BY <1>1, <1>2, <1>6, <1>7, <1>8, PacketsStay DEF z
<1>10. AckOK(q)'
  <2>1. tcb'[q] # NoTcb => HasTcb(q) /\ Continues(tcb[q], tcb'[q])
    BY <1>1, ContinuesReflexive DEF HasTcb
  <2> QED BY <1>1, <1>2, <1>3, <1>6, <2>1, AckActive
<1> QED BY <1>6, <1>7, <1>8, <1>9, <1>10 DEF MirrorOK, z

\* Only the socket that connects waits for an INIT ACK, and it takes the one that
\* answers its own INIT.
LEMMA InitAckKeeps ==
    ASSUME Inv, Inv', NEW q \in Peers, MirrorOK(q), AckOK(q), NEW p \in Peers,
           NEW m \in net, m.to = p, HandleInitAck(p, m)
    PROVE  MirrorOK(q)' /\ AckOK(q)'
<1> DEFINE z == Other(q)
           n == NewTcb(tag[q], m.itag, Draw(q))
           t == [n EXCEPT !.cookie = m.cookie]
<1>0. /\ z \in Peers /\ z # q /\ \A x \in Peers : x = q \/ x = z
      /\ drawn[q] \in Nat /\ tag[q] \in Tag
  BY TwoPeers, SocketFacts
<1>1. p = q
  BY <1>0 DEF HandleInitAck, IsExpectedInitAck, MirrorOK, PassiveOK
<1>2. /\ state[q] = "CookieWait" /\ m.vtag = tag[q] /\ ~HasTcb(q)
      /\ m.itag \in Tag /\ m.cookie \in Cookie
      /\ m.cookie.my = m.itag /\ m.cookie.peer = tag[q]
  BY <1>1, PacketFields, Types, SocketFacts
     DEF HandleInitAck, IsExpectedInitAck, MirrorOK, PacketOK, Matches, HasTcb
<1>3. /\ GoodTcb(t) /\ t.cookie = m.cookie /\ t.my = tag[q] /\ t.peer = m.itag
  <2>1. GoodTcb(n)
    BY <1>0, <1>2, SocketFacts, NewTcbGood
  <2>2. n.my = tag[q] /\ n.peer = m.itag
    BY DEF NewTcb
  <2> HIDE DEF n
  <2> QED BY <1>2, <2>1, <2>2, WithCookieEffect
<1>4. /\ Transmit(q, SendBufferedPackets(q, t, sendq[q]), Rest(m))
      /\ UNCHANGED <<tag, delivered, acked>>
  BY <1>1 DEF HandleInitAck
<1> HIDE DEF t, n, z
<1>5. /\ state'[q] = "CookieEchoed" /\ drawn'[q] = drawn[q] + 1
      /\ hadTcb'[q] = hadTcb[q] \cup {<<tag[q], m.itag>>}
      /\ \A x \in Peers \ {q} : /\ state'[x] = state[x] /\ drawn'[x] = drawn[x]
                                /\ hadTcb'[x] = hadTcb[x]
  BY <1>1, OneSocket DEF HandleInitAck
<1>6. Sends(q, t)
  <2>1. Transmission(q, t, SendBufferedPackets(q, t, sendq[q]))
    BY <1>3, SocketFacts, SendBufferedEffect
  <2>2. \A k \in Rest(m) : k \in net \/ Plain(q, k)
    BY DEF Rest
  <2> QED BY <1>3, <1>4, <2>1, <2>2, TransmitSends
<1>7. /\ tcb'[q] # NoTcb /\ tcb'[q].my = tag[q] /\ tcb'[q].peer = m.itag
      /\ tcb'[q].cookie = m.cookie /\ tcb'[z] = tcb[z]
      /\ \A k \in net' : k \in net \/ Issued(q, k)
  BY <1>0, <1>3, <1>6 DEF Sends, Continues
<1>8. Alone(q)
  BY <1>4, <1>5, <1>6 DEF Alone, Sends
<1>9. \A e \in hadTcb[q] : e[1] # tag[q]
  BY <1>2 DEF MirrorOK, ActiveOK
<1>10. PairsOK(q)'
  <2>1. ASSUME NEW x \in Peers, HasTcb(x)' PROVE <<tcb'[x].my, tcb'[x].peer>> \in hadTcb'[x]
    <3>1. CASE x = q
      BY <1>5, <1>7, <3>1
    <3>2. CASE x = z
      <4>1. HasTcb(z) /\ tcb'[z] = tcb[z] /\ hadTcb'[z] = hadTcb[z]
        BY <1>0, <1>5, <1>7, <2>1, <3>2 DEF HasTcb
      <4>2. <<tcb[z].my, tcb[z].peer>> \in hadTcb[z]
        BY <1>0, <4>1 DEF MirrorOK, PairsOK
      <4> QED BY <3>2, <4>1, <4>2
    <3> QED BY <1>0, <3>1, <3>2
  <2>2. \A e \in hadTcb'[z] : Mirrored(e) \in hadTcb'[q]
    <3>1. \A e \in hadTcb[z] : Mirrored(e) \in hadTcb[q]
      BY DEF MirrorOK, PairsOK, z
    <3> QED BY <1>0, <1>5, <3>1
  <2>3. \A e, f \in hadTcb'[q] : e[1] = f[1] => e = f
    <3>1. \A e, f \in hadTcb[q] : e[1] = f[1] => e = f
      BY DEF MirrorOK, PairsOK
    <3>2. <<tag[q], m.itag>>[1] = tag[q]
      OBVIOUS
    <3> DEFINE g == <<tag[q], m.itag>>
    <3> HIDE DEF g
    <3>3. hadTcb'[q] = hadTcb[q] \cup {g} /\ g[1] = tag[q]
      BY <1>5, <3>2 DEF g
    <3> QED BY <1>9, <3>1, <3>3
  <2>4. \A e \in hadTcb'[q] : e[1][1] = q /\ e[1][2] <= drawn'[q]
    <3>1. \A e \in hadTcb[q] : e[1][1] = q /\ e[1][2] \in Nat /\ e[1][2] <= drawn[q]
      BY Types DEF MirrorOK, PairsOK, Tag
    <3>2. tag[q][1] = q /\ tag[q][2] \in Nat /\ tag[q][2] <= drawn[q]
      BY <1>0 DEF MirrorOK, ActiveOK, Tag
    <3>3. \A e \in hadTcb'[q] : e \in hadTcb[q] \/ e[1] = tag[q]
      BY <1>5
    <3>4. \A e \in hadTcb'[q] : e[1][1] = q /\ e[1][2] \in Nat /\ e[1][2] <= drawn[q]
      BY <3>1, <3>2, <3>3
    <3> QED BY <1>0, <1>5, <3>4
  <2> QED BY <2>1, <2>2, <2>3, <2>4 DEF PairsOK, z
<1>11. ActiveOK(q)'
  <2>1. tag'[q][1] = q /\ tag'[q][2] <= drawn'[q]
    <3>1. tag[q][1] = q /\ tag[q][2] \in Nat /\ tag[q][2] <= drawn[q]
      BY <1>0 DEF MirrorOK, ActiveOK, Tag
    <3> QED BY <1>0, <1>4, <1>5, <3>1
  <2> QED BY <1>2, <1>5, <1>7, <2>1 DEF ActiveOK
<1>12. PassiveOK(z)'
  <2>1. HasTcb(z)' <=> HasTcb(z)
    BY <1>7 DEF HasTcb
  <2> QED BY <1>0, <1>5, <1>7, <2>1 DEF MirrorOK, PassiveOK, z
<1>13. \A k \in net' : PacketOK(q, k)'
  <2>1. \A x \in Peers : hadTcb[x] \subseteq hadTcb'[x]
    BY <1>5
  <2> QED BY <1>7, <1>10, <1>11, <1>12, <2>1, PacketsStay DEF z
<1>14. AckOK(q)'
  BY <1>2, <1>4, <1>5, <1>7, <1>8, <1>9, <1>10, AckActive
<1> QED BY <1>10, <1>11, <1>12, <1>13, <1>14 DEF MirrorOK, z

\* The passive socket builds its TCB from a cookie that q echoed.
LEMMA NewCookieKeeps ==
    ASSUME Inv, Inv', NEW q \in Peers, MirrorOK(q), AckOK(q), NEW p \in Peers,
           NEW m \in net, m.to = p, m.type = "COOKIE_ECHO", AcceptCookie(p, m, NoTcb)
    PROVE  MirrorOK(q)' /\ AckOK(q)'
<1> DEFINE t == NewTcb(m.cookie.my, m.cookie.peer, Draw(p))
<1>0. /\ p = Other(q) /\ p # q /\ \A x \in Peers : x = q \/ x = p
      /\ <<m.cookie.peer, m.cookie.my>> \in hadTcb[q]
  BY TwoPeers DEF MirrorOK, PacketOK
<1>1. /\ m.data \subseteq Chunk /\ m.cookie.my \in Tag /\ m.cookie.peer \in Tag
      /\ m.type \in Carriers /\ Draw(p) \in Tag /\ drawn[p] \in Nat
  BY PacketFields, Types, SocketFacts DEF Cookie, Carriers
<1>2. /\ GoodTcb(t) /\ t.my = m.cookie.my /\ t.peer = m.cookie.peer /\ t.cookie = NoCookie
      /\ t.rx = {}
  BY <1>1, NewTcbGood DEF NewTcb
<1>3. /\ Observe(p, m, SendCookieAck(p, t, sendq[p]), ShutdownOnPacketReceived(p, m))
      /\ state' = Set(state, p, "Established") /\ drawn' = Set(drawn, p, drawn[p] + 1)
      /\ hadTcb' = Set(hadTcb, p, hadTcb[p] \cup {<<t.my, t.peer>>})
      /\ UNCHANGED <<tag, acked>>
  BY DEF AcceptCookie
<1> HIDE DEF t
<1>4. /\ state'[p] = "Established" /\ drawn'[p] = drawn[p] + 1
      /\ hadTcb'[p] = hadTcb[p] \cup {<<t.my, t.peer>>}
      /\ state'[q] = state[q] /\ drawn'[q] = drawn[q] /\ hadTcb'[q] = hadTcb[q]
  BY <1>0, <1>3, OneSocket
<1>5. Sends(p, t)
  <2>1. Transmission(p, t, SendCookieAck(p, t, sendq[p]))
    BY <1>2, SocketFacts, SendCookieAckEffect
  <2>2. \A k \in ShutdownOnPacketReceived(p, m) : k \in net \/ Plain(p, k)
    BY PlainAnswer
  <2> QED BY <1>1, <1>2, <1>3, <2>1, <2>2, ObserveSends
<1>6. /\ tcb'[p] # NoTcb /\ tcb'[p].my = t.my /\ tcb'[p].peer = t.peer
      /\ tcb'[p].cookie = NoCookie /\ tcb'[q] = tcb[q] /\ delivered'[q] = delivered[q]
      /\ Took(p, t.rx) /\ delivered[p] \subseteq delivered'[p]
      /\ \A k \in net' : k \in net \/ Issued(p, k)
  BY <1>0, <1>2, <1>5 DEF Sends, Continues
<1>7. Alone(p)
  BY <1>0, <1>3, <1>4, <1>6 DEF Alone
<1>8. HasTcb(q)' <=> HasTcb(q)
  BY <1>6 DEF HasTcb
<1>9. PairsOK(q)'
  <2>1. ASSUME NEW x \in Peers, HasTcb(x)' PROVE <<tcb'[x].my, tcb'[x].peer>> \in hadTcb'[x]
    <3>1. CASE x = p
      BY <1>4, <1>6, <3>1
    <3>2. CASE x = q
      <4>1. <<tcb[q].my, tcb[q].peer>> \in hadTcb[q]
        BY <1>8, <2>1, <3>2 DEF MirrorOK, PairsOK
      <4> QED BY <1>4, <1>6, <3>2, <4>1
    <3> QED BY <1>0, <3>1, <3>2
  <2>2. \A e \in hadTcb'[p] : Mirrored(e) \in hadTcb'[q]
    <3>1. \A e \in hadTcb[p] : Mirrored(e) \in hadTcb[q]
      BY <1>0 DEF MirrorOK, PairsOK
    <3>2. Mirrored(<<t.my, t.peer>>) \in hadTcb[q]
      BY <1>0, <1>2 DEF Mirrored
    <3> QED BY <1>4, <3>1, <3>2
  <2>3. /\ \A e, f \in hadTcb'[q] : e[1] = f[1] => e = f
        /\ \A e \in hadTcb'[q] : e[1][1] = q /\ e[1][2] <= drawn'[q]
    BY <1>4 DEF MirrorOK, PairsOK
  <2> QED BY <1>0, <2>1, <2>2, <2>3 DEF PairsOK
<1>10. ActiveOK(q)'
  <2>1. hadTcb[p] \subseteq hadTcb'[p] /\ tag'[q] = tag[q]
    BY <1>3, <1>4
  <2>2. ActiveOK(q)
    BY DEF MirrorOK
  <2> QED BY <1>0, <1>4, <1>6, <1>8, <2>1, <2>2 DEF ActiveOK
<1>11. PassiveOK(p)'
  BY <1>4, <1>6 DEF PassiveOK
<1>12. \A k \in net' : PacketOK(q, k)'
  <2>1. \A x \in Peers : hadTcb[x] \subseteq hadTcb'[x]
    BY <1>0, <1>4
  <2>2. PassiveOK(Other(q))'
    BY <1>0, <1>11
  <2> QED BY <1>6, <1>9, <1>10, <2>1, <2>2, PacketsStay
<1>13. AckOK(q)'
  <2>1. \A n \in t.rx : Heard(q, tcb'[p].peer, n)
    BY <1>2
  <2> QED BY <1>0, <1>6, <1>7, <2>1, AckPassive
<1> QED BY <1>0, <1>9, <1>10, <1>11, <1>12, <1>13 DEF MirrorOK

-----------------------------------------------------------------------------
(* The invariant, and what follows from it *)

LEMMA InitPassive ==
    ASSUME NEW q \in Peers
    PROVE  Init => PassiveInv(q)
<1> SUFFICES ASSUME Init PROVE PassiveInv(q)
  OBVIOUS
<1>1. Other(q) \in Peers
  BY TwoPeers
<1>2. \A x \in Peers : /\ state[x] = "Closed" /\ tcb[x] = NoTcb /\ ~HasTcb(x)
                       /\ hadTcb[x] = {} /\ acked[x] = {} /\ drawn[x] = 0 /\ tag[x] = <<x, 0>>
  BY DEF Init, HasTcb, Zero
<1>3. net = {}
  BY DEF Init
<1>4. MirrorOK(q)
  BY <1>1, <1>2, <1>3 DEF MirrorOK, PairsOK, ActiveOK, PassiveOK
<1>5. AckOK(q)
  BY <1>1, <1>2, <1>3 DEF AckOK, Carried, Afloat
<1> QED BY <1>4, <1>5, InitInv DEF PassiveInv

LEMMA NextPassive ==
    ASSUME NEW q \in Peers, MaxConnects[Other(q)] = 0
    PROVE  PassiveInv(q) /\ [Next]_vars => PassiveInv(q)'
<1> SUFFICES ASSUME PassiveInv(q), [Next]_vars PROVE PassiveInv(q)'
  OBVIOUS
<1>0. Inv /\ Inv' /\ MirrorOK(q) /\ AckOK(q)
  BY NextInv DEF PassiveInv
<1>1. CASE UNCHANGED vars
  <2>1. MirrorOK(q)'
    BY <1>0, <1>1 DEF MirrorOK, PairsOK, ActiveOK, PassiveOK, PacketOK, HasTcb,
                      vars, socketVars, clientVars
  <2>2. AckOK(q)'
    BY <1>0, <1>1 DEF AckOK, Heard, Assigned, Afloat, Carried, HasTcb,
                      vars, socketVars, clientVars
  <2> QED BY <1>0, <2>1, <2>2 DEF PassiveInv
<1>2. ASSUME NEW p \in Peers, Moves(p) PROVE PassiveInv(q)'
  BY <1>0, <1>2, MoveMirror, MoveAck DEF PassiveInv
<1>3. ASSUME NEW p \in Peers, NEW m \in net, m.to = p, Handle(p, m) PROVE PassiveInv(q)'
  <2>1. CASE HandleInit(p, m)
    BY <1>0, <1>2, <2>1, HandleInitMoves
  <2>2. CASE HandleInitAck(p, m)
    BY <1>0, <1>3, <2>2, InitAckKeeps DEF PassiveInv
  <2>3. CASE HandleCookieEcho(p, m)
    <3>0. m.type = "COOKIE_ECHO"
      BY <2>3 DEF HandleCookieEcho
    <3>1. CASE AcceptCookie(p, m, NoTcb)
      BY <1>0, <1>3, <3>0, <3>1, NewCookieKeeps DEF PassiveInv
    <3>2. CASE HasTcb(p) /\ AcceptCookie(p, m, tcb[p])
      BY <1>0, <1>2, <1>3, <3>0, <3>2, KeepCookieMoves
    <3>3. ASSUME HasTcb(p), NEW packets, RejectCookie(p, m, packets), \A k \in packets : Plain(p, k)
          PROVE  PassiveInv(q)'
      BY <1>0, <1>2, <1>3, <3>0, <3>3, RejectCookieMoves
    <3>4. Plain(p, Control("SHUTDOWN_ACK", Other(p), m.cookie.peer))
      BY PlainPackets
    <3> QED BY <2>3, <3>1, <3>2, <3>3, <3>4 DEF HandleCookieEcho
  <2>4. CASE HandleCookieAck(p, m)
    BY <1>0, <1>2, <1>3, <2>4, HandleCookieAckMoves
  <2>5. CASE HandleData(p, m)
    BY <1>0, <1>2, <1>3, <2>5, HandleDataMoves
  <2>6. CASE HandleSack(p, m)
    BY <1>0, <1>2, <1>3, <2>6, HandleSackMoves
  <2>7. CASE \/ HandleShutdown(p, m) \/ HandleShutdownAck(p, m)
             \/ HandleShutdownComplete(p, m) \/ HandleAbort(p, m)
    BY <1>0, <1>2, <1>3, <2>7, HandleShutdownMoves
  <2> QED BY <1>3, <2>1, <2>2, <2>3, <2>4, <2>5, <2>6, <2>7 DEF Handle
<1>4. ASSUME NEW p \in Peers, Connect(p) PROVE PassiveInv(q)'
  <2>1. p = q
    <3>1. connects[p] \in Nat /\ connects[p] < MaxConnects[p]
      BY <1>0, <1>4, SocketFacts DEF Connect
    <3>2. p # Other(q)
      BY <3>1
    <3> QED BY <3>2, TwoPeers
  <2> QED BY <1>0, <1>4, <2>1, ConnectKeeps DEF PassiveInv
<1>5. CASE Next
  <2>1. PICK p \in Peers :
          \/ Connect(p) \/ ShutdownUnconnected(p) \/ Shutdown(p) \/ Close(p)
          \/ Send(p)
          \/ OnInitTimerExpiry(p) \/ OnCookieTimerExpiry(p)
          \/ OnShutdownTimerExpiry(p) \/ OnRtxTimerExpiry(p)
          \/ Receive(p)
    BY <1>5 DEF Next
  <2>2. CASE Receive(p)
    BY <1>3, <2>2 DEF Receive
  <2>3. CASE Moves(p)
    BY <1>2, <2>3
  <2> QED BY <1>0, <1>4, <2>1, <2>2, <2>3, ClientMoves, SendMoves, TimerMoves
<1> QED BY <1>1, <1>5

LEMMA MirrorsExist ==
    ASSUME NEW q \in Peers
    PROVE  PassiveInv(q) => PeerHasMirrorTcb
<1> SUFFICES ASSUME PassiveInv(q), NEW p \in Peers, state[p] = "Established"
             PROVE  <<tcb[p].peer, tcb[p].my>> \in hadTcb[Other(p)]
  BY DEF PeerHasMirrorTcb
<1>1. CASE p = q
  BY <1>1 DEF PassiveInv, MirrorOK, ActiveOK
<1>2. CASE p # q
  <2>1. p = Other(q) /\ Other(p) = q
    BY <1>2, TwoPeers
  <2>2. HasTcb(p)
    BY SocketFacts DEF PassiveInv, Matches, HasTcb
  <2>3. <<tcb[p].my, tcb[p].peer>> \in hadTcb[p]
    BY <2>2 DEF PassiveInv, MirrorOK, PairsOK
  <2>4. Mirrored(<<tcb[p].my, tcb[p].peer>>) \in hadTcb[q]
    BY <2>1, <2>3 DEF PassiveInv, MirrorOK, PairsOK
  <2> QED BY <2>1, <2>4 DEF Mirrored
<1> QED BY <1>1, <1>2

\* If only one socket connects, then whatever is lost, repeated, restarted or
\* closed in between, a socket in kEstablished is not alone: its peer has had a
\* TCB with the same two tags.
THEOREM NobodyIsAlone ==
    ASSUME NEW q \in Peers, MaxConnects[Other(q)] = 0
    PROVE  Spec => []PeerHasMirrorTcb
<1> QED BY InitPassive, NextPassive, MirrorsExist, PTL DEF Spec

\* Under the same condition every message of that socket which a SACK
\* acknowledged was handed to the client of the other, however many messages the
\* two sockets send and however many associations they have had.
THEOREM AcksAreTrue ==
    ASSUME NEW q \in Peers, MaxConnects[Other(q)] = 0
    PROVE  Spec => [](acked[q] \subseteq delivered[Other(q)])
<1>1. PassiveInv(q) => acked[q] \subseteq delivered[Other(q)]
  BY DEF PassiveInv, AckOK
<1> QED BY <1>1, InitPassive, NextPassive, PTL DEF Spec

-----------------------------------------------------------------------------
(* A socket whose client never sends *)

\* Nothing is queued, outstanding or acknowledged.
Silent(z) ==
    /\ sendq[z] = <<>> /\ acked[z] = {}
    /\ HasTcb(z) => Pool(tcb[z]) = {}

LEMMA NoChunks ==
    ASSUME NEW t, GoodTcb(t), Pool(t) = {}, NEW limit \in Nat,
           NEW g, g = GetChunksToSend(t, <<>>, limit)
    PROVE  g.q = <<>> /\ Pool(g.tcb) = {}
<1> DEFINE again == {c \in t.rtx : Cardinality({d \in t.rtx : d.n < c.n}) < limit}
           room == limit - Cardinality(again)
           k == IF Len(<<>>) < room THEN Len(<<>>) ELSE room
           fresh == {[base |-> t.my, n |-> t.next + i - 1, msg |-> <<>>[i]] : i \in 1..k}
<1>0. t \in Tcb /\ t.inflight = {} /\ t.rtx = {}
  BY DEF GoodTcb, Pool
<1>1. again = {}
  BY <1>0
<1>2. Cardinality(again) = 0
  BY <1>1, FS_EmptySet
<1>3. k = 0
  BY <1>2
<1>4. fresh = {}
  BY <1>3
<1>5. /\ g.tcb = [t EXCEPT !.next = t.next + k, !.rtx = t.rtx \ again,
                            !.inflight = t.inflight \cup again \cup fresh]
      /\ g.q = SubSeq(<<>>, k + 1, Len(<<>>))
  <2> HIDE DEF again, fresh
  <2> QED BY DEF GetChunksToSend, again, fresh
<1> HIDE DEF again, room, k, fresh
<1>6. g.tcb.rtx = {} /\ g.tcb.inflight = {}
  BY <1>0, <1>1, <1>4, <1>5 DEF Tcb
<1>7. g.q = <<>>
  <2> DEFINE none == <<>>
  <2>1. none \in Seq(Nat) /\ Len(none) = 0
    OBVIOUS
  <2>2. SubSeq(none, 1, 0) = <<>>
    BY SubSeqEmpty
  <2>3. g.q = SubSeq(none, k + 1, Len(none))
    BY <1>5
  <2> HIDE DEF none
  <2>4. k + 1 = 1
    BY <1>3
  <2> QED BY <2>1, <2>2, <2>3, <2>4
<1> QED BY <1>6, <1>7 DEF Pool

LEMMA NothingSent ==
    ASSUME NEW p \in Peers, NEW t, GoodTcb(t), Pool(t) = {},
           NEW s, s = SendBufferedPackets(p, t, <<>>) \/ s = SendCookieAck(p, t, <<>>)
    PROVE  s.q = <<>> /\ Pool(s.tcb) = {}
<1> DEFINE few == GetChunksToSend(t, <<>>, IF Room(t) = 0 THEN 0 ELSE 1)
           many == GetChunksToSend(t, <<>>, Room(t))
<1>1. Room(t) \in Nat /\ (IF Room(t) = 0 THEN 0 ELSE 1) \in Nat
  BY RoomType
<1>2. few.q = <<>> /\ Pool(few.tcb) = {} /\ many.q = <<>> /\ Pool(many.tcb) = {}
  BY <1>1, NoChunks
<1>3. \/ s.tcb = t /\ s.q = <<>>
      \/ s.tcb = few.tcb /\ s.q = few.q
      \/ s.tcb = many.tcb /\ s.q = many.q
  <2>1. CASE s = SendBufferedPackets(p, t, <<>>)
    <3> HIDE DEF few, many
    <3> QED BY <2>1 DEF SendBufferedPackets, few, many
  <2>2. CASE s = SendCookieAck(p, t, <<>>)
    <3> HIDE DEF many
    <3> QED BY <2>2 DEF SendCookieAck, many
  <2> QED BY <2>1, <2>2
<1> HIDE DEF few, many
<1> QED BY <1>2, <1>3

\* A step that gives socket p the TCB u and the queue b.
LEMMA SilentSet ==
    ASSUME Inv, NEW z \in Peers, Silent(z), NEW p \in Peers, NEW u, NEW b,
           tcb' = Set(tcb, p, u), sendq' = Set(sendq, p, b), acked'[z] = {},
           p = z => b = <<>> /\ (u # NoTcb => Pool(u) = {})
    PROVE  Silent(z)'
<1>1. sendq \in [Peers -> Seq(Nat)] /\ tcb \in [Peers -> Tcb \cup {NoTcb}]
  BY DEF Inv, TypeOK
<1>2. CASE p = z
  <2>1. tcb'[z] = u /\ sendq'[z] = b
    BY <1>1, <1>2, Elsewhere DEF Set
  <2> QED BY <1>2, <2>1 DEF Silent, HasTcb
<1>3. CASE p # z
  <2>1. tcb'[z] = tcb[z] /\ sendq'[z] = sendq[z]
    BY <1>1, <1>3, Elsewhere DEF Set
  <2> QED BY <2>1 DEF Silent, HasTcb
<1> QED BY <1>2, <1>3

LEMMA SilentClose ==
    ASSUME Inv, NEW z \in Peers, Silent(z), NEW p \in Peers, NEW packets,
           InternalClose(p, packets)
    PROVE  Silent(z)'
<1>1. tcb' = Set(tcb, p, NoTcb) /\ sendq' = sendq /\ acked' = acked
  BY DEF InternalClose, clientVars
<1>2. sendq' = Set(sendq, p, sendq[p])
  BY <1>1, NoChange, Types DEF Set, Inv, TypeOK
<1> QED BY <1>1, <1>2, SilentSet DEF Silent

\* What a silent socket transmits, and what it observes, leave it silent.
LEMMA SilentTransmit ==
    ASSUME Inv, NEW z \in Peers, Silent(z), NEW p \in Peers, NEW t, GoodTcb(t),
           NEW b, NEW packets, Transmit(p, SendBufferedPackets(p, t, b), packets),
           p = z => b = <<>> /\ Pool(t) = {}, acked'[z] = {}
    PROVE  Silent(z)'
<1> DEFINE s == SendBufferedPackets(p, t, b)
<1>1. tcb' = Set(tcb, p, s.tcb) /\ sendq' = Set(sendq, p, s.q)
  BY DEF Transmit
<1>2. p = z => s.q = <<>> /\ Pool(s.tcb) = {}
  BY NothingSent
<1> HIDE DEF s
<1> QED BY <1>1, <1>2, SilentSet

LEMMA SilentObserve ==
    ASSUME Inv, NEW z \in Peers, Silent(z), NEW p \in Peers, NEW m, m.data \subseteq Chunk,
           NEW s, s.tcb # NoTcb, GoodTcb(s.tcb), NEW packets, Observe(p, m, s, packets),
           p = z => s.q = <<>> /\ Pool(s.tcb) = {}, acked' = acked
    PROVE  Silent(z)'
<1> DEFINE u == ObserveData(s.tcb, m.data)
<1>1. tcb' = Set(tcb, p, u) /\ sendq' = Set(sendq, p, s.q)
  BY DEF Observe
<1>2. Pool(u) = Pool(s.tcb)
  BY ObserveEffect
<1>3. acked'[z] = {}
  BY DEF Silent
<1> HIDE DEF u
<1> QED BY <1>1, <1>2, <1>3, SilentSet

LEMMA SilentCookieEcho ==
    ASSUME Inv, NEW z \in Peers, Silent(z), NEW p \in Peers, NEW m \in net,
           HandleCookieEcho(p, m)
    PROVE  Silent(z)'
<1>0. /\ m.data \subseteq Chunk /\ m.cookie.my \in Tag /\ m.cookie.peer \in Tag
      /\ Draw(p) \in Tag /\ sendq[p] \in Seq(Nat)
  BY PacketFields, Types, SocketFacts DEF Cookie, HandleCookieEcho
<1>1. ASSUME NEW t, GoodTcb(t), p = z => Pool(t) = {}, acked' = acked, NEW packets,
             Observe(p, m, SendCookieAck(p, t, sendq[p]), packets)
      PROVE  Silent(z)'
  <2> DEFINE s == SendCookieAck(p, t, sendq[p])
  <2>1. Transmission(p, t, s)
    BY <1>0, <1>1, SendCookieAckEffect
  <2>2. p = z => s.q = <<>> /\ Pool(s.tcb) = {}
    BY <1>1, NothingSent DEF Silent
  <2> HIDE DEF s
  <2>3. GoodTcb(s.tcb) /\ s.tcb # NoTcb
    BY <2>1, TcbFields DEF Transmission, GoodTcb
  <2>4. Observe(p, m, s, packets)
    BY <1>1 DEF s
  <2> QED BY <1>0, <1>1, <2>2, <2>3, <2>4, SilentObserve
<1>2. CASE AcceptCookie(p, m, NoTcb)
  <2> DEFINE t == NewTcb(m.cookie.my, m.cookie.peer, Draw(p))
  <2>1. GoodTcb(t) /\ Pool(t) = {}
    BY <1>0, NewTcbGood DEF NewTcb, Pool
  <2>2. /\ Observe(p, m, SendCookieAck(p, t, sendq[p]), ShutdownOnPacketReceived(p, m))
        /\ acked' = acked
    BY <1>2 DEF AcceptCookie
  <2> HIDE DEF t
  <2> QED BY <1>1, <2>1, <2>2
<1>3. CASE HasTcb(p) /\ AcceptCookie(p, m, tcb[p])
  <2> DEFINE t == IF state[p] = "Established" THEN tcb[p]
                  ELSE [tcb[p] EXCEPT !.cookie = NoCookie]
  <2>1. GoodTcb(tcb[p]) /\ (p = z => Pool(tcb[p]) = {})
    BY <1>3, SocketFacts DEF Silent
  <2>2. GoodTcb(t) /\ (p = z => Pool(t) = {})
    BY <2>1, WithCookieEffect
  <2>3. /\ Observe(p, m, SendCookieAck(p, t, sendq[p]), ShutdownOnPacketReceived(p, m))
        /\ acked' = acked
    BY <1>3 DEF AcceptCookie, HasTcb
  <2> HIDE DEF t
  <2> QED BY <1>1, <2>2, <2>3
<1>4. ASSUME HasTcb(p), NEW packets, RejectCookie(p, m, packets)
      PROVE  Silent(z)'
  <2> DEFINE s == Nothing(p)
  <2>1. s.tcb = tcb[p] /\ s.q = sendq[p]
    BY DEF Nothing
  <2>2. /\ Observe(p, m, s, ShutdownOnPacketReceived(p, m) \cup packets)
        /\ acked' = acked
    BY <1>4 DEF RejectCookie
  <2> HIDE DEF s
  <2>3. s.tcb # NoTcb /\ GoodTcb(s.tcb) /\ (p = z => s.q = <<>> /\ Pool(s.tcb) = {})
    BY <1>4, <2>1, SocketFacts DEF Silent, HasTcb
  <2> QED BY <1>0, <2>2, <2>3, SilentObserve
<1> QED BY <1>2, <1>3, <1>4 DEF HandleCookieEcho

LEMMA SilentReceive ==
    ASSUME Inv, NEW z \in Peers, Silent(z), NEW p \in Peers, NEW m \in net, Handle(p, m)
    PROVE  Silent(z)'
<1>0. /\ sendq[p] \in Seq(Nat) /\ tag[p] \in Tag /\ Draw(p) \in Tag
      /\ HasTcb(p) => GoodTcb(tcb[p])
      /\ p = z => sendq[p] = <<>> /\ (HasTcb(p) => Pool(tcb[p]) = {})
      /\ m.type = "INIT_ACK" => m.itag \in Tag /\ m.cookie \in Cookie
      /\ m.type \in {"COOKIE_ACK", "DATA"} => m.data \subseteq Chunk
  BY SocketFacts, PacketFields, Types DEF Silent
<1>1. CASE UNCHANGED <<tcb, sendq, acked>>
  BY <1>1 DEF Silent, HasTcb
<1>2. CASE HandleInitAck(p, m)
  <2> DEFINE n == NewTcb(tag[p], m.itag, Draw(p))
             t == [n EXCEPT !.cookie = m.cookie]
  <2>1. GoodTcb(n) /\ Pool(n) = {} /\ m.cookie \in Cookie
    BY <1>0, <1>2, NewTcbGood DEF NewTcb, Pool, HandleInitAck
  <2>2. GoodTcb(t) /\ Pool(t) = {}
    <3> HIDE DEF n
    <3> QED BY <2>1, WithCookieEffect
  <2>3. Transmit(p, SendBufferedPackets(p, t, sendq[p]), Rest(m)) /\ acked' = acked
    BY <1>2 DEF HandleInitAck
  <2> HIDE DEF t
  <2>4. acked'[z] = {}
    BY <2>3 DEF Silent
  <2> QED BY <1>0, <2>2, <2>3, <2>4, SilentTransmit
<1>3. ASSUME HasTcb(p), NEW packets, Observe(p, m, Nothing(p), packets), acked' = acked,
             m.data \subseteq Chunk
      PROVE  Silent(z)'
  <2> DEFINE s == Nothing(p)
  <2>1. s.tcb = tcb[p] /\ s.q = sendq[p] /\ Observe(p, m, s, packets)
    BY <1>3 DEF Nothing
  <2> HIDE DEF s
  <2>2. s.tcb # NoTcb /\ GoodTcb(s.tcb) /\ (p = z => s.q = <<>> /\ Pool(s.tcb) = {})
    BY <1>0, <1>3, <2>1 DEF HasTcb
  <2> QED BY <1>3, <2>1, <2>2, SilentObserve
<1>4. CASE HandleCookieAck(p, m)
  <2>0. HasTcb(p) /\ m.data \subseteq Chunk /\ acked' = acked
    BY <1>0, <1>4 DEF HandleCookieAck, ForMe
  <2>1. CASE state[p] = "CookieEchoed"
    <3> DEFINE t == [tcb[p] EXCEPT !.cookie = NoCookie]
               s == SendBufferedPackets(p, t, sendq[p])
               none == {}
    <3>0. GoodTcb(tcb[p]) /\ (p = z => Pool(tcb[p]) = {})
      BY <1>0, <2>0
    <3>1. GoodTcb(t) /\ (p = z => Pool(t) = {})
      BY <3>0, WithCookieEffect
    <3>2. Observe(p, m, s, none)
      BY <1>4, <2>1 DEF HandleCookieAck
    <3> HIDE DEF t, none
    <3>3. Transmission(p, t, s) /\ (p = z => s.q = <<>> /\ Pool(s.tcb) = {})
      BY <1>0, <3>1, SendBufferedEffect, NothingSent
    <3> HIDE DEF s
    <3>4. GoodTcb(s.tcb) /\ s.tcb # NoTcb
      BY <3>3, TcbFields DEF Transmission, GoodTcb
    <3> QED BY <2>0, <3>2, <3>3, <3>4, SilentObserve
  <2>2. CASE state[p] # "CookieEchoed"
    BY <1>3, <1>4, <2>0, <2>2 DEF HandleCookieAck
  <2> QED BY <2>1, <2>2
<1>5. CASE HandleData(p, m)
  BY <1>0, <1>3, <1>5 DEF HandleData, ForMe
<1>6. CASE HandleSack(p, m)
  <2> DEFINE t == HandledSack(tcb[p], m)
             known == {c.msg : c \in AckedBy(tcb[p], m)}
  <2>0. HasTcb(p)
    BY <1>6 DEF HandleSack, ForMe
  <2>1. /\ GoodTcb(t) /\ (p = z => Pool(t) = {})
        /\ AckedBy(tcb[p], m) \subseteq Pool(tcb[p])
    BY <1>0, <2>0, HandledSackEffect
  <2>2. /\ \E packets : Transmit(p, SendBufferedPackets(p, t, sendq[p]), packets)
        /\ acked' = Set(acked, p, acked[p] \cup known)
    BY <1>6 DEF HandleSack
  <2> HIDE DEF t
  <2>3. p = z => known = {}
    BY <1>0, <2>0, <2>1
  <2> HIDE DEF known
  <2>4. acked'[z] = {}
    <3>1. CASE p = z
      BY <2>2, <2>3, <3>1, OneSocket DEF Silent
    <3>2. CASE p # z
      BY <2>2, <3>2, OneSocket DEF Silent
    <3> QED BY <3>1, <3>2
  <2> QED BY <1>0, <2>1, <2>2, <2>4, SilentTransmit
<1>7. CASE HandleInit(p, m) \/ HandleShutdown(p, m)
  BY <1>1, <1>7 DEF HandleInit, AnswerInit, HandleShutdown, clientVars
<1>8. CASE HandleShutdownAck(p, m) \/ HandleShutdownComplete(p, m) \/ HandleAbort(p, m)
  BY <1>1, <1>8, SilentClose
     DEF HandleShutdownAck, HandleShutdownComplete, HandleAbort, socketVars, clientVars
<1>9. CASE HandleCookieEcho(p, m)
  BY <1>9, SilentCookieEcho
<1> QED BY <1>2, <1>4, <1>5, <1>6, <1>7, <1>8, <1>9 DEF Handle

LEMMA NextSilent ==
    ASSUME NEW z \in Peers, MaxSends[z] = 0
    PROVE  Inv /\ Silent(z) /\ [Next]_vars => Silent(z)'
<1> SUFFICES ASSUME Inv, Silent(z), [Next]_vars PROVE Silent(z)'
  OBVIOUS
<1>0. CASE UNCHANGED <<tcb, sendq, acked>>
  BY <1>0 DEF Silent, HasTcb
<1>1. ASSUME NEW p \in Peers
      PROVE  /\ sendq[p] \in Seq(Nat) /\ (HasTcb(p) => GoodTcb(tcb[p]))
             /\ p = z => sendq[p] = <<>> /\ (HasTcb(p) => Pool(tcb[p]) = {})
             /\ acked' = acked => acked'[z] = {}
  BY <1>1, SocketFacts DEF Silent
<1>2. ASSUME NEW p \in Peers, Send(p) PROVE Silent(z)'
  <2> DEFINE b == Append(sendq[p], sends[p] + 1)
  <2>1. p # z
    BY <1>2, SocketFacts DEF Send
  <2>2. acked' = acked
    BY <1>2 DEF Send, clientVars
  <2>3. CASE HasTcb(p)
    <3>1. Transmit(p, SendBufferedPackets(p, tcb[p], b), net)
      BY <1>2, <2>3 DEF Send
    <3> HIDE DEF b
    <3> QED BY <1>1, <2>1, <2>2, <2>3, <3>1, SilentTransmit
  <2>4. CASE ~HasTcb(p)
    <3>1. sendq' = Set(sendq, p, b) /\ tcb' = tcb
      BY <1>2, <2>4 DEF Send
    <3> HIDE DEF b
    <3>2. tcb' = Set(tcb, p, tcb[p])
      BY <3>1, NoChange DEF Set, Inv, TypeOK
    <3> QED BY <1>1, <2>1, <2>2, <3>1, <3>2, SilentSet
  <2> QED BY <2>3, <2>4
<1>3. ASSUME NEW p \in Peers, OnCookieTimerExpiry(p) \/ OnRtxTimerExpiry(p) PROVE Silent(z)'
  <2>1. CASE InternalClose(p, net) \/ InternalClose(p, net \cup {Abort(p)})
    BY <2>1, SilentClose
  <2>2. CASE /\ OnCookieTimerExpiry(p)
             /\ Transmit(p, SendBufferedPackets(p, tcb[p], sendq[p]), net) /\ acked' = acked
    <3>1. HasTcb(p)
      BY <2>2, SocketFacts DEF OnCookieTimerExpiry, Matches, HasTcb
    <3> QED BY <1>1, <2>2, <3>1, SilentTransmit
  <2>3. CASE /\ OnRtxTimerExpiry(p)
             /\ Transmit(p, SendBufferedPackets(p, Nacked(tcb[p]), sendq[p]), net)
             /\ acked' = acked
    <3>1. HasTcb(p)
      BY <2>3 DEF OnRtxTimerExpiry
    <3>2. GoodTcb(Nacked(tcb[p])) /\ Pool(Nacked(tcb[p])) = Pool(tcb[p])
      BY <1>1, <3>1, NackedEffect
    <3> QED BY <1>1, <2>3, <3>1, <3>2, SilentTransmit
  <2> QED BY <1>3, <2>1, <2>2, <2>3 DEF OnCookieTimerExpiry, OnRtxTimerExpiry, clientVars
<1>4. ASSUME NEW p \in Peers, Connect(p) \/ Shutdown(p) PROVE Silent(z)'
  BY <1>0, <1>4 DEF Connect, Shutdown, clientVars
<1>5. ASSUME NEW p \in Peers,
             \/ ShutdownUnconnected(p) \/ Close(p)
             \/ OnInitTimerExpiry(p) \/ OnShutdownTimerExpiry(p)
      PROVE  Silent(z)'
  BY <1>0, <1>5, SilentClose
     DEF ShutdownUnconnected, Close, OnInitTimerExpiry, OnShutdownTimerExpiry, clientVars
<1>6. ASSUME NEW p \in Peers, Receive(p) PROVE Silent(z)'
  BY <1>6, SilentReceive DEF Receive
<1>7. CASE UNCHANGED vars
  BY <1>0, <1>7 DEF vars, socketVars, clientVars
<1> QED BY <1>2, <1>3, <1>4, <1>5, <1>6, <1>7 DEF Next

\* If only one socket connects and only that one sends, no message of any socket
\* is reported as acknowledged that the other has not handed to its client,
\* across any number of restarts, closes and repeated or late packets.
THEOREM NoFalseDelivery ==
    ASSUME NEW q \in Peers, MaxConnects[Other(q)] = 0, MaxSends[Other(q)] = 0
    PROVE  Spec => []AckedIsDelivered
<1>1. Other(q) \in Peers /\ \A x \in Peers : x = q \/ x = Other(q)
  BY TwoPeers
<1>2. Init => Silent(Other(q))
  BY <1>1 DEF Init, Silent, HasTcb
<1>3. PassiveInv(q) /\ Silent(Other(q)) /\ [Next]_vars => Silent(Other(q))'
  BY <1>1, NextSilent DEF PassiveInv
<1>4. PassiveInv(q) /\ Silent(Other(q)) => AckedIsDelivered
  <2> SUFFICES ASSUME PassiveInv(q), Silent(Other(q)), NEW p \in Peers
               PROVE  acked[p] \subseteq delivered[Other(p)]
    BY DEF AckedIsDelivered
  <2>1. acked[q] \subseteq delivered[Other(q)] /\ acked[Other(q)] = {}
    BY DEF PassiveInv, AckOK, Silent
  <2> QED BY <1>1, <2>1
<1> QED BY <1>2, <1>3, <1>4, InitPassive, NextPassive, PTL DEF Spec

=============================================================================
