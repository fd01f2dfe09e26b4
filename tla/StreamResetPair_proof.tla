------------------------ MODULE StreamResetPair_proof ------------------------
(***************************************************************************)
(* Theorems about StreamResetPair, for any streams, messages, resets and   *)
(* losses. The invariant is stated of the fields of the sockets that it is *)
(* about, for each direction: L is the log of the sending socket and out   *)
(* its streams, got and in are what the receiving socket has and its       *)
(* streams.                                                                *)
(***************************************************************************)
EXTENDS StreamResetPair, FiniteSetTheorems, SequenceTheorems, WellFoundedInduction, TLAPS

-----------------------------------------------------------------------------
(* The invariant: what is sent                                             *)

Tsns(L) == 1..Len(L)
Ordered(L, t) == ~L[t].m.unordered

\* The chunks b to d are of one message, and b is its first.
Span(L, b, d) ==
    /\ L[b].begins
    /\ \A k \in (b + 1)..d : ~L[k].begins /\ ~L[k - 1].ends
    /\ \A k \in b..d : /\ L[k].sid = L[b].sid /\ L[k].m = L[b].m
                       /\ L[k].ssn = L[b].ssn /\ L[k].epoch = L[b].epoch

\* Messages are not mixed.
SpansOK(L) ==
    /\ \A t \in Tsns(L) : \E b \in 1..t, d \in t..Len(L) :
         Span(L, b, d) /\ (L[d].ends \/ d = Len(L))
    /\ \A t \in 2..Len(L) : L[t].begins <=> L[t - 1].ends

\* Ordered chunk u of the log has the number n in the epoch k of stream s.
Numbered(L, u, s, k, n) ==
    L[u].sid = s /\ L[u].epoch = k /\ Ordered(L, u) /\ L[u].ssn = n

\* Epochs, SSNs and messages of a stream follow the order of TSNs, and no number is
\* left out.
LogOK(L) ==
    /\ SpansOK(L)
    /\ \A t, u \in Tsns(L) : t < u =>
         /\ L[t].m.id = L[u].m.id => Joined(L, t, u)
         /\ L[t].sid = L[u].sid => L[t].epoch <= L[u].epoch /\ L[t].m.id <= L[u].m.id
         /\ L[t].sid = L[u].sid /\ L[t].epoch = L[u].epoch /\ Ordered(L, t) /\ Ordered(L, u) =>
              L[t].ssn <= L[u].ssn /\ (L[t].ssn = L[u].ssn => Joined(L, t, u))
    /\ \A t \in Tsns(L), n \in Nat : Ordered(L, t) /\ n < L[t].ssn =>
         \E u \in 1..t : Numbered(L, u, L[t].sid, L[t].epoch, n)

\* At most one message is partly sent, and it is the last of the log.
TailOK(L, out) ==
    \A s \in Sids :
        /\ out[s].sent > 0 <=> Len(L) > 0 /\ ~L[Len(L)].ends /\ L[Len(L)].sid = s
        /\ out[s].sent > 0 =>
             /\ out[s].items # <<>> /\ out[s].sent < Head(out[s].items).size
             /\ L[Len(L)].m = Head(out[s].items) /\ L[Len(L)].epoch = out[s].epoch
             /\ L[Len(L)].ssn = IF L[Len(L)].m.unordered THEN 0 ELSE out[s].ssn
        /\ out[s].sent > 0 => out[s].pause \in {"NotPaused", "Pending"}
        /\ out[s].pause = "Pending" => out[s].sent > 0

\* The counts of a stream are those of the chunks sent.
CountOK(L, out) ==
    /\ \A t \in Tsns(L) : L[t].epoch <= out[L[t].sid].epoch
    /\ \A t \in Tsns(L) : L[t].epoch = out[L[t].sid].epoch /\ Ordered(L, t) =>
         /\ L[t].ssn <= out[L[t].sid].ssn
         /\ L[t].ssn = out[L[t].sid].ssn =>
              out[L[t].sid].sent > 0 /\ ~Head(out[L[t].sid].items).unordered
    /\ \A s \in Sids, n \in Nat : n < out[s].ssn =>
         \E u \in Tsns(L) : Numbered(L, u, s, out[s].epoch, n)

\* What waits to be sent was not sent before, but for the message partly sent; n
\* messages have numbers.
ItemsOK(L, out, n) ==
    /\ \A t \in Tsns(L) : L[t].m.id <= n
    /\ \A s \in Sids : \A i \in 1..Len(out[s].items) :
         /\ out[s].items[i].id <= n
         /\ \A j \in 1..Len(out[s].items) : i < j => out[s].items[i].id < out[s].items[j].id
         /\ \A r \in Sids : \A j \in 1..Len(out[r].items) :
              r # s => out[s].items[i].id # out[r].items[j].id
         /\ \A t \in Tsns(L) :
              /\ L[t].sid = s => L[t].m.id <= out[s].items[i].id
              /\ L[t].m.id = out[s].items[i].id =>
                   L[t].sid = s /\ i = 1 /\ out[s].sent > 0 /\ Joined(L, t, Len(L))

SendOK(L, out, n) == LogOK(L) /\ TailOK(L, out) /\ CountOK(L, out) /\ ItemsOK(L, out, n)

-----------------------------------------------------------------------------
(* The invariant: what is received                                         *)

Held(in, s) == in[s].ordered \cup in[s].unordered

\* Chunk t was handed to the client.
Gone(L, got, in, t) == t \in got /\ t \notin Held(in, L[t].sid)

HeldOK(L, got, in) ==
    /\ got \subseteq Tsns(L)
    /\ \A s \in Sids :
         /\ \A t \in in[s].ordered :
              t \in got /\ L[t].sid = s /\ L[t].epoch = in[s].epoch /\ Ordered(L, t)
         /\ \A t \in in[s].unordered :
              t \in got /\ L[t].sid = s /\ L[t].epoch = in[s].epoch /\ ~Ordered(L, t)
    /\ \A t \in Tsns(L) : t \notin got => L[t].epoch = in[L[t].sid].epoch

\* Messages are handed on as a whole.
WholeOK(L, got, in) ==
    \A t \in Tsns(L) : Gone(L, got, in, t) =>
        \E b \in 1..t, d \in t..Len(L) :
            Span(L, b, d) /\ L[d].ends /\ \A k \in b..d : Gone(L, got, in, k)

\* Of the ordered messages those below the next number were handed on, and the next
\* one is not complete. No unordered message that is held is complete.
NextOK(L, out, got, in) ==
    /\ \A t \in Tsns(L) : Ordered(L, t) /\ L[t].epoch = in[L[t].sid].epoch =>
         (Gone(L, got, in, t) <=> L[t].ssn < in[L[t].sid].ssn)
    /\ \A s \in Sids :
         /\ ~Whole(L, {u \in in[s].ordered : L[u].ssn = in[s].ssn})
         /\ in[s].ssn <= IF in[s].epoch = out[s].epoch THEN out[s].ssn ELSE 0
         /\ \A b, d \in in[s].unordered :
              ~(b <= d /\ Span(L, b, d) /\ L[d].ends /\ b..d \subseteq in[s].unordered)

RecvOK(L, out, got, in) == HeldOK(L, got, in) /\ WholeOK(L, got, in) /\ NextOK(L, out, got, in)

IsMessage(c) == c.call = "OnMessageReceived"

\* The client has got what was handed on, in order.
HeardOK(L, got, in, h) ==
    /\ \A i \in 1..Len(h) : IsMessage(h[i]) =>
         \E t \in Tsns(L) : Gone(L, got, in, t) /\ h[i] = OnMessageReceived(L, t)
    /\ \A t \in Tsns(L) : Gone(L, got, in, t) => \E i \in 1..Len(h) : h[i] = OnMessageReceived(L, t)
    /\ \A i, j \in 1..Len(h) : i < j /\ IsMessage(h[i]) /\ IsMessage(h[j]) =>
         /\ h[i].m.id # h[j].m.id
         /\ h[i].sid = h[j].sid /\ ~h[i].m.unordered /\ ~h[j].m.unordered => h[i].m.id < h[j].m.id

-----------------------------------------------------------------------------
(* The invariant: requests and responses                                   *)

\* A request names the streams that are being reset and the last TSN they used.
ReqOK(L, out, req, nextSn, requests) ==
    /\ req.streams = {s \in Sids : out[s].pause = "Resetting"}
    /\ req.streams = {} <=> req = NoRequest
    /\ \A t \in Tsns(L) : L[t].sid \in req.streams => t <= req.last
    /\ req.sn \in {0, nextSn - 1}
    /\ \A r \in requests : r.sn < nextSn /\ (req.sn # 0 /\ r.sn = req.sn => r = req)
    /\ req.sn # 0 => req \in requests

\* The peer has performed the current request.
Performed(req, lastSn, lastResult) ==
    req.sn # 0 /\ lastSn = req.sn /\ lastResult # "InProgress"

\* The receiving socket has handled every request but perhaps the last, defers the
\* current one or none, and has answered the last one as it would again.
LinkOK(x, y) ==
    /\ y.lastSn = x.nextSn - 1 \/ (y.lastSn = x.nextSn - 2 /\ x.req.sn = x.nextSn - 1)
    /\ y.lastResult # "ErrorBadSequenceNumber"
    /\ y.lastResult = "InProgress" <=> y.deferred # NotDeferred
    /\ y.deferred.tsns = <<>>
    /\ y.deferred # NotDeferred =>
         y.deferred.streams = x.req.streams /\ y.deferred.last = x.req.last
    /\ x.req # NoRequest /\ x.req.sn = 0 => y.lastResult = "InProgress"
    /\ \A r \in y.responses :
         /\ r.sn < x.nextSn
         /\ r.sn = x.req.sn /\ r.sn # 0 =>
              /\ y.lastSn = r.sn /\ r.result # "ErrorBadSequenceNumber"
              /\ r.result = "InProgress" <=> y.lastResult = "InProgress"
    /\ \A s \in Sids :
         y.in[s].epoch = IF s \in x.req.streams /\ Performed(x.req, y.lastSn, y.lastResult)
                         THEN x.out[s].epoch + 1 ELSE x.out[s].epoch

Way(x, y, h, n) ==
    /\ SendOK(x.log, x.out, n)
    /\ RecvOK(x.log, x.out, y.got, y.in)
    /\ HeardOK(x.log, y.got, y.in, h)
    /\ ReqOK(x.log, x.out, x.req, x.nextSn, x.requests)
    /\ LinkOK(x, y)

Inv ==
    /\ TypeOK
    /\ \A p \in Peers : Way(sock[p], sock[Other(p)], heard[Other(p)], sends[p])

-----------------------------------------------------------------------------
(* Numbers and sets *)

\* Every nonempty set of naturals has a least element, which Min chooses.
LEMMA MinOf ==
    ASSUME NEW S, S \subseteq Nat, S # {}
    PROVE  Min(S) \in S /\ \A x \in S : Min(S) <= x
<1> DEFINE R == {ss \in Nat \X Nat : ss[1] < ss[2]}
<1>1. IsWellFoundedOn(R, Nat)
  BY NatLessThanWellFounded DEF OpToRel
<1>2. \E x \in S : \A y \in S : ~(<<y, x>> \in R)
  <2> HIDE DEF R
  <2> QED BY <1>1, WFMin
<1>3. \A x, y \in Nat : ~(<<y, x>> \in R) => x <= y
  OBVIOUS
<1>4. \E x \in S : \A y \in S : x <= y
  BY <1>2, <1>3
<1> QED BY <1>4 DEF Min

\* Likewise for the greatest element of a bounded set.
LEMMA MaxOf ==
    ASSUME NEW N \in Nat, NEW S, S \subseteq 0..N, S # {}
    PROVE  Max(S) \in S /\ \A x \in S : x <= Max(S)
<1> DEFINE T == {n \in Nat : \A x \in S : x <= n}
           n == Min(T)
<1>1. n \in T /\ \A x \in T : n <= x
  <2>1. N \in T /\ T \subseteq Nat
    OBVIOUS
  <2> HIDE DEF T
  <2> QED BY <2>1, MinOf
<1> HIDE DEF n
<1>2. n \in S
  <2> SUFFICES ASSUME n \notin S PROVE FALSE
    OBVIOUS
  <2>1. n \in Nat /\ \A x \in S : x <= n - 1
    BY <1>1
  <2>2. PICK x \in S : x \in 0..N
    OBVIOUS
  <2>3. n - 1 \in T
    BY <2>1, <2>2
  <2> QED BY <1>1, <2>1, <2>3
<1>3. \E x \in S : \A y \in S : x >= y
  BY <1>1, <1>2
<1> QED BY <1>3 DEF Max

LEMMA FiniteInterval ==
    ASSUME NEW a \in Nat, NEW b \in Nat, NEW S, S \subseteq a..b
    PROVE  IsFiniteSet(S) /\ Cardinality(S) \in Nat
<1>1. IsFiniteSet(a..b)
  BY FS_Interval
<1> QED BY <1>1, FS_Subset, FS_CardinalityType

\* What a complete set of chunks is.
LEMMA WholeSet ==
    ASSUME NEW N \in Nat, NEW L, NEW C, C \subseteq 1..N, Whole(L, C)
    PROVE  /\ Min(C) \in C /\ Max(C) \in C /\ Min(C) <= Max(C) /\ C = Min(C)..Max(C)
           /\ L[Min(C)].begins /\ L[Max(C)].ends
<1> DEFINE a == Min(C)
           b == Max(C)
<1>0. C # {} /\ C \subseteq Nat /\ C \subseteq 0..N
  BY DEF Whole
<1>1. a \in C /\ b \in C /\ \A x \in C : a <= x /\ x <= b
  BY <1>0, MinOf, MaxOf
<1>2. a \in Nat /\ b \in Nat /\ a <= b
  BY <1>0, <1>1
<1>3. L[a].begins /\ L[b].ends /\ b - a = Cardinality(C) - 1
  BY DEF Whole
<1> HIDE DEF a, b
<1>4. C = a..b
  <2>1. IsFiniteSet(a..b) /\ Cardinality(a..b) = b - a + 1
    BY <1>2, FS_Interval
  <2>2. C \subseteq a..b
    BY <1>0, <1>1, <1>2
  <2>3. Cardinality(C) \in Nat
    BY <1>0, FiniteInterval
  <2>4. Cardinality(C) = Cardinality(a..b)
    BY <1>2, <1>3, <2>1, <2>3
  <2> QED BY <2>1, <2>2, <2>4, FS_Subset
<1> QED BY <1>1, <1>2, <1>3, <1>4 DEF a, b

LEMMA WholeInterval ==
    ASSUME NEW b \in Nat, NEW d \in Nat, b <= d, NEW L, L[b].begins, L[d].ends
    PROVE  Whole(L, b..d)
<1> DEFINE C == b..d
<1>1. C # {} /\ C \subseteq Nat /\ C \subseteq 0..d /\ b \in C /\ d \in C
  OBVIOUS
<1>2. \A x \in C : b <= x /\ x <= d
  OBVIOUS
<1>3. Cardinality(C) = d - b + 1
  BY FS_Interval
<1> HIDE DEF C
<1>4. Min(C) \in C /\ Max(C) \in C /\ \A x \in C : Min(C) <= x /\ x <= Max(C)
  BY <1>1, MinOf, MaxOf
<1>5. Min(C) = b /\ Max(C) = d
  <2>1. Min(C) \in Nat /\ Max(C) \in Nat /\ Min(C) <= b /\ b <= Min(C) /\ Max(C) <= d /\ d <= Max(C)
    BY <1>1, <1>2, <1>4
  <2> QED BY <2>1
<1>6. Whole(L, C)
  BY <1>1, <1>3, <1>5 DEF Whole
<1> QED BY <1>6 DEF C

\* Completeness is about the chunks in the set.
LEMMA WholeSame ==
    ASSUME NEW N \in Nat, NEW L, NEW M, NEW C, C \subseteq 1..N, Whole(M, C),
           \A t \in C : M[t] = L[t]
    PROVE  Whole(L, C)
<1>1. Min(C) \in C /\ Max(C) \in C
  BY WholeSet
<1> QED BY <1>1 DEF Whole

-----------------------------------------------------------------------------
(* Messages in the log *)

LEMMA SeqFacts ==
    ASSUME NEW L \in Seq(Chunk)
    PROVE  Len(L) \in Nat /\ \A t \in Tsns(L) : L[t] \in Chunk
BY LenProperties, ElementOfSeq DEF Tsns

LEMMA SpanJoined ==
    ASSUME NEW L, NEW b \in Nat, NEW d \in Nat, Span(L, b, d), NEW t \in b..d, NEW u \in b..d
    PROVE  Joined(L, t, u)
BY DEF Span, Joined

\* What is joined to a chunk of a message is a chunk of the message.
LEMMA JoinedSpan ==
    ASSUME NEW L, Len(L) \in Nat, SpansOK(L), NEW b \in Nat, NEW d \in Nat, b >= 1, d <= Len(L),
           Span(L, b, d), L[d].ends \/ d = Len(L),
           NEW t \in b..d, NEW u \in Tsns(L), Joined(L, t, u) \/ Joined(L, u, t)
    PROVE  u \in b..d
<1>0. u \in Nat /\ t \in Nat /\ u <= Len(L)
  BY DEF Tsns
<1>1. ASSUME u > d PROVE FALSE
  <2>1. d + 1 \in (t + 1)..u /\ d + 1 \in 2..Len(L) /\ d + 1 - 1 = d
    BY <1>0, <1>1
  <2>2. L[d].ends
    BY <1>0, <1>1
  <2>3. L[d + 1].begins
    BY <2>1, <2>2 DEF SpansOK
  <2> QED BY <2>1, <2>3 DEF Joined
<1>2. ASSUME u < b PROVE FALSE
  <2>1. b \in (u + 1)..t /\ L[b].begins
    BY <1>0, <1>2 DEF Span
  <2> QED BY <2>1 DEF Joined
<1> QED BY <1>0, <1>1, <1>2

\* The message of a chunk.
LEMMA MessageSpan ==
    ASSUME NEW L, Len(L) \in Nat, SpansOK(L), NEW t \in Tsns(L)
    PROVE  \E b \in 1..t, d \in t..Len(L) :
              /\ b \in Nat /\ d \in Nat /\ b <= t /\ t <= d /\ b..d \subseteq Tsns(L)
              /\ Span(L, b, d) /\ (L[d].ends \/ d = Len(L))
<1>1. t \in Nat /\ 1 <= t /\ t <= Len(L)
  BY DEF Tsns
<1>2. PICK b \in 1..t, d \in t..Len(L) : Span(L, b, d) /\ (L[d].ends \/ d = Len(L))
  BY DEF SpansOK
<1>3. b \in Nat /\ d \in Nat /\ b <= t /\ t <= d /\ b..d \subseteq Tsns(L)
  BY <1>1 DEF Tsns
<1> QED BY <1>2, <1>3

\* Chunks that are joined are of the same message.
LEMMA JoinedSame ==
    ASSUME NEW L, Len(L) \in Nat, SpansOK(L), NEW t \in Tsns(L), NEW u \in Tsns(L),
           Joined(L, t, u) \/ Joined(L, u, t)
    PROVE  L[u].sid = L[t].sid /\ L[u].m = L[t].m /\ L[u].ssn = L[t].ssn /\ L[u].epoch = L[t].epoch
<1>1. PICK b \in 1..t, d \in t..Len(L) :
              /\ b \in Nat /\ d \in Nat /\ b <= t /\ t <= d
              /\ Span(L, b, d) /\ (L[d].ends \/ d = Len(L))
  BY MessageSpan
<1>2. t \in b..d /\ b >= 1 /\ d <= Len(L)
  BY <1>1 DEF Tsns
<1>3. u \in b..d
  BY <1>1, <1>2, JoinedSpan
<1> QED BY <1>1, <1>2, <1>3 DEF Span

-----------------------------------------------------------------------------
(* A chunk is appended to the log *)

\* Chunk c may come next: it begins a message after the end of another one, or
\* goes on with the message that is partly sent.
Follows(L, c) ==
    IF c.begins THEN Len(L) = 0 \/ L[Len(L)].ends
    ELSE /\ Len(L) > 0 /\ ~L[Len(L)].ends
         /\ c.sid = L[Len(L)].sid /\ c.m = L[Len(L)].m
         /\ c.ssn = L[Len(L)].ssn /\ c.epoch = L[Len(L)].epoch

LEMMA Appended ==
    ASSUME NEW L \in Seq(Chunk), NEW c \in Chunk
    PROVE  /\ Append(L, c) \in Seq(Chunk) /\ Len(L) \in Nat /\ Len(Append(L, c)) = Len(L) + 1
           /\ \A t \in Tsns(L) : Append(L, c)[t] = L[t]
           /\ Append(L, c)[Len(L) + 1] = c
           /\ Tsns(L) \subseteq Tsns(Append(L, c)) /\ Len(L) + 1 \in Tsns(Append(L, c))
           /\ \A t \in Tsns(Append(L, c)) : t \in Tsns(L) \/ t = Len(L) + 1
BY AppendProperties, LenProperties DEF Tsns

\* Logs that agree on the chunks b to d agree on whether they are a message.
LEMMA SpanSame ==
    ASSUME NEW L, NEW M, NEW b \in Nat, NEW d \in Nat, b <= d, \A t \in b..d : M[t] = L[t], Span(L, b, d)
    PROVE  Span(M, b, d)
<1>1. b \in b..d /\ \A k \in (b + 1)..d : k \in b..d /\ k - 1 \in b..d
  OBVIOUS
<1> QED BY <1>1 DEF Span

LEMMA AppendSpans ==
    ASSUME NEW L \in Seq(Chunk), NEW c \in Chunk, SpansOK(L), Follows(L, c)
    PROVE  SpansOK(Append(L, c))
<1> DEFINE M == Append(L, c)
           n == Len(L)
<1>1. /\ n \in Nat /\ Len(M) = n + 1 /\ M[n + 1] = c
      /\ \A t \in 1..n : M[t] = L[t]
  BY Appended DEF Tsns
<1> HIDE DEF M, n
<1>2. ASSUME NEW t \in 2..(n + 1) PROVE M[t].begins <=> M[t - 1].ends
  <2>1. CASE t = n + 1
    <3>1. n \in 1..n /\ t - 1 = n
      BY <1>1, <2>1
    <3>2. M[t] = c /\ M[t - 1] = L[n]
      BY <1>1, <2>1, <3>1
    <3>3. c.begins <=> L[n].ends
      BY <1>1, <3>1 DEF Follows, n
    <3> QED BY <3>2, <3>3
  <2>2. CASE t # n + 1
    <3>1. t \in 2..n /\ t \in 1..n /\ t - 1 \in 1..n
      BY <1>1, <2>2
    <3> QED BY <1>1, <3>1 DEF SpansOK, n
  <2> QED BY <2>1, <2>2
<1>3. ASSUME NEW t \in 1..n
      PROVE  \E b \in 1..t, d \in t..(n + 1) : Span(M, b, d) /\ (M[d].ends \/ d = n + 1)
  <2>1. PICK b \in 1..t, d \in t..n : Span(L, b, d) /\ (L[d].ends \/ d = n)
    BY DEF SpansOK, n, Tsns
  <2>2. b \in Nat /\ d \in Nat /\ b <= d /\ \A k \in b..d : M[k] = L[k] /\ k \in 1..n
    BY <1>1
  <2>3. Span(M, b, d)
    BY <2>1, <2>2, SpanSame
  <2>4. CASE M[d].ends
    <3>1. d \in t..(n + 1)
      BY <1>1
    <3> QED BY <2>3, <2>4, <3>1
  <2>5. CASE ~M[d].ends
    <3>1. d = n /\ ~L[n].ends /\ n > 0 /\ d \in b..d
      BY <1>1, <2>1, <2>2, <2>5
    <3>2. /\ ~c.begins
          /\ c.sid = L[n].sid /\ c.m = L[n].m /\ c.ssn = L[n].ssn /\ c.epoch = L[n].epoch
      BY <1>1, <3>1 DEF Follows, n
    <3>3. Span(M, b, n + 1)
      <4>1. ASSUME NEW k \in (b + 1)..(n + 1) PROVE ~M[k].begins /\ ~M[k - 1].ends
        <5>1. CASE k = n + 1
          <6>1. k - 1 = n /\ M[n] = L[n]
            BY <1>1, <2>2, <3>1, <5>1
          <6> QED BY <1>1, <3>1, <3>2, <5>1, <6>1
        <5>2. CASE k # n + 1
          <6>1. k \in (b + 1)..d
            BY <1>1, <3>1, <5>2
          <6> QED BY <2>3, <6>1 DEF Span
        <5> QED BY <5>1, <5>2
      <4>2. ASSUME NEW k \in b..(n + 1)
            PROVE  M[k].sid = M[b].sid /\ M[k].m = M[b].m /\ M[k].ssn = M[b].ssn /\ M[k].epoch = M[b].epoch
        <5>1. CASE k = n + 1
          <6>1. M[n].sid = M[b].sid /\ M[n].m = M[b].m /\ M[n].ssn = M[b].ssn /\ M[n].epoch = M[b].epoch
            BY <2>3, <3>1 DEF Span
          <6>2. M[n] = L[n]
            BY <2>2, <3>1
          <6> QED BY <1>1, <3>2, <5>1, <6>1, <6>2
        <5>2. CASE k # n + 1
          <6>1. k \in b..d
            BY <1>1, <3>1, <5>2
          <6> QED BY <2>3, <6>1 DEF Span
        <5> QED BY <5>1, <5>2
      <4>3. M[b].begins
        BY <2>3 DEF Span
      <4> QED BY <4>1, <4>2, <4>3 DEF Span
    <3>4. n + 1 \in t..(n + 1)
      BY <1>1
    <3> QED BY <3>3, <3>4
  <2> QED BY <2>4, <2>5
<1>4. \E b \in 1..(n + 1), d \in (n + 1)..(n + 1) : Span(M, b, d) /\ (M[d].ends \/ d = n + 1)
  <2>1. CASE c.begins
    <3>1. Span(M, n + 1, n + 1)
      <4>1. \A k \in (n + 1)..(n + 1) : k = n + 1
        BY <1>1
      <4>2. (n + 1 + 1)..(n + 1) = {}
        BY <1>1
      <4> QED BY <1>1, <2>1, <4>1, <4>2 DEF Span
    <3>2. n + 1 \in 1..(n + 1) /\ n + 1 \in (n + 1)..(n + 1)
      BY <1>1
    <3> QED BY <3>1, <3>2
  <2>2. CASE ~c.begins
    <3>1. n \in 1..n /\ ~L[n].ends
      BY <1>1, <2>2 DEF Follows, n
    <3>2. PICK b \in 1..n, d \in n..(n + 1) : Span(M, b, d) /\ (M[d].ends \/ d = n + 1)
      BY <1>3, <3>1
    <3>3. M[n] = L[n]
      BY <1>1, <3>1
    <3>4. d = n + 1
      <4>1. d = n => FALSE
        BY <1>1, <3>1, <3>2, <3>3
      <4>2. d = n \/ d = n + 1
        BY <1>1
      <4> QED BY <4>1, <4>2
    <3>5. b \in 1..(n + 1) /\ d \in (n + 1)..(n + 1)
      BY <1>1, <3>4
    <3> QED BY <3>2, <3>5
  <2> QED BY <2>1, <2>2
<1>5. ASSUME NEW t \in 1..(n + 1)
      PROVE  \E b \in 1..t, d \in t..(n + 1) : Span(M, b, d) /\ (M[d].ends \/ d = n + 1)
  <2>1. t \in 1..n \/ t = n + 1
    BY <1>1
  <2> QED BY <1>3, <1>4, <2>1
<1>6. \A t \in 2..Len(M) : M[t].begins <=> M[t - 1].ends
  BY <1>1, <1>2
<1>7. \A t \in Tsns(M) : \E b \in 1..t, d \in t..Len(M) : Span(M, b, d) /\ (M[d].ends \/ d = Len(M))
  BY <1>1, <1>5 DEF Tsns
<1>8. SpansOK(M)
  BY <1>6, <1>7 DEF SpansOK
<1> QED BY <1>8 DEF M

-----------------------------------------------------------------------------
(* A stream produces a chunk *)

\* Stream s of out has produced the chunk c and is now as in out2.
Produced(out, s, c, out2) ==
    /\ c.sid = s /\ c.m = Head(out[s].items) /\ c.epoch = out[s].epoch
    /\ c.ssn = IF c.m.unordered THEN 0 ELSE out[s].ssn
    /\ c.begins <=> out[s].sent = 0
    /\ c.ends <=> out[s].sent + 1 = c.m.size
    /\ \A r \in Sids : r # s => out2[r] = out[r]
    /\ out2[s].epoch = out[s].epoch
    /\ c.ends => /\ out2[s].items = Tail(out[s].items) /\ out2[s].sent = 0
                 /\ out2[s].ssn = IF c.m.unordered THEN out[s].ssn ELSE out[s].ssn + 1
                 /\ out2[s].pause = IF out[s].pause = "Pending" THEN "Paused" ELSE out[s].pause
    /\ ~c.ends => /\ out2[s].items = out[s].items /\ out2[s].sent = out[s].sent + 1
                  /\ out2[s].ssn = out[s].ssn /\ out2[s].pause = out[s].pause

\* Stream s may produce: no other one has a message partly sent.
MayProduce(out, s) ==
    /\ out[s].items # <<>> /\ out[s].pause \in {"NotPaused", "Pending"}
    /\ \A r \in Sids : out[r].sent > 0 => r = s

LEMMA StreamFacts ==
    ASSUME NEW out \in [Sids -> OutgoingStream], NEW s \in Sids
    PROVE  /\ out[s] \in OutgoingStream /\ out[s].items \in Seq(Message) /\ Len(out[s].items) \in Nat
           /\ out[s].sent \in Nat /\ out[s].ssn \in Nat /\ out[s].epoch \in Nat
           /\ \A i \in 1..Len(out[s].items) : out[s].items[i] \in Message
           /\ \A i \in 1..Len(out[s].items) : out[s].items[i].id \in Nat
<1>1. out[s] \in OutgoingStream
  OBVIOUS
<1>2. /\ out[s].items \in Seq(Message) /\ out[s].sent \in Nat /\ out[s].ssn \in Nat
      /\ out[s].epoch \in Nat
  BY <1>1 DEF OutgoingStream
<1>3. Len(out[s].items) \in Nat /\ \A i \in 1..Len(out[s].items) : out[s].items[i] \in Message
  BY <1>2, LenProperties, ElementOfSeq
<1>4. \A m \in Message : m.id \in Nat
  BY DEF Message
<1> QED BY <1>1, <1>2, <1>3, <1>4

LEMMA HeadFacts ==
    ASSUME NEW q \in Seq(Message), q # <<>>
    PROVE  /\ Head(q) = q[1] /\ Head(q) \in Message /\ Len(q) \in Nat /\ Len(q) >= 1
           /\ Head(q).size \in Nat /\ Head(q).size >= 1 /\ Head(q).id \in Nat
           /\ Tail(q) \in Seq(Message) /\ Len(Tail(q)) = Len(q) - 1
           /\ \A i \in 1..Len(Tail(q)) : Tail(q)[i] = q[i + 1] /\ i + 1 \in 1..Len(q)
<1>1. /\ Head(q) = q[1] /\ Head(q) \in Message /\ Len(q) \in Nat /\ Len(q) >= 1
      /\ Tail(q) \in Seq(Message) /\ Len(Tail(q)) = Len(q) - 1
      /\ \A i \in 1..Len(Tail(q)) : Tail(q)[i] = q[i + 1]
  <2>1. Len(q) \in Nat /\ Len(q) # 0
    BY EmptySeq, LenProperties
  <2> QED BY <2>1, HeadTailProperties, ElementOfSeq
<1>2. \A m \in Message : m.size \in Nat /\ m.size >= 1 /\ m.id \in Nat
  <2>1. Sizes \subseteq Nat \ {0}
    BY PairAssumption
  <2>2. \A m \in Message : m.size \in Sizes /\ m.id \in Nat
    BY DEF Message
  <2>3. \A k \in Nat \ {0} : k \in Nat /\ k >= 1
    OBVIOUS
  <2> QED BY <2>1, <2>2, <2>3
<1> QED BY <1>1, <1>2

LEMMA ProducedFollows ==
    ASSUME NEW L \in Seq(Chunk), NEW out \in [Sids -> OutgoingStream], NEW s \in Sids,
           NEW c \in Chunk, NEW out2 \in [Sids -> OutgoingStream],
           TailOK(L, out), MayProduce(out, s), Produced(out, s, c, out2)
    PROVE  Follows(L, c)
<1>0. Len(L) \in Nat /\ \A t \in Tsns(L) : L[t].sid \in Sids
  BY SeqFacts DEF Chunk
<1>1. CASE out[s].sent = 0
  <2>1. c.begins
    BY <1>1 DEF Produced
  <2>2. ASSUME Len(L) # 0, ~L[Len(L)].ends PROVE FALSE
    <3>1. Len(L) > 0 /\ Len(L) \in Tsns(L)
      BY <1>0, <2>2 DEF Tsns
    <3>2. out[L[Len(L)].sid].sent > 0
      BY <1>0, <2>2, <3>1 DEF TailOK
    <3>3. L[Len(L)].sid = s
      BY <1>0, <3>1, <3>2 DEF MayProduce
    <3> QED BY <1>1, <3>2, <3>3
  <2> QED BY <2>1, <2>2 DEF Follows
<1>2. CASE out[s].sent # 0
  <2>1. out[s].sent > 0
    BY <1>2, StreamFacts
  <2>2. ~c.begins
    BY <1>2 DEF Produced
  <2>3. /\ Len(L) > 0 /\ ~L[Len(L)].ends /\ L[Len(L)].sid = s
        /\ L[Len(L)].m = Head(out[s].items) /\ L[Len(L)].epoch = out[s].epoch
        /\ L[Len(L)].ssn = IF L[Len(L)].m.unordered THEN 0 ELSE out[s].ssn
    BY <2>1 DEF TailOK
  <2>4. c.sid = s /\ c.m = Head(out[s].items) /\ c.epoch = out[s].epoch
        /\ c.ssn = IF c.m.unordered THEN 0 ELSE out[s].ssn
    BY DEF Produced
  <2> QED BY <2>2, <2>3, <2>4 DEF Follows
<1> QED BY <1>1, <1>2

LEMMA JoinedAppend ==
    ASSUME NEW L \in Seq(Chunk), NEW c \in Chunk
    PROVE  /\ \A t, u \in Tsns(L) : Joined(L, t, u) => Joined(Append(L, c), t, u)
           /\ \A t \in Tsns(L) : Joined(L, t, Len(L)) /\ ~c.begins => Joined(Append(L, c), t, Len(L) + 1)
<1> DEFINE M == Append(L, c)
           n == Len(L)
<1>1. /\ n \in Nat /\ M[n + 1] = c /\ \A t \in 1..n : M[t] = L[t]
  BY Appended DEF Tsns
<1> HIDE DEF M
<1>2. ASSUME NEW t \in 1..n, NEW u \in 1..n, Joined(L, t, u) PROVE Joined(M, t, u)
  BY <1>1, <1>2 DEF Joined
<1>3. ASSUME NEW t \in 1..n, Joined(L, t, n), ~c.begins PROVE Joined(M, t, n + 1)
  <2>1. \A k \in (t + 1)..(n + 1) : k = n + 1 \/ (k \in (t + 1)..n /\ k \in 1..n)
    BY <1>1
  <2>2. (n + 1 + 1)..t = {}
    BY <1>1
  <2> QED BY <1>1, <1>3, <2>1, <2>2 DEF Joined
<1> QED BY <1>2, <1>3 DEF Tsns, M

\* What a chunk that is produced has to do with those sent before.
LEMMA ProducedNew ==
    ASSUME NEW L \in Seq(Chunk), NEW out \in [Sids -> OutgoingStream], NEW s \in Sids,
           NEW c \in Chunk, NEW out2 \in [Sids -> OutgoingStream], NEW n,
           SendOK(L, out, n), MayProduce(out, s), Produced(out, s, c, out2),
           NEW t \in Tsns(L)
    PROVE  /\ L[t].m.id = c.m.id => L[t].sid = s /\ Joined(L, t, Len(L)) /\ ~c.begins
           /\ L[t].sid = s => L[t].epoch <= c.epoch /\ L[t].m.id <= c.m.id
           /\ L[t].sid = s /\ L[t].epoch = c.epoch /\ Ordered(L, t) /\ ~c.m.unordered =>
                L[t].ssn <= c.ssn /\ (L[t].ssn = c.ssn => Joined(L, t, Len(L)) /\ ~c.begins)
<1>0. /\ Len(L) \in Nat /\ t \in Nat /\ t <= Len(L) /\ Len(L) \in Tsns(L) /\ L[Len(L)] \in Chunk
      /\ L[Len(L)].sid \in Sids /\ L[t].sid \in Sids
  <2>1. Len(L) \in Nat /\ t \in Nat /\ t <= Len(L) /\ Len(L) \in Tsns(L)
    BY SeqFacts DEF Tsns
  <2>2. L[Len(L)] \in Chunk /\ L[t] \in Chunk
    BY <2>1, SeqFacts
  <2> QED BY <2>1, <2>2 DEF Chunk
<1>1. /\ out[s].items \in Seq(Message) /\ out[s].items # <<>> /\ out[s].sent \in Nat
      /\ Head(out[s].items) = out[s].items[1] /\ 1 \in 1..Len(out[s].items)
  BY StreamFacts, HeadFacts DEF MayProduce
<1>2. /\ c.sid = s /\ c.m = out[s].items[1] /\ c.epoch = out[s].epoch
      /\ c.ssn = IF c.m.unordered THEN 0 ELSE out[s].ssn
  BY <1>1 DEF Produced
<1>3. out[s].sent > 0 => ~c.begins
  <2>1. ASSUME out[s].sent > 0 PROVE out[s].sent # 0
    BY <1>1, <2>1
  <2> QED BY <2>1 DEF Produced
<1>4. L[t].m.id = c.m.id => L[t].sid = s /\ Joined(L, t, Len(L)) /\ ~c.begins
  <2>1. L[t].m.id = out[s].items[1].id => L[t].sid = s /\ out[s].sent > 0 /\ Joined(L, t, Len(L))
    BY <1>1 DEF SendOK, ItemsOK
  <2> QED BY <1>2, <1>3, <2>1
<1>5. L[t].sid = s => L[t].epoch <= c.epoch /\ L[t].m.id <= c.m.id
  <2>1. L[t].sid = s => L[t].m.id <= out[s].items[1].id
    BY <1>1 DEF SendOK, ItemsOK
  <2>2. L[t].sid = s => L[t].epoch <= out[s].epoch
    BY DEF SendOK, CountOK
  <2> QED BY <1>2, <2>1, <2>2
<1>6. ASSUME L[t].sid = s, L[t].epoch = c.epoch, Ordered(L, t), ~c.m.unordered
      PROVE  L[t].ssn <= c.ssn /\ (L[t].ssn = c.ssn => Joined(L, t, Len(L)) /\ ~c.begins)
  <2>1. c.ssn = out[s].ssn
    BY <1>2, <1>6
  <2>2. L[t].ssn <= out[s].ssn /\ (L[t].ssn = out[s].ssn => out[s].sent > 0)
    BY <1>2, <1>6 DEF SendOK, CountOK
  <2>3. ASSUME L[t].ssn = c.ssn PROVE Joined(L, t, Len(L)) /\ ~c.begins
    <3>1. out[s].sent > 0
      BY <2>1, <2>2, <2>3
    <3>2. /\ L[Len(L)].sid = s /\ L[Len(L)].m = Head(out[s].items) /\ L[Len(L)].epoch = out[s].epoch
          /\ L[Len(L)].ssn = IF L[Len(L)].m.unordered THEN 0 ELSE out[s].ssn
      BY <3>1 DEF SendOK, TailOK
    <3>3. /\ ~L[Len(L)].m.unordered /\ L[Len(L)].ssn = L[t].ssn /\ L[Len(L)].sid = L[t].sid
          /\ L[Len(L)].epoch = L[t].epoch
      BY <1>1, <1>2, <1>6, <2>1, <2>3, <3>2
    <3>4. Joined(L, t, Len(L))
      <4>1. CASE t = Len(L)
        BY <1>0, <4>1 DEF Joined
      <4>2. CASE t # Len(L)
        <5>1. t < Len(L)
          BY <1>0, <4>2
        <5> QED BY <1>0, <1>6, <3>3, <5>1 DEF SendOK, LogOK, Ordered
      <4> QED BY <4>1, <4>2
    <3> QED BY <1>3, <3>1, <3>4
  <2> QED BY <2>1, <2>2, <2>3
<1> QED BY <1>4, <1>5, <1>6

LEMMA ProducedLog ==
    ASSUME NEW L \in Seq(Chunk), NEW out \in [Sids -> OutgoingStream], NEW s \in Sids,
           NEW c \in Chunk, NEW out2 \in [Sids -> OutgoingStream], NEW n,
           SendOK(L, out, n), MayProduce(out, s), Produced(out, s, c, out2)
    PROVE  LogOK(Append(L, c))
<1> DEFINE M == Append(L, c)
           N == Len(L)
<1>1. /\ N \in Nat /\ Len(M) = N + 1 /\ M[N + 1] = c /\ N + 1 \in Tsns(M) /\ Tsns(L) \subseteq Tsns(M)
      /\ \A t \in Tsns(L) : M[t] = L[t] /\ t \in Nat /\ t <= N
      /\ \A t \in Tsns(M) : t \in Tsns(L) \/ t = N + 1
  BY Appended DEF Tsns
<1>2. SpansOK(M)
  BY ProducedFollows, AppendSpans DEF SendOK, LogOK
<1>3. /\ \A t, u \in Tsns(L) : Joined(L, t, u) => Joined(M, t, u)
      /\ \A t \in Tsns(L) : Joined(L, t, N) /\ ~c.begins => Joined(M, t, N + 1)
  BY JoinedAppend
<1>4. c.sid = s
  BY DEF Produced
<1> HIDE DEF M
<1>5. ASSUME NEW t \in Tsns(M), NEW u \in Tsns(M), t < u
      PROVE  /\ M[t].m.id = M[u].m.id => Joined(M, t, u)
             /\ M[t].sid = M[u].sid => M[t].epoch <= M[u].epoch /\ M[t].m.id <= M[u].m.id
             /\ M[t].sid = M[u].sid /\ M[t].epoch = M[u].epoch /\ Ordered(M, t) /\ Ordered(M, u) =>
                  M[t].ssn <= M[u].ssn /\ (M[t].ssn = M[u].ssn => Joined(M, t, u))
  <2>1. t \in Tsns(L)
    BY <1>1, <1>5 DEF Tsns
  <2>2. CASE u \in Tsns(L)
    <3>1. M[t] = L[t] /\ M[u] = L[u] /\ (Joined(L, t, u) => Joined(M, t, u))
      BY <1>1, <1>3, <2>1, <2>2
    <3>2. /\ L[t].m.id = L[u].m.id => Joined(L, t, u)
          /\ L[t].sid = L[u].sid => L[t].epoch <= L[u].epoch /\ L[t].m.id <= L[u].m.id
          /\ L[t].sid = L[u].sid /\ L[t].epoch = L[u].epoch /\ Ordered(L, t) /\ Ordered(L, u) =>
                  L[t].ssn <= L[u].ssn /\ (L[t].ssn = L[u].ssn => Joined(L, t, u))
      BY <1>5, <2>1, <2>2 DEF SendOK, LogOK
    <3> QED BY <3>1, <3>2 DEF Ordered
  <2>3. CASE u = N + 1
    <3>1. M[t] = L[t] /\ M[u] = c /\ (Joined(L, t, N) /\ ~c.begins => Joined(M, t, u))
      BY <1>1, <1>3, <2>1, <2>3
    <3>2. /\ L[t].m.id = c.m.id => L[t].sid = s /\ Joined(L, t, N) /\ ~c.begins
          /\ L[t].sid = s => L[t].epoch <= c.epoch /\ L[t].m.id <= c.m.id
          /\ L[t].sid = s /\ L[t].epoch = c.epoch /\ Ordered(L, t) /\ ~c.m.unordered =>
               L[t].ssn <= c.ssn /\ (L[t].ssn = c.ssn => Joined(L, t, N) /\ ~c.begins)
      BY <2>1, ProducedNew
    <3> QED BY <1>4, <3>1, <3>2 DEF Ordered
  <2> QED BY <1>1, <2>2, <2>3
<1>6. ASSUME NEW t \in Tsns(M), NEW k \in Nat, Ordered(M, t), k < M[t].ssn
      PROVE  \E u \in 1..t : Numbered(M, u, M[t].sid, M[t].epoch, k)
  <2>1. CASE t \in Tsns(L)
    <3>1. PICK u \in 1..t : Numbered(L, u, L[t].sid, L[t].epoch, k)
      BY <1>1, <1>6, <2>1 DEF SendOK, LogOK, Ordered
    <3>2. u \in Tsns(L)
      BY <1>1, <2>1 DEF Tsns
    <3> QED BY <1>1, <2>1, <3>1, <3>2 DEF Numbered, Ordered
  <2>2. CASE t = N + 1
    <3>1. M[t] = c /\ ~c.m.unordered /\ c.ssn = out[s].ssn /\ c.epoch = out[s].epoch
      BY <1>1, <1>6, <2>2 DEF Ordered, Produced
    <3>2. PICK u \in Tsns(L) : Numbered(L, u, s, out[s].epoch, k)
      BY <1>6, <3>1 DEF SendOK, CountOK
    <3>3. u \in 1..t
      BY <1>1, <2>2 DEF Tsns
    <3> QED BY <1>1, <1>4, <3>1, <3>2, <3>3 DEF Numbered, Ordered
  <2> QED BY <1>1, <2>1, <2>2
<1>7. LogOK(M)
  BY <1>2, <1>5, <1>6 DEF LogOK
<1> QED BY <1>7 DEF M

LEMMA ProducedTail ==
    ASSUME NEW L \in Seq(Chunk), NEW out \in [Sids -> OutgoingStream], NEW s \in Sids,
           NEW c \in Chunk, NEW out2 \in [Sids -> OutgoingStream],
           TailOK(L, out), MayProduce(out, s), Produced(out, s, c, out2)
    PROVE  TailOK(Append(L, c), out2)
<1> DEFINE M == Append(L, c)
           N == Len(L)
<1>1. N \in Nat /\ Len(M) = N + 1 /\ M[N + 1] = c /\ N + 1 > 0
  BY Appended
<1> HIDE DEF M
<1>2. /\ out[s].sent \in Nat /\ out[s].items \in Seq(Message) /\ out[s].items # <<>>
      /\ Head(out[s].items).size \in Nat /\ Head(out[s].items).size >= 1
  BY StreamFacts, HeadFacts DEF MayProduce
<1>3. out[s].sent < Head(out[s].items).size
  BY <1>2 DEF TailOK
<1>4. /\ c.sid = s /\ c.m = Head(out[s].items) /\ c.epoch = out[s].epoch
      /\ c.ssn = IF c.m.unordered THEN 0 ELSE out[s].ssn
  BY DEF Produced
<1>5. ASSUME NEW r \in Sids, r # s
      PROVE  out2[r] = out[r] /\ ~(out2[r].sent > 0)
  BY <1>5 DEF Produced, MayProduce
<1>6. ASSUME NEW r \in Sids
      PROVE  /\ out2[r].sent > 0 <=> ~c.ends /\ s = r
             /\ out2[r].sent > 0 =>
                  /\ out2[r].items # <<>> /\ out2[r].sent < Head(out2[r].items).size
                  /\ c.m = Head(out2[r].items) /\ c.epoch = out2[r].epoch
                  /\ c.ssn = IF c.m.unordered THEN 0 ELSE out2[r].ssn
             /\ out2[r].sent > 0 => out2[r].pause \in {"NotPaused", "Pending"}
             /\ out2[r].pause = "Pending" => out2[r].sent > 0
  <2>1. CASE r # s
    <3>1. out2[r].pause = "Pending" => out2[r].sent > 0
      BY <1>5, <2>1 DEF TailOK
    <3> QED BY <1>5, <2>1, <3>1
  <2>2. CASE r = s /\ c.ends
    <3>1. /\ out2[s].sent = 0 /\ out2[s].pause # "Pending"
      BY <2>2 DEF Produced
    <3> QED BY <2>2, <3>1
  <2>3. CASE r = s /\ ~c.ends
    <3>1. /\ out2[s].items = out[s].items /\ out2[s].sent = out[s].sent + 1
          /\ out2[s].ssn = out[s].ssn /\ out2[s].pause = out[s].pause /\ out2[s].epoch = out[s].epoch
      BY <2>3 DEF Produced
    <3>2. out[s].sent + 1 # Head(out[s].items).size
      BY <1>4, <2>3 DEF Produced
    <3>3. out2[s].sent > 0 /\ out2[s].sent < Head(out2[s].items).size
      BY <1>2, <1>3, <3>1, <3>2
    <3>4. out[s].pause \in {"NotPaused", "Pending"}
      BY DEF MayProduce
    <3> QED BY <1>2, <1>4, <2>3, <3>1, <3>3, <3>4
  <2> QED BY <2>1, <2>2, <2>3
<1>7. TailOK(M, out2)
  BY <1>1, <1>4, <1>6 DEF TailOK
<1> QED BY <1>7 DEF M

LEMMA ProducedCount ==
    ASSUME NEW L \in Seq(Chunk), NEW out \in [Sids -> OutgoingStream], NEW s \in Sids,
           NEW c \in Chunk, NEW out2 \in [Sids -> OutgoingStream],
           TailOK(L, out), CountOK(L, out), MayProduce(out, s), Produced(out, s, c, out2)
    PROVE  CountOK(Append(L, c), out2)
<1> DEFINE M == Append(L, c)
           N == Len(L)
<1>1. /\ N \in Nat /\ Len(M) = N + 1 /\ M[N + 1] = c /\ N + 1 \in Tsns(M) /\ Tsns(L) \subseteq Tsns(M)
      /\ \A t \in Tsns(L) : M[t] = L[t]
      /\ \A t \in Tsns(M) : t \in Tsns(L) \/ t = N + 1
  BY Appended
<1> HIDE DEF M
<1>2. /\ c.sid = s /\ c.m = Head(out[s].items) /\ c.epoch = out[s].epoch /\ c.epoch \in Nat
      /\ c.ssn = IF c.m.unordered THEN 0 ELSE out[s].ssn
      /\ out2[s].epoch = out[s].epoch
  BY DEF Produced, Chunk
<1>3. /\ out[s].ssn \in Nat /\ out2[s].ssn \in Nat /\ out[s].sent \in Nat
  BY StreamFacts
<1>4. ~c.ends => out2[s].items = out[s].items /\ out2[s].sent > 0 /\ out2[s].ssn = out[s].ssn
  <2> SUFFICES ASSUME ~c.ends
               PROVE  out2[s].items = out[s].items /\ out2[s].sent > 0 /\ out2[s].ssn = out[s].ssn
    OBVIOUS
  <2>1. out2[s].items = out[s].items /\ out2[s].sent = out[s].sent + 1 /\ out2[s].ssn = out[s].ssn
    BY DEF Produced
  <2>2. out[s].sent + 1 > 0
    BY <1>3
  <2> QED BY <2>1, <2>2
<1>5. c.ends => out2[s].ssn = IF c.m.unordered THEN out[s].ssn ELSE out[s].ssn + 1
  BY DEF Produced
<1>6. \A r \in Sids : r # s => out2[r] = out[r]
  BY DEF Produced
<1>7. \A t \in Tsns(L) : L[t] \in Chunk /\ L[t].sid \in Sids /\ L[t].ssn \in Nat
  <2>1. \A d \in Chunk : d.sid \in Sids /\ d.ssn \in Nat
    BY DEF Chunk
  <2> QED BY <2>1, SeqFacts
<1>8. ASSUME NEW t \in Tsns(M) PROVE M[t].epoch <= out2[M[t].sid].epoch
  <2>1. CASE t = N + 1
    BY <1>1, <1>2, <2>1
  <2>2. CASE t \in Tsns(L)
    <3>1. M[t] = L[t] /\ L[t].sid \in Sids /\ L[t].epoch <= out[L[t].sid].epoch
      BY <1>1, <1>7, <2>2 DEF CountOK
    <3>2. out2[L[t].sid].epoch = out[L[t].sid].epoch
      BY <1>2, <1>6, <3>1
    <3> QED BY <3>1, <3>2
  <2> QED BY <1>1, <2>1, <2>2
<1>9. ASSUME NEW t \in Tsns(M), M[t].epoch = out2[M[t].sid].epoch, Ordered(M, t)
      PROVE  /\ M[t].ssn <= out2[M[t].sid].ssn
             /\ M[t].ssn = out2[M[t].sid].ssn =>
                  out2[M[t].sid].sent > 0 /\ ~Head(out2[M[t].sid].items).unordered
  <2>1. CASE t = N + 1
    <3>1. M[t] = c /\ ~c.m.unordered /\ c.ssn = out[s].ssn
      BY <1>1, <1>2, <1>9, <2>1 DEF Ordered
    <3>2. CASE c.ends
      BY <1>2, <1>3, <1>5, <3>1, <3>2
    <3>3. CASE ~c.ends
      BY <1>2, <1>3, <1>4, <3>1, <3>3
    <3> QED BY <3>2, <3>3
  <2>2. CASE t \in Tsns(L)
    <3>1. M[t] = L[t] /\ ~L[t].m.unordered /\ L[t].sid \in Sids /\ L[t].ssn \in Nat
      BY <1>1, <1>7, <1>9, <2>2 DEF Ordered
    <3>2. L[t].epoch = out[L[t].sid].epoch
      BY <1>2, <1>6, <1>9, <3>1
    <3>3. /\ L[t].ssn <= out[L[t].sid].ssn
          /\ L[t].ssn = out[L[t].sid].ssn =>
               out[L[t].sid].sent > 0 /\ ~Head(out[L[t].sid].items).unordered
      BY <2>2, <3>1, <3>2 DEF CountOK, Ordered
    <3>4. CASE L[t].sid # s
      BY <1>6, <3>1, <3>3, <3>4
    <3>5. CASE L[t].sid = s /\ c.ends /\ ~c.m.unordered
      BY <1>3, <1>5, <3>1, <3>3, <3>5
    <3>6. CASE L[t].sid = s /\ c.ends /\ c.m.unordered
      BY <1>2, <1>3, <1>5, <3>1, <3>3, <3>6
    <3>7. CASE L[t].sid = s /\ ~c.ends
      BY <1>3, <1>4, <3>1, <3>3, <3>7
    <3> QED BY <3>4, <3>5, <3>6, <3>7
  <2> QED BY <1>1, <2>1, <2>2
<1>10. ASSUME NEW r \in Sids, NEW k \in Nat, k < out2[r].ssn
       PROVE  \E u \in Tsns(M) : Numbered(M, u, r, out2[r].epoch, k)
  <2>1. CASE k < out[r].ssn
    <3>1. PICK u \in Tsns(L) : Numbered(L, u, r, out[r].epoch, k)
      BY <2>1 DEF CountOK
    <3>2. u \in Tsns(M) /\ M[u] = L[u] /\ out2[r].epoch = out[r].epoch
      BY <1>1, <1>2, <1>6
    <3> QED BY <3>1, <3>2 DEF Numbered, Ordered
  <2>2. CASE ~(k < out[r].ssn)
    <3>1. r = s
      BY <1>6, <1>10, <2>2
    <3>2. c.ends /\ ~c.m.unordered /\ k = out[s].ssn
      <4>1. CASE ~c.ends
        BY <1>4, <1>10, <2>2, <3>1, <4>1
      <4>2. CASE c.ends
        BY <1>3, <1>5, <1>10, <2>2, <3>1, <4>2
      <4> QED BY <4>1, <4>2
    <3>3. Numbered(M, N + 1, s, out2[s].epoch, k)
      BY <1>1, <1>2, <3>2 DEF Numbered, Ordered
    <3> QED BY <1>1, <3>1, <3>3
  <2> QED BY <2>1, <2>2
<1>11. CountOK(M, out2)
  BY <1>8, <1>9, <1>10 DEF CountOK
<1> QED BY <1>11 DEF M

LEMMA ProducedItems ==
    ASSUME NEW L \in Seq(Chunk), NEW out \in [Sids -> OutgoingStream], NEW s \in Sids,
           NEW c \in Chunk, NEW out2 \in [Sids -> OutgoingStream], NEW n \in Nat,
           ItemsOK(L, out, n), MayProduce(out, s), Produced(out, s, c, out2)
    PROVE  ItemsOK(Append(L, c), out2, n)
<1> DEFINE M == Append(L, c)
           N == Len(L)
           k(r) == IF r = s /\ c.ends THEN 1 ELSE 0
<1>1. /\ N \in Nat /\ Len(M) = N + 1 /\ M[N + 1] = c /\ N + 1 \in Tsns(M) /\ Tsns(L) \subseteq Tsns(M)
      /\ \A t \in Tsns(L) : M[t] = L[t]
      /\ \A t \in Tsns(M) : t \in Tsns(L) \/ t = N + 1
  BY Appended
<1>2. \A t \in Tsns(L) : Joined(L, t, N) /\ ~c.begins => Joined(M, t, N + 1)
  BY JoinedAppend
<1> HIDE DEF M
<1>3. /\ out[s].items \in Seq(Message) /\ out[s].items # <<>> /\ out[s].sent \in Nat
      /\ Head(out[s].items) = out[s].items[1] /\ 1 \in 1..Len(out[s].items)
      /\ Len(Tail(out[s].items)) = Len(out[s].items) - 1
      /\ \A i \in 1..Len(Tail(out[s].items)) : Tail(out[s].items)[i] = out[s].items[i + 1]
  BY StreamFacts, HeadFacts DEF MayProduce
<1>4. c.sid = s /\ c.m = out[s].items[1]
  BY <1>3 DEF Produced
<1>5. \A r \in Sids : Len(out[r].items) \in Nat /\ \A i \in 1..Len(out[r].items) : out[r].items[i].id \in Nat
  BY StreamFacts
\* An item that is left is the one k places further in the old list.
<1>6. ASSUME NEW r \in Sids
      PROVE  /\ Len(out2[r].items) = Len(out[r].items) - k(r)
             /\ \A i \in 1..Len(out2[r].items) :
                  /\ i \in Nat /\ i >= 1 /\ i + k(r) \in 1..Len(out[r].items)
                  /\ out2[r].items[i] = out[r].items[i + k(r)]
  <2>1. CASE r = s /\ c.ends
    <3>1. out2[s].items = Tail(out[s].items)
      BY <2>1 DEF Produced
    <3> QED BY <1>3, <1>5, <2>1, <3>1
  <2>2. CASE ~(r = s /\ c.ends)
    <3>1. out2[r].items = out[r].items
      <4>1. CASE r # s
        BY <4>1 DEF Produced
      <4>2. CASE r = s
        <5>1. ~c.ends
          BY <2>2, <4>2
        <5>2. out2[s].items = out[s].items
          BY <5>1 DEF Produced
        <5> QED BY <4>2, <5>2
      <4> QED BY <4>1, <4>2
    <3>2. k(r) = 0
      BY <2>2
    <3>3. Len(out[r].items) \in Nat
      BY <1>5
    <3> HIDE DEF k
    <3> QED BY <3>1, <3>2, <3>3
  <2> QED BY <2>1, <2>2
<1>7. \A r \in Sids : k(r) \in {0, 1}
  OBVIOUS
<1>8. /\ \A t \in Tsns(L) : L[t].m.id <= n
      /\ \A r \in Sids : \A i \in 1..Len(out[r].items) :
         /\ out[r].items[i].id <= n
         /\ \A j \in 1..Len(out[r].items) : i < j => out[r].items[i].id < out[r].items[j].id
         /\ \A q \in Sids : \A j \in 1..Len(out[q].items) :
              q # r => out[r].items[i].id # out[q].items[j].id
         /\ \A t \in Tsns(L) :
              /\ L[t].sid = r => L[t].m.id <= out[r].items[i].id
              /\ L[t].m.id = out[r].items[i].id =>
                   L[t].sid = r /\ i = 1 /\ out[r].sent > 0 /\ Joined(L, t, N)
  BY DEF ItemsOK
<1>9. \A t \in Tsns(M) : M[t].m.id <= n
  BY <1>1, <1>3, <1>4, <1>8
<1>10. ASSUME NEW r \in Sids, NEW i \in 1..Len(out2[r].items)
       PROVE  /\ out2[r].items[i].id <= n
              /\ \A j \in 1..Len(out2[r].items) : i < j => out2[r].items[i].id < out2[r].items[j].id
              /\ \A q \in Sids : \A j \in 1..Len(out2[q].items) :
                   q # r => out2[r].items[i].id # out2[q].items[j].id
  <2>1. i + k(r) \in 1..Len(out[r].items) /\ out2[r].items[i] = out[r].items[i + k(r)]
    BY <1>6
  <2>2. ASSUME NEW j \in 1..Len(out2[r].items), i < j
        PROVE  out2[r].items[i].id < out2[r].items[j].id
    <3>1. j + k(r) \in 1..Len(out[r].items) /\ out2[r].items[j] = out[r].items[j + k(r)] /\ i \in Nat /\ j \in Nat
      BY <1>6
    <3>2. i + k(r) < j + k(r)
      BY <1>7, <2>2, <3>1
    <3> HIDE DEF k
    <3> QED BY <1>8, <2>1, <3>1, <3>2
  <2>3. ASSUME NEW q \in Sids, NEW j \in 1..Len(out2[q].items), q # r
        PROVE  out2[r].items[i].id # out2[q].items[j].id
    <3>1. j + k(q) \in 1..Len(out[q].items) /\ out2[q].items[j] = out[q].items[j + k(q)]
      BY <1>6
    <3> HIDE DEF k
    <3> QED BY <1>8, <2>1, <2>3, <3>1
  <2> HIDE DEF k
  <2> QED BY <1>8, <2>1, <2>2, <2>3
<1>11. ASSUME NEW r \in Sids, NEW i \in 1..Len(out2[r].items), NEW t \in Tsns(M)
       PROVE  /\ M[t].sid = r => M[t].m.id <= out2[r].items[i].id
              /\ M[t].m.id = out2[r].items[i].id =>
                   M[t].sid = r /\ i = 1 /\ out2[r].sent > 0 /\ Joined(M, t, N + 1)
  <2>1. /\ i + k(r) \in 1..Len(out[r].items) /\ out2[r].items[i] = out[r].items[i + k(r)]
        /\ i \in Nat /\ i >= 1 /\ Len(out[r].items) \in Nat
    BY <1>5, <1>6
  <2>2. out[r].items[i + k(r)].id \in Nat
    BY <1>5, <2>1
  <2>3. CASE t \in Tsns(L)
    <3>1. /\ L[t].sid = r => L[t].m.id <= out[r].items[i + k(r)].id
          /\ L[t].m.id = out[r].items[i + k(r)].id =>
               L[t].sid = r /\ i + k(r) = 1 /\ out[r].sent > 0 /\ Joined(L, t, N)
      <4> HIDE DEF k
      <4> QED BY <1>8, <2>1, <2>3
    <3>2. ASSUME M[t].m.id = out2[r].items[i].id
          PROVE  M[t].sid = r /\ i = 1 /\ out2[r].sent > 0 /\ Joined(M, t, N + 1)
      <4>1. L[t].sid = r /\ i + k(r) = 1 /\ out[r].sent > 0 /\ Joined(L, t, N) /\ M[t] = L[t]
        BY <1>1, <2>1, <2>3, <3>1, <3>2
      <4>2. r = s
        BY <4>1 DEF MayProduce
      <4>3. k(r) = 0 /\ i = 1
        BY <1>7, <2>1, <4>1
      <4>4. ~c.ends
        BY <4>2, <4>3
      <4>5. out2[s].sent = out[s].sent + 1 /\ ~c.begins
        <5>1. out[s].sent # 0
          BY <1>3, <4>1, <4>2
        <5> QED BY <4>4, <5>1 DEF Produced
      <4> QED BY <1>2, <1>3, <2>3, <4>1, <4>2, <4>3, <4>5
    <3> QED BY <1>1, <2>1, <2>3, <3>1, <3>2
  <2>4. CASE t = N + 1
    <3>1. M[t] = c
      BY <1>1, <2>4
    <3>2. CASE r # s
      <4>1. c.m.id # out2[r].items[i].id
        <5> HIDE DEF k
        <5> QED BY <1>3, <1>4, <1>8, <2>1, <3>2
      <4> QED BY <1>4, <3>1, <3>2, <4>1
    <3>3. CASE r = s /\ i + k(r) = 1
      <4>1. k(r) = 0 /\ i = 1
        BY <1>7, <2>1, <3>3
      <4>2. ~c.ends
        BY <3>3, <4>1
      <4>3. out2[s].sent = out[s].sent + 1
        BY <4>2 DEF Produced
      <4>4. Joined(M, N + 1, N + 1)
        BY <1>1 DEF Joined
      <4>5. out2[s].items[i] = c.m
        BY <1>4, <2>1, <3>3
      <4> QED BY <1>3, <1>4, <1>5, <2>4, <3>1, <3>3, <4>1, <4>3, <4>4, <4>5
    <3>4. CASE r = s /\ i + k(r) # 1
      <4>1. 1 < i + k(r)
        BY <2>1, <3>4
      <4>2. c.m.id < out2[s].items[i].id
        <5> HIDE DEF k
        <5> QED BY <1>3, <1>4, <1>8, <2>1, <3>4, <4>1
      <4>3. c.m.id \in Nat /\ out2[s].items[i].id \in Nat
        BY <1>3, <1>4, <1>5, <2>1, <2>2, <3>4
      <4> QED BY <1>4, <3>1, <3>4, <4>2, <4>3
    <3> QED BY <3>2, <3>3, <3>4
  <2> QED BY <1>1, <2>3, <2>4
<1>12. ItemsOK(M, out2, n)
  BY <1>1, <1>9, <1>10, <1>11 DEF ItemsOK
<1> QED BY <1>12 DEF M

LEMMA ProducedSend ==
    ASSUME NEW L \in Seq(Chunk), NEW out \in [Sids -> OutgoingStream], NEW s \in Sids,
           NEW c \in Chunk, NEW out2 \in [Sids -> OutgoingStream], NEW n \in Nat,
           SendOK(L, out, n), MayProduce(out, s), Produced(out, s, c, out2)
    PROVE  SendOK(Append(L, c), out2, n)
BY ProducedLog, ProducedTail, ProducedCount, ProducedItems DEF SendOK

-----------------------------------------------------------------------------
(* The receiver while a chunk is produced *)

LEMMA GoneAppend ==
    ASSUME NEW L \in Seq(Chunk), NEW c \in Chunk, NEW got, NEW in, got \subseteq Tsns(L)
    PROVE  \A t : Gone(Append(L, c), got, in, t) <=> Gone(L, got, in, t)
<1> DEFINE M == Append(L, c)
<1>1. \A t \in Tsns(L) : M[t] = L[t]
  BY Appended
<1> HIDE DEF M
<1>2. \A t : Gone(M, got, in, t) <=> Gone(L, got, in, t)
  BY <1>1 DEF Gone
<1> QED BY <1>2 DEF M

\* A message of the longer log that ends in the shorter one.
LEMMA SpanAppend ==
    ASSUME NEW L \in Seq(Chunk), NEW c \in Chunk, NEW b \in Tsns(L), NEW d \in Tsns(L), b <= d
    PROVE  Span(Append(L, c), b, d) <=> Span(L, b, d)
<1> DEFINE M == Append(L, c)
<1>1. \A t \in Tsns(L) : M[t] = L[t]
  BY Appended
<1>2. b \in Nat /\ d \in Nat /\ b..d \subseteq Tsns(L)
  BY SeqFacts DEF Tsns
<1> HIDE DEF M
<1>3. \A t \in b..d : M[t] = L[t] /\ L[t] = M[t]
  BY <1>1, <1>2
<1>4. Span(M, b, d) <=> Span(L, b, d)
  BY <1>2, <1>3, SpanSame
<1> QED BY <1>4 DEF M

LEMMA ProducedRecv ==
    ASSUME NEW L \in Seq(Chunk), NEW out \in [Sids -> OutgoingStream], NEW s \in Sids,
           NEW c \in Chunk, NEW out2 \in [Sids -> OutgoingStream],
           NEW got, NEW in \in [Sids -> IncomingStream],
           Produced(out, s, c, out2), RecvOK(L, out, got, in), in[s].epoch = out[s].epoch
    PROVE  RecvOK(Append(L, c), out2, got, in)
<1> DEFINE M == Append(L, c)
           N == Len(L)
<1>1. /\ N \in Nat /\ Len(M) = N + 1 /\ M[N + 1] = c /\ Tsns(L) \subseteq Tsns(M)
      /\ \A t \in Tsns(L) : M[t] = L[t] /\ t \in Nat /\ t >= 1 /\ t <= N
      /\ \A t \in Tsns(M) : t \in Tsns(L) \/ t = N + 1
      /\ N + 1 \notin Tsns(L)
  BY Appended DEF Tsns
<1>2. got \subseteq Tsns(L)
  BY DEF RecvOK, HeldOK
<1>3. \A t : Gone(M, got, in, t) <=> Gone(L, got, in, t)
  BY <1>2, GoneAppend
<1>4. \A b, d \in Tsns(L) : b <= d => (Span(M, b, d) <=> Span(L, b, d))
  BY SpanAppend
<1>5. /\ c.sid = s /\ c.epoch = out[s].epoch /\ c.ssn = IF c.m.unordered THEN 0 ELSE out[s].ssn
  BY DEF Produced
<1>6. \A r \in Sids : in[r].ordered \subseteq Tsns(L) /\ in[r].unordered \subseteq Tsns(L) /\ in[r].ssn \in Nat
  <2>1. \A r \in Sids : in[r].ssn \in Nat
    BY DEF IncomingStream
  <2> QED BY <1>2, <2>1 DEF RecvOK, HeldOK
<1> HIDE DEF M
<1>7. HeldOK(M, got, in)
  <2>1. got \subseteq Tsns(M)
    BY <1>1, <1>2
  <2>2. ASSUME NEW r \in Sids
        PROVE  /\ \A t \in in[r].ordered :
                    t \in got /\ M[t].sid = r /\ M[t].epoch = in[r].epoch /\ Ordered(M, t)
               /\ \A t \in in[r].unordered :
                    t \in got /\ M[t].sid = r /\ M[t].epoch = in[r].epoch /\ ~Ordered(M, t)
    BY <1>1, <1>6 DEF RecvOK, HeldOK, Ordered
  <2>3. ASSUME NEW t \in Tsns(M), t \notin got PROVE M[t].epoch = in[M[t].sid].epoch
    <3>1. CASE t \in Tsns(L)
      BY <1>1, <2>3, <3>1 DEF RecvOK, HeldOK
    <3>2. CASE t = N + 1
      BY <1>1, <1>5, <3>2
    <3> QED BY <1>1, <3>1, <3>2
  <2> QED BY <2>1, <2>2, <2>3 DEF HeldOK
<1>8. WholeOK(M, got, in)
  <2> SUFFICES ASSUME NEW t \in Tsns(M), Gone(M, got, in, t)
               PROVE  \E b \in 1..t, d \in t..Len(M) :
                        Span(M, b, d) /\ M[d].ends /\ \A k \in b..d : Gone(M, got, in, k)
    BY DEF WholeOK
  <2>1. t \in Tsns(L) /\ Gone(L, got, in, t)
    BY <1>2, <1>3 DEF Gone
  <2>2. PICK b \in 1..t, d \in t..Len(L) :
               Span(L, b, d) /\ L[d].ends /\ \A k \in b..d : Gone(L, got, in, k)
    BY <2>1 DEF RecvOK, WholeOK
  <2>3. b \in Tsns(L) /\ d \in Tsns(L) /\ b <= d /\ d \in t..Len(M)
    BY <1>1, <2>1 DEF Tsns
  <2> QED BY <1>1, <1>3, <1>4, <2>2, <2>3
<1>9. NextOK(M, out2, got, in)
  <2>1. ASSUME NEW t \in Tsns(M), Ordered(M, t), M[t].epoch = in[M[t].sid].epoch
        PROVE  Gone(M, got, in, t) <=> M[t].ssn < in[M[t].sid].ssn
    <3>1. CASE t \in Tsns(L)
      <4>1. M[t] = L[t]
        BY <1>1, <3>1
      <4>2. Gone(L, got, in, t) <=> L[t].ssn < in[L[t].sid].ssn
        BY <2>1, <3>1, <4>1 DEF RecvOK, NextOK, Ordered
      <4> QED BY <1>3, <4>1, <4>2
    <3>2. CASE t = N + 1
      <4>1. ~Gone(M, got, in, t)
        BY <1>1, <1>2, <3>2 DEF Gone
      <4>2. M[t] = c /\ c.ssn = out[s].ssn
        BY <1>1, <1>5, <2>1, <3>2 DEF Ordered
      <4>3. in[s].ssn <= out[s].ssn
        BY DEF RecvOK, NextOK
      <4>4. out[s].ssn \in Nat /\ in[s].ssn \in Nat
        BY <1>6, StreamFacts
      <4> QED BY <1>5, <4>1, <4>2, <4>3, <4>4
    <3> QED BY <1>1, <3>1, <3>2
  <2>2. ASSUME NEW r \in Sids
        PROVE  ~Whole(M, {u \in in[r].ordered : M[u].ssn = in[r].ssn})
    <3> DEFINE C == {u \in in[r].ordered : L[u].ssn = in[r].ssn}
    <3>1. {u \in in[r].ordered : M[u].ssn = in[r].ssn} = C
      BY <1>1, <1>6
    <3>2. ~Whole(L, C)
      BY DEF RecvOK, NextOK
    <3>3. C \subseteq 1..N /\ \A t \in C : M[t] = L[t]
      BY <1>1, <1>6 DEF Tsns
    <3> HIDE DEF C
    <3>4. ~Whole(M, C)
      BY <1>1, <3>2, <3>3, WholeSame
    <3> QED BY <3>1, <3>4
  <2>3. ASSUME NEW r \in Sids
        PROVE  in[r].ssn <= IF in[r].epoch = out2[r].epoch THEN out2[r].ssn ELSE 0
    <3>1. in[r].ssn <= IF in[r].epoch = out[r].epoch THEN out[r].ssn ELSE 0
      BY DEF RecvOK, NextOK
    <3>2. out2[r].epoch = out[r].epoch
      BY DEF Produced
    <3>3. out2[r].ssn \in Nat /\ out[r].ssn \in Nat /\ out[r].ssn <= out2[r].ssn
      <4>1. out2[r].ssn \in Nat /\ out[r].ssn \in Nat
        BY StreamFacts
      <4>2. CASE r # s
        BY <4>1, <4>2 DEF Produced
      <4>3. CASE r = s /\ c.ends
        BY <4>1, <4>3 DEF Produced
      <4>4. CASE r = s /\ ~c.ends
        <5>1. out2[s].ssn = out[s].ssn
          BY <4>4 DEF Produced
        <5> QED BY <4>1, <4>4, <5>1
      <4> QED BY <4>2, <4>3, <4>4
    <3> QED BY <1>6, <3>1, <3>2, <3>3
  <2>4. ASSUME NEW r \in Sids, NEW b \in in[r].unordered, NEW d \in in[r].unordered,
               b <= d, Span(M, b, d), M[d].ends, b..d \subseteq in[r].unordered
        PROVE  FALSE
    <3>1. b \in Tsns(L) /\ d \in Tsns(L)
      BY <1>6
    <3>2. Span(L, b, d) /\ L[d].ends
      BY <1>1, <1>4, <2>4, <3>1
    <3> QED BY <2>4, <3>2 DEF RecvOK, NextOK
  <2> QED BY <2>1, <2>2, <2>3, <2>4 DEF NextOK
<1>10. RecvOK(M, out2, got, in)
  BY <1>7, <1>8, <1>9 DEF RecvOK
<1> QED BY <1>10 DEF M

LEMMA ProducedHeard ==
    ASSUME NEW L \in Seq(Chunk), NEW c \in Chunk, NEW got, NEW in, NEW h,
           got \subseteq Tsns(L), HeardOK(L, got, in, h)
    PROVE  HeardOK(Append(L, c), got, in, h)
<1> DEFINE M == Append(L, c)
<1>1. /\ Tsns(L) \subseteq Tsns(M)
      /\ \A t \in Tsns(L) : M[t] = L[t]
  BY Appended
<1>2. \A t : Gone(M, got, in, t) <=> Gone(L, got, in, t)
  BY GoneAppend
<1>3. \A t : Gone(L, got, in, t) => t \in Tsns(L)
  BY DEF Gone
<1> HIDE DEF M
<1>4. \A t \in Tsns(L) : OnMessageReceived(M, t) = OnMessageReceived(L, t)
  BY <1>1 DEF OnMessageReceived
<1>5. HeardOK(M, got, in, h)
  <2>1. ASSUME NEW i \in 1..Len(h), IsMessage(h[i])
        PROVE  \E t \in Tsns(M) : Gone(M, got, in, t) /\ h[i] = OnMessageReceived(M, t)
    BY <1>1, <1>2, <1>4, <2>1 DEF HeardOK
  <2>2. ASSUME NEW t \in Tsns(M), Gone(M, got, in, t)
        PROVE  \E i \in 1..Len(h) : h[i] = OnMessageReceived(M, t)
    BY <1>2, <1>3, <1>4, <2>2 DEF HeardOK
  <2> QED BY <2>1, <2>2 DEF HeardOK
<1> QED BY <1>5 DEF M

LEMMA ProducedReq ==
    ASSUME NEW L \in Seq(Chunk), NEW out \in [Sids -> OutgoingStream], NEW s \in Sids,
           NEW c \in Chunk, NEW out2 \in [Sids -> OutgoingStream],
           NEW req, NEW nextSn, NEW requests,
           MayProduce(out, s), Produced(out, s, c, out2), ReqOK(L, out, req, nextSn, requests)
    PROVE  ReqOK(Append(L, c), out2, req, nextSn, requests) /\ s \notin req.streams
<1> DEFINE M == Append(L, c)
           N == Len(L)
<1>1. /\ M[N + 1] = c /\ c.sid = s
      /\ \A t \in Tsns(L) : M[t] = L[t]
      /\ \A t \in Tsns(M) : t \in Tsns(L) \/ t = N + 1
  BY Appended DEF Produced
<1> HIDE DEF M
<1>2. \A r \in Sids : out2[r].pause = "Resetting" <=> out[r].pause = "Resetting"
  <2>1. out[s].pause # "Resetting"
    BY DEF MayProduce
  <2>2. out2[s].pause # "Resetting"
    <3>1. CASE c.ends
      BY <2>1, <3>1 DEF Produced
    <3>2. CASE ~c.ends
      BY <2>1, <3>2 DEF Produced
    <3> QED BY <3>1, <3>2
  <2>3. \A r \in Sids : r # s => out2[r] = out[r]
    BY DEF Produced
  <2> QED BY <2>1, <2>2, <2>3
<1>3. req.streams = {r \in Sids : out2[r].pause = "Resetting"}
  BY <1>2 DEF ReqOK
<1>4. s \notin req.streams
  BY DEF ReqOK, MayProduce
<1>5. \A t \in Tsns(M) : M[t].sid \in req.streams => t <= req.last
  BY <1>1, <1>4 DEF ReqOK
<1>6. ReqOK(M, out2, req, nextSn, requests)
  BY <1>3, <1>5 DEF ReqOK
<1> QED BY <1>4, <1>6 DEF M

-----------------------------------------------------------------------------
(* Sockets *)

\* What is to hold of socket e of a peer in the middle of a call: y is the socket
\* of the other peer, hp and hq the callbacks that the two clients got before the
\* call, np and nq the numbers of messages they have sent.
Good(e, y, hp, hq, np, nq) ==
    e \in Socket /\ Way(e, y, hq, np) /\ Way(y, e, hp \o e.calls, nq)

LEMMA SocketFields ==
    ASSUME NEW e \in Socket
    PROVE  /\ e.out \in [Sids -> OutgoingStream] /\ e.current \in Sids /\ e.log \in Seq(Chunk)
           /\ e.room \in Nat /\ e.req \in Request /\ e.nextSn \in Nat /\ e.nextSn # 0
           /\ e.lastSn \in Nat /\ e.lastResult \in Results /\ e.got \in SUBSET Nat
           /\ e.in \in [Sids -> IncomingStream]
           /\ e.deferred \in [last : Nat, streams : SUBSET Sids, tsns : Seq(Nat)]
           /\ e.calls \in Seq(Call) /\ e.requests \in SUBSET Request
           /\ e.responses \in SUBSET Response
BY DEF Socket

\* A call that is not a message may be added.
LEMMA HeardOther ==
    ASSUME NEW L, NEW got, NEW in, NEW h \in Seq(Call), NEW c \in Call, ~IsMessage(c),
           HeardOK(L, got, in, h)
    PROVE  HeardOK(L, got, in, Append(h, c))
<1> DEFINE g == Append(h, c)
<1>1. /\ Len(h) \in Nat /\ Len(g) = Len(h) + 1 /\ g[Len(h) + 1] = c
      /\ \A i \in 1..Len(h) : g[i] = h[i]
  BY AppendProperties, LenProperties
<1>2. \A i \in 1..Len(g) : IsMessage(g[i]) => i \in 1..Len(h) /\ g[i] = h[i]
  <2>1. \A i \in 1..Len(g) : i \in 1..Len(h) \/ i = Len(h) + 1
    BY <1>1
  <2> HIDE DEF g
  <2> QED BY <1>1, <2>1
<1>3. 1..Len(h) \subseteq 1..Len(g)
  BY <1>1
<1> HIDE DEF g
<1>4. HeardOK(L, got, in, g)
  BY <1>1, <1>2, <1>3 DEF HeardOK
<1> QED BY <1>4 DEF g

LEMMA ConcatAppend ==
    ASSUME NEW h \in Seq(Call), NEW q \in Seq(Call), NEW c \in Call
    PROVE  h \o Append(q, c) = Append(h \o q, c) /\ h \o q \in Seq(Call)
<1>1. Append(q, c) = q \o <<c>> /\ <<c>> \in Seq(Call) /\ h \o q \in Seq(Call)
  BY AppendIsConcat, ConcatProperties
<1>2. (h \o q) \o <<c>> = h \o (q \o <<c>>)
  BY <1>1, ConcatAssociative
<1>3. Append(h \o q, c) = (h \o q) \o <<c>>
  BY <1>1, AppendIsConcat
<1> QED BY <1>1, <1>2, <1>3

\* What the socket has received stays, and the client gets no message.
SameReceiver(e, f) ==
    /\ f.got = e.got /\ f.in = e.in /\ f.deferred = e.deferred
    /\ f.lastSn = e.lastSn /\ f.lastResult = e.lastResult /\ f.responses = e.responses
    /\ f.calls = e.calls \/ \E c \in Call : ~IsMessage(c) /\ f.calls = Append(e.calls, c)

LEMMA SenderStep ==
    ASSUME NEW e, NEW f, NEW y, NEW hp \in Seq(Call), NEW hq, NEW np, NEW nq, NEW np2,
           Good(e, y, hp, hq, np, nq), f \in Socket, SameReceiver(e, f), Way(f, y, hq, np2)
    PROVE  Good(f, y, hp, hq, np2, nq)
<1>1. HeardOK(y.log, f.got, f.in, hp \o f.calls)
  <2>1. HeardOK(y.log, f.got, f.in, hp \o e.calls)
    BY DEF Good, Way, SameReceiver
  <2>2. CASE f.calls = e.calls
    BY <2>1, <2>2
  <2>3. CASE f.calls # e.calls
    <3>1. PICK c \in Call : ~IsMessage(c) /\ f.calls = Append(e.calls, c)
      BY <2>3 DEF SameReceiver
    <3>2. e.calls \in Seq(Call)
      BY SocketFields DEF Good
    <3>3. hp \o f.calls = Append(hp \o e.calls, c) /\ hp \o e.calls \in Seq(Call)
      BY <3>1, <3>2, ConcatAppend
    <3> QED BY <2>1, <3>1, <3>3, HeardOther
  <2> QED BY <2>2, <2>3
<1>2. RecvOK(y.log, y.out, f.got, f.in)
  BY DEF Good, Way, SameReceiver
<1>3. LinkOK(y, f)
  <2>1. LinkOK(y, e)
    BY DEF Good, Way
  <2>2. /\ f.in = e.in /\ f.deferred = e.deferred
        /\ f.lastSn = e.lastSn /\ f.lastResult = e.lastResult /\ f.responses = e.responses
    BY DEF SameReceiver
  <2> QED BY <2>1, <2>2 DEF LinkOK
<1> QED BY <1>1, <1>2, <1>3 DEF Good, Way

\* What the socket sends stays.
SameSender(e, f) ==
    /\ f.log = e.log /\ f.out = e.out /\ f.req = e.req /\ f.nextSn = e.nextSn
    /\ f.requests = e.requests

LEMMA ReceiverStep ==
    ASSUME NEW e, NEW f, NEW y, NEW hp, NEW hq, NEW np, NEW nq,
           Good(e, y, hp, hq, np, nq), f \in Socket, SameSender(e, f),
           RecvOK(y.log, y.out, f.got, f.in), HeardOK(y.log, f.got, f.in, hp \o f.calls), LinkOK(y, f)
    PROVE  Good(f, y, hp, hq, np, nq)
<1>1. LinkOK(f, y)
  <2>1. LinkOK(e, y)
    BY DEF Good, Way
  <2>2. f.out = e.out /\ f.req = e.req /\ f.nextSn = e.nextSn
    BY DEF SameSender
  <2> QED BY <2>1, <2>2 DEF LinkOK
<1>2. Way(f, y, hq, np)
  BY <1>1 DEF Good, Way, SameSender
<1> QED BY <1>2 DEF Good, Way

-----------------------------------------------------------------------------
(* Produce *)

\* The fields of a socket that has produced a chunk.
LEMMA ProduceFields ==
    ASSUME NEW e \in Socket, NEW s \in Sids, e.out[s].items # <<>>
    PROVE  LET f == Produce(e, s) IN
           \E c \in Chunk :
             /\ f \in Socket /\ f.log = Append(e.log, c) /\ Produced(e.out, s, c, f.out)
             /\ f.room = e.room /\ f.req = e.req /\ f.nextSn = e.nextSn /\ f.requests = e.requests
             /\ SameReceiver(e, f)
<1> DEFINE st == e.out[s]
           m == Head(st.items)
           isEnd == st.sent + 1 = m.size
           c == [sid |-> s, m |-> m, ssn |-> IF m.unordered THEN 0 ELSE st.ssn,
                 begins |-> st.sent = 0, ends |-> isEnd, epoch |-> st.epoch]
           f == Produce(e, s)
           su == [items |-> IF isEnd THEN Tail(st.items) ELSE st.items,
                  sent |-> IF isEnd THEN 0 ELSE st.sent + 1,
                  ssn |-> IF isEnd /\ ~m.unordered THEN st.ssn + 1 ELSE st.ssn,
                  pause |-> IF isEnd /\ st.pause = "Pending" THEN "Paused" ELSE st.pause,
                  epoch |-> st.epoch]
<1>1. /\ st \in OutgoingStream /\ st.items \in Seq(Message) /\ st.sent \in Nat /\ st.ssn \in Nat
      /\ st.epoch \in Nat /\ m \in Message /\ Tail(st.items) \in Seq(Message)
      /\ e.log \in Seq(Chunk) /\ e.out \in [Sids -> OutgoingStream]
      /\ st.pause \in {"NotPaused", "Pending", "Paused", "Resetting"}
  BY SocketFields, StreamFacts, HeadFacts DEF OutgoingStream
<1>2. c \in Chunk
  BY <1>1 DEF Chunk
<1>3. su \in OutgoingStream
  BY <1>1 DEF OutgoingStream
<1>4. f = [e EXCEPT !.log = Append(@, c), !.current = s, !.out[s] = su]
  BY DEF Produce
<1>5. /\ c.sid = s /\ c.m = m /\ c.epoch = st.epoch /\ c.ssn = IF m.unordered THEN 0 ELSE st.ssn
      /\ c.begins <=> st.sent = 0
      /\ c.ends <=> st.sent + 1 = m.size
  OBVIOUS
<1>6. /\ su.epoch = st.epoch
      /\ isEnd => /\ su.items = Tail(st.items) /\ su.sent = 0
                  /\ su.ssn = IF m.unordered THEN st.ssn ELSE st.ssn + 1
                  /\ su.pause = IF st.pause = "Pending" THEN "Paused" ELSE st.pause
      /\ ~isEnd => /\ su.items = st.items /\ su.sent = st.sent + 1
                   /\ su.ssn = st.ssn /\ su.pause = st.pause
  OBVIOUS
<1> HIDE DEF c, su
<1>7. f.out = [e.out EXCEPT ![s] = su] /\ f.log = Append(e.log, c)
  BY <1>4 DEF Socket
<1>8. f \in Socket
  <2>1. Append(e.log, c) \in Seq(Chunk) /\ [e.out EXCEPT ![s] = su] \in [Sids -> OutgoingStream]
    BY <1>1, <1>2, <1>3, AppendProperties
  <2>2. f = [e EXCEPT !.log = Append(e.log, c), !.current = s, !.out = [e.out EXCEPT ![s] = su]]
    BY <1>4 DEF Socket
  <2> QED BY <2>1, <2>2 DEF Socket
<1>9. /\ f.room = e.room /\ f.req = e.req /\ f.nextSn = e.nextSn /\ f.requests = e.requests
      /\ SameReceiver(e, f)
  BY <1>4 DEF Socket, SameReceiver
<1>10. f.out[s] = su /\ \A r \in Sids : r # s => f.out[r] = e.out[r]
  BY <1>1, <1>7
<1>11. Produced(e.out, s, c, f.out)
  BY <1>5, <1>6, <1>10 DEF Produced
<1> QED BY <1>2, <1>7, <1>8, <1>9, <1>11

\* The stream that is next has a chunk, and it is the only one with a message
\* partly sent if there is one.
LEMMA NextMayProduce ==
    ASSUME NEW e \in Socket, TailOK(e.log, e.out), Active(e) # {}
    PROVE  NextStream(e) \in Sids /\ MayProduce(e.out, NextStream(e))
<1> DEFINE A == Active(e)
           partly == {s \in A : e.out[s].sent > 0}
           later == {s \in A : s > e.current}
           s == NextStream(e)
<1>1. A \subseteq Nat /\ A \subseteq Sids
  BY StreamResetAssumption DEF Active
<1>2. s = IF partly # {} THEN Min(partly) ELSE IF later # {} THEN Min(later) ELSE Min(A)
  BY DEF NextStream
<1>3. \A r \in Sids : e.out[r].sent > 0 => r \in partly
  BY DEF TailOK, Active
<1>4. \A r \in Sids : e.out[r].sent > 0 => e.log[Len(e.log)].sid = r
  BY DEF TailOK
<1>5. s \in A /\ (partly # {} => s \in partly)
  <2>1. CASE partly # {}
    <3>1. partly \subseteq Nat
      BY <1>1
    <3>2. Min(partly) \in partly
      <4> HIDE DEF partly
      <4> QED BY <2>1, <3>1, MinOf
    <3> QED BY <1>2, <2>1, <3>2
  <2>2. CASE partly = {} /\ later # {}
    <3>1. later \subseteq Nat
      BY <1>1
    <3>2. Min(later) \in later
      <4> HIDE DEF later
      <4> QED BY <2>2, <3>1, MinOf
    <3> QED BY <1>2, <2>2, <3>2
  <2>3. CASE partly = {} /\ later = {}
    <3>2. Min(A) \in A
      <4> HIDE DEF A
      <4> QED BY <1>1, MinOf DEF A
    <3> QED BY <1>2, <2>3, <3>2
  <2> QED BY <2>1, <2>2, <2>3
<1> HIDE DEF s
<1>6. s \in Sids /\ e.out[s].items # <<>> /\ e.out[s].pause \in {"NotPaused", "Pending"}
  BY <1>5 DEF Active
<1>7. ASSUME NEW r \in Sids, e.out[r].sent > 0 PROVE r = s
  <2>1. s \in partly
    BY <1>3, <1>5, <1>7
  <2> QED BY <1>1, <1>4, <1>7, <2>1
<1> QED BY <1>6, <1>7 DEF MayProduce, s

LEMMA LinkSame ==
    ASSUME NEW e, NEW f, NEW y, LinkOK(e, y), f.req = e.req, f.nextSn = e.nextSn,
           \A r \in Sids : f.out[r].epoch = e.out[r].epoch
    PROVE  LinkOK(f, y)
<1> DEFINE p == Performed(f.req, y.lastSn, y.lastResult)
<1>1. ASSUME NEW s \in Sids
      PROVE  y.in[s].epoch = IF s \in f.req.streams /\ p THEN f.out[s].epoch + 1 ELSE f.out[s].epoch
  <2>1. y.in[s].epoch = IF s \in f.req.streams /\ p THEN e.out[s].epoch + 1 ELSE e.out[s].epoch
    BY DEF LinkOK
  <2> HIDE DEF p
  <2> QED BY <2>1
<1> QED BY <1>1 DEF LinkOK

LEMMA ProduceGood ==
    ASSUME NEW e, NEW y \in Socket, NEW hp \in Seq(Call), NEW hq, NEW np \in Nat, NEW nq,
           Good(e, y, hp, hq, np, nq), NEW s \in Sids, MayProduce(e.out, s)
    PROVE  Good(Produce(e, s), y, hp, hq, np, nq) /\ Produce(e, s).room = e.room
<1> DEFINE f == Produce(e, s)
<1>1. /\ e \in Socket /\ e.log \in Seq(Chunk) /\ e.out \in [Sids -> OutgoingStream]
      /\ y.in \in [Sids -> IncomingStream]
  BY SocketFields DEF Good
<1>2. e.out[s].items # <<>>
  BY DEF MayProduce
<1>3. PICK c \in Chunk :
             /\ f \in Socket /\ f.log = Append(e.log, c) /\ Produced(e.out, s, c, f.out)
             /\ f.room = e.room /\ f.req = e.req /\ f.nextSn = e.nextSn /\ f.requests = e.requests
             /\ SameReceiver(e, f)
  BY <1>1, <1>2, ProduceFields
<1> HIDE DEF f
<1>4. f.out \in [Sids -> OutgoingStream]
  BY <1>3, SocketFields
<1>5. /\ SendOK(e.log, e.out, np) /\ RecvOK(e.log, e.out, y.got, y.in)
      /\ HeardOK(e.log, y.got, y.in, hq) /\ ReqOK(e.log, e.out, e.req, e.nextSn, e.requests)
      /\ LinkOK(e, y)
  BY DEF Good, Way
<1>6. SendOK(f.log, f.out, np)
  BY <1>1, <1>3, <1>4, <1>5, ProducedSend
<1>7. ReqOK(f.log, f.out, f.req, f.nextSn, f.requests) /\ s \notin e.req.streams
  <2>1. ReqOK(Append(e.log, c), f.out, e.req, e.nextSn, e.requests) /\ s \notin e.req.streams
    BY <1>1, <1>3, <1>4, <1>5, ProducedReq
  <2> QED BY <1>3, <2>1
<1>8. y.in[s].epoch = e.out[s].epoch
  BY <1>5, <1>7 DEF LinkOK
<1>9. RecvOK(f.log, f.out, y.got, y.in)
  BY <1>1, <1>3, <1>4, <1>5, <1>8, ProducedRecv
<1>10. HeardOK(f.log, y.got, y.in, hq)
  BY <1>1, <1>3, <1>5, ProducedHeard DEF RecvOK, HeldOK
<1>11. LinkOK(f, y)
  <2>1. \A r \in Sids : f.out[r].epoch = e.out[r].epoch
    BY <1>3 DEF Produced
  <2> QED BY <1>3, <1>5, <2>1, LinkSame
<1>12. Way(f, y, hq, np)
  BY <1>6, <1>7, <1>9, <1>10, <1>11 DEF Way
<1>13. Good(f, y, hp, hq, np, nq)
  BY <1>3, <1>12, SenderStep
<1> QED BY <1>3, <1>13 DEF f

\* Only the congestion window changes.
LEMMA RoomGood ==
    ASSUME NEW e, NEW y, NEW hp \in Seq(Call), NEW hq, NEW np, NEW nq,
           Good(e, y, hp, hq, np, nq), NEW k \in Nat
    PROVE  Good([e EXCEPT !.room = k], y, hp, hq, np, nq) /\ [e EXCEPT !.room = k].room = k
<1> DEFINE f == [e EXCEPT !.room = k]
<1>1. e \in Socket
  BY DEF Good
<1>2. /\ f \in Socket /\ f.room = k /\ f.log = e.log /\ f.out = e.out /\ f.req = e.req
      /\ f.nextSn = e.nextSn /\ f.requests = e.requests
      /\ f.got = e.got /\ f.in = e.in /\ f.deferred = e.deferred
      /\ f.lastSn = e.lastSn /\ f.lastResult = e.lastResult /\ f.responses = e.responses
      /\ f.calls = e.calls
  BY <1>1 DEF Socket
<1> HIDE DEF f
<1>3. SameReceiver(e, f)
  BY <1>2 DEF SameReceiver
<1>4. Way(f, y, hq, np)
  BY <1>2 DEF Good, Way, LinkOK
<1>5. Good(f, y, hp, hq, np, nq)
  BY <1>2, <1>3, <1>4, SenderStep
<1> QED BY <1>2, <1>5 DEF f

LEMMA SendChunkGood ==
    ASSUME NEW e, NEW y \in Socket, NEW hp \in Seq(Call), NEW hq, NEW np \in Nat, NEW nq,
           Good(e, y, hp, hq, np, nq), e.room >= 1
    PROVE  Good(SendChunk(e), y, hp, hq, np, nq) /\ SendChunk(e).room >= e.room - 1
<1>0. e \in Socket /\ e.room \in Nat
  BY SocketFields DEF Good
<1>1. CASE Active(e) = {}
  <2>1. SendChunk(e) = e
    BY <1>1 DEF SendChunk
  <2> QED BY <1>0, <2>1
<1>2. CASE Active(e) # {}
  <2> DEFINE s == NextStream(e)
             f == Produce(e, s)
  <2>1. TailOK(e.log, e.out)
    BY DEF Good, Way, SendOK
  <2>2. s \in Sids /\ MayProduce(e.out, s)
    BY <1>0, <1>2, <2>1, NextMayProduce
  <2> HIDE DEF s
  <2>3. Good(f, y, hp, hq, np, nq) /\ f.room = e.room
    BY <2>2, ProduceGood
  <2>4. SendChunk(e) = [f EXCEPT !.room = @ - 1]
    BY <1>2 DEF SendChunk, s
  <2> HIDE DEF f
  <2>5. f.room - 1 \in Nat /\ SendChunk(e) = [f EXCEPT !.room = f.room - 1]
    BY <1>0, <2>3, <2>4
  <2>6. Good(SendChunk(e), y, hp, hq, np, nq) /\ SendChunk(e).room = f.room - 1
    BY <2>3, <2>5, RoomGood
  <2> QED BY <1>0, <2>3, <2>6
<1> QED BY <1>1, <1>2

-----------------------------------------------------------------------------
(* The streams change and nothing is sent *)

\* The counts of the streams stay, and the message partly sent.
SameCounts(out, out2) ==
    \A s \in Sids :
        /\ out2[s].epoch = out[s].epoch /\ out2[s].ssn = out[s].ssn /\ out2[s].sent = out[s].sent
        /\ out[s].sent > 0 =>
             /\ out2[s].items # <<>> /\ Head(out2[s].items) = Head(out[s].items)
             /\ out2[s].pause \in {"NotPaused", "Pending"}
        /\ out2[s].pause = "Pending" => out[s].sent > 0

LEMMA CountsSame ==
    ASSUME NEW L \in Seq(Chunk), NEW out \in [Sids -> OutgoingStream], NEW out2,
           NEW got, NEW in, SameCounts(out, out2),
           TailOK(L, out), CountOK(L, out), RecvOK(L, out, got, in)
    PROVE  TailOK(L, out2) /\ CountOK(L, out2) /\ RecvOK(L, out2, got, in)
<1>1. TailOK(L, out2)
  <2> SUFFICES ASSUME NEW s \in Sids
               PROVE
        /\ out2[s].sent > 0 <=> Len(L) > 0 /\ ~L[Len(L)].ends /\ L[Len(L)].sid = s
        /\ out2[s].sent > 0 =>
             /\ out2[s].items # <<>> /\ out2[s].sent < Head(out2[s].items).size
             /\ L[Len(L)].m = Head(out2[s].items) /\ L[Len(L)].epoch = out2[s].epoch
             /\ L[Len(L)].ssn = IF L[Len(L)].m.unordered THEN 0 ELSE out2[s].ssn
        /\ out2[s].sent > 0 => out2[s].pause \in {"NotPaused", "Pending"}
        /\ out2[s].pause = "Pending" => out2[s].sent > 0
    BY DEF TailOK
  <2>1. /\ out2[s].epoch = out[s].epoch /\ out2[s].ssn = out[s].ssn /\ out2[s].sent = out[s].sent
        /\ out[s].sent > 0 =>
             /\ out2[s].items # <<>> /\ Head(out2[s].items) = Head(out[s].items)
             /\ out2[s].pause \in {"NotPaused", "Pending"}
        /\ out2[s].pause = "Pending" => out[s].sent > 0
    BY DEF SameCounts
  <2>2. /\ out[s].sent > 0 <=> Len(L) > 0 /\ ~L[Len(L)].ends /\ L[Len(L)].sid = s
        /\ out[s].sent > 0 =>
             /\ out[s].sent < Head(out[s].items).size
             /\ L[Len(L)].m = Head(out[s].items) /\ L[Len(L)].epoch = out[s].epoch
             /\ L[Len(L)].ssn = IF L[Len(L)].m.unordered THEN 0 ELSE out[s].ssn
    BY DEF TailOK
  <2> QED BY <2>1, <2>2
<1>2. CountOK(L, out2)
  <2>0. \A t \in Tsns(L) : L[t].sid \in Sids
    BY SeqFacts DEF Chunk
  <2>1. \A t \in Tsns(L) : L[t].epoch <= out2[L[t].sid].epoch
    BY <2>0 DEF CountOK, SameCounts
  <2>2. ASSUME NEW t \in Tsns(L), L[t].epoch = out2[L[t].sid].epoch, Ordered(L, t)
        PROVE  /\ L[t].ssn <= out2[L[t].sid].ssn
               /\ L[t].ssn = out2[L[t].sid].ssn =>
                    out2[L[t].sid].sent > 0 /\ ~Head(out2[L[t].sid].items).unordered
    <3> DEFINE s == L[t].sid
    <3>1. s \in Sids
      BY <2>0
    <3> HIDE DEF s
    <3>2. /\ out2[s].epoch = out[s].epoch /\ out2[s].ssn = out[s].ssn /\ out2[s].sent = out[s].sent
          /\ out[s].sent > 0 => Head(out2[s].items) = Head(out[s].items)
      BY <3>1 DEF SameCounts
    <3>3. /\ L[t].ssn <= out[s].ssn
          /\ L[t].ssn = out[s].ssn => out[s].sent > 0 /\ ~Head(out[s].items).unordered
      BY <2>2, <3>2 DEF CountOK, s
    <3>4. /\ L[t].ssn <= out2[s].ssn
          /\ L[t].ssn = out2[s].ssn => out2[s].sent > 0 /\ ~Head(out2[s].items).unordered
      BY <3>2, <3>3
    <3> QED BY <3>4 DEF s
  <2>3. ASSUME NEW s \in Sids, NEW n \in Nat, n < out2[s].ssn
        PROVE  \E u \in Tsns(L) : Numbered(L, u, s, out2[s].epoch, n)
    <3>1. out2[s].epoch = out[s].epoch /\ out2[s].ssn = out[s].ssn
      BY DEF SameCounts
    <3> QED BY <2>3, <3>1 DEF CountOK
  <2> QED BY <2>1, <2>2, <2>3 DEF CountOK
<1>3. NextOK(L, out2, got, in)
  <2>1. ASSUME NEW s \in Sids
        PROVE  in[s].ssn <= IF in[s].epoch = out2[s].epoch THEN out2[s].ssn ELSE 0
    <3>1. out2[s].epoch = out[s].epoch /\ out2[s].ssn = out[s].ssn
      BY DEF SameCounts
    <3> QED BY <3>1 DEF RecvOK, NextOK
  <2> QED BY <2>1 DEF RecvOK, NextOK
<1> QED BY <1>1, <1>2, <1>3 DEF RecvOK

\* What the sender may do to its streams.
LEMMA StreamsGood ==
    ASSUME NEW e, NEW f, NEW y, NEW hp \in Seq(Call), NEW hq, NEW np, NEW np2, NEW nq,
           Good(e, y, hp, hq, np, nq), f \in Socket, SameReceiver(e, f), f.log = e.log,
           SameCounts(e.out, f.out), ItemsOK(e.log, f.out, np2),
           ReqOK(e.log, f.out, f.req, f.nextSn, f.requests), LinkOK(f, y)
    PROVE  Good(f, y, hp, hq, np2, nq)
<1>1. /\ e.log \in Seq(Chunk) /\ e.out \in [Sids -> OutgoingStream]
  BY SocketFields DEF Good
<1>2. /\ SendOK(e.log, e.out, np) /\ RecvOK(e.log, e.out, y.got, y.in)
      /\ HeardOK(e.log, y.got, y.in, hq)
  BY DEF Good, Way
<1>3. LogOK(e.log) /\ TailOK(e.log, e.out) /\ CountOK(e.log, e.out)
  BY <1>2 DEF SendOK
<1>4. TailOK(e.log, f.out) /\ CountOK(e.log, f.out) /\ RecvOK(e.log, f.out, y.got, y.in)
  BY <1>1, <1>2, <1>3, CountsSame
<1>5. Way(f, y, hq, np2)
  BY <1>2, <1>3, <1>4 DEF Way, SendOK
<1> QED BY <1>5, SenderStep

LEMMA LowWatchedGood ==
    ASSUME NEW e, NEW f, NEW y, NEW hp \in Seq(Call), NEW hq, NEW np, NEW nq,
           Good(f, y, hp, hq, np, nq)
    PROVE  Good(LowWatched(e, f), y, hp, hq, np, nq)
<1> DEFINE c == [call |-> "OnTotalBufferedAmountLow"]
           g == [f EXCEPT !.calls = Append(@, c)]
<1>1. LowWatched(e, f) = f \/ LowWatched(e, f) = g
  BY DEF LowWatched
<1>2. Good(g, y, hp, hq, np, nq)
  <2>1. f \in Socket /\ f.calls \in Seq(Call)
    BY SocketFields DEF Good
  <2>2. c \in Call /\ ~IsMessage(c)
    BY DEF Call, IsMessage
  <2> HIDE DEF c
  <2>3. Append(f.calls, c) \in Seq(Call)
    BY <2>1, <2>2, AppendProperties
  <2>4. /\ g \in Socket /\ g.log = f.log /\ g.out = f.out /\ g.req = f.req
        /\ g.nextSn = f.nextSn /\ g.requests = f.requests
        /\ g.got = f.got /\ g.in = f.in /\ g.deferred = f.deferred
        /\ g.lastSn = f.lastSn /\ g.lastResult = f.lastResult /\ g.responses = f.responses
        /\ g.calls = Append(f.calls, c)
    BY <2>1, <2>3 DEF Socket
  <2> HIDE DEF g
  <2>5. SameReceiver(f, g)
    BY <2>2, <2>4 DEF SameReceiver
  <2>6. Way(g, y, hq, np)
    BY <2>4 DEF Good, Way, LinkOK
  <2> QED BY <2>4, <2>5, <2>6, SenderStep
<1> QED BY <1>1, <1>2

LEMMA ItemsKept ==
    ASSUME NEW L, NEW out, NEW out2, NEW n, ItemsOK(L, out, n),
           \A s \in Sids : /\ out2[s].sent = out[s].sent
                           /\ 1..Len(out2[s].items) \subseteq 1..Len(out[s].items)
                           /\ \A i \in 1..Len(out2[s].items) : out2[s].items[i] = out[s].items[i]
    PROVE  ItemsOK(L, out2, n)
<1> SUFFICES ASSUME NEW s \in Sids, NEW i \in 1..Len(out2[s].items)
             PROVE
         /\ out2[s].items[i].id <= n
         /\ \A j \in 1..Len(out2[s].items) : i < j => out2[s].items[i].id < out2[s].items[j].id
         /\ \A r \in Sids : \A j \in 1..Len(out2[r].items) :
              r # s => out2[s].items[i].id # out2[r].items[j].id
         /\ \A t \in Tsns(L) :
              /\ L[t].sid = s => L[t].m.id <= out2[s].items[i].id
              /\ L[t].m.id = out2[s].items[i].id =>
                   L[t].sid = s /\ i = 1 /\ out2[s].sent > 0 /\ Joined(L, t, Len(L))
  BY DEF ItemsOK
<1>1. i \in 1..Len(out[s].items) /\ out2[s].items[i] = out[s].items[i] /\ out2[s].sent = out[s].sent
  OBVIOUS
<1>2. /\ out[s].items[i].id <= n
      /\ \A j \in 1..Len(out[s].items) : i < j => out[s].items[i].id < out[s].items[j].id
      /\ \A r \in Sids : \A j \in 1..Len(out[r].items) :
              r # s => out[s].items[i].id # out[r].items[j].id
      /\ \A t \in Tsns(L) :
              /\ L[t].sid = s => L[t].m.id <= out[s].items[i].id
              /\ L[t].m.id = out[s].items[i].id =>
                   L[t].sid = s /\ i = 1 /\ out[s].sent > 0 /\ Joined(L, t, Len(L))
  BY <1>1 DEF ItemsOK
<1>3. \A r \in Sids : \A j \in 1..Len(out2[r].items) :
         j \in 1..Len(out[r].items) /\ out2[r].items[j] = out[r].items[j]
  OBVIOUS
<1>4. \A j \in 1..Len(out2[s].items) : i < j => out2[s].items[i].id < out2[s].items[j].id
  BY <1>1, <1>2, <1>3
<1>5. ASSUME NEW r \in Sids, NEW j \in 1..Len(out2[r].items), r # s
      PROVE  out2[s].items[i].id # out2[r].items[j].id
  <2>1. out2[s].items[i].id = out[s].items[i].id
    BY <1>1
  <2>2. j \in 1..Len(out[r].items) /\ out2[r].items[j].id = out[r].items[j].id
    BY <1>3
  <2>3. out[s].items[i].id # out[r].items[j].id
    BY <1>2, <1>5, <2>2
  <2> QED BY <2>1, <2>2, <2>3
<1> QED BY <1>1, <1>2, <1>4, <1>5

LEMMA PausedStream ==
    ASSUME NEW st \in OutgoingStream, st.sent > 0 => st.items # <<>>,
           st.sent > 0 => st.pause \in {"NotPaused", "Pending"}, st.pause = "Pending" => st.sent > 0
    PROVE  LET su == Pause(st) IN
           /\ su \in OutgoingStream /\ su.epoch = st.epoch /\ su.ssn = st.ssn /\ su.sent = st.sent
           /\ st.sent > 0 => /\ su.items # <<>> /\ Head(su.items) = Head(st.items)
                             /\ su.pause \in {"NotPaused", "Pending"}
           /\ su.pause = "Pending" => st.sent > 0
           /\ su.pause = "Resetting" <=> st.pause = "Resetting"
           /\ 1..Len(su.items) \subseteq 1..Len(st.items)
           /\ \A i \in 1..Len(su.items) : su.items[i] = st.items[i]
<1> DEFINE su == Pause(st)
<1>1. st.items \in Seq(Message) /\ st.sent \in Nat
  BY DEF OutgoingStream
<1>2. CASE st.pause # "NotPaused"
  <2>1. su = st
    BY <1>2 DEF Pause
  <2> QED BY <2>1
<1>3. CASE st.pause = "NotPaused" /\ st.sent > 0
  <2>1. su = [st EXCEPT !.items = <<Head(st.items)>>, !.pause = "Pending"]
    BY <1>3 DEF Pause
  <2>2. /\ Head(st.items) = st.items[1] /\ Head(st.items) \in Message /\ Len(st.items) \in Nat
        /\ Len(st.items) >= 1
    BY <1>1, <1>3, HeadFacts
  <2> DEFINE q == <<Head(st.items)>>
  <2>3. q \in Seq(Message) /\ q # <<>> /\ Head(q) = Head(st.items) /\ Len(q) = 1 /\ q[1] = st.items[1]
    BY <2>2
  <2> HIDE DEF q
  <2>4. su \in OutgoingStream /\ su.items = q /\ su.pause = "Pending" /\ su.sent = st.sent
        /\ su.ssn = st.ssn /\ su.epoch = st.epoch
    BY <2>1, <2>3 DEF OutgoingStream, q
  <2> HIDE DEF su
  <2>5. 1..1 \subseteq 1..Len(st.items) /\ \A i \in 1..1 : q[i] = st.items[i]
    BY <2>2, <2>3
  <2> QED BY <1>3, <2>3, <2>4, <2>5 DEF su
<1>4. CASE st.pause = "NotPaused" /\ ~(st.sent > 0)
  <2>1. su = [st EXCEPT !.items = <<>>, !.pause = "Paused"]
    BY <1>4 DEF Pause
  <2>2. su \in OutgoingStream /\ su.items = <<>> /\ su.pause = "Paused" /\ su.sent = st.sent
        /\ su.ssn = st.ssn /\ su.epoch = st.epoch
    <3>1. <<>> \in Seq(Message)
      OBVIOUS
    <3> QED BY <2>1, <3>1 DEF OutgoingStream
  <2>3. 1..Len(<<>>) = {}
    OBVIOUS
  <2> HIDE DEF su
  <2> QED BY <1>4, <2>2, <2>3 DEF su
<1> QED BY <1>2, <1>3, <1>4

\* Pausing takes messages from the queue that were not sent.
LEMMA PrepareGood ==
    ASSUME NEW e, NEW y, NEW hp \in Seq(Call), NEW hq, NEW np, NEW nq,
           Good(e, y, hp, hq, np, nq), NEW s \in Sids
    PROVE  Good(PrepareResetStream(e, s), y, hp, hq, np, nq)
<1> DEFINE su == Pause(e.out[s])
           f == [e EXCEPT !.out[s] = Pause(@)]
<1>1. e \in Socket /\ e.out \in [Sids -> OutgoingStream] /\ e.out[s] \in OutgoingStream
  BY SocketFields DEF Good
<1>2. /\ SendOK(e.log, e.out, np) /\ ReqOK(e.log, e.out, e.req, e.nextSn, e.requests) /\ LinkOK(e, y)
  BY DEF Good, Way
<1>3. \A r \in Sids : /\ e.out[r].sent > 0 => e.out[r].items # <<>> /\ e.out[r].pause \in {"NotPaused", "Pending"}
                      /\ e.out[r].pause = "Pending" => e.out[r].sent > 0
  BY <1>2 DEF SendOK, TailOK
<1>4. /\ su \in OutgoingStream /\ su.epoch = e.out[s].epoch /\ su.ssn = e.out[s].ssn /\ su.sent = e.out[s].sent
      /\ e.out[s].sent > 0 => /\ su.items # <<>> /\ Head(su.items) = Head(e.out[s].items)
                              /\ su.pause \in {"NotPaused", "Pending"}
      /\ su.pause = "Pending" => e.out[s].sent > 0
      /\ su.pause = "Resetting" <=> e.out[s].pause = "Resetting"
      /\ 1..Len(su.items) \subseteq 1..Len(e.out[s].items)
      /\ \A i \in 1..Len(su.items) : su.items[i] = e.out[s].items[i]
  BY <1>1, <1>3, PausedStream
<1> HIDE DEF su
<1>5. [e.out EXCEPT ![s] = su] \in [Sids -> OutgoingStream]
  BY <1>1, <1>4
<1>6. /\ f \in Socket /\ f.log = e.log /\ f.out = [e.out EXCEPT ![s] = su] /\ f.req = e.req
      /\ f.nextSn = e.nextSn /\ f.requests = e.requests
      /\ f.got = e.got /\ f.in = e.in /\ f.deferred = e.deferred
      /\ f.lastSn = e.lastSn /\ f.lastResult = e.lastResult /\ f.responses = e.responses
      /\ f.calls = e.calls
  <2>1. f = [e EXCEPT !.out = [e.out EXCEPT ![s] = su]]
    BY <1>1 DEF Socket, su
  <2> QED BY <1>1, <1>5, <2>1 DEF Socket
<1> HIDE DEF f
<1>7. f.out[s] = su /\ \A r \in Sids : r # s => f.out[r] = e.out[r]
  BY <1>1, <1>6
<1>8. SameReceiver(e, f)
  BY <1>6 DEF SameReceiver
<1>9. SameCounts(e.out, f.out)
  BY <1>3, <1>4, <1>7 DEF SameCounts
<1>10. ItemsOK(e.log, f.out, np)
  <2>1. \A r \in Sids : /\ f.out[r].sent = e.out[r].sent
                        /\ 1..Len(f.out[r].items) \subseteq 1..Len(e.out[r].items)
                        /\ \A i \in 1..Len(f.out[r].items) : f.out[r].items[i] = e.out[r].items[i]
    BY <1>4, <1>7
  <2> QED BY <1>2, <2>1, ItemsKept DEF SendOK
<1>11. ReqOK(e.log, f.out, f.req, f.nextSn, f.requests)
  <2>1. \A r \in Sids : f.out[r].pause = "Resetting" <=> e.out[r].pause = "Resetting"
    BY <1>4, <1>7
  <2>2. f.req.streams = {r \in Sids : f.out[r].pause = "Resetting"}
    BY <1>2, <1>6, <2>1 DEF ReqOK
  <2> QED BY <1>2, <1>6, <2>2 DEF ReqOK
<1>12. LinkOK(f, y)
  <2>1. \A r \in Sids : f.out[r].epoch = e.out[r].epoch
    BY <1>9 DEF SameCounts
  <2>2. LinkOK(e, y) /\ f.req = e.req /\ f.nextSn = e.nextSn
    BY <1>2, <1>6
  <2> QED BY <2>1, <2>2, LinkSame
<1>13. Good(f, y, hp, hq, np, nq)
  BY <1>6, <1>8, <1>9, <1>10, <1>11, <1>12, StreamsGood
<1>14. PrepareResetStream(e, s) = LowWatched(e, f)
  BY DEF PrepareResetStream, f
<1> QED BY <1>13, <1>14, LowWatchedGood

-----------------------------------------------------------------------------
(* Requests *)

LEMMA NetworkFacts ==
    ASSUME NEW chunks, NEW c, c.sn \in Nat
    PROVE  c \in InNetwork(chunks, c) /\ \A d \in InNetwork(chunks, c) : d \in chunks \/ d = c
<1>1. c.sn >= c.sn - Lateness
  BY StreamResetAssumption
<1> QED BY <1>1 DEF InNetwork

\* The fields of a socket that has sent request r.
LEMMA ReconfigFields ==
    ASSUME NEW e \in Socket, NEW r, r = IF e.req.sn = 0 THEN [e.req EXCEPT !.sn = e.nextSn] ELSE e.req
    PROVE  LET f == MakeReconfigChunk(e) IN
           /\ r \in Request /\ f \in Socket /\ f.log = e.log /\ f.out = e.out /\ f.req = r
           /\ f.nextSn = IF e.req.sn = 0 THEN e.nextSn + 1 ELSE e.nextSn
           /\ f.requests = InNetwork(e.requests, r)
           /\ f.got = e.got /\ f.in = e.in /\ f.deferred = e.deferred
           /\ f.lastSn = e.lastSn /\ f.lastResult = e.lastResult /\ f.responses = e.responses
           /\ f.calls = e.calls /\ f.room = e.room
<1> DEFINE k == IF e.req.sn = 0 THEN e.nextSn + 1 ELSE e.nextSn
           q == InNetwork(e.requests, r)
           f == MakeReconfigChunk(e)
<1>1. /\ e.req \in Request /\ e.nextSn \in Nat /\ e.nextSn # 0 /\ e.requests \in SUBSET Request
  BY SocketFields
<1>2. r \in Request
  <2>1. [e.req EXCEPT !.sn = e.nextSn] \in Request
    BY <1>1 DEF Request
  <2> QED BY <1>1, <2>1
<1>3. k \in Nat \ {0}
  BY <1>1
<1>4. q \in SUBSET Request
  BY <1>1, <1>2 DEF InNetwork
<1>5. f = [e EXCEPT !.req = r, !.nextSn = k, !.requests = q]
  BY DEF MakeReconfigChunk, Socket
<1> HIDE DEF k, q
<1>6. /\ f \in Socket /\ f.log = e.log /\ f.out = e.out /\ f.req = r /\ f.nextSn = k /\ f.requests = q
      /\ f.got = e.got /\ f.in = e.in /\ f.deferred = e.deferred
      /\ f.lastSn = e.lastSn /\ f.lastResult = e.lastResult /\ f.responses = e.responses
      /\ f.calls = e.calls /\ f.room = e.room
  BY <1>2, <1>3, <1>4, <1>5 DEF Socket
<1> QED BY <1>2, <1>6 DEF k, q

\* Streams do not change: the request is sent again, perhaps with a new number.
LEMMA ReconfigGood ==
    ASSUME NEW e, NEW y \in Socket, NEW hp \in Seq(Call), NEW hq, NEW np, NEW nq,
           Good(e, y, hp, hq, np, nq), e.req # NoRequest
    PROVE  Good(MakeReconfigChunk(e), y, hp, hq, np, nq)
<1> DEFINE f == MakeReconfigChunk(e)
           r == IF e.req.sn = 0 THEN [e.req EXCEPT !.sn = e.nextSn] ELSE e.req
<1>1. e \in Socket /\ e.req \in Request /\ e.nextSn \in Nat /\ e.nextSn # 0 /\ e.req.sn \in Nat
  BY SocketFields DEF Good, Request
<1>2. /\ r \in Request /\ f \in Socket /\ f.log = e.log /\ f.out = e.out /\ f.req = r
      /\ f.nextSn = IF e.req.sn = 0 THEN e.nextSn + 1 ELSE e.nextSn
      /\ f.requests = InNetwork(e.requests, r)
      /\ f.got = e.got /\ f.in = e.in /\ f.deferred = e.deferred
      /\ f.lastSn = e.lastSn /\ f.lastResult = e.lastResult /\ f.responses = e.responses
      /\ f.calls = e.calls
  BY <1>1, ReconfigFields
<1>3. /\ r.streams = e.req.streams /\ r.last = e.req.last
      /\ e.req.sn = 0 => r.sn = e.nextSn
      /\ e.req.sn # 0 => r = e.req
  BY <1>1 DEF Request
<1> HIDE DEF f, r
<1>4. /\ SendOK(e.log, e.out, np) /\ ReqOK(e.log, e.out, e.req, e.nextSn, e.requests) /\ LinkOK(e, y)
  BY DEF Good, Way
<1>5. r.sn \in Nat /\ r.sn # 0 /\ r.sn = f.nextSn - 1
  <2>1. CASE e.req.sn = 0
    BY <1>1, <1>2, <1>3, <2>1
  <2>2. CASE e.req.sn # 0
    BY <1>1, <1>2, <1>3, <1>4, <2>2 DEF ReqOK
  <2> QED BY <2>1, <2>2
<1>6. r \in f.requests /\ \A d \in f.requests : d \in e.requests \/ d = r
  BY <1>2, <1>5, NetworkFacts
<1>7. e.req.streams # {}
  BY <1>4 DEF ReqOK
<1>8. ReqOK(e.log, f.out, f.req, f.nextSn, f.requests)
  <2>1. f.req.streams = {s \in Sids : f.out[s].pause = "Resetting"}
    BY <1>2, <1>3, <1>4 DEF ReqOK
  <2>2. f.req.streams = {} <=> f.req = NoRequest
    BY <1>2, <1>3, <1>7 DEF NoRequest
  <2>3. \A t \in Tsns(e.log) : e.log[t].sid \in f.req.streams => t <= f.req.last
    BY <1>2, <1>3, <1>4 DEF ReqOK
  <2>4. f.req.sn \in {0, f.nextSn - 1}
    BY <1>2, <1>5
  <2>5. ASSUME NEW d \in f.requests
        PROVE  d.sn < f.nextSn /\ (f.req.sn # 0 /\ d.sn = f.req.sn => d = f.req)
    <3>1. CASE d = r
      BY <1>1, <1>2, <1>5, <3>1
    <3>2. CASE d # r
      <4>1. d \in e.requests /\ d.sn < e.nextSn /\ (e.req.sn # 0 /\ d.sn = e.req.sn => d = e.req)
        BY <1>4, <1>6, <3>2 DEF ReqOK
      <4>2. d.sn \in Nat
        BY <1>1, <4>1, SocketFields DEF Request
      <4>3. CASE e.req.sn = 0
        BY <1>1, <1>2, <1>3, <4>1, <4>2, <4>3
      <4>4. CASE e.req.sn # 0
        BY <1>1, <1>2, <1>3, <4>1, <4>2, <4>4
      <4> QED BY <4>3, <4>4
    <3> QED BY <3>1, <3>2
  <2>6. f.req \in f.requests
    BY <1>2, <1>6
  <2> QED BY <2>1, <2>2, <2>3, <2>4, <2>5, <2>6 DEF ReqOK
<1>9. LinkOK(f, y)
  <2>1. CASE e.req.sn # 0
    <3>1. f.req = e.req /\ f.nextSn = e.nextSn
      BY <1>2, <1>3, <2>1
    <3>2. \A s \in Sids : f.out[s].epoch = e.out[s].epoch
      BY <1>2
    <3> QED BY <1>4, <3>1, <3>2, LinkSame
  <2>2. CASE e.req.sn = 0
    <3>1. /\ f.req = r /\ r.sn = e.nextSn /\ f.nextSn = e.nextSn + 1
      BY <1>2, <1>3, <2>2
    <3>2. y.lastSn \in Nat
      BY SocketFields
    <3>3. y.lastSn = e.nextSn - 1
      BY <1>1, <1>4, <2>2, <3>2 DEF LinkOK
    <3>4. y.lastResult = "InProgress"
      BY <1>4, <2>2 DEF LinkOK
    <3>5. y.lastSn = f.nextSn - 2 /\ f.req.sn = f.nextSn - 1
      BY <1>1, <3>1, <3>3
    <3>6. ASSUME NEW d \in y.responses
          PROVE  d.sn < f.nextSn /\ d.sn # f.req.sn
      <4>1. d.sn < e.nextSn /\ d.sn \in Nat
        BY <1>4, SocketFields DEF LinkOK, Response
      <4> QED BY <1>1, <3>1, <4>1
    <3>7. ~Performed(f.req, y.lastSn, y.lastResult) /\ ~Performed(e.req, y.lastSn, y.lastResult)
      BY <3>4 DEF Performed
    <3>8. \A s \in Sids : y.in[s].epoch = f.out[s].epoch
      BY <1>2, <1>4, <3>7 DEF LinkOK
    <3>9. y.deferred.streams = f.req.streams /\ y.deferred.last = f.req.last
      BY <1>2, <1>3, <1>4, <3>4 DEF LinkOK
    <3>10. /\ y.lastResult = "InProgress" <=> y.deferred # NotDeferred
           /\ y.deferred.tsns = <<>>
      BY <1>4 DEF LinkOK
    <3>11. \A s \in Sids :
            y.in[s].epoch = IF s \in f.req.streams /\ Performed(f.req, y.lastSn, y.lastResult)
                            THEN f.out[s].epoch + 1 ELSE f.out[s].epoch
      BY <3>7, <3>8
    <3> QED BY <3>4, <3>5, <3>6, <3>9, <3>10, <3>11 DEF LinkOK
  <2> QED BY <2>1, <2>2
<1>10. SameCounts(e.out, f.out)
  BY <1>2, <1>4 DEF SameCounts, SendOK, TailOK
<1>11. SameReceiver(e, f)
  BY <1>2 DEF SameReceiver
<1>12. Good(f, y, hp, hq, np, nq)
  BY <1>2, <1>4, <1>8, <1>9, <1>10, <1>11, StreamsGood DEF SendOK
<1> QED BY <1>12 DEF f

\* When there is no request, the peer defers none and has handled all.
LEMMA NoRequestLink ==
    ASSUME NEW e, NEW y \in Socket, e \in Socket, LinkOK(e, y), e.req = NoRequest
    PROVE  /\ y.lastSn = e.nextSn - 1 /\ y.lastResult # "InProgress" /\ y.deferred = NotDeferred
           /\ \A s \in Sids : y.in[s].epoch = e.out[s].epoch
<1>1. e.nextSn \in Nat /\ e.nextSn # 0 /\ y.lastSn \in Nat
  BY SocketFields
<1>2. e.req.sn = 0 /\ e.req.streams = {} /\ e.req.last = 0
  BY DEF NoRequest
<1>3. y.lastSn = e.nextSn - 1
  BY <1>1, <1>2 DEF LinkOK
<1>4. y.deferred = NotDeferred
  <2> SUFFICES ASSUME y.deferred # NotDeferred PROVE FALSE
    OBVIOUS
  <2>1. y.deferred.streams = {} /\ y.deferred.last = 0 /\ y.deferred.tsns = <<>>
    BY <1>2 DEF LinkOK
  <2>2. y.deferred \in [last : Nat, streams : SUBSET Sids, tsns : Seq(Nat)]
    BY SocketFields
  <2>3. y.deferred = [last |-> y.deferred.last, streams |-> y.deferred.streams, tsns |-> y.deferred.tsns]
    BY <2>2
  <2> QED BY <2>1, <2>3 DEF NotDeferred
<1>5. y.lastResult # "InProgress"
  BY <1>4 DEF LinkOK
<1>6. \A s \in Sids : y.in[s].epoch = e.out[s].epoch
  BY <1>2 DEF LinkOK
<1> QED BY <1>3, <1>4, <1>5, <1>6

LEMMA ResetRequestGood ==
    ASSUME NEW e, NEW y \in Socket, NEW hp \in Seq(Call), NEW hq, NEW np, NEW nq,
           Good(e, y, hp, hq, np, nq)
    PROVE  Good(MakeStreamResetRequest(e), y, hp, hq, np, nq) /\ MakeStreamResetRequest(e).room = e.room
<1> DEFINE A == ReadyToBeReset(e)
           o == [s \in Sids |-> IF s \in A THEN [e.out[s] EXCEPT !.pause = "Resetting"] ELSE e.out[s]]
           q == [last |-> Len(e.log), streams |-> A, sn |-> 0]
           g == [e EXCEPT !.req = q, !.out = o]
           r == [last |-> Len(e.log), streams |-> A, sn |-> e.nextSn]
           f == MakeReconfigChunk(g)
<1>1. CASE e.req # NoRequest \/ A = {}
  BY <1>1 DEF MakeStreamResetRequest
<1>2. CASE e.req = NoRequest /\ A # {}
  <2>1. /\ e \in Socket /\ e.log \in Seq(Chunk) /\ e.out \in [Sids -> OutgoingStream]
        /\ e.nextSn \in Nat /\ e.nextSn # 0 /\ Len(e.log) \in Nat /\ y.lastSn \in Nat
    BY SocketFields, SeqFacts DEF Good
  <2>2. A \subseteq Sids /\ \A s \in Sids : s \in A <=> e.out[s].pause = "Paused"
    BY DEF ReadyToBeReset
  <2> HIDE DEF A
  <2>3. q \in Request /\ q.sn = 0 /\ r = [q EXCEPT !.sn = e.nextSn]
        /\ r.last = Len(e.log) /\ r.streams = A /\ r.sn = e.nextSn
    BY <2>1, <2>2 DEF Request
  <2>4. o \in [Sids -> OutgoingStream]
    <3>1. ASSUME NEW s \in Sids PROVE [e.out[s] EXCEPT !.pause = "Resetting"] \in OutgoingStream
      <4>1. e.out[s] \in OutgoingStream
        BY <2>1
      <4> QED BY <4>1 DEF OutgoingStream
    <3> QED BY <2>1, <3>1
  <2>5. ASSUME NEW s \in Sids
        PROVE  /\ o[s].epoch = e.out[s].epoch /\ o[s].ssn = e.out[s].ssn /\ o[s].sent = e.out[s].sent
               /\ o[s].items = e.out[s].items
               /\ o[s].pause = IF s \in A THEN "Resetting" ELSE e.out[s].pause
    <3>1. e.out[s] \in OutgoingStream
      BY <2>1
    <3> QED BY <3>1 DEF OutgoingStream
  <2>6. MakeStreamResetRequest(e) = f
    BY <1>2 DEF MakeStreamResetRequest, A, Socket, Good
  <2> HIDE DEF o, q, r
  <2>7. /\ g \in Socket /\ g.log = e.log /\ g.out = o /\ g.req = q /\ g.nextSn = e.nextSn
        /\ g.requests = e.requests
        /\ g.got = e.got /\ g.in = e.in /\ g.deferred = e.deferred
        /\ g.lastSn = e.lastSn /\ g.lastResult = e.lastResult /\ g.responses = e.responses
        /\ g.calls = e.calls /\ g.room = e.room
    BY <2>1, <2>3, <2>4 DEF Socket
  <2> HIDE DEF g
  <2>8. r = IF g.req.sn = 0 THEN [g.req EXCEPT !.sn = g.nextSn] ELSE g.req
    BY <2>3, <2>7
  <2>9. /\ f \in Socket /\ f.log = e.log /\ f.out = o /\ f.req = r /\ f.nextSn = e.nextSn + 1
        /\ f.requests = InNetwork(e.requests, r)
        /\ f.got = e.got /\ f.in = e.in /\ f.deferred = e.deferred
        /\ f.lastSn = e.lastSn /\ f.lastResult = e.lastResult /\ f.responses = e.responses
        /\ f.calls = e.calls /\ f.room = e.room
    BY <2>3, <2>7, <2>8, ReconfigFields
  <2> HIDE DEF f
  <2>10. /\ SendOK(e.log, e.out, np) /\ ReqOK(e.log, e.out, e.req, e.nextSn, e.requests) /\ LinkOK(e, y)
    BY DEF Good, Way
  <2>11. \A s \in Sids : e.out[s].pause # "Resetting"
    <3>1. e.req.streams = {}
      BY <1>2 DEF NoRequest
    <3> QED BY <2>10, <3>1 DEF ReqOK
  <2>12. ReqOK(e.log, f.out, f.req, f.nextSn, f.requests)
    <3>1. f.req.streams = {s \in Sids : f.out[s].pause = "Resetting"}
      BY <2>2, <2>3, <2>5, <2>9, <2>11
    <3>2. f.req.streams # {} /\ f.req # NoRequest
      BY <1>2, <2>3, <2>9 DEF NoRequest
    <3>3. \A t \in Tsns(e.log) : t <= f.req.last
      BY <2>1, <2>3, <2>9 DEF Tsns
    <3>4. f.req.sn = f.nextSn - 1
      BY <2>1, <2>3, <2>9
    <3>5. f.req \in f.requests /\ \A d \in f.requests : d \in e.requests \/ d = f.req
      <4>1. r.sn \in Nat
        BY <2>1, <2>3
      <4>2. r \in InNetwork(e.requests, r) /\ \A d \in InNetwork(e.requests, r) : d \in e.requests \/ d = r
        BY <4>1, NetworkFacts
      <4> QED BY <2>9, <4>2
    <3>6. ASSUME NEW d \in f.requests
          PROVE  d.sn < f.nextSn /\ (f.req.sn # 0 /\ d.sn = f.req.sn => d = f.req)
      <4>1. CASE d = f.req
        BY <2>1, <2>3, <2>9, <4>1
      <4>2. CASE d # f.req
        <5>1. d \in e.requests /\ d.sn < e.nextSn
          BY <2>10, <3>5, <4>2 DEF ReqOK
        <5>2. d.sn \in Nat
          BY <2>1, <5>1, SocketFields DEF Request
        <5> QED BY <2>1, <2>3, <2>9, <5>1, <5>2
      <4> QED BY <4>1, <4>2
    <3>7. f.req.sn \in {0, f.nextSn - 1}
      BY <3>4
    <3> QED BY <3>1, <3>2, <3>3, <3>5, <3>6, <3>7 DEF ReqOK
  <2>13. LinkOK(f, y)
    <3>1. /\ y.lastSn = e.nextSn - 1 /\ y.lastResult # "InProgress" /\ y.deferred = NotDeferred
          /\ \A s \in Sids : y.in[s].epoch = e.out[s].epoch
      BY <1>2, <2>1, <2>10, NoRequestLink
    <3>2. y.lastSn = f.nextSn - 2 /\ f.req.sn = f.nextSn - 1 /\ f.req.sn # 0 /\ f.req.sn # y.lastSn
      BY <2>1, <2>3, <2>9, <3>1
    <3>3. ASSUME NEW d \in y.responses
          PROVE  d.sn < f.nextSn /\ d.sn # f.req.sn
      <4>1. d.sn < e.nextSn /\ d.sn \in Nat
        BY <2>10, SocketFields DEF LinkOK, Response
      <4> QED BY <2>1, <2>3, <2>9, <4>1
    <3>4. ~Performed(f.req, y.lastSn, y.lastResult)
      BY <3>2 DEF Performed
    <3>5. \A s \in Sids :
            y.in[s].epoch = IF s \in f.req.streams /\ Performed(f.req, y.lastSn, y.lastResult)
                            THEN f.out[s].epoch + 1 ELSE f.out[s].epoch
      BY <2>5, <2>9, <3>1, <3>4
    <3>6. y.lastResult # "ErrorBadSequenceNumber" /\ y.deferred.tsns = <<>>
      BY <2>10 DEF LinkOK
    <3> QED BY <3>1, <3>2, <3>3, <3>5, <3>6 DEF LinkOK
  <2>14. SameCounts(e.out, f.out)
    <3>1. \A s \in Sids :
            /\ e.out[s].sent > 0 => e.out[s].items # <<>> /\ e.out[s].pause \in {"NotPaused", "Pending"}
            /\ e.out[s].pause = "Pending" => e.out[s].sent > 0
      BY <2>10 DEF SendOK, TailOK
    <3> QED BY <2>2, <2>5, <2>9, <3>1 DEF SameCounts
  <2>15. ItemsOK(e.log, f.out, np)
    <3>1. \A s \in Sids : f.out[s].items = e.out[s].items /\ f.out[s].sent = e.out[s].sent
      BY <2>5, <2>9
    <3> QED BY <2>10, <3>1, ItemsKept DEF SendOK
  <2>16. SameReceiver(e, f)
    BY <2>9 DEF SameReceiver
  <2>17. Good(f, y, hp, hq, np, nq)
    BY <2>9, <2>12, <2>13, <2>14, <2>15, <2>16, StreamsGood
  <2> QED BY <2>6, <2>9, <2>17
<1> QED BY <1>1, <1>2

-----------------------------------------------------------------------------
(* SendBufferedPackets *)

\* The sockets g that SendBufferedPackets goes through.
LEMMA SendBufferedSteps ==
    ASSUME NEW e, e.room \in Nat, e.room # 0
    PROVE  \E g : /\ g[0] = MakeStreamResetRequest(e)
                  /\ \A i \in 1..e.room : g[i] = SendChunk(g[i - 1])
                  /\ SendBufferedPackets(e) = LowWatched(e, g[e.room])
<1> DEFINE n == e.room
           Step(g, i) == IF i = 0 THEN MakeStreamResetRequest(e) ELSE SendChunk(g[i - 1])
<1>1. \E g : g = [i \in 0..n |-> Step(g, i)]
  <2> DEFINE Has(m) == \E g : g = [i \in 0..m |-> Step(g, i)]
             T == {m \in Nat : m <= n /\ ~Has(m)}
             k == Min(T)
  <2>1. T = {}
    <3> SUFFICES ASSUME T # {} PROVE FALSE
      OBVIOUS
    <3>1. k \in T /\ \A x \in T : k <= x
      <4>1. T \subseteq Nat
        OBVIOUS
      <4> HIDE DEF T
      <4> QED BY <4>1, MinOf
    <3> HIDE DEF k
    <3>2. CASE k = 0
      <4> DEFINE j == [i \in 0..0 |-> MakeStreamResetRequest(e)]
      <4>1. j = [i \in 0..0 |-> Step(j, i)]
        OBVIOUS
      <4>2. Has(0)
        BY <4>1
      <4> QED BY <3>1, <3>2, <4>2
    <3>3. CASE k # 0
      <4>1. k \in Nat /\ k - 1 \in Nat /\ k <= n /\ ~Has(k)
        BY <3>1, <3>3
      <4>2. k - 1 \notin T
        <5>1. \A x \in T : k <= x
          BY <3>1
        <5>2. ~(k <= k - 1)
          BY <4>1
        <5> HIDE DEF T
        <5> QED BY <5>1, <5>2
      <4>3. Has(k - 1)
        BY <4>1, <4>2
      <4>4. PICK g : g = [i \in 0..(k - 1) |-> Step(g, i)]
        BY <4>3
      <4>5. \A i \in 0..(k - 1) : g[i] = Step(g, i)
        BY <4>4
      <4> DEFINE x == SendChunk(g[k - 1])
                 j == [i \in 0..k |-> IF i = k THEN x ELSE g[i]]
      <4>6. x = Step(g, k)
        BY <3>3
      <4> HIDE DEF x
      <4>7. /\ j[k] = x /\ k \in 0..k
            /\ \A i \in 0..(k - 1) : j[i] = g[i] /\ i \in 0..k
            /\ j = [i \in 0..k |-> j[i]]
        BY <4>1
      <4> HIDE DEF j
      <4>8. ASSUME NEW i \in 0..k PROVE j[i] = Step(j, i)
        <5>1. CASE i = 0
          <6>1. i \in 0..(k - 1)
            BY <4>1, <5>1
          <6> QED BY <4>5, <4>7, <5>1, <6>1
        <5>2. CASE i # 0
          <6>1. i - 1 \in 0..(k - 1) /\ (i # k => i \in 0..(k - 1))
            BY <4>1, <5>2
          <6>2. Step(j, i) = Step(g, i)
            BY <4>7, <5>2, <6>1
          <6> QED BY <4>5, <4>6, <4>7, <6>1, <6>2
        <5> QED BY <5>1, <5>2
      <4>9. [i \in 0..k |-> j[i]] = [i \in 0..k |-> Step(j, i)]
        <5> HIDE DEF Step
        <5> QED BY <4>8
      <4>10. Has(k)
        BY <4>7, <4>9
      <4> QED BY <4>1, <4>10
    <3> QED BY <3>2, <3>3
  <2> HIDE DEF Has
  <2>2. Has(n)
    BY <2>1
  <2> QED BY <2>2 DEF Has
<1>2. PICK g : g = [i \in 0..n |-> Step(g, i)] /\ SendBufferedPackets(e) = LowWatched(e, g[n])
  BY <1>1 DEF SendBufferedPackets
<1>3. \A i \in 0..n : g[i] = Step(g, i)
  BY <1>2
<1>4. 0 \in 0..n /\ \A i \in 1..n : i \in 0..n /\ i # 0
  OBVIOUS
<1> QED BY <1>2, <1>3, <1>4

LEMMA SendBufferedGood ==
    ASSUME NEW e, NEW y \in Socket, NEW hp \in Seq(Call), NEW hq, NEW np \in Nat, NEW nq,
           Good(e, y, hp, hq, np, nq)
    PROVE  Good(SendBufferedPackets(e), y, hp, hq, np, nq)
<1> DEFINE n == e.room
           G(x) == Good(x, y, hp, hq, np, nq)
<1>0. n \in Nat
  BY SocketFields DEF Good
<1>1. CASE n = 0
  <2>1. SendBufferedPackets(e) = e
    BY <1>1 DEF SendBufferedPackets
  <2> QED BY <2>1
<1>2. CASE n # 0
  <2>1. PICK g : /\ g[0] = MakeStreamResetRequest(e)
                 /\ \A i \in 1..n : g[i] = SendChunk(g[i - 1])
                 /\ SendBufferedPackets(e) = LowWatched(e, g[n])
    BY <1>0, <1>2, SendBufferedSteps
  <2>2. G(g[0]) /\ g[0].room >= n
    BY <1>0, <2>1, ResetRequestGood
  <2> DEFINE T == {i \in 0..n : ~(G(g[i]) /\ g[i].room >= n - i)}
             k == Min(T)
  <2>3. T = {}
    <3> SUFFICES ASSUME T # {} PROVE FALSE
      OBVIOUS
    <3>1. k \in T /\ \A x \in T : k <= x
      <4>1. T \subseteq Nat
        OBVIOUS
      <4> HIDE DEF T
      <4> QED BY <4>1, MinOf
    <3> HIDE DEF k
    <3>2. k \in 0..n /\ ~(G(g[k]) /\ g[k].room >= n - k)
      BY <3>1
    <3>3. k # 0
      <4>1. n - 0 = n
        BY <1>0
      <4> HIDE DEF G
      <4> QED BY <2>2, <3>2, <4>1
    <3>4. k - 1 \in 0..n /\ k \in 1..n /\ ~(k <= k - 1)
      BY <1>0, <3>2, <3>3
    <3>5. k - 1 \notin T
      BY <3>1, <3>4
    <3>6. G(g[k - 1]) /\ g[k - 1].room >= n - (k - 1)
      BY <3>4, <3>5
    <3>7. g[k - 1].room \in Nat
      BY <3>6, SocketFields DEF Good
    <3>8. g[k - 1].room >= 1
      BY <1>0, <3>4, <3>6, <3>7
    <3>9. G(SendChunk(g[k - 1])) /\ SendChunk(g[k - 1]).room >= g[k - 1].room - 1
      BY <3>6, <3>8, SendChunkGood
    <3>10. SendChunk(g[k - 1]).room \in Nat /\ g[k] = SendChunk(g[k - 1])
      BY <2>1, <3>4, <3>9, SocketFields DEF Good
    <3>11. g[k].room >= n - k
      <4> DEFINE before == g[k - 1].room
                 after == g[k].room
      <4>1. /\ before \in Nat /\ after \in Nat /\ n \in Nat /\ k \in 1..n
            /\ before >= n - (k - 1) /\ after >= before - 1
        BY <1>0, <3>4, <3>6, <3>7, <3>9, <3>10
      <4> HIDE DEF before, after
      <4>2. after >= n - k
        BY <4>1
      <4> QED BY <4>2 DEF after
    <3> QED BY <3>2, <3>9, <3>10, <3>11
  <2>4. G(g[n])
    <3>1. n \in 0..n
      BY <1>0
    <3> QED BY <2>3, <3>1
  <2> QED BY <2>1, <2>4, LowWatchedGood
<1> QED BY <1>1, <1>2

-----------------------------------------------------------------------------
(* Send *)

LEMMA AppendedItems ==
    ASSUME NEW L \in Seq(Chunk), NEW out \in [Sids -> OutgoingStream], NEW out2, NEW n \in Nat,
           ItemsOK(L, out, n), NEW s \in Sids, NEW m \in Message, m.id = n + 1,
           out2[s].items = Append(out[s].items, m), out2[s].sent = out[s].sent,
           \A r \in Sids : r # s => out2[r] = out[r]
    PROVE  ItemsOK(L, out2, n + 1)
<1> DEFINE I(r) == out[r].items
           J(r) == out2[r].items
<1>1. \A t \in Tsns(L) : L[t].m.id <= n /\ L[t].m.id \in Nat
  <2>1. \A t \in Tsns(L) : L[t] \in Chunk
    BY SeqFacts
  <2>2. \A c \in Chunk : c.m.id \in Nat
    BY DEF Chunk, Message
  <2> QED BY <2>1, <2>2 DEF ItemsOK
<1>2. \A r \in Sids : Len(I(r)) \in Nat /\ \A i \in 1..Len(I(r)) : I(r)[i].id \in Nat /\ I(r)[i].id <= n
  <2>1. \A r \in Sids : Len(I(r)) \in Nat /\ \A i \in 1..Len(I(r)) : I(r)[i].id \in Nat
    BY StreamFacts
  <2> QED BY <2>1 DEF ItemsOK
\* An item is an old one or the new one.
<1>3. ASSUME NEW r \in Sids, NEW i \in 1..Len(J(r))
      PROVE  \/ i \in 1..Len(I(r)) /\ J(r)[i] = I(r)[i]
             \/ r = s /\ i = Len(I(s)) + 1 /\ J(r)[i] = m
  <2>1. CASE r # s
    BY <2>1
  <2>2. CASE r = s
    <3>1. I(s) \in Seq(Message)
      BY StreamFacts
    <3>2. /\ Len(J(s)) = Len(I(s)) + 1 /\ J(s)[Len(I(s)) + 1] = m
          /\ \A j \in 1..Len(I(s)) : J(s)[j] = I(s)[j]
      BY <3>1, AppendProperties
    <3>3. i \in 1..Len(I(s)) \/ i = Len(I(s)) + 1
      BY <1>2, <2>2, <3>2
    <3> HIDE DEF I, J
    <3> QED BY <2>2, <3>2, <3>3
  <2> QED BY <2>1, <2>2
<1>4. \A r \in Sids : out2[r].sent = out[r].sent
  OBVIOUS
<1>5. \A r \in Sids : \A i \in 1..Len(I(r)) :
         /\ \A j \in 1..Len(I(r)) : i < j => I(r)[i].id < I(r)[j].id
         /\ \A q \in Sids : \A j \in 1..Len(I(q)) : q # r => I(r)[i].id # I(q)[j].id
         /\ \A t \in Tsns(L) :
              /\ L[t].sid = r => L[t].m.id <= I(r)[i].id
              /\ L[t].m.id = I(r)[i].id =>
                   L[t].sid = r /\ i = 1 /\ out[r].sent > 0 /\ Joined(L, t, Len(L))
  BY DEF ItemsOK
<1> HIDE DEF I, J
<1>6. ASSUME NEW r \in Sids, NEW i \in 1..Len(J(r))
      PROVE  /\ J(r)[i].id <= n + 1
             /\ \A j \in 1..Len(J(r)) : i < j => J(r)[i].id < J(r)[j].id
             /\ \A q \in Sids : \A j \in 1..Len(J(q)) : q # r => J(r)[i].id # J(q)[j].id
             /\ \A t \in Tsns(L) :
                  /\ L[t].sid = r => L[t].m.id <= J(r)[i].id
                  /\ L[t].m.id = J(r)[i].id =>
                       L[t].sid = r /\ i = 1 /\ out2[r].sent > 0 /\ Joined(L, t, Len(L))
  <2>1. CASE i \in 1..Len(I(r)) /\ J(r)[i] = I(r)[i]
    <3>1. J(r)[i].id \in Nat /\ J(r)[i].id <= n + 1 /\ J(r)[i].id < n + 1
      BY <1>2, <2>1
    <3>2. ASSUME NEW j \in 1..Len(J(r)), i < j PROVE J(r)[i].id < J(r)[j].id
      BY <1>3, <1>5, <2>1, <3>1, <3>2
    <3>3. ASSUME NEW q \in Sids, NEW j \in 1..Len(J(q)), q # r PROVE J(r)[i].id # J(q)[j].id
      <4>1. CASE j \in 1..Len(I(q)) /\ J(q)[j] = I(q)[j]
        BY <1>5, <2>1, <3>3, <4>1
      <4>2. CASE J(q)[j] = m
        <5>1. J(q)[j].id = n + 1
          BY <4>2
        <5> QED BY <3>1, <5>1
      <4> QED BY <1>3, <4>1, <4>2
    <3>4. \A t \in Tsns(L) :
             /\ L[t].sid = r => L[t].m.id <= J(r)[i].id
             /\ L[t].m.id = J(r)[i].id =>
                  L[t].sid = r /\ i = 1 /\ out2[r].sent > 0 /\ Joined(L, t, Len(L))
      BY <1>4, <1>5, <2>1
    <3> QED BY <3>1, <3>2, <3>3, <3>4
  <2>2. CASE r = s /\ i = Len(I(s)) + 1 /\ J(r)[i] = m
    <3>1. ASSUME NEW j \in 1..Len(J(r)), i < j PROVE FALSE
      <4>1. j \in 1..Len(I(s)) \/ j = Len(I(s)) + 1
        BY <1>3, <2>2
      <4>2. Len(I(s)) \in Nat
        BY <1>2
      <4> QED BY <2>2, <3>1, <4>1, <4>2
    <3>2. ASSUME NEW q \in Sids, NEW j \in 1..Len(J(q)), q # r PROVE J(r)[i].id # J(q)[j].id
      <4>1. j \in 1..Len(I(q)) /\ J(q)[j] = I(q)[j]
        BY <1>3, <2>2, <3>2
      <4> QED BY <1>2, <2>2, <4>1
    <3>3. \A t \in Tsns(L) : L[t].m.id <= m.id /\ L[t].m.id # m.id
      BY <1>1
    <3>4. J(r)[i].id <= n + 1
      BY <2>2
    <3>5. \A j \in 1..Len(J(r)) : i < j => J(r)[i].id < J(r)[j].id
      BY <3>1
    <3> QED BY <2>2, <3>2, <3>3, <3>4, <3>5
  <2> QED BY <1>3, <2>1, <2>2
<1>7. \A t \in Tsns(L) : L[t].m.id <= n + 1
  BY <1>1
<1> QED BY <1>6, <1>7 DEF ItemsOK, J

LEMMA SendGood ==
    ASSUME NEW e, NEW y \in Socket, NEW hp \in Seq(Call), NEW hq, NEW np \in Nat, NEW nq,
           Good(e, y, hp, hq, np, nq), NEW s \in Sids, NEW m \in Message, m.id = np + 1
    PROVE  Good(SocketSend(e, s, m), y, hp, hq, np + 1, nq)
<1> DEFINE st == e.out[s]
           su == [st EXCEPT !.items = Append(st.items, m)]
           f == [e EXCEPT !.out[s].items = Append(@, m)]
<1>1. /\ e \in Socket /\ e.out \in [Sids -> OutgoingStream] /\ st \in OutgoingStream
      /\ e.log \in Seq(Chunk) /\ st.items \in Seq(Message)
  BY SocketFields, StreamFacts DEF Good
<1>2. /\ SendOK(e.log, e.out, np) /\ ReqOK(e.log, e.out, e.req, e.nextSn, e.requests) /\ LinkOK(e, y)
  BY DEF Good, Way
<1>3. \A r \in Sids : /\ e.out[r].sent > 0 => e.out[r].items # <<>> /\ e.out[r].pause \in {"NotPaused", "Pending"}
                      /\ e.out[r].pause = "Pending" => e.out[r].sent > 0
  BY <1>2 DEF SendOK, TailOK
<1>4. Append(st.items, m) \in Seq(Message) /\ Append(st.items, m) # <<>>
      /\ (st.items # <<>> => Head(Append(st.items, m)) = Head(st.items))
  BY <1>1, AppendProperties, HeadTailAppend
<1>5. /\ su \in OutgoingStream /\ su.items = Append(st.items, m) /\ su.sent = st.sent /\ su.ssn = st.ssn
      /\ su.epoch = st.epoch /\ su.pause = st.pause
  BY <1>1, <1>4 DEF OutgoingStream
<1>6. f = [e EXCEPT !.out = [e.out EXCEPT ![s] = su]]
  BY <1>1 DEF Socket
<1> HIDE DEF su
<1>7. [e.out EXCEPT ![s] = su] \in [Sids -> OutgoingStream]
  BY <1>1, <1>5
<1>8. /\ f \in Socket /\ f.log = e.log /\ f.out = [e.out EXCEPT ![s] = su] /\ f.req = e.req
      /\ f.nextSn = e.nextSn /\ f.requests = e.requests
      /\ f.got = e.got /\ f.in = e.in /\ f.deferred = e.deferred
      /\ f.lastSn = e.lastSn /\ f.lastResult = e.lastResult /\ f.responses = e.responses
      /\ f.calls = e.calls
  BY <1>1, <1>6, <1>7 DEF Socket
<1>9. SocketSend(e, s, m) = SendBufferedPackets(f)
  BY DEF SocketSend
<1> HIDE DEF f
<1>10. f.out[s] = su /\ \A r \in Sids : r # s => f.out[r] = e.out[r]
  BY <1>1, <1>8
<1>11. SameReceiver(e, f)
  BY <1>8 DEF SameReceiver
<1>12. SameCounts(e.out, f.out)
  BY <1>3, <1>4, <1>5, <1>10 DEF SameCounts
<1>13. ItemsOK(e.log, f.out, np + 1)
  <2>1. f.out[s].items = Append(e.out[s].items, m) /\ f.out[s].sent = e.out[s].sent
    BY <1>5, <1>10
  <2>2. ItemsOK(e.log, e.out, np)
    BY <1>2 DEF SendOK
  <2>3. e.log \in Seq(Chunk) /\ e.out \in [Sids -> OutgoingStream] /\ m \in Message /\ m.id = np + 1
    BY <1>1
  <2>4. \A r \in Sids : r # s => f.out[r] = e.out[r]
    BY <1>10
  <2> DEFINE L == e.log
             before == e.out
             after == f.out
  <2>5. /\ L \in Seq(Chunk) /\ before \in [Sids -> OutgoingStream] /\ ItemsOK(L, before, np)
        /\ after[s].items = Append(before[s].items, m) /\ after[s].sent = before[s].sent
        /\ \A r \in Sids : r # s => after[r] = before[r]
    BY <2>1, <2>2, <2>3, <2>4
  <2> HIDE DEF L, before, after
  <2>6. ItemsOK(L, after, np + 1)
    BY <2>3, <2>5, AppendedItems
  <2> QED BY <2>6 DEF L, after
<1>14. ReqOK(e.log, f.out, f.req, f.nextSn, f.requests)
  <2>1. \A r \in Sids : f.out[r].pause = "Resetting" <=> e.out[r].pause = "Resetting"
    BY <1>5, <1>10
  <2>2. f.req.streams = {r \in Sids : f.out[r].pause = "Resetting"}
    BY <1>2, <1>8, <2>1 DEF ReqOK
  <2> QED BY <1>2, <1>8, <2>2 DEF ReqOK
<1>15. LinkOK(f, y)
  <2>1. \A r \in Sids : f.out[r].epoch = e.out[r].epoch
    BY <1>12 DEF SameCounts
  <2>2. LinkOK(e, y) /\ f.req = e.req /\ f.nextSn = e.nextSn
    BY <1>2, <1>8
  <2> QED BY <2>1, <2>2, LinkSame
<1>16. Good(f, y, hp, hq, np + 1, nq)
  BY <1>8, <1>11, <1>12, <1>13, <1>14, <1>15, StreamsGood
<1>17. np + 1 \in Nat
  OBVIOUS
<1> QED BY <1>9, <1>16, <1>17, SendBufferedGood

-----------------------------------------------------------------------------
(* Responses *)

\* A stream that is reset has no chunk of its new epoch.
LEMMA CommittedStreams ==
    ASSUME NEW L \in Seq(Chunk), NEW out \in [Sids -> OutgoingStream],
           NEW out2 \in [Sids -> OutgoingStream], NEW n, NEW got, NEW in,
           SendOK(L, out, n), RecvOK(L, out, got, in), in \in [Sids -> IncomingStream], NEW A,
           \A s \in Sids : s \in A => /\ out[s].pause = "Resetting"
                                      /\ in[s].epoch = out[s].epoch + 1
                                      /\ out2[s].items = out[s].items /\ out2[s].sent = 0
                                      /\ out2[s].ssn = 0 /\ out2[s].epoch = out[s].epoch + 1
                                      /\ out2[s].pause = "NotPaused",
           \A s \in Sids : s \notin A => out2[s] = out[s]
    PROVE  SendOK(L, out2, n) /\ RecvOK(L, out2, got, in)
<1>1. \A s \in Sids : /\ out[s].sent \in Nat /\ out[s].ssn \in Nat /\ out[s].epoch \in Nat
                      /\ in[s].epoch \in Nat /\ in[s].ssn \in Nat
  BY StreamFacts DEF IncomingStream
<1>2. \A s \in Sids : s \in A => out[s].sent = 0
  <2> SUFFICES ASSUME NEW s \in Sids, s \in A, out[s].sent # 0 PROVE FALSE
    OBVIOUS
  <2>1. out[s].sent > 0
    BY <1>1
  <2>2. out[s].pause \in {"NotPaused", "Pending"}
    BY <2>1 DEF SendOK, TailOK
  <2> QED BY <2>2
<1>3. \A s \in Sids : out2[s].sent = out[s].sent /\ out2[s].items = out[s].items
  BY <1>2
<1>4. TailOK(L, out2)
  <2> SUFFICES ASSUME NEW s \in Sids
               PROVE
        /\ out2[s].sent > 0 <=> Len(L) > 0 /\ ~L[Len(L)].ends /\ L[Len(L)].sid = s
        /\ out2[s].sent > 0 =>
             /\ out2[s].items # <<>> /\ out2[s].sent < Head(out2[s].items).size
             /\ L[Len(L)].m = Head(out2[s].items) /\ L[Len(L)].epoch = out2[s].epoch
             /\ L[Len(L)].ssn = IF L[Len(L)].m.unordered THEN 0 ELSE out2[s].ssn
        /\ out2[s].sent > 0 => out2[s].pause \in {"NotPaused", "Pending"}
        /\ out2[s].pause = "Pending" => out2[s].sent > 0
    BY DEF TailOK
  <2>1. CASE s \notin A
    BY <2>1 DEF SendOK, TailOK
  <2>2. CASE s \in A
    <3>1. out[s].sent > 0 <=> Len(L) > 0 /\ ~L[Len(L)].ends /\ L[Len(L)].sid = s
      BY DEF SendOK, TailOK
    <3> QED BY <1>2, <2>2, <3>1
  <2> QED BY <2>1, <2>2
<1>5. CountOK(L, out2)
  <2>0. \A t \in Tsns(L) : L[t].sid \in Sids /\ L[t].epoch \in Nat /\ L[t].epoch <= out[L[t].sid].epoch
    <3>1. \A c \in Chunk : c.sid \in Sids /\ c.epoch \in Nat
      BY DEF Chunk
    <3> QED BY <3>1, SeqFacts DEF SendOK, CountOK
  <2>1. ASSUME NEW t \in Tsns(L)
        PROVE  /\ L[t].epoch <= out2[L[t].sid].epoch
               /\ L[t].sid \in A => L[t].epoch # out2[L[t].sid].epoch
    <3>1. CASE L[t].sid \in A
      BY <1>1, <2>0, <3>1
    <3>2. CASE L[t].sid \notin A
      BY <2>0, <3>2
    <3> QED BY <3>1, <3>2
  <2>2. ASSUME NEW t \in Tsns(L), L[t].epoch = out2[L[t].sid].epoch, Ordered(L, t)
        PROVE  /\ L[t].ssn <= out2[L[t].sid].ssn
               /\ L[t].ssn = out2[L[t].sid].ssn =>
                    out2[L[t].sid].sent > 0 /\ ~Head(out2[L[t].sid].items).unordered
    <3>1. out2[L[t].sid] = out[L[t].sid]
      BY <2>0, <2>1, <2>2
    <3> QED BY <2>2, <3>1 DEF SendOK, CountOK
  <2>3. ASSUME NEW s \in Sids, NEW k \in Nat, k < out2[s].ssn
        PROVE  \E u \in Tsns(L) : Numbered(L, u, s, out2[s].epoch, k)
    <3>1. s \notin A
      BY <2>3
    <3>2. out2[s] = out[s]
      BY <3>1
    <3> QED BY <2>3, <3>2 DEF SendOK, CountOK
  <2> QED BY <2>1, <2>2, <2>3 DEF CountOK
<1>6. ItemsOK(L, out2, n)
  BY <1>3, ItemsKept DEF SendOK
<1>7. NextOK(L, out2, got, in)
  <2>1. ASSUME NEW s \in Sids
        PROVE  in[s].ssn <= IF in[s].epoch = out2[s].epoch THEN out2[s].ssn ELSE 0
    <3>1. in[s].ssn <= IF in[s].epoch = out[s].epoch THEN out[s].ssn ELSE 0
      BY DEF RecvOK, NextOK
    <3>2. CASE s \in A
      BY <1>1, <3>1, <3>2
    <3>3. CASE s \notin A
      BY <3>1, <3>3
    <3> QED BY <3>2, <3>3
  <2> QED BY <2>1 DEF RecvOK, NextOK
<1> QED BY <1>4, <1>5, <1>6, <1>7 DEF SendOK, RecvOK

LEMMA CommitFields ==
    ASSUME NEW e \in Socket
    PROVE  LET f == CommitResetStreams(e) IN
           /\ f \in Socket /\ f.log = e.log /\ f.req = e.req
           /\ f.nextSn = e.nextSn /\ f.requests = e.requests
           /\ f.got = e.got /\ f.in = e.in /\ f.deferred = e.deferred
           /\ f.lastSn = e.lastSn /\ f.lastResult = e.lastResult /\ f.responses = e.responses
           /\ f.calls = e.calls
           /\ \A s \in Sids :
                /\ e.out[s].pause # "Resetting" => f.out[s] = e.out[s]
                /\ e.out[s].pause = "Resetting" =>
                     /\ f.out[s].items = e.out[s].items /\ f.out[s].sent = 0 /\ f.out[s].ssn = 0
                     /\ f.out[s].epoch = e.out[s].epoch + 1 /\ f.out[s].pause = "NotPaused"
<1> DEFINE su(s) == [e.out[s] EXCEPT !.epoch = @ + 1, !.pause = "NotPaused", !.ssn = 0, !.sent = 0]
           o == [s \in Sids |-> IF e.out[s].pause # "Resetting" THEN e.out[s] ELSE su(s)]
           f == CommitResetStreams(e)
<1>1. e.out \in [Sids -> OutgoingStream]
  BY SocketFields
<1>2. ASSUME NEW s \in Sids
      PROVE  /\ su(s) \in OutgoingStream /\ su(s).items = e.out[s].items /\ su(s).sent = 0
             /\ su(s).ssn = 0 /\ su(s).epoch = e.out[s].epoch + 1 /\ su(s).pause = "NotPaused"
  <2>1. e.out[s] \in OutgoingStream
    BY <1>1
  <2>2. e.out[s].epoch + 1 \in Nat
    BY <2>1 DEF OutgoingStream
  <2>3. su(s) = [e.out[s] EXCEPT !.epoch = e.out[s].epoch + 1, !.pause = "NotPaused", !.ssn = 0, !.sent = 0]
    BY <2>1 DEF OutgoingStream
  <2> QED BY <2>1, <2>2, <2>3 DEF OutgoingStream
<1>3. f = [e EXCEPT !.out = o]
  BY DEF CommitResetStreams
<1> HIDE DEF su
<1>4. o \in [Sids -> OutgoingStream]
  BY <1>1, <1>2
<1>5. \A s \in Sids : /\ e.out[s].pause # "Resetting" => o[s] = e.out[s]
                      /\ e.out[s].pause = "Resetting" => o[s] = su(s)
  OBVIOUS
<1> HIDE DEF o
<1>6. /\ f \in Socket /\ f.log = e.log /\ f.req = e.req
      /\ f.nextSn = e.nextSn /\ f.requests = e.requests
      /\ f.got = e.got /\ f.in = e.in /\ f.deferred = e.deferred
      /\ f.lastSn = e.lastSn /\ f.lastResult = e.lastResult /\ f.responses = e.responses
      /\ f.calls = e.calls /\ f.out = o
  BY <1>3, <1>4 DEF Socket
<1> HIDE DEF f
<1>7. \A s \in Sids :
                /\ e.out[s].pause # "Resetting" => f.out[s] = e.out[s]
                /\ e.out[s].pause = "Resetting" =>
                     /\ f.out[s].items = e.out[s].items /\ f.out[s].sent = 0 /\ f.out[s].ssn = 0
                     /\ f.out[s].epoch = e.out[s].epoch + 1 /\ f.out[s].pause = "NotPaused"
  BY <1>2, <1>5, <1>6
<1> QED BY <1>6, <1>7 DEF f

LEMMA ResponseGood ==
    ASSUME NEW e, NEW y \in Socket, NEW hp \in Seq(Call), NEW hq, NEW np, NEW nq,
           Good(e, y, hp, hq, np, nq), NEW r \in y.responses
    PROVE  Good(HandleResponse(e, r), y, hp, hq, np, nq)
<1>1. /\ e \in Socket /\ e.log \in Seq(Chunk) /\ e.out \in [Sids -> OutgoingStream]
      /\ e.req \in Request /\ e.nextSn \in Nat /\ e.nextSn # 0 /\ e.req.sn \in Nat
      /\ e.calls \in Seq(Call) /\ e.req.streams \in SUBSET Sids
      /\ y.in \in [Sids -> IncomingStream] /\ y.lastSn \in Nat
      /\ r \in Response /\ r.sn \in Nat /\ r.result \in Results
  <2>1. e \in Socket
    BY DEF Good
  <2>2. r \in Response /\ e.req \in Request
    BY <2>1, SocketFields
  <2> QED BY <2>1, <2>2, SocketFields DEF Request, Response
<1>2. /\ SendOK(e.log, e.out, np) /\ RecvOK(e.log, e.out, y.got, y.in)
      /\ HeardOK(e.log, y.got, y.in, hq) /\ ReqOK(e.log, e.out, e.req, e.nextSn, e.requests)
      /\ LinkOK(e, y)
  BY DEF Good, Way
<1>3. CASE e.req.sn = 0 \/ r.sn # e.req.sn
  BY <1>3 DEF HandleResponse
<1>4. CASE e.req.sn # 0 /\ r.sn = e.req.sn
  <2>1. /\ y.lastSn = e.req.sn /\ r.result # "ErrorBadSequenceNumber"
        /\ r.result = "InProgress" <=> y.lastResult = "InProgress"
    BY <1>2, <1>4 DEF LinkOK
  <2>2. e.req.sn = e.nextSn - 1
    BY <1>2, <1>4 DEF ReqOK
  <2>3. e.req.streams = {s \in Sids : e.out[s].pause = "Resetting"} /\ e.req # NoRequest /\ e.req.streams # {}
    <3>1. e.req # NoRequest
      BY <1>4 DEF NoRequest
    <3> QED BY <1>2, <3>1 DEF ReqOK
  <2>4. CASE r.result = "InProgress"
    <3> DEFINE q == [e.req EXCEPT !.sn = 0]
               f == [e EXCEPT !.req = q]
    <3>1. q \in Request /\ q.last = e.req.last /\ q.streams = e.req.streams /\ q.sn = 0
      BY <1>1 DEF Request
    <3>2. HandleResponse(e, r) = f
      BY <1>1, <1>4, <2>4 DEF HandleResponse, Socket
    <3> HIDE DEF q
    <3>3. /\ f \in Socket /\ f.log = e.log /\ f.out = e.out /\ f.req = q
          /\ f.nextSn = e.nextSn /\ f.requests = e.requests
          /\ f.got = e.got /\ f.in = e.in /\ f.deferred = e.deferred
          /\ f.lastSn = e.lastSn /\ f.lastResult = e.lastResult /\ f.responses = e.responses
          /\ f.calls = e.calls
      BY <1>1, <3>1 DEF Socket
    <3> HIDE DEF f
    <3>4. ReqOK(e.log, f.out, f.req, f.nextSn, f.requests)
      <4>1. f.req.streams = {} <=> f.req = NoRequest
        BY <2>3, <3>1, <3>3 DEF NoRequest
      <4> QED BY <1>2, <3>1, <3>3, <4>1 DEF ReqOK
    <3>5. LinkOK(f, y)
      <4>1. y.lastResult = "InProgress"
        BY <2>1, <2>4
      <4>2. ~Performed(f.req, y.lastSn, y.lastResult) /\ ~Performed(e.req, y.lastSn, y.lastResult)
        BY <4>1 DEF Performed
      <4>3. \A s \in Sids :
              y.in[s].epoch = IF s \in f.req.streams /\ Performed(f.req, y.lastSn, y.lastResult)
                              THEN f.out[s].epoch + 1 ELSE f.out[s].epoch
        BY <1>2, <3>3, <4>2 DEF LinkOK
      <4>4. y.lastSn = f.nextSn - 1
        BY <2>1, <2>2, <3>3
      <4>5. \A d \in y.responses : d.sn < f.nextSn
        BY <1>2, <3>3 DEF LinkOK
      <4>6. /\ y.lastResult = "InProgress" <=> y.deferred # NotDeferred
            /\ y.deferred.tsns = <<>>
            /\ y.deferred # NotDeferred =>
                 y.deferred.streams = f.req.streams /\ y.deferred.last = f.req.last
        BY <1>2, <3>1, <3>3 DEF LinkOK
      <4>7. f.req.sn = 0
        BY <3>1, <3>3
      <4> QED BY <4>1, <4>3, <4>4, <4>5, <4>6, <4>7 DEF LinkOK
    <3>6. SameCounts(e.out, f.out)
      BY <1>2, <3>3 DEF SameCounts, SendOK, TailOK
    <3>7. SameReceiver(e, f)
      BY <3>3 DEF SameReceiver
    <3>8. Good(f, y, hp, hq, np, nq)
      BY <1>2, <3>3, <3>4, <3>5, <3>6, <3>7, StreamsGood DEF SendOK
    <3> QED BY <3>2, <3>8
  <2>5. CASE r.result # "InProgress"
    <3> DEFINE c == [call |-> "OnStreamsResetPerformed", streams |-> e.req.streams]
               g == [e EXCEPT !.req = NoRequest, !.calls = Append(@, c)]
               f == CommitResetStreams(g)
    <3>1. r.result \in {"SuccessNothingToDo", "SuccessPerformed"}
      BY <1>1, <2>1, <2>5 DEF Results
    <3>2. HandleResponse(e, r) = f
      BY <1>4, <3>1 DEF HandleResponse
    <3>3. c \in Call /\ ~IsMessage(c)
      BY <1>1 DEF Call, IsMessage
    <3> HIDE DEF c
    <3>4. Append(e.calls, c) \in Seq(Call) /\ NoRequest \in Request
      BY <1>1, <3>3, AppendProperties DEF NoRequest, Request
    <3>5. /\ g \in Socket /\ g.log = e.log /\ g.out = e.out /\ g.req = NoRequest
          /\ g.nextSn = e.nextSn /\ g.requests = e.requests
          /\ g.got = e.got /\ g.in = e.in /\ g.deferred = e.deferred
          /\ g.lastSn = e.lastSn /\ g.lastResult = e.lastResult /\ g.responses = e.responses
          /\ g.calls = Append(e.calls, c)
      BY <1>1, <3>4 DEF Socket
    <3> HIDE DEF g
    <3>6. /\ f \in Socket /\ f.log = e.log /\ f.req = NoRequest
          /\ f.nextSn = e.nextSn /\ f.requests = e.requests
          /\ f.got = e.got /\ f.in = e.in /\ f.deferred = e.deferred
          /\ f.lastSn = e.lastSn /\ f.lastResult = e.lastResult /\ f.responses = e.responses
          /\ f.calls = Append(e.calls, c)
          /\ \A s \in Sids :
               /\ e.out[s].pause # "Resetting" => f.out[s] = e.out[s]
               /\ e.out[s].pause = "Resetting" =>
                     /\ f.out[s].items = e.out[s].items /\ f.out[s].sent = 0 /\ f.out[s].ssn = 0
                     /\ f.out[s].epoch = e.out[s].epoch + 1 /\ f.out[s].pause = "NotPaused"
      BY <3>5, CommitFields
    <3> HIDE DEF f
    <3>7. Performed(e.req, y.lastSn, y.lastResult)
      BY <1>4, <2>1, <2>5 DEF Performed
    <3>8. \A s \in Sids : y.in[s].epoch = f.out[s].epoch
      <4>1. \A s \in Sids : y.in[s].epoch = IF s \in e.req.streams THEN e.out[s].epoch + 1 ELSE e.out[s].epoch
        BY <1>2, <3>7 DEF LinkOK
      <4> QED BY <2>3, <3>6, <4>1
    <3>9. SendOK(f.log, f.out, np) /\ RecvOK(f.log, f.out, y.got, y.in)
      <4>1. f.out \in [Sids -> OutgoingStream]
        BY <3>6, SocketFields
      <4>2. \A s \in Sids : s \in e.req.streams =>
                                      /\ e.out[s].pause = "Resetting"
                                      /\ y.in[s].epoch = e.out[s].epoch + 1
                                      /\ f.out[s].items = e.out[s].items /\ f.out[s].sent = 0
                                      /\ f.out[s].ssn = 0 /\ f.out[s].epoch = e.out[s].epoch + 1
                                      /\ f.out[s].pause = "NotPaused"
        BY <2>3, <3>6, <3>8
      <4>3. \A s \in Sids : s \notin e.req.streams => f.out[s] = e.out[s]
        BY <2>3, <3>6
      <4>4. /\ e.log \in Seq(Chunk) /\ e.out \in [Sids -> OutgoingStream]
            /\ y.in \in [Sids -> IncomingStream]
            /\ SendOK(e.log, e.out, np) /\ RecvOK(e.log, e.out, y.got, y.in)
        BY <1>1, <1>2
      <4>5. SendOK(e.log, f.out, np) /\ RecvOK(e.log, f.out, y.got, y.in)
        BY <4>1, <4>2, <4>3, <4>4, CommittedStreams
      <4> QED BY <3>6, <4>5
    <3>10. ReqOK(f.log, f.out, f.req, f.nextSn, f.requests)
      <4>1. f.req.streams = {} /\ f.req.sn = 0
        BY <3>6 DEF NoRequest
      <4>2. \A s \in Sids : f.out[s].pause # "Resetting"
        BY <3>6
      <4>3. \A d \in f.requests : d.sn < f.nextSn
        BY <1>2, <3>6 DEF ReqOK
      <4> QED BY <3>6, <4>1, <4>2, <4>3 DEF ReqOK
    <3>11. LinkOK(f, y)
      <4>1. f.req.streams = {} /\ f.req.sn = 0 /\ f.req = NoRequest
        BY <3>6 DEF NoRequest
      <4>2. y.lastSn = f.nextSn - 1
        BY <2>1, <2>2, <3>6
      <4>3. y.lastResult # "InProgress" /\ y.deferred = NotDeferred
        BY <1>2, <2>1, <2>5 DEF LinkOK
      <4>4. y.deferred.tsns = <<>> /\ y.lastResult # "ErrorBadSequenceNumber"
            /\ \A d \in y.responses : d.sn < f.nextSn
        BY <1>2, <3>6 DEF LinkOK
      <4>5. \A s \in Sids :
              y.in[s].epoch = IF s \in f.req.streams /\ Performed(f.req, y.lastSn, y.lastResult)
                              THEN f.out[s].epoch + 1 ELSE f.out[s].epoch
        BY <3>8, <4>1
      <4> QED BY <4>1, <4>2, <4>3, <4>4, <4>5 DEF LinkOK
    <3>12. SameReceiver(e, f)
      BY <3>3, <3>6 DEF SameReceiver
    <3>13. Way(f, y, hq, np)
      BY <1>2, <3>6, <3>9, <3>10, <3>11 DEF Way
    <3> QED BY <3>2, <3>6, <3>12, <3>13, SenderStep
  <2> QED BY <2>4, <2>5
<1> QED BY <1>3, <1>4

-----------------------------------------------------------------------------
(* Messages that are complete *)

\* A complete set of chunks that are joined is a message.
LEMMA WholeMessage ==
    ASSUME NEW L \in Seq(Chunk), SpansOK(L), NEW C, C \subseteq Tsns(L), Whole(L, C), NEW x \in C,
           \A u \in C : Joined(L, x, u) \/ Joined(L, u, x)
    PROVE  \E b, d \in Tsns(L) :
             /\ b <= d /\ C = b..d /\ b = Min(C) /\ Span(L, b, d) /\ L[d].ends
             /\ \A u \in Tsns(L) : Joined(L, x, u) \/ Joined(L, u, x) => u \in C
<1> DEFINE b == Min(C)
           d == Max(C)
<1>1. Len(L) \in Nat /\ C \subseteq 1..Len(L) /\ x \in Tsns(L)
  BY SeqFacts DEF Tsns
<1>2. /\ b \in C /\ d \in C /\ b <= d /\ C = b..d /\ L[b].begins /\ L[d].ends
  BY <1>1, WholeSet
<1> HIDE DEF b, d
<1>3. PICK b0 \in 1..x, d0 \in x..Len(L) :
              /\ b0 \in Nat /\ d0 \in Nat /\ b0 <= x /\ x <= d0 /\ b0..d0 \subseteq Tsns(L)
              /\ Span(L, b0, d0) /\ (L[d0].ends \/ d0 = Len(L))
  BY <1>1, MessageSpan
<1>4. x \in b0..d0 /\ b0 >= 1 /\ d0 <= Len(L)
  BY <1>1, <1>3 DEF Tsns
<1>5. \A u \in Tsns(L) : Joined(L, x, u) \/ Joined(L, u, x) => u \in b0..d0
  BY <1>1, <1>3, <1>4, JoinedSpan
<1>6. b \in b0..d0 /\ d \in b0..d0
  BY <1>2, <1>5
<1>7. b = b0
  <2>1. b \notin (b0 + 1)..d0
    BY <1>2, <1>3 DEF Span
  <2> QED BY <1>3, <1>6, <2>1
<1>8. d = d0
  <2>1. d + 1 \notin (b0 + 1)..d0
    <3> SUFFICES ASSUME d + 1 \in (b0 + 1)..d0 PROVE FALSE
      OBVIOUS
    <3>1. \A k \in (b0 + 1)..d0 : ~L[k - 1].ends
      BY <1>3 DEF Span
    <3>2. d \in Nat /\ (d + 1) - 1 = d
      BY <1>3, <1>6
    <3>3. ~L[(d + 1) - 1].ends
      BY <3>1
    <3> QED BY <1>2, <3>2, <3>3
  <2> QED BY <1>3, <1>6, <2>1
<1>9. b \in Tsns(L) /\ d \in Tsns(L) /\ Span(L, b, d)
  BY <1>2, <1>3, <1>7, <1>8
<1> QED BY <1>2, <1>5, <1>7, <1>8, <1>9 DEF b

LEMMA NumberedJoined ==
    ASSUME NEW L \in Seq(Chunk), LogOK(L), NEW t \in Tsns(L), NEW u \in Tsns(L), NEW s, NEW k, NEW n,
           Numbered(L, t, s, k, n), Numbered(L, u, s, k, n)
    PROVE  Joined(L, t, u) \/ Joined(L, u, t)
<1>1. t \in Nat /\ u \in Nat
  BY SeqFacts DEF Tsns
<1>2. CASE t = u
  BY <1>1, <1>2 DEF Joined
<1>3. CASE t < u
  BY <1>3 DEF LogOK, Numbered
<1>4. CASE u < t
  BY <1>4 DEF LogOK, Numbered
<1> QED BY <1>1, <1>2, <1>3, <1>4

\* A complete set of chunks with the same number is a message.
LEMMA OrderedMessage ==
    ASSUME NEW L \in Seq(Chunk), LogOK(L), NEW C, C \subseteq Tsns(L), Whole(L, C), NEW s, NEW k, NEW n,
           \A u \in C : Numbered(L, u, s, k, n)
    PROVE  \E b, d \in Tsns(L) :
             /\ b <= d /\ C = b..d /\ b = Min(C) /\ Span(L, b, d) /\ L[d].ends
             /\ \A u \in Tsns(L) : Numbered(L, u, s, k, n) => u \in C
<1>1. PICK x \in C : TRUE
  BY DEF Whole
<1>2. x \in Tsns(L)
  OBVIOUS
<1>3. \A u \in Tsns(L) : Numbered(L, u, s, k, n) => Joined(L, x, u) \/ Joined(L, u, x)
  BY <1>2, NumberedJoined
<1>4. \A u \in C : Joined(L, x, u) \/ Joined(L, u, x)
  BY <1>3
<1>5. SpansOK(L)
  BY DEF LogOK
<1>6. PICK b \in Tsns(L), d \in Tsns(L) :
             /\ b <= d /\ C = b..d /\ b = Min(C) /\ Span(L, b, d) /\ L[d].ends
             /\ \A u \in Tsns(L) : Joined(L, x, u) \/ Joined(L, u, x) => u \in C
  BY <1>4, <1>5, WholeMessage
<1> QED BY <1>3, <1>6

-----------------------------------------------------------------------------
(* The ordered messages that can be handed on *)

OfNumber(L, H, n) == {u \in H : L[u].ssn = n}

Run(L, H, next) ==
    {n \in {L[u].ssn : u \in H} : n >= next /\ \A k \in next..n : Whole(L, OfNumber(L, H, k))}

\* They have consecutive numbers, from the next one up to one that is not complete.
LEMMA RunIs ==
    ASSUME NEW L, NEW H, NEW next \in Nat, NEW B \in Nat, \A u \in H : L[u].ssn \in Nat /\ L[u].ssn <= B
    PROVE  \E m \in Nat :
             /\ m >= next /\ Run(L, H, next) = next..(m - 1)
             /\ Cardinality(Run(L, H, next)) = m - next
             /\ \A n \in next..(m - 1) : Whole(L, OfNumber(L, H, n))
             /\ ~Whole(L, OfNumber(L, H, m))
<1> DEFINE R == Run(L, H, next)
           W(n) == Whole(L, OfNumber(L, H, n))
           T == {n \in Nat : n >= next /\ n \notin R}
           m == Min(T)
<1>1. \A n \in R : n \in Nat /\ n <= B /\ n >= next
  BY DEF Run
<1>2. m \in T /\ \A n \in T : m <= n
  <2>1. B + next + 1 \in Nat /\ B + next + 1 >= next /\ ~(B + next + 1 <= B)
    OBVIOUS
  <2>2. B + next + 1 \notin R
    BY <1>1, <2>1
  <2>3. T # {} /\ T \subseteq Nat
    <3> HIDE DEF R
    <3> QED BY <2>1, <2>2
  <2> HIDE DEF T
  <2> QED BY <2>3, MinOf
<1> HIDE DEF m
<1>3. m \in Nat /\ m >= next /\ m \notin R
  BY <1>2
<1>4. \A n \in Nat : W(n) => n \in {L[u].ssn : u \in H}
  BY DEF Whole, OfNumber
<1>5. \A n \in R : \A k \in next..n : W(k)
  BY DEF Run
<1>6. \A n \in Nat : n >= next /\ (\A k \in next..n : W(k)) => n \in R
  <2> SUFFICES ASSUME NEW n \in Nat, n >= next, \A k \in next..n : W(k) PROVE n \in R
    OBVIOUS
  <2>1. n \in next..n
    OBVIOUS
  <2>2. n \in {L[u].ssn : u \in H}
    BY <1>4, <2>1
  <2> QED BY <2>2 DEF Run
<1> HIDE DEF W, R
<1>7. \A n \in next..(m - 1) : n \in R
  BY <1>2, <1>3
<1>8. \A n \in R : n \in next..(m - 1)
  <2> SUFFICES ASSUME NEW n \in R, ~(n < m) PROVE FALSE
    BY <1>1, <1>3
  <2>1. n \in Nat /\ m \in next..n
    BY <1>1, <1>3
  <2>2. \A k \in next..m : k \in next..n
    BY <1>3, <2>1
  <2>3. \A k \in next..m : W(k)
    BY <1>5, <2>2
  <2> QED BY <1>3, <1>6, <2>3
<1>9. R = next..(m - 1)
  BY <1>7, <1>8
<1>10. Cardinality(next..(m - 1)) = m - next
  <2>1. CASE m = next
    <3>1. next..(m - 1) = {}
      BY <1>3, <2>1
    <3> QED BY <2>1, <3>1, FS_EmptySet
  <2>2. CASE m # next
    <3>1. m - 1 \in Nat /\ next <= m - 1
      BY <1>3, <2>2
    <3>2. Cardinality(next..(m - 1)) = (m - 1) - next + 1
      BY <3>1, FS_Interval
    <3> QED BY <1>3, <3>2
  <2> QED BY <2>1, <2>2
<1>11. \A n \in next..(m - 1) : W(n)
  <2> SUFFICES ASSUME NEW n \in next..(m - 1) PROVE W(n)
    OBVIOUS
  <2>1. n \in R /\ n \in next..n
    BY <1>3, <1>9
  <2> QED BY <1>5, <2>1
<1>12. ~W(m)
  <2> SUFFICES ASSUME W(m) PROVE FALSE
    OBVIOUS
  <2>1. \A k \in next..m : k \in next..(m - 1) \/ k = m
    BY <1>3
  <2>2. m \in R
    BY <1>3, <1>6, <1>11, <2>1
  <2> QED BY <1>3, <2>2
<1> QED BY <1>3, <1>9, <1>10, <1>11, <1>12 DEF W, R

\* Ordered chunk t of stream s arrives: H is what is held then, and the messages
\* with numbers below m are complete.
Ahead(L, got, in, t, s, H, m) ==
    /\ t \in Tsns(L) /\ t \notin got /\ Ordered(L, t) /\ s = L[t].sid
    /\ H = in[s].ordered \cup {t}
    /\ m \in Nat /\ m >= in[s].ssn
    /\ \A n \in in[s].ssn..(m - 1) : Whole(L, OfNumber(L, H, n))
    /\ ~Whole(L, OfNumber(L, H, m))

LEMMA AheadFacts ==
    ASSUME NEW L \in Seq(Chunk), NEW out, NEW in \in [Sids -> IncomingStream], NEW got,
           NEW t, NEW s, NEW H, NEW m, LogOK(L), RecvOK(L, out, got, in), Ahead(L, got, in, t, s, H, m)
    PROVE  /\ s \in Sids /\ in[s].ssn \in Nat /\ m \in Nat /\ H \subseteq Tsns(L)
           /\ \A u \in H : /\ Numbered(L, u, s, in[s].epoch, L[u].ssn) /\ L[u].ssn \in Nat
                           /\ L[u].ssn >= in[s].ssn /\ ~Gone(L, got, in, u)
           /\ \A n \in in[s].ssn..(m - 1) : \E b, d \in Tsns(L) :
                /\ b <= d /\ OfNumber(L, H, n) = b..d /\ b = Min(OfNumber(L, H, n))
                /\ Span(L, b, d) /\ L[d].ends
                /\ \A u \in Tsns(L) : Numbered(L, u, s, in[s].epoch, n) => u \in OfNumber(L, H, n)
<1>1. t \in Tsns(L) /\ L[t] \in Chunk /\ s = L[t].sid /\ s \in Sids /\ m \in Nat
  BY SeqFacts DEF Ahead, Chunk
<1>2. in[s].ssn \in Nat
  BY <1>1 DEF IncomingStream
<1>3. \A u \in Tsns(L) : L[u].ssn \in Nat
  <2>1. \A c \in Chunk : c.ssn \in Nat
    BY DEF Chunk
  <2> QED BY <2>1, SeqFacts
<1>4. ASSUME NEW u \in H
      PROVE  u \in Tsns(L) /\ Numbered(L, u, s, in[s].epoch, L[u].ssn) /\ ~Gone(L, got, in, u)
  <2>1. CASE u = t
    <3>1. L[t].epoch = in[s].epoch
      BY <1>1 DEF RecvOK, HeldOK, Ahead
    <3> QED BY <1>1, <2>1, <3>1 DEF Ahead, Numbered, Gone
  <2>2. CASE u \in in[s].ordered
    <3>1. u \in got /\ L[u].sid = s /\ L[u].epoch = in[s].epoch /\ Ordered(L, u) /\ u \in Tsns(L)
      BY <1>1, <2>2 DEF RecvOK, HeldOK
    <3> QED BY <2>2, <3>1 DEF Numbered, Gone, Held
  <2> QED BY <2>1, <2>2 DEF Ahead
<1>5. ASSUME NEW u \in H PROVE L[u].ssn >= in[s].ssn
  <2>1. ~(L[u].ssn < in[s].ssn)
    BY <1>4 DEF RecvOK, NextOK, Numbered
  <2> QED BY <1>2, <1>3, <1>4, <2>1
<1>6. ASSUME NEW n \in in[s].ssn..(m - 1)
      PROVE  \E b, d \in Tsns(L) :
                /\ b <= d /\ OfNumber(L, H, n) = b..d /\ b = Min(OfNumber(L, H, n))
                /\ Span(L, b, d) /\ L[d].ends
                /\ \A u \in Tsns(L) : Numbered(L, u, s, in[s].epoch, n) => u \in OfNumber(L, H, n)
  <2> DEFINE C == OfNumber(L, H, n)
  <2>1. C \subseteq Tsns(L) /\ \A u \in C : Numbered(L, u, s, in[s].epoch, n)
    BY <1>4 DEF OfNumber
  <2>2. Whole(L, C)
    BY DEF Ahead
  <2> HIDE DEF C
  <2>3. \E b, d \in Tsns(L) :
             /\ b <= d /\ C = b..d /\ b = Min(C) /\ Span(L, b, d) /\ L[d].ends
             /\ \A u \in Tsns(L) : Numbered(L, u, s, in[s].epoch, n) => u \in C
    BY <2>1, <2>2, OrderedMessage
  <2> QED BY <2>3 DEF C
<1> QED BY <1>1, <1>2, <1>3, <1>4, <1>5, <1>6

\* A message that is complete is not the one partly sent.
LEMMA AheadBound ==
    ASSUME NEW L \in Seq(Chunk), NEW out \in [Sids -> OutgoingStream], NEW in \in [Sids -> IncomingStream],
           NEW got, NEW t, NEW s, NEW H, NEW m, NEW n,
           SendOK(L, out, n), RecvOK(L, out, got, in), Ahead(L, got, in, t, s, H, m),
           in[s].epoch = out[s].epoch
    PROVE  m <= out[s].ssn
<1>0. LogOK(L)
  BY DEF SendOK
<1>1. /\ s \in Sids /\ in[s].ssn \in Nat /\ m \in Nat /\ H \subseteq Tsns(L)
      /\ \A u \in H : Numbered(L, u, s, in[s].epoch, L[u].ssn)
      /\ \A k \in in[s].ssn..(m - 1) : \E b, d \in Tsns(L) :
                /\ b <= d /\ OfNumber(L, H, k) = b..d /\ b = Min(OfNumber(L, H, k))
                /\ Span(L, b, d) /\ L[d].ends
                /\ \A u \in Tsns(L) : Numbered(L, u, s, in[s].epoch, k) => u \in OfNumber(L, H, k)
  BY <1>0, AheadFacts
<1>2. m >= in[s].ssn
  BY DEF Ahead
<1>3. out[s].ssn \in Nat /\ in[s].ssn <= out[s].ssn
  BY <1>1, StreamFacts DEF RecvOK, NextOK
<1>4. CASE m = in[s].ssn
  BY <1>3, <1>4
<1>5. CASE m # in[s].ssn
  <2>1. m - 1 \in in[s].ssn..(m - 1) /\ m - 1 \in Nat
    BY <1>1, <1>2, <1>5
  <2>2. PICK b \in Tsns(L), d \in Tsns(L) :
                /\ b <= d /\ OfNumber(L, H, m - 1) = b..d /\ L[d].ends
                /\ \A u \in Tsns(L) : Numbered(L, u, s, in[s].epoch, m - 1) => u \in OfNumber(L, H, m - 1)
    BY <1>1, <2>1
  <2>3. b \in Nat /\ d \in Nat /\ Len(L) \in Nat /\ d <= Len(L) /\ Len(L) \in Tsns(L) /\ b \in b..d
    BY <2>2, SeqFacts DEF Tsns
  <2>4. b \in H /\ L[b].ssn = m - 1
    BY <2>2, <2>3 DEF OfNumber
  <2>5. L[b].sid = s /\ L[b].epoch = out[s].epoch /\ Ordered(L, b)
    BY <1>1, <2>4 DEF Numbered
  <2>6. /\ m - 1 <= out[s].ssn
        /\ m - 1 = out[s].ssn => out[s].sent > 0 /\ ~Head(out[s].items).unordered
    BY <2>2, <2>4, <2>5 DEF SendOK, CountOK
  <2>7. ASSUME m - 1 = out[s].ssn PROVE FALSE
    <3>1. out[s].sent > 0 /\ ~Head(out[s].items).unordered
      BY <2>6, <2>7
    <3>2. /\ ~L[Len(L)].ends /\ L[Len(L)].sid = s
          /\ L[Len(L)].m = Head(out[s].items) /\ L[Len(L)].epoch = out[s].epoch
          /\ L[Len(L)].ssn = IF L[Len(L)].m.unordered THEN 0 ELSE out[s].ssn
      BY <1>1, <3>1 DEF SendOK, TailOK
    <3>3. Numbered(L, Len(L), s, in[s].epoch, m - 1)
      BY <2>7, <3>1, <3>2 DEF Numbered, Ordered
    <3>4. Len(L) \in b..d
      BY <2>2, <2>3, <3>3
    <3>5. Len(L) = d
      BY <2>3, <3>4
    <3> QED BY <2>2, <3>2, <3>5
  <2> QED BY <1>1, <1>3, <2>6, <2>7
<1> QED BY <1>4, <1>5

\* The receiving side after messages of stream s up to number m were handed on.
HandedOn(L, got, in, t, s, H, m, got2, in2) ==
    /\ got2 = got \cup {t}
    /\ in2[s].ordered = {u \in H : L[u].ssn \notin in[s].ssn..(m - 1)}
    /\ in2[s].ssn = m /\ in2[s].unordered = in[s].unordered /\ in2[s].epoch = in[s].epoch
    /\ \A r \in Sids : r # s => in2[r] = in[r]

LEMMA HandedOnGone ==
    ASSUME NEW L \in Seq(Chunk), NEW out, NEW in \in [Sids -> IncomingStream], NEW got,
           NEW t, NEW s, NEW H, NEW m, LogOK(L), RecvOK(L, out, got, in), Ahead(L, got, in, t, s, H, m),
           NEW got2, NEW in2, HandedOn(L, got, in, t, s, H, m, got2, in2), NEW u \in Tsns(L)
    PROVE  Gone(L, got2, in2, u) <=>
             Gone(L, got, in, u) \/ (u \in H /\ L[u].ssn \in in[s].ssn..(m - 1))
<1>1. /\ s \in Sids /\ \A v \in H : /\ Numbered(L, v, s, in[s].epoch, L[v].ssn) /\ ~Gone(L, got, in, v)
  BY AheadFacts
<1>2. t \notin got /\ s = L[t].sid /\ H = in[s].ordered \cup {t} /\ got2 = got \cup {t}
  BY DEF Ahead, HandedOn
<1>3. L[u].sid \in Sids
  BY SeqFacts DEF Chunk
<1>4. CASE L[u].sid # s
  <2>1. u # t /\ u \notin H /\ in2[L[u].sid] = in[L[u].sid]
    BY <1>1, <1>2, <1>3, <1>4 DEF HandedOn, Numbered
  <2> QED BY <1>2, <2>1 DEF Gone, Held
<1>5. CASE L[u].sid = s /\ u \in H
  <2>1. u \in got2 /\ Ordered(L, u) /\ ~Gone(L, got, in, u)
    BY <1>1, <1>2, <1>5 DEF RecvOK, HeldOK, Numbered
  <2>2. u \notin in[s].unordered
    BY <1>1, <2>1 DEF RecvOK, HeldOK
  <2>3. Gone(L, got2, in2, u) <=> u \notin in2[s].ordered
    BY <1>5, <2>1, <2>2 DEF Gone, Held, HandedOn
  <2> QED BY <1>5, <2>1, <2>3 DEF HandedOn
<1>6. CASE L[u].sid = s /\ u \notin H
  <2>1. u # t /\ u \notin in[s].ordered /\ u \notin in2[s].ordered
    BY <1>2, <1>6 DEF HandedOn
  <2> QED BY <1>2, <1>6, <2>1 DEF Gone, Held, HandedOn
<1> QED BY <1>4, <1>5, <1>6

LEMMA OrderedRecv ==
    ASSUME NEW L \in Seq(Chunk), NEW out \in [Sids -> OutgoingStream], NEW in \in [Sids -> IncomingStream],
           NEW got, NEW t, NEW s, NEW H, NEW m, NEW n,
           SendOK(L, out, n), RecvOK(L, out, got, in), Ahead(L, got, in, t, s, H, m),
           in[s].epoch = out[s].epoch,
           NEW got2, NEW in2, HandedOn(L, got, in, t, s, H, m, got2, in2)
    PROVE  RecvOK(L, out, got2, in2)
<1> DEFINE next == in[s].ssn
<1>0. LogOK(L)
  BY DEF SendOK
<1>1. /\ s \in Sids /\ next \in Nat /\ m \in Nat /\ H \subseteq Tsns(L)
      /\ \A u \in H : /\ Numbered(L, u, s, in[s].epoch, L[u].ssn) /\ L[u].ssn \in Nat
                      /\ L[u].ssn >= next /\ ~Gone(L, got, in, u)
      /\ \A k \in next..(m - 1) : \E b, d \in Tsns(L) :
                /\ b <= d /\ OfNumber(L, H, k) = b..d /\ b = Min(OfNumber(L, H, k))
                /\ Span(L, b, d) /\ L[d].ends
                /\ \A u \in Tsns(L) : Numbered(L, u, s, in[s].epoch, k) => u \in OfNumber(L, H, k)
  BY <1>0, AheadFacts
<1>2. /\ t \in Tsns(L) /\ t \notin got /\ s = L[t].sid /\ H = in[s].ordered \cup {t}
      /\ m >= next /\ ~Whole(L, OfNumber(L, H, m))
  BY DEF Ahead
<1>3. /\ got2 = got \cup {t}
      /\ in2[s].ordered = {u \in H : L[u].ssn \notin next..(m - 1)}
      /\ in2[s].ssn = m /\ in2[s].unordered = in[s].unordered /\ in2[s].epoch = in[s].epoch
      /\ \A r \in Sids : r # s => in2[r] = in[r]
  BY DEF HandedOn
<1>4. \A u \in Tsns(L) : Gone(L, got2, in2, u) <=>
             Gone(L, got, in, u) \/ (u \in H /\ L[u].ssn \in next..(m - 1))
  BY <1>0, HandedOnGone
<1>5. \A u \in Tsns(L) : L[u].sid \in Sids /\ L[u].ssn \in Nat /\ u \in Nat /\ u >= 1 /\ u <= Len(L)
  <2>1. \A c \in Chunk : c.sid \in Sids /\ c.ssn \in Nat
    BY DEF Chunk
  <2>2. \A u \in Tsns(L) : u \in Nat /\ u >= 1 /\ u <= Len(L)
    BY SeqFacts DEF Tsns
  <2> QED BY <2>1, <2>2, SeqFacts
<1> HIDE DEF next
<1>6. HeldOK(L, got2, in2)
  <2>1. got \subseteq Tsns(L) /\ got2 \subseteq Tsns(L)
    BY <1>2, <1>3 DEF RecvOK, HeldOK
  <2>2. ASSUME NEW r \in Sids
        PROVE  /\ \A u \in in2[r].ordered :
                    u \in got2 /\ L[u].sid = r /\ L[u].epoch = in2[r].epoch /\ Ordered(L, u)
               /\ \A u \in in2[r].unordered :
                    u \in got2 /\ L[u].sid = r /\ L[u].epoch = in2[r].epoch /\ ~Ordered(L, u)
    <3>1. CASE r # s
      BY <1>3, <3>1 DEF RecvOK, HeldOK
    <3>2. CASE r = s
      <4>1. ASSUME NEW u \in in2[s].ordered
            PROVE  u \in got2 /\ L[u].sid = s /\ L[u].epoch = in2[s].epoch /\ Ordered(L, u)
        <5>1. u \in H
          BY <1>3
        <5>2. u \in got2
          BY <1>1, <1>2, <1>3, <5>1 DEF RecvOK, HeldOK
        <5> QED BY <1>1, <1>3, <5>1, <5>2 DEF Numbered
      <4>2. ASSUME NEW u \in in2[s].unordered
            PROVE  u \in got2 /\ L[u].sid = s /\ L[u].epoch = in2[s].epoch /\ ~Ordered(L, u)
        BY <1>1, <1>3 DEF RecvOK, HeldOK
      <4> QED BY <3>2, <4>1, <4>2
    <3> QED BY <3>1, <3>2
  <2>3. ASSUME NEW u \in Tsns(L), u \notin got2 PROVE L[u].epoch = in2[L[u].sid].epoch
    <3>1. L[u].epoch = in[L[u].sid].epoch
      BY <1>3, <2>3 DEF RecvOK, HeldOK
    <3> QED BY <1>3, <1>5, <3>1
  <2> QED BY <2>1, <2>2, <2>3 DEF HeldOK
<1>7. WholeOK(L, got2, in2)
  <2> SUFFICES ASSUME NEW u \in Tsns(L), Gone(L, got2, in2, u)
               PROVE  \E b \in 1..u, d \in u..Len(L) :
                        Span(L, b, d) /\ L[d].ends /\ \A k \in b..d : Gone(L, got2, in2, k)
    BY DEF WholeOK
  <2>1. CASE Gone(L, got, in, u)
    <3>1. PICK b \in 1..u, d \in u..Len(L) :
                Span(L, b, d) /\ L[d].ends /\ \A k \in b..d : Gone(L, got, in, k)
      BY <2>1 DEF RecvOK, WholeOK
    <3>2. \A k \in b..d : k \in Tsns(L)
      BY <1>5 DEF Tsns
    <3> QED BY <1>4, <3>1, <3>2
  <2>2. CASE u \in H /\ L[u].ssn \in next..(m - 1)
    <3>1. PICK b \in Tsns(L), d \in Tsns(L) :
                b <= d /\ OfNumber(L, H, L[u].ssn) = b..d /\ Span(L, b, d) /\ L[d].ends
      BY <1>1, <2>2
    <3>2. u \in b..d /\ \A k \in b..d : k \in H /\ L[k].ssn = L[u].ssn
      BY <2>2, <3>1 DEF OfNumber
    <3>3. b \in 1..u /\ d \in u..Len(L)
      BY <1>5, <3>1, <3>2
    <3>4. \A k \in b..d : Gone(L, got2, in2, k)
      BY <1>1, <1>4, <2>2, <3>2
    <3> QED BY <3>1, <3>3, <3>4
  <2> QED BY <1>4, <2>1, <2>2
<1>8. NextOK(L, out, got2, in2)
  <2>1. ASSUME NEW u \in Tsns(L), Ordered(L, u), L[u].epoch = in2[L[u].sid].epoch
        PROVE  Gone(L, got2, in2, u) <=> L[u].ssn < in2[L[u].sid].ssn
    <3>1. L[u].epoch = in[L[u].sid].epoch
      BY <1>3, <1>5, <2>1
    <3>2. Gone(L, got, in, u) <=> L[u].ssn < in[L[u].sid].ssn
      BY <2>1, <3>1 DEF RecvOK, NextOK
    <3>3. CASE L[u].sid # s
      <4>1. u \notin H /\ in2[L[u].sid] = in[L[u].sid]
        BY <1>1, <1>3, <1>5, <3>3 DEF Numbered
      <4> QED BY <1>4, <3>2, <4>1
    <3>4. CASE L[u].sid = s
      <4>1. Gone(L, got, in, u) <=> L[u].ssn < next
        BY <3>2, <3>4 DEF next
      <4>2. L[u].ssn \in next..(m - 1) => u \in H
        <5> SUFFICES ASSUME L[u].ssn \in next..(m - 1) PROVE u \in H
          OBVIOUS
        <5>1. Numbered(L, u, s, in[s].epoch, L[u].ssn)
          BY <2>1, <3>1, <3>4 DEF Numbered
        <5>2. u \in OfNumber(L, H, L[u].ssn)
          BY <1>1, <5>1
        <5> QED BY <5>2 DEF OfNumber
      <4>3. Gone(L, got2, in2, u) <=> L[u].ssn < next \/ L[u].ssn \in next..(m - 1)
        BY <1>4, <4>1, <4>2
      <4>4. (L[u].ssn < next \/ L[u].ssn \in next..(m - 1)) <=> L[u].ssn < m
        BY <1>1, <1>2, <1>5
      <4> QED BY <1>3, <3>4, <4>3, <4>4
    <3> QED BY <3>3, <3>4
  <2>2. ASSUME NEW r \in Sids
        PROVE  ~Whole(L, {u \in in2[r].ordered : L[u].ssn = in2[r].ssn})
    <3>1. CASE r # s
      BY <1>3, <3>1 DEF RecvOK, NextOK
    <3>2. CASE r = s
      <4>1. m \notin next..(m - 1)
        BY <1>1
      <4>2. {u \in in2[s].ordered : L[u].ssn = in2[s].ssn} = OfNumber(L, H, m)
        BY <1>3, <4>1 DEF OfNumber
      <4> QED BY <1>2, <3>2, <4>2
    <3> QED BY <3>1, <3>2
  <2>3. ASSUME NEW r \in Sids
        PROVE  in2[r].ssn <= IF in2[r].epoch = out[r].epoch THEN out[r].ssn ELSE 0
    <3>1. CASE r # s
      BY <1>3, <3>1 DEF RecvOK, NextOK
    <3>2. CASE r = s
      <4>1. m <= out[s].ssn
        BY AheadBound
      <4> QED BY <1>3, <3>2, <4>1
    <3> QED BY <3>1, <3>2
  <2>4. ASSUME NEW r \in Sids
        PROVE  \A b, d \in in2[r].unordered :
              ~(b <= d /\ Span(L, b, d) /\ L[d].ends /\ b..d \subseteq in2[r].unordered)
    <3>1. in2[r].unordered = in[r].unordered
      BY <1>3
    <3> QED BY <3>1 DEF RecvOK, NextOK
  <2> QED BY <2>1, <2>2, <2>3, <2>4 DEF NextOK
<1> QED BY <1>6, <1>7, <1>8 DEF RecvOK

\* A message that was handed on is another one than that of a chunk that was not.
LEMMA GoneDiffers ==
    ASSUME NEW L \in Seq(Chunk), NEW out, NEW in, NEW got, LogOK(L), RecvOK(L, out, got, in),
           NEW v \in Tsns(L), Gone(L, got, in, v), NEW b \in Tsns(L), ~Gone(L, got, in, b)
    PROVE  L[v].m.id # L[b].m.id
<1> SUFFICES ASSUME L[v].m.id = L[b].m.id PROVE FALSE
  OBVIOUS
<1>1. v \in Nat /\ b \in Nat /\ Len(L) \in Nat /\ v # b /\ v >= 1 /\ v <= Len(L)
  BY SeqFacts DEF Tsns
<1>2. Joined(L, v, b) \/ Joined(L, b, v)
  BY <1>1 DEF LogOK
<1>3. PICK b0 \in 1..v, d0 \in v..Len(L) :
            Span(L, b0, d0) /\ L[d0].ends /\ \A k \in b0..d0 : Gone(L, got, in, k)
  BY DEF RecvOK, WholeOK
<1>4. b0 \in Nat /\ d0 \in Nat /\ b0 >= 1 /\ d0 <= Len(L) /\ v \in b0..d0
  BY <1>1
<1>5. b \in b0..d0
  BY <1>1, <1>2, <1>3, <1>4, JoinedSpan DEF LogOK
<1> QED BY <1>3, <1>5

\* An ordered message that was handed on is an earlier one.
LEMMA GoneBefore ==
    ASSUME NEW L \in Seq(Chunk), NEW out \in [Sids -> OutgoingStream], NEW in \in [Sids -> IncomingStream],
           NEW got, NEW n, SendOK(L, out, n), RecvOK(L, out, got, in),
           NEW v \in Tsns(L), Gone(L, got, in, v), NEW b \in Tsns(L), ~Gone(L, got, in, b),
           L[v].sid = L[b].sid, Ordered(L, v), Ordered(L, b),
           in[L[b].sid].epoch = out[L[b].sid].epoch, L[b].epoch = in[L[b].sid].epoch
    PROVE  L[v].m.id < L[b].m.id
<1> DEFINE s == L[b].sid
<1>1. /\ v \in Nat /\ b \in Nat /\ v # b
  BY SeqFacts DEF Tsns
<1>2. /\ L[v].epoch \in Nat /\ L[b].epoch \in Nat /\ L[v].ssn \in Nat /\ L[b].ssn \in Nat
      /\ L[v].m.id \in Nat /\ L[b].m.id \in Nat /\ s \in Sids /\ in[s].ssn \in Nat
  <2>1. \A c \in Chunk : c.sid \in Sids /\ c.ssn \in Nat /\ c.epoch \in Nat /\ c.m.id \in Nat
    BY DEF Chunk, Message
  <2>2. s \in Sids
    BY <2>1, SeqFacts
  <2>3. in[s].ssn \in Nat
    BY <2>2 DEF IncomingStream
  <2> QED BY <2>1, <2>2, <2>3, SeqFacts
<1>3. L[v].m.id # L[b].m.id
  BY GoneDiffers DEF SendOK
<1>4. L[v].epoch <= L[b].epoch
  BY DEF SendOK, CountOK
<1>5. v < b
  <2> SUFFICES ASSUME b < v PROVE FALSE
    BY <1>1
  <2>1. L[b].epoch <= L[v].epoch
    BY DEF SendOK, LogOK
  <2>2. L[v].epoch = L[b].epoch
    BY <1>2, <1>4, <2>1
  <2>3. L[b].ssn <= L[v].ssn
    BY <2>2 DEF SendOK, LogOK
  <2>4. L[v].ssn < in[s].ssn /\ ~(L[b].ssn < in[s].ssn)
    BY <2>2 DEF RecvOK, NextOK
  <2> QED BY <1>2, <2>3, <2>4
<1>6. L[v].m.id <= L[b].m.id
  BY <1>5 DEF SendOK, LogOK
<1> QED BY <1>2, <1>3, <1>6

-----------------------------------------------------------------------------
(* Messages are handed to the client *)

\* The client has got what is in h; now it gets q, with messages that were held.
LEMMA HeardConcat ==
    ASSUME NEW L, NEW got, NEW in, NEW got2, NEW in2, NEW h \in Seq(Call), NEW q \in Seq(Call),
           HeardOK(L, got, in, h),
           \A t \in Tsns(L) : Gone(L, got, in, t) => Gone(L, got2, in2, t),
           \A i \in 1..Len(q) : \E t \in Tsns(L) :
             ~Gone(L, got, in, t) /\ Gone(L, got2, in2, t) /\ q[i] = OnMessageReceived(L, t),
           \A t \in Tsns(L) : Gone(L, got2, in2, t) /\ ~Gone(L, got, in, t) =>
             \E i \in 1..Len(q) : q[i] = OnMessageReceived(L, t),
           \A i, j \in 1..Len(q) : i < j =>
             /\ q[i].m.id # q[j].m.id
             /\ q[i].sid = q[j].sid /\ ~q[i].m.unordered /\ ~q[j].m.unordered => q[i].m.id < q[j].m.id,
           \A v, b \in Tsns(L) : Gone(L, got, in, v) /\ ~Gone(L, got, in, b) /\ Gone(L, got2, in2, b) =>
             /\ L[v].m.id # L[b].m.id
             /\ L[v].sid = L[b].sid /\ ~L[v].m.unordered /\ ~L[b].m.unordered => L[v].m.id < L[b].m.id
    PROVE  HeardOK(L, got2, in2, h \o q)
<1> DEFINE g == h \o q
<1>1. /\ Len(h) \in Nat /\ Len(q) \in Nat /\ Len(g) = Len(h) + Len(q)
      /\ \A i \in 1..Len(h) : g[i] = h[i]
      /\ \A i \in 1..Len(q) : g[Len(h) + i] = q[i]
  <2>1. /\ Len(h) \in Nat /\ Len(q) \in Nat /\ Len(g) = Len(h) + Len(q)
        /\ \A i \in 1..(Len(h) + Len(q)) : g[i] = IF i <= Len(h) THEN h[i] ELSE q[i - Len(h)]
    BY ConcatProperties, LenProperties
  <2> HIDE DEF g
  <2>2. \A i \in 1..Len(q) : g[Len(h) + i] = q[i]
    <3> SUFFICES ASSUME NEW i \in 1..Len(q) PROVE g[Len(h) + i] = q[i]
      OBVIOUS
    <3>1. /\ Len(h) + i \in 1..(Len(h) + Len(q)) /\ ~(Len(h) + i <= Len(h)) /\ (Len(h) + i) - Len(h) = i
      BY <2>1
    <3> QED BY <2>1, <3>1
  <2>3. \A i \in 1..Len(h) : i \in 1..(Len(h) + Len(q)) /\ i <= Len(h)
    BY <2>1
  <2> QED BY <2>1, <2>2, <2>3
<1> HIDE DEF g
<1>2. \A i \in 1..Len(g) : i \in 1..Len(h) \/ \E k \in 1..Len(q) : i = Len(h) + k
  <2> SUFFICES ASSUME NEW i \in 1..Len(g), i \notin 1..Len(h) PROVE \E k \in 1..Len(q) : i = Len(h) + k
    OBVIOUS
  <2>1. i - Len(h) \in 1..Len(q) /\ i = Len(h) + (i - Len(h))
    BY <1>1
  <2> QED BY <2>1
<1>3. /\ \A i \in 1..Len(h) : i \in 1..Len(g)
      /\ \A k \in 1..Len(q) : Len(h) + k \in 1..Len(g)
  BY <1>1
<1>4. ASSUME NEW i \in 1..Len(g), IsMessage(g[i])
      PROVE  \E t \in Tsns(L) : Gone(L, got2, in2, t) /\ g[i] = OnMessageReceived(L, t)
  <2>1. CASE i \in 1..Len(h)
    <3>1. PICK t \in Tsns(L) : Gone(L, got, in, t) /\ h[i] = OnMessageReceived(L, t)
      BY <1>1, <1>4, <2>1 DEF HeardOK
    <3> QED BY <1>1, <2>1, <3>1
  <2>2. CASE \E k \in 1..Len(q) : i = Len(h) + k
    <3>1. PICK k \in 1..Len(q) : i = Len(h) + k
      BY <2>2
    <3>2. g[i] = q[k]
      BY <1>1, <3>1
    <3> QED BY <3>2
  <2> QED BY <1>2, <2>1, <2>2
<1>5. ASSUME NEW t \in Tsns(L), Gone(L, got2, in2, t)
      PROVE  \E i \in 1..Len(g) : g[i] = OnMessageReceived(L, t)
  <2>1. CASE Gone(L, got, in, t)
    <3>1. PICK i \in 1..Len(h) : h[i] = OnMessageReceived(L, t)
      BY <2>1 DEF HeardOK
    <3> QED BY <1>1, <1>3, <3>1
  <2>2. CASE ~Gone(L, got, in, t)
    <3>1. PICK i \in 1..Len(q) : q[i] = OnMessageReceived(L, t)
      BY <1>5, <2>2
    <3>2. Len(h) + i \in 1..Len(g) /\ g[Len(h) + i] = OnMessageReceived(L, t)
      BY <1>1, <1>3, <3>1
    <3> QED BY <3>2
  <2> QED BY <2>1, <2>2
<1>6. ASSUME NEW i \in 1..Len(g), NEW j \in 1..Len(g), i < j, IsMessage(g[i]), IsMessage(g[j])
      PROVE  /\ g[i].m.id # g[j].m.id
             /\ g[i].sid = g[j].sid /\ ~g[i].m.unordered /\ ~g[j].m.unordered => g[i].m.id < g[j].m.id
  <2>1. CASE i \in 1..Len(h) /\ j \in 1..Len(h)
    <3>1. g[i] = h[i] /\ g[j] = h[j]
      BY <1>1, <2>1
    <3>2. /\ h[i].m.id # h[j].m.id
          /\ h[i].sid = h[j].sid /\ ~h[i].m.unordered /\ ~h[j].m.unordered => h[i].m.id < h[j].m.id
      BY <1>6, <2>1, <3>1 DEF HeardOK
    <3> QED BY <3>1, <3>2
  <2>2. CASE i \in 1..Len(h) /\ \E k \in 1..Len(q) : j = Len(h) + k
    <3>1. PICK k \in 1..Len(q) : j = Len(h) + k
      BY <2>2
    <3>2. g[i] = h[i] /\ g[j] = q[k]
      BY <1>1, <2>2, <3>1
    <3>3. PICK v \in Tsns(L) : Gone(L, got, in, v) /\ h[i] = OnMessageReceived(L, v)
      BY <1>6, <2>2, <3>2 DEF HeardOK
    <3>4. PICK b \in Tsns(L) :
             ~Gone(L, got, in, b) /\ Gone(L, got2, in2, b) /\ q[k] = OnMessageReceived(L, b)
      OBVIOUS
    <3>5. /\ g[i].m = L[v].m /\ g[i].sid = L[v].sid
          /\ g[j].m = L[b].m /\ g[j].sid = L[b].sid
      BY <3>2, <3>3, <3>4 DEF OnMessageReceived
    <3>6. /\ L[v].m.id # L[b].m.id
          /\ L[v].sid = L[b].sid /\ ~L[v].m.unordered /\ ~L[b].m.unordered => L[v].m.id < L[b].m.id
      BY <3>3, <3>4
    <3> QED BY <3>5, <3>6
  <2>3. CASE i \notin 1..Len(h) /\ j \in 1..Len(h)
    BY <1>1, <1>6, <2>3
  <2>4. CASE (\E k \in 1..Len(q) : i = Len(h) + k) /\ (\E k \in 1..Len(q) : j = Len(h) + k)
    <3>1. PICK k \in 1..Len(q) : i = Len(h) + k
      BY <2>4
    <3>2. PICK l \in 1..Len(q) : j = Len(h) + l
      BY <2>4
    <3>3. g[i] = q[k] /\ g[j] = q[l] /\ k < l
      BY <1>1, <1>6, <3>1, <3>2
    <3> QED BY <3>3
  <2> QED BY <1>2, <2>1, <2>2, <2>3, <2>4
<1>7. HeardOK(L, got2, in2, g)
  BY <1>4, <1>5, <1>6 DEF HeardOK
<1> QED BY <1>7 DEF g

\* The calls for the messages with numbers from next to m - 1, in their order.
Announced(L, H, next, m, q) ==
    /\ Len(q) = m - next
    /\ \A i \in 1..Len(q) : q[i] = OnMessageReceived(L, Min(OfNumber(L, H, next + i - 1)))

\* The call for one of these numbers.
LEMMA NumberPlace ==
    ASSUME NEW next \in Nat, NEW m \in Nat, NEW n \in next..(m - 1)
    PROVE  n - next + 1 \in 1..(m - next) /\ n = next + (n - next + 1) - 1
OBVIOUS

LEMMA OrderedHeard ==
    ASSUME NEW L \in Seq(Chunk), NEW out \in [Sids -> OutgoingStream], NEW in \in [Sids -> IncomingStream],
           NEW got, NEW t, NEW s, NEW H, NEW m, NEW n,
           SendOK(L, out, n), RecvOK(L, out, got, in), Ahead(L, got, in, t, s, H, m),
           in[s].epoch = out[s].epoch,
           NEW got2, NEW in2, HandedOn(L, got, in, t, s, H, m, got2, in2),
           NEW h \in Seq(Call), HeardOK(L, got, in, h),
           NEW q \in Seq(Call), Announced(L, H, in[s].ssn, m, q)
    PROVE  HeardOK(L, got2, in2, h \o q)
<1> DEFINE next == in[s].ssn
           B(i) == Min(OfNumber(L, H, next + i - 1))
<1>0. LogOK(L) /\ SpansOK(L)
  BY DEF SendOK, LogOK
<1>1. /\ s \in Sids /\ next \in Nat /\ m \in Nat /\ H \subseteq Tsns(L)
      /\ \A u \in H : /\ Numbered(L, u, s, in[s].epoch, L[u].ssn) /\ L[u].ssn \in Nat
                      /\ L[u].ssn >= next /\ ~Gone(L, got, in, u)
      /\ \A k \in next..(m - 1) : \E b, d \in Tsns(L) :
                /\ b <= d /\ OfNumber(L, H, k) = b..d /\ b = Min(OfNumber(L, H, k))
                /\ Span(L, b, d) /\ L[d].ends
                /\ \A u \in Tsns(L) : Numbered(L, u, s, in[s].epoch, k) => u \in OfNumber(L, H, k)
  BY <1>0, AheadFacts
<1>2. Len(q) \in Nat /\ Len(q) = m - next /\ Len(L) \in Nat
  BY SeqFacts, LenProperties DEF Announced
<1>3. \A u \in Tsns(L) : Gone(L, got2, in2, u) <=>
             Gone(L, got, in, u) \/ (u \in H /\ L[u].ssn \in next..(m - 1))
  BY <1>0, HandedOnGone
<1>4. \A i \in 1..Len(q) : q[i] = OnMessageReceived(L, B(i))
  BY DEF Announced
<1>41. \A i \in 1..Len(q) : q[i].m = L[B(i)].m
  <2> SUFFICES ASSUME NEW i \in 1..Len(q) PROVE q[i].m = L[B(i)].m
    OBVIOUS
  <2>1. q[i] = OnMessageReceived(L, B(i))
    BY <1>4
  <2> HIDE DEF B
  <2> QED BY <2>1 DEF OnMessageReceived
<1> HIDE DEF next
<1>5. ASSUME NEW i \in 1..Len(q)
      PROVE  /\ B(i) \in H /\ B(i) \in Tsns(L) /\ L[B(i)].ssn = next + i - 1
             /\ next + i - 1 \in next..(m - 1) /\ ~Gone(L, got, in, B(i)) /\ Gone(L, got2, in2, B(i))
             /\ \A u \in OfNumber(L, H, next + i - 1) : L[u].m = L[B(i)].m
  <2>1. next + i - 1 \in next..(m - 1)
    BY <1>1, <1>2
  <2>2. PICK b \in Tsns(L), d \in Tsns(L) :
                /\ b <= d /\ OfNumber(L, H, next + i - 1) = b..d /\ b = B(i) /\ Span(L, b, d)
    BY <1>1, <2>1
  <2>3. b \in OfNumber(L, H, next + i - 1)
    BY <1>2, <2>2 DEF Tsns
  <2>4. b \in H /\ L[b].ssn = next + i - 1
    BY <2>3 DEF OfNumber
  <2>5. ~Gone(L, got, in, b) /\ Gone(L, got2, in2, b)
    BY <1>1, <1>3, <2>1, <2>2, <2>4
  <2>6. \A u \in OfNumber(L, H, next + i - 1) : L[u].m = L[b].m
    BY <2>2 DEF Span
  <2> HIDE DEF B
  <2> QED BY <2>1, <2>2, <2>4, <2>5, <2>6
<1>6. \A u \in Tsns(L) : L[u].m.id \in Nat /\ u \in Nat
  <2>1. \A c \in Chunk : c.m.id \in Nat
    BY DEF Chunk, Message
  <2> QED BY <1>2, <2>1, SeqFacts DEF Tsns
<1> HIDE DEF B
<1>7. \A i \in 1..Len(q) : \E u \in Tsns(L) :
             ~Gone(L, got, in, u) /\ Gone(L, got2, in2, u) /\ q[i] = OnMessageReceived(L, u)
  BY <1>4, <1>5
<1>8. ASSUME NEW u \in Tsns(L), Gone(L, got2, in2, u), ~Gone(L, got, in, u)
      PROVE  \E i \in 1..Len(q) : q[i] = OnMessageReceived(L, u)
  <2>1. u \in H /\ L[u].ssn \in next..(m - 1)
    BY <1>3, <1>8
  <2>2. PICK i \in 1..Len(q) : L[u].ssn = next + i - 1
    <3>1. /\ L[u].ssn - next + 1 \in 1..(m - next)
          /\ L[u].ssn = next + (L[u].ssn - next + 1) - 1
      BY <1>1, <2>1, NumberPlace
    <3> QED BY <1>2, <3>1
  <2>3. u \in OfNumber(L, H, next + i - 1)
    BY <2>1, <2>2 DEF OfNumber
  <2>4. L[u].m = L[B(i)].m /\ L[u].sid = L[B(i)].sid
    BY <1>1, <1>5, <2>1, <2>3 DEF Numbered
  <2> QED BY <1>4, <2>4 DEF OnMessageReceived
<1>9. ASSUME NEW i \in 1..Len(q), NEW j \in 1..Len(q), i < j
      PROVE  q[i].m.id < q[j].m.id
  <2>1. /\ q[i].m = L[B(i)].m /\ q[j].m = L[B(j)].m
    BY <1>41
  <2>2. /\ Numbered(L, B(i), s, in[s].epoch, next + i - 1)
        /\ Numbered(L, B(j), s, in[s].epoch, next + j - 1)
    BY <1>1, <1>5
  <2>3. /\ next + i - 1 \in Nat /\ next + j - 1 \in Nat /\ next + i - 1 < next + j - 1
    BY <1>1, <1>2, <1>9
  <2>4. B(i) \in Nat /\ B(j) \in Nat /\ B(i) \in Tsns(L) /\ B(j) \in Tsns(L) /\ B(i) # B(j)
    BY <1>5, <1>6, <2>2, <2>3 DEF Numbered
  <2>5. B(i) < B(j)
    <3> SUFFICES ASSUME B(j) < B(i) PROVE FALSE
      BY <2>4
    <3>0. \A v, w \in Tsns(L) : v < w /\ L[v].sid = L[w].sid /\ L[v].epoch = L[w].epoch
                                 /\ Ordered(L, v) /\ Ordered(L, w) => L[v].ssn <= L[w].ssn
      BY <1>0 DEF LogOK
    <3>1. next + j - 1 <= next + i - 1
      BY <2>2, <2>4, <3>0 DEF Numbered
    <3> QED BY <2>3, <3>1
  <2>6. L[B(i)].m.id <= L[B(j)].m.id
    BY <1>0, <2>2, <2>4, <2>5 DEF LogOK, Numbered
  <2>7. L[B(i)].m.id # L[B(j)].m.id
    <3> SUFFICES ASSUME L[B(i)].m.id = L[B(j)].m.id PROVE FALSE
      OBVIOUS
    <3>1. Joined(L, B(i), B(j))
      BY <1>0, <2>4, <2>5 DEF LogOK
    <3>2. L[B(j)].ssn = L[B(i)].ssn
      BY <1>0, <1>2, <2>4, <3>1, JoinedSame
    <3> QED BY <2>2, <2>3, <3>2 DEF Numbered
  <2>8. L[B(i)].m.id < L[B(j)].m.id
    BY <1>6, <2>4, <2>6, <2>7
  <2> QED BY <2>1, <2>8
<1>10. ASSUME NEW v \in Tsns(L), NEW b \in Tsns(L),
              Gone(L, got, in, v), ~Gone(L, got, in, b), Gone(L, got2, in2, b)
       PROVE  /\ L[v].m.id # L[b].m.id
              /\ L[v].sid = L[b].sid /\ ~L[v].m.unordered /\ ~L[b].m.unordered => L[v].m.id < L[b].m.id
  <2>1. b \in H /\ Numbered(L, b, s, in[s].epoch, L[b].ssn)
    BY <1>1, <1>3, <1>10
  <2>2. L[v].m.id # L[b].m.id
    BY <1>0, <1>10, GoneDiffers
  <2>3. in[L[b].sid].epoch = out[L[b].sid].epoch /\ L[b].epoch = in[L[b].sid].epoch /\ Ordered(L, b)
    BY <2>1 DEF Numbered
  <2>4. ASSUME L[v].sid = L[b].sid, Ordered(L, v) PROVE L[v].m.id < L[b].m.id
    BY <1>10, <2>3, <2>4, GoneBefore
  <2> QED BY <2>2, <2>4 DEF Ordered
<1>11. \A i, j \in 1..Len(q) : i < j =>
             /\ q[i].m.id # q[j].m.id
             /\ q[i].sid = q[j].sid /\ ~q[i].m.unordered /\ ~q[j].m.unordered => q[i].m.id < q[j].m.id
  <2>1. \A i \in 1..Len(q) : q[i].m.id \in Nat
    BY <1>41, <1>5, <1>6
  <2> QED BY <1>9, <2>1
<1>12. \A u \in Tsns(L) : Gone(L, got, in, u) => Gone(L, got2, in2, u)
  BY <1>3
<1>13. \A u \in Tsns(L) : Gone(L, got2, in2, u) /\ ~Gone(L, got, in, u) =>
             \E i \in 1..Len(q) : q[i] = OnMessageReceived(L, u)
  BY <1>8
<1>14. \A v, b \in Tsns(L) : Gone(L, got, in, v) /\ ~Gone(L, got, in, b) /\ Gone(L, got2, in2, b) =>
             /\ L[v].m.id # L[b].m.id
             /\ L[v].sid = L[b].sid /\ ~L[v].m.unordered /\ ~L[b].m.unordered => L[v].m.id < L[b].m.id
  BY <1>10
<1> QED BY <1>7, <1>11, <1>12, <1>13, <1>14, HeardConcat

-----------------------------------------------------------------------------
(* A chunk arrives *)

\* The socket has got G, its streams become I and the client will get the calls C.
LEMMA DataGood ==
    ASSUME NEW e, NEW y, NEW hp, NEW hq, NEW np, NEW nq, Good(e, y, hp, hq, np, nq),
           NEW G \in SUBSET Nat, NEW I \in [Sids -> IncomingStream], NEW C \in Seq(Call),
           RecvOK(y.log, y.out, G, I), HeardOK(y.log, G, I, hp \o C),
           \A s \in Sids : I[s].epoch = e.in[s].epoch,
           NEW f, f = [e EXCEPT !.got = G, !.in = I, !.calls = C]
    PROVE  Good(f, y, hp, hq, np, nq)
<1>0. e \in Socket
  BY DEF Good
<1>1. /\ f \in Socket /\ f.log = e.log /\ f.out = e.out /\ f.req = e.req
      /\ f.nextSn = e.nextSn /\ f.requests = e.requests
      /\ f.got = G /\ f.in = I /\ f.calls = C /\ f.deferred = e.deferred
      /\ f.lastSn = e.lastSn /\ f.lastResult = e.lastResult /\ f.responses = e.responses
  BY <1>0 DEF Socket
<1>2. SameSender(e, f)
  BY <1>1 DEF SameSender
<1>3. LinkOK(y, f)
  <2>1. LinkOK(y, e)
    BY DEF Good, Way
  <2>2. \A s \in Sids : f.in[s].epoch = e.in[s].epoch
    BY <1>1
  <2>3. /\ f.deferred = e.deferred
        /\ f.lastSn = e.lastSn /\ f.lastResult = e.lastResult /\ f.responses = e.responses
    BY <1>1
  <2> QED BY <2>1, <2>2, <2>3 DEF LinkOK
<1>4. RecvOK(y.log, y.out, f.got, f.in) /\ HeardOK(y.log, f.got, f.in, hp \o f.calls)
  BY <1>1
<1>5. f \in Socket
  BY <1>1
<1> QED BY <1>2, <1>3, <1>4, <1>5, ReceiverStep

\* A stream whose chunks have not all arrived has not been reset by the receiver
\* only.
LEMMA EpochIs ==
    ASSUME NEW y \in Socket, NEW e \in Socket, NEW h, NEW n, Way(y, e, h, n), NEW t \in Tsns(y.log), t \notin e.got
    PROVE  /\ y.log[t].sid \in Sids
           /\ y.log[t].epoch = e.in[y.log[t].sid].epoch
           /\ e.in[y.log[t].sid].epoch = y.out[y.log[t].sid].epoch
<1> DEFINE s == y.log[t].sid
<1>1. y.log \in Seq(Chunk) /\ y.log[t] \in Chunk
  BY SocketFields, SeqFacts
<1>2. s \in Sids /\ y.log[t].epoch \in Nat
  BY <1>1 DEF Chunk
<1>3. y.out[s].epoch \in Nat
  BY <1>2, SocketFields DEF OutgoingStream
<1>4. y.log[t].epoch = e.in[s].epoch
  BY DEF Way, RecvOK, HeldOK
<1>5. y.log[t].epoch <= y.out[s].epoch
  BY DEF Way, SendOK, CountOK
<1>6. e.in[s].epoch \in {y.out[s].epoch, y.out[s].epoch + 1}
  BY <1>2 DEF Way, LinkOK
<1> HIDE DEF s
<1>7. e.in[s].epoch = y.out[s].epoch
  BY <1>2, <1>3, <1>4, <1>5, <1>6
<1> QED BY <1>2, <1>4, <1>7 DEF s

LEMMA CallsConcat ==
    ASSUME NEW h \in Seq(Call), NEW q \in Seq(Call), NEW r \in Seq(Call)
    PROVE  (h \o q) \o r = h \o (q \o r)
BY ConcatAssociative

LEMMA OrderedGood ==
    ASSUME NEW e, NEW y \in Socket, NEW hp \in Seq(Call), NEW hq, NEW np, NEW nq,
           Good(e, y, hp, hq, np, nq), NEW t \in Tsns(y.log), t \notin e.got, Ordered(y.log, t)
    PROVE  Good(AddOrdered([e EXCEPT !.got = @ \cup {t}], y.log, t), y, hp, hq, np, nq)
<1> DEFINE L == y.log
           s == L[t].sid
           next == e.in[s].ssn
           H == e.in[s].ordered \cup {t}
           R == Run(L, H, next)
           q == [i \in 1..Cardinality(R) |-> OnMessageReceived(L, Min(OfNumber(L, H, next + i - 1)))]
           K == {u \in H : L[u].ssn \notin R}
           G == e.got \cup {t}
           f == AddOrdered([e EXCEPT !.got = @ \cup {t}], y.log, t)
<1>0. e \in Socket /\ Way(y, e, hp \o e.calls, nq) /\ SendOK(L, y.out, nq) /\ LogOK(L) /\ RecvOK(L, y.out, e.got, e.in)
  BY DEF Good, Way, SendOK
<1>1. /\ L \in Seq(Chunk) /\ y.out \in [Sids -> OutgoingStream] /\ e.in \in [Sids -> IncomingStream]
      /\ e.got \in SUBSET Nat /\ e.calls \in Seq(Call)
  BY <1>0, SocketFields
<1>2. s \in Sids /\ L[t].epoch = e.in[s].epoch /\ e.in[s].epoch = y.out[s].epoch
  BY <1>0, EpochIs
<1>3. next \in Nat /\ e.in[s].ordered \in SUBSET Nat /\ e.in[s] \in IncomingStream
  BY <1>1, <1>2 DEF IncomingStream
<1>4. y.out[s].ssn \in Nat
  BY <1>1, <1>2, StreamFacts
<1>5. \A u \in H : u \in Tsns(L) /\ L[u].ssn \in Nat /\ L[u].ssn <= y.out[s].ssn
  <2>1. \A c \in Chunk : c.ssn \in Nat
    BY DEF Chunk
  <2>2. \A u \in H : u \in Tsns(L) /\ L[u].sid = s /\ L[u].epoch = y.out[s].epoch /\ Ordered(L, u)
    BY <1>0, <1>2 DEF RecvOK, HeldOK
  <2>3. \A u \in H : L[u].ssn <= y.out[s].ssn
    BY <1>0, <2>2 DEF SendOK, CountOK
  <2> QED BY <1>1, <2>1, <2>2, <2>3, SeqFacts
<1>6. PICK m \in Nat :
             /\ m >= next /\ R = next..(m - 1)
             /\ Cardinality(R) = m - next
             /\ \A n \in next..(m - 1) : Whole(L, OfNumber(L, H, n))
             /\ ~Whole(L, OfNumber(L, H, m))
  <2> HIDE DEF H, next
  <2> QED BY <1>3, <1>4, <1>5, RunIs
<1>7. f = [e EXCEPT !.got = @ \cup {t}, !.in[s] = [e.in[s] EXCEPT !.ordered = K, !.ssn = next + Cardinality(R)], !.calls = @ \o q]
  <2>1. /\ [e EXCEPT !.got = @ \cup {t}].in = e.in /\ [e EXCEPT !.got = @ \cup {t}].calls = e.calls
    BY <1>0 DEF Socket
  <2>2. f = [[e EXCEPT !.got = @ \cup {t}] EXCEPT !.in[s] = [e.in[s] EXCEPT !.ordered = K, !.ssn = next + Cardinality(R)], !.calls = @ \o q]
    BY <2>1 DEF AddOrdered, Run, OfNumber
  <2> HIDE DEF f, K, R, q
  <2> QED BY <2>2 DEF Socket
<1> HIDE DEF f
<1> DEFINE I == [e.in EXCEPT ![s] = [e.in[s] EXCEPT !.ordered = K, !.ssn = m]]
<1>8. K \in SUBSET Nat
  <2>1. H \in SUBSET Nat
    BY <1>1, <1>3 DEF Tsns
  <2> QED BY <2>1
<1>9. next + Cardinality(R) = m /\ Cardinality(R) \in Nat
  <2> HIDE DEF next, R
  <2>1. next \in Nat /\ m \in Nat /\ m >= next /\ Cardinality(R) = m - next
    BY <1>3, <1>6
  <2> QED BY <2>1
<1>10. [e.in[s] EXCEPT !.ordered = K, !.ssn = m] \in IncomingStream
  <2> HIDE DEF K
  <2> QED BY <1>3, <1>6, <1>8 DEF IncomingStream
<1>11. I \in [Sids -> IncomingStream]
  <2> HIDE DEF K
  <2> QED BY <1>1, <1>10
<1>12. Ahead(L, e.got, e.in, t, s, H, m)
  BY <1>6 DEF Ahead
<1>13. /\ I[s].ordered = K /\ I[s].ssn = m /\ I[s].unordered = e.in[s].unordered /\ I[s].epoch = e.in[s].epoch
       /\ \A r \in Sids : r # s => I[r] = e.in[r]
  <2>1. I[s] = [e.in[s] EXCEPT !.ordered = K, !.ssn = m]
    BY <1>1, <1>2
  <2>2. \A r \in Sids : r # s => I[r] = e.in[r]
    BY <1>1, <1>2
  <2> HIDE DEF I, K
  <2> QED BY <1>3, <2>1, <2>2 DEF IncomingStream
<1>14. HandedOn(L, e.got, e.in, t, s, H, m, G, I)
  <2>1. K = {u \in H : L[u].ssn \notin next..(m - 1)}
    BY <1>6
  <2> HIDE DEF I, K, R
  <2> QED BY <1>13, <2>1 DEF HandedOn
<1>15. q \in Seq(Call) /\ Len(q) = m - next
  <2>1. Cardinality(R) \in Nat
    BY <1>9
  <2>2. ASSUME NEW i \in 1..Cardinality(R) PROVE OnMessageReceived(L, Min(OfNumber(L, H, next + i - 1))) \in Call
    <3>1. next + i - 1 \in next..(m - 1)
      <4> HIDE DEF next, R
      <4>1. next \in Nat /\ m \in Nat /\ next + Cardinality(R) = m /\ Cardinality(R) \in Nat
        BY <1>3, <1>9
      <4> QED BY <4>1
    <3>2. OfNumber(L, H, next + i - 1) # {} /\ OfNumber(L, H, next + i - 1) \subseteq Tsns(L)
      <4>1. Whole(L, OfNumber(L, H, next + i - 1))
        BY <1>6, <3>1
      <4> QED BY <1>5, <4>1 DEF Whole, OfNumber
    <3>3. \A C : C # {} /\ C \subseteq Tsns(L) => Min(C) \in Tsns(L)
      <4>1. Tsns(L) \subseteq Nat
        BY <1>1, SeqFacts DEF Tsns
      <4> QED BY <4>1, MinOf
    <3>4. \A u \in Tsns(L) : OnMessageReceived(L, u) \in Call
      <4> SUFFICES ASSUME NEW u \in Tsns(L) PROVE OnMessageReceived(L, u) \in Call
        OBVIOUS
      <4>1. L[u].sid \in Sids /\ L[u].m \in Message
        BY <1>1, SeqFacts DEF Chunk
      <4> QED BY <4>1 DEF OnMessageReceived, Call
    <3> QED BY <3>2, <3>3, <3>4
  <2> HIDE DEF R, next, H, L
  <2>3. q \in [1..Cardinality(R) -> Call]
    BY <2>2
  <2> HIDE DEF q
  <2>4. q \in Seq(Call)
    BY <2>1, <2>3, SeqDef
  <2>5. Len(q) \in Nat /\ DOMAIN q = 1..Len(q) /\ DOMAIN q = 1..Cardinality(R)
    BY <2>3, <2>4, LenProperties
  <2>6. Len(q) = Cardinality(R)
    BY <2>1, <2>5
  <2> QED BY <1>6, <2>4, <2>6
<1>16. \A i \in 1..Len(q) : q[i] = OnMessageReceived(L, Min(OfNumber(L, H, e.in[s].ssn + i - 1)))
  <2>1. Len(q) = Cardinality(R)
    BY <1>6, <1>15
  <2> QED BY <2>1
<1>17. f = [e EXCEPT !.got = G, !.in = I, !.calls = e.calls \o q]
  <2> DEFINE z == [e.in[s] EXCEPT !.ordered = K, !.ssn = m]
  <2>1. f = [e EXCEPT !.got = @ \cup {t}, !.in[s] = z, !.calls = @ \o q]
    BY <1>7, <1>9
  <2> HIDE DEF q, z, s, L
  <2>2. f = [e EXCEPT !.got = G, !.in = [e.in EXCEPT ![s] = z], !.calls = e.calls \o q]
    BY <1>0, <2>1 DEF Socket
  <2> QED BY <2>2 DEF z
<1> HIDE DEF q, I, K, H
<1>18. RecvOK(L, y.out, G, I)
  BY <1>0, <1>1, <1>2, <1>12, <1>14, OrderedRecv
<1>19. hp \o e.calls \in Seq(Call) /\ HeardOK(L, e.got, e.in, hp \o e.calls)
  BY <1>0, <1>1, ConcatProperties DEF Way
<1>20. HeardOK(L, G, I, (hp \o e.calls) \o q)
  <2> DEFINE h == hp \o e.calls
  <2>1. h \in Seq(Call) /\ HeardOK(L, e.got, e.in, h) /\ Len(q) = m - e.in[s].ssn
    BY <1>15, <1>19
  <2>2. SendOK(L, y.out, nq) /\ RecvOK(L, y.out, e.got, e.in)
    BY <1>0
  <2> HIDE DEF h, L, s, G
  <2>3. HeardOK(L, G, I, h \o q)
    <3>1. L \in Seq(Chunk) /\ y.out \in [Sids -> OutgoingStream] /\ e.in \in [Sids -> IncomingStream]
      BY <1>1
    <3>2. e.in[s].epoch = y.out[s].epoch
      BY <1>2
    <3>3. q \in Seq(Call)
      BY <1>15
    <3> DEFINE in == e.in
               out == y.out
    <3>4. /\ out \in [Sids -> OutgoingStream] /\ in \in [Sids -> IncomingStream]
          /\ SendOK(L, out, nq) /\ RecvOK(L, out, e.got, in) /\ in[s].epoch = out[s].epoch
          /\ HeardOK(L, e.got, in, h)
      BY <2>1, <2>2, <3>1, <3>2
    <3>5. Ahead(L, e.got, in, t, s, H, m) /\ HandedOn(L, e.got, in, t, s, H, m, G, I)
      BY <1>12, <1>14
    <3>6. Announced(L, H, in[s].ssn, m, q)
      BY <1>16, <2>1 DEF Announced
    <3> HIDE DEF R, next, in, out
    <3> QED BY <2>1, <3>1, <3>3, <3>4, <3>5, <3>6, OrderedHeard
  <2> QED BY <2>3 DEF h
<1>21. (hp \o e.calls) \o q = hp \o (e.calls \o q) /\ e.calls \o q \in Seq(Call)
  <2>1. e.calls \in Seq(Call) /\ q \in Seq(Call)
    BY <1>1, <1>15
  <2>2. e.calls \o q \in Seq(Call)
    BY <2>1, ConcatProperties
  <2>3. (hp \o e.calls) \o q = hp \o (e.calls \o q)
    BY <2>1, CallsConcat
  <2> QED BY <2>2, <2>3
<1>22. HeardOK(L, G, I, hp \o (e.calls \o q))
  BY <1>20, <1>21
<1>23. \A r \in Sids : I[r].epoch = e.in[r].epoch
  BY <1>13
<1>24. G \in SUBSET Nat
  BY <1>1, SeqFacts DEF Tsns
<1> HIDE DEF G, L
<1>25. RecvOK(y.log, y.out, G, I) /\ HeardOK(y.log, G, I, hp \o (e.calls \o q))
  BY <1>18, <1>22 DEF L
<1>26. Good(f, y, hp, hq, np, nq)
  BY <1>11, <1>17, <1>21, <1>23, <1>24, <1>25, DataGood
<1> QED BY <1>26 DEF f

\* No message is complete.
NoneWhole(L, U) ==
    \A b, d \in U : ~(b <= d /\ Span(L, b, d) /\ L[d].ends /\ b..d \subseteq U)

\* Unordered chunk t of stream s arrives: H is what is held then, and P is handed
\* on.
HandedOnUnordered(L, got, in, t, s, H, P, got2, in2) ==
    /\ t \in Tsns(L) /\ t \notin got /\ ~Ordered(L, t) /\ s = L[t].sid
    /\ H = in[s].unordered \cup {t} /\ P \subseteq H
    /\ P # {} => \E b, d \in Tsns(L) : b <= d /\ P = b..d /\ Span(L, b, d) /\ L[d].ends
    /\ NoneWhole(L, H \ P)
    /\ got2 = got \cup {t}
    /\ in2[s].unordered = H \ P
    /\ in2[s].ssn = in[s].ssn /\ in2[s].ordered = in[s].ordered /\ in2[s].epoch = in[s].epoch
    /\ \A r \in Sids : r # s => in2[r] = in[r]

LEMMA UnorderedFacts ==
    ASSUME NEW L \in Seq(Chunk), NEW out, NEW in, NEW got, NEW t, NEW s, NEW H, NEW P, NEW got2, NEW in2,
           RecvOK(L, out, got, in), HandedOnUnordered(L, got, in, t, s, H, P, got2, in2)
    PROVE  /\ s \in Sids /\ H \subseteq Tsns(L)
           /\ \A u \in H : /\ u \in got2 /\ L[u].sid = s /\ L[u].epoch = in[s].epoch /\ ~Ordered(L, u)
                           /\ ~Gone(L, got, in, u)
           /\ \A u \in Tsns(L) : Gone(L, got2, in2, u) <=> Gone(L, got, in, u) \/ u \in P
<1>1. /\ t \in Tsns(L) /\ t \notin got /\ ~Ordered(L, t) /\ s = L[t].sid
      /\ H = in[s].unordered \cup {t} /\ P \subseteq H /\ got2 = got \cup {t}
      /\ in2[s].unordered = H \ P /\ in2[s].ordered = in[s].ordered
      /\ \A r \in Sids : r # s => in2[r] = in[r]
  BY DEF HandedOnUnordered
<1>2. s \in Sids /\ \A u \in Tsns(L) : L[u].sid \in Sids
  BY <1>1, SeqFacts DEF Chunk
<1>3. ASSUME NEW u \in H
      PROVE  /\ u \in Tsns(L) /\ u \in got2 /\ L[u].sid = s /\ L[u].epoch = in[s].epoch /\ ~Ordered(L, u)
             /\ ~Gone(L, got, in, u)
  <2>1. CASE u = t
    <3>1. L[t].epoch = in[s].epoch
      BY <1>1 DEF RecvOK, HeldOK
    <3> QED BY <1>1, <2>1, <3>1 DEF Gone
  <2>2. CASE u \in in[s].unordered
    <3>1. u \in got /\ L[u].sid = s /\ L[u].epoch = in[s].epoch /\ ~Ordered(L, u) /\ u \in Tsns(L)
      BY <1>2, <2>2 DEF RecvOK, HeldOK
    <3> QED BY <1>1, <2>2, <3>1 DEF Gone, Held
  <2> QED BY <1>1, <2>1, <2>2
<1>4. ASSUME NEW u \in Tsns(L)
      PROVE  Gone(L, got2, in2, u) <=> Gone(L, got, in, u) \/ u \in P
  <2>1. CASE L[u].sid # s
    <3>1. u # t /\ u \notin H /\ in2[L[u].sid] = in[L[u].sid]
      BY <1>1, <1>2, <1>3, <2>1
    <3> QED BY <1>1, <3>1 DEF Gone, Held
  <2>2. CASE L[u].sid = s /\ u \in H
    <3>1. u \notin in[s].ordered
      BY <1>2, <1>3, <2>2 DEF RecvOK, HeldOK
    <3>2. Gone(L, got2, in2, u) <=> u \in P
      BY <1>1, <1>3, <2>2, <3>1 DEF Gone, Held
    <3> QED BY <1>3, <2>2, <3>2
  <2>3. CASE L[u].sid = s /\ u \notin H
    BY <1>1, <2>3 DEF Gone, Held
  <2> QED BY <2>1, <2>2, <2>3
<1> QED BY <1>2, <1>3, <1>4

LEMMA UnorderedRecv ==
    ASSUME NEW L \in Seq(Chunk), NEW out, NEW in, NEW got, NEW t, NEW s, NEW H, NEW P, NEW got2, NEW in2,
           RecvOK(L, out, got, in), HandedOnUnordered(L, got, in, t, s, H, P, got2, in2)
    PROVE  RecvOK(L, out, got2, in2)
<1>1. /\ t \in Tsns(L) /\ t \notin got /\ ~Ordered(L, t) /\ s = L[t].sid
      /\ H = in[s].unordered \cup {t} /\ P \subseteq H /\ got2 = got \cup {t}
      /\ in2[s].unordered = H \ P
      /\ in2[s].ssn = in[s].ssn /\ in2[s].ordered = in[s].ordered /\ in2[s].epoch = in[s].epoch
      /\ \A r \in Sids : r # s => in2[r] = in[r]
  BY DEF HandedOnUnordered
<1>2. /\ s \in Sids /\ H \subseteq Tsns(L)
      /\ \A u \in H : u \in got2 /\ L[u].sid = s /\ L[u].epoch = in[s].epoch /\ ~Ordered(L, u)
      /\ \A u \in Tsns(L) : Gone(L, got2, in2, u) <=> Gone(L, got, in, u) \/ u \in P
  BY UnorderedFacts
<1>3. \A u \in Tsns(L) : L[u].sid \in Sids /\ u \in Nat /\ u >= 1 /\ u <= Len(L)
  <2>1. \A c \in Chunk : c.sid \in Sids
    BY DEF Chunk
  <2>2. \A u \in Tsns(L) : u \in Nat /\ u >= 1 /\ u <= Len(L)
    BY SeqFacts DEF Tsns
  <2> QED BY <2>1, <2>2, SeqFacts
<1>4. HeldOK(L, got2, in2)
  <2>1. got2 \subseteq Tsns(L)
    BY <1>1 DEF RecvOK, HeldOK
  <2>2. ASSUME NEW r \in Sids
        PROVE  /\ \A u \in in2[r].ordered :
                    u \in got2 /\ L[u].sid = r /\ L[u].epoch = in2[r].epoch /\ Ordered(L, u)
               /\ \A u \in in2[r].unordered :
                    u \in got2 /\ L[u].sid = r /\ L[u].epoch = in2[r].epoch /\ ~Ordered(L, u)
    <3>1. CASE r # s
      BY <1>1, <3>1 DEF RecvOK, HeldOK
    <3>2. CASE r = s
      <4>1. \A u \in in2[s].ordered :
                    u \in got2 /\ L[u].sid = s /\ L[u].epoch = in2[s].epoch /\ Ordered(L, u)
        BY <1>1, <1>2 DEF RecvOK, HeldOK
      <4>2. \A u \in in2[s].unordered :
                    u \in got2 /\ L[u].sid = s /\ L[u].epoch = in2[s].epoch /\ ~Ordered(L, u)
        BY <1>1, <1>2
      <4> QED BY <3>2, <4>1, <4>2
    <3> QED BY <3>1, <3>2
  <2>3. ASSUME NEW u \in Tsns(L), u \notin got2 PROVE L[u].epoch = in2[L[u].sid].epoch
    <3>1. L[u].epoch = in[L[u].sid].epoch
      BY <1>1, <2>3 DEF RecvOK, HeldOK
    <3> QED BY <1>1, <1>3, <3>1
  <2> QED BY <2>1, <2>2, <2>3 DEF HeldOK
<1>5. WholeOK(L, got2, in2)
  <2> SUFFICES ASSUME NEW u \in Tsns(L), Gone(L, got2, in2, u)
               PROVE  \E b \in 1..u, d \in u..Len(L) :
                        Span(L, b, d) /\ L[d].ends /\ \A k \in b..d : Gone(L, got2, in2, k)
    BY DEF WholeOK
  <2>1. CASE Gone(L, got, in, u)
    <3>1. PICK b \in 1..u, d \in u..Len(L) :
                Span(L, b, d) /\ L[d].ends /\ \A k \in b..d : Gone(L, got, in, k)
      BY <2>1 DEF RecvOK, WholeOK
    <3>2. \A k \in b..d : k \in Tsns(L)
      BY <1>3 DEF Tsns
    <3> QED BY <1>2, <3>1, <3>2
  <2>2. CASE u \in P
    <3>1. PICK b \in Tsns(L), d \in Tsns(L) : b <= d /\ P = b..d /\ Span(L, b, d) /\ L[d].ends
      BY <2>2 DEF HandedOnUnordered
    <3>2. b \in 1..u /\ d \in u..Len(L)
      BY <1>3, <2>2, <3>1
    <3>3. \A k \in b..d : Gone(L, got2, in2, k)
      BY <1>1, <1>2, <3>1
    <3> QED BY <3>1, <3>2, <3>3
  <2> QED BY <1>2, <2>1, <2>2
<1>6. NextOK(L, out, got2, in2)
  <2>1. ASSUME NEW u \in Tsns(L), Ordered(L, u), L[u].epoch = in2[L[u].sid].epoch
        PROVE  Gone(L, got2, in2, u) <=> L[u].ssn < in2[L[u].sid].ssn
    <3>1. L[u].epoch = in[L[u].sid].epoch /\ in2[L[u].sid].ssn = in[L[u].sid].ssn
      BY <1>1, <1>3, <2>1
    <3>2. Gone(L, got, in, u) <=> L[u].ssn < in[L[u].sid].ssn
      BY <2>1, <3>1 DEF RecvOK, NextOK
    <3>3. u \notin P
      BY <1>1, <1>2, <2>1
    <3> QED BY <1>2, <3>1, <3>2, <3>3
  <2>2. ASSUME NEW r \in Sids
        PROVE  ~Whole(L, {u \in in2[r].ordered : L[u].ssn = in2[r].ssn})
    <3>1. in2[r].ordered = in[r].ordered /\ in2[r].ssn = in[r].ssn
      BY <1>1
    <3> QED BY <3>1 DEF RecvOK, NextOK
  <2>3. ASSUME NEW r \in Sids
        PROVE  in2[r].ssn <= IF in2[r].epoch = out[r].epoch THEN out[r].ssn ELSE 0
    <3>1. in2[r].epoch = in[r].epoch /\ in2[r].ssn = in[r].ssn
      BY <1>1
    <3> QED BY <3>1 DEF RecvOK, NextOK
  <2>4. ASSUME NEW r \in Sids
        PROVE  \A b, d \in in2[r].unordered :
              ~(b <= d /\ Span(L, b, d) /\ L[d].ends /\ b..d \subseteq in2[r].unordered)
    <3>1. CASE r # s
      BY <1>1, <3>1 DEF RecvOK, NextOK
    <3>2. CASE r = s
      BY <1>1, <3>2 DEF HandedOnUnordered, NoneWhole
    <3> QED BY <3>1, <3>2
  <2> QED BY <2>1, <2>2, <2>3, <2>4 DEF NextOK
<1> QED BY <1>4, <1>5, <1>6 DEF RecvOK

LEMMA UnorderedHeard ==
    ASSUME NEW L \in Seq(Chunk), NEW out, NEW in, NEW got, NEW t, NEW s, NEW H, NEW P, NEW got2, NEW in2,
           LogOK(L), RecvOK(L, out, got, in), HandedOnUnordered(L, got, in, t, s, H, P, got2, in2),
           NEW h \in Seq(Call), HeardOK(L, got, in, h)
    PROVE  /\ P = {} => HeardOK(L, got2, in2, h)
           /\ t \in P => HeardOK(L, got2, in2, Append(h, OnMessageReceived(L, t)))
<1>1. /\ s \in Sids /\ H \subseteq Tsns(L)
      /\ \A u \in H : L[u].sid = s /\ ~Ordered(L, u) /\ ~Gone(L, got, in, u)
      /\ \A u \in Tsns(L) : Gone(L, got2, in2, u) <=> Gone(L, got, in, u) \/ u \in P
  BY UnorderedFacts
<1>2. P \subseteq H /\ t \in Tsns(L)
  BY DEF HandedOnUnordered
<1>3. ASSUME P = {} PROVE HeardOK(L, got2, in2, h)
  BY <1>1, <1>3 DEF HeardOK
<1>4. ASSUME t \in P PROVE HeardOK(L, got2, in2, Append(h, OnMessageReceived(L, t)))
  <2> DEFINE c == OnMessageReceived(L, t)
             q == <<c>>
  <2>1. c \in Call
    <3>1. L[t].sid \in Sids /\ L[t].m \in Message
      BY <1>2, SeqFacts DEF Chunk
    <3> QED BY <3>1 DEF OnMessageReceived, Call
  <2>2. PICK b \in Tsns(L), d \in Tsns(L) : b <= d /\ P = b..d /\ Span(L, b, d) /\ L[d].ends
    BY <1>4 DEF HandedOnUnordered
  <2>3. \A u \in P : OnMessageReceived(L, u) = c
    <3>1. \A u \in P : L[u].m = L[t].m /\ L[u].sid = L[t].sid
      BY <1>4, <2>2 DEF Span
    <3> QED BY <3>1 DEF OnMessageReceived
  <2> HIDE DEF c
  <2>4. q \in Seq(Call) /\ Len(q) = 1 /\ q[1] = c /\ \A i \in 1..Len(q) : i = 1
    BY <2>1
  <2> HIDE DEF q
  <2>5. \A i \in 1..Len(q) : \E u \in Tsns(L) :
             ~Gone(L, got, in, u) /\ Gone(L, got2, in2, u) /\ q[i] = OnMessageReceived(L, u)
    BY <1>1, <1>2, <1>4, <2>3, <2>4
  <2>6. \A u \in Tsns(L) : Gone(L, got2, in2, u) /\ ~Gone(L, got, in, u) =>
             \E i \in 1..Len(q) : q[i] = OnMessageReceived(L, u)
    <3>1. 1 \in 1..Len(q)
      BY <2>4
    <3> QED BY <1>1, <2>3, <2>4, <3>1
  <2>7. \A i, j \in 1..Len(q) : i < j =>
             /\ q[i].m.id # q[j].m.id
             /\ q[i].sid = q[j].sid /\ ~q[i].m.unordered /\ ~q[j].m.unordered => q[i].m.id < q[j].m.id
    <3>1. \A i, j \in 1..Len(q) : ~(i < j)
      BY <2>4
    <3> QED BY <3>1
  <2>8. \A v, w \in Tsns(L) : Gone(L, got, in, v) /\ ~Gone(L, got, in, w) /\ Gone(L, got2, in2, w) =>
             /\ L[v].m.id # L[w].m.id
             /\ L[v].sid = L[w].sid /\ ~L[v].m.unordered /\ ~L[w].m.unordered => L[v].m.id < L[w].m.id
    <3> SUFFICES ASSUME NEW v \in Tsns(L), NEW w \in Tsns(L), Gone(L, got, in, v), ~Gone(L, got, in, w),
                        Gone(L, got2, in2, w)
                 PROVE  L[v].m.id # L[w].m.id /\ L[w].m.unordered
      OBVIOUS
    <3>1. L[v].m.id # L[w].m.id
      BY GoneDiffers
    <3>2. L[w].m.unordered
      BY <1>1, <1>2 DEF Ordered
    <3> QED BY <3>1, <3>2
  <2>9. \A u \in Tsns(L) : Gone(L, got, in, u) => Gone(L, got2, in2, u)
    BY <1>1
  <2>10. HeardOK(L, got2, in2, h \o q)
    BY <2>4, <2>5, <2>6, <2>7, <2>8, <2>9, HeardConcat
  <2>11. h \o q = Append(h, c)
    BY <2>1, AppendIsConcat DEF q
  <2> QED BY <2>10, <2>11 DEF c
<1> QED BY <1>3, <1>4

\* What FindBeginning and FindEnd find.
Part(L, H, t) == {u \in H : t..u \cup u..t \subseteq H /\ Joined(L, t, u)}

\* P is a message if it is complete, and nothing else of H is complete.
PartOK(L, H, P) ==
    /\ P \subseteq H
    /\ Whole(L, P) =>
         /\ \E b, d \in Tsns(L) : b <= d /\ P = b..d /\ Span(L, b, d) /\ L[d].ends
         /\ NoneWhole(L, H \ P)
    /\ ~Whole(L, P) => NoneWhole(L, H)

\* The chunks that FindBeginning and FindEnd find are the message of chunk t if
\* all of it is held, and nothing else is complete then.
LEMMA PartIs ==
    ASSUME NEW L \in Seq(Chunk), SpansOK(L), NEW U, NEW t \in Tsns(L), NEW H, H = U \cup {t}, H \subseteq Tsns(L),
           NoneWhole(L, U)
    PROVE  t \in Part(L, H, t) /\ PartOK(L, H, Part(L, H, t))
<1> DEFINE P == Part(L, H, t)
<1>0. P = {u \in H : t..u \cup u..t \subseteq H /\ Joined(L, t, u)}
  BY DEF Part
<1> HIDE DEF P
<1>1. Len(L) \in Nat /\ \A u \in Tsns(L) : u \in Nat /\ u >= 1 /\ u <= Len(L)
  BY SeqFacts DEF Tsns
<1>2. t \in P
  <2>1. t..t \subseteq H
    BY <1>1
  <2>2. Joined(L, t, t)
    BY <1>1 DEF Joined
  <2> QED BY <1>0, <2>1, <2>2
<1>3. P \subseteq H /\ P \subseteq Tsns(L) /\ \A u \in P : Joined(L, t, u)
  BY <1>0
<1>4. \A b, d \in H : b <= d /\ b..d \subseteq H /\ t \notin b..d => b..d \subseteq U /\ b \in U /\ d \in U
  <2> SUFFICES ASSUME NEW b \in H, NEW d \in H, b <= d, b..d \subseteq H, t \notin b..d
               PROVE  b..d \subseteq U /\ b \in U /\ d \in U
    OBVIOUS
  <2>1. b \in b..d /\ d \in b..d
    BY <1>1
  <2>2. b..d \subseteq U
    OBVIOUS
  <2> QED BY <2>1, <2>2
<1>5. ASSUME Whole(L, P)
      PROVE  /\ \E b, d \in Tsns(L) : b <= d /\ P = b..d /\ Span(L, b, d) /\ L[d].ends
             /\ NoneWhole(L, H \ P)
  <2>1. \A u \in P : Joined(L, t, u) \/ Joined(L, u, t)
    BY <1>3
  <2>2. PICK b \in Tsns(L), d \in Tsns(L) :
             /\ b <= d /\ P = b..d /\ b = Min(P) /\ Span(L, b, d) /\ L[d].ends
             /\ \A u \in Tsns(L) : Joined(L, t, u) \/ Joined(L, u, t) => u \in P
    BY <1>2, <1>3, <1>5, <2>1, WholeMessage
  <2>3. ASSUME NEW b1 \in H \ P, NEW d1 \in H \ P, b1 <= d1, Span(L, b1, d1), L[d1].ends, b1..d1 \subseteq H \ P
        PROVE  FALSE
    <3>1. b1..d1 \subseteq H /\ t \notin b1..d1
      BY <1>2, <2>3
    <3>2. b1..d1 \subseteq U /\ b1 \in U /\ d1 \in U
      BY <1>4, <2>3, <3>1
    <3> QED BY <2>3, <3>2 DEF NoneWhole
  <2> QED BY <2>2, <2>3 DEF NoneWhole
<1>6. ASSUME NEW b \in H, NEW d \in H, b <= d, Span(L, b, d), L[d].ends, b..d \subseteq H
      PROVE  Whole(L, P)
  <2>1. t \in b..d
    BY <1>4, <1>6 DEF NoneWhole
  <2>2. b \in Nat /\ d \in Nat /\ b >= 1 /\ d <= Len(L) /\ L[b].begins
    BY <1>1, <1>6 DEF Span
  <2>3. \A u \in P : u \in b..d
    BY <1>1, <1>3, <1>6, <2>1, <2>2, JoinedSpan
  <2>4. \A u \in b..d : u \in P
    <3> SUFFICES ASSUME NEW u \in b..d PROVE u \in P
      OBVIOUS
    <3>1. t..u \cup u..t \subseteq b..d
      BY <2>1, <2>2
    <3>2. Joined(L, t, u)
      BY <1>6, <2>1, <2>2, SpanJoined
    <3>3. u \in H /\ t..u \cup u..t \subseteq H
      BY <1>6, <3>1
    <3> QED BY <1>0, <3>2, <3>3
  <2>5. P = b..d
    BY <2>3, <2>4
  <2>6. Whole(L, b..d)
    BY <1>6, <2>2, WholeInterval
  <2> QED BY <2>5, <2>6
<1> QED BY <1>2, <1>3, <1>5, <1>6 DEF NoneWhole, PartOK, P

LEMMA UnorderedGood ==
    ASSUME NEW e, NEW y \in Socket, NEW hp \in Seq(Call), NEW hq, NEW np, NEW nq,
           Good(e, y, hp, hq, np, nq), NEW t \in Tsns(y.log), t \notin e.got, ~Ordered(y.log, t)
    PROVE  Good(AddUnordered([e EXCEPT !.got = @ \cup {t}], y.log, t), y, hp, hq, np, nq)
<1> DEFINE L == y.log
           s == L[t].sid
           U == e.in[s].unordered
           H == e.in[s].unordered \cup {t}
           P == Part(L, H, t)
           c == OnMessageReceived(L, t)
           G == e.got \cup {t}
           f == AddUnordered([e EXCEPT !.got = @ \cup {t}], y.log, t)
           I(K) == [e.in EXCEPT ![s] = [e.in[s] EXCEPT !.unordered = K]]
<1>0. e \in Socket /\ Way(y, e, hp \o e.calls, nq) /\ LogOK(L) /\ RecvOK(L, y.out, e.got, e.in) /\ SpansOK(L)
  BY DEF Good, Way, SendOK, LogOK
<1>1. /\ L \in Seq(Chunk) /\ e.in \in [Sids -> IncomingStream]
      /\ e.got \in SUBSET Nat /\ e.calls \in Seq(Call)
  BY <1>0, SocketFields
<1>2. s \in Sids /\ e.in[s] \in IncomingStream
  BY <1>0, <1>1, EpochIs
<1>3. H \subseteq Tsns(L) /\ Tsns(L) \subseteq Nat /\ G \in SUBSET Nat
  <2>1. U \subseteq Tsns(L)
    BY <1>0, <1>2 DEF RecvOK, HeldOK
  <2>2. Tsns(L) \subseteq Nat
    BY <1>1, SeqFacts DEF Tsns
  <2> QED BY <1>1, <2>1, <2>2
<1>4. NoneWhole(L, U)
  BY <1>0, <1>2 DEF RecvOK, NextOK, NoneWhole
<1>5. /\ t \in P /\ P \subseteq H
      /\ Whole(L, P) =>
           /\ \E b, d \in Tsns(L) : b <= d /\ P = b..d /\ Span(L, b, d) /\ L[d].ends
           /\ NoneWhole(L, H \ P)
      /\ ~Whole(L, P) => NoneWhole(L, H)
  <2>1. t \in Tsns(L) /\ L \in Seq(Chunk) /\ SpansOK(L) /\ H \subseteq Tsns(L) /\ H = U \cup {t}
    BY <1>0, <1>1, <1>3
  <2> HIDE DEF H, L, U
  <2>2. t \in Part(L, H, t) /\ PartOK(L, H, Part(L, H, t))
    BY <1>4, <2>1, PartIs
  <2> QED BY <2>2 DEF PartOK
<1>6. ASSUME NEW K, K \subseteq H
      PROVE  /\ I(K) \in [Sids -> IncomingStream]
             /\ I(K)[s].unordered = K /\ I(K)[s].ssn = e.in[s].ssn /\ I(K)[s].ordered = e.in[s].ordered
             /\ I(K)[s].epoch = e.in[s].epoch
             /\ \A r \in Sids : r # s => I(K)[r] = e.in[r]
  <2> DEFINE z == [e.in[s] EXCEPT !.unordered = K]
  <2>1. K \in SUBSET Nat
    BY <1>3, <1>6
  <2>2. /\ z \in IncomingStream /\ z.unordered = K /\ z.ssn = e.in[s].ssn /\ z.ordered = e.in[s].ordered
        /\ z.epoch = e.in[s].epoch
    BY <1>2, <2>1 DEF IncomingStream
  <2> HIDE DEF z, s
  <2>3. I(K)[s] = z /\ I(K) \in [Sids -> IncomingStream] /\ \A r \in Sids : r # s => I(K)[r] = e.in[r]
    BY <1>1, <1>2, <2>2 DEF z
  <2> HIDE DEF I
  <2> QED BY <2>2, <2>3
<1>7. /\ [e EXCEPT !.got = @ \cup {t}].in = e.in /\ [e EXCEPT !.got = @ \cup {t}].calls = e.calls
  BY <1>0 DEF Socket
<1>8. f = IF Whole(L, P)
          THEN [[e EXCEPT !.got = @ \cup {t}] EXCEPT !.in[s].unordered = H \ P, !.calls = Append(@, c)]
          ELSE [[e EXCEPT !.got = @ \cup {t}] EXCEPT !.in[s].unordered = H]
  BY <1>7 DEF AddUnordered, Part
<1>9. hp \o e.calls \in Seq(Call) /\ HeardOK(L, e.got, e.in, hp \o e.calls)
  BY <1>0, <1>1, ConcatProperties DEF Way
<1>10. c \in Call
  <2>1. L[t].sid \in Sids /\ L[t].m \in Message
    BY <1>1, SeqFacts DEF Chunk
  <2> QED BY <2>1 DEF OnMessageReceived, Call
<1> HIDE DEF f, P, c
<1>11. CASE Whole(L, P)
  <2>1. HandedOnUnordered(L, e.got, e.in, t, s, H, P, G, I(H \ P))
    <3>1. H \ P \subseteq H
      OBVIOUS
    <3>2. /\ I(H \ P)[s].unordered = H \ P /\ I(H \ P)[s].ssn = e.in[s].ssn /\ I(H \ P)[s].ordered = e.in[s].ordered
          /\ I(H \ P)[s].epoch = e.in[s].epoch
          /\ \A r \in Sids : r # s => I(H \ P)[r] = e.in[r]
      BY <1>6, <3>1
    <3> HIDE DEF I
    <3> QED BY <1>5, <1>11, <3>2 DEF HandedOnUnordered
  <2>2. I(H \ P) \in [Sids -> IncomingStream] /\ \A r \in Sids : I(H \ P)[r].epoch = e.in[r].epoch
    BY <1>6
  <2>3. f = [e EXCEPT !.got = G, !.in = I(H \ P), !.calls = Append(e.calls, c)]
    <3>1. f = [[e EXCEPT !.got = @ \cup {t}] EXCEPT !.in[s].unordered = H \ P, !.calls = Append(@, c)]
      BY <1>8, <1>11
    <3> DEFINE K == H \ P
    <3>2. f = [[e EXCEPT !.got = @ \cup {t}] EXCEPT !.in[s].unordered = K, !.calls = Append(@, c)]
      BY <3>1
    <3> HIDE DEF K, s, L
    <3>3. f = [e EXCEPT !.got = G, !.in = I(K), !.calls = Append(e.calls, c)]
      BY <1>0, <3>2 DEF Socket
    <3> QED BY <3>3 DEF K
  <2>4. RecvOK(L, y.out, G, I(H \ P))
    BY <1>0, <1>1, <2>1, UnorderedRecv
  <2>5. HeardOK(L, G, I(H \ P), Append(hp \o e.calls, c))
    <3> DEFINE h == hp \o e.calls
               in2 == I(H \ P)
    <3>1. h \in Seq(Call) /\ HeardOK(L, e.got, e.in, h) /\ LogOK(L) /\ RecvOK(L, y.out, e.got, e.in)
      BY <1>0, <1>9
    <3>2. HandedOnUnordered(L, e.got, e.in, t, s, H, P, G, in2) /\ t \in P
      BY <1>5, <2>1
    <3> HIDE DEF h, L, s, G, in2, H
    <3>3. HeardOK(L, G, in2, Append(h, OnMessageReceived(L, t)))
      BY <1>1, <3>1, <3>2, UnorderedHeard
    <3> QED BY <3>3 DEF h, in2, c
  <2>6. hp \o Append(e.calls, c) = Append(hp \o e.calls, c) /\ Append(e.calls, c) \in Seq(Call)
    BY <1>1, <1>10, ConcatAppend, AppendProperties
  <2> DEFINE J == I(H \ P)
             C == Append(e.calls, c)
  <2>7. /\ J \in [Sids -> IncomingStream] /\ (\A r \in Sids : J[r].epoch = e.in[r].epoch)
        /\ f = [e EXCEPT !.got = G, !.in = J, !.calls = C]
        /\ RecvOK(y.log, y.out, G, J) /\ HeardOK(y.log, G, J, hp \o C) /\ C \in Seq(Call) /\ G \in SUBSET Nat
    BY <1>3, <2>2, <2>3, <2>4, <2>5, <2>6
  <2> HIDE DEF J, C, G
  <2>8. Good(f, y, hp, hq, np, nq)
    BY <2>7, DataGood
  <2> QED BY <2>8 DEF f
<1>12. CASE ~Whole(L, P)
  <2>1. HandedOnUnordered(L, e.got, e.in, t, s, H, {}, G, I(H))
    <3>2. /\ I(H)[s].unordered = H /\ I(H)[s].ssn = e.in[s].ssn /\ I(H)[s].ordered = e.in[s].ordered
          /\ I(H)[s].epoch = e.in[s].epoch
          /\ \A r \in Sids : r # s => I(H)[r] = e.in[r]
      BY <1>6
    <3>3. H \ {} = H
      OBVIOUS
    <3> HIDE DEF I
    <3> QED BY <1>5, <1>12, <3>2, <3>3 DEF HandedOnUnordered
  <2>2. I(H) \in [Sids -> IncomingStream] /\ \A r \in Sids : I(H)[r].epoch = e.in[r].epoch
    BY <1>6
  <2>3. f = [e EXCEPT !.got = G, !.in = I(H), !.calls = e.calls]
    <3>1. f = [[e EXCEPT !.got = @ \cup {t}] EXCEPT !.in[s].unordered = H]
      BY <1>8, <1>12
    <3> HIDE DEF H, s, L
    <3> QED BY <1>0, <3>1 DEF Socket
  <2>4. RecvOK(L, y.out, G, I(H))
    BY <1>0, <1>1, <2>1, UnorderedRecv
  <2>5. HeardOK(L, G, I(H), hp \o e.calls)
    <3> DEFINE h == hp \o e.calls
               in2 == I(H)
    <3>1. h \in Seq(Call) /\ HeardOK(L, e.got, e.in, h) /\ LogOK(L) /\ RecvOK(L, y.out, e.got, e.in)
      BY <1>0, <1>9
    <3>2. HandedOnUnordered(L, e.got, e.in, t, s, H, {}, G, in2)
      BY <2>1
    <3> HIDE DEF h, L, s, G, in2, H
    <3>3. HeardOK(L, G, in2, h)
      BY <1>1, <3>1, <3>2, UnorderedHeard
    <3> QED BY <3>3 DEF h, in2
  <2> DEFINE J == I(H)
  <2>7. /\ J \in [Sids -> IncomingStream] /\ (\A r \in Sids : J[r].epoch = e.in[r].epoch)
        /\ f = [e EXCEPT !.got = G, !.in = J, !.calls = e.calls]
        /\ RecvOK(y.log, y.out, G, J) /\ HeardOK(y.log, G, J, hp \o e.calls) /\ e.calls \in Seq(Call)
        /\ G \in SUBSET Nat
    BY <1>1, <1>3, <2>2, <2>3, <2>4, <2>5
  <2> HIDE DEF J, G
  <2>8. Good(f, y, hp, hq, np, nq)
    BY <2>7, DataGood
  <2> QED BY <2>8 DEF f
<1> QED BY <1>11, <1>12 DEF f

\* No data of a stream that is being reset comes after the last TSN of the request:
\* a dcSCTP socket never has to keep data back.
LEMMA HandleDataGood ==
    ASSUME NEW e, NEW y \in Socket, NEW hp \in Seq(Call), NEW hq, NEW np, NEW nq,
           Good(e, y, hp, hq, np, nq), NEW t \in Tsns(y.log), t \notin e.got
    PROVE  Good(HandleData(e, y.log, t), y, hp, hq, np, nq)
<1> DEFINE g == [e EXCEPT !.got = @ \cup {t}]
<1>0. e \in Socket /\ Way(y, e, hp \o e.calls, nq)
  BY DEF Good
<1>1. g.deferred = e.deferred
  BY <1>0 DEF Socket
<1>2. ~(g.deferred # NotDeferred /\ t > g.deferred.last /\ y.log[t].sid \in g.deferred.streams)
  <2> SUFFICES ASSUME e.deferred # NotDeferred, t > e.deferred.last, y.log[t].sid \in e.deferred.streams
               PROVE  FALSE
    BY <1>1
  <2>1. e.deferred.streams = y.req.streams /\ e.deferred.last = y.req.last
    BY <1>0 DEF Way, LinkOK
  <2>2. t <= y.req.last
    BY <1>0, <2>1 DEF Way, ReqOK
  <2>3. y.req.last \in Nat /\ t \in Nat
    BY SocketFields, SeqFacts DEF Request, Tsns
  <2> QED BY <2>1, <2>2, <2>3
<1>3. HandleData(e, y.log, t) = IF y.log[t].m.unordered THEN AddUnordered(g, y.log, t) ELSE AddOrdered(g, y.log, t)
  BY <1>2 DEF HandleData, AddChunk
<1>4. CASE Ordered(y.log, t)
  BY <1>3, <1>4, OrderedGood DEF Ordered
<1>5. CASE ~Ordered(y.log, t)
  BY <1>3, <1>5, UnorderedGood DEF Ordered
<1> QED BY <1>4, <1>5

-----------------------------------------------------------------------------
(* A stream is empty *)

\* A chunk that was handed on was handed on with the rest of its message.
LEMMA GoneMessage ==
    ASSUME NEW L \in Seq(Chunk), NEW got, NEW in, SpansOK(L), WholeOK(L, got, in),
           NEW t \in Tsns(L), NEW u \in Tsns(L), Gone(L, got, in, t), Joined(L, t, u) \/ Joined(L, u, t)
    PROVE  Gone(L, got, in, u)
<1>1. Len(L) \in Nat /\ t \in Nat /\ t >= 1 /\ t <= Len(L)
  BY SeqFacts DEF Tsns
<1>2. PICK b \in 1..t, d \in t..Len(L) :
            Span(L, b, d) /\ L[d].ends /\ \A k \in b..d : Gone(L, got, in, k)
  BY DEF WholeOK
<1>3. b \in Nat /\ d \in Nat /\ b >= 1 /\ d <= Len(L) /\ t \in b..d
  BY <1>1
<1>4. u \in b..d
  BY <1>1, <1>2, <1>3, JoinedSpan
<1> QED BY <1>2, <1>4

\* Nothing of a stream is held when all its chunks have arrived and no message of
\* it is partly sent.
LEMMA NothingHeld ==
    ASSUME NEW L \in Seq(Chunk), NEW out, NEW got, NEW in \in [Sids -> IncomingStream],
           LogOK(L), TailOK(L, out), RecvOK(L, out, got, in), NEW s \in Sids,
           \A t \in Tsns(L) : L[t].sid = s => t \in got, ~(out[s].sent > 0)
    PROVE  in[s].ordered = {} /\ in[s].unordered = {}
<1>0. SpansOK(L) /\ Len(L) \in Nat /\ HeldOK(L, got, in) /\ WholeOK(L, got, in) /\ NextOK(L, out, got, in)
  BY SeqFacts DEF LogOK, RecvOK
<1>1. \A t \in Tsns(L) : t \in Nat /\ t >= 1 /\ t <= Len(L) /\ L[t].ssn \in Nat
  <2>1. \A c \in Chunk : c.ssn \in Nat
    BY DEF Chunk
  <2>2. \A t \in Tsns(L) : t \in Nat /\ t >= 1 /\ t <= Len(L)
    BY <1>0 DEF Tsns
  <2> QED BY <2>1, <2>2, SeqFacts
<1>2. ASSUME NEW w \in Tsns(L), L[w].sid = s
      PROVE  \E b, d \in Tsns(L) : /\ b <= d /\ w \in b..d /\ Span(L, b, d) /\ L[d].ends
                                   /\ b..d \subseteq Tsns(L) /\ \A k \in b..d : L[k].sid = s /\ k \in got
  <2>1. PICK b \in 1..w, d \in w..Len(L) :
              /\ b \in Nat /\ d \in Nat /\ b <= w /\ w <= d /\ b..d \subseteq Tsns(L)
              /\ Span(L, b, d) /\ (L[d].ends \/ d = Len(L))
    BY <1>0, MessageSpan
  <2>2. b \in b..d /\ d \in b..d /\ w \in b..d /\ b <= d
    BY <1>1, <2>1
  <2>3. \A k \in b..d : L[k].sid = s /\ k \in got
    BY <1>2, <2>1, <2>2 DEF Span
  <2>4. L[d].ends
    <3> SUFFICES ASSUME d = Len(L) PROVE L[d].ends
      BY <2>1
    <3>1. Len(L) > 0 /\ L[Len(L)].sid = s
      BY <1>1, <2>1, <2>2, <2>3
    <3> QED BY <3>1 DEF TailOK
  <2> QED BY <2>1, <2>2, <2>3, <2>4
<1>3. ASSUME NEW u \in in[s].unordered PROVE FALSE
  <2>1. u \in Tsns(L) /\ L[u].sid = s /\ ~Ordered(L, u) /\ ~Gone(L, got, in, u)
    BY <1>0 DEF HeldOK, Gone, Held
  <2>2. PICK b \in Tsns(L), d \in Tsns(L) :
                /\ b <= d /\ u \in b..d /\ Span(L, b, d) /\ L[d].ends
                /\ b..d \subseteq Tsns(L) /\ \A k \in b..d : L[k].sid = s /\ k \in got
    BY <1>2, <2>1
  <2>3. b \in Nat /\ d \in Nat /\ b \in b..d /\ d \in b..d
    BY <1>1, <2>2
  <2>4. ASSUME NEW k \in b..d PROVE k \in in[s].unordered
    <3>1. ~Gone(L, got, in, k)
      <4>1. Joined(L, k, u)
        BY <2>2, <2>3, SpanJoined
      <4> QED BY <1>0, <2>1, <2>2, <4>1, GoneMessage
    <3>2. L[k].m = L[u].m
      BY <2>2 DEF Span
    <3>3. k \in Held(in, s) /\ ~Ordered(L, k)
      BY <2>1, <2>2, <3>1, <3>2 DEF Gone, Ordered
    <3>4. k \notin in[s].ordered
      BY <1>0, <3>3 DEF HeldOK
    <3> QED BY <3>3, <3>4 DEF Held
  <2>5. b \in in[s].unordered /\ d \in in[s].unordered /\ b..d \subseteq in[s].unordered
    BY <2>3, <2>4
  <2> QED BY <1>0, <2>2, <2>5 DEF NextOK
<1>4. ASSUME NEW u \in in[s].ordered PROVE FALSE
  <2> DEFINE n == in[s].ssn
             k == in[s].epoch
  <2>1. u \in Tsns(L) /\ Numbered(L, u, s, k, L[u].ssn) /\ ~Gone(L, got, in, u)
    BY <1>0 DEF HeldOK, Gone, Held, Numbered
  <2>2. n \in Nat
    BY DEF IncomingStream
  <2>3. ~(L[u].ssn < n)
    BY <1>0, <2>1 DEF NextOK, Numbered
  <2> HIDE DEF n, k
  <2>4. PICK w \in Tsns(L) : Numbered(L, w, s, k, n)
    <3>1. CASE n = L[u].ssn
      BY <2>1, <3>1
    <3>2. CASE n < L[u].ssn
      <4>1. PICK w \in 1..u : Numbered(L, w, L[u].sid, L[u].epoch, n)
        BY <2>1, <2>2, <3>2 DEF LogOK, Numbered
      <4>2. w \in Tsns(L)
        BY <1>0, <1>1, <2>1 DEF Tsns
      <4> QED BY <2>1, <4>1, <4>2 DEF Numbered
    <3> QED BY <1>1, <2>1, <2>2, <2>3, <3>1, <3>2
  <2>5. PICK b \in Tsns(L), d \in Tsns(L) :
                /\ b <= d /\ w \in b..d /\ Span(L, b, d) /\ L[d].ends
                /\ b..d \subseteq Tsns(L) /\ \A i \in b..d : L[i].sid = s /\ i \in got
    BY <1>2, <2>4 DEF Numbered
  <2>6. b \in Nat /\ d \in Nat /\ b >= 1 /\ d <= Len(L) /\ L[b].begins
    BY <1>1, <2>5 DEF Span
  <2> DEFINE C == {i \in in[s].ordered : L[i].ssn = n}
  <2>7. ASSUME NEW i \in b..d PROVE i \in C
    <3>1. L[i].m = L[w].m /\ L[i].ssn = L[w].ssn /\ L[i].epoch = L[w].epoch
      BY <2>5 DEF Span
    <3>2. Numbered(L, i, s, k, n)
      BY <2>4, <2>5, <3>1 DEF Numbered, Ordered
    <3>3. ~(L[i].ssn < in[s].ssn)
      BY <2>2, <3>2 DEF Numbered, n
    <3>4. ~Gone(L, got, in, i)
      BY <1>0, <2>5, <3>2, <3>3 DEF NextOK, Numbered, k
    <3>5. i \in Held(in, s) /\ Ordered(L, i)
      BY <2>5, <3>2, <3>4 DEF Gone, Numbered
    <3>6. i \notin in[s].unordered
      BY <1>0, <3>5 DEF HeldOK
    <3> QED BY <3>2, <3>5, <3>6 DEF Held, Numbered
  <2>8. ASSUME NEW i \in C PROVE i \in b..d
    <3>1. i \in Tsns(L) /\ Numbered(L, i, s, k, n)
      BY <1>0 DEF HeldOK, Numbered, k
    <3>2. Joined(L, w, i) \/ Joined(L, i, w)
      BY <2>4, <3>1, NumberedJoined
    <3> QED BY <1>0, <2>5, <2>6, <3>1, <3>2, JoinedSpan
  <2>9. C = b..d
    <3> HIDE DEF C
    <3> QED BY <2>6, <2>7, <2>8
  <2>10. Whole(L, b..d)
    BY <2>5, <2>6, WholeInterval
  <2>11. ~Whole(L, C)
    BY <1>0 DEF NextOK, n
  <2> QED BY <2>9, <2>10, <2>11
<1> QED BY <1>3, <1>4

LEMMA CumAckFacts ==
    ASSUME NEW e, NEW L \in Seq(Chunk), e.got \subseteq Tsns(L)
    PROVE  CumAck(e) \in Nat /\ 1..CumAck(e) \subseteq e.got
<1> DEFINE S == {n \in 0..Cardinality(e.got) : 1..n \subseteq e.got}
<1>1. Cardinality(e.got) \in Nat
  BY SeqFacts, FiniteInterval DEF Tsns
<1>2. S \subseteq 0..Cardinality(e.got) /\ S # {}
  <2>1. 0 \in S
    BY <1>1
  <2> QED BY <2>1
<1>3. Max(S) \in S
  <2> HIDE DEF S
  <2> QED BY <1>1, <1>2, MaxOf
<1>4. CumAck(e) = Max(S)
  BY DEF CumAck
<1> QED BY <1>1, <1>3, <1>4

-----------------------------------------------------------------------------
(* A request arrives *)

\* These streams have no chunks under way and hold nothing.
Idle(L, out, got, in, streams) ==
    \A s \in streams : /\ in[s].ordered = {} /\ in[s].unordered = {} /\ in[s].epoch = out[s].epoch
                       /\ \A t \in Tsns(L) : L[t].sid = s => t \in got

\* These streams are reset.
IsReset(in, in2, streams) ==
    \A s \in Sids : /\ in2[s].ordered = in[s].ordered /\ in2[s].unordered = in[s].unordered
                    /\ s \in streams => in2[s].ssn = 0 /\ in2[s].epoch = in[s].epoch + 1
                    /\ s \notin streams => in2[s].ssn = in[s].ssn /\ in2[s].epoch = in[s].epoch

LEMMA ResetRecv ==
    ASSUME NEW L \in Seq(Chunk), NEW out \in [Sids -> OutgoingStream], NEW got,
           NEW in \in [Sids -> IncomingStream], NEW in2, NEW streams \in SUBSET Sids,
           CountOK(L, out), RecvOK(L, out, got, in),
           Idle(L, out, got, in, streams), IsReset(in, in2, streams)
    PROVE  /\ RecvOK(L, out, got, in2)
           /\ \A t \in Tsns(L) : Gone(L, got, in2, t) <=> Gone(L, got, in, t)
<1> USE DEF Idle, IsReset
<1>0. \A t \in Tsns(L) : L[t].sid \in Sids /\ L[t].epoch \in Nat /\ t \in Nat /\ t >= 1 /\ t <= Len(L)
  <2>1. \A c \in Chunk : c.sid \in Sids /\ c.epoch \in Nat
    BY DEF Chunk
  <2>2. \A t \in Tsns(L) : t \in Nat /\ t >= 1 /\ t <= Len(L)
    BY SeqFacts DEF Tsns
  <2> QED BY <2>1, <2>2, SeqFacts
<1>1. \A t \in Tsns(L) : Gone(L, got, in2, t) <=> Gone(L, got, in, t)
  BY <1>0 DEF Gone, Held
<1>2. \A s \in Sids : in[s].epoch \in Nat /\ out[s].epoch \in Nat
  BY DEF IncomingStream, OutgoingStream
<1>3. HeldOK(L, got, in2)
  <2>1. got \subseteq Tsns(L)
    BY DEF RecvOK, HeldOK
  <2>2. ASSUME NEW s \in Sids
        PROVE  /\ \A t \in in2[s].ordered :
                    t \in got /\ L[t].sid = s /\ L[t].epoch = in2[s].epoch /\ Ordered(L, t)
               /\ \A t \in in2[s].unordered :
                    t \in got /\ L[t].sid = s /\ L[t].epoch = in2[s].epoch /\ ~Ordered(L, t)
    <3>1. CASE s \in streams
      BY <3>1
    <3>2. CASE s \notin streams
      BY <3>2 DEF RecvOK, HeldOK
    <3> QED BY <3>1, <3>2
  <2>3. ASSUME NEW t \in Tsns(L), t \notin got PROVE L[t].epoch = in2[L[t].sid].epoch
    <3>1. L[t].sid \notin streams
      BY <2>3
    <3>2. L[t].epoch = in[L[t].sid].epoch
      BY <2>3 DEF RecvOK, HeldOK
    <3> QED BY <1>0, <3>1, <3>2
  <2> QED BY <2>1, <2>2, <2>3 DEF HeldOK
<1>4. WholeOK(L, got, in2)
  <2> SUFFICES ASSUME NEW t \in Tsns(L), Gone(L, got, in2, t)
               PROVE  \E b \in 1..t, d \in t..Len(L) :
                        Span(L, b, d) /\ L[d].ends /\ \A k \in b..d : Gone(L, got, in2, k)
    BY DEF WholeOK
  <2>1. PICK b \in 1..t, d \in t..Len(L) :
              Span(L, b, d) /\ L[d].ends /\ \A k \in b..d : Gone(L, got, in, k)
    BY <1>1 DEF RecvOK, WholeOK
  <2>2. \A k \in b..d : k \in Tsns(L)
    BY <1>0 DEF Tsns
  <2> QED BY <1>1, <2>1, <2>2
<1>5. NextOK(L, out, got, in2)
  <2>1. ASSUME NEW t \in Tsns(L), Ordered(L, t), L[t].epoch = in2[L[t].sid].epoch
        PROVE  Gone(L, got, in2, t) <=> L[t].ssn < in2[L[t].sid].ssn
    <3>1. L[t].sid \notin streams
      <4> SUFFICES ASSUME L[t].sid \in streams PROVE FALSE
        OBVIOUS
      <4>1. L[t].epoch = out[L[t].sid].epoch + 1
        BY <1>0, <2>1
      <4>2. L[t].epoch <= out[L[t].sid].epoch
        BY DEF CountOK
      <4> QED BY <1>0, <1>2, <4>1, <4>2
    <3>2. L[t].epoch = in[L[t].sid].epoch /\ in2[L[t].sid].ssn = in[L[t].sid].ssn
      BY <1>0, <2>1, <3>1
    <3>3. Gone(L, got, in, t) <=> L[t].ssn < in[L[t].sid].ssn
      BY <2>1, <3>2 DEF RecvOK, NextOK
    <3> QED BY <1>1, <3>2, <3>3
  <2>2. ASSUME NEW s \in Sids
        PROVE  /\ ~Whole(L, {u \in in2[s].ordered : L[u].ssn = in2[s].ssn})
               /\ in2[s].ssn <= IF in2[s].epoch = out[s].epoch THEN out[s].ssn ELSE 0
    <3>1. CASE s \in streams
      <4>1. {u \in in2[s].ordered : L[u].ssn = in2[s].ssn} = {}
        BY <3>1
      <4>2. ~Whole(L, {u \in in2[s].ordered : L[u].ssn = in2[s].ssn})
        BY <4>1 DEF Whole
      <4>3. in2[s].ssn = 0 /\ in2[s].epoch # out[s].epoch
        BY <1>2, <3>1
      <4> QED BY <4>2, <4>3
    <3>2. CASE s \notin streams
      <4>1. in2[s].ssn = in[s].ssn /\ in2[s].epoch = in[s].epoch /\ in2[s].ordered = in[s].ordered
        BY <3>2
      <4>2. /\ ~Whole(L, {u \in in[s].ordered : L[u].ssn = in[s].ssn})
            /\ in[s].ssn <= IF in[s].epoch = out[s].epoch THEN out[s].ssn ELSE 0
        BY DEF RecvOK, NextOK
      <4> QED BY <4>1, <4>2
    <3> QED BY <3>1, <3>2
  <2>3. ASSUME NEW s \in Sids
        PROVE  \A b, d \in in2[s].unordered :
              ~(b <= d /\ Span(L, b, d) /\ L[d].ends /\ b..d \subseteq in2[s].unordered)
    <3>1. in2[s].unordered = in[s].unordered
      OBVIOUS
    <3> QED BY <3>1 DEF RecvOK, NextOK
  <2> QED BY <2>1, <2>2, <2>3 DEF NextOK
<1> QED BY <1>1, <1>3, <1>4, <1>5 DEF RecvOK

\* The fields of a socket that has performed request r.
LEMMA PerformFields ==
    ASSUME NEW g \in Socket, NEW L, NEW r \in Request, g.deferred.tsns = <<>>
    PROVE  LET f == PerformReset(g, L, r) IN
           /\ f \in Socket /\ SameSender(g, f) /\ f.got = g.got /\ f.deferred = NotDeferred
           /\ f.lastSn = g.lastSn /\ f.lastResult = g.lastResult /\ f.responses = g.responses
           /\ \E c \in Call : ~IsMessage(c) /\ f.calls = Append(g.calls, c)
           /\ \A s \in Sids :
                /\ f.in[s].ordered = g.in[s].ordered /\ f.in[s].unordered = g.in[s].unordered
                /\ s \in r.streams => f.in[s].ssn = 0 /\ f.in[s].epoch = g.in[s].epoch + 1
                /\ s \notin r.streams => f.in[s].ssn = g.in[s].ssn /\ f.in[s].epoch = g.in[s].epoch
<1> DEFINE c == [call |-> "OnIncomingStreamsReset", streams |-> r.streams]
           d == [g EXCEPT !.calls = Append(@, c)]
           z(s) == [g.in[s] EXCEPT !.epoch = @ + 1, !.ssn = 0]
           J == [s \in Sids |-> IF s \in r.streams THEN z(s) ELSE g.in[s]]
           reset == [d EXCEPT !.in = J, !.deferred = NotDeferred]
           f == PerformReset(g, L, r)
<1>1. c \in Call /\ ~IsMessage(c)
  <2>1. r.streams \in SUBSET Sids
    BY DEF Request
  <2>2. c \in [call : {"OnIncomingStreamsReset", "OnStreamsResetPerformed"}, streams : SUBSET Sids]
    BY <2>1
  <2> QED BY <2>2 DEF Call, IsMessage
<1> HIDE DEF c
<1>2. d.in = g.in /\ d.deferred = g.deferred /\ Len(d.deferred.tsns) = 0
  BY DEF Socket
<1>3. f = reset
  <2> DEFINE Step(h, i) == IF i = 0 THEN reset ELSE AddChunk(h[i - 1], L, d.deferred.tsns[i])
             j == [i \in 0..0 |-> reset]
  <2>1. f = LET after[i \in 0..Len(d.deferred.tsns)] ==
                  IF i = 0 THEN reset ELSE AddChunk(after[i - 1], L, d.deferred.tsns[i])
            IN  after[Len(d.deferred.tsns)]
    BY <1>2 DEF PerformReset, ResetStreamsAndLeaveDeferredReset, c
  <2> HIDE DEF reset, d, f
  <2>2. j = [i \in 0..0 |-> Step(j, i)]
    OBVIOUS
  <2>3. PICK h : h = [i \in 0..0 |-> Step(h, i)] /\ f = h[0]
    BY <1>2, <2>1, <2>2
  <2>4. h[0] = Step(h, 0)
    BY <2>3
  <2> QED BY <2>3, <2>4
<1>4. g.in \in [Sids -> IncomingStream] /\ g.calls \in Seq(Call) /\ Append(g.calls, c) \in Seq(Call)
  BY <1>1, SocketFields, AppendProperties
<1>5. ASSUME NEW s \in Sids
      PROVE  /\ z(s) \in IncomingStream /\ z(s).ordered = g.in[s].ordered
             /\ z(s).unordered = g.in[s].unordered /\ z(s).ssn = 0 /\ z(s).epoch = g.in[s].epoch + 1
  <2>1. g.in[s] \in IncomingStream
    BY <1>4
  <2>2. g.in[s].epoch + 1 \in Nat
    BY <2>1 DEF IncomingStream
  <2>3. z(s) = [g.in[s] EXCEPT !.epoch = g.in[s].epoch + 1, !.ssn = 0]
    BY <2>1 DEF IncomingStream
  <2> QED BY <2>1, <2>2, <2>3 DEF IncomingStream
<1> HIDE DEF z
<1>6. J \in [Sids -> IncomingStream] /\ \A s \in Sids : J[s] = IF s \in r.streams THEN z(s) ELSE g.in[s]
  BY <1>4, <1>5
<1> HIDE DEF J
<1>7. NotDeferred \in [last : Nat, streams : SUBSET Sids, tsns : Seq(Nat)]
  BY DEF NotDeferred
<1>8. f = [g EXCEPT !.calls = Append(g.calls, c), !.in = J, !.deferred = NotDeferred]
  <2> HIDE DEF f
  <2> QED BY <1>3 DEF Socket
<1> HIDE DEF f
<1>9. /\ f \in Socket /\ f.log = g.log /\ f.out = g.out /\ f.req = g.req
      /\ f.nextSn = g.nextSn /\ f.requests = g.requests
      /\ f.got = g.got /\ f.in = J /\ f.calls = Append(g.calls, c) /\ f.deferred = NotDeferred
      /\ f.lastSn = g.lastSn /\ f.lastResult = g.lastResult /\ f.responses = g.responses
  BY <1>4, <1>6, <1>7, <1>8 DEF Socket
<1>10. SameSender(g, f)
  BY <1>9 DEF SameSender
<1>11. \A s \in Sids :
                /\ f.in[s].ordered = g.in[s].ordered /\ f.in[s].unordered = g.in[s].unordered
                /\ s \in r.streams => f.in[s].ssn = 0 /\ f.in[s].epoch = g.in[s].epoch + 1
                /\ s \notin r.streams => f.in[s].ssn = g.in[s].ssn /\ f.in[s].epoch = g.in[s].epoch
  BY <1>5, <1>6, <1>9
<1>12. \E k \in Call : ~IsMessage(k) /\ f.calls = Append(g.calls, k)
  BY <1>1, <1>9
<1> QED BY <1>9, <1>10, <1>11, <1>12 DEF f

LEMMA RespondFields ==
    ASSUME NEW g \in Socket, NEW r, r.sn \in Nat, NEW result \in Results
    PROVE  LET f == RespondTo(g, r, result)
               a == [sn |-> r.sn, result |-> result]
           IN  /\ f \in Socket /\ SameSender(g, f) /\ f.got = g.got /\ f.in = g.in /\ f.calls = g.calls
               /\ f.deferred = g.deferred /\ f.lastSn = g.lastSn /\ f.lastResult = g.lastResult
               /\ f.responses \subseteq g.responses \cup {a}
<1> DEFINE a == [sn |-> r.sn, result |-> result]
           q == InNetwork(g.responses, a)
           f == RespondTo(g, r, result)
<1>1. a \in Response /\ a.sn \in Nat
  BY DEF Response
<1>2. q \subseteq g.responses \cup {a}
  BY DEF InNetwork
<1>3. q \in SUBSET Response
  BY <1>1, <1>2, SocketFields
<1>4. f = [g EXCEPT !.responses = q]
  BY DEF RespondTo
<1> HIDE DEF q, a
<1>5. /\ f \in Socket /\ f.log = g.log /\ f.out = g.out /\ f.req = g.req
      /\ f.nextSn = g.nextSn /\ f.requests = g.requests
      /\ f.got = g.got /\ f.in = g.in /\ f.calls = g.calls /\ f.deferred = g.deferred
      /\ f.lastSn = g.lastSn /\ f.lastResult = g.lastResult /\ f.responses = q
  BY <1>3, <1>4 DEF Socket
<1> QED BY <1>2, <1>5 DEF SameSender, a, q

\* Streams that hold nothing are those of a request whose chunks have all arrived.
LEMMA RequestArrived ==
    ASSUME NEW e \in Socket, NEW y \in Socket, NEW h, NEW n, Way(y, e, h, n), ~(y.req.last > CumAck(e)),
           NEW s \in y.req.streams
    PROVE  /\ s \in Sids /\ e.in[s].ordered = {} /\ e.in[s].unordered = {}
           /\ \A t \in Tsns(y.log) : y.log[t].sid = s => t \in e.got
<1>1. /\ y.log \in Seq(Chunk) /\ e.in \in [Sids -> IncomingStream] /\ y.req \in Request
      /\ e.got \subseteq Tsns(y.log)
  BY SocketFields DEF Way, RecvOK, HeldOK
<1>2. s \in Sids /\ y.req.last \in Nat
  BY <1>1 DEF Request
<1>3. CumAck(e) \in Nat /\ 1..CumAck(e) \subseteq e.got
  BY <1>1, CumAckFacts
<1>4. ASSUME NEW t \in Tsns(y.log), y.log[t].sid = s PROVE t \in e.got
  <2>1. t <= y.req.last
    BY <1>4 DEF Way, ReqOK
  <2>2. t \in 1..CumAck(e)
    BY <1>1, <1>2, <1>3, <2>1, SeqFacts DEF Tsns
  <2> QED BY <1>3, <2>2
<1>5. y.out[s].pause = "Resetting"
  BY <1>2 DEF Way, ReqOK
<1>6. ~(y.out[s].sent > 0)
  BY <1>2, <1>5 DEF Way, SendOK, TailOK
<1>7. LogOK(y.log) /\ TailOK(y.log, y.out) /\ RecvOK(y.log, y.out, e.got, e.in)
  BY DEF Way, SendOK
<1> QED BY <1>1, <1>2, <1>4, <1>6, <1>7, NothingHeld

LEMMA RequestGood ==
    ASSUME NEW e, NEW y \in Socket, NEW hp \in Seq(Call), NEW hq, NEW np, NEW nq,
           Good(e, y, hp, hq, np, nq), NEW r \in y.requests
    PROVE  Good(HandleResetOutgoing(e, y.log, r), y, hp, hq, np, nq)
<1> DEFINE F == HandleResetOutgoing(e, y.log, r)
<1>0. e \in Socket /\ Way(y, e, hp \o e.calls, nq) /\ LinkOK(y, e) /\ ReqOK(y.log, y.out, y.req, y.nextSn, y.requests)
  BY DEF Good, Way
<1>1. /\ y.log \in Seq(Chunk) /\ y.out \in [Sids -> OutgoingStream] /\ e.in \in [Sids -> IncomingStream]
      /\ y.req \in Request /\ y.req.sn \in Nat /\ y.req.streams \in SUBSET Sids
      /\ y.nextSn \in Nat /\ e.lastSn \in Nat /\ e.lastResult \in Results
      /\ e.calls \in Seq(Call) /\ r \in Request /\ r.sn \in Nat
      /\ e.responses \subseteq Response
      /\ e.deferred \in [last : Nat, streams : SUBSET Sids, tsns : Seq(Nat)]
  BY <1>0, SocketFields DEF Request
<1>2. RecvOK(y.log, y.out, e.got, e.in) /\ HeardOK(y.log, e.got, e.in, hp \o e.calls)
  BY <1>0 DEF Way
<1>3. /\ e.lastSn = y.nextSn - 1 \/ (e.lastSn = y.nextSn - 2 /\ y.req.sn = y.nextSn - 1)
      /\ r.sn < y.nextSn /\ (y.req.sn # 0 /\ r.sn = y.req.sn => r = y.req)
      /\ y.req.sn \in {0, y.nextSn - 1}
  BY <1>0 DEF LinkOK, ReqOK
<1> HIDE DEF F
<1>4. CASE r.sn = e.lastSn
  <2> DEFINE a == [sn |-> r.sn, result |-> e.lastResult]
  <2>1. F = RespondTo(e, r, e.lastResult)
    BY <1>4 DEF HandleResetOutgoing, F
  <2>2. /\ F \in Socket /\ SameSender(e, F) /\ F.got = e.got /\ F.in = e.in /\ F.calls = e.calls
        /\ F.deferred = e.deferred /\ F.lastSn = e.lastSn /\ F.lastResult = e.lastResult
        /\ F.responses \subseteq e.responses \cup {a}
    <3>1. e \in Socket /\ r.sn \in Nat /\ e.lastResult \in Results
      BY <1>0, <1>1
    <3> QED BY <2>1, <3>1, RespondFields
  <2>3. LinkOK(y, F)
    <3>1. ASSUME NEW q \in F.responses
          PROVE  /\ q.sn < y.nextSn
                 /\ q.sn = y.req.sn /\ q.sn # 0 =>
                      /\ F.lastSn = q.sn /\ q.result # "ErrorBadSequenceNumber"
                      /\ q.result = "InProgress" <=> F.lastResult = "InProgress"
      <4>1. CASE q \in e.responses
        BY <1>0, <2>2, <4>1 DEF LinkOK
      <4>2. CASE q = a
        <5>1. q.sn = r.sn /\ q.result = e.lastResult
          BY <4>2
        <5>2. e.lastResult # "ErrorBadSequenceNumber"
          BY <1>0 DEF LinkOK
        <5> QED BY <1>3, <1>4, <2>2, <5>1, <5>2
      <4> HIDE DEF a
      <4> QED BY <2>2, <4>1, <4>2
    <3> QED BY <1>0, <2>2, <3>1 DEF LinkOK
  <2>4. RecvOK(y.log, y.out, F.got, F.in) /\ HeardOK(y.log, F.got, F.in, hp \o F.calls)
    BY <1>2, <2>2
  <2>5. Good(F, y, hp, hq, np, nq)
    BY <2>2, <2>3, <2>4, ReceiverStep
  <2> QED BY <2>5 DEF F
<1>5. CASE r.sn # e.lastSn /\ r.sn # e.lastSn + 1
  <2> DEFINE w == "ErrorBadSequenceNumber"
             a == [sn |-> r.sn, result |-> w]
  <2>1. F = RespondTo(e, r, w) /\ w \in Results
    BY <1>5 DEF HandleResetOutgoing, F, Results
  <2>2. /\ F \in Socket /\ SameSender(e, F) /\ F.got = e.got /\ F.in = e.in /\ F.calls = e.calls
        /\ F.deferred = e.deferred /\ F.lastSn = e.lastSn /\ F.lastResult = e.lastResult
        /\ F.responses \subseteq e.responses \cup {a}
    <3>1. e \in Socket /\ r.sn \in Nat /\ w \in Results
      BY <1>0, <1>1, <2>1
    <3>2. F = RespondTo(e, r, w)
      BY <2>1
    <3> HIDE DEF w
    <3> QED BY <3>1, <3>2, RespondFields
  <2>3. LinkOK(y, F)
    <3>1. ASSUME NEW q \in F.responses
          PROVE  /\ q.sn < y.nextSn
                 /\ q.sn = y.req.sn /\ q.sn # 0 =>
                      /\ F.lastSn = q.sn /\ q.result # "ErrorBadSequenceNumber"
                      /\ q.result = "InProgress" <=> F.lastResult = "InProgress"
      <4>1. CASE q \in e.responses
        BY <1>0, <2>2, <4>1 DEF LinkOK
      <4>2. CASE q = a
        <5>1. q.sn = r.sn
          BY <4>2
        <5>2. ~(r.sn = y.req.sn /\ r.sn # 0)
          BY <1>1, <1>3, <1>5
        <5> QED BY <1>3, <5>1, <5>2
      <4> HIDE DEF a
      <4> QED BY <2>2, <4>1, <4>2
    <3> QED BY <1>0, <2>2, <3>1 DEF LinkOK
  <2>4. RecvOK(y.log, y.out, F.got, F.in) /\ HeardOK(y.log, F.got, F.in, hp \o F.calls)
    BY <1>2, <2>2
  <2>5. Good(F, y, hp, hq, np, nq)
    BY <2>2, <2>3, <2>4, ReceiverStep
  <2> QED BY <2>5 DEF F
<1>6. CASE r.sn = e.lastSn + 1
  <2>1. /\ r = y.req /\ y.req.sn # 0 /\ y.req.sn = y.nextSn - 1 /\ e.lastSn # y.req.sn /\ r.sn # e.lastSn
    BY <1>1, <1>3, <1>6
  <2>2. y.req.streams # {}
    <3>1. y.req # NoRequest
      <4>1. NoRequest.sn = 0
        BY DEF NoRequest
      <4> QED BY <2>1, <4>1
    <3> QED BY <1>0, <3>1 DEF ReqOK
  <2>3. \A s \in Sids : e.in[s].epoch = y.out[s].epoch
    BY <1>0, <2>1 DEF LinkOK, Performed
  <2>4. ASSUME NEW q \in e.responses PROVE q.sn < y.nextSn /\ q.sn # y.req.sn
    BY <1>0, <2>1 DEF LinkOK
  <2>5. e.deferred.tsns = <<>>
    BY <1>0 DEF LinkOK
  <2>6. CASE r.last > CumAck(e)
    <3> DEFINE w == "InProgress"
               a == [sn |-> r.sn, result |-> w]
               g0 == [e EXCEPT !.lastSn = r.sn, !.lastResult = w]
               g == EnterDeferredReset(g0, r)
    <3>1. F = RespondTo(g, r, w) /\ w \in Results
      BY <1>6, <2>1, <2>6 DEF HandleResetOutgoing, F, Results
    <3>2. /\ g0 \in Socket /\ SameSender(e, g0) /\ g0.got = e.got /\ g0.in = e.in /\ g0.calls = e.calls
          /\ g0.deferred = e.deferred /\ g0.lastSn = r.sn /\ g0.lastResult = w
          /\ g0.responses = e.responses
      BY <1>0, <1>1, <3>1 DEF Socket, SameSender
    <3> HIDE DEF g0
    <3>3. /\ g \in Socket /\ SameSender(e, g) /\ g.got = e.got /\ g.in = e.in /\ g.calls = e.calls
          /\ g.lastSn = r.sn /\ g.lastResult = w /\ g.responses = e.responses
          /\ g.deferred # NotDeferred /\ g.deferred.tsns = <<>>
          /\ g.deferred.streams = y.req.streams /\ g.deferred.last = y.req.last
      <4>1. CASE e.deferred # NotDeferred
        <5>1. g = g0
          BY <3>2, <4>1 DEF EnterDeferredReset
        <5>2. e.deferred.streams = y.req.streams /\ e.deferred.last = y.req.last
          BY <1>0, <4>1 DEF LinkOK
        <5> QED BY <2>5, <3>2, <4>1, <5>1, <5>2
      <4>2. CASE e.deferred = NotDeferred
        <5> DEFINE k == [last |-> r.last, streams |-> r.streams, tsns |-> <<>>]
        <5>1. g = [g0 EXCEPT !.deferred = k]
          BY <3>2, <4>2 DEF EnterDeferredReset
        <5>2. /\ k \in [last : Nat, streams : SUBSET Sids, tsns : Seq(Nat)]
              /\ k.tsns = <<>> /\ k.streams = y.req.streams /\ k.last = y.req.last
          BY <1>1, <2>1 DEF Request
        <5>3. k # NotDeferred
          BY <2>2, <5>2 DEF NotDeferred
        <5> HIDE DEF k, g
        <5>4. /\ g \in Socket /\ SameSender(g0, g) /\ g.got = g0.got /\ g.in = g0.in /\ g.calls = g0.calls
              /\ g.lastSn = g0.lastSn /\ g.lastResult = g0.lastResult /\ g.responses = g0.responses
              /\ g.deferred = k
          BY <3>2, <5>1, <5>2 DEF Socket, SameSender
        <5>5. SameSender(e, g)
          BY <3>2, <5>4 DEF SameSender
        <5> QED BY <3>2, <5>2, <5>3, <5>4, <5>5
      <4> QED BY <4>1, <4>2
    <3> HIDE DEF g
    <3>4. /\ F \in Socket /\ SameSender(g, F) /\ F.got = g.got /\ F.in = g.in /\ F.calls = g.calls
          /\ F.deferred = g.deferred /\ F.lastSn = g.lastSn /\ F.lastResult = g.lastResult
          /\ F.responses \subseteq g.responses \cup {a}
      <4>1. r.sn \in Nat /\ w \in Results /\ g \in Socket
        BY <1>1, <3>1, <3>3
      <4> HIDE DEF w
      <4> DEFINE f == RespondTo(g, r, w)
      <4>2. /\ f \in Socket /\ SameSender(g, f) /\ f.got = g.got /\ f.in = g.in /\ f.calls = g.calls
            /\ f.deferred = g.deferred /\ f.lastSn = g.lastSn /\ f.lastResult = g.lastResult
            /\ f.responses \subseteq g.responses \cup {a}
        BY <4>1, RespondFields
      <4> QED BY <3>1, <4>2
    <3>5. SameSender(e, F)
      BY <3>3, <3>4 DEF SameSender
    <3>6. /\ F.got = e.got /\ F.in = e.in /\ F.calls = e.calls /\ F.lastSn = r.sn /\ F.lastResult = "InProgress"
          /\ F.deferred # NotDeferred /\ F.deferred.tsns = <<>>
          /\ F.deferred.streams = y.req.streams /\ F.deferred.last = y.req.last
          /\ F.responses \subseteq e.responses \cup {a}
      BY <3>3, <3>4
    <3>7. LinkOK(y, F)
      <4>1. ASSUME NEW q \in F.responses
            PROVE  /\ q.sn < y.nextSn
                   /\ q.sn = y.req.sn /\ q.sn # 0 =>
                        /\ F.lastSn = q.sn /\ q.result # "ErrorBadSequenceNumber"
                        /\ q.result = "InProgress" <=> F.lastResult = "InProgress"
        <5>1. CASE q \in e.responses
          BY <2>4, <5>1
        <5>2. CASE q = a
          <6>1. q.sn = r.sn /\ q.result = "InProgress"
            BY <5>2
          <6> QED BY <1>3, <3>6, <6>1
        <5> HIDE DEF a
        <5> QED BY <3>6, <5>1, <5>2
      <4>2. \A s \in Sids : F.in[s].epoch = y.out[s].epoch
        BY <2>3, <3>6
      <4>3. ~Performed(y.req, F.lastSn, F.lastResult)
        BY <3>6 DEF Performed
      <4> HIDE DEF a
      <4> QED BY <2>1, <3>6, <4>1, <4>2, <4>3 DEF LinkOK
    <3>8. RecvOK(y.log, y.out, F.got, F.in) /\ HeardOK(y.log, F.got, F.in, hp \o F.calls)
      BY <1>2, <3>6
    <3>9. Good(F, y, hp, hq, np, nq)
      BY <3>4, <3>5, <3>7, <3>8, ReceiverStep
    <3> QED BY <3>9 DEF F
  <2>7. CASE ~(r.last > CumAck(e))
    <3> DEFINE w == "SuccessPerformed"
               a == [sn |-> r.sn, result |-> w]
               g0 == [e EXCEPT !.lastSn = r.sn, !.lastResult = w]
               g == PerformReset(g0, y.log, r)
    <3>1. F = RespondTo(g, r, w) /\ w \in Results
      BY <1>6, <2>1, <2>7 DEF HandleResetOutgoing, F, Results
    <3>2. /\ g0 \in Socket /\ SameSender(e, g0) /\ g0.got = e.got /\ g0.in = e.in /\ g0.calls = e.calls
          /\ g0.deferred = e.deferred /\ g0.lastSn = r.sn /\ g0.lastResult = w
          /\ g0.responses = e.responses
      BY <1>0, <1>1, <3>1 DEF Socket, SameSender
    <3> HIDE DEF g0
    <3>3. /\ g \in Socket /\ SameSender(g0, g) /\ g.got = g0.got /\ g.deferred = NotDeferred
          /\ g.lastSn = g0.lastSn /\ g.lastResult = g0.lastResult /\ g.responses = g0.responses
          /\ \E c \in Call : ~IsMessage(c) /\ g.calls = Append(g0.calls, c)
          /\ \A s \in Sids :
               /\ g.in[s].ordered = g0.in[s].ordered /\ g.in[s].unordered = g0.in[s].unordered
               /\ s \in r.streams => g.in[s].ssn = 0 /\ g.in[s].epoch = g0.in[s].epoch + 1
               /\ s \notin r.streams => g.in[s].ssn = g0.in[s].ssn /\ g.in[s].epoch = g0.in[s].epoch
      <4> DEFINE L == y.log
      <4>1. g0.deferred.tsns = <<>> /\ g0 \in Socket /\ r \in Request /\ g = PerformReset(g0, L, r)
        BY <1>1, <2>5, <3>2
      <4> HIDE DEF L, g
      <4> QED BY <4>1, PerformFields
    <3> HIDE DEF g
    <3>4. /\ F \in Socket /\ SameSender(g, F) /\ F.got = g.got /\ F.in = g.in /\ F.calls = g.calls
          /\ F.deferred = g.deferred /\ F.lastSn = g.lastSn /\ F.lastResult = g.lastResult
          /\ F.responses \subseteq g.responses \cup {a}
      <4>1. r.sn \in Nat /\ w \in Results /\ g \in Socket
        BY <1>1, <3>1, <3>3
      <4> HIDE DEF w
      <4> DEFINE f == RespondTo(g, r, w)
      <4>2. /\ f \in Socket /\ SameSender(g, f) /\ f.got = g.got /\ f.in = g.in /\ f.calls = g.calls
            /\ f.deferred = g.deferred /\ f.lastSn = g.lastSn /\ f.lastResult = g.lastResult
            /\ f.responses \subseteq g.responses \cup {a}
        BY <4>1, RespondFields
      <4> QED BY <3>1, <4>2
    <3>5. SameSender(e, F)
      BY <3>2, <3>3, <3>4 DEF SameSender
    <3>6. /\ F.got = e.got /\ F.lastSn = r.sn /\ F.lastResult = "SuccessPerformed"
          /\ F.deferred = NotDeferred /\ F.responses \subseteq e.responses \cup {a}
      BY <3>2, <3>3, <3>4
    <3>7. \A s \in Sids :
               /\ F.in[s].ordered = e.in[s].ordered /\ F.in[s].unordered = e.in[s].unordered
               /\ s \in y.req.streams => F.in[s].ssn = 0 /\ F.in[s].epoch = e.in[s].epoch + 1
               /\ s \notin y.req.streams => F.in[s].ssn = e.in[s].ssn /\ F.in[s].epoch = e.in[s].epoch
      BY <2>1, <3>2, <3>3, <3>4
    <3>8. LinkOK(y, F)
      <4>1. ASSUME NEW q \in F.responses
            PROVE  /\ q.sn < y.nextSn
                   /\ q.sn = y.req.sn /\ q.sn # 0 =>
                        /\ F.lastSn = q.sn /\ q.result # "ErrorBadSequenceNumber"
                        /\ q.result = "InProgress" <=> F.lastResult = "InProgress"
        <5>1. CASE q \in e.responses
          BY <2>4, <5>1
        <5>2. CASE q = a
          <6>1. q.sn = r.sn /\ q.result = "SuccessPerformed"
            BY <5>2
          <6> QED BY <1>3, <3>6, <6>1
        <5> HIDE DEF a
        <5> QED BY <3>6, <5>1, <5>2
      <4>2. Performed(y.req, F.lastSn, F.lastResult)
        BY <2>1, <3>6 DEF Performed
      <4>3. \A s \in Sids : F.in[s].epoch = IF s \in y.req.streams THEN y.out[s].epoch + 1 ELSE y.out[s].epoch
        BY <2>3, <3>7
      <4>4. F.deferred.tsns = <<>>
        BY <3>6 DEF NotDeferred
      <4> HIDE DEF a
      <4> QED BY <2>1, <3>6, <4>1, <4>2, <4>3, <4>4 DEF LinkOK
    <3>9. /\ RecvOK(y.log, y.out, F.got, F.in)
          /\ \A t \in Tsns(y.log) : Gone(y.log, F.got, F.in, t) <=> Gone(y.log, e.got, e.in, t)
      <4> DEFINE streams == y.req.streams
                 L == y.log
                 in2 == F.in
                 in1 == e.in
                 out == y.out
                 got == e.got
      <4>1. Idle(L, out, got, in1, streams)
        BY <1>0, <1>1, <2>1, <2>3, <2>7, RequestArrived DEF Idle
      <4>2. /\ streams \in SUBSET Sids /\ L \in Seq(Chunk) /\ CountOK(L, out)
            /\ RecvOK(L, out, got, in1)
            /\ out \in [Sids -> OutgoingStream] /\ in1 \in [Sids -> IncomingStream]
        BY <1>0, <1>1, <1>2 DEF Way, SendOK
      <4>3. IsReset(in1, in2, streams)
        BY <3>7 DEF IsReset
      <4> HIDE DEF streams, L, in2, in1, out, got
      <4>4. /\ RecvOK(L, out, got, in2)
            /\ \A t \in Tsns(L) : Gone(L, got, in2, t) <=> Gone(L, got, in1, t)
        BY <4>1, <4>2, <4>3, ResetRecv
      <4> QED BY <3>6, <4>4 DEF L, in2, in1, out, got
    <3>10. HeardOK(y.log, F.got, F.in, hp \o F.calls)
      <4>1. HeardOK(y.log, F.got, F.in, hp \o e.calls)
        BY <1>2, <3>9 DEF HeardOK
      <4>2. PICK c \in Call : ~IsMessage(c) /\ F.calls = Append(e.calls, c)
        BY <3>2, <3>3, <3>4
      <4>3. hp \o F.calls = Append(hp \o e.calls, c) /\ hp \o e.calls \in Seq(Call)
        <5>1. e.calls \in Seq(Call)
          BY <1>1
        <5> QED BY <4>2, <5>1, ConcatAppend
      <4> QED BY <4>1, <4>2, <4>3, HeardOther
    <3>11. Good(F, y, hp, hq, np, nq)
      BY <3>4, <3>5, <3>8, <3>9, <3>10, ReceiverStep
    <3> QED BY <3>11 DEF F
  <2> QED BY <2>6, <2>7
<1> QED BY <1>4, <1>5, <1>6

-----------------------------------------------------------------------------
(* Steps *)

LEMMA AfterReconfigGood ==
    ASSUME NEW e, NEW y \in Socket, NEW hp \in Seq(Call), NEW hq, NEW np \in Nat, NEW nq,
           Good(e, y, hp, hq, np, nq)
    PROVE  Good(AfterReconfig(e), y, hp, hq, np, nq)
<1> DEFINE f == MakeStreamResetRequest(e)
<1>1. Good(f, y, hp, hq, np, nq)
  BY ResetRequestGood
<1> HIDE DEF f
<1>2. Good(SendBufferedPackets(f), y, hp, hq, np, nq)
  BY <1>1, SendBufferedGood
<1> QED BY <1>2 DEF AfterReconfig, f

LEMMA ResetStreamsGood ==
    ASSUME NEW e, NEW y \in Socket, NEW hp \in Seq(Call), NEW hq, NEW np, NEW nq,
           Good(e, y, hp, hq, np, nq), NEW s \in Sids
    PROVE  Good(SocketResetStreams(e, s), y, hp, hq, np, nq)
<1> DEFINE f == PrepareResetStream(e, s)
<1>1. Good(f, y, hp, hq, np, nq)
  BY PrepareGood
<1> HIDE DEF f
<1>2. Good(MakeStreamResetRequest(f), y, hp, hq, np, nq)
  BY <1>1, ResetRequestGood
<1> QED BY <1>2 DEF SocketResetStreams, f

\* A socket that is handed over has performed the last request it got.
LEMMA HandoverGood ==
    ASSUME NEW e, NEW y \in Socket, NEW hp \in Seq(Call), NEW hq, NEW np, NEW nq,
           Good(e, y, hp, hq, np, nq), e.deferred = NotDeferred
    PROVE  Good(AfterHandover(e), y, hp, hq, np, nq)
<1> DEFINE w == "SuccessNothingToDo"
           f == [e EXCEPT !.lastResult = w]
<1>1. AfterHandover(e) = f
  BY DEF AfterHandover, NewSocket
<1>2. e \in Socket /\ LinkOK(y, e) /\ w \in Results
  BY DEF Good, Way, Results
<1>3. /\ f \in Socket /\ f.log = e.log /\ f.out = e.out /\ f.req = e.req
      /\ f.nextSn = e.nextSn /\ f.requests = e.requests
      /\ f.got = e.got /\ f.in = e.in /\ f.calls = e.calls /\ f.deferred = e.deferred
      /\ f.lastSn = e.lastSn /\ f.lastResult = w /\ f.responses = e.responses
  <2> HIDE DEF w
  <2> QED BY <1>2 DEF Socket
<1> HIDE DEF f
<1>4. SameSender(e, f)
  BY <1>3 DEF SameSender
<1>5. e.lastResult # "InProgress" /\ f.lastResult # "InProgress" /\ f.lastResult # "ErrorBadSequenceNumber"
  BY <1>2, <1>3 DEF LinkOK
<1>6. Performed(y.req, f.lastSn, f.lastResult) <=> Performed(y.req, e.lastSn, e.lastResult)
  BY <1>3, <1>5 DEF Performed
<1>7. LinkOK(y, f)
  <2>1. /\ f.in = e.in /\ f.deferred = e.deferred /\ f.lastSn = e.lastSn /\ f.responses = e.responses
    BY <1>3
  <2> HIDE DEF w
  <2> QED BY <1>2, <1>5, <1>6, <2>1 DEF LinkOK
<1>8. RecvOK(y.log, y.out, f.got, f.in) /\ HeardOK(y.log, f.got, f.in, hp \o f.calls)
  BY <1>3 DEF Good, Way
<1>9. Good(f, y, hp, hq, np, nq)
  BY <1>3, <1>4, <1>7, <1>8, ReceiverStep
<1> QED BY <1>1, <1>9

\* The call ends.
LEMMA EndGood ==
    ASSUME NEW e, NEW y, NEW hp, NEW hq, NEW np, NEW nq, Good(e, y, hp, hq, np, nq)
    PROVE  LET f == [e EXCEPT !.room = 0, !.calls = <<>>] IN
           /\ f \in Socket /\ f.room = 0 /\ f.calls = <<>>
           /\ Way(f, y, hq, np) /\ Way(y, f, hp \o e.calls, nq)
<1> DEFINE f == [e EXCEPT !.room = 0, !.calls = <<>>]
<1>1. e \in Socket /\ Way(e, y, hq, np) /\ Way(y, e, hp \o e.calls, nq)
  BY DEF Good
<1>2. <<>> \in Seq(Call)
  OBVIOUS
<1>3. /\ f \in Socket /\ f.log = e.log /\ f.out = e.out /\ f.req = e.req
      /\ f.nextSn = e.nextSn /\ f.requests = e.requests
      /\ f.got = e.got /\ f.in = e.in /\ f.calls = <<>> /\ f.room = 0 /\ f.deferred = e.deferred
      /\ f.lastSn = e.lastSn /\ f.lastResult = e.lastResult /\ f.responses = e.responses
  BY <1>1, <1>2 DEF Socket
<1> HIDE DEF f
<1>4. Way(f, y, hq, np)
  BY <1>1, <1>3 DEF Way, LinkOK
<1>5. Way(y, f, hp \o e.calls, nq)
  BY <1>1, <1>3 DEF Way, LinkOK
<1> QED BY <1>3, <1>4, <1>5 DEF f

LEMMA OtherPeer ==
    ASSUME NEW p \in Peers
    PROVE  Other(p) \in Peers /\ Other(p) # p /\ Other(Other(p)) = p /\ \A q \in Peers : q = p \/ q = Other(p)
<1>1. PICK a \in Peers, b \in Peers : a # b /\ Peers = {a, b}
  BY PairAssumption
<1>2. Other(a) = b /\ Other(b) = a
  BY <1>1 DEF Other
<1> QED BY <1>1, <1>2

LEMMA InvGood ==
    ASSUME Inv, NEW p \in Peers
    PROVE  /\ Good(sock[p], sock[Other(p)], heard[p], heard[Other(p)], sends[p], sends[Other(p)])
           /\ sock[p] \in Socket /\ sock[Other(p)] \in Socket /\ heard[p] \in Seq(Call) /\ sends[p] \in Nat
<1>1. Other(p) \in Peers /\ Other(Other(p)) = p
  BY OtherPeer
<1>2. /\ sock[p] \in Socket /\ sock[Other(p)] \in Socket /\ heard[p] \in Seq(Call) /\ sends[p] \in Nat
      /\ sock[p].calls = <<>>
  BY <1>1 DEF Inv, TypeOK
<1>3. heard[p] \o sock[p].calls = heard[p]
  BY <1>2, ConcatEmptySeq
<1>4. /\ Way(sock[p], sock[Other(p)], heard[Other(p)], sends[p])
      /\ Way(sock[Other(p)], sock[p], heard[p], sends[Other(p)])
  BY <1>1 DEF Inv
<1> QED BY <1>2, <1>3, <1>4 DEF Good

\* A call into the socket of p preserves the invariant if it keeps the socket good.
LEMMA StepInv ==
    ASSUME Inv, NEW p \in Peers, NEW e, NEW np \in Nat,
           Good(e, sock[Other(p)], heard[p], heard[Other(p)], np, sends[Other(p)]),
           TriggerDeferred(p, e), sends' = [sends EXCEPT ![p] = np], resets' \in [Peers -> Nat]
    PROVE  Inv'
<1> DEFINE f == [e EXCEPT !.room = 0, !.calls = <<>>]
           o == Other(p)
           g == heard[p] \o e.calls
<1>1. o \in Peers /\ o # p /\ Other(o) = p /\ \A q \in Peers : q = p \/ q = o
  BY OtherPeer
<1>2. /\ sock \in [Peers -> Socket] /\ heard \in [Peers -> Seq(Call)] /\ sends \in [Peers -> Nat]
      /\ \A q \in Peers : sock[q].room = 0 /\ sock[q].calls = <<>>
  BY DEF Inv, TypeOK
<1>3. /\ f \in Socket /\ f.room = 0 /\ f.calls = <<>>
      /\ Way(f, sock[o], heard[o], np) /\ Way(sock[o], f, g, sends[o])
  BY EndGood
<1>4. g \in Seq(Call)
  BY <1>2, SocketFields, ConcatProperties DEF Good
<1>5. sock' = [sock EXCEPT ![p] = f] /\ heard' = [heard EXCEPT ![p] = g]
  BY DEF TriggerDeferred
<1> HIDE DEF f, g, o
<1>6. /\ sock'[p] = f /\ sock'[o] = sock[o] /\ heard'[p] = g /\ heard'[o] = heard[o]
      /\ sends'[p] = np /\ sends'[o] = sends[o]
  BY <1>1, <1>2, <1>5
<1>7. TypeOK'
  <2>1. sock' \in [Peers -> Socket] /\ heard' \in [Peers -> Seq(Call)] /\ sends' \in [Peers -> Nat]
    BY <1>2, <1>3, <1>4, <1>5
  <2>2. \A q \in Peers : sock'[q].room = 0 /\ sock'[q].calls = <<>>
    BY <1>1, <1>2, <1>3, <1>6
  <2> QED BY <2>1, <2>2 DEF TypeOK
<1>8. /\ Way(sock'[p], sock'[o], heard'[o], sends'[p])
      /\ Way(sock'[o], sock'[p], heard'[p], sends'[o])
  BY <1>3, <1>6
<1>9. \A q \in Peers : Way(sock'[q], sock'[Other(q)], heard'[Other(q)], sends'[q])
  <2>1. Other(p) = o
    BY DEF o
  <2> QED BY <1>1, <1>8, <2>1
<1> QED BY <1>7, <1>9 DEF Inv

LEMMA NewSocketGood ==
    NewSocket \in Socket /\ NewSocket.room = 0 /\ NewSocket.calls = <<>> /\ Way(NewSocket, NewSocket, <<>>, 0)
<1> DEFINE x == NewSocket
<1>1. /\ x.out = [s \in Sids |-> NewOutgoingStream] /\ x.in = [s \in Sids |-> NewIncomingStream]
      /\ x.current = Min(Sids) /\ x.log = <<>> /\ x.room = 0 /\ x.req = NoRequest /\ x.nextSn = 1 /\ x.lastSn = 0
      /\ x.lastResult = "SuccessNothingToDo" /\ x.got = {} /\ x.deferred = NotDeferred
      /\ x.calls = <<>> /\ x.requests = {} /\ x.responses = {}
  BY DEF NewSocket
<1>2. /\ NewOutgoingStream \in OutgoingStream /\ NewIncomingStream \in IncomingStream
  BY DEF NewOutgoingStream, NewIncomingStream, OutgoingStream, IncomingStream
<1>3. x \in Socket
  <2>1. Min(Sids) \in Sids
    BY StreamResetAssumption, MinOf
  <2>2. NoRequest \in Request /\ NotDeferred \in [last : Nat, streams : SUBSET Sids, tsns : Seq(Nat)]
    BY DEF NoRequest, NotDeferred, Request
  <2>3. "SuccessNothingToDo" \in Results
    BY DEF Results
  <2>4. /\ [s \in Sids |-> NewOutgoingStream] \in [Sids -> OutgoingStream]
        /\ [s \in Sids |-> NewIncomingStream] \in [Sids -> IncomingStream]
    BY <1>2
  <2>5. <<>> \in Seq(Chunk) /\ <<>> \in Seq(Call)
    OBVIOUS
  <2> QED BY <2>1, <2>2, <2>3, <2>4, <2>5 DEF NewSocket, Socket
<1>4. /\ Len(x.log) = 0 /\ Tsns(x.log) = {}
  BY <1>1 DEF Tsns
<1>5. \A s \in Sids : /\ x.out[s].items = <<>> /\ x.out[s].sent = 0 /\ x.out[s].ssn = 0 /\ x.out[s].epoch = 0
                      /\ x.out[s].pause = "NotPaused"
                      /\ x.in[s].ssn = 0 /\ x.in[s].ordered = {} /\ x.in[s].unordered = {} /\ x.in[s].epoch = 0
  <2>1. \A s \in Sids : x.out[s] = NewOutgoingStream /\ x.in[s] = NewIncomingStream
    BY <1>1
  <2>2. /\ NewOutgoingStream.items = <<>> /\ NewOutgoingStream.sent = 0 /\ NewOutgoingStream.ssn = 0
        /\ NewOutgoingStream.epoch = 0 /\ NewOutgoingStream.pause = "NotPaused"
        /\ NewIncomingStream.ssn = 0 /\ NewIncomingStream.ordered = {} /\ NewIncomingStream.unordered = {}
        /\ NewIncomingStream.epoch = 0
    BY DEF NewOutgoingStream, NewIncomingStream
  <2> QED BY <2>1, <2>2
<1> HIDE DEF x
<1>6. SendOK(x.log, x.out, 0)
  <2>1. LogOK(x.log)
    BY <1>4 DEF LogOK, SpansOK
  <2>2. TailOK(x.log, x.out)
    BY <1>4, <1>5 DEF TailOK
  <2>3. CountOK(x.log, x.out)
    BY <1>4, <1>5 DEF CountOK
  <2>4. \A s \in Sids : Len(x.out[s].items) = 0
    BY <1>5
  <2>5. ItemsOK(x.log, x.out, 0)
    BY <1>4, <2>4 DEF ItemsOK
  <2> QED BY <2>1, <2>2, <2>3, <2>5 DEF SendOK
<1>7. RecvOK(x.log, x.out, x.got, x.in)
  <2>1. HeldOK(x.log, x.got, x.in)
    BY <1>1, <1>4, <1>5 DEF HeldOK
  <2>2. WholeOK(x.log, x.got, x.in)
    BY <1>4 DEF WholeOK
  <2>3. ASSUME NEW s \in Sids PROVE ~Whole(x.log, {u \in x.in[s].ordered : x.log[u].ssn = x.in[s].ssn})
    <3>1. {u \in x.in[s].ordered : x.log[u].ssn = x.in[s].ssn} = {}
      BY <1>5
    <3> QED BY <3>1 DEF Whole
  <2>4. \A s \in Sids : x.in[s].ssn <= IF x.in[s].epoch = x.out[s].epoch THEN x.out[s].ssn ELSE 0
    BY <1>5
  <2>5. NextOK(x.log, x.out, x.got, x.in)
    BY <1>4, <1>5, <2>3, <2>4 DEF NextOK
  <2> QED BY <2>1, <2>2, <2>5 DEF RecvOK
<1>8. HeardOK(x.log, x.got, x.in, <<>>)
  BY <1>4 DEF HeardOK
<1>9. ReqOK(x.log, x.out, x.req, x.nextSn, x.requests)
  <2>1. x.req.streams = {} /\ x.req.sn = 0
    BY <1>1 DEF NoRequest
  <2>2. {s \in Sids : x.out[s].pause = "Resetting"} = {}
    BY <1>5
  <2> QED BY <1>1, <1>4, <2>1, <2>2 DEF ReqOK
<1>10. LinkOK(x, x)
  <2>1. x.req.streams = {} /\ x.deferred.tsns = <<>>
    BY <1>1 DEF NoRequest, NotDeferred
  <2>2. \A s \in Sids : x.in[s].epoch = x.out[s].epoch
    BY <1>5
  <2> QED BY <1>1, <2>1, <2>2 DEF LinkOK
<1> QED BY <1>1, <1>3, <1>6, <1>7, <1>8, <1>9, <1>10 DEF Way, x

LEMMA InitInv == Init => Inv
<1> SUFFICES ASSUME Init PROVE Inv
  OBVIOUS
<1>1. \A p \in Peers : sock[p] = NewSocket /\ heard[p] = <<>> /\ sends[p] = 0
  BY DEF Init
<1>2. \A p \in Peers : Other(p) \in Peers
  BY OtherPeer
<1>3. TypeOK
  <2>1. <<>> \in Seq(Call)
    OBVIOUS
  <2> QED BY <1>1, <2>1, NewSocketGood DEF Init, TypeOK
<1>4. \A p \in Peers : Way(sock[p], sock[Other(p)], heard[Other(p)], sends[p])
  BY <1>1, <1>2, NewSocketGood
<1> QED BY <1>3, <1>4 DEF Inv

LEMMA NextInv == Inv /\ [Next]_vars => Inv'
<1> SUFFICES ASSUME Inv, [Next]_vars PROVE Inv'
  OBVIOUS
<1>1. CASE UNCHANGED vars
  <2>1. sock' = sock /\ heard' = heard /\ sends' = sends /\ resets' = resets
    BY <1>1 DEF vars
  <2> QED BY <2>1 DEF Inv, TypeOK
<1>2. CASE Next
  <2>1. PICK p \in Peers :
          \/ Send(p) \/ ResetStreams(p) \/ HandleSack(p) \/ ReceiveData(p)
          \/ ReceiveRequest(p) \/ ReceiveResponse(p) \/ ReconfigTimer(p) \/ Handover(p)
    BY <1>2 DEF Next
  <2> DEFINE o == Other(p)
             x == sock[p]
             y == sock[o]
             np == sends[p]
             nq == sends[o]
             G(e, n) == Good(e, y, heard[p], heard[o], n, nq)
  <2>2. /\ Good(x, y, heard[p], heard[o], np, nq) /\ x \in Socket /\ y \in Socket
        /\ heard[p] \in Seq(Call) /\ np \in Nat
    BY InvGood
  <2>3. sends \in [Peers -> Nat] /\ resets \in [Peers -> Nat]
    BY DEF Inv, TypeOK
  <2>4. \A room \in Nat : Good(WithRoom(p, room), y, heard[p], heard[o], np, nq)
    BY <2>2, RoomGood DEF WithRoom
  <2>5. MaxRoom \in Nat /\ \A room \in 0..MaxRoom : room \in Nat
    BY PairAssumption
  <2> HIDE DEF x, y
  <2>6. ASSUME NEW e, Good(e, y, heard[p], heard[o], np, nq), TriggerDeferred(p, e), UNCHANGED sends,
               resets' \in [Peers -> Nat]
        PROVE  Inv'
    <3>1. sends' = [sends EXCEPT ![p] = np]
      BY <2>3, <2>6
    <3>2. Good(e, sock[Other(p)], heard[p], heard[Other(p)], np, sends[Other(p)])
      BY <2>6 DEF y
    <3> HIDE DEF np
    <3> QED BY <2>2, <2>6, <3>1, <3>2, StepInv
  <2>7. CASE Send(p)
    <3>1. PICK s \in Sids, size \in Sizes, unordered \in BOOLEAN, room \in 0..MaxRoom :
            TriggerDeferred(p, SocketSend(WithRoom(p, room), s,
              [size |-> size, unordered |-> unordered, id |-> sends[p] + 1]))
      BY <2>7 DEF Send
    <3> DEFINE m == [size |-> size, unordered |-> unordered, id |-> sends[p] + 1]
               w == WithRoom(p, room)
               e == SocketSend(w, s, m)
    <3>2. m \in Message /\ m.id = np + 1
      BY <2>2 DEF Message
    <3>3. Good(w, y, heard[p], heard[o], np, nq)
      BY <2>4, <2>5
    <3>4. TriggerDeferred(p, e)
      BY <3>1
    <3> HIDE DEF m, w, np, nq
    <3>5. Good(e, y, heard[p], heard[o], np + 1, nq)
      BY <2>2, <3>2, <3>3, SendGood
    <3>6. np + 1 \in Nat /\ sends' = [sends EXCEPT ![p] = np + 1] /\ resets' \in [Peers -> Nat]
      BY <2>2, <2>3, <2>7 DEF Send, np
    <3>7. Good(e, sock[Other(p)], heard[p], heard[Other(p)], np + 1, sends[Other(p)])
      BY <3>5 DEF y, nq
    <3> HIDE DEF e
    <3> QED BY <3>4, <3>6, <3>7, StepInv
  <2>8. CASE ResetStreams(p)
    <3>1. PICK s \in Sids : TriggerDeferred(p, SocketResetStreams(sock[p], s))
      BY <2>8 DEF ResetStreams
    <3>2. Good(SocketResetStreams(x, s), y, heard[p], heard[o], np, nq)
      BY <2>2, ResetStreamsGood
    <3>3. resets' \in [Peers -> Nat] /\ UNCHANGED sends
      BY <2>3, <2>8 DEF ResetStreams
    <3> QED BY <2>6, <3>1, <3>2, <3>3 DEF x
  <2>9. CASE HandleSack(p)
    <3>1. PICK room \in 1..MaxRoom : TriggerDeferred(p, SendBufferedPackets(WithRoom(p, room)))
      BY <2>9 DEF HandleSack
    <3> DEFINE w == WithRoom(p, room)
    <3>2. Good(w, y, heard[p], heard[o], np, nq)
      BY <2>4, <2>5
    <3> HIDE DEF w, np, nq
    <3>3. Good(SendBufferedPackets(w), y, heard[p], heard[o], np, nq)
      BY <2>2, <3>2, SendBufferedGood
    <3>4. resets' \in [Peers -> Nat] /\ UNCHANGED sends
      BY <2>3, <2>9 DEF HandleSack
    <3> QED BY <2>6, <3>1, <3>3, <3>4 DEF w
  <2>10. CASE ReceiveData(p)
    <3>1. PICK t \in (1..Len(sock[Other(p)].log)) \ sock[p].got :
            TriggerDeferred(p, HandleData(sock[p], sock[Other(p)].log, t))
      BY <2>10 DEF ReceiveData
    <3>2. t \in Tsns(y.log) /\ t \notin x.got
      BY <3>1 DEF Tsns, x, y
    <3>3. Good(HandleData(x, y.log, t), y, heard[p], heard[o], np, nq)
      BY <2>2, <3>2, HandleDataGood
    <3>4. TriggerDeferred(p, HandleData(x, y.log, t))
      BY <3>1 DEF x, y
    <3>5. resets' \in [Peers -> Nat] /\ UNCHANGED sends
      BY <2>3, <2>10 DEF ReceiveData
    <3> QED BY <2>6, <3>3, <3>4, <3>5
  <2>11. CASE ReceiveRequest(p)
    <3>1. PICK r \in sock[Other(p)].requests, room \in 0..MaxRoom :
            TriggerDeferred(p, AfterReconfig(HandleResetOutgoing(WithRoom(p, room), sock[Other(p)].log, r)))
      BY <2>11 DEF ReceiveRequest
    <3> DEFINE w == WithRoom(p, room)
               e == HandleResetOutgoing(w, y.log, r)
    <3>2. Good(w, y, heard[p], heard[o], np, nq) /\ r \in y.requests
      BY <2>4, <2>5, <3>1 DEF y
    <3>3. TriggerDeferred(p, AfterReconfig(e))
      BY <3>1 DEF y
    <3> HIDE DEF w, np, nq
    <3>4. Good(e, y, heard[p], heard[o], np, nq)
      BY <2>2, <3>2, RequestGood
    <3> HIDE DEF e
    <3>5. Good(AfterReconfig(e), y, heard[p], heard[o], np, nq)
      BY <2>2, <3>4, AfterReconfigGood
    <3>6. resets' \in [Peers -> Nat] /\ UNCHANGED sends
      BY <2>3, <2>11 DEF ReceiveRequest
    <3> QED BY <2>6, <3>3, <3>5, <3>6
  <2>12. CASE ReceiveResponse(p)
    <3>1. PICK r \in sock[Other(p)].responses, room \in 0..MaxRoom :
            TriggerDeferred(p, AfterReconfig(HandleResponse(WithRoom(p, room), r)))
      BY <2>12 DEF ReceiveResponse
    <3> DEFINE w == WithRoom(p, room)
               e == HandleResponse(w, r)
    <3>2. Good(w, y, heard[p], heard[o], np, nq) /\ r \in y.responses
      BY <2>4, <2>5, <3>1 DEF y
    <3>3. TriggerDeferred(p, AfterReconfig(e))
      BY <3>1
    <3> HIDE DEF w, np, nq
    <3>4. Good(e, y, heard[p], heard[o], np, nq)
      BY <2>2, <3>2, ResponseGood
    <3> HIDE DEF e
    <3>5. Good(AfterReconfig(e), y, heard[p], heard[o], np, nq)
      BY <2>2, <3>4, AfterReconfigGood
    <3>6. resets' \in [Peers -> Nat] /\ UNCHANGED sends
      BY <2>3, <2>12 DEF ReceiveResponse
    <3> QED BY <2>6, <3>3, <3>5, <3>6
  <2>13. CASE ReconfigTimer(p)
    <3>1. x.req # NoRequest /\ TriggerDeferred(p, MakeReconfigChunk(x))
      BY <2>13 DEF ReconfigTimer, OnReconfigTimerExpiry, x
    <3>2. Good(MakeReconfigChunk(x), y, heard[p], heard[o], np, nq)
      BY <2>2, <3>1, ReconfigGood
    <3>3. resets' \in [Peers -> Nat] /\ UNCHANGED sends
      BY <2>3, <2>13 DEF ReconfigTimer
    <3> QED BY <2>6, <3>1, <3>2, <3>3
  <2>14. CASE Handover(p)
    <3>1. x.deferred = NotDeferred /\ TriggerDeferred(p, AfterHandover(x))
      BY <2>14 DEF Handover, HandoverReady, x
    <3>2. Good(AfterHandover(x), y, heard[p], heard[o], np, nq)
      BY <2>2, <3>1, HandoverGood
    <3>3. resets' \in [Peers -> Nat] /\ UNCHANGED sends
      BY <2>3, <2>14 DEF Handover
    <3> QED BY <2>6, <3>1, <3>2, <3>3
  <2> QED BY <2>1, <2>7, <2>8, <2>9, <2>10, <2>11, <2>12, <2>13, <2>14
<1> QED BY <1>1, <1>2

-----------------------------------------------------------------------------
(* Theorems *)

LEMMA InvHolds == Spec => []Inv
BY InitInv, NextInv, PTL DEF Spec

\* Sockets, chunks in the network and callbacks have the forms that the operations of
\* StreamReset (rr_send_queue.cc, stream_reset_handler.cc, reassembly_queue.cc) build.
THEOREM TypeCorrect == Spec => []TypeOK
<1>1. Inv => TypeOK
  BY DEF Inv
<1> QED BY <1>1, InvHolds, PTL

LEMMA WayInStep ==
    ASSUME NEW x \in Socket, NEW y \in Socket, NEW h, NEW n, Way(x, y, h, n)
    PROVE  InStep(x, y)
<1> SUFFICES ASSUME NEW s \in Sids
             PROVE  /\ y.in[s].epoch \in {x.out[s].epoch, x.out[s].epoch + 1}
                    /\ y.in[s].epoch # x.out[s].epoch => x.out[s].pause = "Resetting"
                    /\ x.out[s].pause = "Resetting" <=> s \in x.req.streams
                    /\ \A t \in Underway(x, y, s) : x.log[t].epoch = y.in[s].epoch
  BY DEF InStep
<1>1. x.out[s].pause = "Resetting" <=> s \in x.req.streams
  BY DEF Way, ReqOK
<1>2. y.in[s].epoch = IF s \in x.req.streams /\ Performed(x.req, y.lastSn, y.lastResult)
                      THEN x.out[s].epoch + 1 ELSE x.out[s].epoch
  BY DEF Way, LinkOK
<1>3. ASSUME NEW t \in Underway(x, y, s) PROVE x.log[t].epoch = y.in[s].epoch
  <2>1. /\ t \in Tsns(x.log) /\ x.log[t].sid = s
        /\ t \notin y.got \/ t \in y.in[s].ordered \cup y.in[s].unordered \cup ToSet(y.deferred.tsns)
    BY DEF Underway, Tsns
  <2>2. ToSet(y.deferred.tsns) = {}
    <3>1. y.deferred.tsns = <<>>
      BY DEF Way, LinkOK
    <3> QED BY <3>1 DEF ToSet
  <2>3. HeldOK(x.log, y.got, y.in)
    BY DEF Way, RecvOK
  <2> QED BY <2>1, <2>2, <2>3 DEF HeldOK
<1> QED BY <1>1, <1>2, <1>3

\* However RE-CONFIG chunks and data are lost, repeated, delayed and reordered, and
\* whatever the clients send and reset: StreamResetHandler resets a stream at both ends
\* once for each request, and ReassemblyQueue hands on every chunk in the epoch in which
\* RRSendQueue sent it.
THEOREM ResetsStayInStep == Spec => []ResetsInStep
<1>1. Inv => ResetsInStep
  <2> SUFFICES ASSUME Inv, NEW p \in Peers PROVE InStep(sock[p], sock[Other(p)])
    BY DEF ResetsInStep
  <2>1. sock[p] \in Socket /\ sock[Other(p)] \in Socket
    BY InvGood
  <2>2. Way(sock[p], sock[Other(p)], heard[Other(p)], sends[p])
    BY DEF Inv
  <2> QED BY <2>1, <2>2, WayInStep
<1> QED BY <1>1, InvHolds, PTL

\* The answer to a request that was performed or deferred changes the socket that gets it.
LEMMA ResponseMatters ==
    ASSUME NEW e \in Socket, NEW a, e.req # NoRequest, e.req.sn # 0, a.sn = e.req.sn,
           a.result \in Results, a.result # "ErrorBadSequenceNumber"
    PROVE  HandleResponse(e, a) # e
<1> DEFINE F == HandleResponse(e, a)
           c == [call |-> "OnStreamsResetPerformed", streams |-> e.req.streams]
           g == [e EXCEPT !.req = NoRequest, !.calls = Append(@, c)]
<1>1. CASE a.result \in {"SuccessNothingToDo", "SuccessPerformed"}
  <2>1. F = CommitResetStreams(g)
    BY <1>1 DEF HandleResponse
  <2> HIDE DEF c
  <2>2. g.req = NoRequest
    BY DEF Socket
  <2>3. CommitResetStreams(g).req = NoRequest
    <3> DEFINE z == [s \in Sids |->
                       IF g.out[s].pause # "Resetting" THEN g.out[s]
                       ELSE [g.out[s] EXCEPT !.epoch = @ + 1, !.pause = "NotPaused", !.ssn = 0, !.sent = 0]]
    <3>1. CommitResetStreams(g) = [g EXCEPT !.out = z]
      BY DEF CommitResetStreams
    <3> HIDE DEF z
    <3> QED BY <3>1 DEF Socket
  <2> QED BY <2>1, <2>3
<1>2. CASE a.result = "InProgress"
  <2>1. F = [e EXCEPT !.req.sn = 0]
    BY <1>2 DEF HandleResponse
  <2>2. e.req \in Request
    BY SocketFields
  <2>3. F.req = [e.req EXCEPT !.sn = 0]
    BY <2>1 DEF Socket
  <2>4. F.req.sn = 0
    BY <2>2, <2>3 DEF Request
  <2> QED BY <2>4
<1> QED BY <1>1, <1>2 DEF Results

\* Everything that a client asked to reset is reset: the two sockets do not come to rest
\* while a stream is paused. A request that waits for another one is sent when that one
\* is answered (HandleReconfig), and one that is answered "in progress" is sent again
\* with a new number (PrepareRetransmission), whatever was lost and also after a handover.
THEOREM ResetsAreCompleted == Spec => []ResetsComplete
<1>1. Inv => ResetsComplete
  <2> SUFFICES ASSUME Inv, Quiet, NEW p \in Peers, NEW s \in Sids, sock[p].out[s].pause # "NotPaused"
               PROVE  FALSE
    BY DEF ResetsComplete
  <2> DEFINE e == sock[p]
             o == Other(p)
             f == sock[o]
  <2>1. o \in Peers /\ Other(o) = p /\ e \in Socket /\ f \in Socket
    BY OtherPeer, InvGood
  <2>2. Way(e, f, heard[o], sends[p])
    BY DEF Inv
  <2>3. /\ \A r \in f.responses : HandleResponse(e, r) = e
        /\ e.req # NoRequest => e.req.sn # 0
        /\ e.req = NoRequest => ReadyToBeReset(e) = {}
        /\ Active(e) = {}
    BY DEF Quiet
  <2>4. \A r \in e.requests : /\ r.sn # f.lastSn + 1
                              /\ r.sn = f.lastSn => [sn |-> r.sn, result |-> f.lastResult] \in f.responses
    BY <2>1 DEF Quiet
  <2> HIDE DEF e, f, o
  <2>5. e.out[s].pause \in {"Pending", "Paused", "Resetting"}
    <3>1. e.out[s] \in OutgoingStream
      BY <2>1, SocketFields
    <3>2. e.out[s].pause \in {"NotPaused", "Pending", "Paused", "Resetting"}
      BY <3>1 DEF OutgoingStream
    <3> QED BY <3>2 DEF e
  <2>6. e.out[s].pause # "Pending"
    <3> SUFFICES ASSUME e.out[s].pause = "Pending" PROVE FALSE
      OBVIOUS
    <3>1. e.out[s].items # <<>>
      BY <2>2 DEF Way, SendOK, TailOK
    <3> QED BY <2>3, <3>1 DEF Active
  <2>7. e.req # NoRequest
    <3>1. CASE e.out[s].pause = "Paused"
      <4>1. s \in ReadyToBeReset(e)
        BY <3>1 DEF ReadyToBeReset
      <4> QED BY <2>3, <4>1
    <3>2. CASE e.out[s].pause = "Resetting"
      BY <2>2, <3>2 DEF Way, ReqOK
    <3> QED BY <2>5, <2>6, <3>1, <3>2
  <2>8. e.req.sn # 0 /\ e.req \in e.requests /\ e.req.sn = e.nextSn - 1
    BY <2>2, <2>3, <2>7 DEF Way, ReqOK
  <2>9. f.lastSn = e.req.sn
    <3>1. f.lastSn = e.nextSn - 1 \/ f.lastSn = e.nextSn - 2
      BY <2>2 DEF Way, LinkOK
    <3>2. e.nextSn \in Nat /\ f.lastSn \in Nat /\ e.req.sn # f.lastSn + 1
      BY <2>1, <2>4, <2>8, SocketFields
    <3> QED BY <2>8, <3>1, <3>2
  <2> DEFINE a == [sn |-> e.req.sn, result |-> f.lastResult]
  <2>10. a \in f.responses
    BY <2>4, <2>8, <2>9
  <2>11. a.sn = e.req.sn /\ a.result = f.lastResult /\ f.lastResult \in Results
         /\ f.lastResult # "ErrorBadSequenceNumber"
    BY <2>1, <2>2, SocketFields DEF Way, LinkOK
  <2> HIDE DEF a
  <2>12. HandleResponse(e, a) # e
    BY <2>1, <2>7, <2>8, <2>11, ResponseMatters
  <2> QED BY <2>3, <2>10, <2>12
<1> QED BY <1>1, InvHolds, PTL

\* Once all data has arrived the client has got every message, across any number of
\* resets of its stream: ReassemblyQueue holds nothing when it sets next_ssn_ back, so
\* what it resets cannot hide a chunk.
THEOREM NothingGetsStuck == Spec => []NothingIsStuck
<1>1. Inv => NothingIsStuck
  <2> SUFFICES ASSUME Inv, NEW p \in Peers, NEW s \in Sids,
                      sock[Other(p)].got = 1..Len(sock[p].log), sock[p].out[s].sent = 0,
                      NEW t \in 1..Len(sock[p].log), sock[p].log[t].sid = s
               PROVE  OnMessageReceived(sock[p].log, t) \in ToSet(heard[Other(p)])
    BY DEF NothingIsStuck
  <2> DEFINE L == sock[p].log
             y == sock[Other(p)]
             out == sock[p].out
             h == heard[Other(p)]
  <2>1. L \in Seq(Chunk) /\ y.in \in [Sids -> IncomingStream] /\ h \in Seq(Call)
    BY InvGood, OtherPeer, SocketFields
  <2>2. LogOK(L) /\ TailOK(L, out) /\ RecvOK(L, out, y.got, y.in) /\ HeardOK(L, y.got, y.in, h)
    BY DEF Inv, Way, SendOK
  <2>3. y.got = Tsns(L) /\ t \in Tsns(L) /\ L[t].sid = s /\ ~(out[s].sent > 0)
    BY DEF Tsns
  <2> HIDE DEF L, y, out, h
  <2>4. \A u \in Tsns(L) : L[u].sid = s => u \in y.got
    BY <2>3
  <2>5. y.in[s].ordered = {} /\ y.in[s].unordered = {}
    BY <2>1, <2>2, <2>3, <2>4, NothingHeld
  <2>6. Gone(L, y.got, y.in, t)
    BY <2>3, <2>5 DEF Gone, Held
  <2>7. PICK i \in 1..Len(h) : h[i] = OnMessageReceived(L, t)
    BY <2>2, <2>3, <2>6 DEF HeardOK
  <2>8. i \in DOMAIN h
    BY <2>1, LenProperties
  <2>9. OnMessageReceived(L, t) \in ToSet(h)
    BY <2>7, <2>8 DEF ToSet
  <2> QED BY <2>9 DEF L, h
<1> QED BY <1>1, InvHolds, PTL

\* No message is handed to the client twice, and the ordered messages of a stream are
\* handed to it in the order in which the peer sent them, also when SSNs start again
\* (TraditionalReassemblyStreams: "next_ssn_").
THEOREM MessagesAreHeardInOrder == Spec => []HeardInOrder
<1>1. Inv => HeardInOrder
  <2> SUFFICES ASSUME Inv, NEW p \in Peers, NEW i \in DOMAIN heard[p], NEW j \in DOMAIN heard[p], i < j,
                      heard[p][i].call = "OnMessageReceived", heard[p][j].call = "OnMessageReceived"
               PROVE  /\ heard[p][i].m.id # heard[p][j].m.id
                      /\ heard[p][i].sid = heard[p][j].sid /\ ~heard[p][i].m.unordered /\ ~heard[p][j].m.unordered =>
                           heard[p][i].m.id < heard[p][j].m.id
    BY DEF HeardInOrder
  <2> DEFINE h == heard[p]
  <2>1. Other(p) \in Peers /\ Other(Other(p)) = p /\ h \in Seq(Call)
    BY OtherPeer, InvGood
  <2>2. i \in 1..Len(h) /\ j \in 1..Len(h)
    BY <2>1, LenProperties
  <2>3. HeardOK(sock[Other(p)].log, sock[p].got, sock[p].in, h)
    BY <2>1 DEF Inv, Way
  <2>4. IsMessage(h[i]) /\ IsMessage(h[j])
    BY DEF IsMessage
  <2> HIDE DEF h
  <2>5. /\ h[i].m.id # h[j].m.id
        /\ h[i].sid = h[j].sid /\ ~h[i].m.unordered /\ ~h[j].m.unordered => h[i].m.id < h[j].m.id
    BY <2>2, <2>3, <2>4 DEF HeardOK
  <2> QED BY <2>5 DEF h
<1> QED BY <1>1, InvHolds, PTL
=============================================================================
