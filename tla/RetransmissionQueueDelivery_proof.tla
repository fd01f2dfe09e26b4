------------------ MODULE RetransmissionQueueDelivery_proof ------------------
(***************************************************************************)
(* A message that RetransmissionQueue reports as delivered is read by the  *)
(* peer's client, for every value of the constants.                        *)
(***************************************************************************)
EXTENDS RetransmissionQueueSafety_proof

-----------------------------------------------------------------------------
(* Whole messages in the log *)

\* Every message of the log l begins with its first fragment, and before the
\* next one begins it ends with its last fragment or with a placeholder.
RunOK(l, h) ==
    /\ \A t \in 1..Len(l) :
         /\ l[t].frag # 1 => t > 1 /\ l[t - 1].msg = l[t].msg
         /\ t < Len(l) /\ l[t + 1].msg # l[t].msg => l[t].frag \in {0, Fragments[l[t].msg]}
    /\ h.frag # 1 => Len(l) > 0 /\ l[Len(l)].msg = h.msg
    /\ Len(l) > 0 /\ l[Len(l)].msg # h.msg => l[Len(l)].frag \in {0, Fragments[l[Len(l)].msg]}

\* Messages that expired in the send queue are passed over.
LEMMA RunSkips ==
    ASSUME NEW l \in Seq(Entry), NEW n \in Nat, NEW h \in HeadType(n), LogOK(l, h), RunOK(l, h),
           h.frag = 1, NEW g, g.frag = 1
    PROVE  RunOK(l, g)
<1>1. ASSUME Len(l) > 0 PROVE l[Len(l)].msg # h.msg
  <2>1. Len(l) \in 1..Len(l) /\ Len(l) \in Nat
    BY <1>1, LenProperties
  <2>2. l[Len(l)].msg = h.msg => l[Len(l)].frag >= 1 /\ l[Len(l)].frag + (Len(l) + 1 - Len(l)) = 1
    BY <2>1 DEF LogOK
  <2>3. l[Len(l)].frag \in Nat
    BY <2>1, EntryFacts
  <2> QED BY <2>1, <2>2, <2>3
<1>2. Len(l) > 0 => l[Len(l)].frag \in {0, Fragments[l[Len(l)].msg]}
  BY <1>1 DEF RunOK
<1> QED BY <1>2 DEF RunOK

\* A fragment of the message of h, or its placeholder, is added.
LEMMA RunGrows ==
    ASSUME NEW l \in Seq(Entry), NEW h, RunOK(l, h),
           NEW k, Len(k) = Len(l) + 1, \A t \in 1..Len(l) : k[t] = l[t],
           k[Len(l) + 1].msg = h.msg, NEW g,
           k[Len(l) + 1].frag = h.frag \/ (k[Len(l) + 1].frag = 0 /\ h.frag # 1),
           \/ g.msg = h.msg
           \/ k[Len(l) + 1].frag \in {0, Fragments[h.msg]} /\ g.frag = 1
    PROVE  RunOK(k, g)
<1> DEFINE z == Len(l) + 1
<1>0. Len(l) \in Nat /\ z \in Nat
  BY LenProperties
<1>1. ASSUME NEW t \in 1..Len(l)
      PROVE  /\ k[t].frag # 1 => t > 1 /\ k[t - 1].msg = k[t].msg
             /\ k[t + 1].msg # k[t].msg => k[t].frag \in {0, Fragments[k[t].msg]}
  <2>1. k[t] = l[t] /\ t \in Nat
    BY <1>0
  <2>2. ASSUME l[t].frag # 1 PROVE t > 1 /\ k[t - 1].msg = l[t].msg
    <3>1. t > 1 /\ l[t - 1].msg = l[t].msg
      BY <2>2 DEF RunOK
    <3>2. t - 1 \in 1..Len(l)
      BY <1>0, <3>1
    <3> QED BY <3>1, <3>2
  <2>3. CASE t < Len(l)
    <3>1. t + 1 \in 1..Len(l)
      BY <1>0, <2>3
    <3> QED BY <2>1, <2>2, <2>3, <3>1 DEF RunOK
  <2>4. CASE ~(t < Len(l))
    <3>1. t = Len(l) /\ Len(l) > 0 /\ t + 1 = z
      BY <1>0, <2>4
    <3>2. k[t + 1].msg = h.msg
      BY <3>1
    <3> QED BY <2>1, <2>2, <3>1, <3>2 DEF RunOK
  <2> QED BY <2>3, <2>4
<1>2. ASSUME k[z].frag # 1 PROVE z > 1 /\ k[z - 1].msg = k[z].msg
  <2>1. h.frag # 1
    BY <1>2
  <2>2. Len(l) > 0 /\ l[Len(l)].msg = h.msg
    BY <2>1 DEF RunOK
  <2>3. Len(l) \in 1..Len(l) /\ z - 1 = Len(l) /\ z > 1
    BY <1>0, <2>2
  <2> QED BY <2>2, <2>3
<1>3. \A t \in 1..Len(k) : t = z \/ t \in 1..Len(l)
  BY <1>0
<1>4. Len(k) = z /\ ~(z < Len(k)) /\ z > 0
  BY <1>0
<1>5. k[z].msg = h.msg /\ (k[z].msg # g.msg => k[z].frag \in {0, Fragments[k[z].msg]})
      /\ (g.frag # 1 => k[z].msg = g.msg)
  OBVIOUS
<1> HIDE DEF z
<1> QED BY <1>1, <1>2, <1>3, <1>4, <1>5 DEF RunOK

LEMMA RunAbandon ==
    ASSUME NEW l \in Seq(Entry), NEW it, NEW h, NEW ms, AbandonShape(l, it, h, ms), RunOK(l, h),
           log' \in Seq(Entry)
    PROVE  RunOK(log', head')
<1>1. CASE Len(log') = Len(l) /\ head' = h
  <2>1. Len(log') = Len(l) /\ \A i \in 1..Len(l) : log'[i] = l[i]
    BY <1>1 DEF AbandonShape
  <2>2. log' = l
    BY <2>1, SeqEqual
  <2> QED BY <1>1, <2>2
<1>2. CASE /\ h.frag > 1 /\ Len(log') = Len(l) + 1
           /\ log'[Len(l) + 1] = [msg |-> h.msg, frag |-> 0]
           /\ head' = [msg |-> h.msg + 1, frag |-> 1]
  <2> DEFINE k == log'
             g == head'
  <2>1. /\ Len(k) = Len(l) + 1 /\ k[Len(l) + 1].msg = h.msg /\ k[Len(l) + 1].frag = 0
        /\ h.frag # 1 /\ g.frag = 1
    BY <1>2
  <2>2. \A t \in 1..Len(l) : k[t] = l[t]
    BY DEF AbandonShape
  <2> HIDE DEF k, g
  <2>3. RunOK(k, g)
    BY <2>1, <2>2, RunGrows
  <2> QED BY <2>3 DEF k, g
<1> QED BY <1>1, <1>2 DEF AbandonShape

\* AbandonAllFor from the log and the head of the state.
LEMMA RunAbandons ==
    ASSUME QueueOK, QueueOK', RunOK(log, head), NEW c \in Nat, c <= Len(log),
           NEW it \in [(c + 1)..Len(log) -> Item], NEW rtx, NEW ms,
           AbandonAllFor(log, it, rtx, head, ms)
    PROVE  RunOK(log, head)'
<1>1. /\ log \in Seq(Entry) /\ sends \in 0..Len(Fragments) /\ head \in HeadType(sends)
      /\ (head.frag > 1 => head.msg <= sends)
  BY QueueFacts
<1>2. AbandonShape(log, it, head, ms) /\ log' \in Seq(Entry)
  BY <1>1, AbandonEffect
<1> QED BY <1>1, <1>2, RunAbandon

LEMMA RunProduces ==
    ASSUME QueueOK, SafeOK, RunOK(log, head), HasData,
           NEW k, Len(k) = Len(log) + 1, \A t \in 1..Len(log) : k[t] = log[t],
           k[Len(log) + 1] = NextHead
    PROVE  RunOK(k, AfterHead)
<1>1. log \in Seq(Entry) /\ sends \in Nat /\ head \in HeadType(sends) /\ LogOK(log, head)
  BY QueueFacts DEF SafeOK
<1> DEFINE h == NextHead
           g == AfterHead
<1>2. RunOK(log, h)
  <2>1. CASE h = head
    BY <2>1
  <2>2. CASE h.frag = 1 /\ head.frag = 1
    BY <1>1, <2>2, RunSkips
  <2> QED BY <2>1, <2>2, HeadFacts
<1>3. \/ g.msg = h.msg
      \/ h.frag \in {0, Fragments[h.msg]} /\ g.frag = 1
  BY AfterHeadFacts
<1> HIDE DEF h, g
<1>4. k[Len(log) + 1].msg = h.msg /\ k[Len(log) + 1].frag = h.frag
  BY DEF h
<1>5. RunOK(k, g)
  BY <1>1, <1>2, <1>3, <1>4, RunGrows
<1> QED BY <1>5 DEF g

RunInv == RunOK(log, head)

LEMMA NextRun ==
    ASSUME QueueOK, QueueOK', SafeOK, RunInv, [Next]_vars
    PROVE  RunInv'
<1>0. /\ RunOK(log, head) /\ cum \in Nat /\ cum <= Len(log) /\ item \in [(cum + 1)..Len(log) -> Item]
      /\ log \in Seq(Entry) /\ sends \in Nat /\ head \in HeadType(sends) /\ LogOK(log, head)
  BY QueueFacts DEF RunInv, SafeOK
<1>1. CASE log' = log /\ head' = head
  BY <1>0, <1>1 DEF RunInv
<1>2. CASE \/ Send \/ ResetStreams \/ LimitEnds \/ (\E m \in Messages : Expire(m)) \/ Retransmit
           \/ (\E t \in sent : ReceiveData(t)) \/ (\E f \in fwds : ReceiveForwardTsn(f))
           \/ (\E b \in resets : ReceiveResetRequest(b)) \/ UNCHANGED vars
  <2>1. log' = log /\ head' = head
    BY <1>2 DEF Send, ResetStreams, LimitEnds, Expire, Retransmit, ReceiveData, ReceiveForwardTsn,
                ReceiveResetRequest, vars, outstanding
  <2> QED BY <1>1, <2>1
<1>3. CASE SendNothing
  <2>1. log' = log /\ head' \in {head, NextHead}
    BY <1>3 DEF SendNothing, outstanding
  <2>2. CASE head' = head
    BY <1>1, <2>1, <2>2
  <2>3. CASE head' = NextHead /\ NextHead.frag = 1 /\ head.frag = 1
    <3> DEFINE g == NextHead
    <3>1. g.frag = 1
      BY <2>3
    <3> HIDE DEF g
    <3>2. RunOK(log, g)
      BY <1>0, <2>3, <3>1, RunSkips
    <3> QED BY <2>1, <2>3, <3>2 DEF RunInv, g
  <2> QED BY <2>1, <2>2, <2>3, HeadFacts
<1>4. CASE SendControl
  <2>1. \/ log' = log /\ head' = head
        \/ AbandonAllFor(log, item, toRtx, head, ExpiredMessages)
    BY <1>4, SendControlFacts
  <2> DEFINE ms == ExpiredMessages
  <2>2. CASE AbandonAllFor(log, item, toRtx, head, ms)
    <3> HIDE DEF ms
    <3> QED BY <1>0, <2>2, RunAbandons DEF RunInv
  <2> QED BY <1>1, <2>1, <2>2
<1>5. CASE Produce
  <2>1. log' = Append(log, NextHead) /\ head' = AfterHead /\ HasData
    BY <1>5 DEF Produce
  <2>2. NextHead \in Entry
    BY <2>1, AfterHeadFacts
  <2>3. /\ Len(log') = Len(log) + 1 /\ log'[Len(log) + 1] = NextHead
        /\ \A t \in 1..Len(log) : log'[t] = log[t]
    BY <1>0, <2>1, <2>2, AppendProperties
  <2> DEFINE k == log'
  <2> HIDE DEF k
  <2>4. RunOK(k, AfterHead)
    <3>1. /\ Len(k) = Len(log) + 1 /\ k[Len(log) + 1] = NextHead
          /\ \A t \in 1..Len(log) : k[t] = log[t]
      BY <2>3 DEF k
    <3> QED BY <1>0, <2>1, <3>1, RunProduces
  <2> QED BY <2>1, <2>4 DEF RunInv, k
<1>6. CASE ProduceExpired
  <2> DEFINE l == Append(log, head)
             ms == {head.msg}
             h == AfterHead
             it == WithChunk
  <2>1. /\ HasData /\ NextHead = head /\ it \in [(cum + 1)..Len(l) -> Item]
        /\ AbandonAllFor(l, it, toRtx, h, ms)
        /\ l \in Seq(Entry) /\ Len(l) = Len(log) + 1 /\ l[Len(log) + 1] = head
        /\ \A t \in 1..Len(log) : l[t] = log[t]
    BY <1>6, ProduceExpiredFacts
  <2>2. h \in HeadType(sends) /\ (h.frag > 1 => h.msg <= sends) /\ sends \in 0..Len(Fragments)
    BY <2>1, AfterHeadFacts, QueueFacts
  <2>3. cum <= Len(l)
    <3>1. Len(log) \in Nat
      BY QueueFacts
    <3> HIDE DEF l
    <3> QED BY <1>0, <2>1, <3>1
  <2> HIDE DEF l, ms, it
  <2>4. RunOK(l, h)
    BY <1>0, <2>1, RunProduces
  <2> HIDE DEF h
  <2>5. AbandonShape(l, it, h, ms) /\ log' \in Seq(Entry)
    <3>1. cum \in Nat /\ l \in Seq(Entry) /\ h \in HeadType(sends) /\ it \in [(cum + 1)..Len(l) -> Item]
      BY <1>0, <2>1, <2>2
    <3> QED BY <2>1, <2>2, <2>3, <3>1, AbandonEffect
  <2> QED BY <2>1, <2>4, <2>5, RunAbandon DEF RunInv
<1>7. CASE \E s \in sacks, a \in PeerWindows : HandleSack(s, a)
  <2>1. PICK s \in sacks, a \in PeerWindows : HandleSack(s, a)
    BY <1>7
  <2> DEFINE it == SackResult(s)
             ms == SackGone(s)
             rtx == SackRtx(s)
             c == CumulativeAck(s)
  <2>2. AbandonAllFor(log, it, rtx, head, ms) /\ IsSackValid(s)
    BY <2>1, HandleSackFacts
  <2>3. c \in Nat /\ c <= Len(log) /\ it \in [(c + 1)..Len(log) -> Item]
    BY <2>2, QueueFacts, MissingFacts, SackResultFacts
  <2> HIDE DEF it, ms, rtx, c
  <2> QED BY <1>0, <2>2, <2>3, RunAbandons DEF RunInv
<1>8. CASE OnRtxTimerExpiry
  <2> DEFINE it == TimerResult
             ms == TimerGone
             rtx == toRtx \cup TimerLost
  <2>1. AbandonAllFor(log, it, rtx, head, ms)
    BY <1>8, TimerFacts
  <2>2. it \in [(cum + 1)..Len(log) -> Item]
    BY QueueFacts, TimerResultFacts
  <2> HIDE DEF it, ms, rtx
  <2> QED BY <1>0, <2>1, <2>2, RunAbandons DEF RunInv
<1> QED BY <1>2, <1>3, <1>4, <1>5, <1>6, <1>7, <1>8 DEF Next

LEMMA InitRun == Init => RunInv
<1> SUFFICES ASSUME Init PROVE RunInv
  OBVIOUS
<1>1. Len(log) = 0 /\ head.frag = 1
  BY EmptySeq DEF Init
<1>2. 1..Len(log) = {}
  BY <1>1
<1> QED BY <1>1, <1>2 DEF RunInv, RunOK

-----------------------------------------------------------------------------
(* The stream at the peer *)

\* Chunk u is the last one of its message.
Complete(u) == log[u].frag = Fragments[MessageOf(u)]

\* Message m is given up, and will not be reported as delivered.
Gone(m) == /\ m \notin delivered
           /\ \A t \in Outstanding : MessageOf(t) = m => item[t].life = "Abandoned"

\* Message m need not be read.
Excused(m) == ResetInsideBefore(m) \/ Gone(m)

\* Of the chunks A that have arrived, those that were neither read nor skipped are
\* held; what could be read has been; and what was passed over need not be read.
HeldOK(r, A) == \A t \in A : Ssn(t) >= r.next => t \in r.held
StuckOK(r) == Whole(ChunksOf(r, r.next)) => \E t \in r.held : Ssn(t) < r.next
PassedOK(r) == \A u \in 1..Len(log) : Complete(u) /\ Ssn(u) < r.next =>
                  MessageOf(u) \in ToSet(r.read) \/ Excused(MessageOf(u))
StreamOK(r, A) == HeldOK(r, A) /\ StuckOK(r) /\ PassedOK(r)

\* Chunks of n different messages are at least n chunks.
LEMMA ManyChunks ==
    ASSUME NEW N \in Nat, NEW H, H \subseteq 1..N, NEW a \in Nat, NEW n \in Nat,
           \A i \in a..(a + n - 1) : \E t \in H : Ssn(t) = i
    PROVE  n <= Cardinality(H)
<1> DEFINE I == a..(a + n - 1)
           f == [i \in I |-> CHOOSE t \in H : Ssn(t) = i]
<1>1. IsFiniteSet(H) /\ Cardinality(H) \in Nat
  <2>1. H \subseteq 0..N
    OBVIOUS
  <2> QED BY <2>1, FiniteInterval, FS_CardinalityType
<1>2. \A i \in I : f[i] \in H /\ Ssn(f[i]) = i
  OBVIOUS
<1>3. Cardinality(I) = n
  <2>1. a \in Int /\ a + n - 1 \in Int
    OBVIOUS
  <2>2. Cardinality(a..(a + n - 1)) = IF a > a + n - 1 THEN 0 ELSE (a + n - 1) - a + 1
    BY <2>1, FS_Interval
  <2> QED BY <2>2
<1>4. f \in [I -> H]
  BY <1>2
<1> HIDE DEF I, f
<1>5. f \in Injection(I, H)
  BY <1>2, <1>4 DEF Injection, IsInjective
<1>6. Cardinality(I) <= Cardinality(H)
  BY <1>1, <1>5, FS_Injection
<1> QED BY <1>3, <1>6

LEMMA Offset ==
    \A a, k \in Nat :
        /\ \A n \in a..(a + (k + 1) - 1) : n \in a..(a + k - 1) \/ n = a + k
        /\ \A n \in Nat : ~(n < a) /\ n < a + k =>
             n - a + 1 \in 1..k /\ n \in a..(a + k - 1) /\ a + (n - a + 1) - 1 = n
OBVIOUS

LEMMA AssembleStuck ==
    ASSUME QueueOK, NEW A, A \subseteq 1..Len(log), NEW r \in Streams(A)
    PROVE  StuckOK(TryToAssembleMessages(r))
<1> DEFINE q == TryToAssembleMessages(r)
<1>1. PICK k \in Nat :
        /\ CanAssemble(r, k) /\ (k < Cardinality(r.held) => ~CanAssemble(r, k + 1))
        /\ q.next = r.next + k
        /\ q.held = {t \in r.held : Ssn(t) \notin r.next..(r.next + k - 1)}
  BY AssembleFacts
<1> HIDE DEF q
<1>0. r.next \in Nat /\ r.held \subseteq 1..Len(log) /\ Len(log) \in Nat
      /\ \A t \in 1..Len(log) : Ssn(t) \in Nat
  BY QueueFacts, SsnSetFacts DEF Streams
<1> SUFFICES ASSUME Whole(ChunksOf(q, q.next)), ~\E t \in q.held : Ssn(t) < q.next
             PROVE  FALSE
  BY DEF StuckOK, q
<1>2. ASSUME NEW t \in r.held PROVE Ssn(t) >= r.next
  <2> SUFFICES ASSUME Ssn(t) < r.next PROVE FALSE
    BY <1>0
  <2>1. Ssn(t) \notin r.next..(r.next + k - 1) /\ Ssn(t) < q.next
    BY <1>0, <1>1
  <2> QED BY <1>1, <2>1
<1>3. ChunksOf(q, q.next) = ChunksOf(r, r.next + k)
  <2>1. r.next + k \notin r.next..(r.next + k - 1)
    BY <1>0
  <2> QED BY <1>1, <2>1 DEF ChunksOf
<1>4. ASSUME NEW n \in r.next..(r.next + (k + 1) - 1) PROVE Whole(ChunksOf(r, n))
  <2>1. n \in r.next..(r.next + k - 1) \/ n = r.next + k
    BY <1>0, Offset
  <2> QED BY <1>1, <1>3, <2>1 DEF CanAssemble
<1>5. CanAssemble(r, k + 1)
  BY <1>2, <1>4 DEF CanAssemble
<1>6. \A n \in r.next..(r.next + (k + 1) - 1) : \E t \in r.held : Ssn(t) = n
  <2>1. \A n \in r.next..(r.next + (k + 1) - 1) : ChunksOf(r, n) # {}
    BY <1>4 DEF Whole
  <2> QED BY <2>1 DEF ChunksOf
<1> DEFINE H == r.held
           a == r.next
           j == k + 1
<1>7. j \in Nat /\ a \in Nat /\ H \subseteq 1..Len(log)
  BY <1>0
<1>8. \A n \in a..(a + j - 1) : \E t \in H : Ssn(t) = n
  BY <1>6
<1> HIDE DEF H, a, j
<1>9. j <= Cardinality(H)
  BY <1>0, <1>7, <1>8, ManyChunks
<1>10. Cardinality(H) \in Nat
  <2>1. H \subseteq 0..Len(log)
    BY <1>0, <1>7
  <2> QED BY <1>0, <2>1, FiniteInterval
<1>11. k < Cardinality(r.held)
  BY <1>9, <1>10 DEF H, j
<1> QED BY <1>1, <1>5, <1>11

LEMMA AssembleStream ==
    ASSUME QueueOK, SafeOK, NEW A, A \subseteq 1..Len(log), NEW r \in Streams(A),
           HeldOK(r, A), PassedOK(r)
    PROVE  /\ TryToAssembleMessages(r) \in Streams(A) /\ StreamOK(TryToAssembleMessages(r), A)
           /\ r.next <= TryToAssembleMessages(r).next
<1> DEFINE q == TryToAssembleMessages(r)
<1>1. PICK k \in Nat :
        /\ CanAssemble(r, k) /\ q \in Streams(A) /\ q.next = r.next + k
        /\ q.held = {t \in r.held : Ssn(t) \notin r.next..(r.next + k - 1)}
        /\ Len(q.read) = Len(r.read) + k
        /\ \A i \in 1..Len(r.read) : q.read[i] = r.read[i]
        /\ \A i \in 1..k : q.read[Len(r.read) + i] = MessageOf(Min(ChunksOf(r, r.next + i - 1)))
  BY AssembleFacts
<1>2. StuckOK(q)
  BY AssembleStuck
<1> HIDE DEF q
<1>0. /\ r.next \in Nat /\ r.held \subseteq 1..Len(log)
      /\ r.read \in Seq(Messages) /\ q.read \in Seq(Messages)
      /\ Len(r.read) \in Nat /\ DOMAIN r.read = 1..Len(r.read) /\ DOMAIN q.read = 1..(Len(r.read) + k)
      /\ \A t \in 1..Len(log) : Ssn(t) \in Nat
  <2>1. r.read \in Seq(Messages) /\ q.read \in Seq(Messages) /\ r.next \in Nat /\ r.held \subseteq A
    BY <1>1 DEF Streams
  <2>2. DOMAIN r.read = 1..Len(r.read) /\ DOMAIN q.read = 1..Len(q.read) /\ Len(r.read) \in Nat
    BY <2>1, LenProperties
  <2>3. \A t \in 1..Len(log) : Ssn(t) \in Nat
    BY SsnSetFacts
  <2> QED BY <1>1, <2>1, <2>2, <2>3
<1>3. ASSUME NEW t \in A, Ssn(t) >= q.next PROVE t \in q.held
  <2>1. Ssn(t) \in Nat
    BY <1>0
  <2>2. Ssn(t) >= r.next /\ Ssn(t) \notin r.next..(r.next + k - 1)
    BY <1>0, <1>1, <1>3, <2>1
  <2> QED BY <1>1, <2>2 DEF HeldOK
<1>4. ASSUME NEW u \in 1..Len(log), Complete(u), Ssn(u) < q.next
      PROVE  MessageOf(u) \in ToSet(q.read) \/ Excused(MessageOf(u))
  <2>1. CASE Ssn(u) < r.next
    <3>1. ToSet(r.read) \subseteq ToSet(q.read)
      <4>1. \A i \in 1..Len(r.read) : i \in 1..(Len(r.read) + k)
        BY <1>0
      <4> QED BY <1>0, <1>1, <4>1 DEF ToSet
    <3> QED BY <1>4, <2>1, <3>1 DEF PassedOK
  <2>2. CASE ~(Ssn(u) < r.next)
    <3> DEFINE i == Ssn(u) - r.next + 1
               C == ChunksOf(r, Ssn(u))
    <3>1. Ssn(u) \in Nat /\ Ssn(u) < r.next + k
      BY <1>0, <1>1, <1>4
    <3>2. i \in 1..k /\ Ssn(u) \in r.next..(r.next + k - 1) /\ r.next + i - 1 = Ssn(u)
      BY <1>0, <2>2, <3>1, Offset
    <3>3. Whole(C)
      BY <1>1, <3>2 DEF CanAssemble
    <3>4. C \subseteq 1..Len(log) /\ C # {} /\ C \subseteq Nat
      <4>1. C \subseteq 1..Len(log)
        BY <1>0 DEF ChunksOf
      <4> QED BY <3>3, <4>1 DEF Whole
    <3>5. Min(C) \in C
      <4> HIDE DEF C
      <4> QED BY <3>4, MinOf
    <3>6. Ssn(Min(C)) = Ssn(u) /\ Min(C) \in 1..Len(log)
      BY <3>4, <3>5 DEF ChunksOf
    <3>7. MessageOf(Min(C)) = MessageOf(u)
      BY <3>6, SsnOrder
    <3>8. q.read[Len(r.read) + i] = MessageOf(u)
      <4>1. q.read[Len(r.read) + i] = MessageOf(Min(ChunksOf(r, r.next + i - 1)))
        BY <1>1, <3>2
      <4> QED BY <3>2, <3>7, <4>1
    <3> HIDE DEF i
    <3>9. Len(r.read) + i \in DOMAIN q.read
      BY <1>0, <3>2
    <3> QED BY <3>8, <3>9 DEF ToSet
  <2> QED BY <2>1, <2>2
<1>5. r.next <= q.next
  BY <1>0, <1>1
<1>6. StreamOK(q, A)
  BY <1>2, <1>3, <1>4 DEF StreamOK, HeldOK, PassedOK
<1> QED BY <1>1, <1>5, <1>6 DEF q

\* A chunk is added.
LEMMA AddStream ==
    ASSUME QueueOK, SafeOK, NEW A, A \subseteq 1..Len(log), NEW r \in Streams(A), StreamOK(r, A),
           NEW t \in 1..Len(log)
    PROVE  StreamOK(AddChunk(r, t), A \cup {t}) /\ r.next <= AddChunk(r, t).next
<1> DEFINE B == A \cup {t}
<1>0. /\ r.next \in Nat /\ B \subseteq 1..Len(log) /\ A \subseteq B /\ r.held \subseteq A
      /\ r.read \in Seq(Messages) /\ \A u \in 1..Len(log) : Ssn(u) \in Nat
  BY SsnSetFacts DEF Streams
<1>1. WithHeld(r, t) \in Streams(B) /\ WithRead(r, t) \in Streams(B)
  BY StreamUpdates DEF Streams
<1>2. /\ WithHeld(r, t).next = r.next /\ WithHeld(r, t).held = r.held \cup {t}
      /\ WithHeld(r, t).read = r.read
      /\ WithRead(r, t).next = r.next + 1 /\ WithRead(r, t).held = r.held
      /\ WithRead(r, t).read = Append(r.read, MessageOf(t))
  BY DEF WithHeld, WithRead
<1>3. HeldOK(WithHeld(r, t), B) /\ PassedOK(WithHeld(r, t))
  BY <1>2 DEF StreamOK, HeldOK, PassedOK
<1> HIDE DEF B
<1>4. CASE AddChunk(r, t) = TryToAssembleMessages(WithHeld(r, t))
  <2> DEFINE q == WithHeld(r, t)
  <2>1. q \in Streams(B) /\ HeldOK(q, B) /\ PassedOK(q) /\ q.next = r.next
    BY <1>1, <1>2, <1>3
  <2> HIDE DEF q
  <2>2. StreamOK(TryToAssembleMessages(q), B) /\ q.next <= TryToAssembleMessages(q).next
    BY <1>0, <2>1, AssembleStream
  <2> QED BY <1>4, <2>1, <2>2 DEF q, B
<1>5. CASE AddChunk(r, t) = WithHeld(r, t) /\ Ssn(t) # r.next
  <2>1. StuckOK(WithHeld(r, t))
    <3>1. ChunksOf(WithHeld(r, t), r.next) = ChunksOf(r, r.next)
      BY <1>2, <1>5 DEF ChunksOf
    <3> QED BY <1>2, <3>1 DEF StreamOK, StuckOK
  <2>2. r.next <= r.next
    BY <1>0
  <2> QED BY <1>2, <1>3, <1>5, <2>1, <2>2 DEF StreamOK, B
<1>6. CASE AddChunk(r, t) = TryToAssembleMessages(WithRead(r, t)) /\ Ssn(t) = r.next
  <2> DEFINE q == WithRead(r, t)
  <2>1. q \in Streams(B) /\ q.next = r.next + 1
    BY <1>1, <1>2
  <2>2. HeldOK(q, B)
    <3> SUFFICES ASSUME NEW u \in B, Ssn(u) >= r.next + 1 PROVE u \in r.held
      BY <1>2 DEF HeldOK
    <3>1. Ssn(u) \in Nat /\ u # t /\ Ssn(u) >= r.next
      BY <1>0, <1>6
    <3> QED BY <3>1 DEF B, StreamOK, HeldOK
  <2>3. PassedOK(q)
    <3>1. MessageOf(t) \in Messages
      BY QueueFacts
    <3>2. /\ Len(q.read) = Len(r.read) + 1 /\ q.read[Len(r.read) + 1] = MessageOf(t)
          /\ \A i \in 1..Len(r.read) : q.read[i] = r.read[i]
          /\ Len(r.read) \in Nat /\ DOMAIN r.read = 1..Len(r.read)
          /\ q.read \in Seq(Messages)
      BY <1>0, <1>2, <3>1, AppendProperties, LenProperties
    <3>3. DOMAIN q.read = 1..(Len(r.read) + 1)
      BY <3>2, LenProperties
    <3>4. \A i \in 1..Len(r.read) : i \in DOMAIN q.read
      BY <3>2, <3>3
    <3>5. Len(r.read) + 1 \in DOMAIN q.read
      BY <3>2, <3>3
    <3>6. ToSet(r.read) \subseteq ToSet(q.read) /\ MessageOf(t) \in ToSet(q.read)
      BY <3>2, <3>4, <3>5 DEF ToSet
    <3> SUFFICES ASSUME NEW u \in 1..Len(log), Complete(u), Ssn(u) < r.next + 1
                 PROVE  MessageOf(u) \in ToSet(q.read) \/ Excused(MessageOf(u))
      BY <2>1 DEF PassedOK
    <3>7. Ssn(u) \in Nat
      BY <1>0
    <3>8. CASE Ssn(u) < r.next
      BY <3>6, <3>8 DEF StreamOK, PassedOK
    <3>9. CASE Ssn(u) = r.next
      BY <1>6, <3>6, <3>9, SsnOrder
    <3> QED BY <1>0, <3>7, <3>8, <3>9
  <2> HIDE DEF q
  <2>4. StreamOK(TryToAssembleMessages(q), B) /\ q.next <= TryToAssembleMessages(q).next
        /\ TryToAssembleMessages(q) \in Streams(B)
    BY <1>0, <2>1, <2>2, <2>3, AssembleStream
  <2>5. TryToAssembleMessages(q).next \in Nat
    BY <2>4 DEF Streams
  <2>6. r.next <= TryToAssembleMessages(q).next
    BY <1>0, <2>1, <2>4, <2>5
  <2> QED BY <1>6, <2>4, <2>6 DEF q, B
<1> QED BY <1>4, <1>5, <1>6, StreamSteps

LEMMA SsnInt ==
    ASSUME QueueOK, NEW f \in 0..Len(log)
    PROVE  Ssn(f) \in Int /\ (f = 0 => Ssn(f) = -1)
<1>1. CASE f = 0
  <2>1. {MessageOf(u) : u \in 1..0} = {}
    OBVIOUS
  <2>2. Cardinality({MessageOf(u) : u \in 1..0}) = 0
    BY <2>1, FS_EmptySet
  <2> QED BY <1>1, <2>2 DEF Ssn
<1>2. CASE f # 0
  <2>1. f > 0
    BY <1>2, QueueFacts
  <2> QED BY <1>2, <2>1, SsnType
<1> QED BY <1>1, <1>2

\* A FORWARD-TSN to f passes over nothing that must be read.
Crossable(r, f) ==
    \A u \in 1..Len(log) : Complete(u) /\ Ssn(u) <= Ssn(f) =>
        Ssn(u) < r.next \/ Excused(MessageOf(u))

LEMMA EraseStream ==
    ASSUME QueueOK, SafeOK, NEW A, A \subseteq 1..Len(log), NEW r \in Streams(A), StreamOK(r, A),
           NEW f \in 0..Len(log), Crossable(r, f)
    PROVE  /\ EraseTo(r, f) \in Streams(A) /\ StreamOK(EraseTo(r, f), A)
           /\ r.next <= EraseTo(r, f).next /\ Ssn(f) < EraseTo(r, f).next
<1> DEFINE q == Erased(r, f)
<1>0. /\ r.next \in Nat /\ r.held \subseteq A /\ Ssn(f) + 1 \in Nat
      /\ \A u \in 1..Len(log) : Ssn(u) \in Nat
  BY SsnType, SsnSetFacts DEF Streams
<1>1. q \in Streams(A)
  BY SsnType, StreamUpdates
<1>2. q.next = Max2(r.next, Ssn(f) + 1) /\ q.read = r.read /\ q.held = {t \in r.held : Ssn(t) > Ssn(f)}
  BY DEF Erased
<1> HIDE DEF q
<1>3. /\ q.next \in Nat /\ r.next <= q.next /\ Ssn(f) + 1 <= q.next
      /\ q.next = r.next \/ q.next = Ssn(f) + 1
  BY <1>0, <1>2 DEF Max2
<1>4. HeldOK(q, A)
  <2> SUFFICES ASSUME NEW t \in A, Ssn(t) >= q.next PROVE t \in r.held /\ Ssn(t) > Ssn(f)
    BY <1>2 DEF HeldOK
  <2>1. Ssn(t) \in Nat
    BY <1>0
  <2>2. Ssn(f) \in Int
    BY SsnInt
  <2>3. Ssn(t) >= r.next /\ Ssn(t) > Ssn(f)
    BY <1>0, <1>3, <2>1, <2>2
  <2> QED BY <2>3 DEF StreamOK, HeldOK
<1>5. PassedOK(q)
  <2> SUFFICES ASSUME NEW u \in 1..Len(log), Complete(u), Ssn(u) < q.next
               PROVE  MessageOf(u) \in ToSet(r.read) \/ Excused(MessageOf(u))
    BY <1>2 DEF PassedOK
  <2>1. Ssn(u) \in Nat
    BY <1>0
  <2>2. Ssn(f) \in Int
    BY SsnInt
  <2>3. Ssn(u) < r.next \/ Ssn(u) <= Ssn(f)
    BY <1>0, <1>3, <2>1, <2>2
  <2> QED BY <2>3 DEF StreamOK, PassedOK, Crossable
<1>6. /\ TryToAssembleMessages(q) \in Streams(A) /\ StreamOK(TryToAssembleMessages(q), A)
      /\ q.next <= TryToAssembleMessages(q).next
  BY <1>1, <1>4, <1>5, AssembleStream
<1>7. EraseTo(r, f) = TryToAssembleMessages(q)
  BY StreamSteps DEF q
<1>8. r.next <= EraseTo(r, f).next /\ Ssn(f) < EraseTo(r, f).next
  <2> DEFINE n == TryToAssembleMessages(q).next
  <2>1. n \in Nat
    BY <1>6 DEF Streams
  <2>2. q.next <= n
    BY <1>6
  <2>3. Ssn(f) \in Int
    BY SsnInt
  <2> HIDE DEF n
  <2>4. r.next <= n /\ Ssn(f) < n
    BY <1>0, <1>3, <2>1, <2>2, <2>3
  <2> QED BY <1>7, <2>4 DEF n
<1> QED BY <1>6, <1>7, <1>8

-----------------------------------------------------------------------------
(* What has arrived is read *)

LEMMA Sorted ==
    ASSUME QueueOK, SafeOK, NEW t \in 1..Len(log), NEW u \in 1..Len(log), t <= u
    PROVE  /\ MessageOf(t) <= MessageOf(u) /\ Ssn(t) <= Ssn(u)
           /\ MessageOf(t) \in Nat /\ MessageOf(u) \in Nat /\ Ssn(t) \in Nat /\ Ssn(u) \in Nat
<1>1. t \in Nat /\ u \in Nat /\ MessageOf(t) \in Nat /\ MessageOf(u) \in Nat
  BY QueueFacts, EntryFacts DEF MessageOf
<1>2. MessageOf(t) <= MessageOf(u)
  <2>1. t < u => MessageOf(t) <= MessageOf(u)
    BY DEF SafeOK, LogOK, MessageOf
  <2> QED BY <1>1, <2>1
<1>3. Ssn(t) \in Nat /\ Ssn(u) \in Nat
  BY SsnOrder
<1>4. Ssn(t) = Ssn(u) <=> MessageOf(t) = MessageOf(u)
  BY SsnOrder
<1>5. Ssn(t) < Ssn(u) <=> MessageOf(t) < MessageOf(u)
  BY SsnOrder
<1> QED BY <1>1, <1>2, <1>3, <1>4, <1>5

\* SSNs leave no number out.
LEMMA SsnStep ==
    ASSUME QueueOK, NEW t \in 1..Len(log)
    PROVE  Ssn(t) <= Ssn(t - 1) + 1 /\ t - 1 \in 0..Len(log)
<1> DEFINE S == {MessageOf(u) : u \in 1..(t - 1)}
           x == MessageOf(t)
<1>0. Len(log) \in Nat /\ t \in Nat /\ t - 1 \in 0..Len(log)
  BY QueueFacts
<1>1. SsnSet(t) = S \cup {x}
  <2>1. 1..t = 1..(t - 1) \cup {t}
    BY <1>0
  <2> QED BY <2>1 DEF SsnSet
<1>2. IsFiniteSet(SsnSet(t)) /\ Ssn(t) = Cardinality(SsnSet(t)) - 1
  BY SsnSetFacts
<1>3. IsFiniteSet(S)
  <2>1. S \subseteq SsnSet(t)
    BY <1>1
  <2> HIDE DEF S
  <2> QED BY <1>2, <2>1, FS_Subset
<1>4. Ssn(t - 1) = Cardinality(S) - 1
  BY DEF Ssn
<1> HIDE DEF S, x
<1>5. Cardinality(S \cup {x}) \in {Cardinality(S), Cardinality(S) + 1} /\ Cardinality(S) \in Nat
  BY <1>3, FS_AddElement, FS_CardinalityType
<1> QED BY <1>0, <1>1, <1>2, <1>4, <1>5

\* When the chunks after g, up to the end u of a message, have arrived and g is
\* behind, the message is behind as well: it was read, or skipped, unless a stale
\* chunk is in the way.
LEMMA NothingWaits ==
    ASSUME QueueOK, SafeOK, RunInv, NEW A, A \subseteq 1..Len(log), \A t \in A : log[t].frag # 0,
           NEW r \in Streams(A), HeldOK(r, A), StuckOK(r),
           \A t \in r.held : Ssn(t) < r.next => Cut(t),
           NEW g \in 0..Len(log), Ssn(g) < r.next,
           NEW u \in 1..Len(log), Complete(u), (g + 1)..u \subseteq A
    PROVE  Ssn(u) < r.next \/ ResetInsideBefore(MessageOf(u))
<1> SUFFICES ASSUME ~(Ssn(u) < r.next) PROVE ResetInsideBefore(MessageOf(u))
  OBVIOUS
<1>0. r.next \in Nat /\ Len(log) \in Nat /\ u \in Nat /\ g \in Nat
  <2>1. r.next \in Nat
    BY DEF Streams
  <2>2. Len(log) \in Nat
    BY QueueFacts
  <2> QED BY <2>1, <2>2
<1>a. r.held \subseteq A
  BY DEF Streams
<1>b. \A t \in 1..Len(log) : Ssn(t) \in Nat /\ MessageOf(t) \in Nat
  BY SsnSetFacts, QueueFacts, FragmentsType
<1>1. PICK a \in 1..u : Ssn(a) >= r.next /\ \A v \in 1..Len(log) : v < a => Ssn(v) < r.next
  <2> DEFINE T == {t \in 1..u : Ssn(t) >= r.next}
             a == Min(T)
  <2>1. u \in T /\ T \subseteq Nat
    <3>0. Ssn(u) \in Nat
      BY <1>b
    <3>1. u \in 1..u /\ Ssn(u) \in Nat
      BY <1>0, <3>0
    <3>2. Ssn(u) >= r.next
      BY <1>0, <3>1
    <3> QED BY <1>0, <3>1, <3>2
  <2>2. a \in T /\ \A v \in T : a <= v
    <3> HIDE DEF T
    <3> QED BY <2>1, MinOf
  <2> HIDE DEF a
  <2>3. ASSUME NEW v \in 1..Len(log), v < a PROVE Ssn(v) < r.next
    <3>1. v \in 1..u /\ a \in 1..u /\ ~(a <= v)
      BY <1>0, <2>2, <2>3
    <3>2. v \notin T
      BY <2>2, <3>1
    <3>3. ~(Ssn(v) >= r.next)
      BY <3>1, <3>2
    <3>4. Ssn(v) \in Nat
      BY <1>b
    <3> QED BY <1>0, <3>3, <3>4
  <2> QED BY <2>2, <2>3
<1>2. a \in 1..Len(log) /\ a \in Nat /\ a <= u
  BY <1>0
<1>3. Ssn(a - 1) < r.next /\ Ssn(a) = r.next
  <2>1. Ssn(a) <= Ssn(a - 1) + 1 /\ a - 1 \in 0..Len(log)
    BY <1>2, SsnStep
  <2>2. Ssn(a - 1) \in Int /\ (a - 1 = 0 => Ssn(a - 1) = -1)
    <3> DEFINE w == a - 1
    <3>1. w \in 0..Len(log)
      BY <2>1
    <3> HIDE DEF w
    <3>2. Ssn(w) \in Int /\ (w = 0 => Ssn(w) = -1)
      BY <3>1, SsnInt
    <3> QED BY <3>2 DEF w
  <2>3. Ssn(a - 1) < r.next
    <3>1. CASE a - 1 = 0
      BY <1>0, <2>2, <3>1
    <3>2. CASE a - 1 # 0
      <4>1. a - 1 \in 1..Len(log) /\ a - 1 < a
        BY <1>0, <1>2, <2>1, <3>2
      <4> QED BY <1>1, <4>1
    <3> QED BY <3>1, <3>2
  <2>4. Ssn(a) \in Nat
    BY <1>2, <1>b
  <2> DEFINE x == Ssn(a)
             y == Ssn(a - 1)
             n == r.next
  <2>5. x >= n /\ x <= y + 1 /\ y \in Int /\ y < n /\ x \in Nat /\ n \in Nat
    BY <1>0, <1>1, <2>1, <2>2, <2>3, <2>4
  <2> HIDE DEF x, y, n
  <2>6. x = n
    BY <2>5
  <2> QED BY <2>3, <2>6 DEF x, n
<1>4. g < a
  <2> SUFFICES ASSUME ~(g < a) PROVE FALSE
    OBVIOUS
  <2>1. g \in 1..Len(log) /\ a <= g
    BY <1>0, <1>2
  <2>2. Ssn(a) <= Ssn(g) /\ Ssn(g) \in Nat
    BY <1>2, <2>1, Sorted
  <2> QED BY <1>0, <1>3, <2>2
<1>5. PICK b \in a..u : MessageOf(b) = MessageOf(a) /\ \A v \in a..u : MessageOf(v) = MessageOf(a) => v <= b
  <2> DEFINE T == {v \in a..u : MessageOf(v) = MessageOf(a)}
  <2>1. a \in T /\ T \subseteq 0..u
    BY <1>0, <1>2
  <2>2. Max(T) \in T /\ \A v \in T : v <= Max(T)
    <3> HIDE DEF T
    <3> QED BY <1>0, <2>1, MaxOf
  <2> QED BY <2>2
<1>6. b \in Nat /\ b \in 1..Len(log) /\ a <= b /\ b <= u
  <2>1. b \in a..u
    BY <1>5
  <2>2. u <= Len(log)
    OBVIOUS
  <2> QED BY <1>0, <1>2, <2>1, <2>2
<1> DEFINE C == ChunksOf(r, r.next)
<1>7. ASSUME NEW t \in C PROVE t \in a..b
  <2>1. t \in r.held /\ Ssn(t) = r.next /\ t \in 1..Len(log) /\ t \in Nat
    <3>1. t \in r.held /\ Ssn(t) = r.next
      BY DEF ChunksOf
    <3>2. t \in 1..Len(log)
      BY <1>a, <3>1
    <3>3. t \in Nat
      BY <3>2
    <3> QED BY <3>1, <3>2, <3>3
  <2>2. a <= t
    <3>1. t < a => Ssn(t) < r.next
      BY <1>1, <2>1
    <3>2. ~(t < a)
      BY <1>0, <2>1, <3>1
    <3> QED BY <1>2, <2>1, <3>2
  <2>3. MessageOf(t) = MessageOf(a)
    BY <1>2, <1>3, <2>1, SsnOrder
  <2>4. t <= u
    <3> SUFFICES ASSUME ~(t <= u) PROVE FALSE
      OBVIOUS
    <3>1. u < t /\ u <= t
      BY <1>0, <2>1
    <3>2. MessageOf(u) <= MessageOf(t)
      BY <2>1, <3>1, Sorted
    <3>3. MessageOf(a) <= MessageOf(u)
      BY <1>2, Sorted
    <3>4. MessageOf(u) = MessageOf(t)
      <4>1. MessageOf(u) \in Nat /\ MessageOf(t) \in Nat
        BY <1>b, <2>1
      <4> QED BY <2>3, <3>2, <3>3, <4>1
    <3>5. log[u].msg = log[t].msg => log[u].frag # Fragments[log[u].msg]
      BY <2>1, <3>1 DEF SafeOK, LogOK
    <3> QED BY <3>4, <3>5 DEF MessageOf, Complete
  <2>5. t \in a..u
    BY <1>0, <1>2, <2>1, <2>2, <2>4
  <2> QED BY <1>2, <1>5, <1>6, <2>1, <2>2, <2>3, <2>5
<1>8. ASSUME NEW t \in a..b PROVE t \in C /\ t \in A
  <2>1. t \in Nat /\ a <= t /\ t <= b /\ t \in 1..Len(log) /\ t \in (g + 1)..u
    <3>1. t \in Nat /\ a <= t /\ t <= b
      BY <1>2, <1>6
    <3>2. b <= Len(log) /\ 1 <= a
      BY <1>2, <1>6
    <3>3. t \in 1..Len(log)
      BY <1>0, <1>2, <1>6, <3>1, <3>2
    <3>4. t \in (g + 1)..u
      BY <1>0, <1>2, <1>4, <1>6, <3>1
    <3> QED BY <3>1, <3>3, <3>4
  <2>2. MessageOf(a) <= MessageOf(t)
    BY <1>2, <2>1, Sorted
  <2>3. MessageOf(t) <= MessageOf(b)
    BY <1>6, <2>1, Sorted
  <2>4. MessageOf(t) = MessageOf(a)
    <3>1. MessageOf(t) \in Nat /\ MessageOf(a) \in Nat /\ MessageOf(b) = MessageOf(a)
      BY <1>2, <1>5, <1>b, <2>1
    <3> QED BY <2>2, <2>3, <3>1
  <2>5. Ssn(t) = r.next
    BY <1>2, <1>3, <2>1, <2>4, SsnOrder
  <2>6. Ssn(t) >= r.next
    BY <1>0, <2>5
  <2> QED BY <2>1, <2>5, <2>6 DEF HeldOK, ChunksOf
<1>9. C = a..b
  BY <1>7, <1>8
<1>10. log[a].frag = 1
  <2> SUFFICES ASSUME log[a].frag # 1 PROVE FALSE
    OBVIOUS
  <2>1. a > 1 /\ log[a - 1].msg = log[a].msg
    BY <1>2 DEF RunInv, RunOK
  <2>2. a - 1 \in 1..Len(log)
    <3>1. a <= Len(log)
      BY <1>2
    <3> QED BY <1>0, <1>2, <2>1, <3>1
  <2> DEFINE w == a - 1
  <2>3. w \in 1..Len(log) /\ MessageOf(w) = MessageOf(a) /\ Ssn(w) < r.next
    BY <1>3, <2>1, <2>2 DEF MessageOf
  <2> HIDE DEF w
  <2>4. Ssn(w) = Ssn(a)
    BY <1>2, <2>3, SsnOrder
  <2> QED BY <1>0, <1>3, <2>3, <2>4
<1>11. log[b].frag = Fragments[MessageOf(b)]
  <2>1. CASE b = u
    BY <2>1 DEF Complete
  <2>2. CASE b # u
    <3>0. u <= Len(log)
      OBVIOUS
    <3>1. b < u /\ b + 1 \in a..u /\ b < Len(log) /\ ~(b + 1 <= b)
      BY <1>0, <1>2, <1>6, <2>2, <3>0
    <3>2. MessageOf(b + 1) # MessageOf(b)
      BY <1>5, <3>1
    <3>3. log[b].frag \in {0, Fragments[log[b].msg]}
      BY <1>6, <3>1, <3>2 DEF RunInv, RunOK, MessageOf
    <3>4. log[b].frag # 0
      <4>1. b \in a..b
        BY <1>2, <1>6
      <4> QED BY <1>8, <4>1
    <3> QED BY <3>3, <3>4 DEF MessageOf
  <2> QED BY <2>1, <2>2
<1>12. Whole(C)
  <2> HIDE DEF C
  <2>1. a \in C /\ b \in C /\ C \subseteq Nat /\ C \subseteq 0..Len(log) /\ C # {}
        /\ \A t \in C : a <= t /\ t <= b
    <3>1. b <= Len(log)
      BY <1>6
    <3>2. a \in a..b /\ b \in a..b /\ a..b \subseteq Nat /\ a..b \subseteq 0..Len(log)
          /\ \A t \in a..b : a <= t /\ t <= b
      BY <1>0, <1>2, <1>6, <3>1
    <3> QED BY <1>9, <3>2
  <2>2. Min(C) \in C /\ Min(C) <= a
    BY <2>1, MinOf
  <2>3. Max(C) \in C /\ b <= Max(C)
    BY <1>0, <2>1, MaxOf
  <2>4. Min(C) = a /\ Max(C) = b
    <3>1. a <= Min(C) /\ Min(C) \in Nat /\ Max(C) <= b /\ Max(C) \in Nat
      BY <2>1, <2>2, <2>3
    <3> QED BY <1>2, <1>6, <2>2, <2>3, <3>1
  <2>5. Cardinality(C) = b - a + 1
    BY <1>2, <1>6, <1>9, FS_Interval
  <2>6. Max(C) - Min(C) = Cardinality(C) - 1
    BY <1>2, <1>6, <2>4, <2>5
  <2> QED BY <1>10, <1>11, <2>1, <2>4, <2>6 DEF Whole
<1>13. PICK t \in r.held : Ssn(t) < r.next
  BY <1>12 DEF StuckOK
<1>14. PICK x \in resets \cap 2..t : MessageOf(x - 1) = MessageOf(t)
  BY <1>13 DEF Cut
<1>15. t \in 1..Len(log) /\ x \in 1..Len(log) /\ x - 1 \in 1..Len(log) /\ x - 1 <= x /\ x <= t
  <2>1. t \in 1..Len(log)
    BY <1>a
  <2>2. x \in 2..t
    BY <1>14
  <2>3. t \in Nat /\ t <= Len(log) /\ x \in Nat /\ 2 <= x /\ x <= t
    BY <1>0, <2>1, <2>2
  <2> QED BY <1>0, <2>1, <2>3
<1>16. MessageOf(x) = MessageOf(t)
  <2> DEFINE w == x - 1
  <2>1. w \in 1..Len(log) /\ w <= x /\ MessageOf(w) = MessageOf(t)
    BY <1>14, <1>15
  <2> HIDE DEF w
  <2>2. MessageOf(w) <= MessageOf(x)
    BY <1>15, <2>1, Sorted
  <2>3. MessageOf(x) <= MessageOf(t)
    BY <1>15, Sorted
  <2>4. MessageOf(x) \in Nat /\ MessageOf(t) \in Nat
    BY <1>15, <1>b
  <2> QED BY <2>1, <2>2, <2>3, <2>4
<1>17. MessageOf(t) < MessageOf(u)
  <2>0. Ssn(t) \in Nat /\ Ssn(u) \in Nat
    BY <1>15, <1>b
  <2> DEFINE n == r.next
             i == Ssn(t)
             j == Ssn(u)
  <2>2. n \in Nat /\ i \in Nat /\ j \in Nat /\ i < n /\ ~(j < n)
    BY <1>0, <1>13, <2>0
  <2> HIDE DEF n, i, j
  <2>3. i < j
    BY <2>2
  <2>1. Ssn(t) < Ssn(u)
    BY <2>3 DEF i, j
  <2> QED BY <1>15, <2>1, SsnOrder
<1>18. x \in resets \cap 2..LastTsn
  <2>1. x \in resets /\ x \in 2..t
    BY <1>14
  <2>2. t <= Len(log) /\ t \in Nat
    BY <1>15
  <2>3. x \in 2..Len(log)
    BY <1>0, <2>1, <2>2
  <2> QED BY <2>1, <2>3 DEF LastTsn
<1> QED BY <1>14, <1>16, <1>17, <1>18 DEF ResetInsideBefore

-----------------------------------------------------------------------------
(* What is acknowledged *)

\* What the peer acknowledges, it has received; of a message that is delivered all
\* that there is has been acknowledged.
AckedOK ==
    /\ \A s \in sacks : s \subseteq Received
    /\ 1..cum \subseteq Received
    /\ \A m \in delivered : \E u \in 1..cum : MessageOf(u) = m /\ Complete(u)

LEMMA NextAcked ==
    ASSUME QueueOK, QueueOK', SafeOK, StepOK, SkipStep, ForwardOK, AckedOK, [Next]_vars
    PROVE  AckedOK'
<1>0. /\ cum \in Nat /\ cum' \in Nat /\ cum <= cum' /\ Len(log) \in Nat /\ Len(log') \in Nat
      /\ cum <= Len(log)
  BY StepFacts
<1>1. Received \subseteq arrived' \cup 1..skip'
  <2>1. skip \in Nat /\ skip' \in Nat /\ skip <= skip'
    BY NextDeferred
  <2>2. 1..skip \subseteq 1..skip'
    BY <2>1
  <2> QED BY <2>2 DEF Received, StepOK
<1>2. ASSUME NEW s \in sacks' PROVE s \subseteq arrived' \cup 1..skip'
  <2>1. CASE s \in sacks
    BY <1>1, <2>1 DEF AckedOK
  <2>2. CASE s \notin sacks
    <3>1. \A t \in s : t \in arrived' \/ t <= skip'
      BY <2>2 DEF SkipStep
    <3>2. s \subseteq 1..Len(log')
      BY DEF QueueOK, PeerType
    <3>3. skip' \in Nat
      BY NextDeferred
    <3>4. \A t \in 1..Len(log') : t <= skip' => t \in 1..skip'
      BY <1>0, <3>3
    <3> QED BY <3>1, <3>2, <3>4
  <2> QED BY <2>1, <2>2
<1>3. 1..cum' \subseteq arrived' \cup 1..skip'
  <2>1. CASE cum' = cum
    BY <1>1, <2>1 DEF AckedOK
  <2>2. CASE \E s \in sacks : 1..cum' \subseteq s
    BY <1>1, <2>2 DEF AckedOK
  <2> QED BY <2>1, <2>2 DEF SkipStep
<1>4. ASSUME NEW m, NEW u \in 1..Len(log), u <= cum', MessageOf(u) = m, log[u].frag = Fragments[m]
      PROVE  \E v \in 1..cum' : log'[v].msg = m /\ log'[v].frag = Fragments[m]
  <2>1. u \in 1..cum' /\ log'[u] = log[u]
    BY <1>0, <1>4 DEF StepOK
  <2> QED BY <1>4, <2>1 DEF MessageOf
<1>5. ASSUME NEW m \in delivered
      PROVE  \E v \in 1..cum' : log'[v].msg = m /\ log'[v].frag = Fragments[m]
  <2>1. PICK u \in 1..cum : MessageOf(u) = m /\ Complete(u)
    BY DEF AckedOK
  <2>2. u \in 1..Len(log) /\ u <= cum'
    BY <1>0
  <2> QED BY <1>4, <2>1, <2>2 DEF Complete
<1>6. ASSUME NEW m \in delivered', m \notin delivered
      PROVE  \E v \in 1..cum' : log'[v].msg = m /\ log'[v].frag = Fragments[m]
  <2>1. \E s \in sacks, a \in PeerWindows : HandleSack(s, a)
    <3> SUFFICES ASSUME ~\E s \in sacks, a \in PeerWindows : HandleSack(s, a)
                 PROVE  delivered' = delivered
      BY <1>6
    <3>1. CASE SendControl
      BY <3>1, SendControlFacts
    <3>2. CASE ~SendControl
      BY <3>2 DEF Next, Send, ResetStreams, LimitEnds, Expire, SendNothing,
           ReceiveResetRequest, ReceiveData, ReceiveForwardTsn, Retransmit, Produce,
           ProduceExpired, OnRtxTimerExpiry, vars
    <3> QED BY <3>1, <3>2
  <2>2. PICK s \in sacks, a \in PeerWindows : HandleSack(s, a)
    BY <2>1
  <2>3. IsSackValid(s) /\ cum' = CumulativeAck(s) /\ m \in DeliveredBy(s)
    BY <1>6, <2>2, HandleSackFacts
  <2>4. PICK u \in Outstanding : /\ MessageOf(u) = m /\ u <= CumulativeAck(s)
                                 /\ log[u].frag = Fragments[m]
    BY <2>3, NewlyDelivered
  <2>5. u \in 1..Len(log)
    BY QueueFacts
  <2> QED BY <1>4, <2>3, <2>4, <2>5
<1>7. \A m \in delivered' : \E v \in 1..cum' : log'[v].msg = m /\ log'[v].frag = Fragments[m]
  BY <1>5, <1>6
<1> QED BY <1>2, <1>3, <1>7 DEF AckedOK, Received, Complete, MessageOf

\* The data tracker's cumulative TSN is not behind the sender's.
LEMMA AckBehind ==
    ASSUME QueueOK, AckedOK
    PROVE  cum <= CumulativeAck(Received) /\ CumulativeAck(Received) \in Nat /\ cum \in Nat
<1> DEFINE c == CumulativeAck(Received)
<1>1. Received \subseteq 1..Len(log) /\ Len(log) \in Nat /\ cum \in Nat
  BY PeerFacts, QueueFacts
<1>2. c \in 0..Len(log) /\ c + 1 \notin Received
  BY <1>1, CumulativeAckOf
<1>3. c + 1 \notin 1..cum
  BY <1>2 DEF AckedOK
<1> HIDE DEF c
<1>4. c \in Nat
  BY <1>1, <1>2
<1>5. cum <= c
  BY <1>1, <1>3, <1>4
<1> QED BY <1>1, <1>4, <1>5 DEF c

\* A FORWARD-TSN that is not out of date passes over messages that are given up,
\* and others only when they have been acknowledged.
LEMMA Crossed ==
    ASSUME QueueOK, SafeOK, SkipOK, AckedOK, NEW f \in fwds, f > CumulativeAck(Received),
           NEW u \in 1..Len(log), Ssn(u) <= Ssn(f)
    PROVE  Gone(MessageOf(u)) \/ u <= cum
<1> SUFFICES ASSUME ~(u <= cum) PROVE Gone(MessageOf(u))
  OBVIOUS
<1>0. /\ f \in Nat /\ cum \in Nat /\ cum < f /\ f \in 1..Len(log) /\ f <= Len(log) /\ Len(log) \in Nat
  <2>1. cum <= CumulativeAck(Received) /\ CumulativeAck(Received) \in Nat /\ cum \in Nat
    BY AckBehind
  <2>2. f \in 0..Len(log) /\ Len(log) \in Nat
    BY PeerFacts, QueueFacts
  <2> QED BY <2>1, <2>2
<1>1. u \in Nat /\ cum < u /\ u \in Outstanding /\ f \in Outstanding
  BY <1>0, QueueFacts
<1>2. item[f].life = "Abandoned"
  <2>1. f \in (cum + 1)..f
    BY <1>0
  <2> QED BY <2>1 DEF SkipOK, SkipAbandoned
<1>3. item[u].life = "Abandoned"
  <2>1. CASE u <= f
    <3>1. u \in (cum + 1)..f
      BY <1>0, <1>1, <2>1
    <3> QED BY <3>1 DEF SkipOK, SkipAbandoned
  <2>2. CASE ~(u <= f)
    <3>1. f <= u
      BY <1>0, <1>1, <2>2
    <3>2. Ssn(f) <= Ssn(u) /\ Ssn(f) \in Nat /\ Ssn(u) \in Nat
      BY <1>0, <3>1, Sorted
    <3>3. Ssn(u) = Ssn(f)
      BY <3>2
    <3>4. MessageOf(u) = MessageOf(f)
      BY <1>0, <3>3, SsnOrder
    <3> QED BY <1>1, <1>2, <3>4 DEF SafeOK, AbandonOK, Outstanding, MessageOf
  <2> QED BY <2>1, <2>2
<1>4. \A t \in Outstanding : MessageOf(t) = MessageOf(u) => item[t].life = "Abandoned"
  BY <1>1, <1>3 DEF SafeOK, AbandonOK, Outstanding, MessageOf
<1>5. MessageOf(u) \notin delivered
  BY <1>1 DEF SkipOK, DeliveredOK
<1> QED BY <1>4, <1>5 DEF Gone

-----------------------------------------------------------------------------
(* FORWARD-TSNs that are put off *)

\* The last FORWARD-TSN is done, or it is the last of those that are put off.
SkippedOK(r, k, d) ==
    /\ Len(d.fwds) = 0 => Ssn(k) < r.next
    /\ Len(d.fwds) > 0 => k = d.fwds[Len(d.fwds)] /\ d.last < k

\* A FORWARD-TSN that is put off will pass over nothing that must be read: what it
\* passes over is behind, or all of it since the one before has arrived.
DeferredOK(r, A, fs) ==
    \A i \in 1..Len(fs), u \in 1..Len(log) : Complete(u) /\ Ssn(u) <= Ssn(fs[i]) =>
        \/ Excused(MessageOf(u))
        \/ i = 1 /\ Ssn(u) < r.next
        \/ i > 1 /\ (fs[i - 1] + 1)..u \subseteq A

\* What is acknowledged after the last FORWARD-TSN has arrived.
LEMMA AckedArrived ==
    ASSUME QueueOK, AckedOK, NEW u \in 1..Len(log), u <= cum
    PROVE  (skip + 1)..u \subseteq arrived
<1>1. skip \in 0..Len(log) /\ cum \in Nat /\ Len(log) \in Nat
  BY PeerFacts, QueueFacts
<1> SUFFICES ASSUME NEW t \in (skip + 1)..u PROVE t \in arrived
  OBVIOUS
<1>2. t \in 1..cum /\ t \notin 1..skip
  BY <1>1
<1> QED BY <1>2 DEF AckedOK, Received

\* The stream rx, or what it becomes while FORWARD-TSNs are done.
LEMMA NothingWaitsAt ==
    ASSUME QueueOK, SafeOK, RunInv, ForwardOK, NEW r \in Streams(arrived), StreamOK(r, arrived),
           NEW k, FreshOK(r, arrived, k),
           NEW g \in 0..Len(log), Ssn(g) < r.next,
           NEW u \in 1..Len(log), Complete(u), (g + 1)..u \subseteq arrived
    PROVE  Ssn(u) < r.next \/ Excused(MessageOf(u))
<1>1. arrived \subseteq 1..Len(log) /\ \A t \in arrived : log[t].frag # 0
  BY PeerFacts DEF ForwardOK
<1>2. \A t \in r.held : Ssn(t) < r.next => Cut(t)
  BY DEF FreshOK
<1>3. HeldOK(r, arrived) /\ StuckOK(r)
  BY DEF StreamOK
<1>4. Ssn(u) < r.next \/ ResetInsideBefore(MessageOf(u))
  BY <1>1, <1>2, <1>3, NothingWaits
<1> QED BY <1>4 DEF Excused

\* A FORWARD-TSN that arrives when none is put off.
LEMMA NowCrossable ==
    ASSUME QueueOK, SafeOK, SkipOK, RunInv, ForwardOK, FreshInv, AckedOK, StreamOK(rx, arrived),
           SkippedOK(rx, skip, deferred), Len(deferred.fwds) = 0,
           NEW f \in fwds, f > CumulativeAck(Received)
    PROVE  Crossable(rx, f)
<1> SUFFICES ASSUME NEW u \in 1..Len(log), Complete(u), Ssn(u) <= Ssn(f)
             PROVE  Ssn(u) < rx.next \/ Excused(MessageOf(u))
  BY DEF Crossable
<1>1. CASE Gone(MessageOf(u))
  BY <1>1 DEF Excused
<1>2. CASE u <= cum
  <2>1. (skip + 1)..u \subseteq arrived
    BY <1>2, AckedArrived
  <2>2. Ssn(skip) < rx.next
    BY DEF SkippedOK
  <2>3. skip \in 0..Len(log) /\ rx \in Streams(arrived)
    BY PeerFacts
  <2>4. FreshOK(rx, arrived, skip)
    BY DEF FreshInv
  <2> QED BY <2>1, <2>2, <2>3, <2>4, NothingWaitsAt
<1> QED BY <1>1, <1>2, Crossed

\* A delivered message is read, or a FORWARD-TSN before it is put off.
LEMMA DeliveredAreRead ==
    ASSUME QueueOK, SafeOK, RunInv, ForwardOK, FreshInv, AckedOK, StreamOK(rx, arrived),
           SkippedOK(rx, skip, deferred)
    PROVE  DeliveredIsRead
<1> SUFFICES ASSUME NEW m \in delivered, deferred.fwds = << >>
             PROVE  m \in ToSet(rx.read) \/ ResetInsideBefore(m)
  BY DEF DeliveredIsRead
<1>1. Len(deferred.fwds) = 0
  BY EmptySeq
<1>2. PICK u \in 1..cum : MessageOf(u) = m /\ Complete(u)
  BY DEF AckedOK
<1>3. u \in 1..Len(log) /\ u <= cum
  BY QueueFacts
<1>4. (skip + 1)..u \subseteq arrived
  BY <1>3, AckedArrived
<1>5. Ssn(skip) < rx.next
  BY <1>1 DEF SkippedOK
<1>6. skip \in 0..Len(log) /\ rx \in Streams(arrived)
  BY PeerFacts
<1>7. FreshOK(rx, arrived, skip)
  BY DEF FreshInv
<1>8. Ssn(u) < rx.next \/ Excused(m)
  BY <1>2, <1>3, <1>4, <1>5, <1>6, <1>7, NothingWaitsAt
<1>9. m \in ToSet(rx.read) \/ Excused(m)
  BY <1>2, <1>3, <1>8 DEF StreamOK, PassedOK
<1> QED BY <1>9 DEF Excused, Gone

\* One of the FORWARD-TSNs that were put off, when those before it are done.
LEMMA OneDeferredDone ==
    ASSUME QueueOK, SafeOK, RunInv, ForwardOK, NEW r0, r0.next \in Nat, NEW fs \in Seq(fwds),
           DeferredOK(r0, arrived, fs), NEW i \in 1..Len(fs),
           NEW r \in Streams(arrived), FreshOK(r, arrived, skip), StreamOK(r, arrived),
           r0.next <= r.next, i > 1 => Ssn(fs[i - 1]) < r.next
    PROVE  /\ StreamOK(EraseTo(r, fs[i]), arrived) /\ r0.next <= EraseTo(r, fs[i]).next
           /\ Ssn(fs[i]) < EraseTo(r, fs[i]).next
<1>0. /\ arrived \subseteq 1..Len(log) /\ fwds \subseteq 0..Len(log) /\ r.next \in Nat
      /\ \A u \in 1..Len(log) : Ssn(u) \in Nat
  BY PeerFacts, SsnSetFacts DEF Streams
<1>1. Len(fs) \in Nat /\ \A j \in 1..Len(fs) : fs[j] \in 0..Len(log)
  BY <1>0, LenProperties, ElementOfSeq
<1>2. Crossable(r, fs[i])
  <2> SUFFICES ASSUME NEW u \in 1..Len(log), Complete(u), Ssn(u) <= Ssn(fs[i])
               PROVE  Ssn(u) < r.next \/ Excused(MessageOf(u))
    BY DEF Crossable
  <2>1. CASE Excused(MessageOf(u))
    BY <2>1
  <2>2. CASE i = 1 /\ Ssn(u) < r0.next
    <3>1. Ssn(u) \in Nat
      BY <1>0
    <3> QED BY <1>0, <2>2, <3>1
  <2>3. CASE i > 1 /\ (fs[i - 1] + 1)..u \subseteq arrived
    <3> DEFINE g == fs[i - 1]
    <3>1. i - 1 \in 1..Len(fs)
      BY <1>1, <2>3
    <3>2. g \in 0..Len(log) /\ Ssn(g) < r.next /\ (g + 1)..u \subseteq arrived
      BY <1>1, <2>3, <3>1
    <3> HIDE DEF g
    <3> QED BY <3>2, NothingWaitsAt
  <2> QED BY <2>1, <2>2, <2>3 DEF DeferredOK
<1> DEFINE f == fs[i]
           q == EraseTo(r, f)
<1>3. f \in 0..Len(log) /\ Crossable(r, f)
  BY <1>1, <1>2
<1> HIDE DEF f
<1>4. q \in Streams(arrived) /\ StreamOK(q, arrived) /\ r.next <= q.next /\ Ssn(f) < q.next
  BY <1>0, <1>3, EraseStream
<1>5. q.next \in Nat
  BY <1>4 DEF Streams
<1>6. r0.next <= q.next
  <2> DEFINE x == r0.next
             y == r.next
             z == q.next
  <2>1. x \in Nat /\ y \in Nat /\ z \in Nat /\ x <= y /\ y <= z
    BY <1>0, <1>4, <1>5
  <2> HIDE DEF x, y, z
  <2>2. x <= z
    BY <2>1
  <2> QED BY <2>2 DEF x, z
<1> QED BY <1>4, <1>6 DEF f

LEMMA DeferredDone ==
    ASSUME QueueOK, SafeOK, RunInv, ForwardOK, FreshInv, StreamOK(rx, arrived),
           DeferredOK(rx, arrived, deferred.fwds)
    PROVE  /\ StreamOK(EraseToEach(rx, deferred.fwds), arrived)
           /\ rx.next <= EraseToEach(rx, deferred.fwds).next
           /\ Len(deferred.fwds) > 0 =>
                Ssn(deferred.fwds[Len(deferred.fwds)]) < EraseToEach(rx, deferred.fwds).next
<1> DEFINE S == {x \in Streams(arrived) : FreshOK(x, arrived, skip)}
           F == {f \in fwds : f <= skip}
           fs == deferred.fwds
           n == Len(fs)
<1>0. /\ arrived \subseteq 1..Len(log) /\ fwds \subseteq 0..Len(log) /\ skip \in Nat
      /\ rx \in Streams(arrived) /\ rx.next \in Nat
  BY PeerFacts, QueueFacts DEF Streams
<1>1. \A x \in S, f \in F : EraseTo(x, f) \in S
  BY <1>0, EraseFresh DEF ForwardOK
<1>2. rx \in S
  BY <1>0 DEF FreshInv
<1>3. fs \in Seq(fwds) /\ n \in Nat /\ fs = [i \in 1..n |-> fs[i]] /\ \A i \in 1..n : fs[i] \in fwds
  BY PeerFacts, LenProperties, ElementOfSeq
<1>4. fs \in Seq(F)
  <2>1. \A i \in 1..n : fs[i] \in F
    BY <1>3 DEF ForwardOK
  <2> HIDE DEF F, fs
  <2>2. fs \in [1..Len(fs) -> F] /\ Len(fs) \in Nat
    BY <1>3, <2>1
  <2> QED BY <2>2, SeqDef
<1> HIDE DEF F, fs
<1>5. PICK g \in [0..Len(fs) -> S] : Stepwise(g, rx, fs)
  <2>1. rx \in S /\ ClosedUnder(S, F)
    BY <1>1, <1>2 DEF ClosedUnder
  <2> HIDE DEF S, n
  <2>2. HasSteps(S, rx, fs)
    BY <1>4, <2>1, EraseToEachSteps
  <2> QED BY <2>2 DEF HasSteps
<1> HIDE DEF n
<1>6. /\ g[0] = rx /\ EraseToEach(rx, fs) = g[n]
      /\ \A i \in 1..n : g[i] = EraseTo(g[i - 1], fs[i])
      /\ \A i \in 0..n : g[i] \in S
  <2>1. \A i \in 0..n : g[i] \in S
    <3> HIDE DEF S
    <3> QED BY <1>5 DEF n
  <2> QED BY <1>5, <2>1 DEF n, Stepwise
<1> DEFINE P(i) == /\ StreamOK(g[i], arrived) /\ rx.next <= g[i].next
                   /\ i > 0 => Ssn(fs[i]) < g[i].next
           T == {i \in 0..n : ~P(i)}
           k == Min(T)
<1>7. P(0)
  <2>1. rx.next <= rx.next
    BY <1>0
  <2> QED BY <1>6, <2>1
<1>8. ASSUME NEW i \in 1..n, P(i - 1) PROVE P(i)
  <2> DEFINE r == g[i - 1]
  <2>1. i - 1 \in 0..n /\ i \in 1..Len(fs)
    BY <1>3 DEF n
  <2>2. r \in Streams(arrived) /\ FreshOK(r, arrived, skip)
    BY <1>6, <2>1
  <2>3. StreamOK(r, arrived) /\ rx.next <= r.next /\ (i > 1 => Ssn(fs[i - 1]) < r.next)
    <3>1. i > 1 => i - 1 > 0
      BY <1>3
    <3> QED BY <1>8, <3>1
  <2> HIDE DEF r
  <2>4. /\ StreamOK(EraseTo(r, fs[i]), arrived) /\ rx.next <= EraseTo(r, fs[i]).next
        /\ Ssn(fs[i]) < EraseTo(r, fs[i]).next
    <3>1. DeferredOK(rx, arrived, fs)
      BY DEF fs
    <3> QED BY <1>0, <1>3, <2>1, <2>2, <2>3, <3>1, OneDeferredDone
  <2>5. g[i] = EraseTo(r, fs[i])
    BY <1>6 DEF r
  <2> QED BY <2>4, <2>5
<1>9. T = {}
  <2> SUFFICES ASSUME T # {} PROVE FALSE
    OBVIOUS
  <2>1. k \in T /\ \A x \in T : k <= x
    <3>1. T \subseteq Nat
      BY <1>3
    <3> HIDE DEF T
    <3> QED BY <3>1, MinOf
  <2> HIDE DEF k, P
  <2>2. k # 0 /\ k \in 0..n
    BY <1>7, <2>1
  <2>3. k \in 1..n /\ k - 1 \in 0..n /\ ~(k <= k - 1)
    BY <1>3, <2>2
  <2>4. P(k - 1)
    BY <2>1, <2>3
  <2> QED BY <1>8, <2>1, <2>3, <2>4
<1>10. P(n)
  <2>1. n \in 0..n
    BY <1>3
  <2> HIDE DEF P
  <2> QED BY <1>9, <2>1
<1>11. /\ StreamOK(EraseToEach(rx, fs), arrived) /\ rx.next <= EraseToEach(rx, fs).next
       /\ Len(fs) > 0 => Ssn(fs[Len(fs)]) < EraseToEach(rx, fs).next
  <2>1. P(Len(fs)) /\ g[Len(fs)] = EraseToEach(rx, fs)
    <3> HIDE DEF P
    <3> QED BY <1>6, <1>10 DEF n
  <2> QED BY <2>1
<1> QED BY <1>11 DEF fs

-----------------------------------------------------------------------------
(* Steps of the peer *)

\* The peer with the stream r, the arrived chunks A, the last FORWARD-TSN k and the
\* reset d that is deferred.
PeerOK(r, A, k, d) == StreamOK(r, A) /\ SkippedOK(r, k, d) /\ DeferredOK(r, A, d.fwds)
DeliveryInv ==
    /\ QueueOK /\ SafeOK /\ SkipOK /\ RunInv /\ ForwardOK /\ FreshInv /\ AckedOK
    /\ PeerOK(rx, arrived, skip, deferred)

\* What is put off stays harmless when the stream moves on.
LEMMA DeferredLater ==
    ASSUME QueueOK, NEW r, NEW q, r.next \in Nat, q.next \in Nat, r.next <= q.next,
           NEW A, NEW B, A \subseteq B, NEW fs, DeferredOK(r, A, fs)
    PROVE  DeferredOK(q, B, fs)
<1> SUFFICES ASSUME NEW i \in 1..Len(fs), NEW u \in 1..Len(log), Complete(u), Ssn(u) <= Ssn(fs[i]),
                    ~Excused(MessageOf(u))
             PROVE  \/ i = 1 /\ Ssn(u) < q.next
                    \/ i > 1 /\ (fs[i - 1] + 1)..u \subseteq B
  BY DEF DeferredOK
<1>1. \/ i = 1 /\ Ssn(u) < r.next
      \/ i > 1 /\ (fs[i - 1] + 1)..u \subseteq A
  BY DEF DeferredOK
<1>2. Ssn(u) \in Nat
  BY SsnSetFacts
<1>3. Ssn(u) < r.next => Ssn(u) < q.next
  BY <1>2
<1> QED BY <1>1, <1>3

LEMMA SkippedLater ==
    ASSUME QueueOK, NEW r, NEW q, r.next \in Nat, q.next \in Nat, r.next <= q.next,
           NEW k \in 0..Len(log), NEW d, SkippedOK(r, k, d)
    PROVE  SkippedOK(q, k, d)
<1>1. Ssn(k) \in Int
  BY SsnInt
<1>2. Ssn(k) < r.next => Ssn(k) < q.next
  BY <1>1
<1> QED BY <1>2 DEF SkippedOK

LEMMA ReceiveDataPeer ==
    ASSUME DeliveryInv, NEW t \in sent, ReceiveData(t)
    PROVE  PeerOK(rx', arrived', skip', deferred')
<1>0. /\ QueueOK /\ SafeOK /\ StreamOK(rx, arrived) /\ SkippedOK(rx, skip, deferred)
      /\ DeferredOK(rx, arrived, deferred.fwds)
  BY DEF DeliveryInv, PeerOK
<1>1. arrived \subseteq 1..Len(log) /\ rx \in Streams(arrived) /\ t \in 1..Len(log) /\ skip \in 0..Len(log)
  BY <1>0, PeerFacts
<1>2. /\ rx' = AddChunk(rx, t) /\ arrived' = arrived \cup {t} /\ UNCHANGED <<skip, deferred>>
  BY DEF ReceiveData
<1> DEFINE q == AddChunk(rx, t)
           B == arrived \cup {t}
<1>3. StreamOK(q, B) /\ rx.next <= q.next
  BY <1>0, <1>1, AddStream
<1>4. q \in Streams(B)
  BY <1>0, <1>1, AddChunkType
<1>5. rx.next \in Nat /\ q.next \in Nat
  BY <1>1, <1>4 DEF Streams
<1> HIDE DEF q
<1>6. SkippedOK(q, skip, deferred)
  BY <1>0, <1>1, <1>3, <1>5, SkippedLater
<1>7. DeferredOK(q, B, deferred.fwds)
  <2>1. arrived \subseteq B
    OBVIOUS
  <2> HIDE DEF B
  <2> QED BY <1>0, <1>3, <1>5, <2>1, DeferredLater
<1> QED BY <1>2, <1>3, <1>6, <1>7 DEF PeerOK, q

LEMMA ReceiveForwardTsnPeer ==
    ASSUME DeliveryInv, NEW f \in fwds, ReceiveForwardTsn(f)
    PROVE  PeerOK(rx', arrived', skip', deferred')
<1> DEFINE fs == deferred.fwds
           n == Len(fs)
<1>0. /\ QueueOK /\ SafeOK /\ SkipOK /\ RunInv /\ ForwardOK /\ FreshInv /\ AckedOK
      /\ StreamOK(rx, arrived) /\ SkippedOK(rx, skip, deferred) /\ DeferredOK(rx, arrived, fs)
  BY DEF DeliveryInv, PeerOK
<1>1. /\ arrived \subseteq 1..Len(log) /\ rx \in Streams(arrived) /\ skip \in 0..Len(log)
      /\ f \in 0..Len(log) /\ fs \in Seq(fwds) /\ n \in Nat /\ deferred.last \in Nat
  BY <1>0, PeerFacts, LenProperties
<1>2. arrived' = arrived
  BY DEF ReceiveForwardTsn
<1>3. CASE ~(f > CumulativeAck(Received))
  <2>1. UNCHANGED <<skip, rx, deferred>>
    BY <1>3 DEF ReceiveForwardTsn
  <2> QED BY <1>0, <1>2, <2>1 DEF PeerOK
<1>4. CASE f > CumulativeAck(Received) /\ ~(deferred # NotDeferred /\ f > deferred.last)
  <2>1. skip' = f /\ rx' = EraseTo(rx, f) /\ deferred' = deferred
    BY <1>4 DEF ReceiveForwardTsn, HandleForwardTsn
  <2>2. n = 0
    <3> SUFFICES ASSUME n # 0 PROVE FALSE
      OBVIOUS
    <3>1. n > 0
      BY <1>1
    <3>2. deferred.last < skip
      BY <1>0, <3>1 DEF SkippedOK
    <3>3. skip < f /\ skip \in Nat /\ f \in Nat
      BY <1>0, <1>4, SkipGrows
    <3>4. f > deferred.last
      BY <1>1, <3>2, <3>3
    <3>5. deferred # NotDeferred
      <4>1. NotDeferred.fwds = << >>
        BY DEF NotDeferred
      <4>2. deferred = NotDeferred => fs = << >>
        BY <4>1
      <4>3. fs = << >> => n = 0
        BY EmptySeq
      <4> QED BY <4>2, <4>3
    <3> QED BY <1>4, <3>4, <3>5
  <2>3. Crossable(rx, f)
    BY <1>0, <1>4, <2>2, NowCrossable
  <2>4. StreamOK(EraseTo(rx, f), arrived) /\ Ssn(f) < EraseTo(rx, f).next
    BY <1>0, <1>1, <2>3, EraseStream
  <2>5. SkippedOK(rx', skip', deferred')
    BY <2>1, <2>2, <2>4 DEF SkippedOK
  <2>6. DeferredOK(rx', arrived', fs)
    <3>1. 1..n = {}
      BY <2>2
    <3> QED BY <3>1 DEF DeferredOK
  <2> QED BY <1>2, <2>1, <2>4, <2>5, <2>6 DEF PeerOK
<1>5. CASE f > CumulativeAck(Received) /\ deferred # NotDeferred /\ f > deferred.last
  <2> DEFINE gs == Append(fs, f)
  <2>1. skip' = f /\ rx' = rx /\ deferred' = [deferred EXCEPT !.fwds = gs]
    BY <1>5 DEF ReceiveForwardTsn, HandleForwardTsn
  <2>2. Len(gs) = n + 1 /\ gs[n + 1] = f /\ \A i \in 1..n : gs[i] = fs[i]
    BY <1>1, AppendProperties
  <2>3. deferred'.fwds = gs /\ deferred'.last = deferred.last
    <3> DEFINE Q == Seq(fwds)
    <3>1. deferred \in [last : Nat, fwds : Q]
      BY <1>0, PeerFacts
    <3> HIDE DEF gs, Q
    <3> QED BY <2>1, <3>1
  <2> HIDE DEF gs
  <2>4. SkippedOK(rx', skip', deferred')
    <3>1. Len(gs) # 0 /\ gs[Len(gs)] = f /\ deferred.last < f
      <4>1. f \in Nat
        BY <1>1
      <4> QED BY <1>1, <1>5, <2>2, <4>1
    <3> QED BY <2>1, <2>3, <3>1 DEF SkippedOK
  <2>5. DeferredOK(rx, arrived, gs)
    <3> SUFFICES ASSUME NEW i \in 1..Len(gs), NEW u \in 1..Len(log), Complete(u),
                        Ssn(u) <= Ssn(gs[i]), ~Excused(MessageOf(u))
                 PROVE  \/ i = 1 /\ Ssn(u) < rx.next
                        \/ i > 1 /\ (gs[i - 1] + 1)..u \subseteq arrived
      BY DEF DeferredOK
    <3>1. CASE i \in 1..n
      <4>1. gs[i] = fs[i]
        BY <2>2, <3>1
      <4>2. \/ i = 1 /\ Ssn(u) < rx.next
            \/ i > 1 /\ (fs[i - 1] + 1)..u \subseteq arrived
        BY <1>0, <3>1, <4>1 DEF DeferredOK
      <4>3. i > 1 => i - 1 \in 1..n
        BY <1>1, <3>1
      <4>4. i > 1 => gs[i - 1] = fs[i - 1]
        BY <2>2, <4>3
      <4> QED BY <4>2, <4>4
    <3>2. CASE i = n + 1
      <4>1. Ssn(u) <= Ssn(f)
        BY <2>2, <3>2
      <4>2. CASE n = 0
        <5>1. Crossable(rx, f)
          BY <1>0, <1>5, <4>2, NowCrossable
        <5>2. Ssn(u) < rx.next /\ i = 1
          BY <3>2, <4>1, <4>2, <5>1 DEF Crossable
        <5> QED BY <5>2
      <4>3. CASE n # 0
        <5>1. n > 0 /\ n \in 1..n /\ i > 1 /\ i - 1 = n
          BY <1>1, <3>2, <4>3
        <5>2. gs[i - 1] = skip
          <6>1. fs[n] = skip
            BY <1>0, <5>1 DEF SkippedOK
          <6>2. gs[n] = fs[n]
            BY <2>2, <5>1
          <6> QED BY <5>1, <6>1, <6>2
        <5>3. u <= cum
          BY <1>0, <1>5, <4>1, Crossed DEF Excused
        <5>4. (skip + 1)..u \subseteq arrived
          BY <1>0, <5>3, AckedArrived
        <5> QED BY <5>1, <5>2, <5>4
      <4> QED BY <4>2, <4>3
    <3>3. i \in 1..n \/ i = n + 1
      BY <1>1, <2>2
    <3> QED BY <3>1, <3>2, <3>3
  <2> QED BY <1>0, <1>2, <2>1, <2>3, <2>4, <2>5 DEF PeerOK
<1> QED BY <1>3, <1>4, <1>5

LEMMA ReceiveResetRequestPeer ==
    ASSUME DeliveryInv, NEW b \in resets, ReceiveResetRequest(b)
    PROVE  PeerOK(rx', arrived', skip', deferred')
<1> DEFINE fs == deferred.fwds
<1>0. /\ QueueOK /\ SafeOK /\ RunInv /\ ForwardOK /\ FreshInv
      /\ StreamOK(rx, arrived) /\ SkippedOK(rx, skip, deferred) /\ DeferredOK(rx, arrived, fs)
  BY DEF DeliveryInv, PeerOK
<1>1. arrived' = arrived /\ skip' = skip
  BY DEF ReceiveResetRequest
<1>2. rx.next \in Nat /\ skip \in 0..Len(log) /\ Len(fs) \in Nat
  BY <1>0, PeerFacts, LenProperties DEF Streams
<1>3. StreamOK(rx', arrived) /\ Ssn(skip) < rx'.next
  <2>1. CASE CumulativeAck(Received) < b - 1
    <3>1. rx' = rx /\ deferred = NotDeferred
      BY <2>1 DEF ReceiveResetRequest
    <3>2. Len(fs) = 0
      BY <3>1, EmptySeq DEF NotDeferred
    <3> QED BY <1>0, <3>1, <3>2 DEF SkippedOK
  <2>2. CASE ~(CumulativeAck(Received) < b - 1)
    <3> DEFINE q == EraseToEach(rx, fs)
    <3>1. rx' = q
      BY <2>2 DEF ReceiveResetRequest
    <3>2. StreamOK(q, arrived) /\ rx.next <= q.next /\ (Len(fs) > 0 => Ssn(fs[Len(fs)]) < q.next)
      BY <1>0, DeferredDone
    <3>3. q.next \in Nat
      <4>1. QueueOK'
        BY <1>0, ReceiveResetRequestQueueOK
      <4>2. rx'.next \in Nat
        BY <4>1 DEF QueueOK, PeerType
      <4> QED BY <3>1, <4>2
    <3> HIDE DEF q
    <3>4. Ssn(skip) < q.next
      <4>1. CASE Len(fs) = 0
        <5>1. Ssn(skip) < rx.next
          BY <1>0, <4>1 DEF SkippedOK
        <5>2. Ssn(skip) \in Int
          BY <1>0, <1>2, SsnInt
        <5> QED BY <1>2, <3>2, <3>3, <5>1, <5>2
      <4>2. CASE Len(fs) > 0
        BY <1>0, <3>2, <4>2 DEF SkippedOK
      <4> QED BY <1>2, <4>1, <4>2
    <3> QED BY <3>1, <3>2, <3>4
  <2> QED BY <2>1, <2>2
<1>4. deferred'.fwds = << >>
  <2> DEFINE n == b - 1
  <2>1. deferred' = NotDeferred \/ deferred' = [NotDeferred EXCEPT !.last = n]
    BY DEF ReceiveResetRequest
  <2> HIDE DEF n
  <2>2. NotDeferred = [last |-> 0, fwds |-> << >>]
    BY DEF NotDeferred
  <2>3. [NotDeferred EXCEPT !.last = n] = [last |-> n, fwds |-> << >>]
    BY <2>2
  <2> QED BY <2>1, <2>2, <2>3
<1>5. Len(deferred'.fwds) = 0
  BY <1>4, EmptySeq
<1>6. 1..Len(deferred'.fwds) = {} /\ ~(Len(deferred'.fwds) > 0)
  BY <1>5
<1>7. SkippedOK(rx', skip', deferred')
  BY <1>1, <1>3, <1>6 DEF SkippedOK
<1>8. DeferredOK(rx', arrived', deferred'.fwds)
  BY <1>6 DEF DeferredOK
<1> QED BY <1>1, <1>3, <1>7, <1>8 DEF PeerOK

-----------------------------------------------------------------------------
(* Every step *)

\* What need not be read stays so.
LEMMA ExcusedStays ==
    ASSUME QueueOK, QueueOK', SafeOK, StepOK, SkipStep, NEW u \in 1..Len(log), Complete(u),
           Excused(MessageOf(u))
    PROVE  Excused(MessageOf(u))'
<1>0. /\ Len(log) \in Nat /\ Len(log') \in Nat /\ Len(log) <= Len(log') /\ LastTsn = Len(log)
      /\ LastTsn' = Len(log') /\ head.msg \in Nat
  BY StepFacts
<1>1. \A t \in 1..Len(log) : log'[t].msg = MessageOf(t) /\ log'[t].msg \in Nat
  BY StepFacts
<1>2. MessageOf(u) < head.msg
  BY DEF SafeOK, LogOK, Complete, MessageOf
<1>3. CASE ResetInsideBefore(MessageOf(u))
  <2>1. PICK b \in resets \cap 2..Len(log) : MessageOf(b - 1) = MessageOf(b) /\ MessageOf(b) < MessageOf(u)
    BY <1>0, <1>3 DEF ResetInsideBefore
  <2>2. b \in 1..Len(log) /\ b - 1 \in 1..Len(log)
    BY <1>0
  <2>3. b \in resets' \cap 2..Len(log')
    BY <1>0 DEF StepOK
  <2>4. log'[b - 1].msg = log'[b].msg /\ log'[b].msg < log'[u].msg
    BY <1>1, <2>1, <2>2
  <2>5. ResetInsideBefore(MessageOf(u))'
    BY <1>0, <2>3, <2>4 DEF ResetInsideBefore, MessageOf
  <2> QED BY <2>5 DEF Excused
<1>4. CASE Gone(MessageOf(u))
  <2>1. MessageOf(u) \notin delivered'
    <3> SUFFICES ASSUME MessageOf(u) \in delivered' PROVE FALSE
      OBVIOUS
    <3>1. MessageOf(u) \in delivered' \ delivered
      BY <1>4 DEF Gone
    <3>2. \E t \in Outstanding : MessageOf(t) = MessageOf(u) /\ item[t].life # "Abandoned"
      BY <3>1 DEF SkipStep
    <3> QED BY <1>4, <3>2 DEF Gone
  <2>2. ASSUME NEW t \in Outstanding', log'[t].msg = MessageOf(u) PROVE item'[t].life = "Abandoned"
    <3>1. CASE /\ t \in Outstanding /\ MessageOf(t) = log'[t].msg
               /\ item[t].life = "Abandoned" => item'[t].life = "Abandoned"
      BY <1>4, <2>2, <3>1 DEF Gone
    <3>2. CASE head.msg <= log'[t].msg
      <4>1. MessageOf(u) \in Nat
        BY <1>1
      <4> QED BY <1>0, <1>2, <2>2, <3>2, <4>1
    <3> QED BY <3>1, <3>2, StepOutstanding
  <2>3. log'[u].msg = MessageOf(u)
    BY <1>1
  <2>4. Gone(MessageOf(u))'
    BY <2>1, <2>2, <2>3 DEF Gone, MessageOf
  <2> QED BY <2>4 DEF Excused
<1> QED BY <1>3, <1>4 DEF Excused

\* A chunk with a new TSN is ahead of all that was read or skipped.
LEMMA NewSsns ==
    ASSUME QueueOK, QueueOK', SafeOK', StepOK, NEW u \in 1..Len(log'), u > Len(log),
           NEW v \in 1..Len(log), MessageOf(v) < head.msg
    PROVE  Ssn(v) < Ssn(u)' /\ Ssn(v) \in Nat /\ Ssn(u)' \in Nat
<1>0. Len(log) \in Nat /\ Len(log') \in Nat /\ Len(log) <= Len(log') /\ head.msg \in Nat
  BY StepFacts
<1>1. SsnOrdered'
  BY SsnsStayOrdered
<1>2. u \in (Len(log) + 1)..Len(log') /\ v \in 1..Len(log') /\ v \in 0..Len(log)
  BY <1>0
<1>3. head.msg <= log'[u].msg
  BY <1>2 DEF StepOK
<1>4. log'[v].msg = MessageOf(v) /\ log'[v].msg \in Nat
  BY StepFacts
<1>5. log'[u].msg \in Nat
  BY StepFacts
<1>6. log'[v].msg < log'[u].msg
  BY <1>0, <1>3, <1>4, <1>5
<1>7. Ssn(v)' < Ssn(u)' /\ Ssn(v)' \in Nat /\ Ssn(u)' \in Nat
  BY <1>1, <1>2, <1>6 DEF SsnOrdered, MessageOf
<1>8. Ssn(v)' = Ssn(v)
  BY <1>2, SsnStays
<1> QED BY <1>7, <1>8

LEMMA NewIsAhead ==
    ASSUME QueueOK, QueueOK', SafeOK', StepOK, NEW u \in 1..Len(log'), u > Len(log),
           FreshOK(rx', arrived', skip')
    PROVE  /\ ~(Ssn(u)' < rx'.next)
           /\ \A f \in 0..Len(log) : EndsAtReset(f) => ~(Ssn(u)' <= Ssn(f))
<1>0. Ssn(u)' \in Nat /\ rx'.next \in Nat /\ Len(log) \in Nat
  <2>1. SsnOrdered'
    BY SsnsStayOrdered
  <2>2. Ssn(u)' \in Nat
    BY <2>1 DEF SsnOrdered
  <2> QED BY <2>2, StepFacts DEF QueueOK, PeerType
<1>1. ~(Ssn(u)' < rx'.next)
  <2>1. CASE rx'.next = 0
    BY <1>0, <2>1
  <2>2. CASE \E v \in 1..Len(log) : MessageOf(v) < head.msg /\ Ssn(v) = rx'.next - 1
    <3>1. PICK v \in 1..Len(log) : MessageOf(v) < head.msg /\ Ssn(v) = rx'.next - 1
      BY <2>2
    <3>2. Ssn(v) < Ssn(u)'
      BY <3>1, NewSsns
    <3> DEFINE x == Ssn(u)'
               n == rx'.next
    <3>3. x \in Nat /\ n \in Nat /\ n - 1 < x
      BY <1>0, <3>1, <3>2
    <3> HIDE DEF x, n
    <3>4. ~(x < n)
      BY <3>3
    <3> QED BY <3>4 DEF x, n
  <2> QED BY <2>1, <2>2 DEF FreshOK
<1>2. ASSUME NEW f \in 0..Len(log), EndsAtReset(f) PROVE ~(Ssn(u)' <= Ssn(f))
  <2>1. CASE f = 0
    <3>1. Ssn(f) = -1
      BY <2>1, SsnInt
    <3> QED BY <1>0, <3>1
  <2>2. CASE f # 0
    <3>1. f \in 1..Len(log) /\ MessageOf(f) < head.msg
      BY <1>0, <1>2, <2>2 DEF EndsAtReset
    <3>2. Ssn(f) < Ssn(u)' /\ Ssn(f) \in Nat
      BY <3>1, NewSsns
    <3> QED BY <1>0, <3>2
  <2> QED BY <2>1, <2>2
<1> QED BY <1>1, <1>2

LEMMA PeerPrimed ==
    ASSUME QueueOK, QueueOK', SafeOK, SafeOK', StepOK, SkipStep,
           arrived' \subseteq 1..Len(log), skip' \in 0..Len(log),
           \A i \in 1..Len(deferred'.fwds) :
              deferred'.fwds[i] \in 0..Len(log) /\ EndsAtReset(deferred'.fwds[i]),
           FreshOK(rx', arrived', skip'), PeerOK(rx', arrived', skip', deferred')
    PROVE  PeerOK(rx, arrived, skip, deferred)'
<1>0. /\ StreamOK(rx', arrived') /\ SkippedOK(rx', skip', deferred')
      /\ DeferredOK(rx', arrived', deferred'.fwds)
  BY DEF PeerOK
<1>1. \A t \in 1..Len(log) : log'[t] = log[t] /\ MessageOf(t)' = MessageOf(t)
  BY DEF StepOK, MessageOf
<1>2. \A t \in 0..Len(log) : Ssn(t)' = Ssn(t)
  BY SsnStays
<1>3. Len(log) \in Nat /\ Len(log') \in Nat /\ \A t \in 1..Len(log) : t \in 0..Len(log)
  BY StepFacts
<1>4. \A t \in 1..Len(log) : Ssn(t)' = Ssn(t) /\ (Complete(t)' <=> Complete(t))
  BY <1>1, <1>2, <1>3 DEF Complete
<1>5. rx'.held \subseteq arrived' /\ rx'.held \subseteq 1..Len(log)
  BY DEF QueueOK, PeerType
<1>6. HeldOK(rx, arrived)'
  BY <1>0, <1>4 DEF StreamOK, HeldOK
<1>7. StuckOK(rx)'
  <2> DEFINE C == {t \in rx'.held : Ssn(t) = rx'.next}
  <2>1. C = ChunksOf(rx', rx'.next)
    BY DEF ChunksOf
  <2>2. ChunksOf(rx, rx.next)' = C
    BY <1>4, <1>5 DEF ChunksOf
  <2>3. C \subseteq 1..Len(log)
    BY <1>5
  <2> SUFFICES ASSUME Whole(ChunksOf(rx, rx.next))' PROVE \E t \in rx'.held : Ssn(t)' < rx'.next
    BY DEF StuckOK
  <2>4. Whole(C)
    <3> HIDE DEF C
    <3>1. /\ C # {} /\ log'[Min(C)].frag = 1
          /\ log'[Max(C)].frag = Fragments[log'[Max(C)].msg]
          /\ Max(C) - Min(C) = Cardinality(C) - 1
      BY <2>2 DEF Whole, MessageOf
    <3>2. Min(C) \in C /\ Max(C) \in C
      <4>1. C \subseteq Nat /\ C \subseteq 0..Len(log)
        BY <1>3, <2>3
      <4> QED BY <1>3, <3>1, <4>1, MinOf, MaxOf
    <3>3. log'[Min(C)] = log[Min(C)] /\ log'[Max(C)] = log[Max(C)]
      BY <1>1, <2>3, <3>2
    <3> QED BY <3>1, <3>3 DEF Whole, MessageOf
  <2>5. \E t \in rx'.held : Ssn(t) < rx'.next
    BY <1>0, <2>1, <2>4 DEF StreamOK, StuckOK
  <2> QED BY <1>4, <1>5, <2>5
<1>8. ASSUME NEW u \in 1..Len(log'), ~(u \in 1..Len(log)) PROVE u > Len(log)
  BY <1>3, <1>8
<1>9. PassedOK(rx)'
  <2> SUFFICES ASSUME NEW u \in 1..Len(log'), Complete(u)', Ssn(u)' < rx'.next
               PROVE  MessageOf(u)' \in ToSet(rx'.read) \/ Excused(MessageOf(u))'
    BY DEF PassedOK
  <2>1. u \in 1..Len(log)
    BY <1>8, NewIsAhead
  <2>2. Complete(u) /\ Ssn(u) < rx'.next
    BY <1>4, <2>1
  <2>3. MessageOf(u) \in ToSet(rx'.read) \/ Excused(MessageOf(u))
    BY <1>0, <2>1, <2>2 DEF StreamOK, PassedOK
  <2> QED BY <1>1, <2>1, <2>2, <2>3, ExcusedStays
<1>10. SkippedOK(rx, skip, deferred)'
  BY <1>0, <1>2 DEF SkippedOK
<1>11. DeferredOK(rx, arrived, deferred.fwds)'
  <2> SUFFICES ASSUME NEW i \in 1..Len(deferred'.fwds), NEW u \in 1..Len(log'), Complete(u)',
                      Ssn(u)' <= Ssn(deferred.fwds[i])'
               PROVE  \/ Excused(MessageOf(u))'
                      \/ i = 1 /\ Ssn(u)' < rx'.next
                      \/ i > 1 /\ (deferred'.fwds[i - 1] + 1)..u \subseteq arrived'
    BY DEF DeferredOK
  <2> DEFINE f == deferred'.fwds[i]
  <2>1. f \in 0..Len(log) /\ EndsAtReset(f)
    OBVIOUS
  <2>2. Ssn(deferred.fwds[i])' = Ssn(f)
    BY <1>2, <2>1
  <2> HIDE DEF f
  <2>3. u \in 1..Len(log)
    BY <1>8, <2>1, <2>2, NewIsAhead
  <2>4. Complete(u) /\ Ssn(u) <= Ssn(f)
    BY <1>4, <2>2, <2>3
  <2>5. \/ Excused(MessageOf(u))
        \/ i = 1 /\ Ssn(u) < rx'.next
        \/ i > 1 /\ (deferred'.fwds[i - 1] + 1)..u \subseteq arrived'
    BY <1>0, <2>3, <2>4 DEF DeferredOK, f
  <2> QED BY <1>4, <2>3, <2>4, <2>5, ExcusedStays
<1> QED BY <1>6, <1>7, <1>9, <1>10, <1>11 DEF PeerOK, StreamOK

LEMMA NextPeer ==
    ASSUME DeliveryInv, QueueOK', SafeOK', StepOK, SkipStep, FreshInv', [Next]_vars
    PROVE  PeerOK(rx, arrived, skip, deferred)'
<1>0. QueueOK /\ SafeOK /\ ForwardOK /\ FreshInv
  BY DEF DeliveryInv
<1>1. /\ arrived \subseteq 1..Len(log) /\ sent \subseteq 1..Len(log) /\ skip \in 0..Len(log)
      /\ fwds \subseteq 0..Len(log)
  BY <1>0, PeerFacts
<1>2. CASE UNCHANGED <<rx, arrived, skip, deferred>>
  <2>1. /\ PeerOK(rx', arrived', skip', deferred') /\ FreshOK(rx', arrived', skip')
        /\ arrived' \subseteq 1..Len(log) /\ skip' \in 0..Len(log)
    BY <1>1, <1>2 DEF DeliveryInv, FreshInv
  <2>2. \A i \in 1..Len(deferred'.fwds) :
          deferred'.fwds[i] \in 0..Len(log) /\ EndsAtReset(deferred'.fwds[i])
    <3> DEFINE fs == deferred.fwds
    <3>1. fs \in Seq(fwds)
      BY <1>0, PeerFacts
    <3>2. \A i \in 1..Len(fs) : fs[i] \in fwds
      <4> HIDE DEF fs
      <4> QED BY <3>1, ElementOfSeq
    <3> QED BY <1>0, <1>1, <1>2, <3>2 DEF ForwardOK
  <2> QED BY <1>0, <2>1, <2>2, PeerPrimed
<1>3. CASE \/ \E t \in sent : ReceiveData(t)
           \/ \E f \in fwds : ReceiveForwardTsn(f)
           \/ \E b \in resets : ReceiveResetRequest(b)
  <2>1. PeerOK(rx', arrived', skip', deferred')
    BY <1>3, ReceiveDataPeer, ReceiveForwardTsnPeer, ReceiveResetRequestPeer
  <2>2. UNCHANGED <<outstanding, head, resets, path, delivered>>
    BY <1>3 DEF ReceiveData, ReceiveForwardTsn, ReceiveResetRequest
  <2>3. log' = log /\ head' = head /\ resets' = resets /\ fwds' = fwds
    BY <2>2 DEF outstanding, path
  <2>4. FreshOK(rx', arrived', skip')
    <3>1. \A t : Ssn(t)' = Ssn(t)
      BY <2>3 DEF Ssn, MessageOf
    <3>2. \A t : MessageOf(t)' = MessageOf(t) /\ (Cut(t)' <=> Cut(t))
      BY <2>3 DEF Cut, MessageOf
    <3> QED BY <2>3, <3>1, <3>2 DEF FreshInv, FreshOK
  <2>5. arrived' \subseteq 1..Len(log) /\ skip' \in 0..Len(log) /\ deferred'.fwds \in Seq(fwds)
    <3>1. arrived' \subseteq 1..Len(log') /\ skip' \in fwds' \cup {0} /\ deferred'.fwds \in Seq(fwds')
      BY DEF QueueOK, PeerType
    <3>2. 0 \in 0..Len(log)
      BY <1>0, QueueFacts
    <3> QED BY <1>1, <2>3, <3>1, <3>2
  <2>6. \A i \in 1..Len(deferred'.fwds) :
          deferred'.fwds[i] \in 0..Len(log) /\ EndsAtReset(deferred'.fwds[i])
    <3> DEFINE fs == deferred'.fwds
    <3>1. \A i \in 1..Len(fs) : fs[i] \in fwds
      <4>1. fs \in Seq(fwds)
        BY <2>5
      <4> HIDE DEF fs
      <4> QED BY <4>1, ElementOfSeq
    <3> QED BY <1>0, <1>1, <3>1 DEF ForwardOK
  <2> QED BY <1>0, <2>1, <2>4, <2>5, <2>6, PeerPrimed
<1>4. CASE \/ Send \/ LimitEnds \/ (\E m \in Messages : Expire(m)) \/ SendNothing
           \/ ResetStreams \/ UNCHANGED vars \/ SendControl
           \/ Retransmit \/ Produce \/ ProduceExpired \/ OnRtxTimerExpiry
  <2>1. UNCHANGED <<rx, arrived, skip, deferred>>
    BY <1>4 DEF Send, LimitEnds, Expire, SendNothing, ResetStreams, vars, SendControl,
                Retransmit, Produce, ProduceExpired, OnRtxTimerExpiry, peer, reassembly
  <2> QED BY <1>2, <2>1
<1>5. CASE \E s \in sacks, a \in PeerWindows : HandleSack(s, a)
  <2>1. UNCHANGED <<rx, arrived, skip, deferred>>
    BY <1>5, HandleSackFacts DEF reassembly
  <2> QED BY <1>2, <2>1
<1> QED BY <1>3, <1>4, <1>5 DEF Next

LEMMA InitDelivery == Init => DeliveryInv
<1> SUFFICES ASSUME Init PROVE DeliveryInv
  OBVIOUS
<1>1. QueueOK /\ SafeOK /\ SkipOK /\ RunInv /\ ForwardOK /\ FreshInv
  BY InitQueueOK, InitSafe, InitSkip, InitRun, InitFresh
<1>2. /\ Len(log) = 0 /\ deferred.fwds = << >> /\ rx.next = 0 /\ rx.held = {} /\ skip = 0
      /\ arrived = {} /\ sacks = {} /\ delivered = {} /\ cum = 0
  BY EmptySeq DEF Init, NotDeferred
<1>3. 1..Len(log) = {} /\ 1..cum = {} /\ 1..skip = {}
  BY <1>2
<1>4. Len(deferred.fwds) = 0
  BY <1>2, EmptySeq
<1>5. AckedOK
  BY <1>2, <1>3 DEF AckedOK
<1>6. StreamOK(rx, arrived)
  <2>1. ~Whole(ChunksOf(rx, rx.next))
    BY <1>2 DEF ChunksOf, Whole
  <2> QED BY <1>2, <1>3, <2>1 DEF StreamOK, HeldOK, StuckOK, PassedOK
<1>7. SkippedOK(rx, skip, deferred)
  <2>1. skip \in 0..Len(log)
    BY <1>2
  <2>2. Ssn(skip) = -1
    BY <1>1, <1>2, <2>1, SsnInt
  <2> QED BY <1>2, <1>4, <2>2 DEF SkippedOK
<1>8. DeferredOK(rx, arrived, deferred.fwds)
  BY <1>3 DEF DeferredOK
<1> QED BY <1>1, <1>5, <1>6, <1>7, <1>8 DEF DeliveryInv, PeerOK

LEMMA NextDelivery ==
    ASSUME DeliveryInv, [Next]_vars
    PROVE  DeliveryInv'
<1>0. /\ QueueOK /\ SafeOK /\ SkipOK /\ RunInv /\ ForwardOK /\ FreshInv /\ AckedOK
  BY DEF DeliveryInv
<1>1. QueueOK'
  BY <1>0, NextQueueOK
<1>2. SafeOK' /\ StepOK
  BY <1>0, <1>1, NextSafe
<1>3. SkipStep
  BY <1>0, NextSkipStep
<1>4. SkipOK'
  BY <1>0, <1>1, <1>2, <1>3, SkipStepKeeps
<1>5. RunInv'
  BY <1>0, <1>1, NextRun
<1>6. ForwardOK'
  BY <1>0, <1>1, <1>2, NextForward
<1>7. FreshInv'
  BY <1>0, <1>1, <1>2, NextFresh
<1>8. AckedOK'
  BY <1>0, <1>1, <1>2, <1>3, NextAcked
<1>9. PeerOK(rx, arrived, skip, deferred)'
  BY <1>1, <1>2, <1>3, <1>7, NextPeer
<1> QED BY <1>1, <1>2, <1>4, <1>5, <1>6, <1>7, <1>8, <1>9 DEF DeliveryInv

\* OnLifecycleMessageDelivered tells the truth: the peer's client has read every
\* message that OutstandingData reports as delivered, unless a FORWARD-TSN waits for
\* a stream reset at the peer or a stream was reset between the chunks of a message
\* before it; for any number and length of messages, losses, repetitions, expiries
\* and resets.
THEOREM DeliveredMessagesAreRead == Spec => []DeliveredIsRead
<1>1. Init => DeliveryInv
  BY InitDelivery
<1>2. DeliveryInv /\ [Next]_vars => DeliveryInv'
  BY NextDelivery
<1>3. DeliveryInv => DeliveredIsRead
  BY DeliveredAreRead DEF DeliveryInv, PeerOK
<1> QED BY <1>1, <1>2, <1>3, PTL DEF Spec

=============================================================================
