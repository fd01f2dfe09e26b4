---------------------- MODULE RetransmissionQueue_proof ----------------------
(***************************************************************************)
(* Proofs about RetransmissionQueue, for every value of its constants: the *)
(* types of its variables, and that the sender's counts agree with its     *)
(* items. RetransmissionQueueSafety_proof goes on from here.               *)
(***************************************************************************)
EXTENDS RetransmissionQueue, FiniteSetTheorems, SequenceTheorems,
        WellFoundedInduction, TLAPS

-----------------------------------------------------------------------------
(* Numbers and sets *)

\* Every nonempty set of naturals has a least element, which Min chooses.
LEMMA MinOf ==
    ASSUME NEW S, S \subseteq Nat, S # {}
    PROVE  Min(S) \in S /\ \A x \in S : Min(S) <= x
<1> DEFINE R == {ss \in Nat \X Nat : ss[1] < ss[2]}
<1>1. IsWellFoundedOn(R, Nat)
  BY NatLessThanWellFounded DEF OpToRel
<1>2. \E x \in S : \A y \in S : ~(<<y, x>> \in R)
  <2> HIDE DEF R
  <2> QED BY <1>1, WFMin
<1>3. \A x, y \in Nat : ~(<<y, x>> \in R) => x <= y
  OBVIOUS
<1>4. \E x \in S : \A y \in S : x <= y
  BY <1>2, <1>3
<1> QED BY <1>4 DEF Min

\* Likewise for the greatest element of a bounded set.
LEMMA MaxOf ==
    ASSUME NEW N \in Nat, NEW S, S \subseteq 0..N, S # {}
    PROVE  Max(S) \in S /\ \A x \in S : x <= Max(S)
<1> DEFINE T == {n \in Nat : \A x \in S : x <= n}
           n == Min(T)
<1>1. n \in T /\ \A x \in T : n <= x
  <2>1. N \in T /\ T \subseteq Nat
    OBVIOUS
  <2> HIDE DEF T
  <2> QED BY <2>1, MinOf
<1> HIDE DEF n
<1>2. n \in S
  <2> SUFFICES ASSUME n \notin S PROVE FALSE
    OBVIOUS
  <2>1. n \in Nat /\ \A x \in S : x <= n - 1
    BY <1>1
  <2>2. PICK x \in S : x \in 0..N
    OBVIOUS
  <2>3. n - 1 \in T
    BY <2>1, <2>2
  <2> QED BY <1>1, <2>1, <2>3
<1>3. \E x \in S : \A y \in S : x >= y
  BY <1>1, <1>2
<1> QED BY <1>3 DEF Max

LEMMA FiniteInterval ==
    ASSUME NEW a \in Nat, NEW b \in Nat, NEW S, S \subseteq a..b
    PROVE  IsFiniteSet(S) /\ Cardinality(S) \in Nat
<1>1. IsFiniteSet(a..b)
  BY FS_Interval
<1> QED BY <1>1, FS_Subset, FS_CardinalityType

LEMMA CumulativeAckOf ==
    ASSUME NEW N \in Nat, NEW s, s \subseteq 1..N
    PROVE  /\ CumulativeAck(s) \in 0..N
           /\ 1..CumulativeAck(s) \subseteq s /\ CumulativeAck(s) + 1 \notin s
<1> DEFINE T == {n \in Nat : n + 1 \notin s}
           c == Min(T)
<1>1. c \in T /\ \A x \in T : c <= x
  <2>1. N \in T /\ T \subseteq Nat
    OBVIOUS
  <2> HIDE DEF T
  <2> QED BY <2>1, MinOf
<1> HIDE DEF c
<1>2. c \in Nat /\ c + 1 \notin s
  BY <1>1
<1>3. 1..c \subseteq s
  <2> SUFFICES ASSUME NEW x \in 1..c, x \notin s PROVE FALSE
    OBVIOUS
  <2>1. x - 1 \in T
    OBVIOUS
  <2> QED BY <1>1, <1>2, <2>1
<1>4. IsFiniteSet(s) /\ Cardinality(s) \in Nat
  BY FiniteInterval
<1>5. c <= Cardinality(s)
  <2>1. Cardinality(1..c) = c
    BY <1>2, FS_Interval
  <2>2. Cardinality(1..c) <= Cardinality(s)
    BY <1>3, <1>4, FS_Subset
  <2> QED BY <2>1, <2>2
<1>6. \E x \in 0..Cardinality(s) : 1..x \subseteq s /\ x + 1 \notin s
  BY <1>2, <1>3, <1>4, <1>5
<1>7. /\ CumulativeAck(s) \in 0..Cardinality(s)
      /\ 1..CumulativeAck(s) \subseteq s /\ CumulativeAck(s) + 1 \notin s
  BY <1>6 DEF CumulativeAck
<1>8. CumulativeAck(s) \in Nat
  BY <1>4, <1>7
<1>9. CumulativeAck(s) <= N
  <2> SUFFICES ASSUME CumulativeAck(s) > N PROVE FALSE
    BY <1>8
  <2>1. CumulativeAck(s) \in 1..CumulativeAck(s)
    BY <1>8
  <2> QED BY <1>7, <1>8, <2>1
<1> QED BY <1>7, <1>8, <1>9

\* Sets A and B without a common element.
LEMMA DisjointUnion ==
    ASSUME NEW A, NEW B, IsFiniteSet(A), IsFiniteSet(B), A \cap B = {}
    PROVE  /\ IsFiniteSet(A \cup B) /\ Cardinality(A \cup B) = Cardinality(A) + Cardinality(B)
           /\ Cardinality(A) \in Nat /\ Cardinality(B) \in Nat
<1>1. Cardinality(A) \in Nat /\ Cardinality(B) \in Nat /\ Cardinality({}) = 0
  BY FS_CardinalityType, FS_EmptySet
<1>2. /\ IsFiniteSet(A \cup B)
      /\ Cardinality(A \cup B) = Cardinality(A) + Cardinality(B) - Cardinality(A \cap B)
  BY FS_Union
<1>3. Cardinality(A \cap B) = 0
  BY <1>1
<1> QED BY <1>1, <1>2, <1>3

-----------------------------------------------------------------------------
(* The invariant *)

Entry == [msg : Messages, frag : Nat]
HeadType(n) == [msg : 1..(n + 1), frag : Nat \ {0}]

\* The types, and what else the proofs need to know of the numbers.
CoreType ==
    /\ cum \in Nat /\ log \in Seq(Entry) /\ cum <= Len(log)
    /\ item \in [(cum + 1)..Len(log) -> Item]
    /\ head \in HeadType(sends) /\ (head.frag > 1 => head.msg <= sends)

CountType ==
    /\ breaks \subseteq Nat /\ resets \subseteq Nat
    /\ exit \in Nat \cup {NoExit}
    /\ cwnd \in Nat \ {0} /\ ssthresh \in Nat /\ pba \in Nat /\ rwnd \in Nat
    /\ t3 \in BOOLEAN /\ limited \in BOOLEAN
    /\ sending \in 0..(MaxBurst + 1)
    /\ sends \in 0..Len(Fragments)
    /\ expired \subseteq Mortal /\ expired \subseteq 1..sends
    /\ delivered \subseteq Messages

PeerType ==
    /\ sent \subseteq 1..Len(log) /\ fwds \subseteq 0..Len(log)
    /\ sacks \subseteq SUBSET (1..Len(log))
    /\ arrived \subseteq sent /\ skip \in fwds \cup {0}
    /\ rx \in [next : Nat, held : SUBSET arrived, read : Seq(Messages)]
    /\ deferred \in [last : Nat, fwds : Seq(fwds)] /\ performed \subseteq resets

Consistent(it, rtx, n) ==
    /\ n = Cardinality(Unacked(it))
    /\ rtx = {t \in DOMAIN it : it[t].life = "ToBeRetransmitted"}
    /\ \A t \in rtx : it[t].ack = "Nacked"

QueueOK == CoreType /\ CountType /\ PeerType /\ Consistent(item, toRtx, unacked)

-----------------------------------------------------------------------------
(* Abandoning *)

\* AbandonAllFor, for the log l, its items and the next fragment h.
AbandonShape(l, it, h, ms) ==
    /\ \/ /\ Len(log') = Len(l) /\ head' = h /\ ~(h.msg \in ms /\ h.frag > 1)
       \/ /\ h.msg \in ms /\ h.frag > 1
          /\ Len(log') = Len(l) + 1
          /\ log'[Len(l) + 1] = [msg |-> h.msg, frag |-> 0]
          /\ item'[Len(l) + 1] = Placeholder
          /\ head' = [msg |-> h.msg + 1, frag |-> 1]
    /\ \A t \in 1..Len(l) : log'[t] = l[t]
    /\ \A t \in DOMAIN it :
         /\ item'[t].ack = it[t].ack
         /\ item'[t].life = IF l[t].msg \in ms THEN "Abandoned" ELSE it[t].life

LEMMA ItemFields ==
    ASSUME NEW i \in Item
    PROVE  /\ i.ack \in AckState /\ i.life \in Lifecycle /\ i.rtx \in Nat
           /\ i.nacks \in 0..NacksForRetransmission
           /\ [i EXCEPT !.life = "Abandoned"] \in Item
           /\ [i EXCEPT !.life = "Abandoned"].ack = i.ack
           /\ [i EXCEPT !.life = "Abandoned"].life = "Abandoned"
BY DEF Item, Lifecycle

LEMMA ItemValues == InFlight \in Item /\ Placeholder \in Item
<1>1. 0 \in 0..NacksForRetransmission
  BY QueueAssumption
<1> QED BY <1>1 DEF InFlight, Placeholder, Item, AckState, Lifecycle

LEMMA AbandonEffect ==
    ASSUME NEW c \in Nat, NEW l \in Seq(Entry), c <= Len(l),
           NEW it \in [(c + 1)..Len(l) -> Item], NEW rtx, NEW ms,
           NEW n \in 0..Len(Fragments), NEW h \in HeadType(n), h.frag > 1 => h.msg <= n,
           AbandonAllFor(l, it, rtx, h, ms)
    PROVE  /\ log' \in Seq(Entry) /\ Len(l) <= Len(log')
           /\ item' \in [(c + 1)..Len(log') -> Item]
           /\ head' \in HeadType(n) /\ (head'.frag > 1 => head'.msg <= n)
           /\ AbandonShape(l, it, h, ms)
<1> DEFINE a == AbandonedItems(l, it, ms)
<1>0. Len(l) \in Nat /\ Len(Fragments) \in Nat
  BY LenProperties, QueueAssumption
<1>1. /\ a \in [(c + 1)..Len(l) -> Item]
      /\ \A t \in (c + 1)..Len(l) :
           /\ a[t].ack = it[t].ack
           /\ a[t].life = IF l[t].msg \in ms THEN "Abandoned" ELSE it[t].life
  <2>1. \A t \in (c + 1)..Len(l) : it[t] \in Item
    OBVIOUS
  <2> QED BY <2>1, ItemFields DEF AbandonedItems
<1> HIDE DEF a
<1>2. CASE ~(h.msg \in ms /\ h.frag > 1)
  <2>1. item' = a /\ log' = l /\ head' = h
    BY <1>2 DEF AbandonAllFor, a
  <2>2. AbandonShape(l, it, h, ms)
    BY <1>1, <1>2, <2>1 DEF AbandonShape
  <2> QED BY <1>0, <1>1, <2>1, <2>2
<1>3. CASE h.msg \in ms /\ h.frag > 1
  <2>0. /\ h.msg \in Nat /\ h.msg + 1 \in 1..(n + 1) /\ h.msg \in Messages
        /\ h.msg <= n
    BY <1>0, <1>3 DEF HeadType, Messages
  <2>1. /\ item' = [t \in DOMAIN it \cup {Len(l) + 1} |->
                      IF t = Len(l) + 1 THEN Placeholder ELSE a[t]]
        /\ log' = Append(l, [msg |-> h.msg, frag |-> 0])
        /\ head' = [msg |-> h.msg + 1, frag |-> 1]
    <3>1. [h EXCEPT !.frag = 0] = [msg |-> h.msg, frag |-> 0]
      BY DEF HeadType
    <3> QED BY <1>3, <3>1 DEF AbandonAllFor, a
  <2>2. [msg |-> h.msg, frag |-> 0] \in Entry
    BY <2>0 DEF Entry
  <2>3. /\ log' \in Seq(Entry) /\ Len(log') = Len(l) + 1
        /\ log'[Len(l) + 1] = [msg |-> h.msg, frag |-> 0]
        /\ \A t \in 1..Len(l) : log'[t] = l[t]
    BY <1>0, <2>1, <2>2, AppendProperties
  <2>4. (c + 1)..(Len(l) + 1) = (c + 1)..Len(l) \cup {Len(l) + 1} /\ DOMAIN it = (c + 1)..Len(l)
    BY <1>0
  <2>5. /\ item' \in [(c + 1)..(Len(l) + 1) -> Item]
        /\ item'[Len(l) + 1] = Placeholder
        /\ \A t \in (c + 1)..Len(l) : item'[t] = a[t]
    BY <1>0, <1>1, <2>1, <2>4, ItemValues
  <2>6. head' \in HeadType(n) /\ head'.frag = 1
    BY <2>0, <2>1 DEF HeadType
  <2>7. AbandonShape(l, it, h, ms)
    BY <1>1, <1>3, <2>1, <2>3, <2>4, <2>5 DEF AbandonShape
  <2> QED BY <1>0, <2>3, <2>5, <2>6, <2>7
<1> QED BY <1>2, <1>3

LEMMA AbandonConsistent ==
    ASSUME NEW c \in Nat, NEW l \in Seq(Entry), c <= Len(l),
           NEW it \in [(c + 1)..Len(l) -> Item], NEW rtx, NEW ms,
           NEW n \in 0..Len(Fragments), NEW h \in HeadType(n), h.frag > 1 => h.msg <= n,
           AbandonAllFor(l, it, rtx, h, ms), rtx \subseteq (c + 1)..Len(l),
           \A t \in (c + 1)..Len(l) : l[t].msg \notin ms =>
               (t \in rtx <=> it[t].life = "ToBeRetransmitted"),
           \A t \in rtx : it[t].ack = "Nacked"
    PROVE  Consistent(item', toRtx', Cardinality(Unacked(it)))
<1>0. Len(l) \in Nat /\ DOMAIN it = (c + 1)..Len(l)
  BY LenProperties
<1>1. /\ log' \in Seq(Entry) /\ Len(l) <= Len(log') /\ AbandonShape(l, it, h, ms)
      /\ item' \in [(c + 1)..Len(log') -> Item]
  BY AbandonEffect
<1>2. Len(log') = Len(l) \/ Len(log') = Len(l) + 1
  BY <1>1 DEF AbandonShape
<1>3. toRtx' = {t \in rtx : l[t].msg \notin ms}
  BY DEF AbandonAllFor
<1>4. ASSUME NEW t \in DOMAIN item'
      PROVE  \/ t \in DOMAIN it /\ item'[t].ack = it[t].ack
                /\ item'[t].life = IF l[t].msg \in ms THEN "Abandoned" ELSE it[t].life
             \/ t \notin DOMAIN it /\ item'[t].ack = "Acked" /\ item'[t].life = "Abandoned"
  <2>1. CASE t \in DOMAIN it
    BY <1>1, <2>1 DEF AbandonShape
  <2>2. CASE t \notin DOMAIN it
    <3>1. t = Len(l) + 1 /\ Len(log') # Len(l)
      BY <1>0, <1>1, <1>2, <2>2
    <3>2. item'[t] = Placeholder
      BY <1>1, <3>1 DEF AbandonShape
    <3> QED BY <2>2, <3>2 DEF Placeholder
  <2> QED BY <2>1, <2>2
<1>5. DOMAIN it \subseteq DOMAIN item'
  BY <1>0, <1>1, <1>2
<1>6. Unacked(item') = Unacked(it)
  BY <1>4, <1>5 DEF Unacked
<1>7. toRtx' = {t \in DOMAIN item' : item'[t].life = "ToBeRetransmitted"}
  BY <1>3, <1>4, <1>5
<1>8. \A t \in toRtx' : item'[t].ack = "Nacked"
  BY <1>3, <1>4, <1>5
<1> QED BY <1>6, <1>7, <1>8 DEF Consistent

-----------------------------------------------------------------------------
(* Items *)

LEMMA NackEffect ==
    ASSUME NEW D, NEW it \in [D -> Item], NEW ts, ts \subseteq D, NEW now,
           NEW r, r = NackedItems(it, ts, now)
    PROVE  /\ r \in [D -> Item]
           /\ \A t \in D \ ts : r[t] = it[t]
           /\ \A t \in ts :
                /\ r[t].ack = "Nacked"
                /\ r[t].life = IF IsLost(it[t], now) /\ ~IsExhausted(t, it[t])
                               THEN "ToBeRetransmitted" ELSE it[t].life
<1>1. ASSUME NEW t \in ts
      PROVE  /\ NackItem(t, it[t], now) \in Item /\ NackItem(t, it[t], now).ack = "Nacked"
             /\ NackItem(t, it[t], now).life =
                  IF IsLost(it[t], now) /\ ~IsExhausted(t, it[t])
                  THEN "ToBeRetransmitted" ELSE it[t].life
  <2> DEFINE i == it[t]
             n == NackCount(i)
             f == IF IsLost(i, now) /\ ~IsExhausted(t, i) THEN "ToBeRetransmitted" ELSE i.life
  <2>1. i \in Item
    BY <1>1
  <2>2. n \in 0..NacksForRetransmission
    <3>1. i.nacks \in 0..NacksForRetransmission /\ NacksForRetransmission \in Nat
      BY <2>1, QueueAssumption DEF Item
    <3> HIDE DEF i
    <3> QED BY <3>1 DEF NackCount
  <2>3. f \in Lifecycle
    BY <2>1, ItemFields DEF Lifecycle
  <2>4. NackItem(t, i, now) = [i EXCEPT !.ack = "Nacked", !.nacks = n, !.life = f]
    BY <2>1 DEF NackItem, Item
  <2> HIDE DEF i, n, f
  <2>5. /\ NackItem(t, i, now) \in Item /\ NackItem(t, i, now).ack = "Nacked"
        /\ NackItem(t, i, now).life = f
    BY <2>1, <2>2, <2>3, <2>4 DEF Item, AckState
  <2> QED BY <2>5 DEF i, f
<1> QED BY <1>1 DEF NackedItems

LEMMA MarkEffect ==
    ASSUME NEW t, NEW i \in Item
    PROVE  /\ MarkAsRetransmitted(t, i) \in Item
           /\ MarkAsRetransmitted(t, i).ack = "Unacked"
           /\ MarkAsRetransmitted(t, i).life = "Active"
<1> DEFINE n == IF MaxRetransmits[MessageOf(t)] = NoLimit THEN 0 ELSE i.rtx + 1
<1>1. n \in Nat
  BY DEF Item
<1>2. MarkAsRetransmitted(t, i) = [InFlight EXCEPT !.rtx = n]
  BY DEF MarkAsRetransmitted
<1> HIDE DEF n
<1> QED BY <1>1, <1>2, ItemValues DEF InFlight, Item

LEMMA AckEffect ==
    ASSUME NEW i \in Item
    PROVE  /\ AckItem(i) \in Item /\ AckItem(i).ack = "Acked"
           /\ AckItem(i).life = IF i.life = "Abandoned" THEN "Abandoned" ELSE "Active"
<1> DEFINE f == IF i.life = "Abandoned" THEN i.life ELSE "Active"
<1>1. AckItem(i) = [i EXCEPT !.ack = "Acked", !.life = f] /\ f \in Lifecycle
  BY DEF AckItem, Item, Lifecycle
<1> HIDE DEF f
<1>2. AckItem(i) \in Item /\ AckItem(i).ack = "Acked" /\ AckItem(i).life = f
  BY <1>1 DEF Item, AckState
<1> QED BY <1>2 DEF f

-----------------------------------------------------------------------------
(* What QueueOK says *)

LEMMA QueueFacts ==
    ASSUME QueueOK
    PROVE  /\ cum \in Nat /\ log \in Seq(Entry) /\ Len(log) \in Nat /\ cum <= Len(log)
           /\ item \in [(cum + 1)..Len(log) -> Item]
           /\ Outstanding = (cum + 1)..Len(log) /\ LastTsn = Len(log)
           /\ sends \in 0..Len(Fragments) /\ sends \in Nat /\ Len(Fragments) \in Nat
           /\ head \in HeadType(sends) /\ (head.frag > 1 => head.msg <= sends)
           /\ head.msg \in 1..(sends + 1) /\ head.frag \in Nat \ {0}
           /\ IsFiniteSet(Unacked(item)) /\ unacked \in Nat
           /\ unacked = Cardinality(Unacked(item))
           /\ toRtx \subseteq Outstanding
           /\ toRtx = {t \in Outstanding : item[t].life = "ToBeRetransmitted"}
           /\ \A t \in toRtx : item[t].ack = "Nacked"
           /\ \A t \in Outstanding : item[t] \in Item /\ t \in 1..Len(log) /\ t \in Nat
           /\ \A t \in 1..Len(log) : log[t] \in Entry /\ MessageOf(t) \in Messages
<1>1. /\ cum \in Nat /\ log \in Seq(Entry) /\ Len(log) \in Nat /\ cum <= Len(log)
      /\ item \in [(cum + 1)..Len(log) -> Item]
      /\ Outstanding = (cum + 1)..Len(log) /\ LastTsn = Len(log)
  BY LenProperties DEF QueueOK, CoreType, Outstanding, LastTsn
<1>2. /\ sends \in 0..Len(Fragments) /\ sends \in Nat /\ Len(Fragments) \in Nat
      /\ head \in HeadType(sends) /\ (head.frag > 1 => head.msg <= sends)
      /\ head.msg \in 1..(sends + 1) /\ head.frag \in Nat \ {0}
  BY LenProperties, QueueAssumption DEF QueueOK, CoreType, CountType, HeadType
<1>3. IsFiniteSet(Unacked(item)) /\ unacked \in Nat /\ unacked = Cardinality(Unacked(item))
  <2>1. Unacked(item) \subseteq (cum + 1)..Len(log)
    BY <1>1 DEF Unacked
  <2>2. cum + 1 \in Nat
    BY <1>1
  <2> QED BY <1>1, <2>1, <2>2, FiniteInterval DEF QueueOK, Consistent
<1>4. /\ toRtx \subseteq Outstanding
      /\ toRtx = {t \in Outstanding : item[t].life = "ToBeRetransmitted"}
      /\ \A t \in toRtx : item[t].ack = "Nacked"
  BY DEF QueueOK, Consistent, Outstanding
<1>5. \A t \in Outstanding : item[t] \in Item /\ t \in 1..Len(log) /\ t \in Nat
  BY <1>1
<1>6. \A t \in 1..Len(log) : log[t] \in Entry /\ MessageOf(t) \in Messages
  <2>1. \A t \in 1..Len(log) : log[t] \in Entry
    BY <1>1, ElementOfSeq
  <2> QED BY <2>1 DEF Entry, MessageOf
<1> QED BY <1>1, <1>2, <1>3, <1>4, <1>5, <1>6

LEMMA QueueTypes == QueueOK => TypeOK /\ IsConsistent
<1> SUFFICES ASSUME QueueOK PROVE TypeOK /\ IsConsistent
  OBVIOUS
<1>1. TypeOK
  <2>1. /\ cum \in Nat /\ log \in Seq([msg : Messages, frag : Nat])
        /\ item \in [(cum + 1)..LastTsn -> Item] /\ unacked \in Nat
        /\ toRtx \subseteq Outstanding
        /\ head \in [msg : 1..(sends + 1), frag : Nat \ {0}]
    BY QueueFacts DEF Entry, HeadType
  <2> QED BY <2>1 DEF QueueOK, CountType, PeerType, TypeOK, LastTsn
<1>2. IsConsistent
  BY DEF QueueOK, Consistent, IsConsistent, Outstanding
<1> QED BY <1>1, <1>2

\* Steps of the sender leave the peer alone: what it has been sent only grows.
LEMMA PeerGrows ==
    ASSUME QueueOK, UNCHANGED <<arrived, skip, reassembly>>, sacks' \subseteq sacks,
           log' \in Seq(Entry), Len(log) <= Len(log'),
           sent \subseteq sent', sent' \subseteq 1..Len(log'),
           fwds \subseteq fwds', fwds' \subseteq 0..Len(log'), resets \subseteq resets'
    PROVE  PeerType'
<1>0. Len(log) \in Nat /\ Len(log') \in Nat
  BY QueueFacts, LenProperties
<1>1. 1..Len(log) \subseteq 1..Len(log')
  BY <1>0
<1>2. sacks' \subseteq SUBSET (1..Len(log'))
  BY <1>1 DEF QueueOK, PeerType
<1>3. deferred' \in [last : Nat, fwds : Seq(fwds')]
  <2>1. Seq(fwds) \subseteq Seq(fwds')
    BY SeqMonotonic
  <2> QED BY <2>1 DEF QueueOK, PeerType, reassembly
<1>4. rx' \in [next : Nat, held : SUBSET arrived', read : Seq(Messages)]
  BY DEF QueueOK, PeerType, reassembly
<1>5. arrived' \subseteq sent' /\ skip' \in fwds' \cup {0} /\ performed' \subseteq resets'
  BY DEF QueueOK, PeerType, reassembly
<1> QED BY <1>2, <1>3, <1>4, <1>5 DEF PeerType

LEMMA SizeType ==
    ASSUME NEW n \in Nat
    PROVE  (n - 1) % SizeModulus \in Nat
<1>1. n - 1 \in Int /\ SizeModulus \in Nat /\ SizeModulus > 0
  BY QueueAssumption
<1> QED BY <1>1

LEMMA HeadFacts ==
    ASSUME QueueOK
    PROVE  /\ NextHead \in HeadType(sends) /\ NextHead.msg \in 1..(sends + 1)
           /\ NextHead.frag > 1 => NextHead.msg <= sends
           /\ head.msg <= NextHead.msg
           /\ \/ NextHead = head /\ head.frag > 1
              \/ NextHead.frag = 1 /\ head.frag = 1 /\ NextHead.msg \notin expired
           /\ head.frag = 1 =>
                \A m \in head.msg..(sends + 1) : m \notin expired => NextHead.msg <= m
<1>1. CASE head.frag > 1
  <2>1. NextHead = head
    BY <1>1 DEF NextHead
  <2> QED BY <1>1, <2>1, QueueFacts
<1>2. CASE ~(head.frag > 1)
  <2> DEFINE S == {m \in head.msg..(sends + 1) : m \notin expired}
             k == Min(S)
  <2>1. sends + 1 \in S /\ S \subseteq Nat
    <3>1. expired \subseteq 1..sends
      BY DEF QueueOK, CountType
    <3>2. sends \in Nat /\ head.msg \in 1..(sends + 1)
      BY QueueFacts
    <3> QED BY <3>1, <3>2
  <2>2. NextHead = [msg |-> k, frag |-> 1]
    BY <1>2 DEF NextHead
  <2>3. k \in S /\ \A m \in S : k <= m
    <3> HIDE DEF S
    <3> QED BY <2>1, MinOf
  <2>4. /\ k \in head.msg..(sends + 1) /\ k \notin expired
        /\ \A m \in head.msg..(sends + 1) : m \notin expired => k <= m
    BY <2>3
  <2> HIDE DEF k
  <2>5. head.frag = 1 /\ k \in 1..(sends + 1) /\ head.msg <= k
    BY <1>2, <2>4, QueueFacts
  <2>6. NextHead.msg = k /\ NextHead.frag = 1
    BY <2>2
  <2>7. NextHead \in HeadType(sends)
    BY <2>2, <2>5 DEF HeadType
  <2> QED BY <2>4, <2>5, <2>6, <2>7
<1> QED BY <1>1, <1>2

LEMMA AfterHeadFacts ==
    ASSUME QueueOK, HasData
    PROVE  /\ AfterHead \in HeadType(sends) /\ NextHead.msg \in Messages
           /\ NextHead \in Entry
           /\ AfterHead.frag > 1 => AfterHead.msg <= sends
           /\ \/ /\ NextHead.frag = Fragments[NextHead.msg]
                 /\ AfterHead.msg = NextHead.msg + 1 /\ AfterHead.frag = 1
              \/ /\ NextHead.frag # Fragments[NextHead.msg]
                 /\ AfterHead.msg = NextHead.msg /\ AfterHead.frag = NextHead.frag + 1
<1>0. /\ NextHead \in HeadType(sends) /\ NextHead.msg \in 1..(sends + 1)
      /\ NextHead.msg <= sends /\ sends \in Nat /\ sends <= Len(Fragments)
      /\ NextHead.frag \in Nat \ {0} /\ Len(Fragments) \in Nat
  BY HeadFacts, QueueFacts DEF HasData, HeadType
<1>1. NextHead.msg \in Messages /\ NextHead \in Entry
  BY <1>0 DEF Messages, HeadType, Entry
<1>2. CASE NextHead.frag = Fragments[NextHead.msg]
  <2>1. AfterHead = [msg |-> NextHead.msg + 1, frag |-> 1]
    BY <1>2 DEF AfterHead
  <2>2. AfterHead \in HeadType(sends)
    BY <1>0, <2>1 DEF HeadType
  <2> QED BY <1>1, <1>2, <2>1, <2>2
<1>3. CASE NextHead.frag # Fragments[NextHead.msg]
  <2> DEFINE k == NextHead.frag + 1
  <2>1. AfterHead = [NextHead EXCEPT !.frag = k] /\ k \in Nat \ {0}
    BY <1>0, <1>3 DEF AfterHead, HeadType
  <2> HIDE DEF k
  <2>2. AfterHead \in HeadType(sends) /\ AfterHead.msg = NextHead.msg /\ AfterHead.frag = k
    BY <1>0, <2>1 DEF HeadType
  <2> QED BY <1>0, <1>1, <1>3, <2>2 DEF k
<1> QED BY <1>2, <1>3

LEMMA WithChunkFacts ==
    ASSUME QueueOK
    PROVE  /\ WithChunk \in [(cum + 1)..(Len(log) + 1) -> Item]
           /\ WithChunk[Len(log) + 1] = InFlight
           /\ \A t \in Outstanding : WithChunk[t] = item[t]
           /\ Cardinality(Unacked(WithChunk)) = unacked + 1
<1> DEFINE n == Len(log) + 1
<1>1. /\ n \in Nat /\ n \notin Outstanding /\ (cum + 1)..n = Outstanding \cup {n}
      /\ LastTsn + 1 = n
  BY QueueFacts
<1> HIDE DEF n
<1>2. /\ WithChunk \in [(cum + 1)..n -> Item] /\ WithChunk[n] = InFlight
      /\ \A t \in Outstanding : WithChunk[t] = item[t]
  BY <1>1, QueueFacts, ItemValues DEF WithChunk
<1>3. Unacked(WithChunk) = Unacked(item) \cup {n} /\ n \notin Unacked(item)
  BY <1>1, <1>2, QueueFacts DEF Unacked, InFlight
<1>4. Cardinality(Unacked(item) \cup {n}) = Cardinality(Unacked(item)) + 1
  BY <1>3, QueueFacts, FS_AddElement
<1> QED BY <1>2, <1>3, <1>4, QueueFacts DEF n

-----------------------------------------------------------------------------
(* Steps of the sender keep QueueOK *)

LEMMA SimpleQueueOK ==
    ASSUME QueueOK,
           Send \/ ResetStreams \/ LimitEnds \/ (\E m \in Messages : Expire(m)) \/ SendNothing
    PROVE  QueueOK'
<1>0. MaxBurst + 1 \in Nat /\ Len(Fragments) \in Nat /\ 0 \in 0..(MaxBurst + 1)
      /\ MaxBurst + 1 \in 0..(MaxBurst + 1)
  BY QueueAssumption, QueueFacts
<1>1. UNCHANGED <<cum, log, item, toRtx, unacked>>
  BY DEF Send, ResetStreams, LimitEnds, Expire, SendNothing, outstanding
<1>2. UNCHANGED <<exit, cwnd, ssthresh, pba, rwnd, t3, delivered, path, peer>>
  BY DEF Send, ResetStreams, LimitEnds, Expire, SendNothing, congestion
<1>3. PeerType'
  <2>1. resets \subseteq resets'
    BY DEF Send, ResetStreams, LimitEnds, Expire, SendNothing, BeginResetStreams
  <2>2. Len(log) <= Len(log) /\ sent \subseteq 1..Len(log) /\ fwds \subseteq 0..Len(log)
        /\ log \in Seq(Entry)
    BY QueueFacts DEF QueueOK, PeerType
  <2>3. UNCHANGED <<log, sent, fwds, arrived, skip, reassembly, sacks>>
    BY <1>1, <1>2 DEF path, peer
  <2> QED BY <2>1, <2>2, <2>3, PeerGrows
<1>4. Consistent(item', toRtx', unacked')
  BY <1>1 DEF QueueOK, Consistent
<1>5. CASE Send
  <2>1. sends' \in 0..Len(Fragments) /\ expired' \subseteq 1..sends' /\ sends <= sends'
        /\ HeadType(sends) \subseteq HeadType(sends')
    <3>1. /\ expired' \subseteq 1..sends /\ sends' = sends + 1 /\ sends < Len(Fragments)
          /\ sends \in Nat
      BY <1>5, QueueFacts DEF Send, QueueOK, CountType
    <3>2. sends' \in 0..Len(Fragments) /\ sends <= sends'
      BY <1>0, <3>1
    <3>3. 1..sends \subseteq 1..sends' /\ 1..(sends + 1) \subseteq 1..(sends' + 1)
      BY <3>1
    <3> QED BY <3>1, <3>2, <3>3 DEF HeadType
  <2>2. CoreType'
    BY <1>1, <1>5, <2>1, QueueFacts DEF Send, QueueOK, CoreType
  <2>3. CountType'
    BY <1>0, <1>2, <1>5, <2>1 DEF Send, QueueOK, CountType, SendBufferedPackets, outstanding
  <2> QED BY <1>3, <1>4, <2>2, <2>3 DEF QueueOK
<1>6. CASE ResetStreams
  <2>1. UNCHANGED <<sending, limited, head, sends, expired>>
    BY <1>6 DEF ResetStreams, client
  <2>2. breaks' \subseteq Nat /\ resets' \subseteq Nat
    <3>1. Len(log') + 1 \in Nat
      BY <1>1, QueueFacts
    <3> QED BY <1>6, <3>1 DEF ResetStreams, BeginResetStreams, QueueOK, CountType
  <2>3. CoreType'
    BY <1>1, <2>1 DEF QueueOK, CoreType
  <2>4. CountType'
    BY <1>2, <2>1, <2>2 DEF QueueOK, CountType
  <2> QED BY <1>3, <1>4, <2>3, <2>4 DEF QueueOK
<1>7. CASE LimitEnds
  <2>1. /\ UNCHANGED <<sending, head, sends, expired, breaks, resets>> /\ limited' = FALSE
    BY <1>7 DEF LimitEnds, client, outstanding
  <2>3. CoreType'
    BY <1>1, <2>1 DEF QueueOK, CoreType
  <2>4. CountType'
    BY <1>2, <2>1 DEF QueueOK, CountType
  <2> QED BY <1>3, <1>4, <2>3, <2>4 DEF QueueOK
<1>8. CASE \E m \in Messages : Expire(m)
  <2>1. /\ UNCHANGED <<sending, head, sends, limited, breaks, resets>>
        /\ expired' \subseteq Mortal /\ expired' \subseteq 1..sends
    BY <1>8 DEF Expire, outstanding, QueueOK, CountType
  <2>3. CoreType'
    BY <1>1, <2>1 DEF QueueOK, CoreType
  <2>4. CountType'
    BY <1>2, <2>1 DEF QueueOK, CountType
  <2> QED BY <1>3, <1>4, <2>3, <2>4 DEF QueueOK
<1>9. CASE SendNothing
  <2>1. /\ UNCHANGED <<limited, sends, expired, breaks, resets>> /\ sending' = 0
        /\ head' \in {head, NextHead}
    BY <1>9 DEF SendNothing, client, outstanding
  <2>2. head' \in HeadType(sends) /\ (head'.frag > 1 => head'.msg <= sends)
    BY <2>1, HeadFacts, QueueFacts
  <2>3. CoreType'
    BY <1>1, <2>1, <2>2 DEF QueueOK, CoreType
  <2>4. CountType'
    BY <1>0, <1>2, <2>1 DEF QueueOK, CountType
  <2> QED BY <1>3, <1>4, <2>3, <2>4 DEF QueueOK
<1> QED BY <1>5, <1>6, <1>7, <1>8, <1>9

LEMMA RetransmitQueueOK ==
    ASSUME QueueOK, Retransmit
    PROVE  QueueOK'
<1> DEFINE t == Min(toRtx)
           i == MarkAsRetransmitted(t, item[t])
<1>1. t \in toRtx /\ t \in Outstanding
  BY QueueFacts, MinOf DEF Retransmit
<1> HIDE DEF t
<1>2. i \in Item /\ i.ack = "Unacked" /\ i.life = "Active"
  BY <1>1, QueueFacts, MarkEffect
<1>3. /\ item' = [item EXCEPT ![t] = i] /\ toRtx' = toRtx \ {t} /\ unacked' = unacked + 1
      /\ t3' = TRUE /\ sending' = sending - 1 /\ sending \in 1..MaxBurst
      /\ UNCHANGED <<cum, log, breaks, exit, cwnd, ssthresh, pba, rwnd, limited, sends, expired,
                     head, resets, delivered>>
      /\ UNCHANGED <<sent, fwds, arrived, skip, reassembly, sacks>>
  BY DEF Retransmit, t, client, path, peer, CanSendPacket
<1> HIDE DEF i
<1>4. /\ item' \in [(cum + 1)..Len(log) -> Item] /\ DOMAIN item' = Outstanding
      /\ item'[t] = i /\ \A u \in Outstanding \ {t} : item'[u] = item[u]
  BY <1>1, <1>2, <1>3, QueueFacts
<1>5. CoreType'
  BY <1>3, <1>4 DEF QueueOK, CoreType
<1>6. CountType'
  <2>1. sending' \in 0..(MaxBurst + 1)
    BY <1>3, QueueAssumption
  <2> QED BY <1>3, <2>1 DEF QueueOK, CountType
<1>7. PeerType'
  <2>1. Len(log) <= Len(log) /\ sent \subseteq 1..Len(log) /\ fwds \subseteq 0..Len(log)
        /\ log \in Seq(Entry)
    BY QueueFacts DEF QueueOK, PeerType
  <2> QED BY <1>3, <2>1, PeerGrows
<1>8. Consistent(item', toRtx', unacked')
  <2>1. Unacked(item') = Unacked(item) \cup {t} /\ t \notin Unacked(item)
    BY <1>1, <1>2, <1>4, QueueFacts DEF Unacked
  <2>2. Cardinality(Unacked(item) \cup {t}) = Cardinality(Unacked(item)) + 1
    BY <2>1, QueueFacts, FS_AddElement
  <2>3. unacked' = Cardinality(Unacked(item'))
    BY <1>3, <2>1, <2>2, QueueFacts
  <2>4. /\ toRtx' = {u \in DOMAIN item' : item'[u].life = "ToBeRetransmitted"}
        /\ \A u \in toRtx' : item'[u].ack = "Nacked"
    BY <1>1, <1>2, <1>3, <1>4, QueueFacts
  <2> QED BY <2>3, <2>4 DEF Consistent
<1> QED BY <1>5, <1>6, <1>7, <1>8 DEF QueueOK

LEMMA ProduceQueueOK ==
    ASSUME QueueOK, Produce
    PROVE  QueueOK'
<1>0. /\ item' = WithChunk /\ log' = Append(log, NextHead) /\ head' = AfterHead /\ HasData
      /\ sent' = sent \cup {Len(log) + 1} /\ unacked' = unacked + 1
      /\ rwnd' = (rwnd - 1) % SizeModulus /\ t3' = TRUE
      /\ sending' = sending - 1 /\ sending \in 1..MaxBurst /\ toRtx = {}
      /\ UNCHANGED <<cum, toRtx, breaks, exit, cwnd, ssthresh, pba, limited, sends, expired,
                     resets, delivered>>
      /\ UNCHANGED <<fwds, arrived, skip, reassembly, sacks>>
  BY DEF Produce, client, peer, CanSendPacket, LastTsn
<1>1. /\ log' \in Seq(Entry) /\ Len(log') = Len(log) + 1
  BY <1>0, AfterHeadFacts, QueueFacts, AppendProperties
<1>2. CoreType'
  BY <1>0, <1>1, WithChunkFacts, AfterHeadFacts, QueueFacts DEF CoreType
<1>3. CountType'
  <2>1. sending' \in 0..(MaxBurst + 1)
    BY <1>0, QueueAssumption
  <2>2. rwnd' \in Nat
    BY <1>0, SizeType DEF QueueOK, CountType
  <2> QED BY <1>0, <2>1, <2>2 DEF QueueOK, CountType
<1>4. PeerType'
  <2>1. /\ Len(log) <= Len(log') /\ sent' \subseteq 1..Len(log') /\ fwds \subseteq 0..Len(log')
        /\ sent \subseteq sent'
    <3>1. sent \subseteq 1..Len(log) /\ fwds \subseteq 0..Len(log) /\ Len(log) \in Nat
      BY QueueFacts DEF QueueOK, PeerType
    <3>2. sent' = sent \cup {Len(log) + 1} /\ Len(log') = Len(log) + 1
      BY <1>0, <1>1
    <3>3. 1..Len(log) \subseteq 1..(Len(log) + 1) /\ Len(log) + 1 \in 1..(Len(log) + 1)
          /\ 0..Len(log) \subseteq 0..(Len(log) + 1)
      BY <3>1
    <3>4. Len(log) <= Len(log')
      BY <3>1, <3>2
    <3>5. sent' \subseteq 1..Len(log')
      BY <3>1, <3>2, <3>3
    <3>6. fwds \subseteq 0..Len(log')
      BY <3>1, <3>2, <3>3
    <3> QED BY <3>2, <3>4, <3>5, <3>6
  <2> QED BY <1>0, <1>1, <2>1, PeerGrows
<1>5. Consistent(item', toRtx', unacked')
  <2>1. DOMAIN item' = Outstanding \cup {Len(log) + 1}
    BY <1>0, WithChunkFacts, QueueFacts
  <2> QED BY <1>0, <2>1, WithChunkFacts, QueueFacts DEF Consistent, InFlight
<1> QED BY <1>2, <1>3, <1>4, <1>5 DEF QueueOK

LEMMA ProduceExpiredFacts ==
    ASSUME QueueOK, ProduceExpired
    PROVE  /\ NextHead = head /\ head.frag > 1 /\ head.msg \in expired /\ HasData
           /\ Append(log, head) \in Seq(Entry) /\ Len(Append(log, head)) = Len(log) + 1
           /\ Append(log, head)[Len(log) + 1] = head
           /\ \A t \in 1..Len(log) : Append(log, head)[t] = log[t]
           /\ WithChunk \in [(cum + 1)..Len(Append(log, head)) -> Item]
           /\ AbandonAllFor(Append(log, head), WithChunk, toRtx, AfterHead, {head.msg})
<1>1. NextHead = head /\ head.frag > 1 /\ head.msg \in expired /\ HasData
  BY HeadFacts DEF ProduceExpired
<1>2. head \in Entry
  BY <1>1, AfterHeadFacts
<1> QED BY <1>1, <1>2, WithChunkFacts, QueueFacts, AppendProperties DEF ProduceExpired

LEMMA ProduceExpiredQueueOK ==
    ASSUME QueueOK, ProduceExpired
    PROVE  QueueOK'
<1> DEFINE l == Append(log, head)
           ms == {head.msg}
<1>0. /\ HasData /\ toRtx = {} /\ NextHead = head
      /\ l \in Seq(Entry) /\ Len(l) = Len(log) + 1 /\ l[Len(log) + 1] = head
      /\ \A t \in 1..Len(log) : l[t] = log[t]
      /\ WithChunk \in [(cum + 1)..Len(l) -> Item]
      /\ AbandonAllFor(l, WithChunk, toRtx, AfterHead, ms)
  BY ProduceExpiredFacts DEF ProduceExpired
<1>1. /\ unacked' = unacked + 1 /\ rwnd' = (rwnd - 1) % SizeModulus /\ sending' = 0
      /\ UNCHANGED <<cum, breaks, exit, cwnd, ssthresh, pba, t3, limited, sends, expired,
                     resets, delivered>>
      /\ UNCHANGED <<sent, fwds, arrived, skip, reassembly, sacks>>
  BY DEF ProduceExpired, client, path, peer
<1>2. /\ AfterHead \in HeadType(sends) /\ (AfterHead.frag > 1 => AfterHead.msg <= sends)
      /\ cum \in Nat /\ sends \in 0..Len(Fragments) /\ Len(log) \in Nat /\ cum <= Len(log) + 1
  BY <1>0, AfterHeadFacts, QueueFacts
<1>3. l[Len(log) + 1].msg \in ms
  BY <1>0
<1> HIDE DEF l, ms
<1>4. /\ log' \in Seq(Entry) /\ Len(l) <= Len(log')
      /\ item' \in [(cum + 1)..Len(log') -> Item]
      /\ head' \in HeadType(sends) /\ (head'.frag > 1 => head'.msg <= sends)
  BY <1>0, <1>2, AbandonEffect
<1>5. CoreType'
  <2>1. cum <= Len(log')
    BY <1>0, <1>2, <1>4, LenProperties
  <2> QED BY <1>1, <1>2, <1>4, <2>1 DEF CoreType
<1>6. CountType'
  <2>1. sending' \in 0..(MaxBurst + 1)
    BY <1>1, QueueAssumption
  <2>2. rwnd' \in Nat
    BY <1>1, SizeType DEF QueueOK, CountType
  <2> QED BY <1>1, <2>1, <2>2 DEF QueueOK, CountType
<1>7. PeerType'
  <2>1. sent \subseteq 1..Len(log) /\ fwds \subseteq 0..Len(log)
    BY DEF QueueOK, PeerType
  <2>2. Len(log') \in Nat /\ Len(log) <= Len(log')
    BY <1>0, <1>2, <1>4, LenProperties
  <2>3. 1..Len(log) \subseteq 1..Len(log') /\ 0..Len(log) \subseteq 0..Len(log')
    BY <1>2, <2>2
  <2> QED BY <1>1, <1>4, <2>1, <2>2, <2>3, PeerGrows
<1>8. Consistent(item', toRtx', unacked')
  <2>1. DOMAIN WithChunk = Outstanding \cup {Len(log) + 1}
    BY <1>0, QueueFacts
  <2>2. \A t \in (cum + 1)..Len(l) : l[t].msg \notin ms =>
            (t \in toRtx <=> WithChunk[t].life = "ToBeRetransmitted")
    BY <1>0, <1>3, <2>1, WithChunkFacts, QueueFacts
  <2>3. unacked' = Cardinality(Unacked(WithChunk))
    BY <1>1, WithChunkFacts
  <2>4. Consistent(item', toRtx', Cardinality(Unacked(WithChunk)))
    BY <1>0, <1>2, <2>2, AbandonConsistent
  <2> QED BY <2>3, <2>4
<1> QED BY <1>5, <1>6, <1>7, <1>8 DEF QueueOK

\* The FORWARD-TSN for items of which the first is abandoned.
LEMMA ForwardTsnOf ==
    ASSUME NEW N \in Nat, cum \in Nat, NEW it, DOMAIN it = (cum + 1)..N, cum < N
    PROVE  /\ ForwardTsn(it) \in cum..N
           /\ (cum + 1)..ForwardTsn(it) \subseteq Abandoned(it) \ breaks
           /\ ForwardTsn(it) + 1 \notin Abandoned(it) \ breaks
<1> DEFINE A == Abandoned(it) \ breaks
           T == {n \in cum..N : n + 1 \notin A}
           c == Min(T)
<1>0. A \subseteq (cum + 1)..N
  BY DEF Abandoned
<1> HIDE DEF A
<1>1. c \in T /\ \A x \in T : c <= x
  <2>1. N \in T /\ T \subseteq Nat
    BY <1>0
  <2> HIDE DEF T
  <2> QED BY <2>1, MinOf
<1> HIDE DEF c
<1>2. c \in cum..N /\ c + 1 \notin A
  BY <1>1
<1>3. (cum + 1)..c \subseteq A
  <2> SUFFICES ASSUME NEW x \in (cum + 1)..c, x \notin A PROVE FALSE
    OBVIOUS
  <2>1. x - 1 \in T
    BY <1>2
  <2> QED BY <1>1, <1>2, <2>1
<1>4. Max(DOMAIN it) = N
  <2>1. DOMAIN it \subseteq 0..N /\ N \in DOMAIN it
    OBVIOUS
  <2>2. Max(DOMAIN it) \in DOMAIN it /\ N <= Max(DOMAIN it)
    BY <2>1, MaxOf
  <2> QED BY <2>1, <2>2
<1>5. \E f \in cum..N : (cum + 1)..f \subseteq A /\ f + 1 \notin A
  BY <1>2, <1>3
<1>6. ForwardTsn(it) = CHOOSE f \in cum..N : (cum + 1)..f \subseteq A /\ f + 1 \notin A
  BY <1>4 DEF ForwardTsn, A
<1> QED BY <1>5, <1>6 DEF A

\* What SendControl does to the items and the FORWARD-TSNs.
LEMMA SendControlFacts ==
    ASSUME QueueOK, SendControl
    PROVE  /\ UNCHANGED <<cum, unacked, exit, cwnd, ssthresh, pba, rwnd, t3, sends, expired, sent,
                          arrived, skip, sacks, reassembly, delivered>>
           /\ sending' \in {0, MaxBurst} /\ limited' \in {limited, TRUE}
           /\ sending' = 0 => ~CanSendData /\ UNCHANGED <<log, item, toRtx, head, fwds>>
           /\ \/ UNCHANGED <<log, item, toRtx, head>>
              \/ AbandonAllFor(log, item, toRtx, head, ExpiredMessages)
           /\ \/ UNCHANGED fwds
              \/ fwds' = fwds \cup {ForwardTsn(item')} /\ cum + 1 \in Abandoned(item')
           /\ \/ UNCHANGED <<breaks, resets>>
              \/ breaks' = breaks \cup {Len(log') + 1} /\ resets' = resets \cup {Len(log') + 1}
<1>1. UNCHANGED <<cum, unacked, exit, cwnd, ssthresh, pba, rwnd, t3, sends, expired, sent,
                  arrived, skip, sacks, reassembly, delivered>>
  BY DEF SendControl, congestion, client, peer
<1>2. MaxBurst # 0
  BY QueueAssumption
<1>3. CASE CanSendData
  <2>1. /\ sending' = MaxBurst /\ ForwardTsnStep
        /\ BeginResetStreams \/ UNCHANGED <<breaks, resets>>
    BY <1>3 DEF SendControl
  <2>2. CASE limited
    BY <1>1, <1>2, <2>1, <2>2 DEF ForwardTsnStep, BeginResetStreams
  <2>3. CASE ~limited
    <3>1. /\ AbandonAllFor(log, item, toRtx, head, ExpiredMessages)
          /\ \/ fwds' = fwds \cup {ForwardTsn(item')} /\ cum + 1 \in Abandoned(item')
                /\ limited' = TRUE
             \/ UNCHANGED <<fwds, limited>>
      BY <2>1, <2>3 DEF ForwardTsnStep
    <3> QED BY <1>1, <1>2, <2>1, <3>1 DEF BeginResetStreams
  <2> QED BY <2>2, <2>3
<1>4. CASE ~CanSendData
  <2>1. sending' = 0 /\ UNCHANGED <<log, item, toRtx, head, limited, fwds, breaks, resets>>
    BY <1>4 DEF SendControl
  <2> QED BY <1>1, <1>4, <2>1
<1> QED BY <1>3, <1>4

\* A step that abandons messages, and nothing before it.
LEMMA AbandonOnlyFacts ==
    ASSUME QueueOK, NEW ms, AbandonAllFor(log, item, toRtx, head, ms)
    PROVE  /\ log' \in Seq(Entry) /\ Len(log) <= Len(log') /\ Len(log') \in Nat
           /\ item' \in [(cum + 1)..Len(log') -> Item]
           /\ head' \in HeadType(sends) /\ (head'.frag > 1 => head'.msg <= sends)
           /\ AbandonShape(log, item, head, ms)
           /\ unacked' = unacked => Consistent(item', toRtx', unacked')
<1>1. /\ log' \in Seq(Entry) /\ Len(log) <= Len(log')
      /\ item' \in [(cum + 1)..Len(log') -> Item]
      /\ head' \in HeadType(sends) /\ (head'.frag > 1 => head'.msg <= sends)
      /\ AbandonShape(log, item, head, ms)
  BY QueueFacts, AbandonEffect
<1>2. ASSUME unacked' = unacked PROVE Consistent(item', toRtx', unacked')
  <2>1. /\ toRtx \subseteq (cum + 1)..Len(log)
        /\ \A t \in (cum + 1)..Len(log) : log[t].msg \notin ms =>
               (t \in toRtx <=> item[t].life = "ToBeRetransmitted")
        /\ \A t \in toRtx : item[t].ack = "Nacked"
    BY QueueFacts
  <2>2. unacked' = Cardinality(Unacked(item))
    BY <1>2, QueueFacts
  <2>3. /\ cum \in Nat /\ log \in Seq(Entry) /\ cum <= Len(log)
        /\ item \in [(cum + 1)..Len(log) -> Item] /\ sends \in 0..Len(Fragments)
        /\ head \in HeadType(sends) /\ (head.frag > 1 => head.msg <= sends)
    BY QueueFacts
  <2>4. Consistent(item', toRtx', Cardinality(Unacked(item)))
    BY <2>1, <2>3, AbandonConsistent
  <2> QED BY <2>2, <2>4
<1> QED BY <1>1, <1>2, LenProperties

LEMMA SendControlQueueOK ==
    ASSUME QueueOK, SendControl
    PROVE  QueueOK'
<1>1. /\ UNCHANGED <<cum, unacked, exit, cwnd, ssthresh, pba, rwnd, t3, sends, expired, sent,
                      arrived, skip, sacks, reassembly, delivered>>
      /\ sending' \in {0, MaxBurst} /\ limited' \in {limited, TRUE}
  BY SendControlFacts
<1>2. /\ log' \in Seq(Entry) /\ Len(log) <= Len(log') /\ Len(log') \in Nat
      /\ item' \in [(cum + 1)..Len(log') -> Item]
      /\ head' \in HeadType(sends) /\ (head'.frag > 1 => head'.msg <= sends)
      /\ Consistent(item', toRtx', unacked')
  <2>1. CASE UNCHANGED <<log, item, toRtx, head>>
    BY <1>1, <2>1, QueueFacts DEF QueueOK, Consistent
  <2>2. CASE AbandonAllFor(log, item, toRtx, head, ExpiredMessages)
    BY <1>1, <2>2, AbandonOnlyFacts
  <2> QED BY <2>1, <2>2, SendControlFacts
<1>3. CoreType'
  <2>1. cum <= Len(log')
    BY <1>2, QueueFacts
  <2> QED BY <1>1, <1>2, <2>1, QueueFacts DEF CoreType
<1>4. /\ breaks' \subseteq Nat /\ resets' \subseteq Nat /\ resets \subseteq resets'
  <2>1. Len(log') + 1 \in Nat /\ breaks \subseteq Nat /\ resets \subseteq Nat
    BY <1>2 DEF QueueOK, CountType
  <2> QED BY <2>1, SendControlFacts
<1>5. CountType'
  <2>1. sending' \in 0..(MaxBurst + 1)
    BY <1>1, QueueAssumption
  <2> QED BY <1>1, <1>4, <2>1 DEF QueueOK, CountType
<1>6. fwds' \subseteq 0..Len(log') /\ fwds \subseteq fwds'
  <2>1. fwds \subseteq 0..Len(log')
    <3>1. fwds \subseteq 0..Len(log) /\ Len(log) \in Nat
      BY QueueFacts DEF QueueOK, PeerType
    <3>2. 0..Len(log) \subseteq 0..Len(log')
      BY <1>2, <3>1
    <3> QED BY <3>1, <3>2
  <2>2. ASSUME cum + 1 \in Abandoned(item') PROVE ForwardTsn(item') \in 0..Len(log')
    <3>1. DOMAIN item' = (cum + 1)..Len(log') /\ cum \in Nat
      BY <1>2, QueueFacts
    <3>2. cum < Len(log')
      BY <1>2, <2>2, <3>1 DEF Abandoned
    <3>3. ForwardTsn(item') \in cum..Len(log')
      BY <1>2, <3>1, <3>2, ForwardTsnOf
    <3> QED BY <3>1, <3>3
  <2> QED BY <2>1, <2>2, SendControlFacts
<1>7. PeerType'
  <2>1. sent \subseteq 1..Len(log')
    <3>1. sent \subseteq 1..Len(log) /\ Len(log) \in Nat
      BY QueueFacts DEF QueueOK, PeerType
    <3>2. 1..Len(log) \subseteq 1..Len(log')
      BY <1>2, <3>1
    <3> QED BY <3>1, <3>2
  <2> QED BY <1>1, <1>2, <1>4, <1>6, <2>1, PeerGrows
<1> QED BY <1>2, <1>3, <1>5, <1>7 DEF QueueOK

-----------------------------------------------------------------------------
(* Acknowledgements: the values that HandleSack goes through *)

Recovering(s) == exit # NoExit /\ CumulativeAck(s) < exit
SackMissing(s) == Missing(s, CumulativeAck(s), Recovering(s))
SackLost(s) == LostOf(AckedItems(s), SackMissing(s), FALSE)
SackGone(s) == Exhausted(AckedItems(s), SackLost(s))
SackFast(s) == IF Recovering(s) THEN {}
               ELSE SackLost(s) \ {t \in SackLost(s) : MessageOf(t) \in SackGone(s)}
SackFirst(s) == {t \in SackFast(s) : \A u \in SackFast(s) : t <= u}
SackNacked(s) == NackedItems(AckedItems(s), SackMissing(s), FALSE)
SackResult(s) == [t \in DOMAIN SackNacked(s) |->
                    IF t \in SackFirst(s) THEN MarkAsRetransmitted(t, SackNacked(s)[t])
                    ELSE SackNacked(s)[t]]
SackRtx(s) == (toRtx \ s) \cup (SackLost(s) \ SackFirst(s))
SackLeft(s) == unacked - Cardinality({t \in NewlyAcked(s) : item[t].ack = "Unacked"})
                       - Cardinality(Unacked(AckedItems(s)) \cap SackMissing(s))

LEMMA HandleSackFacts ==
    ASSUME NEW s, NEW a, HandleSack(s, a)
    PROVE  /\ Idle /\ IsSackValid(s) /\ cum' = CumulativeAck(s)
           /\ AbandonAllFor(log, SackResult(s), SackRtx(s), head, SackGone(s))
           /\ unacked' = SackLeft(s) + Cardinality(SackFirst(s))
           /\ HandleCongestion(s, CumulativeAck(s) > cum, Recovering(s), SackLost(s) # {})
           /\ rwnd' = Max2(a - SackLeft(s), 0)
           /\ t3' = TimerAfterSack(CumulativeAck(s) > cum, item')
           /\ breaks' = {b \in breaks : b > CumulativeAck(s) + 1}
           /\ delivered' = delivered \cup DeliveredBy(s)
           /\ sacks' \subseteq sacks /\ sending' = MaxBurst + 1
           /\ UNCHANGED <<limited, sends, expired, resets, sent, fwds, arrived, skip, reassembly>>
BY DEF HandleSack, Recovering, SackMissing, SackLost, SackGone, SackFast, SackFirst,
       SackNacked, SackResult, SackRtx, SackLeft, SendBufferedPackets, client, path

LEMMA MissingFacts ==
    ASSUME QueueOK, NEW s \in sacks, IsSackValid(s)
    PROVE  /\ CumulativeAck(s) \in cum..Len(log) /\ 1..CumulativeAck(s) \subseteq s
           /\ s \subseteq 1..Len(log) /\ CumulativeAck(s) \in Nat
           /\ SackMissing(s) \subseteq (CumulativeAck(s) + 1)..Len(log)
           /\ SackMissing(s) \cap s = {}
<1> DEFINE c == CumulativeAck(s)
<1>0. Len(log) \in Nat /\ cum \in Nat
  BY QueueFacts
<1>1. s \subseteq 1..Len(log) /\ cum <= c
  BY QueueFacts DEF IsSackValid
<1>2. c \in 0..Len(log) /\ 1..c \subseteq s
  BY <1>0, <1>1, CumulativeAckOf
<1> HIDE DEF c
<1>3. c \in cum..Len(log) /\ c \in Nat
  BY <1>0, <1>1, <1>2
<1>4. Max(NewlyAcked(s) \cup {c}) <= Len(log) /\ Max(NewlyAcked(s) \cup {c}) \in Nat
  <2> DEFINE S == NewlyAcked(s) \cup {c}
  <2>1. S \subseteq 0..Len(log) /\ S # {}
    <3>1. NewlyAcked(s) \subseteq s
      BY DEF NewlyAcked
    <3>2. 1..Len(log) \subseteq 0..Len(log) /\ c \in S
      BY <1>0
    <3>3. S \subseteq 0..Len(log)
      BY <1>1, <1>2, <3>1, <3>2
    <3> QED BY <3>2, <3>3
  <2> HIDE DEF S
  <2>2. Max(S) \in S
    BY <1>0, <2>1, MaxOf
  <2>3. Max(S) \in 0..Len(log)
    BY <2>1, <2>2
  <2> QED BY <1>0, <2>3 DEF S
<1>5. Max(s \cup {c}) <= Len(log) /\ Max(s \cup {c}) \in Nat
  <2> DEFINE S == s \cup {c}
  <2>1. S \subseteq 0..Len(log) /\ S # {}
    BY <1>0, <1>1, <1>2
  <2> HIDE DEF S
  <2>2. Max(S) \in S
    BY <1>0, <2>1, MaxOf
  <2>3. Max(S) \in 0..Len(log)
    BY <2>1, <2>2
  <2> QED BY <1>0, <2>3 DEF S
<1>6. /\ MaxTsnToNack(s, c, Recovering(s)) <= Len(log)
      /\ MaxTsnToNack(s, c, Recovering(s)) \in Nat
  BY <1>4, <1>5 DEF MaxTsnToNack, HighestTsnAcked, c
<1>7. SackMissing(s) = {t \in (c + 1)..MaxTsnToNack(s, c, Recovering(s)) : t \notin s}
  BY DEF SackMissing, Missing, c
<1>8. SackMissing(s) \subseteq (c + 1)..Len(log) /\ SackMissing(s) \cap s = {}
  BY <1>0, <1>3, <1>6, <1>7
<1> QED BY <1>1, <1>2, <1>3, <1>8 DEF c

LEMMA AckedItemsFacts ==
    ASSUME QueueOK, NEW s \in sacks, IsSackValid(s)
    PROVE  /\ AckedItems(s) \in [(CumulativeAck(s) + 1)..Len(log) -> Item]
           /\ \A t \in (CumulativeAck(s) + 1)..Len(log) :
                /\ t \in Outstanding
                /\ t \notin s => AckedItems(s)[t] = item[t]
                /\ t \in s => /\ AckedItems(s)[t].ack = "Acked"
                              /\ AckedItems(s)[t].life =
                                   IF item[t].life = "Abandoned" THEN "Abandoned" ELSE "Active"
<1>1. \A t \in (CumulativeAck(s) + 1)..Len(log) : t \in Outstanding
  BY MissingFacts, QueueFacts
<1>2. \A t \in Outstanding : /\ item[t] \in Item /\ AckItem(item[t]) \in Item
                             /\ AckItem(item[t]).ack = "Acked"
                             /\ AckItem(item[t]).life =
                                  IF item[t].life = "Abandoned" THEN "Abandoned" ELSE "Active"
  BY QueueFacts, AckEffect
<1>3. AckedItems(s) = [t \in (CumulativeAck(s) + 1)..Len(log) |->
                         IF t \in s THEN AckItem(item[t]) ELSE item[t]]
  BY DEF AckedItems, LastTsn
<1> QED BY <1>1, <1>2, <1>3

\* A chunk that the SACK reports missing was fast retransmitted, or is nacked.
LEMMA SackResultFacts ==
    ASSUME QueueOK, NEW s \in sacks, IsSackValid(s)
    PROVE  /\ SackResult(s) \in [(CumulativeAck(s) + 1)..Len(log) -> Item]
           /\ SackLost(s) \subseteq SackMissing(s) /\ SackFirst(s) \subseteq SackLost(s)
           /\ \A t \in SackLost(s) : /\ item[t].life = "Active"
                                     /\ MessageOf(t) \notin SackGone(s) =>
                                          ~IsExhausted(t, item[t])
           /\ \A t \in SackFirst(s) : MessageOf(t) \notin SackGone(s)
           /\ \A m \in SackGone(s) : MaxRetransmits[m] # NoLimit
           /\ \A t \in ((CumulativeAck(s) + 1)..Len(log)) \ SackMissing(s) :
                SackResult(s)[t] = AckedItems(s)[t]
           /\ \A t \in SackMissing(s) \ SackFirst(s) :
                /\ SackResult(s)[t].ack = "Nacked"
                /\ SackResult(s)[t].life =
                     IF t \in SackLost(s) /\ ~IsExhausted(t, item[t])
                     THEN "ToBeRetransmitted" ELSE item[t].life
           /\ \A t \in SackFirst(s) : /\ SackResult(s)[t].ack = "Unacked"
                                      /\ SackResult(s)[t].life = "Active"
<1> DEFINE D == (CumulativeAck(s) + 1)..Len(log)
           acks == AckedItems(s)
           ts == SackMissing(s)
           r == SackNacked(s)
<1>1. /\ ts \subseteq D /\ ts \cap s = {} /\ acks \in [D -> Item]
      /\ \A t \in ts : acks[t] = item[t] /\ acks[t] \in Item
  BY MissingFacts, AckedItemsFacts
<1>2. /\ r \in [D -> Item] /\ \A t \in D \ ts : r[t] = acks[t]
      /\ \A t \in ts :
           /\ r[t].ack = "Nacked"
           /\ r[t].life = IF IsLost(acks[t], FALSE) /\ ~IsExhausted(t, acks[t])
                          THEN "ToBeRetransmitted" ELSE acks[t].life
  <2>1. r = NackedItems(acks, ts, FALSE)
    BY DEF SackNacked
  <2> DEFINE now == FALSE
  <2>2. r = NackedItems(acks, ts, now)
    BY <2>1
  <2> HIDE DEF D, acks, ts, r, now
  <2>3. /\ r \in [D -> Item] /\ \A t \in D \ ts : r[t] = acks[t]
        /\ \A t \in ts :
             /\ r[t].ack = "Nacked"
             /\ r[t].life = IF IsLost(acks[t], now) /\ ~IsExhausted(t, acks[t])
                            THEN "ToBeRetransmitted" ELSE acks[t].life
    BY <1>1, <2>2, NackEffect
  <2> QED BY <2>3 DEF now
<1>3. SackLost(s) = {t \in ts : IsLost(acks[t], FALSE)}
  BY DEF SackLost, LostOf
<1>4. SackFirst(s) \subseteq SackLost(s) /\ \A t \in SackFirst(s) : MessageOf(t) \notin SackGone(s)
  BY DEF SackFirst, SackFast
<1>5. SackResult(s) = [t \in D |-> IF t \in SackFirst(s) THEN MarkAsRetransmitted(t, r[t]) ELSE r[t]]
  BY <1>2 DEF SackResult
<1>6. \A t \in D : /\ r[t] \in Item /\ MarkAsRetransmitted(t, r[t]) \in Item
                   /\ MarkAsRetransmitted(t, r[t]).ack = "Unacked"
                   /\ MarkAsRetransmitted(t, r[t]).life = "Active"
  BY <1>2, MarkEffect
<1>7. SackGone(s) = {MessageOf(t) : t \in {u \in SackLost(s) : IsExhausted(u, acks[u])}}
  BY DEF SackGone, Exhausted
<1>8. \A m \in SackGone(s) : MaxRetransmits[m] # NoLimit
  BY <1>7 DEF IsExhausted
<1>9. \A t \in SackLost(s) : item[t].life = "Active"
  BY <1>1, <1>3 DEF IsLost
<1> HIDE DEF D, acks, ts, r
<1>10. \A t \in SackLost(s) : MessageOf(t) \notin SackGone(s) => ~IsExhausted(t, item[t])
  BY <1>1, <1>3, <1>7
<1>11. SackResult(s) \in [D -> Item]
  BY <1>5, <1>6
<1>12. \A t \in D \ ts : SackResult(s)[t] = acks[t]
  BY <1>2, <1>3, <1>4, <1>5
<1>13. \A t \in ts \ SackFirst(s) :
         /\ SackResult(s)[t].ack = "Nacked"
         /\ SackResult(s)[t].life = IF t \in SackLost(s) /\ ~IsExhausted(t, item[t])
                                    THEN "ToBeRetransmitted" ELSE item[t].life
  BY <1>1, <1>2, <1>3, <1>5
<1>14. \A t \in SackFirst(s) : SackResult(s)[t].ack = "Unacked" /\ SackResult(s)[t].life = "Active"
  BY <1>1, <1>3, <1>4, <1>5, <1>6
<1>15. SackLost(s) \subseteq ts
  BY <1>3
<1> QED BY <1>4, <1>8, <1>9, <1>10, <1>11, <1>12, <1>13, <1>14, <1>15 DEF D, acks, ts

\* unacked_items_ after the SACK counts the chunks that are in flight.
LEMMA SackCount ==
    ASSUME QueueOK, NEW s \in sacks, IsSackValid(s)
    PROVE  /\ SackLeft(s) \in Nat
           /\ SackLeft(s) + Cardinality(SackFirst(s)) = Cardinality(Unacked(SackResult(s)))
<1> DEFINE D == (CumulativeAck(s) + 1)..Len(log)
           P == {t \in NewlyAcked(s) : item[t].ack = "Unacked"}
           A == Unacked(AckedItems(s))
           Q == A \cap SackMissing(s)
           R == A \ SackMissing(s)
           F == SackFirst(s)
<1>0. Len(log) \in Nat /\ cum \in Nat /\ CumulativeAck(s) \in Nat
  BY QueueFacts, MissingFacts
<1>1. A = {t \in D : t \notin s /\ item[t].ack = "Unacked"}
  BY AckedItemsFacts DEF Unacked
<1>2. Unacked(item) = P \cup A /\ P \cap A = {}
  <2>1. Unacked(item) = {t \in Outstanding : item[t].ack = "Unacked"}
    BY DEF Unacked, Outstanding
  <2>2. P = {t \in Outstanding : t \in s /\ item[t].ack = "Unacked"}
    BY DEF NewlyAcked
  <2>3. \A t \in Outstanding : t \notin s => t \in D
    BY <1>0, MissingFacts, QueueFacts
  <2>4. D \subseteq Outstanding
    BY AckedItemsFacts
  <2> HIDE DEF P, A, D
  <2> QED BY <1>1, <2>1, <2>2, <2>3, <2>4
<1>3. Unacked(SackResult(s)) = R \cup F /\ R \cap F = {}
  <2>1. DOMAIN SackResult(s) = D /\ F \subseteq SackMissing(s) /\ SackMissing(s) \subseteq D
    BY SackResultFacts, MissingFacts
  <2>2. \A t \in D \ SackMissing(s) : SackResult(s)[t] = AckedItems(s)[t]
    BY SackResultFacts
  <2>3. \A t \in SackMissing(s) \ F : SackResult(s)[t].ack = "Nacked"
    BY SackResultFacts
  <2>4. \A t \in F : SackResult(s)[t].ack = "Unacked"
    BY SackResultFacts
  <2>5. A = {t \in D : AckedItems(s)[t].ack = "Unacked"}
    BY AckedItemsFacts DEF Unacked
  <2> HIDE DEF F, D, A
  <2> QED BY <2>1, <2>2, <2>3, <2>4, <2>5 DEF Unacked
<1>4. IsFiniteSet(Unacked(item)) /\ unacked = Cardinality(Unacked(item))
  BY QueueFacts
<1>5. IsFiniteSet(P) /\ IsFiniteSet(A)
  BY <1>2, <1>4, FS_Subset
<1>6. A = Q \cup R /\ Q \cap R = {} /\ IsFiniteSet(Q) /\ IsFiniteSet(R)
  BY <1>5, FS_Subset
<1>7. IsFiniteSet(F)
  <2>1. F \subseteq D /\ CumulativeAck(s) + 1 \in Nat
    BY <1>0, SackResultFacts, MissingFacts
  <2> QED BY <1>0, <2>1, FiniteInterval
<1>8. SackLeft(s) = unacked - Cardinality(P) - Cardinality(Q)
  BY DEF SackLeft
<1> HIDE DEF P, A, Q, R, F
<1>9. /\ unacked = Cardinality(P) + Cardinality(A)
      /\ Cardinality(P) \in Nat /\ Cardinality(A) \in Nat
  BY <1>2, <1>4, <1>5, DisjointUnion
<1>10. /\ Cardinality(A) = Cardinality(Q) + Cardinality(R)
       /\ Cardinality(Q) \in Nat /\ Cardinality(R) \in Nat
  BY <1>6, DisjointUnion
<1>11. /\ Cardinality(Unacked(SackResult(s))) = Cardinality(R) + Cardinality(F)
       /\ Cardinality(F) \in Nat
  BY <1>3, <1>6, <1>7, DisjointUnion
<1> QED BY <1>8, <1>9, <1>10, <1>11 DEF F

LEMMA CongestionTypes ==
    ASSUME QueueOK, NEW s \in sacks, IsSackValid(s), NEW advances, NEW recovering, NEW loss,
           HandleCongestion(s, advances, recovering, loss), log' \in Seq(Entry)
    PROVE  /\ exit' \in Nat \cup {NoExit} /\ cwnd' \in Nat \ {0}
           /\ ssthresh' \in Nat /\ pba' \in Nat
<1> DEFINE acks == Cardinality(NewlyAcked(s))
           grown == IF advances THEN Grown(acks, recovering) ELSE <<cwnd, pba>>
<1>0. /\ cwnd \in Nat \ {0} /\ pba \in Nat /\ ssthresh \in Nat /\ unacked \in Nat
      /\ exit \in Nat \cup {NoExit} /\ Len(log') \in Nat
      /\ MinCwnd \in Nat \ {0}
  BY QueueFacts, QueueAssumption, LenProperties DEF QueueOK, CountType
<1>1. acks \in Nat
  <2>1. NewlyAcked(s) \subseteq (cum + 1)..Len(log) /\ cum + 1 \in Nat /\ Len(log) \in Nat
    BY QueueFacts DEF NewlyAcked
  <2> QED BY <2>1, FiniteInterval
<1> HIDE DEF acks
<1>2. /\ Grown(acks, recovering)[1] \in Nat \ {0}
      /\ Grown(acks, recovering)[2] \in Nat
  <2>1. CASE cwnd <= ssthresh
    <3>1. Grown(acks, recovering) =
            <<IF unacked + 1 >= cwnd /\ ~recovering THEN cwnd + Min2(acks, 1) ELSE cwnd, pba>>
      BY <1>0, <2>1 DEF Grown
    <3>2. Min2(acks, 1) \in Nat
      BY <1>1 DEF Min2
    <3> QED BY <1>0, <3>1, <3>2
  <2>2. CASE cwnd > ssthresh /\ pba + acks >= cwnd /\ unacked + 1 >= cwnd
    <3>1. Grown(acks, recovering) = <<cwnd + 1, pba + acks - cwnd>>
      BY <1>0, <2>2 DEF Grown
    <3> QED BY <1>0, <1>1, <2>2, <3>1
  <2>3. CASE ~(cwnd <= ssthresh) /\ ~(pba + acks >= cwnd /\ unacked + 1 >= cwnd)
    <3>1. Grown(acks, recovering) = <<cwnd, pba + acks>>
      BY <1>0, <2>3 DEF Grown
    <3> QED BY <1>0, <1>1, <3>1
  <2> QED BY <1>0, <2>1, <2>2, <2>3
<1>3. grown[1] \in Nat \ {0} /\ grown[2] \in Nat
  BY <1>0, <1>2
<1>4. \/ /\ exit' = Len(log') /\ pba' = 0
         /\ cwnd' = Halved(grown[1]) /\ ssthresh' = Halved(grown[1])
      \/ /\ exit' \in {exit, NoExit} /\ cwnd' = grown[1] /\ pba' = grown[2] /\ ssthresh' = ssthresh
  BY DEF HandleCongestion, acks
<1> HIDE DEF grown
<1>5. Halved(grown[1]) \in Nat \ {0}
  <2>1. grown[1] \div 2 \in Nat
    BY <1>3
  <2> QED BY <1>0, <2>1 DEF Halved, Max2
<1> QED BY <1>0, <1>3, <1>4, <1>5

LEMMA HandleSackQueueOK ==
    ASSUME QueueOK, NEW s \in sacks, NEW a \in PeerWindows, HandleSack(s, a)
    PROVE  QueueOK'
<1> DEFINE c == CumulativeAck(s)
           it == SackResult(s)
           rtx == SackRtx(s)
           ms == SackGone(s)
<1>0. /\ IsSackValid(s) /\ c \in Nat /\ c <= Len(log) /\ Len(log) \in Nat /\ log \in Seq(Entry)
      /\ it \in [(c + 1)..Len(log) -> Item]
      /\ sends \in 0..Len(Fragments) /\ head \in HeadType(sends)
      /\ (head.frag > 1 => head.msg <= sends)
      /\ AbandonAllFor(log, it, rtx, head, ms)
  BY HandleSackFacts, MissingFacts, SackResultFacts, QueueFacts
<1>1. /\ cum' = c /\ unacked' = SackLeft(s) + Cardinality(SackFirst(s))
      /\ rwnd' = Max2(a - SackLeft(s), 0) /\ sending' = MaxBurst + 1
      /\ delivered' = delivered \cup DeliveredBy(s) /\ sacks' \subseteq sacks
      /\ breaks' \subseteq breaks /\ t3' = TimerAfterSack(CumulativeAck(s) > cum, item')
      /\ UNCHANGED <<limited, sends, expired, resets, sent, fwds, arrived, skip, reassembly>>
  BY HandleSackFacts
<1>2. /\ rtx \subseteq (c + 1)..Len(log)
      /\ \A t \in (c + 1)..Len(log) : log[t].msg \notin ms =>
           (t \in rtx <=> it[t].life = "ToBeRetransmitted")
      /\ \A t \in rtx : it[t].ack = "Nacked"
  <2> DEFINE D == (c + 1)..Len(log)
             M == SackMissing(s)
             F == SackFirst(s)
             L == SackLost(s)
             acks == AckedItems(s)
  <2>1. /\ M \subseteq D /\ M \cap s = {} /\ L \subseteq M /\ F \subseteq L
        /\ \A t \in D : t \in Outstanding
    BY <1>0, MissingFacts, SackResultFacts, AckedItemsFacts
  <2>2. \A t \in Outstanding : t \notin s => t \in D
    BY <1>0, MissingFacts, QueueFacts
  <2>3. \A t \in D \ M : /\ it[t] = acks[t] /\ (t \notin s => it[t] = item[t])
                         /\ t \in s => it[t].life # "ToBeRetransmitted"
    BY <1>0, SackResultFacts, AckedItemsFacts
  <2>4. \A t \in M \ F :
           /\ it[t].ack = "Nacked"
           /\ it[t].life = IF t \in L /\ ~IsExhausted(t, item[t])
                           THEN "ToBeRetransmitted" ELSE item[t].life
    BY <1>0, SackResultFacts
  <2>5. \A t \in F : it[t].life = "Active"
    BY <1>0, SackResultFacts
  <2>6. \A t \in L : item[t].life = "Active" /\ (log[t].msg \notin ms => ~IsExhausted(t, item[t]))
    BY <1>0, SackResultFacts DEF MessageOf
  <2>7. /\ toRtx = {t \in Outstanding : item[t].life = "ToBeRetransmitted"}
        /\ \A t \in toRtx : item[t].ack = "Nacked"
    BY QueueFacts
  <2>8. rtx = (toRtx \ s) \cup (L \ F)
    BY DEF SackRtx
  <2> HIDE DEF D, M, F, L, acks, it, ms, rtx
  <2>9. rtx \subseteq D
    BY <2>1, <2>2, <2>7, <2>8
  <2>10. ASSUME NEW t \in D, log[t].msg \notin ms
         PROVE  t \in rtx <=> it[t].life = "ToBeRetransmitted"
    <3>1. CASE t \notin M
      BY <2>1, <2>3, <2>7, <2>8, <3>1
    <3>2. CASE t \in F
      BY <2>1, <2>5, <2>6, <2>7, <2>8, <3>2
    <3>3. CASE t \in M \ F
      BY <2>1, <2>4, <2>6, <2>7, <2>8, <2>10, <3>3
    <3> QED BY <3>1, <3>2, <3>3
  <2>11. ASSUME NEW t \in rtx PROVE it[t].ack = "Nacked"
    <3>1. CASE t \in L \ F
      BY <2>1, <2>4, <3>1
    <3>2. CASE t \in toRtx \ s
      <4>1. t \in D /\ t \notin F
        BY <2>1, <2>2, <2>6, <2>7, <3>2
      <4> QED BY <2>3, <2>4, <2>7, <3>2, <4>1
    <3> QED BY <2>8, <3>1, <3>2
  <2> QED BY <2>9, <2>10, <2>11 DEF D
<1>3. SackLeft(s) \in Nat /\ unacked' = Cardinality(Unacked(it))
  BY <1>0, <1>1, SackCount
<1> HIDE DEF c, it, rtx, ms
<1>4. /\ log' \in Seq(Entry) /\ Len(log) <= Len(log') /\ Len(log') \in Nat
      /\ item' \in [(c + 1)..Len(log') -> Item]
      /\ head' \in HeadType(sends) /\ (head'.frag > 1 => head'.msg <= sends)
  BY <1>0, AbandonEffect, LenProperties
<1>5. Consistent(item', toRtx', unacked')
  <2>1. Consistent(item', toRtx', Cardinality(Unacked(it)))
    BY <1>0, <1>2, AbandonConsistent
  <2> QED BY <1>3, <2>1
<1>6. CoreType'
  <2>1. c <= Len(log')
    BY <1>0, <1>4
  <2> QED BY <1>0, <1>1, <1>4, <2>1 DEF CoreType
<1>7. CountType'
  <2>1. rwnd' \in Nat
    <3>1. a \in Nat
      BY QueueAssumption
    <3> QED BY <1>1, <1>3, <3>1 DEF Max2
  <2>2. sending' \in 0..(MaxBurst + 1)
    BY <1>1, QueueAssumption
  <2>3. delivered' \subseteq Messages
    <3>1. DeliveredBy(s) \subseteq Messages
      BY QueueFacts DEF DeliveredBy
    <3> QED BY <1>1, <3>1 DEF QueueOK, CountType
  <2>4. /\ exit' \in Nat \cup {NoExit} /\ cwnd' \in Nat \ {0}
        /\ ssthresh' \in Nat /\ pba' \in Nat
    BY <1>0, <1>4, HandleSackFacts, CongestionTypes
  <2>5. t3' \in BOOLEAN
    BY <1>1 DEF TimerAfterSack, QueueOK, CountType
  <2> QED BY <1>1, <2>1, <2>2, <2>3, <2>4, <2>5 DEF QueueOK, CountType
<1>8. PeerType'
  <2>1. sent \subseteq 1..Len(log) /\ fwds \subseteq 0..Len(log)
    BY DEF QueueOK, PeerType
  <2>2. 1..Len(log) \subseteq 1..Len(log') /\ 0..Len(log) \subseteq 0..Len(log')
    BY <1>0, <1>4
  <2> QED BY <1>1, <1>4, <2>1, <2>2, PeerGrows
<1> QED BY <1>5, <1>6, <1>7, <1>8 DEF QueueOK

-----------------------------------------------------------------------------
(* T3-rtx *)

TimerNacked == {t \in Outstanding : item[t].ack # "Acked"}
TimerLost == LostOf(item, TimerNacked, TRUE)
TimerResult == NackedItems(item, TimerNacked, TRUE)
TimerGone == Exhausted(item, TimerLost)

LEMMA TimerFacts ==
    ASSUME QueueOK, OnRtxTimerExpiry
    PROVE  /\ Idle /\ t3
           /\ AbandonAllFor(log, TimerResult, toRtx \cup TimerLost, head, TimerGone)
           /\ unacked' = 0 /\ sending' = MaxBurst + 1
           /\ ssthresh' = Max2(cwnd \div 2, 4) /\ cwnd' = 1 /\ pba' = 0
           /\ UNCHANGED <<cum, breaks, exit, rwnd, t3, limited, sends, expired, resets, sent, fwds,
                          arrived, skip, sacks, reassembly, delivered>>
<1>1. unacked' = unacked - Cardinality(Unacked(item))
  BY DEF OnRtxTimerExpiry
<1>2. unacked' = 0
  BY <1>1, QueueFacts
<1> QED BY <1>2 DEF OnRtxTimerExpiry, TimerNacked, TimerLost, TimerResult, TimerGone,
                    SendBufferedPackets, client, path, peer

LEMMA TimerResultFacts ==
    ASSUME QueueOK
    PROVE  /\ TimerResult \in [(cum + 1)..Len(log) -> Item]
           /\ \A m \in TimerGone : MaxRetransmits[m] # NoLimit
           /\ \A t \in TimerLost : item[t].life = "Active" /\ t \in TimerNacked
           /\ \A t \in Outstanding \ TimerNacked : TimerResult[t] = item[t]
           /\ \A t \in TimerNacked :
                /\ TimerResult[t].ack = "Nacked"
                /\ MessageOf(t) \notin TimerGone =>
                     TimerResult[t].life = IF t \in TimerLost THEN "ToBeRetransmitted"
                                           ELSE item[t].life
                /\ TimerResult[t].life \in {"ToBeRetransmitted", item[t].life}
                /\ item[t].life = "Abandoned" => TimerResult[t].life = "Abandoned"
<1> DEFINE now == TRUE
           D == Outstanding
           ts == TimerNacked
           r == TimerResult
<1>0. D = (cum + 1)..Len(log)
  BY QueueFacts
<1>1. ts \subseteq D /\ item \in [D -> Item] /\ r = NackedItems(item, ts, now)
  BY QueueFacts DEF TimerNacked, TimerResult
<1>2. TimerLost = {t \in ts : IsLost(item[t], now)}
  BY DEF TimerLost, LostOf
<1>3. TimerGone = {MessageOf(t) : t \in {u \in TimerLost : IsExhausted(u, item[u])}}
  BY DEF TimerGone, Exhausted
<1> HIDE DEF now, D, ts, r
<1>4. /\ r \in [D -> Item] /\ \A t \in D \ ts : r[t] = item[t]
      /\ \A t \in ts :
           /\ r[t].ack = "Nacked"
           /\ r[t].life = IF IsLost(item[t], now) /\ ~IsExhausted(t, item[t])
                          THEN "ToBeRetransmitted" ELSE item[t].life
  BY <1>1, NackEffect
<1>5. \A t \in TimerLost : item[t].life = "Active" /\ t \in ts
  BY <1>2 DEF IsLost
<1>6. \A m \in TimerGone : MaxRetransmits[m] # NoLimit
  BY <1>3 DEF IsExhausted
<1>7. \A t \in TimerLost : MessageOf(t) \notin TimerGone => ~IsExhausted(t, item[t])
  BY <1>3
<1>8. \A t \in ts :
        /\ MessageOf(t) \notin TimerGone =>
             r[t].life = IF t \in TimerLost THEN "ToBeRetransmitted" ELSE item[t].life
        /\ r[t].life \in {"ToBeRetransmitted", item[t].life}
        /\ item[t].life = "Abandoned" => r[t].life = "Abandoned"
  <2> SUFFICES ASSUME NEW t \in ts
               PROVE  /\ MessageOf(t) \notin TimerGone =>
                           r[t].life = IF t \in TimerLost THEN "ToBeRetransmitted"
                                       ELSE item[t].life
                      /\ r[t].life \in {"ToBeRetransmitted", item[t].life}
                      /\ item[t].life = "Abandoned" => r[t].life = "Abandoned"
    OBVIOUS
  <2>1. CASE t \in TimerLost
    <3>1. IsLost(item[t], now) /\ item[t].life = "Active"
      BY <1>2, <1>5, <2>1
    <3> QED BY <1>4, <1>7, <2>1, <3>1
  <2>2. CASE t \notin TimerLost
    <3>1. ~IsLost(item[t], now)
      BY <1>2, <2>2
    <3> QED BY <1>4, <2>2, <3>1
  <2> QED BY <2>1, <2>2
<1> QED BY <1>0, <1>1, <1>4, <1>5, <1>6, <1>8 DEF D, ts, r

LEMMA RtxTimerQueueOK ==
    ASSUME QueueOK, OnRtxTimerExpiry
    PROVE  QueueOK'
<1> DEFINE it == TimerResult
           rtx == toRtx \cup TimerLost
           ms == TimerGone
<1>0. /\ cum \in Nat /\ cum <= Len(log) /\ Len(log) \in Nat /\ log \in Seq(Entry)
      /\ it \in [(cum + 1)..Len(log) -> Item]
      /\ sends \in 0..Len(Fragments) /\ head \in HeadType(sends)
      /\ (head.frag > 1 => head.msg <= sends)
      /\ AbandonAllFor(log, it, rtx, head, ms)
  BY TimerFacts, TimerResultFacts, QueueFacts
<1>1. /\ Outstanding = (cum + 1)..Len(log) /\ toRtx \subseteq Outstanding
      /\ toRtx = {t \in Outstanding : item[t].life = "ToBeRetransmitted"}
      /\ \A t \in toRtx : item[t].ack = "Nacked"
      /\ TimerNacked = {t \in Outstanding : item[t].ack # "Acked"}
  BY QueueFacts DEF TimerNacked
<1>2. /\ \A t \in TimerLost : item[t].life = "Active" /\ t \in TimerNacked
      /\ \A t \in Outstanding \ TimerNacked : it[t] = item[t]
      /\ \A t \in TimerNacked :
           /\ it[t].ack = "Nacked"
           /\ MessageOf(t) \notin ms =>
                it[t].life = IF t \in TimerLost THEN "ToBeRetransmitted" ELSE item[t].life
  BY TimerResultFacts
<1> HIDE DEF it, ms
<1>3. rtx \subseteq (cum + 1)..Len(log)
  BY <1>1, <1>2
<1>4. \A t \in rtx : it[t].ack = "Nacked"
  BY <1>1, <1>2
<1>5. \A t \in (cum + 1)..Len(log) : log[t].msg \notin ms =>
           (t \in rtx <=> it[t].life = "ToBeRetransmitted")
  BY <1>1, <1>2 DEF MessageOf
<1> HIDE DEF rtx
<1>6. Unacked(it) = {}
  BY <1>0, <1>1, <1>2 DEF Unacked
<1>7. Cardinality(Unacked(it)) = 0
  BY <1>6, FS_EmptySet
<1>8. Consistent(item', toRtx', unacked')
  <2>1. Consistent(item', toRtx', Cardinality(Unacked(it)))
    BY <1>0, <1>3, <1>4, <1>5, AbandonConsistent
  <2> QED BY <1>7, <2>1, TimerFacts
<1>9. /\ log' \in Seq(Entry) /\ Len(log) <= Len(log') /\ Len(log') \in Nat
      /\ item' \in [(cum + 1)..Len(log') -> Item]
      /\ head' \in HeadType(sends) /\ (head'.frag > 1 => head'.msg <= sends)
  BY <1>0, AbandonEffect, LenProperties
<1>10. CoreType'
  <2>1. cum <= Len(log')
    BY <1>0, <1>9
  <2> QED BY <1>0, <1>9, <2>1, TimerFacts DEF CoreType
<1>11. CountType'
  <2>1. sending' \in 0..(MaxBurst + 1)
    BY TimerFacts, QueueAssumption
  <2>2. ssthresh' \in Nat
    <3>1. cwnd \in Nat
      BY DEF QueueOK, CountType
    <3>2. cwnd \div 2 \in Nat
      BY <3>1
    <3> QED BY <3>2, TimerFacts DEF Max2
  <2>3. cwnd' \in Nat \ {0} /\ pba' \in Nat
    BY TimerFacts
  <2>4. UNCHANGED <<breaks, exit, rwnd, t3, limited, sends, expired, resets, delivered>>
    BY TimerFacts
  <2> QED BY <2>1, <2>2, <2>3, <2>4 DEF QueueOK, CountType
<1>12. PeerType'
  <2>1. sent \subseteq 1..Len(log) /\ fwds \subseteq 0..Len(log)
    BY DEF QueueOK, PeerType
  <2>2. 1..Len(log) \subseteq 1..Len(log') /\ 0..Len(log) \subseteq 0..Len(log')
    BY <1>0, <1>9
  <2> QED BY <1>9, <2>1, <2>2, PeerGrows, TimerFacts
<1> QED BY <1>8, <1>10, <1>11, <1>12 DEF QueueOK

-----------------------------------------------------------------------------
(* The peer's stream *)

\* A stream that holds chunks of A.
Streams(A) == [next : Nat, held : SUBSET A, read : Seq(Messages)]

\* TryToAssembleMessages reads some number k of messages that are whole.
LEMMA AssembleFacts ==
    ASSUME QueueOK, NEW A, A \subseteq 1..Len(log), NEW r \in Streams(A)
    PROVE  \E k \in Nat :
             /\ CanAssemble(r, k) /\ (k < Cardinality(r.held) => ~CanAssemble(r, k + 1))
             /\ TryToAssembleMessages(r) \in Streams(A)
             /\ TryToAssembleMessages(r).next = r.next + k
             /\ TryToAssembleMessages(r).held =
                  {t \in r.held : Ssn(t) \notin r.next..(r.next + k - 1)}
             /\ Len(TryToAssembleMessages(r).read) = Len(r.read) + k
             /\ \A i \in 1..Len(r.read) : TryToAssembleMessages(r).read[i] = r.read[i]
             /\ \A i \in 1..k : TryToAssembleMessages(r).read[Len(r.read) + i] =
                                  MessageOf(Min(ChunksOf(r, r.next + i - 1)))
<1> DEFINE K == {i \in 0..Cardinality(r.held) : CanAssemble(r, i)}
           k == Max(K)
           more == [i \in 1..k |-> MessageOf(Min(ChunksOf(r, r.next + i - 1)))]
           h == {t \in r.held : Ssn(t) \notin r.next..(r.next + k - 1)}
<1>0. /\ r.next \in Nat /\ r.held \subseteq A /\ r.read \in Seq(Messages) /\ Len(log) \in Nat
      /\ r.held \subseteq 1..Len(log) /\ Len(r.read) \in Nat
  BY QueueFacts, LenProperties DEF Streams
<1>1. Cardinality(r.held) \in Nat
  BY <1>0, FiniteInterval
<1>2. 0 \in K
  <2>1. r.next..(r.next + 0 - 1) = {}
    BY <1>0
  <2>2. CanAssemble(r, 0)
    BY <2>1 DEF CanAssemble
  <2> QED BY <1>1, <2>2
<1>3. k \in K /\ \A x \in K : x <= k
  <2>1. K \subseteq 0..Cardinality(r.held) /\ K # {}
    BY <1>2
  <2> HIDE DEF K
  <2> QED BY <1>1, <2>1, MaxOf
<1>4. k \in Nat /\ CanAssemble(r, k)
  BY <1>1, <1>3
<1>5. TryToAssembleMessages(r) = [next |-> r.next + k, held |-> h, read |-> r.read \o more]
  BY DEF TryToAssembleMessages
<1>11. ASSUME k < Cardinality(r.held), CanAssemble(r, k + 1) PROVE FALSE
  <2>1. k \in Nat /\ \A x \in K : x <= k
    BY <1>3, <1>4
  <2> HIDE DEF k
  <2>2. k + 1 \in K
    BY <1>1, <1>11, <2>1
  <2> HIDE DEF K
  <2>3. k + 1 <= k
    BY <2>1, <2>2
  <2> QED BY <2>1, <2>3
<1> HIDE DEF k, K
<1>6. ASSUME NEW i \in 1..k PROVE MessageOf(Min(ChunksOf(r, r.next + i - 1))) \in Messages
  <2> DEFINE C == ChunksOf(r, r.next + i - 1)
  <2>1. r.next + i - 1 \in r.next..(r.next + k - 1)
    BY <1>0, <1>4
  <2>2. C # {}
    BY <1>4, <2>1 DEF CanAssemble, Whole
  <2>3. C \subseteq 1..Len(log)
    BY <1>0 DEF ChunksOf
  <2> HIDE DEF C
  <2>4. C \subseteq Nat
    BY <2>3
  <2>5. Min(C) \in 1..Len(log)
    BY <2>2, <2>3, <2>4, MinOf
  <2> QED BY <2>5, QueueFacts DEF C
<1>7. /\ more \in Seq(Messages) /\ Len(more) = k
      /\ \A i \in 1..k : more[i] = MessageOf(Min(ChunksOf(r, r.next + i - 1)))
  <2>1. more \in [1..k -> Messages]
    BY <1>6
  <2> QED BY <1>4, <2>1, LenProperties
<1> HIDE DEF more
<1>8. /\ r.read \o more \in Seq(Messages) /\ Len(r.read \o more) = Len(r.read) + k
      /\ \A i \in 1..Len(r.read) : (r.read \o more)[i] = r.read[i]
      /\ \A i \in 1..k : (r.read \o more)[Len(r.read) + i] = more[i]
  <2>1. /\ r.read \o more \in Seq(Messages) /\ Len(r.read \o more) = Len(r.read) + k
        /\ \A i \in 1..(Len(r.read) + k) :
             (r.read \o more)[i] = IF i <= Len(r.read) THEN r.read[i] ELSE more[i - Len(r.read)]
    BY <1>0, <1>7, ConcatProperties
  <2>2. \A i \in 1..Len(r.read) : i \in 1..(Len(r.read) + k) /\ i <= Len(r.read)
    BY <1>0, <1>4
  <2>3. \A i \in 1..k : /\ Len(r.read) + i \in 1..(Len(r.read) + k)
                        /\ ~(Len(r.read) + i <= Len(r.read))
                        /\ (Len(r.read) + i) - Len(r.read) = i
    BY <1>0, <1>4
  <2> QED BY <2>1, <2>2, <2>3
<1>9. TryToAssembleMessages(r) \in Streams(A)
  <2>1. r.next + k \in Nat /\ h \in SUBSET A
    BY <1>0, <1>4
  <2> HIDE DEF h
  <2> QED BY <1>5, <1>8, <2>1 DEF Streams
<1>10. /\ TryToAssembleMessages(r).next = r.next + k /\ TryToAssembleMessages(r).held = h
       /\ TryToAssembleMessages(r).read = r.read \o more
  BY <1>5
<1> QED BY <1>4, <1>7, <1>8, <1>9, <1>10, <1>11

\* The stream before messages are assembled, in Add and in EraseTo.
WithHeld(r, t) == [next |-> r.next, held |-> r.held \cup {t}, read |-> r.read]
WithRead(r, t) == [next |-> r.next + 1, held |-> r.held, read |-> Append(r.read, MessageOf(t))]
Erased(r, f) == [next |-> Max2(r.next, Ssn(f) + 1),
                 held |-> {t \in r.held : Ssn(t) > Ssn(f)}, read |-> r.read]

LEMMA StreamSteps ==
    ASSUME NEW A, NEW r \in Streams(A), NEW t
    PROVE  /\ EraseTo(r, t) = TryToAssembleMessages(Erased(r, t))
           /\ \/ /\ Ssn(t) = r.next /\ Whole({t})
                 /\ AddChunk(r, t) = TryToAssembleMessages(WithRead(r, t))
              \/ AddChunk(r, t) = TryToAssembleMessages(WithHeld(r, t)) /\ Ssn(t) = r.next
              \/ AddChunk(r, t) = WithHeld(r, t) /\ Ssn(t) # r.next
<1> DEFINE n == r.next + 1
           d == Append(r.read, MessageOf(t))
           h == r.held \cup {t}
           e == {u \in r.held : Ssn(u) > Ssn(t)}
           m == Max2(r.next, Ssn(t) + 1)
           H == SUBSET A
           D == Seq(Messages)
           erased == [r EXCEPT !.held = e, !.next = m]
           withHeld == [r EXCEPT !.held = h]
           withRead == [r EXCEPT !.next = n, !.read = d]
<1>1. EraseTo(r, t) = TryToAssembleMessages(erased)
  BY DEF EraseTo
<1>2. AddChunk(r, t) = IF Ssn(t) = r.next /\ Whole({t}) THEN TryToAssembleMessages(withRead)
                       ELSE IF Ssn(t) = r.next THEN TryToAssembleMessages(withHeld) ELSE withHeld
  BY DEF AddChunk
<1>3. r \in [next : Nat, held : H, read : D]
  BY DEF Streams
<1>4. /\ Erased(r, t) = [next |-> m, held |-> e, read |-> r.read]
      /\ WithHeld(r, t) = [next |-> r.next, held |-> h, read |-> r.read]
      /\ WithRead(r, t) = [next |-> n, held |-> r.held, read |-> d]
  BY DEF Erased, WithHeld, WithRead
<1> HIDE DEF n, d, h, e, m, H, D
<1>5. erased = Erased(r, t) /\ withHeld = WithHeld(r, t) /\ withRead = WithRead(r, t)
  <2>1. erased = [next |-> m, held |-> e, read |-> r.read]
    <3>1. [r EXCEPT !.held = e] = [next |-> r.next, held |-> e, read |-> r.read]
      BY <1>3
    <3>2. erased = [[r EXCEPT !.held = e] EXCEPT !.next = m]
      BY <1>3
    <3>3. [[next |-> r.next, held |-> e, read |-> r.read] EXCEPT !.next = m] =
            [next |-> m, held |-> e, read |-> r.read]
      OBVIOUS
    <3> QED BY <3>1, <3>2, <3>3
  <2>2. withHeld = [next |-> r.next, held |-> h, read |-> r.read]
    BY <1>3
  <2>3. withRead = [next |-> n, held |-> r.held, read |-> d]
    <3>1. [r EXCEPT !.next = n] = [next |-> n, held |-> r.held, read |-> r.read]
      BY <1>3
    <3>2. withRead = [[r EXCEPT !.next = n] EXCEPT !.read = d]
      BY <1>3
    <3>3. [[next |-> n, held |-> r.held, read |-> r.read] EXCEPT !.read = d] =
            [next |-> n, held |-> r.held, read |-> d]
      OBVIOUS
    <3> QED BY <3>1, <3>2, <3>3
  <2> QED BY <1>4, <2>1, <2>2, <2>3
<1> HIDE DEF erased, withHeld, withRead
<1> QED BY <1>1, <1>2, <1>5

LEMMA StreamUpdates ==
    ASSUME QueueOK, NEW A, NEW r \in Streams(A), NEW t
    PROVE  /\ WithHeld(r, t) \in Streams(A \cup {t})
           /\ t \in 1..Len(log) => WithRead(r, t) \in Streams(A)
           /\ Ssn(t) + 1 \in Nat => Erased(r, t) \in Streams(A)
<1>0. r.next \in Nat /\ r.held \subseteq A /\ r.read \in Seq(Messages)
  BY DEF Streams
<1>1. WithHeld(r, t) \in Streams(A \cup {t})
  BY <1>0 DEF WithHeld, Streams
<1>2. ASSUME t \in 1..Len(log) PROVE WithRead(r, t) \in Streams(A)
  <2> DEFINE d == Append(r.read, MessageOf(t))
  <2>1. d \in Seq(Messages) /\ r.next + 1 \in Nat
    BY <1>0, <1>2, QueueFacts, AppendProperties
  <2> HIDE DEF d
  <2>2. [next |-> r.next + 1, held |-> r.held, read |-> d] \in Streams(A)
    BY <1>0, <2>1 DEF Streams
  <2> QED BY <2>2 DEF WithRead, d
<1>3. ASSUME Ssn(t) + 1 \in Nat PROVE Erased(r, t) \in Streams(A)
  <2> DEFINE n == Max2(r.next, Ssn(t) + 1)
             h == {u \in r.held : Ssn(u) > Ssn(t)}
  <2>1. n \in Nat /\ h \in SUBSET A
    BY <1>0, <1>3 DEF Max2
  <2> HIDE DEF n, h
  <2>2. [next |-> n, held |-> h, read |-> r.read] \in Streams(A)
    BY <1>0, <2>1 DEF Streams
  <2> QED BY <2>2 DEF Erased, n, h
<1> QED BY <1>1, <1>2, <1>3

LEMMA SsnType ==
    ASSUME QueueOK, NEW t \in 0..Len(log)
    PROVE  Ssn(t) + 1 \in Nat /\ (t > 0 => Ssn(t) \in Nat)
<1> DEFINE S == {MessageOf(u) : u \in 1..t}
<1>0. t \in Nat
  OBVIOUS
<1>1. IsFiniteSet(S)
  <2>1. \A u \in 1..t : u \in 1..Len(log)
    BY QueueFacts
  <2>2. S \subseteq 1..Len(Fragments)
    BY <2>1, QueueFacts DEF Messages
  <2> QED BY <2>2, QueueFacts, FiniteInterval
<1>2. Cardinality(S) \in Nat
  BY <1>1, FS_CardinalityType
<1>3. t > 0 => Cardinality(S) # 0
  <2> SUFFICES ASSUME t > 0, Cardinality(S) = 0 PROVE FALSE
    OBVIOUS
  <2>1. S = {}
    BY <1>1, FS_EmptySet
  <2>2. MessageOf(1) \in S
    BY <1>0
  <2> QED BY <2>1, <2>2
<1>4. Ssn(t) = Cardinality(S) - 1
  BY DEF Ssn
<1> HIDE DEF S
<1> QED BY <1>2, <1>3, <1>4

LEMMA EraseToType ==
    ASSUME QueueOK, NEW A, A \subseteq 1..Len(log), NEW r \in Streams(A), NEW f \in 0..Len(log)
    PROVE  EraseTo(r, f) \in Streams(A)
<1>1. Erased(r, f) \in Streams(A)
  BY SsnType, StreamUpdates
<1>2. TryToAssembleMessages(Erased(r, f)) \in Streams(A)
  BY <1>1, AssembleFacts
<1> QED BY <1>2, StreamSteps

LEMMA AddChunkType ==
    ASSUME QueueOK, NEW A, A \subseteq 1..Len(log), NEW r \in Streams(A), NEW t \in 1..Len(log)
    PROVE  AddChunk(r, t) \in Streams(A \cup {t})
<1>1. WithRead(r, t) \in Streams(A) /\ WithHeld(r, t) \in Streams(A \cup {t})
  BY StreamUpdates
<1>2. WithRead(r, t) \in Streams(A \cup {t}) /\ A \cup {t} \subseteq 1..Len(log)
  BY <1>1 DEF Streams
<1>3. TryToAssembleMessages(WithRead(r, t)) \in Streams(A \cup {t})
  BY <1>2, AssembleFacts
<1>4. TryToAssembleMessages(WithHeld(r, t)) \in Streams(A \cup {t})
  BY <1>1, <1>2, AssembleFacts
<1> QED BY <1>1, <1>3, <1>4, StreamSteps

\* The streams g that EraseToEach goes through.
Stepwise(g, r, fs) ==
    /\ g[0] = r
    /\ \A i \in 1..Len(fs) : g[i] = EraseTo(g[i - 1], fs[i])
    /\ EraseToEach(r, fs) = g[Len(fs)]
ClosedUnder(S, F) == \A x \in S, f \in F : EraseTo(x, f) \in S
HasSteps(S, r, fs) == \E g \in [0..Len(fs) -> S] : Stepwise(g, r, fs)

\* The FORWARD-TSNs that were put off are done one after the other.
LEMMA EraseToEachSteps ==
    ASSUME NEW S, NEW F, NEW r \in S, NEW fs \in Seq(F), ClosedUnder(S, F)
    PROVE  HasSteps(S, r, fs)
<1> DEFINE n == Len(fs)
           Step(g, i) == IF i = 0 THEN r ELSE EraseTo(g[i - 1], fs[i])
<1>0. n \in Nat /\ \A i \in 1..n : fs[i] \in F
  BY LenProperties, ElementOfSeq
<1> HIDE DEF n
<1>1. \E g : g = [i \in 0..n |-> Step(g, i)]
  <2> DEFINE Good(m) == \E g \in [0..m -> S] : \A i \in 0..m : g[i] = Step(g, i)
             T == {m \in Nat : m <= n /\ ~Good(m)}
             k == Min(T)
  <2>1. T = {}
    <3> SUFFICES ASSUME T # {} PROVE FALSE
      OBVIOUS
    <3>1. k \in T /\ \A x \in T : k <= x
      <4>1. T \subseteq Nat
        OBVIOUS
      <4> HIDE DEF T
      <4> QED BY <4>1, MinOf
    <3> HIDE DEF k
    <3>2. CASE k = 0
      <4>1. [i \in 0..0 |-> r] \in [0..0 -> S]
        OBVIOUS
      <4>2. [i \in 0..0 |-> r][0] = r /\ \A i \in 0..0 : i = 0
        OBVIOUS
      <4>3. Good(0)
        BY <4>1, <4>2
      <4> QED BY <3>1, <3>2, <4>3
    <3>3. CASE k # 0
      <4>1. k \in Nat /\ k - 1 \in Nat /\ k <= n /\ ~Good(k)
        BY <3>1, <3>3
      <4>2. k - 1 \notin T
        <5>1. \A x \in T : k <= x
          BY <3>1
        <5>2. ~(k <= k - 1)
          BY <4>1
        <5> HIDE DEF T
        <5> QED BY <5>1, <5>2
      <4>3. Good(k - 1)
        BY <1>0, <4>1, <4>2
      <4>4. PICK g \in [0..(k - 1) -> S] : \A i \in 0..(k - 1) : g[i] = Step(g, i)
        BY <4>3
      <4> DEFINE e == EraseTo(g[k - 1], fs[k])
                 j == [i \in 0..k |-> IF i = k THEN e ELSE g[i]]
      <4>5. e \in S
        <5>1. g[k - 1] \in S /\ fs[k] \in F
          BY <1>0, <3>3, <4>1
        <5> QED BY <5>1 DEF ClosedUnder
      <4>6. e = Step(g, k)
        BY <3>3
      <4> HIDE DEF e
      <4>7. /\ j \in [0..k -> S] /\ j[k] = e /\ k \in 0..k
            /\ \A i \in 0..(k - 1) : j[i] = g[i] /\ i \in 0..k
        BY <4>1, <4>5
      <4> HIDE DEF j
      <4>8. ASSUME NEW i \in 0..k PROVE j[i] = Step(j, i)
        <5>1. CASE i = 0
          BY <3>3, <4>1, <4>4, <4>7, <5>1
        <5>2. CASE i # 0
          <6>1. i - 1 \in 0..(k - 1) /\ (i # k => i \in 0..(k - 1))
            BY <4>1, <5>2
          <6>2. Step(j, i) = Step(g, i)
            BY <4>7, <5>2, <6>1
          <6> QED BY <4>4, <4>6, <4>7, <6>1, <6>2
        <5> QED BY <5>1, <5>2
      <4>9. Good(k)
        BY <4>7, <4>8
      <4> QED BY <4>1, <4>9
    <3> QED BY <3>2, <3>3
  <2>2. Good(n)
    BY <1>0, <2>1
  <2>3. PICK g \in [0..n -> S] : \A i \in 0..n : g[i] = Step(g, i)
    BY <2>2
  <2>4. g = [i \in 0..n |-> Step(g, i)]
    BY <2>3
  <2> QED BY <2>4
<1>2. PICK g : g = [i \in 0..n |-> Step(g, i)] /\ EraseToEach(r, fs) = g[n]
  BY <1>1 DEF EraseToEach, n
<1>3. \A i \in 0..n : g[i] \in S
  <2> DEFINE T == {i \in 0..n : g[i] \notin S}
             k == Min(T)
  <2> SUFFICES ASSUME T # {} PROVE FALSE
    OBVIOUS
  <2>1. k \in T /\ \A x \in T : k <= x
    <3>1. T \subseteq Nat
      OBVIOUS
    <3> HIDE DEF T
    <3> QED BY <3>1, MinOf
  <2> HIDE DEF k
  <2>2. k \in 0..n /\ g[k] \notin S /\ g[k] = Step(g, k)
    BY <1>2, <2>1
  <2>3. k # 0
    BY <2>2
  <2>4. k - 1 \in 0..n /\ k \in 1..n
    BY <1>0, <2>2, <2>3
  <2>5. k - 1 \notin T
    BY <1>0, <2>1, <2>2
  <2>6. g[k - 1] \in S /\ fs[k] \in F
    BY <1>0, <2>4, <2>5
  <2> QED BY <2>2, <2>3, <2>6 DEF ClosedUnder
<1>4. g \in [0..n -> S] /\ g[0] = r
  BY <1>0, <1>2, <1>3
<1>5. ASSUME NEW i \in 1..n PROVE g[i] = EraseTo(g[i - 1], fs[i])
  <2>1. i \in 0..n /\ i # 0
    BY <1>0
  <2> QED BY <1>2, <2>1
<1>6. g \in [0..Len(fs) -> S] /\ Stepwise(g, r, fs)
  BY <1>2, <1>4, <1>5 DEF Stepwise, n
<1> QED BY <1>6 DEF HasSteps

\* What EraseTo keeps, a sequence of EraseTo keeps.
LEMMA EraseToEachKeeps ==
    ASSUME NEW S, NEW F, NEW r \in S, NEW fs \in Seq(F),
           \A x \in S, f \in F : EraseTo(x, f) \in S
    PROVE  EraseToEach(r, fs) \in S
<1>0. HasSteps(S, r, fs)
  <2>1. ClosedUnder(S, F)
    BY DEF ClosedUnder
  <2> QED BY <2>1, EraseToEachSteps
<1>1. PICK g \in [0..Len(fs) -> S] : EraseToEach(r, fs) = g[Len(fs)]
  BY <1>0 DEF HasSteps, Stepwise
<1>2. Len(fs) \in 0..Len(fs)
  BY LenProperties
<1> QED BY <1>1, <1>2

-----------------------------------------------------------------------------
(* Steps of the peer keep QueueOK *)

LEMMA PeerFacts ==
    ASSUME QueueOK
    PROVE  /\ sent \subseteq 1..Len(log) /\ arrived \subseteq sent /\ arrived \subseteq 1..Len(log)
           /\ fwds \subseteq 0..Len(log) /\ skip \in 0..Len(log)
           /\ Received \subseteq 1..Len(log) /\ rx \in Streams(arrived)
           /\ deferred \in [last : Nat, fwds : Seq(fwds)]
           /\ deferred.fwds \in Seq(fwds) /\ deferred.last \in Nat
<1>1. /\ sent \subseteq 1..Len(log) /\ arrived \subseteq sent /\ arrived \subseteq 1..Len(log)
      /\ fwds \subseteq 0..Len(log) /\ skip \in fwds \cup {0}
      /\ rx \in Streams(arrived) /\ deferred \in [last : Nat, fwds : Seq(fwds)]
  BY DEF QueueOK, PeerType, Streams
<1>2. skip \in 0..Len(log)
  BY <1>1, QueueFacts
<1>3. 1..skip \subseteq 1..Len(log)
  BY <1>2, QueueFacts
<1> QED BY <1>1, <1>2, <1>3 DEF Received

\* The peer changes nothing but its own state.
LEMMA PeerStepQueueOK ==
    ASSUME QueueOK, PeerType',
           UNCHANGED <<outstanding, congestion, sending, limited, client, head, resets, path,
                       delivered>>
    PROVE  QueueOK'
<1>1. CoreType'
  BY DEF QueueOK, CoreType, outstanding, client
<1>2. CountType'
  BY DEF QueueOK, CountType, outstanding, client, congestion
<1>3. Consistent(item', toRtx', unacked')
  BY DEF QueueOK, Consistent, outstanding
<1> QED BY <1>1, <1>2, <1>3 DEF QueueOK

LEMMA ReceiveDataQueueOK ==
    ASSUME QueueOK, NEW t \in sent, ReceiveData(t)
    PROVE  QueueOK'
<1>1. t \in 1..Len(log) /\ arrived \subseteq 1..Len(log) /\ rx \in Streams(arrived)
  BY PeerFacts
<1>2. rx' \in Streams(arrived')
  BY <1>1, AddChunkType DEF ReceiveData
<1>3. sacks' \subseteq SUBSET (1..Len(log))
  BY <1>1, PeerFacts DEF ReceiveData, QueueOK, PeerType
<1>4. PeerType'
  BY <1>2, <1>3 DEF ReceiveData, QueueOK, PeerType, Streams, path, outstanding
<1> QED BY <1>4, PeerStepQueueOK DEF ReceiveData

LEMMA ReceiveForwardTsnQueueOK ==
    ASSUME QueueOK, NEW f \in fwds, ReceiveForwardTsn(f)
    PROVE  QueueOK'
<1>0. f \in 0..Len(log) /\ UNCHANGED <<log, arrived, sent, fwds, performed, resets>>
  BY PeerFacts DEF ReceiveForwardTsn, outstanding, path
<1>1. skip' \in fwds \cup {0} /\ skip' \in 0..Len(log)
  BY <1>0, PeerFacts DEF ReceiveForwardTsn, QueueOK, PeerType
<1>2. rx' \in Streams(arrived)
  <2>1. EraseTo(rx, f) \in Streams(arrived)
    BY <1>0, PeerFacts, EraseToType
  <2> QED BY <2>1, PeerFacts DEF ReceiveForwardTsn, HandleForwardTsn
<1>3. deferred' \in [last : Nat, fwds : Seq(fwds)]
  <2> DEFINE g == Append(deferred.fwds, f)
             Q == Seq(fwds)
  <2>1. g \in Q /\ deferred \in [last : Nat, fwds : Q]
    BY PeerFacts, AppendProperties
  <2>2. deferred' = [deferred EXCEPT !.fwds = g] \/ deferred' = deferred
    BY DEF ReceiveForwardTsn, HandleForwardTsn
  <2> HIDE DEF g, Q
  <2>3. deferred' \in [last : Nat, fwds : Q]
    BY <2>1, <2>2
  <2> QED BY <2>3 DEF Q
<1>4. sacks' \subseteq SUBSET (1..Len(log))
  <2>1. 1..skip' \subseteq 1..Len(log)
    BY <1>1, QueueFacts
  <2>2. sacks' = sacks \cup {arrived \cup 1..skip'}
    BY DEF ReceiveForwardTsn
  <2> QED BY <2>1, <2>2, PeerFacts DEF QueueOK, PeerType
<1>5. PeerType'
  BY <1>0, <1>1, <1>2, <1>3, <1>4 DEF QueueOK, PeerType, Streams
<1> QED BY <1>5, PeerStepQueueOK DEF ReceiveForwardTsn

LEMMA NotDeferredType ==
    ASSUME NEW F, NEW n \in Nat
    PROVE  /\ NotDeferred \in [last : Nat, fwds : Seq(F)]
           /\ [NotDeferred EXCEPT !.last = n] \in [last : Nat, fwds : Seq(F)]
           /\ [NotDeferred EXCEPT !.last = n] = [last |-> n, fwds |-> << >>]
<1> DEFINE Q == Seq(F)
           e == << >>
<1>1. e \in Q
  BY EmptySeq
<1>2. NotDeferred = [last |-> 0, fwds |-> e]
  BY DEF NotDeferred
<1> HIDE DEF Q, e
<1>3. /\ NotDeferred \in [last : Nat, fwds : Q]
      /\ [NotDeferred EXCEPT !.last = n] = [last |-> n, fwds |-> e]
      /\ [last |-> n, fwds |-> e] \in [last : Nat, fwds : Q]
  BY <1>1, <1>2
<1> QED BY <1>3 DEF Q, e

LEMMA ReceiveResetRequestQueueOK ==
    ASSUME QueueOK, NEW b \in resets, ReceiveResetRequest(b)
    PROVE  QueueOK'
<1>0. UNCHANGED <<log, arrived, sent, fwds, skip, sacks, resets>>
  BY DEF ReceiveResetRequest, outstanding, path
<1>1. CASE CumulativeAck(Received) < b - 1
  <2>1. deferred' = [NotDeferred EXCEPT !.last = b - 1] /\ UNCHANGED <<rx, performed>>
    BY <1>1 DEF ReceiveResetRequest
  <2>2. b - 1 \in Nat
    <3>1. CumulativeAck(Received) \in 0..Len(log) /\ Len(log) \in Nat /\ b \in Nat
      BY PeerFacts, QueueFacts, CumulativeAckOf DEF QueueOK, CountType
    <3> QED BY <1>1, <3>1
  <2>3. deferred' \in [last : Nat, fwds : Seq(fwds)]
    BY <2>1, <2>2, NotDeferredType
  <2>4. PeerType'
    BY <1>0, <2>1, <2>3 DEF QueueOK, PeerType
  <2> QED BY <2>4, PeerStepQueueOK DEF ReceiveResetRequest
<1>2. CASE ~(CumulativeAck(Received) < b - 1)
  <2>1. /\ rx' = EraseToEach(rx, deferred.fwds) /\ deferred' = NotDeferred
        /\ performed' = performed \cup {b}
    BY <1>2 DEF ReceiveResetRequest
  <2>2. rx' \in Streams(arrived)
    <3> DEFINE S == Streams(arrived)
               fs == deferred.fwds
    <3>1. \A x \in S, f \in fwds : EraseTo(x, f) \in S
      BY PeerFacts, EraseToType
    <3>2. rx \in S /\ fs \in Seq(fwds)
      BY PeerFacts
    <3> HIDE DEF S, fs
    <3>3. EraseToEach(rx, fs) \in S
      BY <3>1, <3>2, EraseToEachKeeps
    <3> QED BY <2>1, <3>3 DEF S, fs
  <2>3. deferred' \in [last : Nat, fwds : Seq(fwds)]
    <3> DEFINE n == 0
    <3>1. n \in Nat
      OBVIOUS
    <3> HIDE DEF n
    <3> QED BY <2>1, <3>1, NotDeferredType
  <2>4. PeerType'
    BY <1>0, <2>1, <2>2, <2>3 DEF QueueOK, PeerType, Streams
  <2> QED BY <2>4, PeerStepQueueOK DEF ReceiveResetRequest
<1> QED BY <1>1, <1>2

-----------------------------------------------------------------------------
(* Every step keeps QueueOK *)

LEMMA InitQueueOK == Init => QueueOK
<1> SUFFICES ASSUME Init PROVE QueueOK
  OBVIOUS
<1>0. Len(Fragments) \in Nat /\ log = << >> /\ item = << >> /\ cum = 0
  BY LenProperties, QueueAssumption DEF Init
<1>1. CoreType
  <2>1. log \in Seq(Entry) /\ Len(log) = 0
    BY <1>0, EmptySeq
  <2>2. item \in [(cum + 1)..Len(log) -> Item]
    <3>1. (cum + 1)..Len(log) = {}
      BY <1>0, <2>1
    <3>2. item = [t \in {} |-> 0]
      BY <1>0
    <3> QED BY <3>1, <3>2
  <2>3. head \in HeadType(sends) /\ head.frag = 1
    BY DEF Init, HeadType
  <2> QED BY <1>0, <2>1, <2>2, <2>3 DEF CoreType
<1>2. CountType
  <2>1. rwnd \in Nat /\ ssthresh \in Nat /\ cwnd \in Nat \ {0}
    BY QueueAssumption DEF Init
  <2>2. 0 \in 0..(MaxBurst + 1) /\ 0 \in 0..Len(Fragments)
    BY <1>0, QueueAssumption
  <2> QED BY <2>1, <2>2 DEF Init, CountType
<1>3. PeerType
  <2>1. rx \in [next : Nat, held : SUBSET arrived, read : Seq(Messages)]
    <3> DEFINE Q == Seq(Messages)
               e == << >>
    <3>1. e \in Q /\ rx = [next |-> 0, held |-> {}, read |-> e]
      BY EmptySeq DEF Init
    <3> HIDE DEF Q, e
    <3>2. rx \in [next : Nat, held : SUBSET arrived, read : Q]
      BY <3>1
    <3> QED BY <3>2 DEF Q
  <2>2. deferred \in [last : Nat, fwds : Seq(fwds)]
    <3> DEFINE n == 0
    <3>1. n \in Nat
      OBVIOUS
    <3> HIDE DEF n
    <3> QED BY <3>1, NotDeferredType DEF Init
  <2> QED BY <2>1, <2>2 DEF Init, PeerType
<1>4. Consistent(item, toRtx, unacked)
  <2>1. DOMAIN item = {}
    BY <1>0
  <2>2. Unacked(item) = {} /\ {t \in DOMAIN item : item[t].life = "ToBeRetransmitted"} = {}
    BY <2>1 DEF Unacked
  <2> QED BY <2>2, FS_EmptySet DEF Init, Consistent
<1> QED BY <1>1, <1>2, <1>3, <1>4 DEF QueueOK

LEMMA StutterQueueOK ==
    ASSUME QueueOK, UNCHANGED vars
    PROVE  QueueOK'
<1>1. PeerType'
  BY DEF QueueOK, PeerType, vars, peer, reassembly, path, outstanding
<1> QED BY <1>1, PeerStepQueueOK DEF vars

LEMMA NextQueueOK == QueueOK /\ [Next]_vars => QueueOK'
<1> SUFFICES ASSUME QueueOK, [Next]_vars PROVE QueueOK'
  OBVIOUS
<1>1. CASE Send \/ ResetStreams \/ LimitEnds \/ (\E m \in Messages : Expire(m)) \/ SendNothing
  BY <1>1, SimpleQueueOK
<1>2. CASE SendControl
  BY <1>2, SendControlQueueOK
<1>3. CASE Retransmit
  BY <1>3, RetransmitQueueOK
<1>4. CASE Produce
  BY <1>4, ProduceQueueOK
<1>5. CASE ProduceExpired
  BY <1>5, ProduceExpiredQueueOK
<1>6. CASE \E s \in sacks, a \in PeerWindows : HandleSack(s, a)
  BY <1>6, HandleSackQueueOK
<1>7. CASE OnRtxTimerExpiry
  BY <1>7, RtxTimerQueueOK
<1>8. CASE \E t \in sent : ReceiveData(t)
  BY <1>8, ReceiveDataQueueOK
<1>9. CASE \E f \in fwds : ReceiveForwardTsn(f)
  BY <1>9, ReceiveForwardTsnQueueOK
<1>10. CASE \E b \in resets : ReceiveResetRequest(b)
  BY <1>10, ReceiveResetRequestQueueOK
<1>11. CASE UNCHANGED vars
  BY <1>11, StutterQueueOK
<1> QED BY <1>1, <1>2, <1>3, <1>4, <1>5, <1>6, <1>7, <1>8, <1>9, <1>10, <1>11 DEF Next

\* Every variable of OutstandingData, RetransmissionQueue and the reassembly
\* queue keeps its type, whatever the path does: in particular no counter of
\* bytes or packets underflows and every TSN above the cumulative ack has an item.
THEOREM TypeCorrect == Spec => []TypeOK
<1>1. Spec => []QueueOK
  BY InitQueueOK, NextQueueOK, PTL DEF Spec
<1> QED BY <1>1, QueueTypes, PTL

\* What OutstandingData::IsConsistent asserts after every method holds for every
\* number of messages, fragments, retransmissions and nacks: unacked_bytes_ is
\* the number of chunks in flight, to_be_retransmitted_ the chunks that are due.
THEOREM Consistency == Spec => []IsConsistent
<1>1. Spec => []QueueOK
  BY InitQueueOK, NextQueueOK, PTL DEF Spec
<1> QED BY <1>1, QueueTypes, PTL

=============================================================================
