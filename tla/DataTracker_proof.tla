------------------------- MODULE DataTracker_proof --------------------------
(***************************************************************************)
(* Proofs about DataTracker, for every value of its constants.             *)
(***************************************************************************)
EXTENDS DataTracker, SequenceTheorems, WellFoundedInduction, TLAPS

-----------------------------------------------------------------------------
(* Numbers and sequences *)

\* Every nonempty set of naturals has a least element.
LEMMA LeastNatural ==
    ASSUME NEW T, T \subseteq Nat, T # {}
    PROVE  \E x \in T : \A y \in T : x <= y
<1> DEFINE R == {ss \in Nat \X Nat : ss[1] < ss[2]}
<1>1. IsWellFoundedOn(R, Nat)
  BY NatLessThanWellFounded DEF OpToRel
<1>2. \E x \in T : \A y \in T : ~(<<y, x>> \in R)
  <2> HIDE DEF R
  <2> QED BY <1>1, WFMin
<1>3. \A x, y \in Nat : ~(<<y, x>> \in R) => x <= y
  OBVIOUS
<1> QED BY <1>2, <1>3

\* What RemoveAt returns.
LEMMA RemoveAtElements ==
    ASSUME NEW S, NEW s \in Seq(S), NEW k \in 1..Len(s)
    PROVE  /\ RemoveAt(s, k) \in Seq(S)
           /\ Len(RemoveAt(s, k)) = Len(s) - 1
           /\ \A j \in 1..(Len(s) - 1) :
                RemoveAt(s, k)[j] = IF j < k THEN s[j] ELSE s[j + 1]
<1> DEFINE u == SubSeq(s, 1, k - 1)
           v == SubSeq(s, k + 1, Len(s))
<1>0. Len(s) \in Nat /\ k \in Int /\ \A i \in 1..Len(s) : s[i] \in S
  BY ElementOfSeq, LenProperties
<1>1. u \in Seq(S) /\ Len(u) = k - 1 /\ \A i \in 1..(k - 1) : u[i] = s[i]
  BY <1>0, SubSeqProperties
<1>2. /\ v \in Seq(S) /\ Len(v) = Len(s) - k
      /\ \A i \in 1..(Len(s) - k) : v[i] = s[k + i]
  BY <1>0, SubSeqProperties
<1> HIDE DEF u, v
<1>3. /\ u \o v \in Seq(S) /\ Len(u \o v) = Len(u) + Len(v)
      /\ \A i \in 1 .. Len(u) + Len(v) :
            (u \o v)[i] = IF i <= Len(u) THEN u[i] ELSE v[i - Len(u)]
  BY <1>1, <1>2, ConcatProperties
<1>4. RemoveAt(s, k) = u \o v
  BY DEF RemoveAt, u, v
<1>5. ASSUME NEW j \in 1..(Len(s) - 1)
      PROVE  (u \o v)[j] = IF j < k THEN s[j] ELSE s[j + 1]
  <2>1. CASE j < k
    BY <2>1, <1>0, <1>1, <1>2, <1>3
  <2>2. CASE ~(j < k)
    <3>1. (u \o v)[j] = v[j - (k - 1)] /\ j - (k - 1) \in 1..(Len(s) - k)
      BY <2>2, <1>0, <1>1, <1>2, <1>3
    <3>2. k + (j - (k - 1)) = j + 1
      BY <1>0
    <3> QED BY <3>1, <3>2, <2>2, <1>2
  <2> QED BY <2>1, <2>2
<1>6. Len(u \o v) = Len(s) - 1
  BY <1>0, <1>1, <1>2, <1>3
<1> QED BY <1>3, <1>4, <1>5, <1>6

\* What InsertAt returns.
LEMMA InsertAtElements ==
    ASSUME NEW S, NEW s \in Seq(S), NEW k \in 1..Len(s), NEW e \in S
    PROVE  /\ InsertAt(s, k, e) \in Seq(S)
           /\ Len(InsertAt(s, k, e)) = Len(s) + 1
           /\ \A j \in 1..(Len(s) + 1) :
                InsertAt(s, k, e)[j] = IF j < k THEN s[j]
                                       ELSE IF j = k THEN e ELSE s[j - 1]
<1> DEFINE u == SubSeq(s, 1, k - 1)
           v == SubSeq(s, k, Len(s))
           ue == Append(u, e)
<1>0. Len(s) \in Nat /\ k \in Int /\ \A i \in 1..Len(s) : s[i] \in S
  BY ElementOfSeq, LenProperties
<1>1. u \in Seq(S) /\ Len(u) = k - 1 /\ \A i \in 1..(k - 1) : u[i] = s[i]
  BY <1>0, SubSeqProperties
<1>2. /\ v \in Seq(S) /\ Len(v) = Len(s) - k + 1
      /\ \A i \in 1..(Len(s) - k + 1) : v[i] = s[k + i - 1]
  BY <1>0, SubSeqProperties
<1>3. InsertAt(s, k, e) = (u \o <<e>>) \o v
  BY DEF InsertAt
<1> HIDE DEF u, v
<1>4. u \o <<e>> = ue
  BY <1>1, AppendIsConcat
<1>5. /\ ue \in Seq(S) /\ Len(ue) = k
      /\ \A i \in 1..(k - 1) : ue[i] = s[i]
      /\ ue[k] = e
  <2>1. /\ ue \in Seq(S) /\ Len(ue) = Len(u) + 1
        /\ \A i \in 1..Len(u) : ue[i] = u[i]
        /\ ue[Len(u) + 1] = e
    BY <1>1, AppendProperties
  <2>2. Len(u) + 1 = k
    BY <1>0, <1>1
  <2> QED BY <2>1, <2>2, <1>1
<1> HIDE DEF ue
<1>6. /\ ue \o v \in Seq(S) /\ Len(ue \o v) = Len(ue) + Len(v)
      /\ \A i \in 1 .. Len(ue) + Len(v) :
            (ue \o v)[i] = IF i <= Len(ue) THEN ue[i] ELSE v[i - Len(ue)]
  BY <1>2, <1>5, ConcatProperties
<1>7. Len(ue) + Len(v) = Len(s) + 1
  BY <1>0, <1>2, <1>5
<1>8. ASSUME NEW j \in 1..(Len(s) + 1)
      PROVE  (ue \o v)[j] = IF j < k THEN s[j]
                            ELSE IF j = k THEN e ELSE s[j - 1]
  <2>0. (ue \o v)[j] = IF j <= k THEN ue[j] ELSE v[j - k]
    BY <1>5, <1>6, <1>7
  <2>1. CASE j < k
    BY <2>0, <2>1, <1>0, <1>5
  <2>2. CASE j = k
    BY <2>0, <2>2, <1>0, <1>5
  <2>3. CASE j > k
    <3>1. j - k \in 1..(Len(s) - k + 1) /\ k + (j - k) - 1 = j - 1
      BY <2>3, <1>0
    <3>2. v[j - k] = s[j - 1]
      BY <3>1, <1>2
    <3> QED BY <2>0, <2>3, <3>2, <1>0
  <2>4. j < k \/ j = k \/ j > k
    BY <1>0
  <2> QED BY <2>1, <2>2, <2>3, <2>4
<1> QED BY <1>3, <1>4, <1>6, <1>7, <1>8

-----------------------------------------------------------------------------
(* AdditionalTsnBlocks *)

\* The arguments are about the first L elements of an array b: blocks are not
\* empty and there are gaps between them, and n is in one of them.
Typed(b, L) == \A j \in 1..L : b[j].first \in Int /\ b[j].last \in Int
OrderedTo(b, L) ==
    /\ \A i \in 1..L : b[i].first <= b[i].last
    /\ \A i, j \in 1..L : i < j => b[i].last + 1 < b[j].first
CoversTo(b, L, n) == \E i \in 1..L : b[i].first <= n /\ n <= b[i].last
Same(x, y) == x.first = y.first /\ x.last = y.last

\* How an update of the array b of length L gives the array r: a block with t
\* alone is inserted at i, t joins the blocks i and i + 1, or t is added to one
\* end of block i.
Inserted(b, r, L, i, t) ==
    /\ i \in 1..(L + 1)
    /\ \A j \in 1..(i - 1) : b[j].last < t - 1
    /\ i <= L => t + 1 < b[i].first
    /\ r[i].first = t /\ r[i].last = t
    /\ \A j \in 1..(i - 1) : Same(r[j], b[j])
    /\ \A j \in (i + 1)..(L + 1) : Same(r[j], b[j - 1])
Merged(b, r, L, i, t) ==
    /\ i \in 1..(L - 1)
    /\ b[i].last + 1 = t /\ b[i + 1].first = t + 1
    /\ \A j \in 1..(i - 1) : Same(r[j], b[j])
    /\ r[i].first = b[i].first /\ r[i].last = b[i + 1].last
    /\ \A j \in (i + 1)..(L - 1) : Same(r[j], b[j + 1])
Grown(b, r, L, i, t) ==
    /\ i \in 1..L
    /\ \A j \in 1..(i - 1) : b[j].last < t - 1
    /\ \A j \in (i + 1)..L : t + 1 < b[j].first
    /\ \A j \in 1..L : j # i => Same(r[j], b[j])
    /\ \/ t = b[i].last + 1 /\ r[i].first = b[i].first /\ r[i].last = t
       \/ t + 1 = b[i].first /\ r[i].first = t /\ r[i].last = b[i].last

\* The cumulative ack moves to t, or to the end c of a block that reaches t, and
\* the blocks before block k are dropped.
Reached(b, L, k, t, c) ==
    /\ k \in 1..(L + 1) /\ t <= c
    /\ \A j \in 1..(k - 1) : b[j].last <= c
    /\ \A j \in k..L : c + 1 < b[j].first
    /\ \/ c = t
       \/ k - 1 \in 1..L /\ c = b[k - 1].last /\ b[k - 1].first <= t + 1

\* A block that holds t alone goes between blocks that are not adjacent to it.
LEMMA InsertBlock ==
    ASSUME NEW b, NEW r, NEW L \in Nat, NEW i, NEW t \in Int,
           Typed(b, L), OrderedTo(b, L), Inserted(b, r, L, i, t)
    PROVE  /\ OrderedTo(r, L + 1)
           /\ \A n \in Int : CoversTo(r, L + 1, n) <=> CoversTo(b, L, n) \/ n = t
<1> USE DEF Inserted
<1>1. \A j \in i..L : t + 1 < b[j].first
  BY DEF Typed, OrderedTo
<1>2. \A k \in 1..(L + 1) :
        \/ k \in 1..(i - 1) \/ k = i
        \/ k \in (i + 1)..(L + 1) /\ k - 1 \in i..L /\ k - 1 \in 1..L
  OBVIOUS
<1>3. OrderedTo(r, L + 1)
  <2>1. \A k \in 1..(L + 1) : r[k].first <= r[k].last
    BY <1>2 DEF OrderedTo, Same
  <2>2. ASSUME NEW j \in 1..(L + 1), NEW k \in 1..(L + 1), j < k
        PROVE  r[j].last + 1 < r[k].first
    BY <2>2, <1>1, <1>2 DEF Typed, OrderedTo, Same
  <2> QED BY <2>1, <2>2 DEF OrderedTo
<1>4. ASSUME NEW n \in Int, NEW k \in 1..(L + 1), r[k].first <= n, n <= r[k].last
      PROVE  CoversTo(b, L, n) \/ n = t
  BY <1>4, <1>2 DEF CoversTo, Same
<1>5. ASSUME NEW n \in Int, NEW k \in 1..L, b[k].first <= n, n <= b[k].last
      PROVE  CoversTo(r, L + 1, n)
  <2>1. CASE k \in 1..(i - 1)
    BY <2>1, <1>5 DEF CoversTo, Same
  <2>2. CASE k \in i..L
    <3>1. k + 1 \in (i + 1)..(L + 1) /\ (k + 1) - 1 = k /\ k + 1 \in 1..(L + 1)
      BY <2>2
    <3>2. Same(r[k + 1], b[k])
      BY <3>1
    <3> QED BY <3>1, <3>2, <1>5 DEF CoversTo, Same
  <2> QED BY <2>1, <2>2
<1>6. CoversTo(r, L + 1, t)
  BY DEF CoversTo
<1> QED BY <1>3, <1>4, <1>5, <1>6 DEF CoversTo

\* t closes the gap of one between two blocks.
LEMMA MergeBlocks ==
    ASSUME NEW b, NEW r, NEW L \in Nat, NEW i, NEW t \in Int,
           Typed(b, L), OrderedTo(b, L), Merged(b, r, L, i, t)
    PROVE  /\ OrderedTo(r, L - 1)
           /\ \A n \in Int : CoversTo(r, L - 1, n) <=> CoversTo(b, L, n) \/ n = t
<1> USE DEF Merged
<1>1. i \in 1..L /\ i + 1 \in 1..L /\ i \in 1..(L - 1)
  OBVIOUS
<1>2. \A k \in 1..(L - 1) :
        \/ k \in 1..(i - 1) \/ k = i
        \/ k \in (i + 1)..(L - 1) /\ k + 1 \in 1..L
  OBVIOUS
<1>3. OrderedTo(r, L - 1)
  BY <1>1, <1>2 DEF Typed, OrderedTo, Same
<1>4. ASSUME NEW n \in Int, NEW k \in 1..(L - 1), r[k].first <= n, n <= r[k].last
      PROVE  CoversTo(b, L, n) \/ n = t
  <2>1. CASE k \in 1..(i - 1)
    BY <2>1, <1>4 DEF CoversTo, Same
  <2>2. CASE k = i
    BY <2>2, <1>4, <1>1 DEF Typed, CoversTo, Same
  <2>3. CASE k \in (i + 1)..(L - 1) /\ k + 1 \in 1..L
    BY <2>3, <1>4 DEF CoversTo, Same
  <2> QED BY <2>1, <2>2, <2>3, <1>2
<1>5. ASSUME NEW n \in Int, NEW k \in 1..L, b[k].first <= n, n <= b[k].last
      PROVE  CoversTo(r, L - 1, n)
  <2>0. b[i].first <= b[i].last /\ b[i + 1].first <= b[i + 1].last
    BY <1>1 DEF OrderedTo
  <2>1. CASE k \in 1..(i - 1)
    BY <2>1, <1>5 DEF CoversTo, Same
  <2>2. CASE k = i \/ k = i + 1
    BY <2>2, <2>0, <1>5, <1>1 DEF Typed, CoversTo
  <2>3. CASE k - 1 \in (i + 1)..(L - 1) /\ (k - 1) + 1 = k
    <3>1. k - 1 \in 1..(L - 1)
      BY <2>3
    <3> QED BY <3>1, <2>3, <1>5 DEF CoversTo, Same
  <2> QED BY <2>1, <2>2, <2>3
<1>6. CoversTo(r, L - 1, t)
  BY <1>1 DEF Typed, CoversTo, OrderedTo
<1> QED BY <1>3, <1>4, <1>5, <1>6 DEF CoversTo

\* A block grows by t at one of its ends and reaches no other block.
LEMMA GrowBlock ==
    ASSUME NEW b, NEW r, NEW L \in Nat, NEW i, NEW t \in Int,
           Typed(b, L), OrderedTo(b, L), Grown(b, r, L, i, t)
    PROVE  /\ OrderedTo(r, L)
           /\ \A n \in Int : CoversTo(r, L, n) <=> CoversTo(b, L, n) \/ n = t
<1> USE DEF Grown
<1>1. b[i].first <= b[i].last /\ b[i].first \in Int /\ b[i].last \in Int
  BY DEF Typed, OrderedTo
<1>2. OrderedTo(r, L)
  BY <1>1 DEF Typed, OrderedTo, Same
<1>3. ASSUME NEW n \in Int PROVE CoversTo(r, L, n) <=> CoversTo(b, L, n) \/ n = t
  BY <1>1 DEF Typed, CoversTo, Same
<1> QED BY <1>2, <1>3

\* What is left of the blocks when the cumulative ack has moved.
LEMMA DropBlocks ==
    ASSUME NEW b, NEW r, NEW L \in Nat, NEW k, NEW t \in Int, NEW c \in Int,
           Typed(b, L), OrderedTo(b, L), Reached(b, L, k, t, c),
           \A j \in 1..(L - k + 1) : Same(r[j], b[j + k - 1])
    PROVE  /\ OrderedTo(r, L - k + 1)
           /\ \A j \in 1..(L - k + 1) : c + 1 < r[j].first
           /\ \A n \in Int : \/ n <= c
                             \/ CoversTo(r, L - k + 1, n)
                            <=> n <= t \/ CoversTo(b, L, n)
<1> USE DEF Reached
<1>1. \A j \in 1..(L - k + 1) : j + k - 1 \in k..L /\ j + k - 1 \in 1..L
  OBVIOUS
<1>2. OrderedTo(r, L - k + 1)
  BY <1>1 DEF OrderedTo, Same
<1>3. \A j \in 1..(L - k + 1) : c + 1 < r[j].first
  BY <1>1 DEF Same
<1>4. ASSUME NEW n \in Int, n <= c, ~(n <= t) PROVE CoversTo(b, L, n)
  BY <1>4 DEF Typed, CoversTo
<1>5. ASSUME NEW n \in Int, NEW j \in 1..(L - k + 1),
             r[j].first <= n, n <= r[j].last
      PROVE  CoversTo(b, L, n)
  BY <1>1, <1>5 DEF CoversTo, Same
<1>6. ASSUME NEW n \in Int, NEW j \in 1..L, b[j].first <= n, n <= b[j].last, ~(n <= c)
      PROVE  CoversTo(r, L - k + 1, n)
  <2>1. j \notin 1..(k - 1)
    BY <1>6 DEF Typed
  <2>2. j - k + 1 \in 1..(L - k + 1) /\ (j - k + 1) + k - 1 = j
    BY <2>1
  <2>3. Same(r[j - k + 1], b[j])
    BY <2>2
  <2> QED BY <1>6, <2>2, <2>3 DEF CoversTo, Same
<1> QED BY <1>2, <1>3, <1>4, <1>5, <1>6 DEF CoversTo

\* Elements of a vector of blocks are pairs of numbers.
LEMMA BlockElements ==
    ASSUME NEW bs \in Seq(Block)
    PROVE  /\ Len(bs) \in Nat
           /\ \A i \in 1..Len(bs) : /\ bs[i] \in Block
                                    /\ bs[i].first \in Tsns /\ bs[i].first \in Int
                                    /\ bs[i].last \in Tsns /\ bs[i].last \in Int
<1>1. Len(bs) \in Nat /\ \A i \in 1..Len(bs) : bs[i] \in Block
  BY ElementOfSeq, LenProperties
<1>2. \A b \in Block : /\ b.first \in Tsns /\ b.first \in Int
                       /\ b.last \in Tsns /\ b.last \in Int
  BY TrackerAssumption DEF Block, Tsns
<1> QED BY <1>1, <1>2

\* The search of std::lower_bound always has a result.
LEMMA LowerBoundIndex ==
    ASSUME NEW bs \in Seq(Block), NEW t \in Int
    PROVE  LET i == LowerBound(bs, t) IN
           /\ i \in 1..(Len(bs) + 1)
           /\ i <= Len(bs) => bs[i].last >= t
           /\ \A j \in 1..(i - 1) : bs[j].last < t
<1> DEFINE T == {i \in 1..(Len(bs) + 1) : i <= Len(bs) => bs[i].last >= t}
<1>0. Len(bs) \in Nat /\ \A i \in 1..Len(bs) : bs[i].last \in Int
  BY BlockElements
<1>1. T \subseteq Nat /\ Len(bs) + 1 \in T
  BY <1>0
<1>2. PICK i \in T : \A k \in T : i <= k
  <2> HIDE DEF T
  <2> QED BY <1>1, LeastNatural
<1>3. ASSUME NEW j \in 1..(i - 1) PROVE bs[j].last < t
  <2>1. j \in 1..Len(bs) /\ j < i /\ j \in Int
    BY <1>0, <1>2
  <2>2. ~(bs[j].last >= t)
    <3>1. j \notin T
      <4> HIDE DEF T
      <4> QED BY <1>1, <1>2, <2>1
    <3> QED BY <3>1, <2>1, <1>0
  <2> QED BY <2>1, <2>2, <1>0
<1> QED
  BY <1>2, <1>3 DEF LowerBound

\* An update of one end of a block.
LEMMA LastReplaced ==
    ASSUME NEW bs \in Seq(Block), NEW i \in 1..Len(bs), NEW t \in Tsns
    PROVE  LET r == [bs EXCEPT ![i].last = t] IN
           /\ r \in Seq(Block) /\ Len(r) = Len(bs)
           /\ \A j \in 1..Len(bs) :
                /\ r[j].first = bs[j].first
                /\ r[j].last = IF j = i THEN t ELSE bs[j].last
<1> DEFINE b == [bs[i] EXCEPT !.last = t]
           r == [bs EXCEPT ![i] = b]
<1>1. b \in Block /\ b.first = bs[i].first /\ b.last = t
  BY BlockElements DEF Block
<1>2. /\ r \in Seq(Block) /\ Len(r) = Len(bs)
      /\ \A j \in 1..Len(bs) : r[j] = IF j = i THEN b ELSE bs[j]
  <2> HIDE DEF b
  <2> QED BY <1>1, ExceptSeq
<1>3. [bs EXCEPT ![i].last = t] = r
  OBVIOUS
<1> HIDE DEF b, r
<1> QED BY <1>1, <1>2, <1>3

\* The same for the other end.
LEMMA FirstReplaced ==
    ASSUME NEW bs \in Seq(Block), NEW i \in 1..Len(bs), NEW t \in Tsns
    PROVE  LET r == [bs EXCEPT ![i].first = t] IN
           /\ r \in Seq(Block) /\ Len(r) = Len(bs)
           /\ \A j \in 1..Len(bs) :
                /\ r[j].last = bs[j].last
                /\ r[j].first = IF j = i THEN t ELSE bs[j].first
<1> DEFINE b == [bs[i] EXCEPT !.first = t]
           r == [bs EXCEPT ![i] = b]
<1>1. b \in Block /\ b.last = bs[i].last /\ b.first = t
  BY BlockElements DEF Block
<1>2. /\ r \in Seq(Block) /\ Len(r) = Len(bs)
      /\ \A j \in 1..Len(bs) : r[j] = IF j = i THEN b ELSE bs[j]
  <2> HIDE DEF b
  <2> QED BY <1>1, ExceptSeq
<1>3. [bs EXCEPT ![i].first = t] = r
  OBVIOUS
<1> HIDE DEF b, r
<1> QED BY <1>1, <1>2, <1>3

\* A block of one TSN.
LEMMA OneTsn ==
    ASSUME NEW t \in Tsns
    PROVE  Range1(t) \in Block /\ Range1(t).first = t /\ Range1(t).last = t
BY DEF Range1, Block

\* AdditionalTsnBlocks::Add keeps the vector sorted without overlapping or
\* adjacent blocks, adds the TSN and nothing else, and its result tells whether
\* the TSN was new.
LEMMA AddProperties ==
    ASSUME NEW bs \in Seq(Block), NEW t \in Tsns, OrderedTo(bs, Len(bs))
    PROVE  /\ Add(bs, t) \in Seq(Block)
           /\ OrderedTo(Add(bs, t), Len(Add(bs, t)))
           /\ \A n \in Int : Covers(Add(bs, t), n) <=> Covers(bs, n) \/ n = t
           /\ Added(bs, t) <=> ~Covers(bs, t)
<1> DEFINE i == LowerBound(bs, t - 1)
           r == Add(bs, t)
           L == Len(bs)
<1>0. t \in Int /\ t - 1 \in Int
  BY TrackerAssumption DEF Tsns
<1>1. /\ i \in 1..(L + 1)
      /\ i <= L => bs[i].last >= t - 1
      /\ \A j \in 1..(i - 1) : bs[j].last < t - 1
  BY <1>0, LowerBoundIndex
<1>2. L \in Nat /\ Typed(bs, L) /\ \A j \in 1..L : bs[j].last \in Tsns
  BY BlockElements DEF Typed
<1>3. OrderedTo(bs, L)
  OBVIOUS
<1>4. \A b : \A n : Covers(b, n) <=> CoversTo(b, Len(b), n)
  BY DEF Covers, CoversTo
<1>5. Added(bs, t) <=> ~Within(bs, i, t)
  BY DEF Added
<1>6. /\ i > L => r = Append(bs, Range1(t))
      /\ Within(bs, i, t) => r = bs
      /\ i <= L /\ bs[i].last + 1 = t =>
           r = IF i + 1 <= L /\ t + 1 = bs[i + 1].first
               THEN RemoveAt([bs EXCEPT ![i].last = bs[i + 1].last], i + 1)
               ELSE [bs EXCEPT ![i].last = t]
      /\ i <= L /\ bs[i].first = t + 1 => r = [bs EXCEPT ![i].first = t]
      /\ i <= L /\ ~Within(bs, i, t) /\ bs[i].last + 1 # t /\ bs[i].first # t + 1
           => r = InsertAt(bs, i, Range1(t))
  BY <1>0, <1>1, <1>2, <1>3 DEF Add, Within, Typed, OrderedTo
<1>7. Within(bs, i, t) <=> CoversTo(bs, L, t)
  <2>1. Within(bs, i, t) => CoversTo(bs, L, t)
    BY <1>1, <1>2 DEF Within, CoversTo
  <2>2. ASSUME NEW k \in 1..L, bs[k].first <= t, t <= bs[k].last
        PROVE  Within(bs, i, t)
    <3> HIDE DEF i, L
    <3>1. i <= k
      BY <2>2, <1>0, <1>1, <1>2 DEF Typed
    <3>2. ~(i < k)
      BY <2>2, <1>0, <1>1, <1>2, <1>3 DEF Typed, OrderedTo
    <3>3. i = k
      BY <3>1, <3>2, <1>1, <1>2
    <3> QED BY <3>3, <2>2, <1>2 DEF Within, L
  <2> QED BY <2>1, <2>2 DEF CoversTo
<1>8. SUFFICES /\ r \in Seq(Block) /\ OrderedTo(r, Len(r))
               /\ \A n \in Int : CoversTo(r, Len(r), n) <=> CoversTo(bs, L, n) \/ n = t
  BY <1>4, <1>5, <1>7
<1> HIDE DEF i, r
<1>9. CASE i > L
  <2>1. /\ r \in Seq(Block) /\ Len(r) = L + 1
        /\ \A j \in 1..L : r[j] = bs[j]
        /\ r[L + 1] = Range1(t)
    BY <1>6, <1>9, OneTsn, AppendProperties
  <2> HIDE DEF L
  <2>2. i = L + 1
    BY <1>9, <1>1, <1>2
  <2>3. /\ r[i].first = t /\ r[i].last = t
        /\ \A j \in 1..(i - 1) : Same(r[j], bs[j])
        /\ \A j \in (i + 1)..(L + 1) : Same(r[j], bs[j - 1])
        /\ i <= L => t + 1 < bs[i].first
    BY <2>1, <2>2, <1>2, OneTsn DEF Same
  <2>4. Inserted(bs, r, L, i, t)
    BY <2>3, <1>1 DEF Inserted
  <2>5. /\ OrderedTo(r, L + 1)
        /\ \A n \in Int : CoversTo(r, L + 1, n) <=> CoversTo(bs, L, n) \/ n = t
    BY <2>4, <1>0, <1>2, <1>3, InsertBlock
  <2> QED BY <2>1, <2>5
<1>10. CASE Within(bs, i, t)
  BY <1>6, <1>7, <1>10, <1>3
<1>11. CASE i <= L /\ bs[i].last + 1 = t
  <2>0. i \in 1..L
    BY <1>11, <1>1, <1>2
  <2>1. CASE i + 1 <= L /\ t + 1 = bs[i + 1].first
    <3> DEFINE w == [bs EXCEPT ![i].last = bs[i + 1].last]
    <3>1. r = RemoveAt(w, i + 1)
      BY <1>6, <1>11, <2>1
    <3>2. i + 1 \in 1..L /\ bs[i + 1].last \in Tsns /\ i \in 1..(L - 1)
      BY <2>0, <2>1, <1>2
    <3>3. /\ w \in Seq(Block) /\ Len(w) = L
          /\ \A j \in 1..L :
               /\ w[j].first = bs[j].first
               /\ w[j].last = IF j = i THEN bs[i + 1].last ELSE bs[j].last
      BY <2>0, <3>2, LastReplaced
    <3> HIDE DEF w
    <3>4. /\ r \in Seq(Block) /\ Len(r) = L - 1
          /\ \A j \in 1..(L - 1) : r[j] = IF j < i + 1 THEN w[j] ELSE w[j + 1]
      BY <3>1, <3>2, <3>3, RemoveAtElements
    <3> HIDE DEF L
    <3>5. /\ \A j \in 1..(i - 1) : Same(r[j], bs[j])
          /\ r[i].first = bs[i].first /\ r[i].last = bs[i + 1].last
          /\ \A j \in (i + 1)..(L - 1) : Same(r[j], bs[j + 1])
      BY <3>3, <3>4, <3>2, <1>2 DEF Same
    <3>6. Merged(bs, r, L, i, t)
      BY <3>2, <3>5, <2>1, <1>11 DEF Merged
    <3>7. /\ OrderedTo(r, L - 1)
          /\ \A n \in Int : CoversTo(r, L - 1, n) <=> CoversTo(bs, L, n) \/ n = t
      BY <3>6, <1>0, <1>2, <1>3, MergeBlocks
    <3> QED BY <3>4, <3>7
  <2>2. CASE ~(i + 1 <= L /\ t + 1 = bs[i + 1].first)
    <3>1. /\ r \in Seq(Block) /\ Len(r) = L
          /\ \A j \in 1..L :
               /\ r[j].first = bs[j].first
               /\ r[j].last = IF j = i THEN t ELSE bs[j].last
      <4>1. r = [bs EXCEPT ![i].last = t]
        BY <1>6, <1>11, <2>2
      <4> QED BY <4>1, <2>0, LastReplaced
    <3> HIDE DEF L
    <3>2. ASSUME NEW k \in (i + 1)..L PROVE t + 1 < bs[k].first
      <4>1. i + 1 \in 1..L /\ t + 1 < bs[i + 1].first
        <5>1. i + 1 \in 1..L /\ i < i + 1
          BY <2>0, <1>2
        <5>2. bs[i].last + 1 < bs[i + 1].first /\ bs[i + 1].first # t + 1
          BY <5>1, <2>0, <2>2, <1>2, <1>3 DEF OrderedTo
        <5>3. bs[i + 1].first \in Int
          BY <5>1, <1>2 DEF Typed
        <5> QED BY <5>1, <5>2, <5>3, <1>0, <1>11
      <4>2. CASE k = i + 1
        BY <4>1, <4>2
      <4>3. CASE i + 1 < k
        <5>1. k \in 1..L
          BY <2>0, <1>2
        <5>2. /\ bs[i + 1].first <= bs[i + 1].last
              /\ bs[i + 1].last + 1 < bs[k].first
          BY <5>1, <4>1, <4>3, <1>3 DEF OrderedTo
        <5> QED BY <5>1, <5>2, <4>1, <1>0, <1>2 DEF Typed
      <4> QED BY <4>2, <4>3, <2>0, <1>2
    <3>3. \A j \in 1..L : j # i => Same(r[j], bs[j])
      BY <3>1 DEF Same
    <3>4. \/ t = bs[i].last + 1 /\ r[i].first = bs[i].first /\ r[i].last = t
          \/ t + 1 = bs[i].first /\ r[i].first = t /\ r[i].last = bs[i].last
      BY <3>1, <2>0, <1>11
    <3>5. Grown(bs, r, L, i, t)
      BY <3>2, <3>3, <3>4, <2>0, <1>1 DEF Grown
    <3>6. /\ OrderedTo(r, L)
          /\ \A n \in Int : CoversTo(r, L, n) <=> CoversTo(bs, L, n) \/ n = t
      BY <3>5, <1>0, <1>2, <1>3, GrowBlock
    <3> QED BY <3>1, <3>6
  <2> QED BY <2>1, <2>2
<1>12. CASE i <= L /\ ~Within(bs, i, t) /\ bs[i].last + 1 # t
  <2>0. i \in 1..L /\ t < bs[i].first
    <3> HIDE DEF L
    <3>1. i \in 1..L
      BY <1>12, <1>1, <1>2
    <3>2. bs[i].first \in Int /\ bs[i].last \in Int /\ bs[i].last >= t - 1
      BY <3>1, <1>1, <1>2, <1>12 DEF Typed
    <3>3. ~(bs[i].first <= t /\ t <= bs[i].last)
      BY <1>12 DEF Within, L
    <3> QED BY <3>1, <3>2, <3>3, <1>0, <1>12
  <2>1. CASE bs[i].first = t + 1
    <3>1. /\ r \in Seq(Block) /\ Len(r) = L
          /\ \A j \in 1..L :
               /\ r[j].last = bs[j].last
               /\ r[j].first = IF j = i THEN t ELSE bs[j].first
      <4>1. r = [bs EXCEPT ![i].first = t]
        BY <1>6, <1>12, <2>1
      <4> QED BY <4>1, <2>0, FirstReplaced
    <3> HIDE DEF L
    <3>2. ASSUME NEW k \in (i + 1)..L PROVE t + 1 < bs[k].first
      <4>1. k \in 1..L /\ i < k
        BY <2>0, <1>2
      <4>2. bs[i].first <= bs[i].last /\ bs[i].last + 1 < bs[k].first
        BY <4>1, <2>0, <1>3 DEF OrderedTo
      <4> QED BY <4>1, <4>2, <2>0, <2>1, <1>0, <1>2 DEF Typed
    <3>3. \A j \in 1..L : j # i => Same(r[j], bs[j])
      BY <3>1 DEF Same
    <3>4. \/ t = bs[i].last + 1 /\ r[i].first = bs[i].first /\ r[i].last = t
          \/ t + 1 = bs[i].first /\ r[i].first = t /\ r[i].last = bs[i].last
      BY <3>1, <2>0, <2>1
    <3>5. Grown(bs, r, L, i, t)
      BY <3>2, <3>3, <3>4, <2>0, <1>1 DEF Grown
    <3>6. /\ OrderedTo(r, L)
          /\ \A n \in Int : CoversTo(r, L, n) <=> CoversTo(bs, L, n) \/ n = t
      BY <3>5, <1>0, <1>2, <1>3, GrowBlock
    <3> QED BY <3>1, <3>6
  <2>2. CASE bs[i].first # t + 1
    <3>1. /\ r \in Seq(Block) /\ Len(r) = L + 1
          /\ \A j \in 1..(L + 1) :
               r[j] = IF j < i THEN bs[j]
                      ELSE IF j = i THEN Range1(t) ELSE bs[j - 1]
      <4>1. r = InsertAt(bs, i, Range1(t))
        BY <1>6, <1>12, <2>2
      <4>2. Range1(t) \in Block
        BY OneTsn
      <4> QED BY <4>1, <4>2, <2>0, InsertAtElements
    <3> HIDE DEF L
    <3>2. t + 1 < bs[i].first
      BY <2>0, <2>2, <1>0, <1>2 DEF Typed
    <3>3. /\ r[i].first = t /\ r[i].last = t
          /\ \A j \in 1..(i - 1) : Same(r[j], bs[j])
          /\ \A j \in (i + 1)..(L + 1) : Same(r[j], bs[j - 1])
      BY <3>1, <2>0, <1>2, OneTsn DEF Same
    <3>4. Inserted(bs, r, L, i, t)
      BY <3>2, <3>3, <1>1 DEF Inserted
    <3>5. /\ OrderedTo(r, L + 1)
          /\ \A n \in Int : CoversTo(r, L + 1, n) <=> CoversTo(bs, L, n) \/ n = t
      BY <3>4, <1>0, <1>2, <1>3, InsertBlock
    <3> QED BY <3>1, <3>5
  <2> QED BY <2>1, <2>2
<1> QED BY <1>9, <1>10, <1>11, <1>12, <1>1, <1>2

\* What is left of a vector of blocks from index k on.
LEMMA SuffixElements ==
    ASSUME NEW bs \in Seq(Block), NEW k \in 1..(Len(bs) + 1)
    PROVE  LET r == SubSeq(bs, k, Len(bs)) IN
           /\ r \in Seq(Block) /\ Len(r) = Len(bs) - k + 1
           /\ \A j \in 1..(Len(bs) - k + 1) : r[j] = bs[j + k - 1]
<1>1. /\ Len(bs) \in Nat /\ k \in Int /\ Len(bs) \in Int
      /\ \A i \in k..Len(bs) : bs[i] \in Block
  BY BlockElements
<1>2. /\ SubSeq(bs, k, Len(bs)) \in Seq(Block)
      /\ Len(SubSeq(bs, k, Len(bs))) = IF k <= Len(bs) THEN Len(bs) - k + 1 ELSE 0
      /\ \A i \in 1..(Len(bs) - k + 1) : SubSeq(bs, k, Len(bs))[i] = bs[k + i - 1]
  BY <1>1, SubSeqProperties
<1>3. \A i \in 1..(Len(bs) - k + 1) : k + i - 1 = i + k - 1
  BY <1>1
<1> QED BY <1>1, <1>2, <1>3

\* The cumulative ack c and the blocks B that acknowledging everything up to t
\* leaves of the blocks bs.
Advanced(bs, t, c, B) ==
    \E k : Reached(bs, Len(bs), k, t, c) /\ B = SubSeq(bs, k, Len(bs))

\* Moving the cumulative ack keeps the blocks sorted, leaves a gap before the
\* first one, and forgets nothing.
LEMMA AdvancedProperties ==
    ASSUME NEW bs \in Seq(Block), OrderedTo(bs, Len(bs)), NEW t \in Tsns,
           NEW c, NEW B, Advanced(bs, t, c, B)
    PROVE  /\ c \in Tsns /\ t <= c
           /\ B \in Seq(Block) /\ OrderedTo(B, Len(B))
           /\ \A j \in 1..Len(B) : c + 1 < B[j].first
           /\ \A n \in Int : n <= c \/ Covers(B, n) <=> n <= t \/ Covers(bs, n)
<1> DEFINE L == Len(bs)
<1>1. PICK k : Reached(bs, L, k, t, c) /\ B = SubSeq(bs, k, L)
  BY DEF Advanced
<1>2. L \in Nat /\ Typed(bs, L) /\ \A j \in 1..L : bs[j].last \in Tsns
  BY BlockElements DEF Typed
<1>3. t \in Int /\ \A x \in Tsns : x \in Int
  BY TrackerAssumption DEF Tsns
<1>4. c \in Tsns /\ t <= c /\ k \in 1..(L + 1)
  BY <1>1, <1>2 DEF Reached
<1>5. /\ B \in Seq(Block) /\ Len(B) = L - k + 1
      /\ \A j \in 1..(L - k + 1) : B[j] = bs[j + k - 1]
  BY <1>1, <1>4, SuffixElements
<1>6. \A j \in 1..(L - k + 1) : Same(B[j], bs[j + k - 1])
  BY <1>5 DEF Same
<1>7. OrderedTo(bs, L)
  OBVIOUS
<1> HIDE DEF L
<1>8. /\ OrderedTo(B, L - k + 1)
      /\ \A j \in 1..(L - k + 1) : c + 1 < B[j].first
      /\ \A n \in Int : n <= c \/ CoversTo(B, L - k + 1, n)
                          <=> n <= t \/ CoversTo(bs, L, n)
  BY <1>1, <1>2, <1>3, <1>4, <1>6, <1>7, DropBlocks
<1>9. \A n \in Int : /\ Covers(B, n) <=> CoversTo(B, L - k + 1, n)
                     /\ Covers(bs, n) <=> CoversTo(bs, L, n)
  BY <1>5 DEF Covers, CoversTo, L
<1> QED BY <1>4, <1>5, <1>8, <1>9

\* Observe of the TSN after the cumulative ack.
LEMMA AdvanceStep ==
    ASSUME NEW bs \in Seq(Block), OrderedTo(bs, Len(bs)), NEW t \in Tsns,
           \A j \in 1..Len(bs) : t < bs[j].first,
           Advance(t, bs)
    PROVE  Advanced(bs, t, cum', blocks')
<1>0. /\ Len(bs) \in Nat /\ t \in Int
      /\ \A j \in 1..Len(bs) : bs[j].first \in Int /\ bs[j].last \in Int
  BY BlockElements, TrackerAssumption DEF Tsns
<1>1. CASE bs # <<>> /\ bs[1].first = t + 1
  <2>1. cum' = bs[1].last /\ blocks' = Tail(bs)
    BY <1>1 DEF Advance
  <2>2. Len(bs) \in Nat \ {0}
    BY <1>1, EmptySeq
  <2>3. blocks' = SubSeq(bs, 2, Len(bs))
    BY <2>1, <1>1, TailIsSubSeq
  <2>4. Reached(bs, Len(bs), 2, t, cum')
    BY <2>1, <2>2, <1>0, <1>1 DEF Reached, OrderedTo
  <2> QED BY <2>3, <2>4 DEF Advanced
<1>2. CASE ~(bs # <<>> /\ bs[1].first = t + 1)
  <2>1. cum' = t /\ blocks' = bs
    BY <1>2 DEF Advance
  <2>2. bs = SubSeq(bs, 1, Len(bs))
    BY SubSeqFull
  <2>3. ASSUME NEW j \in 1..Len(bs) PROVE t + 1 < bs[j].first
    <3>1. 1 \in 1..Len(bs) /\ bs # <<>>
      BY <1>0, EmptySeq
    <3>2. t + 1 < bs[1].first
      BY <3>1, <1>0, <1>2
    <3>3. CASE j > 1
      <4>1. bs[1].first <= bs[1].last /\ bs[1].last + 1 < bs[j].first
        BY <3>1, <3>3 DEF OrderedTo
      <4> QED BY <4>1, <3>1, <3>2, <1>0
    <3> QED BY <3>2, <3>3
  <2>4. Reached(bs, Len(bs), 1, t, cum')
    BY <2>1, <2>3, <1>0 DEF Reached
  <2> QED BY <2>1, <2>2, <2>4 DEF Advanced
<1> QED BY <1>1, <1>2

\* HandleForwardTsn: EraseTo may leave an empty first block (one that ended at
\* t), which Advance always consumes.
LEMMA ForwardStep ==
    ASSUME NEW bs \in Seq(Block), OrderedTo(bs, Len(bs)), NEW t \in Tsns,
           Advance(t, EraseTo(bs, t))
    PROVE  Advanced(bs, t, cum', blocks')
<1> DEFINE L == Len(bs)
           i == LowerBound(bs, t)
           rest == SubSeq(bs, i, L)
           Pair == [first : Int, last : Tsns]
<1>0. /\ L \in Nat /\ t \in Int
      /\ \A j \in 1..L : /\ bs[j].first \in Int /\ bs[j].last \in Int
                         /\ bs[j].last \in Tsns
  BY BlockElements, TrackerAssumption DEF Tsns
<1>1. /\ i \in 1..(L + 1)
      /\ i <= L => bs[i].last >= t
      /\ \A j \in 1..(i - 1) : bs[j].last < t
  BY <1>0, LowerBoundIndex
<1>2. /\ rest \in Seq(Block) /\ Len(rest) = L - i + 1
      /\ \A j \in 1..(L - i + 1) : rest[j] = bs[j + i - 1]
  BY <1>1, SuffixElements
<1>3. /\ \A j \in 1..L : bs[j].first <= bs[j].last
      /\ \A j, k \in 1..L : j < k => bs[j].last + 1 < bs[k].first
  BY DEF OrderedTo
<1>4. EraseTo(bs, t) = IF Within(bs, i, t) THEN [rest EXCEPT ![1].first = t + 1]
                       ELSE rest
  BY DEF EraseTo
<1>5. Block \subseteq Pair
  BY TrackerAssumption DEF Block, Tsns
<1> HIDE DEF i, rest
\* The cumulative ack moves to the end of block i.
<1>6. ASSUME i <= L, bs[i].first <= t + 1,
             cum' = bs[i].last, blocks' = SubSeq(bs, i + 1, L)
      PROVE  Advanced(bs, t, cum', blocks')
  <2> HIDE DEF L
  <2>0. i \in 1..L /\ (i + 1) - 1 = i /\ i + 1 \in 1..(L + 1)
    BY <1>6, <1>0, <1>1
  <2>1. \A j \in 1..i : bs[j].last <= bs[i].last
    BY <2>0, <1>0, <1>1
  <2>2. \A j \in (i + 1)..L : bs[i].last + 1 < bs[j].first
    BY <2>0, <1>0, <1>3
  <2>3. Reached(bs, L, i + 1, t, cum')
    BY <2>0, <2>1, <2>2, <1>1, <1>6 DEF Reached
  <2> QED BY <2>3, <1>6 DEF Advanced, L
<1>7. CASE Within(bs, i, t)
  <2>1. i \in 1..L /\ bs[i].first <= t /\ i <= L
    BY <1>0, <1>1, <1>7 DEF Within
  <2>2. /\ rest \in Seq(Pair) /\ 1 \in 1..Len(rest) /\ rest[1] = bs[i]
        /\ Len(rest) \in Nat
    <3>1. 1 \in 1..(L - i + 1) /\ 1 + i - 1 = i /\ Len(rest) \in Nat
      BY <2>1, <1>0, <1>2
    <3>2. rest \in Seq(Pair)
      BY <1>2, <1>5, SeqMonotonic
    <3> QED BY <3>1, <3>2, <1>2
  <2> DEFINE b == [rest[1] EXCEPT !.first = t + 1]
             e == [rest EXCEPT ![1] = b]
  <2>3. b \in Pair /\ b.first = t + 1 /\ b.last = bs[i].last
    <3>1. rest[1] \in Pair
      BY <2>2, ElementOfSeq
    <3> QED BY <3>1, <2>2, <1>0
  <2>4. EraseTo(bs, t) = e
    BY <1>4, <1>7
  <2> HIDE DEF b, Pair
  <2>5. /\ e \in Seq(Pair) /\ Len(e) = Len(rest)
        /\ \A j \in 1..Len(rest) : e[j] = IF j = 1 THEN b ELSE rest[j]
    BY <2>2, <2>3, ExceptSeq
  <2> HIDE DEF e
  <2>6. e # <<>> /\ e[1].first = t + 1 /\ e[1].last = bs[i].last
    <3>1. e # <<>>
      BY <2>2, <2>5, EmptySeq
    <3> QED BY <3>1, <2>2, <2>3, <2>5
  <2>7. cum' = bs[i].last /\ blocks' = Tail(e)
    BY <2>4, <2>6 DEF Advance
  <2>8. Tail(e) = SubSeq(bs, i + 1, L)
    <3> DEFINE d == SubSeq(bs, i + 1, L)
    <3>1. /\ d \in Seq(Block) /\ Len(d) = L - i
          /\ \A j \in 1..(L - i) : d[j] = bs[j + (i + 1) - 1]
      <4>1. i + 1 \in 1..(L + 1) /\ L - (i + 1) + 1 = L - i
        BY <2>1, <1>0
      <4> HIDE DEF d
      <4> QED BY <4>1, SuffixElements DEF d
    <3>2. /\ Tail(e) \in Seq(Pair) /\ Len(Tail(e)) = Len(e) - 1
          /\ \A j \in 1..Len(Tail(e)) : Tail(e)[j] = e[j + 1]
      BY <2>5, <2>6, HeadTailProperties
    <3> HIDE DEF d, L
    <3>3. d \in Seq(Pair)
      BY <3>1, <1>5, SeqMonotonic
    <3>4. Len(Tail(e)) = Len(d)
      BY <3>1, <3>2, <2>5, <1>2, <2>1, <1>0
    <3>5. ASSUME NEW j \in 1..Len(d) PROVE Tail(e)[j] = d[j]
      <4>1. /\ j + 1 \in 1..Len(rest) /\ j + 1 # 1 /\ j \in 1..(L - i)
            /\ j + 1 \in 1..(L - i + 1)
            /\ (j + 1) + i - 1 = j + (i + 1) - 1
        BY <3>1, <1>2, <2>1, <1>0
      <4>2. Tail(e)[j] = rest[j + 1]
        BY <4>1, <3>2, <3>4, <2>5
      <4> QED BY <4>1, <4>2, <3>1, <1>2
    <3>6. \A j \in 1..Len(Tail(e)) : Tail(e)[j] = d[j]
      BY <3>4, <3>5
    <3>7. Tail(e) = d
      BY <3>2, <3>3, <3>4, <3>6, SeqEqual
    <3> QED BY <3>7 DEF d, L
  <2> QED BY <2>1, <2>7, <2>8, <1>0, <1>6
<1>8. CASE ~Within(bs, i, t)
  <2>1. Advance(t, rest)
    BY <1>4, <1>8
  <2>2. CASE i > L
    <3>1. rest = <<>> /\ i = L + 1
      BY <2>2, <1>0, <1>1, <1>2, EmptySeq
    <3>2. cum' = t /\ blocks' = rest
      BY <2>1, <3>1 DEF Advance
    <3>3. Reached(bs, L, i, t, cum')
      BY <3>1, <3>2, <1>0, <1>1 DEF Reached
    <3> QED BY <3>2, <3>3 DEF Advanced, rest
  <2>3. CASE i <= L
    <3>1. i \in 1..L /\ t < bs[i].first
      BY <2>3, <1>0, <1>1, <1>8 DEF Within
    <3>2. 1 \in 1..(L - i + 1) /\ 1 + i - 1 = i /\ Len(rest) # 0
      BY <3>1, <1>0, <1>2
    <3>3. rest # <<>> /\ rest[1] = bs[i]
      BY <3>2, <1>2, EmptySeq
    <3>4. CASE bs[i].first = t + 1
      <4>1. cum' = bs[i].last /\ blocks' = Tail(rest)
        BY <2>1, <3>3, <3>4 DEF Advance
      <4>2. Tail(rest) = SubSeq(bs, i + 1, L)
        <5>1. i \in 1..L /\ L \in i..L
          BY <3>1, <1>0
        <5> QED BY <5>1, HeadTailOfSubSeq DEF rest
      <4>3. bs[i].first <= t + 1
        BY <3>4, <1>0
      <4> QED BY <4>1, <4>2, <4>3, <2>3, <1>6
    <3>5. CASE bs[i].first # t + 1
      <4>1. cum' = t /\ blocks' = rest
        BY <2>1, <3>3, <3>5 DEF Advance
      <4>2. ASSUME NEW j \in i..L PROVE t + 1 < bs[j].first
        <5>1. j \in 1..L /\ (j = i \/ i < j)
          BY <3>1, <1>0
        <5>2. t + 1 < bs[i].first
          BY <3>1, <3>5, <1>0
        <5>3. CASE i < j
          <6>1. bs[i].first <= bs[i].last /\ bs[i].last + 1 < bs[j].first
            BY <5>1, <5>3, <3>1, <1>3
          <6> QED BY <6>1, <5>1, <5>2, <3>1, <1>0
        <5> QED BY <5>1, <5>2, <5>3
      <4>3. Reached(bs, L, i, t, cum')
        BY <4>1, <4>2, <3>1, <1>0, <1>1 DEF Reached
      <4> QED BY <4>1, <4>3 DEF Advanced, rest
    <3> QED BY <3>4, <3>5
  <2> QED BY <2>2, <2>3, <1>0, <1>1
<1> QED BY <1>7, <1>8

-----------------------------------------------------------------------------
(* The steps of the tracker *)

\* The representation invariant, as facts about the array and the TSNs covered.
LEMMA SortedMeans ==
    ASSUME TypeOK, BlocksSorted
    PROVE  /\ cum \in Int /\ OrderedTo(blocks, Len(blocks))
           /\ \A n \in Int : Covers(blocks, n)
                               => cum + 1 < n /\ n <= cum + MaxAccepted
<1>0. blocks \in Seq(Block) /\ cum \in Int
  BY TrackerAssumption DEF TypeOK
<1>1. \A j \in 1..Len(blocks) : blocks[j].first \in Int /\ blocks[j].last \in Int
  BY <1>0, BlockElements
<1>2. OrderedTo(blocks, Len(blocks))
  BY DEF BlocksSorted, OrderedTo
<1>3. ASSUME NEW n \in Int, NEW j \in 1..Len(blocks),
             blocks[j].first <= n, n <= blocks[j].last
      PROVE  cum + 1 < n /\ n <= cum + MaxAccepted
  <2>1. cum + 1 < blocks[j].first /\ blocks[j].last <= cum + MaxAccepted
    BY DEF BlocksSorted
  <2> QED BY <2>1, <1>0, <1>1, <1>3, TrackerAssumption
<1> QED BY <1>0, <1>2, <1>3 DEF Covers

\* The way back, for the blocks B after a step.
LEMMA SortedFrom ==
    ASSUME NEW B \in Seq(Block), NEW c \in Int, OrderedTo(B, Len(B)),
           \A n \in Int : Covers(B, n) => c + 1 < n /\ n <= c + MaxAccepted
    PROVE  /\ \A i \in 1..Len(B) : /\ c + 1 < B[i].first
                                   /\ B[i].first <= B[i].last
                                   /\ B[i].last <= c + MaxAccepted
           /\ \A i, j \in 1..Len(B) : i < j => B[i].last + 1 < B[j].first
<1>1. \A j \in 1..Len(B) : B[j].first \in Int /\ B[j].last \in Int
  BY BlockElements
<1>2. \A i \in 1..Len(B) : B[i].first <= B[i].last
  BY DEF OrderedTo
<1>3. \A i \in 1..Len(B) : Covers(B, B[i].first) /\ Covers(B, B[i].last)
  BY <1>1, <1>2 DEF Covers
<1> QED BY <1>1, <1>2, <1>3 DEF OrderedTo

\* A TSN in a block lies beyond a cumulative ack that all blocks lie beyond.
LEMMA CoveredBeyond ==
    ASSUME NEW B \in Seq(Block), NEW c \in Int, NEW n \in Int,
           \A j \in 1..Len(B) : c + 1 < B[j].first, Covers(B, n)
    PROVE  c + 1 < n
<1>1. PICK j \in 1..Len(B) : B[j].first <= n
  BY DEF Covers
<1>2. c + 1 < B[j].first /\ B[j].first \in Int
  BY BlockElements
<1> QED BY <1>1, <1>2

\* Moving the cumulative ack to t in a state that satisfies the invariant.
LEMMA AdvancedEffect ==
    ASSUME TypeOK, BlocksSorted, NEW t \in Tsns, cum < t,
           Advanced(blocks, t, cum', blocks')
    PROVE  /\ cum' \in 0..MaxTsn /\ blocks' \in Seq(Block) /\ BlocksSorted'
           /\ Received' = Received \cup 1..t
<1>0. blocks \in Seq(Block) /\ t \in Int /\ cum \in 0..MaxTsn /\ cum \in Int
      /\ \A x \in Tsns : x \in Int /\ x \in 0..MaxTsn
  BY TrackerAssumption DEF TypeOK, Tsns
<1>1. /\ OrderedTo(blocks, Len(blocks))
      /\ \A n \in Int : Covers(blocks, n)
                          => cum + 1 < n /\ n <= cum + MaxAccepted
  BY SortedMeans
<1>2. /\ cum' \in Tsns /\ t <= cum'
      /\ blocks' \in Seq(Block) /\ OrderedTo(blocks', Len(blocks'))
      /\ \A j \in 1..Len(blocks') : cum' + 1 < blocks'[j].first
      /\ \A n \in Int : n <= cum' \/ Covers(blocks', n)
                          <=> n <= t \/ Covers(blocks, n)
  BY <1>0, <1>1, AdvancedProperties
<1>3. ASSUME NEW n \in Int, Covers(blocks', n)
      PROVE  cum' + 1 < n /\ n <= cum' + MaxAccepted
  <2>1. cum' \in Int
    BY <1>0, <1>2
  <2>2. cum' + 1 < n
    BY <2>1, <1>2, <1>3, CoveredBeyond
  <2>3. n <= t \/ n <= cum + MaxAccepted
    BY <1>1, <1>2, <1>3
  <2> QED BY <2>1, <2>2, <2>3, <1>0, <1>2, TrackerAssumption
<1>4. BlocksSorted'
  BY <1>0, <1>2, <1>3, SortedFrom DEF BlocksSorted
<1>5. Received' = {n \in Tsns : n <= cum' \/ Covers(blocks', n)}
  BY DEF Received, Covers
<1>6. Received' = Received \cup 1..t
  <2>1. \A n \in Tsns : n <= cum => n <= t
    BY <1>0
  <2>2. \A n : n \in 1..t <=> n \in Tsns /\ n <= t
    BY <1>0, TrackerAssumption DEF Tsns
  <2> QED BY <2>1, <2>2, <1>0, <1>2, <1>5 DEF Received
<1> QED BY <1>0, <1>2, <1>4, <1>6

\* Observe records t and tells whether it is new.
LEMMA ObserveEffect ==
    ASSUME TypeOK, BlocksSorted, NEW t \in Tsns, NEW now \in BOOLEAN,
           Observe(t, now)
    PROVE  /\ cum' \in 0..MaxTsn /\ blocks' \in Seq(Block) /\ BlocksSorted'
           /\ Received' = Received \cup {t}
           /\ fresh' = (t \notin Received)
<1>0. /\ blocks \in Seq(Block) /\ t \in Int /\ cum \in 0..MaxTsn /\ cum \in Int
      /\ \A x \in Tsns : x \in Int
  BY TrackerAssumption DEF TypeOK, Tsns
<1>1. /\ OrderedTo(blocks, Len(blocks))
      /\ \A n \in Int : Covers(blocks, n)
                          => cum + 1 < n /\ n <= cum + MaxAccepted
  BY SortedMeans
<1>2. /\ Add(blocks, t) \in Seq(Block)
      /\ OrderedTo(Add(blocks, t), Len(Add(blocks, t)))
      /\ \A n \in Int : Covers(Add(blocks, t), n) <=> Covers(blocks, n) \/ n = t
      /\ Added(blocks, t) <=> ~Covers(blocks, t)
  BY <1>0, <1>1, AddProperties
<1>3. fresh' = (t \notin Received)
  <2>1. fresh' = ~Duplicate(t) /\ Duplicate(t) \in BOOLEAN
    BY DEF Observe, Duplicate
  <2>2. t = cum + 1 => ~Covers(blocks, t) /\ ~(t <= cum)
    BY <1>0, <1>1
  <2>3. Duplicate(t) <=> t \in Received
    BY <2>2, <1>2 DEF Duplicate, Received
  <2> QED BY <2>1, <2>3
<1>4. CASE t <= cum
  <2>1. cum' = cum /\ blocks' = blocks
    BY <1>4 DEF Observe
  <2>2. t \in Received /\ Received' = Received
    BY <2>1, <1>4 DEF Received, Covers
  <2>3. BlocksSorted'
    BY <2>1 DEF BlocksSorted
  <2> QED BY <2>1, <2>2, <2>3, <1>0, <1>3
<1>5. CASE t = cum + 1
  <2>1. Advance(t, blocks)
    BY <1>0, <1>5 DEF Observe
  <2>2. \A j \in 1..Len(blocks) : t < blocks[j].first
    BY <1>5 DEF BlocksSorted
  <2>3. Advanced(blocks, t, cum', blocks')
    BY <2>1, <2>2, <1>0, <1>1, AdvanceStep
  <2>4. cum < t
    BY <1>0, <1>5
  <2>5. /\ cum' \in 0..MaxTsn /\ blocks' \in Seq(Block) /\ BlocksSorted'
        /\ Received' = Received \cup 1..t
    BY <2>3, <2>4, AdvancedEffect
  <2>6. 1..t \subseteq Received \cup {t} /\ t \in 1..t
    BY <1>0, <1>5, TrackerAssumption DEF Received, Tsns
  <2> QED BY <2>5, <2>6, <1>3
<1>6. CASE ~(t <= cum) /\ t # cum + 1
  <2>1. cum' = cum /\ blocks' = Add(blocks, t)
    BY <1>6 DEF Observe
  <2>2. t - cum <= MaxAccepted
    BY DEF Observe, IsTSNValid
  <2>3. ASSUME NEW n \in Int, Covers(blocks', n)
        PROVE  cum' + 1 < n /\ n <= cum' + MaxAccepted
    <3>1. Covers(blocks, n) \/ n = t
      BY <2>1, <2>3, <1>2
    <3>2. cum + 1 < t /\ t <= cum + MaxAccepted
      BY <2>2, <1>0, <1>6, TrackerAssumption
    <3> QED BY <3>1, <3>2, <2>1, <1>1
  <2>4. BlocksSorted'
    BY <2>1, <2>3, <1>0, <1>2, SortedFrom DEF BlocksSorted
  <2>5. Received' = {n \in Tsns : n <= cum \/ Covers(Add(blocks, t), n)}
    BY <2>1 DEF Received, Covers
  <2>6. Received' = Received \cup {t}
    BY <2>5, <1>0, <1>2 DEF Received
  <2> QED BY <2>1, <2>4, <2>6, <1>0, <1>2, <1>3
<1> QED BY <1>4, <1>5, <1>6

\* HandleForwardTsn records everything up to t.
LEMMA ForwardEffect ==
    ASSUME TypeOK, BlocksSorted, NEW t \in Tsns, HandleForwardTsn(t)
    PROVE  /\ cum' \in 0..MaxTsn /\ blocks' \in Seq(Block) /\ BlocksSorted'
           /\ Received' = Received \cup 1..t
<1>0. /\ blocks \in Seq(Block) /\ t \in Int /\ cum \in 0..MaxTsn /\ cum \in Int
  BY TrackerAssumption DEF TypeOK, Tsns
<1>1. CASE t <= cum
  <2>1. cum' = cum /\ blocks' = blocks
    BY <1>1 DEF HandleForwardTsn
  <2>2. 1..t \subseteq Received
    BY <1>0, <1>1, TrackerAssumption DEF Received, Tsns
  <2>3. Received' = Received
    BY <2>1 DEF Received, Covers
  <2>4. BlocksSorted'
    BY <2>1 DEF BlocksSorted
  <2> QED BY <2>1, <2>2, <2>3, <2>4, <1>0
<1>2. CASE ~(t <= cum)
  <2>1. Advance(t, EraseTo(blocks, t))
    BY <1>2 DEF HandleForwardTsn
  <2>2. OrderedTo(blocks, Len(blocks))
    BY SortedMeans
  <2>3. Advanced(blocks, t, cum', blocks')
    BY <2>1, <2>2, <1>0, ForwardStep
  <2>4. cum < t
    BY <1>0, <1>2
  <2> QED BY <2>3, <2>4, AdvancedEffect
<1> QED BY <1>1, <1>2

\* Every other step leaves the received TSNs alone.
LEMMA UnchangedEffect ==
    ASSUME TypeOK, BlocksSorted, UNCHANGED <<cum, blocks>>
    PROVE  /\ cum' \in 0..MaxTsn /\ blocks' \in Seq(Block) /\ BlocksSorted'
           /\ Received' = Received
BY DEF TypeOK, BlocksSorted, Received, Covers

-----------------------------------------------------------------------------
(* Safety *)

\* What TypeOK says of the variables other than cum and blocks.
LEMMA TypesKept ==
    ASSUME TypeOK, [Next]_vars,
           cum' \in 0..MaxTsn, blocks' \in Seq(Block)
    PROVE  TypeOK'
<1> USE DEF TypeOK, AckState
<1>1. \A s, new \in AckState : TimerAfter(s, new) \in BOOLEAN
  BY DEF TimerAfter
<1>2. \A s \in AckState : Delay(s) \in AckState
  BY DEF Delay
<1>3. Claimed \in SUBSET Tsns
  BY DEF Claimed
<1>4. ASSUME NEW t \in Tsns, NEW now \in BOOLEAN, Observe(t, now) PROVE TypeOK'
  <2>1. ackState' \in AckState /\ timerOn' \in BOOLEAN
    BY <1>1, <1>2, <1>4 DEF Observe, UpdateAckState
  <2>2. dups' \in SUBSET Tsns /\ fresh' \in BOOLEAN
    BY <1>4 DEF Observe, Duplicate
  <2> QED BY <2>1, <2>2, <1>4 DEF Observe
<1>5. ASSUME NEW t \in Tsns, HandleForwardTsn(t) PROVE TypeOK'
  BY <1>1, <1>2, <1>5 DEF HandleForwardTsn, UpdateAckState
<1>6. ASSUME NEW t \in Tsns, RejectData(t) PROVE TypeOK'
  BY <1>6 DEF RejectData
<1>7. CASE PacketEnd
  BY <1>1, <1>3, <1>7 DEF PacketEnd, UpdateAckState, CreateSelectiveAck
<1>8. CASE SendBufferedPackets
  BY <1>1, <1>3, <1>8 DEF SendBufferedPackets, UpdateAckState, CreateSelectiveAck
<1>9. CASE OnDelayedAckTimerExpiry
  BY <1>3, <1>9 DEF OnDelayedAckTimerExpiry, CreateSelectiveAck
<1>10. CASE Handover
  BY <1>10 DEF Handover
<1>11. CASE UNCHANGED vars
  BY <1>11 DEF vars, tracker
<1> QED BY <1>4, <1>5, <1>6, <1>7, <1>8, <1>9, <1>10, <1>11 DEF Next

\* One step of the tracker: the representation invariant is kept, and what is
\* received changes by what arrived.
LEMMA StepEffect ==
    ASSUME TypeOK, BlocksSorted, [Next]_vars
    PROVE  /\ TypeOK' /\ BlocksSorted'
           /\ Received \subseteq Received'
<1> SUFFICES /\ cum' \in 0..MaxTsn /\ blocks' \in Seq(Block) /\ BlocksSorted'
             /\ Received \subseteq Received'
  BY TypesKept
<1>1. ASSUME NEW t \in Tsns, NEW now \in BOOLEAN, Observe(t, now)
      PROVE  /\ cum' \in 0..MaxTsn /\ blocks' \in Seq(Block) /\ BlocksSorted'
             /\ Received \subseteq Received'
  BY <1>1, ObserveEffect
<1>2. ASSUME NEW t \in Tsns, HandleForwardTsn(t)
      PROVE  /\ cum' \in 0..MaxTsn /\ blocks' \in Seq(Block) /\ BlocksSorted'
             /\ Received \subseteq Received'
  BY <1>2, ForwardEffect
<1>3. CASE UNCHANGED <<cum, blocks>>
  BY <1>3, UnchangedEffect
<1> QED
  BY <1>1, <1>2, <1>3
  DEF Next, RejectData, PacketEnd, SendBufferedPackets, OnDelayedAckTimerExpiry,
      Handover, vars, tracker

\* The initial state, with nothing received.
LEMMA InitSafe == Init => TypeOK /\ BlocksSorted
<1> SUFFICES ASSUME Init PROVE TypeOK /\ BlocksSorted
  OBVIOUS
<1>1. TypeOK
  <2>1. <<>> \in Seq(Block) /\ 0 \in 0..MaxTsn /\ FALSE \in BOOLEAN
    BY EmptySeq, TrackerAssumption
  <2> QED BY <2>1 DEF Init, TypeOK, AckState
<1>2. BlocksSorted
  BY DEF Init, BlocksSorted
<1> QED BY <1>1, <1>2

\* Every variable keeps its type, also across handovers.
THEOREM TypeCorrect == Spec => []TypeOK
<1>1. TypeOK /\ BlocksSorted /\ [Next]_vars => TypeOK' /\ BlocksSorted'
  BY StepEffect
<1> QED BY <1>1, InitSafe, PTL DEF Spec

\* AdditionalTsnBlocks holds a sorted vector of blocks that neither overlap nor
\* touch, with a gap after the cumulative ack, for every order in which DATA and
\* FORWARD-TSN chunks arrive and also across handovers.
THEOREM BlocksStaySorted == Spec => []BlocksSorted
<1>1. TypeOK /\ BlocksSorted /\ [Next]_vars => TypeOK' /\ BlocksSorted'
  BY StepEffect
<1> QED BY <1>1, InitSafe, PTL DEF Spec

\* The strengthening of OwedSackIsScheduled: a SACK that is owed is remembered in
\* ack_state_, kDelayed has its timer, and the end of a packet settles the
\* states that only exist inside one.
AckInv ==
    /\ owed => ackState # "Idle"
    /\ ackState = "Delayed" => timerOn
    /\ ~inPacket => ackState \in {"Idle", "Delayed"}

\* A SACK that is owed between packets has its timer running. A handover drops
\* the debt together with the timer.
THEOREM OwedSackStaysScheduled == Spec => []OwedSackIsScheduled
<1>1. Init => AckInv
  BY DEF Init, AckInv
<1>2. TypeOK /\ AckInv /\ [Next]_vars => AckInv'
  <2> SUFFICES ASSUME TypeOK, AckInv, [Next]_vars PROVE AckInv'
    OBVIOUS
  <2> USE DEF AckInv
  <2>1. \A s \in AckState : Delay(s) \in AckState \ {"Idle", "Delayed"}
    BY DEF Delay, AckState
  <2>2. ASSUME NEW t \in Tsns, NEW now \in BOOLEAN, Observe(t, now) PROVE AckInv'
    BY <2>1, <2>2 DEF Observe, UpdateAckState, TypeOK, AckState
  <2>3. ASSUME NEW t \in Tsns, HandleForwardTsn(t) PROVE AckInv'
    BY <2>1, <2>3 DEF HandleForwardTsn, UpdateAckState, TypeOK, AckState
  <2>4. ASSUME NEW t \in Tsns, RejectData(t) PROVE AckInv'
    BY <2>4 DEF RejectData
  <2>5. CASE PacketEnd
    <3>1. TimerAfter("BecomingDelayed", "Delayed") = TRUE
      BY DEF TimerAfter
    <3>2. CASE ackState = "BecomingDelayed"
      BY <2>5, <3>1, <3>2 DEF PacketEnd, UpdateAckState
    <3>3. CASE ackState = "Immediate"
      BY <2>5, <3>3 DEF PacketEnd, UpdateAckState, CreateSelectiveAck
    <3>4. CASE ackState \in {"Idle", "Delayed"}
      BY <2>5, <3>4 DEF PacketEnd
    <3> QED BY <3>2, <3>3, <3>4 DEF TypeOK, AckState
  <2>6. CASE SendBufferedPackets
    BY <2>6 DEF SendBufferedPackets, UpdateAckState, CreateSelectiveAck
  <2>7. CASE OnDelayedAckTimerExpiry
    BY <2>7 DEF OnDelayedAckTimerExpiry, CreateSelectiveAck
  <2>8. CASE Handover
    BY <2>8 DEF Handover
  <2>9. CASE UNCHANGED vars
    BY <2>9 DEF vars, tracker
  <2> QED BY <2>2, <2>3, <2>4, <2>5, <2>6, <2>7, <2>8, <2>9 DEF Next
<1>3. AckInv => OwedSackIsScheduled
  BY DEF AckInv, OwedSackIsScheduled
<1>4. TypeOK /\ BlocksSorted /\ [Next]_vars => TypeOK' /\ BlocksSorted'
  BY StepEffect
<1> QED BY <1>1, <1>2, <1>3, <1>4, InitSafe, PTL DEF Spec

-----------------------------------------------------------------------------
(* Acknowledgements and the refinement of ReceivedTsns. They need offsets    *)
(* that fit in the 16 bits of a gap ack block.                               *)

\* The cast to uint16_t keeps an offset below the modulus.
LEMMA OffsetFits ==
    ASSUME NEW m \in Nat \ {0}, NEW x \in 0..(m - 1)
    PROVE  x % m = x
OBVIOUS

\* A SACK acknowledges received TSNs only, and all up to the cumulative ack.
LEMMA ClaimedReceived ==
    ASSUME TypeOK, BlocksSorted, MaxAccepted < GapModulus
    PROVE  /\ Claimed \subseteq Received
           /\ \A n \in Tsns : n <= cum => n \in Claimed
<1>0. /\ blocks \in Seq(Block) /\ cum \in Int /\ Len(blocks) \in Nat
      /\ \A x \in Tsns : x \in Int
  BY BlockElements, TrackerAssumption DEF TypeOK, Tsns
<1>1. DOMAIN GapAckBlocks \subseteq 1..Len(blocks)
  BY <1>0, TrackerAssumption DEF GapAckBlocks
<1>2. ASSUME NEW i \in DOMAIN GapAckBlocks
      PROVE  /\ cum + GapAckBlocks[i].start = blocks[i].first
             /\ cum + GapAckBlocks[i].end = blocks[i].last
  <2>1. /\ blocks[i].first \in Int /\ blocks[i].last \in Int
        /\ cum + 1 < blocks[i].first /\ blocks[i].first <= blocks[i].last
        /\ blocks[i].last <= cum + MaxAccepted
    BY <1>0, <1>1, BlockElements DEF BlocksSorted
  <2>2. /\ blocks[i].first - cum \in 0..(GapModulus - 1)
        /\ blocks[i].last - cum \in 0..(GapModulus - 1)
    BY <2>1, <1>0, TrackerAssumption
  <2>3. /\ (blocks[i].first - cum) % GapModulus = blocks[i].first - cum
        /\ (blocks[i].last - cum) % GapModulus = blocks[i].last - cum
    BY <2>2, OffsetFits, TrackerAssumption
  <2>4. /\ GapAckBlocks[i].start = (blocks[i].first - cum) % GapModulus
        /\ GapAckBlocks[i].end = (blocks[i].last - cum) % GapModulus
    BY DEF GapAckBlocks
  <2> QED BY <2>1, <2>3, <2>4, <1>0
<1>3. \A n \in Claimed : n \in Received
  BY <1>1, <1>2 DEF Claimed, Received, Covers
<1> QED BY <1>3 DEF Claimed

\* No SACK acknowledges a TSN that has not been received, when no block can be
\* further from the cumulative ack than a gap ack block can say.
THEOREM SackStaysTruthful ==
    ASSUME MaxAccepted < GapModulus
    PROVE  Spec => []SackIsTruthful
<1> DEFINE Inv == TypeOK /\ BlocksSorted /\ SackIsTruthful
<1>1. Init => Inv
  BY InitSafe DEF Init, SackIsTruthful
<1>2. Inv /\ [Next]_vars => Inv'
  <2> SUFFICES ASSUME Inv, [Next]_vars PROVE Inv'
    OBVIOUS
  <2>1. TypeOK' /\ BlocksSorted' /\ Received \subseteq Received'
    BY StepEffect
  <2>2. Claimed \subseteq Received
    BY ClaimedReceived
  <2>3. claimed' = claimed \/ claimed' = Claimed
    BY DEF Next, Observe, HandleForwardTsn, RejectData, PacketEnd,
           SendBufferedPackets, OnDelayedAckTimerExpiry, CreateSelectiveAck,
           Handover, vars
  <2> QED BY <2>1, <2>2, <2>3 DEF SackIsTruthful
<1> QED BY <1>1, <1>2, PTL DEF Spec

\* Under the same condition DataTracker implements ReceivedTsns.
THEOREM Implementation ==
    ASSUME MaxAccepted < GapModulus
    PROVE  Spec => ImplementsReceivedTsns
<1> DEFINE Inv == TypeOK /\ BlocksSorted
<1>1. Init => Abstract!Init
  <2> SUFFICES ASSUME Init PROVE Abstract!Init
    OBVIOUS
  <2>1. \A n \in Tsns : ~(n <= cum) /\ ~Covers(blocks, n)
    BY TrackerAssumption DEF Init, Covers, Tsns
  <2> QED BY <2>1 DEF Init, Received, Abstract!Init
<1>2. Inv /\ [Next]_vars => [Abstract!Next]_(Abstract!vars)
  <2> SUFFICES ASSUME Inv, [Next]_vars
               PROVE  Abstract!Next \/ UNCHANGED Abstract!vars
    BY DEF Abstract!vars
  <2>0. Tsns = Abstract!Tsns
    BY DEF Tsns, Abstract!Tsns
  <2>1. ASSUME NEW t \in Tsns, NEW now \in BOOLEAN, Observe(t, now)
        PROVE  Abstract!Next
    <3>1. Received' = Received \cup {t} /\ fresh' = (t \notin Received)
      BY <2>1, ObserveEffect
    <3>2. claimed' = claimed
      BY <2>1 DEF Observe
    <3> QED BY <3>1, <3>2, <2>0 DEF Abstract!Next, Abstract!Observe
  <2>2. ASSUME NEW t \in Tsns, HandleForwardTsn(t)
        PROVE  Abstract!Next
    <3>1. Received' = Received \cup 1..t
      BY <2>2, ForwardEffect
    <3>2. claimed' = claimed /\ fresh' = fresh
      BY <2>2 DEF HandleForwardTsn
    <3> QED BY <3>1, <3>2, <2>0 DEF Abstract!Next, Abstract!Skip
  <2>3. ASSUME UNCHANGED <<cum, blocks, fresh>>, CreateSelectiveAck
        PROVE  Abstract!Next
    <3>1. Received' = Received /\ fresh' = fresh
      BY <2>3, UnchangedEffect
    <3>2. claimed' \in SUBSET Received
      BY <2>3, ClaimedReceived DEF CreateSelectiveAck
    <3>3. Abstract!Prefix(Received) \subseteq claimed'
      <4>1. SUFFICES ASSUME NEW n \in Received, 1..n \subseteq Received
                     PROVE  n <= cum
        BY <2>3, ClaimedReceived DEF CreateSelectiveAck, Abstract!Prefix, Received
      <4>2. n \in Tsns /\ n \in Int /\ cum \in Nat /\ cum + 1 \in Int
        BY TrackerAssumption DEF Received, Tsns, TypeOK
      <4>3. cum + 1 \notin Received
        BY <4>2, SortedMeans DEF Received
      <4> QED BY <4>1, <4>2, <4>3
    <3> QED BY <3>1, <3>2, <3>3 DEF Abstract!Next, Abstract!Acknowledge
  <2>4. ASSUME UNCHANGED <<cum, blocks, fresh, claimed>>
        PROVE  UNCHANGED Abstract!vars
    BY <2>4, UnchangedEffect DEF Abstract!vars
  <2>5. CASE PacketEnd
    BY <2>3, <2>4, <2>5 DEF PacketEnd
  <2>6. CASE SendBufferedPackets
    BY <2>3, <2>6 DEF SendBufferedPackets
  <2>7. CASE OnDelayedAckTimerExpiry
    BY <2>3, <2>7 DEF OnDelayedAckTimerExpiry
  <2>8. ASSUME NEW t \in Tsns, RejectData(t) PROVE UNCHANGED Abstract!vars
    BY <2>4, <2>8 DEF RejectData
  <2>9. CASE UNCHANGED vars
    BY <2>4, <2>9 DEF vars, tracker
  <2>10. CASE Handover
    BY <2>4, <2>10 DEF Handover
  <2> QED BY <2>1, <2>2, <2>5, <2>6, <2>7, <2>8, <2>9, <2>10 DEF Next
<1>3. Inv /\ [Next]_vars => Inv'
  BY StepEffect
<1>4. Init => Inv
  BY InitSafe
<1> QED
  BY <1>1, <1>2, <1>3, <1>4, PTL
  DEF Spec, ImplementsReceivedTsns, Abstract!Spec

=============================================================================
