------------------- MODULE RetransmissionQueueSafety_proof -------------------
(***************************************************************************)
(* What the sender of RetransmissionQueue may skip, and what the peer reads *)
(* of the messages, for every value of the constants: invariants on top of *)
(* QueueOK, one layer on the other.                                        *)
(***************************************************************************)
EXTENDS RetransmissionQueue_proof

-----------------------------------------------------------------------------
(* The order of the messages *)

\* The messages of the log l come in the order they were sent, each one as a run
\* of its fragments in order, perhaps with a placeholder at its end; h is the
\* fragment that comes next.
LogOK(l, h) ==
    /\ \A t \in 1..Len(l) :
         /\ l[t].msg <= h.msg
         /\ l[t].msg = h.msg => l[t].frag >= 1 /\ l[t].frag + (Len(l) + 1 - t) = h.frag
         /\ l[t].frag = Fragments[l[t].msg] => l[t].msg < h.msg
    /\ \A t, u \in 1..Len(l) : t < u =>
         /\ l[t].msg <= l[u].msg
         /\ l[t].msg = l[u].msg =>
              /\ l[t].frag >= 1 /\ l[t].frag # Fragments[l[t].msg]
              /\ l[u].frag # 0 => l[u].frag = l[t].frag + (u - t)
    /\ h.msg \in Messages => h.frag <= Fragments[h.msg]

LEMMA EntryFacts ==
    ASSUME NEW l \in Seq(Entry), NEW t \in 1..Len(l)
    PROVE  /\ l[t] \in Entry /\ l[t].msg \in Messages /\ l[t].msg \in Nat /\ l[t].frag \in Nat
           /\ Fragments[l[t].msg] \in Nat \ {0} /\ t \in Nat /\ Len(l) \in Nat
<1>1. l[t] \in Entry /\ Len(l) \in Nat /\ t \in Nat
  BY ElementOfSeq, LenProperties
<1>2. l[t].msg \in Messages /\ l[t].frag \in Nat
  BY <1>1 DEF Entry
<1>3. l[t].msg \in 1..Len(Fragments) /\ Fragments \in Seq(Nat \ {0}) /\ Len(Fragments) \in Nat
  BY <1>2, QueueAssumption, LenProperties DEF Messages
<1>4. Fragments[l[t].msg] \in Nat \ {0}
  BY <1>3, ElementOfSeq
<1> QED BY <1>1, <1>2, <1>3, <1>4

LEMMA FragmentsType ==
    ASSUME NEW m \in Messages
    PROVE  Fragments[m] \in Nat \ {0} /\ m \in Nat
<1>1. m \in 1..Len(Fragments) /\ Fragments \in Seq(Nat \ {0}) /\ Len(Fragments) \in Nat
  BY QueueAssumption, LenProperties DEF Messages
<1> QED BY <1>1, ElementOfSeq

\* Messages that expired in the send queue are passed over.
LEMMA LogSkips ==
    ASSUME NEW l \in Seq(Entry), NEW n \in Nat, NEW h \in HeadType(n), LogOK(l, h),
           h.frag = 1, NEW g \in HeadType(n), g.frag = 1, h.msg <= g.msg
    PROVE  LogOK(l, g)
<1>0. h.msg \in Nat /\ g.msg \in Nat
  BY DEF HeadType
<1>1. ASSUME NEW t \in 1..Len(l)
      PROVE  l[t].msg < g.msg
  <2>1. l[t].msg <= h.msg /\ (l[t].msg = h.msg =>
           l[t].frag >= 1 /\ l[t].frag + (Len(l) + 1 - t) = 1)
    BY DEF LogOK
  <2>2. l[t].msg \in Nat /\ l[t].frag \in Nat /\ t \in Nat /\ Len(l) \in Nat
    BY EntryFacts
  <2> QED BY <1>0, <2>1, <2>2
<1>2. g.msg \in Messages => g.frag <= Fragments[g.msg]
  BY FragmentsType
<1>3. \A t \in 1..Len(l) : l[t].msg <= g.msg /\ l[t].msg # g.msg /\ l[t].msg < g.msg
  BY <1>0, <1>1, EntryFacts
<1> QED BY <1>2, <1>3 DEF LogOK

\* The fragment h is added to the log, and g comes next.
LEMMA LogGrows ==
    ASSUME NEW l \in Seq(Entry), NEW n \in Nat, NEW h \in HeadType(n), LogOK(l, h),
           NEW k \in Seq(Entry), Len(k) = Len(l) + 1, \A t \in 1..Len(l) : k[t] = l[t],
           h.msg \in Messages, k[Len(l) + 1].msg = h.msg,
           NEW g \in HeadType(n),
           \/ /\ k[Len(l) + 1].frag = h.frag /\ h.frag # Fragments[h.msg]
              /\ g.msg = h.msg /\ g.frag = h.frag + 1
           \/ k[Len(l) + 1].frag \in {0, h.frag} /\ g.msg = h.msg + 1 /\ g.frag = 1
    PROVE  LogOK(k, g)
<1> DEFINE z == Len(l) + 1
<1>0. /\ Len(l) \in Nat /\ z \in Nat /\ h.msg \in Nat /\ h.frag \in Nat \ {0} /\ h.frag >= 1
      /\ g.msg \in Nat /\ Fragments[h.msg] \in Nat \ {0}
  BY LenProperties, FragmentsType DEF HeadType
<1>1. \A t \in 1..Len(k) : t = z \/ t \in 1..Len(l)
  BY <1>0
<1>2. ASSUME NEW t \in 1..Len(l)
      PROVE  /\ l[t].msg <= h.msg
             /\ l[t].msg = h.msg => l[t].frag >= 1 /\ l[t].frag + (z - t) = h.frag
             /\ l[t].frag = Fragments[l[t].msg] => l[t].msg < h.msg
             /\ k[t] = l[t] /\ l[t].msg \in Nat /\ l[t].frag \in Nat /\ t \in Nat /\ t < z
             /\ Fragments[l[t].msg] \in Nat \ {0}
  BY <1>0, EntryFacts DEF LogOK
<1> HIDE DEF z
<1>3. ASSUME NEW t \in 1..Len(k)
      PROVE  /\ k[t].msg <= g.msg
             /\ k[t].msg = g.msg => k[t].frag >= 1 /\ k[t].frag + (z + 1 - t) = g.frag
             /\ k[t].frag = Fragments[k[t].msg] => k[t].msg < g.msg
  <2>1. CASE t = z
    <3>1. k[t].msg = h.msg /\ (g.msg = h.msg => k[t].frag = h.frag)
      BY <1>0, <2>1 DEF z
    <3> QED BY <1>0, <2>1, <3>1 DEF z
  <2>2. CASE t \in 1..Len(l)
    <3> DEFINE m == l[t].msg
               f == l[t].frag
               F == Fragments[m]
    <3>1. /\ m <= h.msg /\ (m = h.msg => f >= 1 /\ f + (z - t) = h.frag) /\ (f = F => m < h.msg)
          /\ k[t].msg = m /\ k[t].frag = f /\ m \in Nat /\ f \in Nat /\ t \in Nat
          /\ Fragments[k[t].msg] = F
      BY <1>2, <2>2
    <3>2. g.msg = h.msg + 1 \/ (g.msg = h.msg /\ g.frag = h.frag + 1)
      BY <1>0
    <3> HIDE DEF m, f, F
    <3> QED BY <1>0, <3>1, <3>2
  <2> QED BY <1>1, <2>1, <2>2
<1>4. ASSUME NEW t \in 1..Len(k), NEW u \in 1..Len(k), t < u
      PROVE  /\ k[t].msg <= k[u].msg
             /\ k[t].msg = k[u].msg =>
                  /\ k[t].frag >= 1 /\ k[t].frag # Fragments[k[t].msg]
                  /\ k[u].frag # 0 => k[u].frag = k[t].frag + (u - t)
  <2>0. t \in 1..Len(l)
    BY <1>0, <1>4 DEF z
  <2>1. CASE u = z
    <3> DEFINE m == l[t].msg
               f == l[t].frag
               F == Fragments[m]
    <3>1. /\ m <= h.msg /\ (m = h.msg => f >= 1 /\ f + (z - t) = h.frag) /\ (f = F => m < h.msg)
          /\ k[t].msg = m /\ k[t].frag = f /\ m \in Nat /\ f \in Nat /\ t \in Nat
          /\ Fragments[k[t].msg] = F
      BY <1>2, <2>0
    <3>2. k[u].msg = h.msg /\ k[u].frag \in {0, h.frag}
      BY <1>0, <2>1 DEF z
    <3> HIDE DEF m, f, F
    <3>3. k[t].msg <= k[u].msg
      BY <3>1, <3>2
    <3>4. k[t].msg = k[u].msg => k[t].frag >= 1 /\ k[t].frag # Fragments[k[t].msg]
      BY <1>0, <3>1, <3>2
    <3>5. k[t].msg = k[u].msg /\ k[u].frag # 0 => k[u].frag = k[t].frag + (u - t)
      BY <1>0, <2>1, <3>1, <3>2
    <3> QED BY <3>3, <3>4, <3>5
  <2>2. CASE u \in 1..Len(l)
    BY <1>2, <1>4, <2>0, <2>2 DEF LogOK
  <2> QED BY <1>1, <2>1, <2>2
<1>5. g.msg \in Messages => g.frag <= Fragments[g.msg]
  <2>1. CASE g.msg = h.msg + 1 /\ g.frag = 1
    BY <2>1, FragmentsType
  <2>2. CASE g.msg = h.msg /\ g.frag = h.frag + 1 /\ h.frag # Fragments[h.msg]
    <3>1. h.frag <= Fragments[h.msg]
      BY DEF LogOK
    <3> QED BY <1>0, <2>2, <3>1
  <2> QED BY <2>1, <2>2
<1>6. \A t \in 1..Len(k) :
        /\ k[t].msg <= g.msg
        /\ k[t].msg = g.msg => k[t].frag >= 1 /\ k[t].frag + (Len(k) + 1 - t) = g.frag
        /\ k[t].frag = Fragments[k[t].msg] => k[t].msg < g.msg
  BY <1>3 DEF z
<1>7. \A t, u \in 1..Len(k) : t < u =>
         /\ k[t].msg <= k[u].msg
         /\ k[t].msg = k[u].msg =>
              /\ k[t].frag >= 1 /\ k[t].frag # Fragments[k[t].msg]
              /\ k[u].frag # 0 => k[u].frag = k[t].frag + (u - t)
  BY <1>4
<1> QED BY <1>5, <1>6, <1>7 DEF LogOK

-----------------------------------------------------------------------------
(* Abandoned messages *)

\* A message that may be lost, when those of e have expired.
Losable(m, e) == m \in e \/ MaxRetransmits[m] # NoLimit

\* Only a message that may be lost is abandoned. It is abandoned as a whole, and
\* no more of it is sent.
AbandonOK(l, it, h, e) ==
    /\ \A t \in DOMAIN it :
         it[t].life = "Abandoned" => Losable(l[t].msg, e) /\ l[t].msg < h.msg
    /\ \A t, u \in DOMAIN it :
         it[t].life = "Abandoned" /\ l[u].msg = l[t].msg => it[u].life = "Abandoned"

\* Messages of the log l that may be abandoned.
MayAbandon(ms, l, e) ==
    \A m \in ms : Losable(m, e) /\ \E t \in 1..Len(l) : l[t].msg = m

SafeOK == LogOK(log, head) /\ AbandonOK(log, item, head, expired)

\* What every step respects: TSNs keep their chunks, those assigned are of
\* messages not sent in full yet, and an abandoned chunk stays abandoned.
StepOK ==
    /\ cum <= cum' /\ Len(log) <= Len(log') /\ \A t \in 1..Len(log) : log'[t] = log[t]
    /\ head.msg <= head'.msg
    /\ \A t \in (Len(log) + 1)..Len(log') : head.msg <= log'[t].msg
    /\ \A t \in Outstanding : t > cum' /\ item[t].life = "Abandoned" => item'[t].life = "Abandoned"
    /\ expired \subseteq expired' /\ arrived \subseteq arrived' /\ resets \subseteq resets'

LEMMA AbandonKeeps ==
    ASSUME NEW c \in Nat, NEW l \in Seq(Entry), c <= Len(l),
           NEW it \in [(c + 1)..Len(l) -> Item], NEW rtx, NEW ms, NEW e,
           NEW n \in 0..Len(Fragments), NEW h \in HeadType(n), h.frag > 1 => h.msg <= n,
           AbandonAllFor(l, it, rtx, h, ms), LogOK(l, h), AbandonOK(l, it, h, e),
           MayAbandon(ms, l, e)
    PROVE  /\ LogOK(log', head') /\ AbandonOK(log', item', head', e)
           /\ Len(l) <= Len(log') /\ \A t \in 1..Len(l) : log'[t] = l[t]
           /\ h.msg <= head'.msg
           /\ \A t \in (Len(l) + 1)..Len(log') : h.msg <= log'[t].msg
           /\ \A t \in DOMAIN it : it[t].life = "Abandoned" => item'[t].life = "Abandoned"
<1>0. /\ Len(l) \in Nat /\ n \in Nat /\ DOMAIN it = (c + 1)..Len(l)
      /\ h.msg \in Nat /\ h.frag \in Nat \ {0} /\ h.msg <= n + 1
      /\ \A t \in 1..Len(l) : l[t].msg \in Nat
      /\ Len(Fragments) \in Nat
  BY LenProperties, EntryFacts, QueueAssumption DEF HeadType
<1>1. /\ log' \in Seq(Entry) /\ Len(l) <= Len(log') /\ Len(log') \in Nat
      /\ item' \in [(c + 1)..Len(log') -> Item] /\ head' \in HeadType(n)
      /\ AbandonShape(l, it, h, ms)
  BY AbandonEffect, LenProperties
<1>2. /\ \A t \in 1..Len(l) : log'[t] = l[t]
      /\ \A t \in DOMAIN it :
           item'[t].life = IF l[t].msg \in ms THEN "Abandoned" ELSE it[t].life
  BY <1>1 DEF AbandonShape
<1>3. ASSUME NEW t \in 1..Len(l), l[t].msg = h.msg PROVE h.frag > 1
  <2>1. l[t].frag >= 1 /\ l[t].frag + (Len(l) + 1 - t) = h.frag
    BY <1>3 DEF LogOK
  <2> QED BY <1>0, <2>1, EntryFacts
<1>4. \A m \in ms : m <= h.msg /\ m \in Nat /\ (m = h.msg => h.frag > 1)
  BY <1>0, <1>3 DEF LogOK, MayAbandon
<1>5. \A t \in DOMAIN it : t \in 1..Len(l) /\ t \in DOMAIN item'
  BY <1>0, <1>1
<1>6. CASE Len(log') = Len(l) /\ head' = h /\ ~(h.msg \in ms /\ h.frag > 1)
  <2>1. log' = l
    <3>1. Len(log') = Len(l) /\ \A i \in 1..Len(l) : log'[i] = l[i]
      BY <1>2, <1>6
    <3> QED BY <1>1, <3>1, SeqEqual
  <2>2. DOMAIN item' = DOMAIN it
    BY <1>0, <1>1, <1>6
  <2>3. \A m \in ms : m < h.msg
    BY <1>0, <1>4, <1>6
  <2>4. \A t \in DOMAIN item' :
           item'[t].life = "Abandoned" => Losable(l[t].msg, e) /\ l[t].msg < h.msg
    BY <1>2, <2>2, <2>3 DEF AbandonOK, MayAbandon
  <2>5. \A t, u \in DOMAIN item' :
           item'[t].life = "Abandoned" /\ l[u].msg = l[t].msg => item'[u].life = "Abandoned"
    BY <1>2, <2>2 DEF AbandonOK
  <2>6. AbandonOK(log', item', head', e)
    BY <1>6, <2>1, <2>4, <2>5 DEF AbandonOK
  <2>7. (Len(l) + 1)..Len(log') = {}
    BY <1>0, <1>6
  <2> QED BY <1>0, <1>1, <1>2, <1>6, <2>1, <2>6, <2>7
<1>7. CASE /\ h.msg \in ms /\ h.frag > 1
           /\ Len(log') = Len(l) + 1
           /\ log'[Len(l) + 1] = [msg |-> h.msg, frag |-> 0]
           /\ item'[Len(l) + 1] = Placeholder
           /\ head' = [msg |-> h.msg + 1, frag |-> 1]
  <2> DEFINE z == Len(l) + 1
  <2>1. /\ z \in Nat /\ log'[z].msg = h.msg /\ log'[z].frag = 0 /\ item'[z].life = "Abandoned"
        /\ head'.msg = h.msg + 1 /\ head'.frag = 1
    BY <1>0, <1>7 DEF Placeholder
  <2>2. h.msg \in Messages
    BY <1>0, <1>7 DEF Messages, HeadType
  <2>3. LogOK(log', head')
    BY <1>0, <1>1, <1>2, <1>7, <2>1, <2>2, LogGrows
  <2>4. \A t \in DOMAIN item' : t = z \/ t \in DOMAIN it
    BY <1>0, <1>1, <1>7
  <2> HIDE DEF z
  <2>5. ASSUME NEW t \in DOMAIN item'
        PROVE  /\ item'[t].life = "Abandoned" => Losable(log'[t].msg, e) /\ log'[t].msg < head'.msg
               /\ log'[t].msg \in ms => item'[t].life = "Abandoned"
               /\ log'[t].msg \notin ms =>
                    t \in DOMAIN it /\ item'[t].life = it[t].life /\ log'[t].msg = l[t].msg
    <3>1. CASE t = z
      <4>1. Losable(h.msg, e)
        BY <1>7 DEF MayAbandon
      <4> QED BY <1>0, <1>7, <2>1, <3>1, <4>1
    <3>2. CASE t \in DOMAIN it
      <4>1. log'[t] = l[t] /\ l[t].msg \in Nat
        BY <1>0, <1>2, <1>5, <3>2
      <4>2. item'[t].life = IF l[t].msg \in ms THEN "Abandoned" ELSE it[t].life
        BY <1>2, <3>2
      <4>3. it[t].life = "Abandoned" => Losable(l[t].msg, e) /\ l[t].msg < h.msg
        BY <3>2 DEF AbandonOK
      <4>4. l[t].msg \in ms => Losable(l[t].msg, e) /\ l[t].msg <= h.msg
        BY <1>4 DEF MayAbandon
      <4> QED BY <1>0, <2>1, <3>2, <4>1, <4>2, <4>3, <4>4
    <3> QED BY <2>4, <3>1, <3>2
  <2>6. ASSUME NEW t \in DOMAIN item', NEW u \in DOMAIN item',
               item'[t].life = "Abandoned", log'[u].msg = log'[t].msg
        PROVE  item'[u].life = "Abandoned"
    <3>1. CASE log'[t].msg \in ms
      BY <2>5, <2>6, <3>1
    <3>2. CASE log'[t].msg \notin ms
      BY <2>5, <2>6, <3>2 DEF AbandonOK
    <3> QED BY <3>1, <3>2
  <2>7. AbandonOK(log', item', head', e)
    BY <2>5, <2>6 DEF AbandonOK
  <2>8. \A t \in (Len(l) + 1)..Len(log') : h.msg <= log'[t].msg
    <3>1. \A t \in (Len(l) + 1)..Len(log') : t = z
      BY <1>0, <1>7 DEF z
    <3>2. h.msg <= log'[z].msg
      BY <1>0, <2>1
    <3> QED BY <3>1, <3>2
  <2>9. \A t \in DOMAIN it : it[t].life = "Abandoned" => item'[t].life = "Abandoned"
    BY <1>2
  <2>10. h.msg <= head'.msg
    BY <1>0, <2>1
  <2> QED BY <1>1, <1>2, <2>3, <2>7, <2>8, <2>9, <2>10
<1> QED BY <1>1, <1>6, <1>7 DEF AbandonShape

\* A chunk that was just sent is not abandoned.
LEMMA WithChunkSafe ==
    ASSUME QueueOK, SafeOK, HasData, NEW l, l = Append(log, NextHead)
    PROVE  /\ LogOK(l, AfterHead) /\ AbandonOK(l, WithChunk, AfterHead, expired)
           /\ l \in Seq(Entry) /\ Len(l) = Len(log) + 1 /\ head.msg <= AfterHead.msg
           /\ l[Len(log) + 1] = NextHead /\ \A t \in 1..Len(log) : l[t] = log[t]
           /\ head.msg <= NextHead.msg /\ NextHead.msg <= AfterHead.msg
           /\ AfterHead.msg = NextHead.msg => AfterHead.frag > 1
<1>0. /\ NextHead \in HeadType(sends) /\ NextHead \in Entry /\ NextHead.msg \in Messages
      /\ AfterHead \in HeadType(sends) /\ sends \in Nat /\ head \in HeadType(sends)
      /\ log \in Seq(Entry) /\ Len(log) \in Nat
      /\ NextHead.msg \in Nat /\ head.msg \in Nat /\ head.msg <= NextHead.msg
      /\ NextHead.frag \in Nat \ {0}
  BY HeadFacts, AfterHeadFacts, QueueFacts DEF HeadType
<1>1. /\ l \in Seq(Entry) /\ Len(l) = Len(log) + 1
      /\ l[Len(log) + 1] = NextHead /\ \A t \in 1..Len(log) : l[t] = log[t]
  BY <1>0, AppendProperties
<1>2. LogOK(log, NextHead)
  <2>1. CASE NextHead = head
    BY <2>1 DEF SafeOK
  <2>2. CASE NextHead.frag = 1 /\ head.frag = 1
    BY <1>0, <2>2, LogSkips DEF SafeOK
  <2> QED BY <2>1, <2>2, HeadFacts
<1>3. \/ /\ NextHead.frag = Fragments[NextHead.msg]
         /\ AfterHead.msg = NextHead.msg + 1 /\ AfterHead.frag = 1
      \/ /\ NextHead.frag # Fragments[NextHead.msg]
         /\ AfterHead.msg = NextHead.msg /\ AfterHead.frag = NextHead.frag + 1
  BY AfterHeadFacts
<1>4. LogOK(l, AfterHead)
  <2>1. l[Len(log) + 1].msg = NextHead.msg /\ l[Len(log) + 1].frag = NextHead.frag
    BY <1>1
  <2> QED BY <1>0, <1>1, <1>2, <1>3, <2>1, LogGrows
<1>5. NextHead.msg <= AfterHead.msg /\ (AfterHead.msg = NextHead.msg => AfterHead.frag > 1)
  BY <1>0, <1>3
<1>6. head.msg <= AfterHead.msg /\ AfterHead.msg \in Nat
  BY <1>0, <1>3
<1>7. AbandonOK(l, WithChunk, AfterHead, expired)
  <2> DEFINE z == Len(log) + 1
  <2>1. /\ DOMAIN WithChunk = Outstanding \cup {z} /\ WithChunk[z].life = "Active"
        /\ \A t \in Outstanding : WithChunk[t] = item[t] /\ l[t] = log[t] /\ log[t].msg \in Nat
        /\ l[z].msg = NextHead.msg
    BY <1>1, WithChunkFacts, QueueFacts, EntryFacts DEF InFlight
  <2>2. \A t \in Outstanding : item[t].life = "Abandoned" =>
           Losable(log[t].msg, expired) /\ log[t].msg < head.msg
    BY DEF SafeOK, AbandonOK, Outstanding
  <2>3. \A t, u \in Outstanding :
          item[t].life = "Abandoned" /\ log[u].msg = log[t].msg => item[u].life = "Abandoned"
    BY DEF SafeOK, AbandonOK, Outstanding
  <2> HIDE DEF z
  <2>4. ASSUME NEW t \in DOMAIN WithChunk, WithChunk[t].life = "Abandoned"
        PROVE  /\ t \in Outstanding /\ item[t].life = "Abandoned" /\ l[t] = log[t]
               /\ Losable(l[t].msg, expired)
               /\ l[t].msg < head.msg /\ l[t].msg < AfterHead.msg /\ l[t].msg # NextHead.msg
    <3>1. /\ t \in Outstanding /\ item[t].life = "Abandoned" /\ l[t] = log[t] /\ log[t].msg \in Nat
      BY <2>1, <2>4
    <3>2. Losable(log[t].msg, expired) /\ log[t].msg < head.msg
      BY <2>2, <3>1
    <3>3. log[t].msg < AfterHead.msg /\ log[t].msg # NextHead.msg
      BY <1>0, <1>6, <3>1, <3>2
    <3> QED BY <3>1, <3>2, <3>3
  <2>5. ASSUME NEW t \in DOMAIN WithChunk, NEW u \in DOMAIN WithChunk,
               WithChunk[t].life = "Abandoned", l[u].msg = l[t].msg
        PROVE  WithChunk[u].life = "Abandoned"
    <3>1. u \in Outstanding
      BY <2>1, <2>4, <2>5
    <3> QED BY <2>1, <2>3, <2>4, <2>5, <3>1
  <2> QED BY <2>4, <2>5 DEF AbandonOK
<1> QED BY <1>0, <1>1, <1>4, <1>5, <1>6, <1>7

-----------------------------------------------------------------------------
(* Every step keeps SafeOK *)

\* Steps that touch neither the log nor the items.
LEMMA CalmSafe ==
    ASSUME QueueOK, SafeOK, UNCHANGED <<cum, log, item>>, expired \subseteq expired',
           arrived \subseteq arrived', resets \subseteq resets',
           \/ head' = head
           \/ head.frag = 1 /\ head' \in HeadType(sends) /\ head'.frag = 1 /\ head.msg <= head'.msg
    PROVE  SafeOK' /\ StepOK
<1>0. head \in HeadType(sends) /\ head.msg \in Nat /\ sends \in Nat /\ head'.msg \in Nat
      /\ head.msg <= head'.msg /\ log \in Seq(Entry) /\ Len(log) \in Nat /\ cum \in Nat
  BY QueueFacts DEF HeadType
<1>1. LogOK(log, head')
  <2>1. LogOK(log, head)
    BY DEF SafeOK
  <2> QED BY <1>0, <2>1, LogSkips
<1>2. \A t \in DOMAIN item :
        item[t].life = "Abandoned" => Losable(log[t].msg, expired') /\ log[t].msg < head'.msg
  <2> SUFFICES ASSUME NEW t \in DOMAIN item, item[t].life = "Abandoned"
               PROVE  Losable(log[t].msg, expired') /\ log[t].msg < head'.msg
    OBVIOUS
  <2>1. Losable(log[t].msg, expired) /\ log[t].msg < head.msg
    BY DEF SafeOK, AbandonOK
  <2>2. log[t].msg \in Nat
    BY QueueFacts, EntryFacts DEF Outstanding
  <2>3. Losable(log[t].msg, expired')
    BY <2>1 DEF Losable
  <2> QED BY <1>0, <2>1, <2>2, <2>3
<1>3. AbandonOK(log', item', head', expired')
  BY <1>2 DEF SafeOK, AbandonOK
<1>4. (Len(log) + 1)..Len(log') = {}
  BY <1>0
<1>5. StepOK
  BY <1>0, <1>4 DEF StepOK
<1> QED BY <1>1, <1>3, <1>5 DEF SafeOK

LEMMA SimpleSafe ==
    ASSUME QueueOK, SafeOK,
           \/ Send \/ ResetStreams \/ LimitEnds \/ (\E m \in Messages : Expire(m)) \/ SendNothing
           \/ (\E t \in sent : ReceiveData(t)) \/ (\E f \in fwds : ReceiveForwardTsn(f))
           \/ (\E b \in resets : ReceiveResetRequest(b)) \/ UNCHANGED vars
    PROVE  SafeOK' /\ StepOK
<1>1. UNCHANGED <<cum, log, item>>
  BY DEF Send, ResetStreams, LimitEnds, Expire, SendNothing, ReceiveData, ReceiveForwardTsn,
         ReceiveResetRequest, vars, outstanding
<1>2. expired \subseteq expired'
  BY DEF Send, ResetStreams, LimitEnds, Expire, SendNothing, ReceiveData, ReceiveForwardTsn,
         ReceiveResetRequest, vars, client
<1>3. arrived \subseteq arrived'
  BY DEF Send, ResetStreams, LimitEnds, Expire, SendNothing, ReceiveData, ReceiveForwardTsn,
         ReceiveResetRequest, vars, peer
<1>4. resets \subseteq resets'
  BY DEF Send, ResetStreams, LimitEnds, Expire, SendNothing, ReceiveData, ReceiveForwardTsn,
         ReceiveResetRequest, BeginResetStreams, vars
<1>5. \/ head' = head
      \/ head.frag = 1 /\ head' \in HeadType(sends) /\ head'.frag = 1 /\ head.msg <= head'.msg
  <2>1. CASE SendNothing
    <3>1. head' \in {head, NextHead}
      BY <2>1 DEF SendNothing
    <3> QED BY <3>1, HeadFacts
  <2>2. CASE ~SendNothing
    BY <2>2 DEF Send, ResetStreams, LimitEnds, Expire, ReceiveData, ReceiveForwardTsn,
                ReceiveResetRequest, vars
  <2> QED BY <2>1, <2>2
<1> QED BY <1>1, <1>2, <1>3, <1>4, <1>5, CalmSafe

LEMMA RetransmitSafe ==
    ASSUME QueueOK, SafeOK, Retransmit
    PROVE  SafeOK' /\ StepOK
<1> DEFINE t == Min(toRtx)
           i == MarkAsRetransmitted(t, item[t])
<1>1. t \in toRtx /\ t \in Outstanding /\ item[t].life = "ToBeRetransmitted"
  <2>1. toRtx \subseteq Nat /\ toRtx # {}
    BY QueueFacts DEF Retransmit
  <2>2. t \in toRtx
    BY <2>1, MinOf
  <2> HIDE DEF t
  <2> QED BY <2>2, QueueFacts
<1> HIDE DEF t
<1>2. i.life = "Active"
  BY <1>1, QueueFacts, MarkEffect
<1>3. /\ item' = [item EXCEPT ![t] = i]
      /\ UNCHANGED <<cum, log, head, expired, arrived, resets>>
  BY DEF Retransmit, t, client, peer
<1> HIDE DEF i
<1>4. /\ DOMAIN item' = DOMAIN item
      /\ \A u \in DOMAIN item' : item'[u].life = "Abandoned" <=> item[u].life = "Abandoned"
  BY <1>1, <1>2, <1>3, QueueFacts
<1>5. AbandonOK(log', item', head', expired')
  BY <1>3, <1>4 DEF SafeOK, AbandonOK
<1>6. head.msg \in Nat /\ Len(log) \in Nat /\ cum \in Nat
  BY QueueFacts
<1>7. (Len(log) + 1)..Len(log') = {}
  BY <1>3, <1>6
<1>8. StepOK
  BY <1>3, <1>4, <1>6, <1>7 DEF StepOK, Outstanding
<1>9. LogOK(log', head')
  BY <1>3 DEF SafeOK
<1> QED BY <1>5, <1>8, <1>9 DEF SafeOK

LEMMA ProduceSafe ==
    ASSUME QueueOK, SafeOK, Produce
    PROVE  SafeOK' /\ StepOK
<1>0. /\ item' = WithChunk /\ log' = Append(log, NextHead) /\ head' = AfterHead /\ HasData
      /\ UNCHANGED <<cum, expired, resets, arrived>>
  BY DEF Produce, client, peer
<1>1. /\ LogOK(log', AfterHead) /\ AbandonOK(log', WithChunk, AfterHead, expired)
      /\ Len(log') = Len(log) + 1 /\ head.msg <= AfterHead.msg
      /\ log'[Len(log) + 1] = NextHead /\ \A t \in 1..Len(log) : log'[t] = log[t]
      /\ head.msg <= NextHead.msg
  BY <1>0, WithChunkSafe
<1>2. SafeOK'
  BY <1>0, <1>1 DEF SafeOK
<1>3. Len(log) \in Nat /\ cum \in Nat
  BY QueueFacts
<1>4. \A t \in (Len(log) + 1)..Len(log') : t = Len(log) + 1
  BY <1>1, <1>3
<1>5. \A t \in (Len(log) + 1)..Len(log') : head.msg <= log'[t].msg
  BY <1>1, <1>4
<1>6. \A t \in Outstanding : item'[t] = item[t]
  BY <1>0, WithChunkFacts
<1>7. Len(log) <= Len(log') /\ cum <= cum'
  BY <1>0, <1>1, <1>3
<1>8. StepOK
  BY <1>0, <1>1, <1>5, <1>6, <1>7 DEF StepOK
<1> QED BY <1>2, <1>8

LEMMA ProduceExpiredSafe ==
    ASSUME QueueOK, SafeOK, ProduceExpired
    PROVE  SafeOK' /\ StepOK
<1> DEFINE l == Append(log, head)
           ms == {head.msg}
           h == AfterHead
           it == WithChunk
<1>0. /\ HasData /\ NextHead = head /\ head.msg \in expired
      /\ it \in [(cum + 1)..Len(l) -> Item]
      /\ AbandonAllFor(l, it, toRtx, h, ms)
      /\ UNCHANGED <<cum, expired, resets, arrived>>
  BY ProduceExpiredFacts DEF ProduceExpired, client, peer
<1>1. /\ LogOK(l, h) /\ AbandonOK(l, it, h, expired)
      /\ l \in Seq(Entry) /\ Len(l) = Len(log) + 1 /\ head.msg <= h.msg
      /\ l[Len(log) + 1] = head /\ \A t \in 1..Len(log) : l[t] = log[t]
  BY <1>0, WithChunkSafe
<1>2. /\ h \in HeadType(sends) /\ (h.frag > 1 => h.msg <= sends)
      /\ cum \in Nat /\ sends \in 0..Len(Fragments) /\ Len(log) \in Nat /\ cum <= Len(log)
      /\ head.msg \in Nat /\ h.msg \in Nat
  BY <1>0, AfterHeadFacts, QueueFacts DEF HeadType
<1>3. MayAbandon(ms, l, expired)
  <2>1. Len(log) + 1 \in 1..Len(l)
    BY <1>1, <1>2
  <2> QED BY <1>0, <1>1, <2>1 DEF Losable, MayAbandon
<1>4. \A t \in Outstanding : it[t] = item[t] /\ t \in DOMAIN it
  BY <1>0, <1>1, <1>2, WithChunkFacts, QueueFacts
<1>5. cum <= Len(l)
  BY <1>1, <1>2
<1> HIDE DEF l, ms, h, it
<1>6. /\ LogOK(log', head') /\ AbandonOK(log', item', head', expired)
      /\ Len(l) <= Len(log') /\ \A t \in 1..Len(l) : log'[t] = l[t]
      /\ h.msg <= head'.msg
      /\ \A t \in (Len(l) + 1)..Len(log') : h.msg <= log'[t].msg
      /\ \A t \in DOMAIN it : it[t].life = "Abandoned" => item'[t].life = "Abandoned"
  <2>1. /\ cum \in Nat /\ l \in Seq(Entry) /\ it \in [(cum + 1)..Len(l) -> Item]
        /\ sends \in 0..Len(Fragments) /\ h \in HeadType(sends)
        /\ (h.frag > 1 => h.msg <= sends) /\ AbandonAllFor(l, it, toRtx, h, ms)
        /\ LogOK(l, h) /\ AbandonOK(l, it, h, expired)
    BY <1>0, <1>1, <1>2
  <2> QED BY <1>3, <1>5, <2>1, AbandonKeeps
<1>7. SafeOK'
  BY <1>0, <1>6 DEF SafeOK
<1>8. QueueOK'
  BY ProduceExpiredQueueOK
<1>9. log' \in Seq(Entry) /\ Len(log') \in Nat /\ head'.msg \in Nat
  BY <1>8, LenProperties DEF QueueOK, CoreType, HeadType
<1>10. ASSUME NEW t \in (Len(log) + 1)..Len(log') PROVE head.msg <= log'[t].msg
  <2>0. log'[t].msg \in Nat
    <3>1. t \in 1..Len(log')
      BY <1>2, <1>9
    <3> QED BY <1>9, <3>1, EntryFacts
  <2>1. CASE t = Len(log) + 1
    <3>1. t \in 1..Len(l)
      BY <1>1, <1>2, <2>1
    <3>2. log'[t] = head
      BY <1>1, <1>6, <2>1, <3>1
    <3> QED BY <1>2, <3>2
  <2>2. CASE t # Len(log) + 1
    <3>1. t \in (Len(l) + 1)..Len(log')
      BY <1>1, <1>2, <1>9, <2>2
    <3>2. h.msg <= log'[t].msg
      BY <1>6, <3>1
    <3> QED BY <1>1, <1>2, <2>0, <3>2
  <2> QED BY <2>1, <2>2
<1>11. Len(log) <= Len(log') /\ head.msg <= head'.msg /\ cum <= cum'
  BY <1>0, <1>1, <1>2, <1>6, <1>9
<1>12. \A t \in 1..Len(log) : log'[t] = log[t]
  <2>1. \A t \in 1..Len(log) : t \in 1..Len(l)
    BY <1>1, <1>2
  <2> QED BY <1>1, <1>6, <2>1
<1>13. \A t \in Outstanding : item[t].life = "Abandoned" => item'[t].life = "Abandoned"
  BY <1>4, <1>6
<1>14. StepOK
  BY <1>0, <1>10, <1>11, <1>12, <1>13 DEF StepOK
<1> QED BY <1>7, <1>14

\* AbandonAllFor for items in which the same chunks are abandoned as before.
LEMMA AbandonSafe ==
    ASSUME QueueOK, SafeOK, NEW it, NEW rtx, NEW ms, cum' \in Nat, cum <= cum', cum' <= Len(log),
           it \in [(cum' + 1)..Len(log) -> Item],
           AbandonAllFor(log, it, rtx, head, ms),
           \A t \in (cum' + 1)..Len(log) : it[t].life = "Abandoned" <=> item[t].life = "Abandoned",
           MayAbandon(ms, log, expired),
           expired' = expired, arrived' = arrived, resets \subseteq resets'
    PROVE  SafeOK' /\ StepOK
<1> DEFINE c == cum'
           D == (c + 1)..Len(log)
           e == expired
<1>0. /\ log \in Seq(Entry) /\ sends \in 0..Len(Fragments) /\ head \in HeadType(sends)
      /\ (head.frag > 1 => head.msg <= sends) /\ Len(log) \in Nat /\ LogOK(log, head)
      /\ cum \in Nat
  BY QueueFacts DEF SafeOK
<1>1. DOMAIN it = D /\ D \subseteq Outstanding
  BY <1>0, QueueFacts
<1>2. AbandonOK(log, it, head, e)
  <2>1. \A t \in D : it[t].life = "Abandoned" <=> item[t].life = "Abandoned"
    OBVIOUS
  <2>2. AbandonOK(log, item, head, e)
    BY DEF SafeOK
  <2> HIDE DEF D
  <2> QED BY <1>1, <2>1, <2>2 DEF AbandonOK, Outstanding
<1>3. \A t \in Outstanding : t > c => t \in DOMAIN it /\ t \in D
  BY <1>0, <1>1, QueueFacts
<1>4. c \in Nat /\ c <= Len(log) /\ it \in [(c + 1)..Len(log) -> Item]
  OBVIOUS
<1>5. MayAbandon(ms, log, e)
  OBVIOUS
<1> HIDE DEF c, e
<1>6. /\ LogOK(log', head') /\ AbandonOK(log', item', head', e)
      /\ Len(log) <= Len(log') /\ \A t \in 1..Len(log) : log'[t] = log[t]
      /\ head.msg <= head'.msg
      /\ \A t \in (Len(log) + 1)..Len(log') : head.msg <= log'[t].msg
      /\ \A t \in DOMAIN it : it[t].life = "Abandoned" => item'[t].life = "Abandoned"
  <2>1. /\ log \in Seq(Entry) /\ sends \in 0..Len(Fragments) /\ head \in HeadType(sends)
        /\ (head.frag > 1 => head.msg <= sends) /\ LogOK(log, head)
        /\ AbandonAllFor(log, it, rtx, head, ms)
    BY <1>0
  <2> QED BY <1>2, <1>4, <1>5, <2>1, AbandonKeeps
<1>7. SafeOK'
  BY <1>6 DEF SafeOK, e
<1>8. \A t \in Outstanding : t > c /\ item[t].life = "Abandoned" => item'[t].life = "Abandoned"
  BY <1>3, <1>6
<1>9. StepOK
  BY <1>6, <1>8 DEF StepOK, c
<1> QED BY <1>7, <1>9

LEMMA SendControlSafe ==
    ASSUME QueueOK, SafeOK, SendControl
    PROVE  SafeOK' /\ StepOK
<1>1. /\ UNCHANGED <<cum, expired, arrived>> /\ resets \subseteq resets'
      /\ \/ UNCHANGED <<log, item, toRtx, head>>
         \/ AbandonAllFor(log, item, toRtx, head, ExpiredMessages)
  BY SendControlFacts
<1>2. CASE UNCHANGED <<log, item, toRtx, head>>
  BY <1>1, <1>2, CalmSafe
<1>3. CASE AbandonAllFor(log, item, toRtx, head, ExpiredMessages)
  <2> DEFINE ms == ExpiredMessages
  <2>1. MayAbandon(ms, log, expired)
    <3>1. \A m \in ms : m \in expired /\ \E t \in Outstanding : log[t].msg = m
      BY DEF ExpiredMessages, IsExpired, MessageOf
    <3> QED BY <3>1, QueueFacts DEF Losable, MayAbandon
  <2> HIDE DEF ms
  <2>2. /\ cum' \in Nat /\ cum <= cum' /\ cum' <= Len(log)
        /\ item \in [(cum' + 1)..Len(log) -> Item]
    BY <1>1, QueueFacts
  <2>3. AbandonAllFor(log, item, toRtx, head, ms)
    BY <1>3 DEF ms
  <2> QED BY <1>1, <2>1, <2>2, <2>3, AbandonSafe
<1> QED BY <1>1, <1>2, <1>3

LEMMA RtxTimerSafe ==
    ASSUME QueueOK, SafeOK, OnRtxTimerExpiry
    PROVE  SafeOK' /\ StepOK
<1> DEFINE it == TimerResult
           ms == TimerGone
           rtx == toRtx \cup TimerLost
<1>1. /\ UNCHANGED <<cum, expired, arrived, resets>>
      /\ AbandonAllFor(log, it, rtx, head, ms)
  BY TimerFacts
<1>2. /\ cum' \in Nat /\ cum <= cum' /\ cum' <= Len(log)
      /\ it \in [(cum' + 1)..Len(log) -> Item]
  BY <1>1, QueueFacts, TimerResultFacts
<1>3. MayAbandon(ms, log, expired)
  <2>1. \A m \in ms : \E t \in TimerLost : log[t].msg = m
    BY DEF TimerGone, Exhausted, MessageOf
  <2>2. \A t \in TimerLost : t \in 1..Len(log)
    BY TimerResultFacts, QueueFacts DEF TimerNacked
  <2> QED BY <2>1, <2>2, TimerResultFacts DEF Losable, MayAbandon
<1>4. \A t \in (cum' + 1)..Len(log) : it[t].life = "Abandoned" <=> item[t].life = "Abandoned"
  <2>1. \A t \in Outstanding : it[t].life = "Abandoned" <=> item[t].life = "Abandoned"
    BY TimerResultFacts
  <2> QED BY <1>1, <2>1, QueueFacts
<1> HIDE DEF it, ms, rtx
<1> QED BY <1>1, <1>2, <1>3, <1>4, AbandonSafe

LEMMA HandleSackSafe ==
    ASSUME QueueOK, SafeOK, NEW s \in sacks, NEW a \in PeerWindows, HandleSack(s, a)
    PROVE  SafeOK' /\ StepOK
<1> DEFINE it == SackResult(s)
           ms == SackGone(s)
           rtx == SackRtx(s)
<1>0. IsSackValid(s) /\ cum' = CumulativeAck(s)
  BY HandleSackFacts
<1>1. /\ UNCHANGED <<expired, arrived, resets>>
      /\ AbandonAllFor(log, it, rtx, head, ms)
  BY HandleSackFacts
<1>2. /\ cum' \in Nat /\ cum <= cum' /\ cum' <= Len(log)
      /\ it \in [(cum' + 1)..Len(log) -> Item]
  BY <1>0, QueueFacts, MissingFacts, SackResultFacts
<1>3. MayAbandon(ms, log, expired)
  <2>1. \A m \in ms : \E t \in SackLost(s) : log[t].msg = m
    BY DEF SackGone, Exhausted, MessageOf
  <2>2. \A t \in SackLost(s) : t \in 1..Len(log)
    BY <1>0, SackResultFacts, MissingFacts, AckedItemsFacts, QueueFacts
  <2> QED BY <1>0, <2>1, <2>2, SackResultFacts DEF Losable, MayAbandon
<1>4. \A t \in (cum' + 1)..Len(log) : it[t].life = "Abandoned" <=> item[t].life = "Abandoned"
  <2> SUFFICES ASSUME NEW t \in (CumulativeAck(s) + 1)..Len(log)
               PROVE  it[t].life = "Abandoned" <=> item[t].life = "Abandoned"
    BY <1>0
  <2>1. CASE t \notin SackMissing(s)
    BY <1>0, <2>1, SackResultFacts, AckedItemsFacts
  <2>2. CASE t \in SackMissing(s) \ SackFirst(s)
    BY <1>0, <2>2, SackResultFacts
  <2>3. CASE t \in SackFirst(s)
    BY <1>0, <2>3, SackResultFacts
  <2> QED BY <2>1, <2>2, <2>3
<1> HIDE DEF it, ms, rtx
<1> QED BY <1>1, <1>2, <1>3, <1>4, AbandonSafe

LEMMA NextSafe ==
    ASSUME QueueOK, SafeOK, [Next]_vars
    PROVE  SafeOK' /\ StepOK
<1>1. CASE \/ Send \/ ResetStreams \/ LimitEnds \/ (\E m \in Messages : Expire(m)) \/ SendNothing
           \/ (\E t \in sent : ReceiveData(t)) \/ (\E f \in fwds : ReceiveForwardTsn(f))
           \/ (\E b \in resets : ReceiveResetRequest(b)) \/ UNCHANGED vars
  BY <1>1, SimpleSafe
<1>2. CASE SendControl
  BY <1>2, SendControlSafe
<1>3. CASE Retransmit
  BY <1>3, RetransmitSafe
<1>4. CASE Produce
  BY <1>4, ProduceSafe
<1>5. CASE ProduceExpired
  BY <1>5, ProduceExpiredSafe
<1>6. CASE \E s \in sacks, a \in PeerWindows : HandleSack(s, a)
  BY <1>6, HandleSackSafe
<1>7. CASE OnRtxTimerExpiry
  BY <1>7, RtxTimerSafe
<1> QED BY <1>1, <1>2, <1>3, <1>4, <1>5, <1>6, <1>7 DEF Next

LEMMA InitSafe == Init => SafeOK
<1> SUFFICES ASSUME Init PROVE SafeOK
  OBVIOUS
<1>1. Len(log) = 0 /\ DOMAIN item = {} /\ head.frag = 1
  BY EmptySeq DEF Init
<1>2. 1..Len(log) = {}
  BY <1>1
<1>3. LogOK(log, head)
  BY <1>1, <1>2, FragmentsType DEF LogOK
<1> QED BY <1>1, <1>3 DEF SafeOK, AbandonOK

-----------------------------------------------------------------------------
(* What is skipped *)

\* A FORWARD-TSN makes the peer skip TSN t.
Skipped(t) == t \notin arrived /\ \E f \in fwds : t <= f

SkipAbandoned == \A f \in fwds : \A t \in (cum + 1)..f : item[t].life = "Abandoned"

SkipLosable ==
    \A t \in 1..LastTsn : Skipped(t) =>
        /\ Losable(MessageOf(t), expired) /\ MessageOf(t) < head.msg
        /\ MessageOf(t) \notin delivered
        /\ \A u \in Outstanding : MessageOf(u) = MessageOf(t) => item[u].life = "Abandoned"

\* What the peer acknowledges, it has or has skipped.
AckOK ==
    /\ \A s \in sacks : \A t \in s : t \in arrived \/ Skipped(t)
    /\ \A t \in 1..cum : t \in arrived \/ Skipped(t)

DeliveredOK == \A m \in delivered : m < head.msg /\ \A t \in Outstanding : MessageOf(t) # m

SkipOK == SkipAbandoned /\ SkipLosable /\ AckOK /\ DeliveredOK

\* What a step adds to the FORWARD-TSNs, the SACKs and the delivered messages.
SkipStep ==
    /\ fwds \subseteq fwds'
    /\ \A f \in fwds' \ fwds : cum' = cum /\ \A t \in (cum + 1)..f : item'[t].life = "Abandoned"
    /\ \A m \in delivered' \ delivered :
         /\ m < head.msg /\ \A t \in Outstanding : t > cum' => MessageOf(t) # m
         /\ \E u \in Outstanding : MessageOf(u) = m /\ item[u].life # "Abandoned"
    /\ \A s \in sacks' \ sacks : \A t \in s : t \in arrived' \/ t <= skip'
    /\ cum' = cum \/ \E s \in sacks : 1..cum' \subseteq s

\* The numbers and the TSNs before and after a step.
LEMMA StepFacts ==
    ASSUME QueueOK, QueueOK', StepOK
    PROVE  /\ cum \in Nat /\ cum' \in Nat /\ cum <= cum' /\ cum <= Len(log) /\ cum' <= Len(log')
           /\ Len(log) \in Nat /\ Len(log') \in Nat /\ Len(log) <= Len(log')
           /\ LastTsn = Len(log) /\ LastTsn' = Len(log')
           /\ head.msg \in Nat /\ head'.msg \in Nat /\ head.msg <= head'.msg
           /\ \A t : t \in Outstanding <=> t \in Nat /\ cum < t /\ t <= Len(log)
           /\ \A t : t \in Outstanding' <=> t \in Nat /\ cum' < t /\ t <= Len(log')
           /\ \A t \in 1..Len(log') : MessageOf(t)' = log'[t].msg /\ log'[t].msg \in Nat
           /\ \A t \in 1..Len(log) :
                t \in 1..Len(log') /\ MessageOf(t) = log'[t].msg /\ log'[t].msg \in Nat
<1>1. /\ cum \in Nat /\ cum' \in Nat /\ cum <= cum' /\ cum <= Len(log) /\ cum' <= Len(log')
      /\ Len(log) \in Nat /\ Len(log') \in Nat /\ Len(log) <= Len(log')
      /\ log \in Seq(Entry) /\ log' \in Seq(Entry)
  BY LenProperties DEF StepOK, QueueOK, CoreType
<1>2. LastTsn = Len(log) /\ LastTsn' = Len(log')
  BY DEF LastTsn
<1>3. head.msg \in Nat /\ head'.msg \in Nat /\ head.msg <= head'.msg
  <2>1. head.msg \in 1..(sends + 1) /\ head'.msg \in 1..(sends' + 1) /\ sends \in Nat /\ sends' \in Nat
    BY QueueAssumption, LenProperties DEF QueueOK, CoreType, CountType, HeadType
  <2> QED BY <2>1 DEF StepOK
<1>4. Outstanding = (cum + 1)..Len(log) /\ Outstanding' = (cum' + 1)..Len(log')
  BY DEF QueueOK, CoreType, Outstanding
<1>5. \A t : t \in Outstanding <=> t \in Nat /\ cum < t /\ t <= Len(log)
  BY <1>1, <1>4
<1>6. \A t : t \in Outstanding' <=> t \in Nat /\ cum' < t /\ t <= Len(log')
  BY <1>1, <1>4
<1>7. \A t \in 1..Len(log') : MessageOf(t)' = log'[t].msg /\ log'[t].msg \in Nat
  BY <1>1, EntryFacts DEF MessageOf
<1>8. \A t \in 1..Len(log) :
        t \in 1..Len(log') /\ MessageOf(t) = log'[t].msg /\ log'[t].msg \in Nat
  <2>1. \A t \in 1..Len(log) : t \in 1..Len(log')
    BY <1>1
  <2> QED BY <1>7, <2>1 DEF StepOK, MessageOf
<1> QED BY <1>1, <1>2, <1>3, <1>5, <1>6, <1>7, <1>8

\* A chunk outstanding after a step was outstanding before it, or is new.
LEMMA StepOutstanding ==
    ASSUME QueueOK, QueueOK', StepOK, NEW t \in Outstanding'
    PROVE  \/ /\ t \in Outstanding /\ t > cum' /\ MessageOf(t) = log'[t].msg /\ t \in 1..Len(log)
              /\ item[t].life = "Abandoned" => item'[t].life = "Abandoned"
           \/ t \in Nat /\ t > Len(log) /\ head.msg <= log'[t].msg
<1>0. /\ cum \in Nat /\ cum' \in Nat /\ cum <= cum' /\ Len(log) \in Nat /\ Len(log') \in Nat
      /\ t \in Nat /\ cum' < t /\ t <= Len(log')
  BY StepFacts
<1>1. CASE t <= Len(log)
  <2>1. t \in Outstanding /\ t > cum' /\ t \in 1..Len(log)
    BY <1>0, <1>1, StepFacts
  <2>2. MessageOf(t) = log'[t].msg
    BY <2>1, StepFacts
  <2> QED BY <2>1, <2>2 DEF StepOK
<1>2. CASE ~(t <= Len(log))
  <2>1. t \in (Len(log) + 1)..Len(log') /\ t > Len(log)
    BY <1>0, <1>2
  <2> QED BY <1>0, <2>1 DEF StepOK
<1> QED BY <1>1, <1>2

LEMMA Above ==
    \A a, b \in Nat : \A t : t \in (a + 1)..b <=> t \in Nat /\ a < t /\ t <= b
OBVIOUS

LEMMA SkipStepKeeps ==
    ASSUME QueueOK, QueueOK', SafeOK', StepOK, SkipOK, SkipStep
    PROVE  SkipOK'
<1>0. /\ cum \in Nat /\ cum' \in Nat /\ cum <= cum' /\ cum <= Len(log) /\ cum' <= Len(log')
      /\ Len(log) \in Nat /\ Len(log') \in Nat /\ Len(log) <= Len(log')
      /\ LastTsn = Len(log) /\ LastTsn' = Len(log')
      /\ head.msg \in Nat /\ head'.msg \in Nat /\ head.msg <= head'.msg
  BY StepFacts
<1>1. fwds \subseteq 0..Len(log) /\ fwds' \subseteq 0..Len(log')
  BY DEF QueueOK, PeerType
<1>2. \A t \in 1..Len(log) : MessageOf(t) = log'[t].msg /\ log'[t].msg \in Nat
  BY StepFacts
<1>4. \A t \in Outstanding' :
        t \in 1..Len(log') /\ MessageOf(t)' = log'[t].msg /\ log'[t].msg \in Nat
  <2>1. \A t \in Outstanding' : t \in 1..Len(log')
    BY <1>0, StepFacts
  <2> QED BY <2>1, StepFacts
<1>5. SkipAbandoned'
  <2> SUFFICES ASSUME NEW f \in fwds', f \in Nat, NEW t \in Nat, cum' < t, t <= f
               PROVE  item'[t].life = "Abandoned"
    <3>1. \A f \in fwds' : f \in Nat
      BY <1>0, <1>1
    <3> QED BY <1>0, <3>1, Above DEF SkipAbandoned
  <2>1. CASE f \in fwds
    <3>1. t > cum' /\ t \in (cum + 1)..f /\ t \in Nat /\ cum < t /\ t <= Len(log)
      <4>1. f <= Len(log)
        BY <1>0, <1>1, <2>1
      <4> QED BY <1>0, <4>1
    <3>3. t \in Outstanding
      BY <3>1, StepFacts
    <3>2. item[t].life = "Abandoned"
      BY <2>1, <3>1 DEF SkipOK, SkipAbandoned
    <3> QED BY <3>1, <3>2, <3>3 DEF StepOK
  <2>2. CASE f \notin fwds
    <3>1. t \in (cum' + 1)..f
      BY <1>0, Above
    <3> QED BY <2>2, <3>1 DEF SkipStep
  <2> QED BY <2>1, <2>2
<1>6. DeliveredOK'
  <2> SUFFICES ASSUME NEW m \in delivered'
               PROVE  m < head'.msg /\ \A t \in Outstanding' : log'[t].msg # m
    BY <1>4 DEF DeliveredOK
  <2>0. m \in Nat
    <3>1. m \in 1..Len(Fragments)
      BY DEF QueueOK, CountType, Messages
    <3> QED BY <3>1, QueueFacts
  <2>1. m < head.msg /\ \A t \in Outstanding : t > cum' => MessageOf(t) # m
    <3>1. CASE m \in delivered
      BY <3>1 DEF SkipOK, DeliveredOK
    <3>2. CASE m \notin delivered
      BY <3>2 DEF SkipStep
    <3> QED BY <3>1, <3>2
  <2>2. ASSUME NEW t \in Outstanding', log'[t].msg = m PROVE FALSE
    <3>1. log'[t].msg \in Nat
      BY <1>4
    <3>2. CASE t \in Outstanding /\ t > cum' /\ MessageOf(t) = log'[t].msg
      BY <2>1, <2>2, <3>2
    <3>3. CASE head.msg <= log'[t].msg
      BY <1>0, <2>0, <2>1, <2>2, <3>1, <3>3
    <3> QED BY <3>2, <3>3, StepOutstanding
  <2>3. m < head'.msg
    BY <1>0, <2>0, <2>1
  <2> QED BY <2>2, <2>3
<1>7. ASSUME NEW t \in 1..Len(log), Skipped(t)
      PROVE  /\ Losable(log'[t].msg, expired') /\ log'[t].msg < head'.msg
             /\ log'[t].msg \notin delivered'
             /\ \A u \in Outstanding' : log'[u].msg = log'[t].msg => item'[u].life = "Abandoned"
  <2> DEFINE m == log'[t].msg
  <2>1. /\ m = MessageOf(t) /\ m \in Nat
        /\ Losable(m, expired) /\ m < head.msg /\ m \notin delivered
        /\ \A u \in Outstanding : MessageOf(u) = m => item[u].life = "Abandoned"
    <3>1. m = MessageOf(t) /\ m \in Nat
      BY <1>2
    <3> HIDE DEF m
    <3> QED BY <1>0, <1>7, <3>1 DEF SkipOK, SkipLosable
  <2> HIDE DEF m
  <2>2. Losable(m, expired') /\ m < head'.msg
    BY <1>0, <2>1 DEF StepOK, Losable
  <2>3. m \notin delivered'
    BY <2>1 DEF SkipStep
  <2>4. ASSUME NEW u \in Outstanding', log'[u].msg = m PROVE item'[u].life = "Abandoned"
    <3>1. CASE u \in Outstanding /\ MessageOf(u) = log'[u].msg
                /\ (item[u].life = "Abandoned" => item'[u].life = "Abandoned")
      BY <2>1, <2>4, <3>1
    <3>2. CASE head.msg <= log'[u].msg
      BY <1>0, <2>1, <2>4, <3>2
    <3> QED BY <3>1, <3>2, StepOutstanding
  <2> QED BY <2>2, <2>3, <2>4 DEF m
<1>8. \A t \in 1..Len(log) : t \in arrived \/ Skipped(t) => t \in arrived' \/ Skipped(t)'
  BY DEF Skipped, StepOK, SkipStep
<1>9. SkipLosable'
  <2> SUFFICES ASSUME NEW t \in 1..Len(log'), Skipped(t)'
               PROVE  /\ Losable(log'[t].msg, expired') /\ log'[t].msg < head'.msg
                      /\ log'[t].msg \notin delivered'
                      /\ \A u \in Outstanding' :
                           log'[u].msg = log'[t].msg => item'[u].life = "Abandoned"
    <3>1. \A t \in 1..Len(log') : MessageOf(t)' = log'[t].msg
      BY StepFacts
    <3>2. \A u \in Outstanding' : MessageOf(u)' = log'[u].msg
      BY <1>4
    <3> QED BY <1>0, <3>1, <3>2 DEF SkipLosable
  <2>1. PICK f \in fwds' : t <= f /\ t \notin arrived'
    BY DEF Skipped
  <2>2. CASE t \in 1..Len(log) /\ Skipped(t)
    BY <1>7, <2>2
  <2>3. CASE ~(t \in 1..Len(log) /\ Skipped(t))
    <3>1. f \notin fwds
      <4> SUFFICES ASSUME f \in fwds PROVE FALSE
        OBVIOUS
      <4>1. t \in 1..Len(log)
        BY <1>0, <1>1, <2>1
      <4>2. t \notin arrived
        BY <2>1 DEF StepOK
      <4> QED BY <2>1, <2>3, <4>1, <4>2 DEF Skipped
    <3>2. cum' = cum /\ \A u \in (cum + 1)..f : item'[u].life = "Abandoned"
      BY <3>1 DEF SkipStep
    <3>3. t > cum
      <4> SUFFICES ASSUME t <= cum PROVE FALSE
        BY <1>0
      <4>1. t \in 1..cum /\ t \in 1..Len(log)
        BY <1>0, QueueFacts
      <4>2. t \in arrived \/ Skipped(t)
        BY <4>1 DEF SkipOK, AckOK
      <4> QED BY <2>1, <2>3, <4>1, <4>2 DEF StepOK
    <3>4. t \in Outstanding' /\ t \in DOMAIN item' /\ item'[t].life = "Abandoned"
      <4>1. t \in (cum + 1)..f /\ t \in Outstanding'
        <5>1. f \in Nat /\ t \in Nat /\ t <= Len(log')
          BY <1>0, <1>1, <2>1
        <5>2. t \in (cum + 1)..f /\ cum' < t
          BY <1>0, <2>1, <3>2, <3>3, <5>1
        <5> QED BY <5>1, <5>2, StepFacts
      <4> QED BY <3>2, <4>1 DEF Outstanding
    <3>5. Losable(log'[t].msg, expired') /\ log'[t].msg < head'.msg
      BY <3>4 DEF SafeOK, AbandonOK
    <3>6. \A u \in Outstanding' : log'[u].msg = log'[t].msg => item'[u].life = "Abandoned"
      BY <3>4 DEF SafeOK, AbandonOK, Outstanding
    <3>7. log'[t].msg \notin delivered'
      BY <1>4, <1>6, <3>4 DEF DeliveredOK
    <3> QED BY <3>5, <3>6, <3>7
  <2> QED BY <2>2, <2>3
<1>10. AckOK'
  <2>1. ASSUME NEW s \in sacks', NEW t \in s PROVE t \in arrived' \/ Skipped(t)'
    <3>1. CASE s \in sacks
      <4>1. t \in 1..Len(log)
        BY <3>1 DEF QueueOK, PeerType
      <4> QED BY <1>8, <3>1, <4>1 DEF SkipOK, AckOK
    <3>2. CASE s \notin sacks
      <4>1. CASE t \in arrived'
        BY <4>1
      <4>2. CASE t \notin arrived' /\ t <= skip'
        <5>1. skip' \in fwds' \cup {0} /\ t \in 1..Len(log')
          BY DEF QueueOK, PeerType
        <5>2. skip' # 0
          BY <1>0, <4>2, <5>1
        <5> QED BY <4>2, <5>1, <5>2 DEF Skipped
      <4> QED BY <3>2, <4>1, <4>2 DEF SkipStep
    <3> QED BY <3>1, <3>2
  <2>2. ASSUME NEW t \in 1..cum' PROVE t \in arrived' \/ Skipped(t)'
    <3>1. t \in 1..Len(log) /\ (t \in arrived \/ Skipped(t))
      <4>1. CASE cum' = cum
        <5>1. t \in 1..cum /\ t \in 1..Len(log)
          BY <1>0, <4>1, QueueFacts
        <5> QED BY <5>1 DEF SkipOK, AckOK
      <4>2. CASE cum' # cum
        <5>1. PICK s \in sacks : 1..cum' \subseteq s
          BY <4>2 DEF SkipStep
        <5>2. t \in s /\ s \subseteq 1..Len(log)
          BY <5>1 DEF QueueOK, PeerType
        <5> QED BY <5>2 DEF SkipOK, AckOK
      <4> QED BY <4>1, <4>2
    <3> QED BY <1>8, <3>1
  <2> QED BY <2>1, <2>2 DEF AckOK
<1> QED BY <1>5, <1>6, <1>9, <1>10 DEF SkipOK

\* A FORWARD-TSN is sent for chunks that are abandoned, up to a stream reset.
LEMMA NewForwardTsn ==
    ASSUME QueueOK, SendControl, NEW f \in fwds' \ fwds
    PROVE  /\ cum' = cum /\ f \in Nat /\ cum <= f /\ f <= Len(log')
           /\ \A t \in (cum + 1)..f : item'[t].life = "Abandoned" /\ t \notin breaks
           /\ cum + 1 \in Abandoned(item') /\ f + 1 \notin Abandoned(item') \ breaks
<1>0. QueueOK' /\ cum' = cum
  BY SendControlQueueOK, SendControlFacts
<1>1. f = ForwardTsn(item') /\ cum + 1 \in Abandoned(item')
  BY SendControlFacts
<1>2. DOMAIN item' = (cum + 1)..Len(log') /\ cum \in Nat /\ Len(log') \in Nat
  BY <1>0, LenProperties DEF QueueOK, CoreType
<1>3. cum < Len(log')
  BY <1>1, <1>2 DEF Abandoned
<1>4. /\ f \in cum..Len(log') /\ (cum + 1)..f \subseteq Abandoned(item') \ breaks
      /\ f + 1 \notin Abandoned(item') \ breaks
  BY <1>1, <1>2, <1>3, ForwardTsnOf
<1>5. \A t \in (cum + 1)..f : item'[t].life = "Abandoned" /\ t \notin breaks
  BY <1>4 DEF Abandoned
<1>6. f \in Nat /\ cum <= f /\ f <= Len(log')
  BY <1>2, <1>4
<1> QED BY <1>0, <1>1, <1>4, <1>5, <1>6

\* Only whole messages that are acknowledged are reported as delivered.
LEMMA NewlyDelivered ==
    ASSUME QueueOK, SafeOK, NEW s \in sacks, IsSackValid(s), NEW m \in DeliveredBy(s)
    PROVE  /\ m < head.msg /\ \A t \in Outstanding : t > CumulativeAck(s) => MessageOf(t) # m
           /\ \E u \in Outstanding : /\ MessageOf(u) = m /\ item[u].life # "Abandoned"
                                     /\ u <= CumulativeAck(s) /\ log[u].frag = Fragments[m]
<1>1. PICK u \in Outstanding : /\ MessageOf(u) = m /\ item[u].life # "Abandoned"
                               /\ u <= CumulativeAck(s) /\ log[u].frag = Fragments[m]
  BY DEF DeliveredBy
<1>2. u \in 1..Len(log) /\ u \in Nat
  BY QueueFacts
<1>3. m < head.msg
  BY <1>1, <1>2 DEF SafeOK, LogOK, MessageOf
<1>4. ASSUME NEW t \in Outstanding, t > CumulativeAck(s), MessageOf(t) = m PROVE FALSE
  <2>1. CumulativeAck(s) \in Nat
    <3>1. s \subseteq 1..Len(log)
      BY DEF QueueOK, PeerType
    <3>2. Len(log) \in Nat
      BY QueueFacts
    <3>3. CumulativeAck(s) \in 0..Len(log)
      BY <3>1, <3>2, CumulativeAckOf
    <3> QED BY <3>2, <3>3
  <2>4. t \in 1..Len(log) /\ t \in Nat
    BY QueueFacts
  <2>2. u < t
    BY <1>1, <1>2, <1>4, <2>1, <2>4
  <2>3. log[u].msg = log[t].msg => log[u].frag # Fragments[log[u].msg]
    BY <1>2, <2>2, <2>4 DEF SafeOK, LogOK
  <2> QED BY <1>1, <1>4, <2>3 DEF MessageOf
<1> QED BY <1>1, <1>3, <1>4

LEMMA NextSkipStep ==
    ASSUME QueueOK, SafeOK, [Next]_vars
    PROVE  SkipStep
<1>1. CASE /\ fwds' = fwds /\ cum' = cum /\ delivered' = delivered /\ sacks' \subseteq sacks
  BY <1>1 DEF SkipStep
<1>2. CASE \/ Send \/ ResetStreams \/ LimitEnds \/ (\E m \in Messages : Expire(m)) \/ SendNothing
           \/ (\E b \in resets : ReceiveResetRequest(b)) \/ UNCHANGED vars
  <2>1. UNCHANGED <<fwds, cum, delivered, sacks>>
    BY <1>2 DEF Send, ResetStreams, LimitEnds, Expire, SendNothing, ReceiveResetRequest, vars,
                path, outstanding, peer
  <2> QED BY <1>1, <2>1
<1>3. CASE Retransmit \/ Produce \/ ProduceExpired \/ OnRtxTimerExpiry
  <2>1. UNCHANGED <<fwds, cum, delivered, sacks>>
    BY <1>3 DEF Retransmit, Produce, ProduceExpired, OnRtxTimerExpiry, path, peer
  <2> QED BY <1>1, <2>1
<1>4. CASE SendControl
  <2>1. /\ UNCHANGED <<cum, delivered, sacks>> /\ fwds \subseteq fwds'
    BY <1>4, SendControlFacts
  <2>2. \A f \in fwds' \ fwds : cum' = cum /\ \A t \in (cum + 1)..f : item'[t].life = "Abandoned"
    BY <1>4, NewForwardTsn
  <2> QED BY <2>1, <2>2 DEF SkipStep
<1>5. CASE \E s \in sacks, a \in PeerWindows : HandleSack(s, a)
  <2>1. PICK s \in sacks, a \in PeerWindows : HandleSack(s, a)
    BY <1>5
  <2>2. /\ fwds' = fwds /\ sacks' \subseteq sacks /\ delivered' = delivered \cup DeliveredBy(s)
        /\ cum' = CumulativeAck(s) /\ IsSackValid(s)
    BY <2>1, HandleSackFacts
  <2>3. \A m \in delivered' \ delivered :
           /\ m < head.msg /\ \A t \in Outstanding : t > cum' => MessageOf(t) # m
           /\ \E u \in Outstanding : MessageOf(u) = m /\ item[u].life # "Abandoned"
    BY <2>2, NewlyDelivered
  <2>4. 1..cum' \subseteq s
    <3>1. s \subseteq 1..Len(log)
      BY DEF QueueOK, PeerType
    <3> QED BY <2>2, <3>1, QueueFacts, CumulativeAckOf
  <2> QED BY <2>2, <2>3, <2>4 DEF SkipStep
<1>6. CASE \E t \in sent : ReceiveData(t)
  <2>1. PICK t \in sent : ReceiveData(t)
    BY <1>6
  <2>2. /\ UNCHANGED <<fwds, cum, delivered, skip>> /\ arrived' = arrived \cup {t}
        /\ sacks' = sacks \cup {Received \cup {t}}
    BY <2>1 DEF ReceiveData, path, outstanding
  <2>3. \A u \in Received \cup {t} : u \in arrived' \/ u <= skip'
    BY <2>2, PeerFacts, QueueFacts DEF Received
  <2> QED BY <2>2, <2>3 DEF SkipStep
<1>7. CASE \E f \in fwds : ReceiveForwardTsn(f)
  <2>1. PICK f \in fwds : ReceiveForwardTsn(f)
    BY <1>7
  <2>2. /\ UNCHANGED <<fwds, cum, delivered, arrived>> /\ skip' \in {skip, f}
        /\ sacks' = sacks \cup {arrived \cup 1..skip'}
    BY <2>1 DEF ReceiveForwardTsn, path, outstanding
  <2>3. \A u \in arrived \cup 1..skip' : u \in arrived' \/ u <= skip'
    <3>1. skip' \in Nat
      BY <2>2, PeerFacts, QueueFacts
    <3> QED BY <2>2, <3>1
  <2> QED BY <2>2, <2>3 DEF SkipStep
<1> QED BY <1>2, <1>3, <1>4, <1>5, <1>6, <1>7 DEF Next

LEMMA InitSkip == Init => SkipOK
<1> SUFFICES ASSUME Init PROVE SkipOK
  OBVIOUS
<1>1. fwds = {} /\ sacks = {} /\ delivered = {} /\ 1..cum = {}
  BY DEF Init
<1> QED BY <1>1 DEF SkipOK, SkipAbandoned, SkipLosable, Skipped, AckOK, DeliveredOK

SkipInv == QueueOK /\ SafeOK /\ SkipOK

LEMMA SkipInvariant == Spec => []SkipInv
<1>1. Init => SkipInv
  BY InitQueueOK, InitSafe, InitSkip DEF SkipInv
<1>2. SkipInv /\ [Next]_vars => SkipInv'
  <2> SUFFICES ASSUME SkipInv, [Next]_vars PROVE SkipInv'
    OBVIOUS
  <2>1. QueueOK /\ SafeOK /\ SkipOK
    BY DEF SkipInv
  <2>2. QueueOK' /\ SafeOK' /\ StepOK /\ SkipStep
    BY <2>1, NextQueueOK, NextSafe, NextSkipStep
  <2>3. SkipOK'
    BY <2>1, <2>2, SkipStepKeeps
  <2> QED BY <2>2, <2>3 DEF SkipInv
<1> QED BY <1>1, <1>2, PTL DEF Spec

\* CreateForwardTsn skips only what may be lost: when a FORWARD-TSN lets the peer
\* pass over a chunk it has not received, the chunk's message has expired or has a
\* limit of retransmissions, and it is never reported as delivered, however the
\* path delays, repeats and reorders the chunks, for any number of messages.
THEOREM OnlyAbandonedAreSkipped == Spec => []SkipsOnlyAbandoned
<1>1. SkipInv => SkipsOnlyAbandoned
  <2> SUFFICES ASSUME QueueOK, SafeOK, SkipOK, NEW f \in fwds, NEW t \in 1..f \ arrived
               PROVE  /\ MessageOf(t) \in expired \/ MaxRetransmits[MessageOf(t)] # NoLimit
                      /\ MessageOf(t) \notin delivered
    BY DEF SkipInv, SkipsOnlyAbandoned
  <2>1. f \in 0..Len(log)
    BY PeerFacts
  <2>2. t \in 1..LastTsn /\ t <= f
    BY <2>1, QueueFacts
  <2>3. Skipped(t)
    BY <2>2 DEF Skipped
  <2> QED BY <2>2, <2>3 DEF SkipOK, SkipLosable, Losable
<1> QED BY <1>1, SkipInvariant, PTL


-----------------------------------------------------------------------------
(* Stream resets *)

\* OutstandingData knows of every reset that a FORWARD-TSN could still cross.
ResetOK == \A b \in resets : b > cum + 1 => b \in breaks

LEMMA NextReset ==
    ASSUME QueueOK, QueueOK', StepOK, ResetOK, [Next]_vars
    PROVE  ResetOK'
<1>0. cum \in Nat /\ cum' \in Nat /\ cum <= cum' /\ resets \subseteq Nat
  BY StepFacts DEF QueueOK, CountType
<1>1. CASE UNCHANGED <<cum, breaks, resets>>
  BY <1>1 DEF ResetOK
<1>2. CASE \/ Send \/ LimitEnds \/ (\E m \in Messages : Expire(m)) \/ SendNothing
           \/ (\E b \in resets : ReceiveResetRequest(b)) \/ UNCHANGED vars
           \/ (\E t \in sent : ReceiveData(t)) \/ (\E f \in fwds : ReceiveForwardTsn(f))
           \/ Retransmit \/ Produce \/ ProduceExpired \/ OnRtxTimerExpiry
  <2>1. UNCHANGED <<cum, breaks, resets>>
    BY <1>2 DEF Send, LimitEnds, Expire, SendNothing, ReceiveResetRequest, vars,
                ReceiveData, ReceiveForwardTsn, Retransmit, Produce, ProduceExpired,
                OnRtxTimerExpiry, outstanding
  <2> QED BY <1>1, <2>1
<1>3. CASE SendControl \/ ResetStreams
  <2>1. /\ cum' = cum
        /\ \/ UNCHANGED <<breaks, resets>>
           \/ /\ breaks' = breaks \cup {Len(log') + 1}
              /\ resets' = resets \cup {Len(log') + 1}
    <3>1. CASE SendControl
      BY <3>1, SendControlFacts
    <3>2. CASE ResetStreams
      BY <3>2 DEF ResetStreams, BeginResetStreams
    <3> QED BY <1>3, <3>1, <3>2
  <2> QED BY <2>1 DEF ResetOK
<1>4. CASE \E s \in sacks, a \in PeerWindows : HandleSack(s, a)
  <2>1. PICK s \in sacks, a \in PeerWindows : HandleSack(s, a)
    BY <1>4
  <2>2. cum' = CumulativeAck(s) /\ breaks' = {b \in breaks : b > cum' + 1} /\ resets' = resets
    BY <2>1, HandleSackFacts
  <2> QED BY <1>0, <2>2 DEF ResetOK
<1> QED BY <1>2, <1>3, <1>4 DEF Next

\* MakeStreamResetRequest and CreateForwardTsn together: no FORWARD-TSN goes past
\* the TSN of a reset and skips chunks on both sides of it, however many resets,
\* losses and acknowledgements come between.
THEOREM NoResetIsCrossed == Spec => ResetsAreNotCrossed
<1> DEFINE Inv == SkipInv /\ ResetOK
<1>1. Init => Inv
  BY InitQueueOK, InitSafe, InitSkip DEF SkipInv, ResetOK, Init
<1>2. Inv /\ [Next]_vars => Inv'
  <2> SUFFICES ASSUME QueueOK, SafeOK, SkipOK, ResetOK, [Next]_vars PROVE Inv'
    BY DEF SkipInv
  <2>1. QueueOK' /\ SafeOK' /\ StepOK /\ SkipStep
    BY NextQueueOK, NextSafe, NextSkipStep
  <2>2. SkipOK' /\ ResetOK'
    BY <2>1, SkipStepKeeps, NextReset
  <2> QED BY <2>1, <2>2 DEF SkipInv
<1>3. Inv /\ [Next]_vars =>
        [\A f \in fwds' \ fwds : \A b \in resets : ~(cum + 1 < b /\ b <= f)]_vars
  <2> SUFFICES ASSUME QueueOK, ResetOK, Next, NEW f \in fwds' \ fwds, NEW b \in resets,
                      cum + 1 < b, b <= f
               PROVE  FALSE
    BY DEF SkipInv
  <2>1. CASE SendControl
    <3>1. f \in Nat /\ \A t \in (cum + 1)..f : t \notin breaks
      BY <2>1, NewForwardTsn
    <3>2. b \in Nat /\ cum \in Nat
      BY QueueFacts DEF QueueOK, CountType
    <3>3. b \in (cum + 1)..f /\ b > cum + 1
      BY <3>1, <3>2
    <3> QED BY <3>1, <3>3 DEF ResetOK
  <2>2. CASE ~SendControl
    <3>1. fwds' = fwds
      <4>1. CASE \E s \in sacks, a \in PeerWindows : HandleSack(s, a)
        BY <4>1, HandleSackFacts
      <4>2. CASE ~\E s \in sacks, a \in PeerWindows : HandleSack(s, a)
        BY <2>2, <4>2 DEF Next, Send, ResetStreams, LimitEnds, Expire, SendNothing,
             ReceiveResetRequest, ReceiveData, ReceiveForwardTsn, Retransmit, Produce,
             ProduceExpired, OnRtxTimerExpiry, path
      <4> QED BY <4>1, <4>2
    <3> QED BY <3>1
  <2> QED BY <2>1, <2>2
<1> QED BY <1>1, <1>2, <1>3, PTL DEF Spec, ResetsAreNotCrossed


-----------------------------------------------------------------------------
(* The timer *)

\* T3-rtx runs unless all that is outstanding is abandoned, and when the sender
\* has stopped with data to send, chunks in flight fill its window.
TimedOK ==
    /\ ~t3 => \A t \in Outstanding : item[t].life = "Abandoned"
    /\ Idle /\ ~t3 /\ HasData => unacked > 0

\* The send queue with the next fragment h, n messages sent and those of e
\* expired has a chunk.
QueueHasData(h, n, e) == h.frag > 1 \/ \E m \in Nat : h.msg <= m /\ m <= n /\ m \notin e

LEMMA HasDataOf ==
    ASSUME NEW n \in Nat, NEW h \in HeadType(n), h.frag > 1 => h.msg <= n, NEW e, e \subseteq 1..n
    PROVE  (IF h.frag > 1 THEN h ELSE [msg |-> Min({m \in h.msg..(n + 1) : m \notin e}),
                                       frag |-> 1]).msg <= n <=> QueueHasData(h, n, e)
<1>0. h.msg \in 1..(n + 1)
  BY DEF HeadType
<1>1. CASE h.frag > 1
  BY <1>1 DEF QueueHasData
<1>2. CASE ~(h.frag > 1)
  <2> DEFINE S == {m \in h.msg..(n + 1) : m \notin e}
             k == Min(S)
  <2>1. n + 1 \in S /\ S \subseteq Nat
    BY <1>0
  <2>2. k \in S /\ \A m \in S : k <= m
    <3> HIDE DEF S
    <3> QED BY <2>1, MinOf
  <2>3. k \in Nat /\ h.msg <= k /\ k <= n + 1 /\ k \notin e
    BY <1>0, <2>2
  <2>4. \A m \in Nat : h.msg <= m /\ m <= n /\ m \notin e => k <= m
    BY <1>0, <2>2
  <2>5. (IF h.frag > 1 THEN h ELSE [msg |-> k, frag |-> 1]).msg = k
    BY <1>2
  <2> HIDE DEF k
  <2>6. k <= n <=> QueueHasData(h, n, e)
    BY <1>2, <2>3, <2>4 DEF QueueHasData
  <2> QED BY <2>5, <2>6 DEF k
<1> QED BY <1>1, <1>2

LEMMA HasDataFacts ==
    ASSUME QueueOK, QueueOK'
    PROVE  /\ HasData <=> QueueHasData(head, sends, expired)
           /\ HasData' <=> QueueHasData(head', sends', expired')
<1>1. /\ sends \in Nat /\ head \in HeadType(sends) /\ (head.frag > 1 => head.msg <= sends)
      /\ expired \subseteq 1..sends
  BY QueueFacts DEF QueueOK, CountType
<1>2. /\ sends' \in Nat /\ head' \in HeadType(sends') /\ (head'.frag > 1 => head'.msg <= sends')
      /\ expired' \subseteq 1..sends'
  BY LenProperties, QueueAssumption DEF QueueOK, CountType, CoreType
<1>3. HasData <=> QueueHasData(head, sends, expired)
  BY <1>1, HasDataOf DEF HasData, NextHead
<1>4. HasData' <=> QueueHasData(head', sends', expired')
  BY <1>2, HasDataOf DEF HasData, NextHead
<1> QED BY <1>3, <1>4

\* When nothing is in flight, the window has room for a packet.
LEMMA WindowOpen ==
    ASSUME QueueOK, ~CanSendData \/ ~(MaxToSend >= 1)
    PROVE  unacked > 0
<1> SUFFICES ASSUME unacked = 0 PROVE FALSE
  BY QueueFacts
<1>1. cwnd \in Nat \ {0}
  BY DEF QueueOK, CountType
<1>2. MaxToSend = cwnd
  BY <1>1 DEF MaxToSend, Max2
<1> QED BY <1>1, <1>2 DEF CanSendData

\* AbandonAllFor leaves abandoned what was abandoned, and the messages ms.
LEMMA AbandonAll ==
    ASSUME NEW c \in Nat, NEW l \in Seq(Entry), c <= Len(l),
           NEW it \in [(c + 1)..Len(l) -> Item], NEW rtx, NEW ms,
           NEW n \in 0..Len(Fragments), NEW h \in HeadType(n), h.frag > 1 => h.msg <= n,
           AbandonAllFor(l, it, rtx, h, ms),
           \A t \in DOMAIN it : it[t].life = "Abandoned" \/ l[t].msg \in ms
    PROVE  \A t \in DOMAIN item' : item'[t].life = "Abandoned"
<1>1. item' \in [(c + 1)..Len(log') -> Item] /\ AbandonShape(l, it, h, ms)
  BY AbandonEffect
<1>2. Len(l) \in Nat
  BY LenProperties
<1>3. ASSUME NEW t \in DOMAIN item' PROVE t \in DOMAIN it \/ item'[t] = Placeholder
  BY <1>1, <1>2 DEF AbandonShape
<1>4. \A t \in DOMAIN it : item'[t].life = IF l[t].msg \in ms THEN "Abandoned" ELSE it[t].life
  BY <1>1 DEF AbandonShape
<1> QED BY <1>3, <1>4 DEF Placeholder


\* While the timer does not run, every step leaves what is outstanding abandoned.
LEMMA NextAbandoned ==
    ASSUME QueueOK, QueueOK', SafeOK, TimedOK, [Next]_vars, ~t3'
    PROVE  \A t \in Outstanding' : item'[t].life = "Abandoned"
<1>0. /\ cum \in Nat /\ log \in Seq(Entry) /\ cum <= Len(log) /\ Len(log) \in Nat
      /\ item \in [(cum + 1)..Len(log) -> Item] /\ sends \in 0..Len(Fragments)
      /\ head \in HeadType(sends) /\ (head.frag > 1 => head.msg <= sends)
  BY QueueFacts
<1>1. CASE ~t3 /\ UNCHANGED item
  BY <1>1 DEF TimedOK, Outstanding
<1>2. CASE \/ Send \/ LimitEnds \/ (\E m \in Messages : Expire(m)) \/ SendNothing
           \/ ResetStreams \/ (\E b \in resets : ReceiveResetRequest(b)) \/ UNCHANGED vars
           \/ (\E t \in sent : ReceiveData(t)) \/ (\E f \in fwds : ReceiveForwardTsn(f))
  <2>1. UNCHANGED <<item, t3>>
    BY <1>2 DEF Send, LimitEnds, Expire, SendNothing, ResetStreams, ReceiveResetRequest, vars,
                ReceiveData, ReceiveForwardTsn, outstanding, congestion
  <2> QED BY <1>1, <2>1
<1>3. CASE Retransmit \/ Produce
  BY <1>3 DEF Retransmit, Produce
<1>4. CASE OnRtxTimerExpiry
  BY <1>4 DEF OnRtxTimerExpiry
<1>5. CASE SendControl
  <2>1. t3' = t3 /\ (UNCHANGED item \/ AbandonAllFor(log, item, toRtx, head, ExpiredMessages))
    BY <1>5, SendControlFacts
  <2>2. CASE AbandonAllFor(log, item, toRtx, head, ExpiredMessages)
    <3> DEFINE ms == ExpiredMessages
    <3>1. \A t \in DOMAIN item : item[t].life = "Abandoned" \/ log[t].msg \in ms
      BY <2>1 DEF TimedOK, Outstanding
    <3>2. AbandonAllFor(log, item, toRtx, head, ms)
      BY <2>2
    <3> HIDE DEF ms
    <3>3. \A t \in DOMAIN item' : item'[t].life = "Abandoned"
      BY <1>0, <3>1, <3>2, AbandonAll
    <3> QED BY <3>3 DEF Outstanding
  <2> QED BY <1>1, <2>1, <2>2
<1>6. CASE ProduceExpired
  <2> DEFINE l == Append(log, head)
             ms == {head.msg}
             h == AfterHead
             it == WithChunk
  <2>1. /\ HasData /\ NextHead = head /\ it \in [(cum + 1)..Len(l) -> Item]
        /\ AbandonAllFor(l, it, toRtx, h, ms) /\ t3' = t3
    BY <1>6, ProduceExpiredFacts DEF ProduceExpired
  <2>2. /\ l \in Seq(Entry) /\ Len(l) = Len(log) + 1 /\ l[Len(log) + 1] = head
        /\ \A t \in 1..Len(log) : l[t] = log[t]
    BY <2>1, WithChunkSafe
  <2>3. h \in HeadType(sends) /\ (h.frag > 1 => h.msg <= sends)
    BY <2>1, AfterHeadFacts
  <2>4. ASSUME NEW t \in DOMAIN it PROVE it[t].life = "Abandoned" \/ l[t].msg \in ms
    <3>1. t = Len(log) + 1 \/ t \in Outstanding
      BY <1>0, <2>1, <2>2, QueueFacts
    <3>2. CASE t \in Outstanding
      BY <2>1, <3>2, WithChunkFacts DEF TimedOK
    <3>3. CASE t = Len(log) + 1
      BY <2>2, <3>3
    <3> QED BY <3>1, <3>2, <3>3
  <2>5. cum <= Len(l)
    BY <1>0, <2>2
  <2> HIDE DEF l, ms, h, it
  <2>6. \A t \in DOMAIN item' : item'[t].life = "Abandoned"
    BY <1>0, <2>1, <2>2, <2>3, <2>4, <2>5, AbandonAll
  <2> QED BY <2>6 DEF Outstanding
<1>7. CASE \E s \in sacks, a \in PeerWindows : HandleSack(s, a)
  <2>1. PICK s \in sacks, a \in PeerWindows : HandleSack(s, a)
    BY <1>7
  <2>2. t3' = TimerAfterSack(CumulativeAck(s) > cum, item')
    BY <2>1, HandleSackFacts
  <2>3. DOMAIN item' = {}
    BY <2>2 DEF TimerAfterSack
  <2> QED BY <2>3 DEF Outstanding
<1> QED BY <1>2, <1>3, <1>4, <1>5, <1>6, <1>7 DEF Next

LEMMA NextTimed ==
    ASSUME QueueOK, QueueOK', SafeOK, TimedOK, [Next]_vars
    PROVE  TimedOK'
<1>0. /\ MaxBurst \in Nat \ {0} /\ unacked \in Nat /\ sends \in Nat /\ t3 \in BOOLEAN
      /\ HasData <=> QueueHasData(head, sends, expired)
      /\ HasData' <=> QueueHasData(head', sends', expired')
  BY QueueAssumption, QueueFacts, HasDataFacts DEF QueueOK, CountType
<1>1. ~t3' => \A t \in Outstanding' : item'[t].life = "Abandoned"
  BY NextAbandoned
<1>2. ASSUME Idle', ~t3', HasData' PROVE unacked' > 0
  <2>1. CASE Idle /\ ~t3 /\ HasData /\ unacked' = unacked
    BY <2>1 DEF TimedOK
  <2>2. CASE \/ LimitEnds \/ ResetStreams \/ (\E b \in resets : ReceiveResetRequest(b))
             \/ (\E t \in sent : ReceiveData(t)) \/ (\E f \in fwds : ReceiveForwardTsn(f))
             \/ UNCHANGED vars
    <3>1. UNCHANGED <<sending, t3, head, sends, expired, unacked>>
      BY <2>2 DEF LimitEnds, ResetStreams, ReceiveResetRequest, vars, ReceiveData,
                  ReceiveForwardTsn, outstanding, congestion, client
    <3> QED BY <1>0, <1>2, <2>1, <3>1 DEF Idle
  <2>3. CASE \E m \in Messages : Expire(m)
    <3>1. UNCHANGED <<sending, t3, head, sends, unacked>> /\ expired \subseteq expired'
      BY <2>3 DEF Expire, outstanding, congestion
    <3>2. HasData
      BY <1>0, <1>2, <3>1 DEF QueueHasData
    <3> QED BY <1>2, <2>1, <3>1, <3>2 DEF Idle
  <2>4. CASE Send \/ OnRtxTimerExpiry \/ \E s \in sacks, a \in PeerWindows : HandleSack(s, a)
    <3>1. sending' = MaxBurst + 1
      BY <2>4, HandleSackFacts DEF Send, OnRtxTimerExpiry, SendBufferedPackets
    <3> QED BY <1>0, <1>2, <3>1 DEF Idle
  <2>5. CASE Retransmit \/ Produce
    BY <1>2, <2>5 DEF Retransmit, Produce
  <2>6. CASE SendControl
    <3>1. ~CanSendData /\ unacked' = unacked
      BY <1>2, <2>6, SendControlFacts DEF Idle
    <3> QED BY <3>1, WindowOpen
  <2>7. CASE ProduceExpired
    BY <1>0, <2>7 DEF ProduceExpired
  <2>8. CASE SendNothing
    <3>1. UNCHANGED <<unacked, sends, expired>>
      BY <2>8 DEF SendNothing, outstanding, client
    <3>2. CASE ~CanSendPacket
      <4>1. ~CanSendData \/ ~(MaxToSend >= 1)
        BY <2>8, <3>2 DEF SendNothing, CanSendPacket
      <4> QED BY <3>1, <4>1, WindowOpen
    <3>3. CASE CanSendPacket
      <4>1. ~HasData /\ head' = NextHead
        BY <2>8, <3>3 DEF SendNothing
      <4>2. ~(head.frag > 1) /\ head.msg <= NextHead.msg /\ head.msg \in Nat
            /\ NextHead.msg \in Nat /\ NextHead.frag = 1
        BY <1>0, <4>1, HeadFacts, QueueFacts DEF QueueHasData
      <4>3. ~QueueHasData(head', sends', expired')
        BY <1>0, <3>1, <4>1, <4>2 DEF QueueHasData
      <4> QED BY <1>0, <1>2, <4>3
    <3> QED BY <3>2, <3>3
  <2> QED BY <2>2, <2>3, <2>4, <2>5, <2>6, <2>7, <2>8 DEF Next
<1> QED BY <1>1, <1>2 DEF TimedOK

LEMMA InitTimed == Init => TimedOK
<1> SUFFICES ASSUME Init PROVE TimedOK
  OBVIOUS
<1>1. DOMAIN item = {} /\ sends = 0 /\ head.msg = 1 /\ head.frag = 1 /\ expired = {}
  BY DEF Init
<1>2. ~HasData
  <2>1. QueueOK
    BY InitQueueOK
  <2>2. NextHead.msg \in 1..(sends + 1) /\ head.msg <= NextHead.msg
    BY <2>1, HeadFacts
  <2>3. ~(NextHead.msg <= sends)
    BY <1>1, <2>2
  <2> QED BY <2>3 DEF HasData
<1> QED BY <1>1, <1>2 DEF TimedOK, Outstanding

\* The sender always wakes up again: between its calls T3-rtx runs, or all that is
\* outstanding is abandoned and what waits in the send queue waits for chunks that
\* still count as in flight.
THEOREM SenderIsTimed == Spec => []ChunksAreTimed
<1> DEFINE Inv == QueueOK /\ SafeOK /\ TimedOK
<1>1. Init => Inv
  BY InitQueueOK, InitSafe, InitTimed
<1>2. Inv /\ [Next]_vars => Inv'
  BY NextQueueOK, NextSafe, NextTimed
<1>3. Inv => ChunksAreTimed
  <2> SUFFICES ASSUME QueueOK, TimedOK, Idle, ~t3
               PROVE  Outstanding = Abandoned(item) /\ (HasData => Unacked(item) # {})
    BY DEF ChunksAreTimed
  <2>1. Outstanding = Abandoned(item)
    BY DEF TimedOK, Outstanding, Abandoned
  <2>2. ASSUME Unacked(item) = {} PROVE ~(unacked > 0)
    <3>1. unacked = 0
      BY <2>2, QueueFacts, FS_EmptySet
    <3> QED BY <3>1
  <2> QED BY <2>1, <2>2 DEF TimedOK
<1> QED BY <1>1, <1>2, <1>3, PTL DEF Spec


-----------------------------------------------------------------------------
(* Stream sequence numbers *)

SsnSet(t) == {MessageOf(u) : u \in 1..t}

LEMMA SsnSetFacts ==
    ASSUME QueueOK, NEW t \in 1..Len(log)
    PROVE  IsFiniteSet(SsnSet(t)) /\ Ssn(t) = Cardinality(SsnSet(t)) - 1
           /\ Cardinality(SsnSet(t)) \in Nat /\ Ssn(t) \in Nat
<1>1. IsFiniteSet(SsnSet(t))
  <2>1. \A u \in 1..t : u \in 1..Len(log)
    BY QueueFacts
  <2>2. SsnSet(t) \subseteq 1..Len(Fragments)
    BY <2>1, QueueFacts DEF Messages, SsnSet
  <2> QED BY <2>2, QueueFacts, FiniteInterval
<1>2. Ssn(t) \in Nat
  <2>1. t \in 0..Len(log) /\ t > 0
    BY QueueFacts
  <2> QED BY <2>1, SsnType
<1> QED BY <1>1, <1>2, FS_CardinalityType DEF Ssn, SsnSet

LEMMA SameSsn ==
    ASSUME QueueOK, SafeOK, NEW t \in 1..Len(log), NEW u \in 1..Len(log), t <= u,
           MessageOf(t) = MessageOf(u)
    PROVE  Ssn(t) = Ssn(u)
<1>0. Len(log) \in Nat /\ t \in Nat /\ u \in Nat
  BY QueueFacts
<1>1. ASSUME NEW v \in 1..u PROVE MessageOf(v) \in SsnSet(t)
  <2>1. CASE v <= t
    <3>1. v \in 1..t
      BY <1>0, <2>1
    <3> QED BY <3>1 DEF SsnSet
  <2>2. CASE ~(v <= t)
    <3>1. v \in 1..Len(log) /\ t < v /\ v <= u
      BY <1>0, <2>2
    <3>2. MessageOf(t) <= MessageOf(v)
      BY <3>1 DEF SafeOK, LogOK, MessageOf
    <3>3. v # u => MessageOf(v) <= MessageOf(u)
      <4>1. v # u => v < u
        BY <1>0, <3>1
      <4> QED BY <3>1, <4>1 DEF SafeOK, LogOK, MessageOf
    <3>4. MessageOf(v) \in Nat /\ MessageOf(t) \in Nat
      BY <3>1, QueueFacts, EntryFacts DEF MessageOf
    <3>5. MessageOf(v) = MessageOf(t)
      BY <3>2, <3>3, <3>4
    <3>6. t \in 1..t
      BY <1>0
    <3> QED BY <3>5, <3>6 DEF SsnSet
  <2> QED BY <2>1, <2>2
<1>2. SsnSet(t) \subseteq SsnSet(u)
  <2>1. 1..t \subseteq 1..u
    BY <1>0
  <2> QED BY <2>1 DEF SsnSet
<1>3. SsnSet(t) = SsnSet(u)
  BY <1>1, <1>2 DEF SsnSet
<1> QED BY <1>3, SsnSetFacts

LEMMA LessSsn ==
    ASSUME QueueOK, SafeOK, NEW t \in 1..Len(log), NEW u \in 1..Len(log),
           MessageOf(t) < MessageOf(u)
    PROVE  Ssn(t) < Ssn(u)
<1>0. /\ Len(log) \in Nat /\ t \in Nat /\ u \in Nat
      /\ \A v \in 1..Len(log) : MessageOf(v) \in Nat
  BY QueueFacts, EntryFacts DEF MessageOf
<1>1. \A v, w \in 1..Len(log) : v <= w => MessageOf(v) <= MessageOf(w)
  <2>1. \A v, w \in 1..Len(log) : v < w => MessageOf(v) <= MessageOf(w)
    BY DEF SafeOK, LogOK, MessageOf
  <2>2. \A v, w \in 1..Len(log) : v <= w => v < w \/ v = w
    BY <1>0
  <2> QED BY <1>0, <2>1, <2>2
<1>2. t <= u
  BY <1>0, <1>1
<1>3. SsnSet(t) \subseteq SsnSet(u)
  <2>1. 1..t \subseteq 1..u
    BY <1>0, <1>2
  <2> QED BY <2>1 DEF SsnSet
<1>4. MessageOf(u) \in SsnSet(u)
  <2>1. u \in 1..u
    BY <1>0
  <2> QED BY <2>1 DEF SsnSet
<1>5. MessageOf(u) \notin SsnSet(t)
  <2>1. \A v \in 1..t : v \in 1..Len(log) /\ v <= t
    BY <1>0
  <2>2. \A v \in 1..t : MessageOf(v) <= MessageOf(t)
    BY <1>1, <2>1
  <2> QED BY <1>0, <2>1, <2>2 DEF SsnSet
<1>6. Cardinality(SsnSet(t)) <= Cardinality(SsnSet(u)) /\
      Cardinality(SsnSet(t)) # Cardinality(SsnSet(u))
  <2>1. IsFiniteSet(SsnSet(u)) /\ SsnSet(t) # SsnSet(u)
    BY <1>4, <1>5, SsnSetFacts
  <2> QED BY <1>3, <2>1, FS_Subset
<1> QED BY <1>6, SsnSetFacts

\* Chunks have the same SSN when they are of the same message, and SSNs are in
\* the order of the messages.
LEMMA SsnOrder ==
    ASSUME QueueOK, SafeOK, NEW t \in 1..Len(log), NEW u \in 1..Len(log)
    PROVE  /\ Ssn(t) \in Nat /\ Ssn(u) \in Nat
           /\ Ssn(t) = Ssn(u) <=> MessageOf(t) = MessageOf(u)
           /\ Ssn(t) < Ssn(u) <=> MessageOf(t) < MessageOf(u)
<1>1. t \in Nat /\ u \in Nat /\ MessageOf(t) \in Nat /\ MessageOf(u) \in Nat
  BY QueueFacts, EntryFacts DEF MessageOf
<1>2. MessageOf(t) = MessageOf(u) => Ssn(t) = Ssn(u)
  <2>1. t <= u \/ u <= t
    BY <1>1
  <2> QED BY <2>1, SameSsn
<1>3. MessageOf(t) < MessageOf(u) => Ssn(t) < Ssn(u)
  BY LessSsn
<1>4. MessageOf(u) < MessageOf(t) => Ssn(u) < Ssn(t)
  BY LessSsn
<1>5. Ssn(t) \in Nat /\ Ssn(u) \in Nat
  BY SsnSetFacts
<1> QED BY <1>1, <1>2, <1>3, <1>4, <1>5

\* The SSN of a chunk stays what it is.
LEMMA SsnStays ==
    ASSUME QueueOK, QueueOK', StepOK, NEW t \in 0..Len(log)
    PROVE  Ssn(t)' = Ssn(t)
<1>1. \A u \in 1..t : u \in 1..Len(log)
  BY QueueFacts
<1>2. \A u \in 1..t : log'[u].msg = log[u].msg
  BY <1>1 DEF StepOK
<1>3. {log'[u].msg : u \in 1..t} = {log[u].msg : u \in 1..t}
  BY <1>2
<1>4. Ssn(t)' = Cardinality({log'[u].msg : u \in 1..t}) - 1
  BY DEF Ssn, MessageOf
<1>5. Ssn(t) = Cardinality({log[u].msg : u \in 1..t}) - 1
  BY DEF Ssn, MessageOf
<1> QED BY <1>3, <1>4, <1>5


-----------------------------------------------------------------------------
(* What the peer reads *)

\* All fragments of the message m are in A.
HasAll(m, A) == \A k \in 1..Fragments[m] : \E t \in A : log[t] = [msg |-> m, frag |-> k]

\* The messages read are in order and whole, and their SSNs are below the next
\* one.
ReadOK(r, A) ==
    /\ \A i, j \in 1..Len(r.read) : i < j => r.read[i] < r.read[j]
    /\ \A i \in 1..Len(r.read) :
         HasAll(r.read[i], A) /\ \E u \in A : MessageOf(u) = r.read[i] /\ Ssn(u) < r.next

\* Chunks of one message that are whole are the run of all its fragments.
LEMMA WholeFacts ==
    ASSUME QueueOK, SafeOK, NEW C, C \subseteq 1..Len(log), Whole(C),
           \A t, u \in C : Ssn(t) = Ssn(u)
    PROVE  /\ Min(C) \in C /\ Max(C) \in C /\ C = Min(C)..Max(C)
           /\ log[Min(C)].frag = 1
           /\ log[Max(C)].frag = Fragments[MessageOf(Max(C))] /\ MessageOf(Max(C)) = MessageOf(Min(C))
           /\ HasAll(MessageOf(Min(C)), C)
<1> DEFINE a == Min(C)
           b == Max(C)
           m == MessageOf(a)
<1>0. Len(log) \in Nat /\ C # {} /\ C \subseteq Nat /\ C \subseteq 0..Len(log)
  BY QueueFacts DEF Whole
<1>1. a \in C /\ b \in C /\ \A x \in C : a <= x /\ x <= b
  BY <1>0, MinOf, MaxOf
<1>2. a \in Nat /\ b \in Nat /\ a \in 1..Len(log) /\ b \in 1..Len(log) /\ a <= b
  BY <1>0, <1>1
<1>3. log[a].frag = 1 /\ log[b].frag = Fragments[MessageOf(b)] /\ b - a = Cardinality(C) - 1
  BY DEF Whole
<1> HIDE DEF a, b
<1>4. C = a..b
  <2>1. IsFiniteSet(a..b) /\ Cardinality(a..b) = b - a + 1
    BY <1>2, FS_Interval
  <2>2. C \subseteq a..b
    BY <1>0, <1>1, <1>2
  <2>3. Cardinality(C) \in Nat
    BY <1>0, FiniteInterval
  <2>4. Cardinality(C) = Cardinality(a..b)
    BY <1>2, <1>3, <2>1, <2>3
  <2> QED BY <2>1, <2>2, <2>4, FS_Subset
<1>5. \A t \in C : MessageOf(t) = m
  BY <1>1, SsnOrder
<1>6. /\ m \in Messages /\ Fragments[m] \in Nat \ {0} /\ MessageOf(b) = m
      /\ \A t \in C : log[t] \in Entry /\ log[t].frag \in Nat
  <2>1. \A t \in C : log[t] \in Entry /\ log[t].frag \in Nat /\ MessageOf(t) \in Messages
    BY QueueFacts, EntryFacts
  <2>2. m \in Messages /\ MessageOf(b) = m
    BY <1>1, <1>5, <2>1
  <2> QED BY <2>1, <2>2, FragmentsType
<1>7. ASSUME NEW t \in C PROVE log[t].frag = t - a + 1
  <2>0. t \in 1..Len(log) /\ t \in Nat /\ a <= t /\ t <= b
    BY <1>0, <1>1
  <2>1. CASE t = a
    <3>1. a - a + 1 = 1
      BY <1>2
    <3> QED BY <1>3, <2>1, <3>1
  <2>2. CASE t # a
    <3>1. a < t /\ log[a].msg = log[t].msg
      BY <1>1, <1>2, <1>5, <2>0, <2>2 DEF MessageOf
    <3>2. log[t].frag # 0
      <4>1. CASE t = b
        BY <1>3, <1>6, <4>1
      <4>2. CASE t # b
        <5>1. t < b /\ log[t].msg = log[b].msg
          BY <1>1, <1>2, <1>5, <2>0, <4>2 DEF MessageOf
        <5>2. log[t].frag >= 1
          BY <1>2, <2>0, <5>1 DEF SafeOK, LogOK
        <5> QED BY <1>6, <5>2
      <4> QED BY <4>1, <4>2
    <3>3. log[t].frag = log[a].frag + (t - a)
      BY <1>2, <2>0, <3>1, <3>2 DEF SafeOK, LogOK
    <3> QED BY <1>2, <1>3, <2>0, <3>3
  <2> QED BY <2>1, <2>2
<1>8. b - a + 1 = Fragments[m]
  BY <1>1, <1>3, <1>6, <1>7
<1>9. HasAll(m, C)
  <2> SUFFICES ASSUME NEW k \in 1..Fragments[m]
               PROVE  \E t \in C : log[t] = [msg |-> m, frag |-> k]
    BY DEF HasAll
  <2> DEFINE t == a + k - 1
  <2>1. t \in a..b /\ t - a + 1 = k
    BY <1>2, <1>6, <1>8
  <2> HIDE DEF t
  <2>2. t \in C /\ log[t].msg = m /\ log[t].frag = k /\ log[t] \in Entry
    BY <1>4, <1>5, <1>6, <1>7, <2>1 DEF MessageOf
  <2>3. log[t] = [msg |-> m, frag |-> k]
    BY <2>2 DEF Entry
  <2> QED BY <2>2, <2>3
<1>10. a = Min(C) /\ b = Max(C)
  BY DEF a, b
<1> QED BY <1>1, <1>3, <1>4, <1>6, <1>9, <1>10

\* A stream with the same messages read, and a later next SSN.
LEMMA ReadGrows ==
    ASSUME NEW A, NEW B, A \subseteq B, NEW r, NEW q, ReadOK(r, A), q.read = r.read,
           r.next \in Nat, q.next \in Nat, r.next <= q.next, \A u \in A : Ssn(u) \in Nat
    PROVE  ReadOK(q, B)
<1>1. \A i \in 1..Len(r.read) : HasAll(r.read[i], B)
  BY DEF ReadOK, HasAll
<1>2. \A i \in 1..Len(r.read) : \E u \in B : MessageOf(u) = r.read[i] /\ Ssn(u) < q.next
  BY DEF ReadOK
<1> QED BY <1>1, <1>2 DEF ReadOK

\* Messages n, n + 1, ..., n + k - 1 (by SSN) that are whole are read.
LEMMA ReadMore ==
    ASSUME QueueOK, SafeOK, NEW A, A \subseteq 1..Len(log), NEW r \in Streams(A), ReadOK(r, A),
           NEW k \in Nat, NEW q \in Streams(A), q.next = r.next + k,
           Len(q.read) = Len(r.read) + k,
           \A i \in 1..Len(r.read) : q.read[i] = r.read[i],
           \A i \in 1..k : \E C : /\ C \subseteq A /\ Whole(C) /\ \A t \in C : Ssn(t) = r.next + i - 1
                                  /\ q.read[Len(r.read) + i] = MessageOf(Min(C))
    PROVE  ReadOK(q, A)
<1> DEFINE n == Len(r.read)
<1>0. r.next \in Nat /\ q.next \in Nat /\ n \in Nat /\ r.read \in Seq(Messages)
  BY LenProperties DEF Streams
<1>1. ASSUME NEW i \in 1..k
      PROVE  /\ HasAll(q.read[n + i], A)
             /\ \E u \in A : MessageOf(u) = q.read[n + i] /\ Ssn(u) = r.next + i - 1
  <2>1. PICK C : /\ C \subseteq A /\ Whole(C) /\ \A t \in C : Ssn(t) = r.next + i - 1
                 /\ q.read[n + i] = MessageOf(Min(C))
    OBVIOUS
  <2>2. C \subseteq 1..Len(log) /\ \A t, u \in C : Ssn(t) = Ssn(u)
    BY <2>1
  <2>3. Min(C) \in C /\ HasAll(MessageOf(Min(C)), C)
    BY <2>1, <2>2, WholeFacts
  <2> QED BY <2>1, <2>3 DEF HasAll
<1> HIDE DEF n
<1>2. ASSUME NEW i \in 1..(n + k)
      PROVE  \/ i \in 1..n
             \/ i > n /\ i - n \in 1..k /\ i = n + (i - n)
  BY <1>0
<1>3. ASSUME NEW i \in 1..n
      PROVE  /\ q.read[i] = r.read[i] /\ HasAll(r.read[i], A)
             /\ \E u \in A : MessageOf(u) = r.read[i] /\ Ssn(u) < r.next
  BY DEF ReadOK, n
<1>4. ASSUME NEW i \in 1..(n + k)
      PROVE  HasAll(q.read[i], A) /\ \E u \in A : MessageOf(u) = q.read[i] /\ Ssn(u) < q.next
  <2>1. CASE i \in 1..n
    <3>1. PICK u \in A : MessageOf(u) = r.read[i] /\ Ssn(u) < r.next
      BY <1>3, <2>1
    <3>2. Ssn(u) < q.next
      <4>1. Ssn(u) \in Nat
        BY SsnOrder
      <4> QED BY <1>0, <3>1, <4>1
    <3> QED BY <1>3, <2>1, <3>1, <3>2
  <2>2. CASE i > n /\ i - n \in 1..k /\ i = n + (i - n)
    <3> DEFINE j == i - n
    <3>1. j \in 1..k /\ i = n + j
      BY <2>2
    <3> HIDE DEF j
    <3>2. PICK u \in A : MessageOf(u) = q.read[i] /\ Ssn(u) = r.next + j - 1
      BY <1>1, <3>1
    <3>3. Ssn(u) < q.next
      BY <1>0, <3>1, <3>2
    <3> QED BY <1>1, <3>1, <3>2, <3>3
  <2> QED BY <1>2, <2>1, <2>2
<1>5. ASSUME NEW i \in 1..(n + k), NEW j \in 1..(n + k), i < j
      PROVE  q.read[i] < q.read[j]
  <2>1. CASE j \in 1..n
    <3>1. i \in 1..n
      BY <1>0, <1>5, <2>1
    <3> QED BY <1>3, <1>5, <2>1, <3>1 DEF ReadOK, n
  <2>2. CASE j > n /\ j - n \in 1..k /\ j = n + (j - n)
    <3> DEFINE jj == j - n
    <3>1. jj \in 1..k /\ j = n + jj
      BY <2>2
    <3> HIDE DEF jj
    <3>2. PICK v \in A : MessageOf(v) = q.read[j] /\ Ssn(v) = r.next + jj - 1
      BY <1>1, <3>1
    <3>3. \E u \in A : MessageOf(u) = q.read[i] /\ Ssn(u) < Ssn(v)
      <4>1. CASE i \in 1..n
        <5>1. PICK u \in A : MessageOf(u) = r.read[i] /\ Ssn(u) < r.next
          BY <1>3, <4>1
        <5>2. Ssn(u) \in Nat
          BY SsnOrder
        <5>3. Ssn(u) < Ssn(v)
          BY <1>0, <3>1, <3>2, <5>1, <5>2
        <5> QED BY <1>3, <4>1, <5>1, <5>3
      <4>2. CASE i > n /\ i - n \in 1..k /\ i = n + (i - n)
        <5> DEFINE ii == i - n
        <5>1. ii \in 1..k /\ i = n + ii
          BY <4>2
        <5> HIDE DEF ii
        <5>2. PICK u \in A : MessageOf(u) = q.read[i] /\ Ssn(u) = r.next + ii - 1
          BY <1>1, <5>1
        <5>3. ii < jj
          BY <1>0, <1>5, <3>1, <5>1
        <5>4. Ssn(u) < Ssn(v)
          BY <1>0, <3>1, <3>2, <5>1, <5>2, <5>3
        <5> QED BY <5>2, <5>4
      <4> QED BY <1>2, <4>1, <4>2
    <3> QED BY <3>2, <3>3, SsnOrder
  <2> QED BY <1>2, <2>1, <2>2
<1>6. Len(q.read) = n + k
  BY DEF n
<1> QED BY <1>4, <1>5, <1>6 DEF ReadOK


LEMMA AssembleRead ==
    ASSUME QueueOK, SafeOK, NEW A, A \subseteq 1..Len(log), NEW r \in Streams(A), ReadOK(r, A)
    PROVE  TryToAssembleMessages(r) \in Streams(A) /\ ReadOK(TryToAssembleMessages(r), A)
<1> DEFINE q == TryToAssembleMessages(r)
<1>1. PICK k \in Nat :
        /\ CanAssemble(r, k) /\ q \in Streams(A) /\ q.next = r.next + k
        /\ Len(q.read) = Len(r.read) + k
        /\ \A i \in 1..Len(r.read) : q.read[i] = r.read[i]
        /\ \A i \in 1..k : q.read[Len(r.read) + i] = MessageOf(Min(ChunksOf(r, r.next + i - 1)))
  BY AssembleFacts
<1> HIDE DEF q
<1>0. r.next \in Nat /\ r.held \subseteq A
  BY DEF Streams
<1>2. ASSUME NEW i \in 1..k
      PROVE  \E C : /\ C \subseteq A /\ Whole(C) /\ \A t \in C : Ssn(t) = r.next + i - 1
                    /\ q.read[Len(r.read) + i] = MessageOf(Min(C))
  <2> DEFINE C == ChunksOf(r, r.next + i - 1)
  <2>1. r.next + i - 1 \in r.next..(r.next + k - 1)
    BY <1>0
  <2>2. Whole(C)
    BY <1>1, <2>1 DEF CanAssemble
  <2>3. C \subseteq A /\ \A t \in C : Ssn(t) = r.next + i - 1
    BY <1>0 DEF ChunksOf
  <2>4. q.read[Len(r.read) + i] = MessageOf(Min(C))
    BY <1>1
  <2> QED BY <2>2, <2>3, <2>4
<1>3. ReadOK(q, A)
  BY <1>1, <1>2, ReadMore
<1> QED BY <1>1, <1>3 DEF q

LEMMA EraseRead ==
    ASSUME QueueOK, SafeOK, NEW A, A \subseteq 1..Len(log), NEW r \in Streams(A), ReadOK(r, A),
           NEW f \in 0..Len(log)
    PROVE  EraseTo(r, f) \in Streams(A) /\ ReadOK(EraseTo(r, f), A)
<1> DEFINE q == Erased(r, f)
<1>1. q \in Streams(A)
  BY SsnType, StreamUpdates
<1>2. q.read = r.read /\ r.next \in Nat /\ q.next \in Nat /\ r.next <= q.next
  <2>1. q.read = r.read /\ q.next = Max2(r.next, Ssn(f) + 1)
    BY DEF Erased
  <2>2. r.next \in Nat /\ Ssn(f) + 1 \in Nat
    BY SsnType DEF Streams
  <2> QED BY <2>1, <2>2 DEF Max2
<1>3. \A u \in A : Ssn(u) \in Nat
  BY SsnOrder
<1>4. A \subseteq A
  OBVIOUS
<1> HIDE DEF q
<1>5. ReadOK(q, A)
  BY <1>2, <1>3, <1>4, ReadGrows
<1>6. EraseTo(r, f) = TryToAssembleMessages(q)
  BY StreamSteps DEF q
<1> QED BY <1>1, <1>5, <1>6, AssembleRead

LEMMA AddRead ==
    ASSUME QueueOK, SafeOK, NEW A, A \subseteq 1..Len(log), NEW r \in Streams(A), ReadOK(r, A),
           NEW t \in 1..Len(log)
    PROVE  ReadOK(AddChunk(r, t), A \cup {t})
<1> DEFINE B == A \cup {t}
<1>0. r.next \in Nat /\ B \subseteq 1..Len(log) /\ A \subseteq B /\ r.read \in Seq(Messages)
  BY DEF Streams
<1>1. \A u \in A : Ssn(u) \in Nat
  BY SsnOrder
<1>2. WithHeld(r, t) \in Streams(B) /\ WithRead(r, t) \in Streams(B) /\ r \in Streams(B)
  BY StreamUpdates DEF Streams
<1> HIDE DEF B
<1>3. ReadOK(WithHeld(r, t), B)
  <2> DEFINE q == WithHeld(r, t)
  <2>1. q.read = r.read /\ q.next = r.next /\ r.next <= r.next
    BY <1>0 DEF WithHeld
  <2> HIDE DEF q
  <2>2. ReadOK(q, B)
    BY <1>0, <1>1, <2>1, ReadGrows
  <2> QED BY <2>2 DEF q
<1>4. ASSUME Ssn(t) = r.next, Whole({t}) PROVE ReadOK(WithRead(r, t), B)
  <2> DEFINE q == WithRead(r, t)
             k == 1
  <2>1. ReadOK(r, B)
    <3>1. r.read = r.read /\ r.next <= r.next
      BY <1>0
    <3> QED BY <1>0, <1>1, <3>1, ReadGrows
  <2>2. q.next = r.next + k /\ q.read = Append(r.read, MessageOf(t)) /\ k \in Nat
    BY DEF WithRead
  <2>3. /\ Len(q.read) = Len(r.read) + k /\ q.read[Len(r.read) + k] = MessageOf(t)
        /\ \A i \in 1..Len(r.read) : q.read[i] = r.read[i]
    <3>1. MessageOf(t) \in Messages
      BY QueueFacts
    <3> QED BY <1>0, <2>2, <3>1, AppendProperties
  <2>4. ASSUME NEW i \in 1..k
        PROVE  \E C : /\ C \subseteq B /\ Whole(C) /\ \A u \in C : Ssn(u) = r.next + i - 1
                      /\ q.read[Len(r.read) + i] = MessageOf(Min(C))
    <3> DEFINE C == {t}
    <3>1. i = k /\ r.next + i - 1 = r.next
      BY <1>0
    <3>2. C \subseteq B /\ Whole(C) /\ \A u \in C : Ssn(u) = r.next + i - 1
      BY <1>4, <3>1 DEF B
    <3>3. Min(C) = t
      <4>1. C \subseteq Nat /\ C # {}
        OBVIOUS
      <4>2. Min(C) \in C
        BY <4>1, MinOf
      <4> QED BY <4>2
    <3> QED BY <2>3, <3>1, <3>2, <3>3
  <2>5. q \in Streams(B)
    BY <1>2
  <2> HIDE DEF q, k
  <2>6. ReadOK(q, B)
    BY <1>0, <1>2, <2>1, <2>2, <2>3, <2>4, <2>5, ReadMore
  <2> QED BY <2>6 DEF q
<1>5. ReadOK(AddChunk(r, t), B)
  <2>1. CASE /\ Ssn(t) = r.next /\ Whole({t})
             /\ AddChunk(r, t) = TryToAssembleMessages(WithRead(r, t))
    BY <1>0, <1>2, <1>4, <2>1, AssembleRead
  <2>2. CASE AddChunk(r, t) = TryToAssembleMessages(WithHeld(r, t))
    BY <1>0, <1>2, <1>3, <2>2, AssembleRead
  <2>3. CASE AddChunk(r, t) = WithHeld(r, t)
    BY <1>3, <2>3
  <2> QED BY <2>1, <2>2, <2>3, StreamSteps
<1> QED BY <1>5 DEF B

ReadInv == ReadOK(rx, arrived)

\* A peer step that keeps ReadOK in terms of the log before it keeps ReadInv.
LEMMA ReadPrimed ==
    ASSUME QueueOK, QueueOK', StepOK, arrived' \subseteq 1..Len(log), ReadOK(rx', arrived')
    PROVE  ReadInv'
<1>1. \A t \in arrived' : log'[t] = log[t] /\ log'[t].msg = MessageOf(t)
  BY DEF StepOK, MessageOf
<1>2. \A t \in arrived' : Ssn(t)' = Ssn(t)
  <2>1. \A t \in arrived' : t \in 0..Len(log)
    BY QueueFacts
  <2> QED BY <2>1, SsnStays
<1>3. ASSUME NEW i \in 1..Len(rx'.read)
      PROVE  /\ \A k \in 1..Fragments[rx'.read[i]] :
                  \E t \in arrived' : log'[t] = [msg |-> rx'.read[i], frag |-> k]
             /\ \E u \in arrived' : log'[u].msg = rx'.read[i] /\ Ssn(u)' < rx'.next
  <2>1. /\ \A k \in 1..Fragments[rx'.read[i]] :
             \E t \in arrived' : log[t] = [msg |-> rx'.read[i], frag |-> k]
        /\ \E u \in arrived' : MessageOf(u) = rx'.read[i] /\ Ssn(u) < rx'.next
    BY DEF ReadOK, HasAll
  <2> QED BY <1>1, <1>2, <2>1
<1>4. \A i, j \in 1..Len(rx'.read) : i < j => rx'.read[i] < rx'.read[j]
  BY DEF ReadOK
<1> QED BY <1>3, <1>4 DEF ReadInv, ReadOK, HasAll, MessageOf

LEMMA NextRead ==
    ASSUME QueueOK, QueueOK', SafeOK, StepOK, ReadInv, [Next]_vars
    PROVE  ReadInv'
<1>0. arrived \subseteq 1..Len(log) /\ rx \in Streams(arrived) /\ ReadOK(rx, arrived)
      /\ fwds \subseteq 0..Len(log)
  BY PeerFacts DEF ReadInv
<1>1. CASE UNCHANGED <<rx, arrived>>
  BY <1>0, <1>1, ReadPrimed
<1>2. CASE \E t \in sent : ReceiveData(t)
  <2>1. PICK t \in sent : ReceiveData(t)
    BY <1>2
  <2>2. rx' = AddChunk(rx, t) /\ arrived' = arrived \cup {t} /\ t \in 1..Len(log)
    BY <2>1, PeerFacts DEF ReceiveData
  <2>3. ReadOK(rx', arrived') /\ arrived' \subseteq 1..Len(log)
    BY <1>0, <2>2, AddRead
  <2> QED BY <2>3, ReadPrimed
<1>3. CASE \E f \in fwds : ReceiveForwardTsn(f)
  <2>1. PICK f \in fwds : ReceiveForwardTsn(f)
    BY <1>3
  <2>2. arrived' = arrived /\ (rx' = rx \/ rx' = EraseTo(rx, f)) /\ f \in 0..Len(log)
    BY <1>0, <2>1 DEF ReceiveForwardTsn, HandleForwardTsn
  <2>3. ReadOK(rx', arrived')
    BY <1>0, <2>2, EraseRead
  <2> QED BY <1>0, <2>2, <2>3, ReadPrimed
<1>4. CASE \E b \in resets : ReceiveResetRequest(b)
  <2>1. PICK b \in resets : ReceiveResetRequest(b)
    BY <1>4
  <2>2. arrived' = arrived /\ (rx' = rx \/ rx' = EraseToEach(rx, deferred.fwds))
    BY <2>1 DEF ReceiveResetRequest
  <2> DEFINE S == {x \in Streams(arrived) : ReadOK(x, arrived)}
             fs == deferred.fwds
  <2>3. \A x \in S, f \in fwds : EraseTo(x, f) \in S
    BY <1>0, EraseRead
  <2>4. rx \in S /\ fs \in Seq(fwds)
    BY <1>0, PeerFacts
  <2> HIDE DEF S, fs
  <2>5. EraseToEach(rx, fs) \in S
    BY <2>3, <2>4, EraseToEachKeeps
  <2>6. ReadOK(rx', arrived')
    BY <1>0, <2>2, <2>5 DEF S, fs
  <2> QED BY <1>0, <2>2, <2>6, ReadPrimed
<1>5. CASE \/ Send \/ LimitEnds \/ (\E m \in Messages : Expire(m)) \/ SendNothing
           \/ ResetStreams \/ UNCHANGED vars \/ SendControl
           \/ Retransmit \/ Produce \/ ProduceExpired \/ OnRtxTimerExpiry
  <2>1. UNCHANGED <<rx, arrived>>
    BY <1>5 DEF Send, LimitEnds, Expire, SendNothing, ResetStreams, vars, SendControl,
                Retransmit, Produce, ProduceExpired, OnRtxTimerExpiry, peer, reassembly
  <2> QED BY <1>1, <2>1
<1>6. CASE \E s \in sacks, a \in PeerWindows : HandleSack(s, a)
  <2>1. UNCHANGED <<rx, arrived>>
    BY <1>6, HandleSackFacts DEF reassembly
  <2> QED BY <1>1, <2>1
<1> QED BY <1>2, <1>3, <1>4, <1>5, <1>6 DEF Next

LEMMA InitRead == Init => ReadInv
<1> SUFFICES ASSUME Init PROVE ReadInv
  OBVIOUS
<1>1. Len(rx.read) = 0
  BY EmptySeq DEF Init
<1>2. 1..Len(rx.read) = {}
  BY <1>1
<1> QED BY <1>2 DEF ReadInv, ReadOK

\* OrderedStream gives the client each message at most once, in the order sent and
\* only when all its fragments have arrived, for any number and length of messages
\* and whatever FORWARD-TSNs and stream resets come between.
THEOREM ReadingIsSound == Spec => []ReadIsSound
<1> DEFINE Inv == QueueOK /\ SafeOK /\ ReadInv
<1>1. Init => Inv
  BY InitQueueOK, InitSafe, InitRead
<1>2. Inv /\ [Next]_vars => Inv'
  BY NextQueueOK, NextSafe, NextRead
<1>3. Inv => ReadIsSound
  <2> SUFFICES ASSUME QueueOK, ReadInv PROVE ReadIsSound
    OBVIOUS
  <2>1. rx.read \in Seq(Messages)
    BY PeerFacts DEF Streams
  <2>2. DOMAIN rx.read = 1..Len(rx.read)
    BY <2>1, LenProperties
  <2>3. \A m \in ToSet(rx.read) : \E i \in 1..Len(rx.read) : m = rx.read[i]
    BY <2>2 DEF ToSet
  <2> QED BY <2>2, <2>3 DEF ReadIsSound, ReadInv, ReadOK, HasAll
<1> QED BY <1>1, <1>2, <1>3, PTL DEF Spec


-----------------------------------------------------------------------------
(* Stale chunks *)

\* SSNs are in the order of the messages, before and after a step.
SsnOrdered ==
    \A t, u \in 1..Len(log) : Ssn(t) \in Nat /\ (MessageOf(t) < MessageOf(u) => Ssn(t) < Ssn(u))

LEMMA SsnsOrdered == QueueOK /\ SafeOK => SsnOrdered
BY SsnOrder DEF SsnOrdered

LEMMA SsnsStayOrdered == QueueOK' /\ SafeOK' => SsnOrdered'
BY SsnsOrdered, PTL


\* A stream was reset between the chunks of t's message, before t.
Cut(t) == \E b \in resets \cap 2..t : MessageOf(b - 1) = MessageOf(t)

\* The chunks that the peer holds or may still process, having processed those of
\* A and skipped 1..g, are of messages that it neither read nor skipped, or cut;
\* what comes next has not been sent yet, or follows a message sent in full.
FreshOK(r, A, g) ==
    /\ \A t \in r.held : Ssn(t) < r.next => Cut(t)
    /\ \A t \in 1..Len(log) :
         t \notin A /\ t > g /\ log[t].frag # 0 /\ Ssn(t) < r.next => Cut(t)
    /\ r.next = 0 \/ \E u \in 1..Len(log) : MessageOf(u) < head.msg /\ Ssn(u) = r.next - 1

\* A FORWARD-TSN ends inside of a message only where a stream was reset.
EndsAtReset(f) ==
    f # 0 => /\ MessageOf(f) < head.msg
             /\ f + 1 <= Len(log) /\ MessageOf(f + 1) = MessageOf(f) => f + 1 \in resets
ForwardOK ==
    /\ \A f \in fwds : EndsAtReset(f)
    /\ breaks \subseteq resets
    /\ \A t \in sent : log[t].frag # 0
    /\ \A i \in 1..Len(deferred.fwds) : deferred.fwds[i] <= skip

\* TSNs of one message carry different fragments.
LEMMA SameFragment ==
    ASSUME QueueOK, SafeOK, NEW t \in 1..Len(log), NEW u \in 1..Len(log),
           log[t] = log[u], log[u].frag # 0
    PROVE  t = u
<1>0. t \in Nat /\ u \in Nat /\ log[t].frag \in Nat /\ log[u].frag \in Nat
  BY QueueFacts, EntryFacts
<1>1. t < u => log[u].frag = log[t].frag + (u - t)
  BY DEF SafeOK, LogOK
<1>2. u < t => log[t].frag = log[u].frag + (t - u)
  BY DEF SafeOK, LogOK
<1> QED BY <1>0, <1>1, <1>2

\* When a message is read, no chunk of it is missing.
LEMMA NothingMissing ==
    ASSUME QueueOK, SafeOK, NEW C, C \subseteq 1..Len(log), Whole(C),
           \A t, u \in C : Ssn(t) = Ssn(u)
    PROVE  /\ Min(C) \in C /\ MessageOf(Min(C)) < head.msg
           /\ \A t \in 1..Len(log) :
                log[t].frag # 0 /\ MessageOf(t) = MessageOf(Min(C)) => t \in C
<1>1. /\ Min(C) \in C /\ Max(C) \in C /\ HasAll(MessageOf(Min(C)), C)
      /\ log[Max(C)].frag = Fragments[MessageOf(Max(C))] /\ MessageOf(Max(C)) = MessageOf(Min(C))
  BY WholeFacts
<1>2. MessageOf(Min(C)) < head.msg
  <2>1. MessageOf(Max(C)) < head.msg
    BY <1>1 DEF SafeOK, LogOK, MessageOf
  <2> QED BY <1>1, <2>1
<1>3. ASSUME NEW t \in 1..Len(log), log[t].frag # 0, MessageOf(t) = MessageOf(Min(C))
      PROVE  t \in C
  <2> DEFINE m == MessageOf(Min(C))
             k == log[t].frag
  <2>1. log[t] = [msg |-> m, frag |-> k] /\ k \in Nat /\ m \in Messages /\ Fragments[m] \in Nat
    <3>1. log[t] \in Entry /\ log[t].msg = m
      BY <1>3, QueueFacts DEF MessageOf
    <3>2. log[t] = [msg |-> m, frag |-> k] /\ k \in Nat /\ m \in Messages
      BY <3>1 DEF Entry
    <3> QED BY <3>2, FragmentsType
  <2>2. k <= Fragments[m]
    <3> DEFINE z == Max(C)
    <3>0. /\ z \in 1..Len(log) /\ z \in Nat /\ t \in Nat /\ log[z].msg = m
          /\ log[z].frag = Fragments[m] /\ log[z].frag \in Nat
      BY <1>1, QueueFacts, EntryFacts DEF MessageOf
    <3> HIDE DEF z
    <3>1. CASE t < z
      <4>1. log[z].frag = log[t].frag + (z - t)
        <5>1. log[z].frag # 0
          BY <2>1, <3>0, FragmentsType
        <5> QED BY <2>1, <3>0, <3>1, <5>1 DEF SafeOK, LogOK
      <4> QED BY <2>1, <3>0, <3>1, <4>1
    <3>2. CASE t = z
      BY <2>1, <3>0, <3>2
    <3>3. CASE z < t
      <4>1. log[z].frag # Fragments[log[z].msg]
        BY <2>1, <3>0, <3>3 DEF SafeOK, LogOK
      <4> QED BY <3>0, <4>1
    <3> QED BY <3>0, <3>1, <3>2, <3>3
  <2>3. k \in 1..Fragments[m]
    BY <1>3, <2>1, <2>2
  <2>4. PICK u \in C : log[u] = [msg |-> m, frag |-> k]
    BY <1>1, <2>3 DEF HasAll
  <2>5. t = u
    <3>1. u \in 1..Len(log) /\ log[t] = log[u] /\ log[u].frag # 0
      BY <1>3, <2>1, <2>4
    <3> QED BY <3>1, SameFragment
  <2> QED BY <2>5
<1> QED BY <1>1, <1>2, <1>3

LEMMA AssembleFresh ==
    ASSUME QueueOK, SafeOK, NEW A, A \subseteq 1..Len(log), NEW r \in Streams(A), NEW g,
           FreshOK(r, A, g)
    PROVE  FreshOK(TryToAssembleMessages(r), A, g)
<1> DEFINE q == TryToAssembleMessages(r)
<1>1. PICK k \in Nat :
        /\ CanAssemble(r, k) /\ q \in Streams(A) /\ q.next = r.next + k
        /\ q.held = {t \in r.held : Ssn(t) \notin r.next..(r.next + k - 1)}
  BY AssembleFacts
<1> HIDE DEF q
<1>0. r.next \in Nat /\ r.held \subseteq A /\ \A t \in 1..Len(log) : Ssn(t) \in Nat
  BY SsnOrder DEF Streams
<1>2. ASSUME NEW n \in r.next..(r.next + k - 1)
      PROVE  /\ \E u \in 1..Len(log) : MessageOf(u) < head.msg /\ Ssn(u) = n
             /\ \A t \in 1..Len(log) : log[t].frag # 0 /\ Ssn(t) = n => t \in A
  <2> DEFINE C == ChunksOf(r, n)
  <2>1. Whole(C)
    BY <1>1 DEF CanAssemble
  <2>2. C \subseteq A /\ C \subseteq 1..Len(log) /\ \A t \in C : Ssn(t) = n
    BY <1>0 DEF ChunksOf
  <2> HIDE DEF C
  <2>3. /\ Min(C) \in C /\ MessageOf(Min(C)) < head.msg
        /\ \A t \in 1..Len(log) :
             log[t].frag # 0 /\ MessageOf(t) = MessageOf(Min(C)) => t \in C
    BY <2>1, <2>2, NothingMissing
  <2>4. \A t \in 1..Len(log) : Ssn(t) = n => MessageOf(t) = MessageOf(Min(C))
    BY <2>2, <2>3, SsnOrder
  <2> QED BY <2>2, <2>3, <2>4
<1>3. \A t \in 1..Len(log) : Ssn(t) < r.next + k => Ssn(t) < r.next \/ Ssn(t) \in r.next..(r.next + k - 1)
  BY <1>0
<1>4. \A t \in q.held : Ssn(t) < q.next => Cut(t)
  <2>1. q.held \subseteq 1..Len(log)
    BY <1>0, <1>1
  <2> QED BY <1>1, <1>3, <2>1 DEF FreshOK
<1>5. \A t \in 1..Len(log) : t \notin A /\ t > g /\ log[t].frag # 0 /\ Ssn(t) < q.next => Cut(t)
  BY <1>1, <1>2, <1>3 DEF FreshOK
<1>6. q.next = 0 \/ \E u \in 1..Len(log) : MessageOf(u) < head.msg /\ Ssn(u) = q.next - 1
  <2>1. CASE k = 0
    BY <1>0, <1>1, <2>1 DEF FreshOK
  <2>2. CASE k # 0
    <3>1. r.next + k - 1 \in r.next..(r.next + k - 1)
      BY <1>0, <2>2
    <3>2. \E u \in 1..Len(log) : MessageOf(u) < head.msg /\ Ssn(u) = r.next + k - 1
      BY <1>2, <3>1
    <3>3. q.next - 1 = r.next + k - 1
      <4>1. q.next = r.next + k
        BY <1>1
      <4>2. r.next \in Nat
        BY <1>0
      <4> QED BY <4>1, <4>2
    <3> QED BY <3>2, <3>3
  <2> QED BY <2>1, <2>2
<1>7. FreshOK(q, A, g)
  BY <1>4, <1>5, <1>6 DEF FreshOK
<1> QED BY <1>7 DEF q


\* More is skipped, and what is skipped ends at resets.
LEMMA EraseFresh ==
    ASSUME QueueOK, SafeOK, NEW A, A \subseteq 1..Len(log), NEW r \in Streams(A),
           NEW f \in 0..Len(log), NEW g \in Nat, f <= g, EndsAtReset(f), FreshOK(r, A, g)
    PROVE  EraseTo(r, f) \in Streams(A) /\ FreshOK(EraseTo(r, f), A, g)
<1> DEFINE q == Erased(r, f)
<1>0. /\ r.next \in Nat /\ r.held \subseteq A /\ Len(log) \in Nat /\ f \in Nat
      /\ \A t \in 1..Len(log) : Ssn(t) \in Nat /\ MessageOf(t) \in Nat /\ t \in Nat
      /\ Ssn(f) + 1 \in Nat
  <2>1. r.next \in Nat /\ r.held \subseteq A
    BY DEF Streams
  <2>2. /\ log \in Seq(Entry) /\ Len(log) \in Nat /\ f \in Nat
        /\ \A t \in 1..Len(log) : t \in Nat
    BY QueueFacts
  <2>3. \A t \in 1..Len(log) : MessageOf(t) \in Nat
    BY <2>2, EntryFacts DEF MessageOf
  <2>4. \A t \in 1..Len(log) : Ssn(t) \in Nat
    BY SsnOrder
  <2>5. Ssn(f) + 1 \in Nat
    BY SsnType
  <2> QED BY <2>1, <2>2, <2>3, <2>4, <2>5
<1>1. q \in Streams(A)
  BY SsnType, StreamUpdates
<1>2. /\ q.next = Max2(r.next, Ssn(f) + 1) /\ q.held = {t \in r.held : Ssn(t) > Ssn(f)}
  BY DEF Erased
<1>3. f = 0 => Ssn(f) = -1
  <2>1. 1..0 = {}
    OBVIOUS
  <2>2. {MessageOf(u) : u \in {}} = {}
    OBVIOUS
  <2> QED BY <2>1, <2>2, FS_EmptySet DEF Ssn
<1> HIDE DEF q
<1>4. Ssn(f) \in Int
  BY <1>0, <1>3, SsnOrder
<1>5. q.next = r.next \/ (q.next = Ssn(f) + 1 /\ f # 0)
  BY <1>0, <1>2, <1>3, <1>4 DEF Max2
<1>6. ASSUME NEW t \in 1..Len(log), t > f, f # 0, Ssn(t) <= Ssn(f) PROVE Cut(t)
  <2>1. f \in 1..Len(log)
    BY <1>0, <1>6
  <2>2. MessageOf(f) <= MessageOf(t)
    BY <1>6, <2>1 DEF SafeOK, LogOK, MessageOf
  <2>3. ~(Ssn(f) < Ssn(t))
    BY <1>0, <1>4, <1>6
  <2>4. MessageOf(f) = MessageOf(t)
    BY <1>0, <2>1, <2>2, <2>3, LessSsn
  <2>5. f + 1 \in 1..Len(log) /\ f + 1 <= t /\ f + 1 \in 2..t /\ f + 1 <= Len(log) /\ f + 1 - 1 = f
    BY <1>0, <1>6, <2>1
  <2>6. MessageOf(f + 1) = MessageOf(f)
    <3>1. MessageOf(f) <= MessageOf(f + 1)
      <4>1. f < f + 1
        BY <1>0
      <4> QED BY <2>1, <2>5, <4>1 DEF SafeOK, LogOK, MessageOf
    <3>2. MessageOf(f + 1) <= MessageOf(t)
      <4>1. f + 1 < t \/ f + 1 = t
        BY <1>0, <2>5
      <4>2. f + 1 < t => MessageOf(f + 1) <= MessageOf(t)
        BY <2>5 DEF SafeOK, LogOK, MessageOf
      <4>3. MessageOf(t) <= MessageOf(t)
        BY <1>0
      <4> QED BY <4>1, <4>2, <4>3
    <3>3. MessageOf(f + 1) \in Nat /\ MessageOf(f) \in Nat
      BY <1>0, <2>1, <2>5
    <3> QED BY <2>4, <3>1, <3>2, <3>3
  <2>7. f + 1 \in resets
    BY <1>6, <2>5, <2>6 DEF EndsAtReset
  <2> QED BY <2>4, <2>5, <2>7 DEF Cut
<1>7. \A t \in q.held : Ssn(t) < q.next => Cut(t)
  <2> SUFFICES ASSUME NEW t \in q.held, Ssn(t) < q.next PROVE Cut(t)
    OBVIOUS
  <2>1. t \in r.held /\ Ssn(t) > Ssn(f) /\ Ssn(t) \in Nat
    BY <1>0, <1>2
  <2>2. Ssn(t) < r.next
    BY <1>0, <1>4, <1>5, <2>1
  <2> QED BY <2>1, <2>2 DEF FreshOK
<1>8. ASSUME NEW t \in 1..Len(log), t \notin A, t > g, log[t].frag # 0, Ssn(t) < q.next
      PROVE  Cut(t)
  <2>1. CASE Ssn(t) < r.next
    BY <1>8, <2>1 DEF FreshOK
  <2>2. CASE ~(Ssn(t) < r.next)
    <3>1. f # 0 /\ Ssn(t) < Ssn(f) + 1
      BY <1>5, <1>8, <2>2
    <3>2. Ssn(t) <= Ssn(f) /\ t > f
      BY <1>0, <1>4, <1>8, <3>1
    <3> QED BY <1>6, <3>1, <3>2
  <2> QED BY <2>1, <2>2
<1>9. q.next = 0 \/ \E u \in 1..Len(log) : MessageOf(u) < head.msg /\ Ssn(u) = q.next - 1
  <2>1. CASE q.next = r.next
    BY <2>1 DEF FreshOK
  <2>2. CASE q.next = Ssn(f) + 1 /\ f # 0
    <3>1. f \in 1..Len(log) /\ MessageOf(f) < head.msg
      BY <1>0, <2>2 DEF EndsAtReset
    <3>2. Ssn(f) = q.next - 1
      BY <1>4, <2>2
    <3> QED BY <3>1, <3>2
  <2> QED BY <1>5, <2>1, <2>2
<1>10. FreshOK(q, A, g)
  BY <1>7, <1>8, <1>9 DEF FreshOK
<1>11. EraseTo(r, f) = TryToAssembleMessages(q)
  BY StreamSteps DEF q
<1>12. TryToAssembleMessages(q) \in Streams(A)
  BY <1>1, AssembleFacts
<1> QED BY <1>1, <1>10, <1>11, <1>12, AssembleFresh

\* A chunk that has neither arrived nor been skipped is added.
LEMMA AddFresh ==
    ASSUME QueueOK, SafeOK, NEW A, A \subseteq 1..Len(log), NEW r \in Streams(A), NEW g \in Nat,
           FreshOK(r, A, g), NEW t \in 1..Len(log), t \notin A, t > g, log[t].frag # 0
    PROVE  FreshOK(AddChunk(r, t), A \cup {t}, g)
<1> DEFINE B == A \cup {t}
<1>0. /\ r.next \in Nat /\ B \subseteq 1..Len(log) /\ A \subseteq B /\ r.held \subseteq A
      /\ \A u \in 1..Len(log) : Ssn(u) \in Nat
  BY SsnOrder DEF Streams
<1>1. WithHeld(r, t) \in Streams(B) /\ WithRead(r, t) \in Streams(B)
  BY StreamUpdates DEF Streams
<1>2. \A u \in 1..Len(log) : u \notin B /\ u > g /\ log[u].frag # 0 /\ Ssn(u) < r.next => Cut(u)
  BY <1>0 DEF FreshOK
<1> HIDE DEF B
<1>3. FreshOK(WithHeld(r, t), B, g)
  <2> DEFINE q == WithHeld(r, t)
  <2>1. q.next = r.next /\ q.held = r.held \cup {t}
    BY DEF WithHeld
  <2> HIDE DEF q
  <2>2. \A u \in q.held : Ssn(u) < q.next => Cut(u)
    BY <2>1 DEF FreshOK
  <2>3. FreshOK(q, B, g)
    BY <1>2, <2>1, <2>2 DEF FreshOK
  <2> QED BY <2>3 DEF q
<1>4. ASSUME Ssn(t) = r.next, Whole({t}) PROVE FreshOK(WithRead(r, t), B, g)
  <2> DEFINE q == WithRead(r, t)
             C == {t}
  <2>1. q.next = r.next + 1 /\ q.held = r.held
    BY DEF WithRead
  <2> HIDE DEF q
  <2>2. /\ Min(C) \in C /\ MessageOf(Min(C)) < head.msg
        /\ \A u \in 1..Len(log) : log[u].frag # 0 /\ MessageOf(u) = MessageOf(Min(C)) => u \in C
    <3>1. C \subseteq 1..Len(log) /\ Whole(C) /\ \A u, v \in C : Ssn(u) = Ssn(v)
      BY <1>4
    <3> HIDE DEF C
    <3> QED BY <3>1, NothingMissing
  <2>3. Min(C) = t
    BY <2>2
  <2>4. \A u \in 1..Len(log) : log[u].frag # 0 /\ Ssn(u) = r.next => u = t
    BY <1>4, <2>2, <2>3, SsnOrder
  <2>5. \A u \in 1..Len(log) : Ssn(u) < r.next + 1 => Ssn(u) < r.next \/ Ssn(u) = r.next
    BY <1>0
  <2>6. ASSUME NEW u \in q.held, Ssn(u) < q.next PROVE Cut(u)
    <3>1. u \in r.held /\ u \in 1..Len(log) /\ u # t
      BY <1>0, <2>1
    <3>2. CASE Ssn(u) < r.next
      BY <3>1, <3>2 DEF FreshOK
    <3>3. CASE Ssn(u) = r.next
      <4>1. log[u].frag = 0 /\ MessageOf(u) = MessageOf(t)
        BY <1>4, <2>4, <3>1, <3>3, SsnOrder
      <4>2. log[t].frag = Fragments[log[t].msg] /\ log[u].msg = log[t].msg
        <5>1. Max(C) = t
          <6>1. C \subseteq 0..Len(log) /\ C # {} /\ Len(log) \in Nat
            BY QueueFacts
          <6>2. Max(C) \in C
            BY <6>1, MaxOf
          <6> QED BY <6>2
        <5> QED BY <1>4, <4>1, <5>1 DEF Whole, MessageOf
      <4>3. ~(t < u) /\ ~(u < t)
        <5>1. t < u => log[t].frag # Fragments[log[t].msg]
          BY <3>1, <4>2 DEF SafeOK, LogOK
        <5>2. u < t => log[u].frag >= 1
          BY <3>1, <4>2 DEF SafeOK, LogOK
        <5> QED BY <4>1, <4>2, <5>1, <5>2
      <4>4. t \in Nat /\ u \in Nat
        BY <3>1, QueueFacts
      <4> QED BY <3>1, <4>3, <4>4
    <3> QED BY <2>1, <2>5, <2>6, <3>1, <3>2, <3>3
  <2>7. \A u \in 1..Len(log) : u \notin B /\ u > g /\ log[u].frag # 0 /\ Ssn(u) < q.next => Cut(u)
    <3>1. t \in B
      BY DEF B
    <3> QED BY <1>2, <2>1, <2>4, <2>5, <3>1
  <2>8. \E u \in 1..Len(log) : MessageOf(u) < head.msg /\ Ssn(u) = q.next - 1
    <3>1. Ssn(t) = q.next - 1
      BY <1>0, <1>4, <2>1
    <3> QED BY <2>2, <2>3, <3>1
  <2>9. FreshOK(q, B, g)
    BY <2>6, <2>7, <2>8 DEF FreshOK
  <2> QED BY <2>9 DEF q
<1>5. FreshOK(AddChunk(r, t), B, g)
  <2>1. CASE /\ Ssn(t) = r.next /\ Whole({t})
             /\ AddChunk(r, t) = TryToAssembleMessages(WithRead(r, t))
    BY <1>0, <1>1, <1>4, <2>1, AssembleFresh
  <2>2. CASE AddChunk(r, t) = TryToAssembleMessages(WithHeld(r, t))
    BY <1>0, <1>1, <1>3, <2>2, AssembleFresh
  <2>3. CASE AddChunk(r, t) = WithHeld(r, t)
    BY <1>3, <2>3
  <2> QED BY <2>1, <2>2, <2>3, StreamSteps
<1> QED BY <1>5 DEF B


FreshInv == FreshOK(rx, arrived, skip)

LEMMA FreshPrimed ==
    ASSUME QueueOK, QueueOK', SafeOK', StepOK, arrived' \subseteq 1..Len(log),
           FreshOK(rx', arrived', skip')
    PROVE  FreshInv'
<1>0. /\ Len(log) \in Nat /\ Len(log') \in Nat /\ Len(log) <= Len(log')
      /\ head.msg \in Nat /\ head'.msg \in Nat /\ head.msg <= head'.msg
      /\ \A t \in 1..Len(log') : log'[t].msg \in Nat
  BY StepFacts
<1>1. \A t \in 1..Len(log) : log'[t] = log[t] /\ log'[t].msg = MessageOf(t) /\ t \in 1..Len(log')
  BY <1>0 DEF StepOK, MessageOf
<1>2. \A t \in 1..Len(log) : Ssn(t)' = Ssn(t)
  <2>1. \A t \in 1..Len(log) : t \in 0..Len(log)
    BY <1>0
  <2> QED BY <2>1, SsnStays
<1>3. ASSUME NEW t \in 1..Len(log), Cut(t)
      PROVE  \E b \in resets' \cap 2..t : log'[b - 1].msg = log'[t].msg
  <2>1. PICK b \in resets \cap 2..t : MessageOf(b - 1) = MessageOf(t)
    BY <1>3 DEF Cut
  <2>2. b - 1 \in 1..Len(log)
    BY <1>0
  <2>3. b \in resets' \cap 2..t
    BY DEF StepOK
  <2> QED BY <1>1, <2>1, <2>2, <2>3
<1>4. rx'.held \subseteq arrived' /\ rx'.next \in Nat
  BY DEF QueueOK, PeerType
<1>5. \A t \in rx'.held : Ssn(t)' < rx'.next =>
         \E b \in resets' \cap 2..t : log'[b - 1].msg = log'[t].msg
  BY <1>2, <1>3, <1>4 DEF FreshOK
<1>6. \/ rx'.next = 0
      \/ \E u \in 1..Len(log) : MessageOf(u) < head.msg /\ Ssn(u) = rx'.next - 1
  BY DEF FreshOK
<1>7. SsnOrdered'
  BY SsnsStayOrdered
<1>8. ASSUME NEW t \in 1..Len(log'), t > Len(log) PROVE ~(Ssn(t)' < rx'.next)
  <2>1. Ssn(t)' \in Nat /\ head.msg <= log'[t].msg
    <3>1. t \in (Len(log) + 1)..Len(log')
      BY <1>0, <1>8
    <3> QED BY <1>7, <3>1 DEF StepOK, SsnOrdered
  <2>2. CASE rx'.next = 0
    BY <2>1, <2>2
  <2>3. CASE rx'.next # 0
    <3>1. PICK u \in 1..Len(log) : MessageOf(u) < head.msg /\ Ssn(u) = rx'.next - 1
      BY <1>6, <2>3
    <3>2. u \in 1..Len(log') /\ log'[u].msg < log'[t].msg
      <4>1. MessageOf(u) \in Nat /\ u \in 1..Len(log') /\ log'[u].msg = MessageOf(u)
        BY <1>0, <1>1
      <4>2. log'[t].msg \in Nat /\ head.msg \in Nat
        BY <1>0
      <4> QED BY <2>1, <3>1, <4>1, <4>2
    <3>3. Ssn(u)' < Ssn(t)'
      BY <1>7, <3>2 DEF SsnOrdered, MessageOf
    <3>4. Ssn(u)' = rx'.next - 1
      BY <1>2, <3>1
    <3> QED BY <1>4, <2>1, <3>3, <3>4
  <2> QED BY <2>2, <2>3
<1>9. ASSUME NEW t \in 1..Len(log'), t \notin arrived', t > skip', log'[t].frag # 0,
             Ssn(t)' < rx'.next
      PROVE  \E b \in resets' \cap 2..t : log'[b - 1].msg = log'[t].msg
  <2>1. t \in 1..Len(log)
    BY <1>0, <1>8, <1>9
  <2>2. Cut(t)
    BY <1>1, <1>2, <1>9, <2>1 DEF FreshOK
  <2> QED BY <1>3, <2>1, <2>2
<1>10. rx'.next = 0 \/ \E u \in 1..Len(log') : log'[u].msg < head'.msg /\ Ssn(u)' = rx'.next - 1
  <2> SUFFICES ASSUME rx'.next # 0
               PROVE  \E u \in 1..Len(log') : log'[u].msg < head'.msg /\ Ssn(u)' = rx'.next - 1
    OBVIOUS
  <2>1. PICK u \in 1..Len(log) : MessageOf(u) < head.msg /\ Ssn(u) = rx'.next - 1
    BY <1>6
  <2>2. u \in 1..Len(log') /\ log'[u].msg = MessageOf(u) /\ MessageOf(u) \in Nat
    BY <1>0, <1>1
  <2>3. log'[u].msg < head'.msg
    BY <1>0, <2>1, <2>2
  <2> QED BY <1>2, <2>1, <2>2, <2>3
<1> QED BY <1>5, <1>9, <1>10 DEF FreshInv, FreshOK, Cut, MessageOf

\* The peer skips further and further.
LEMMA SkipGrows ==
    ASSUME QueueOK, NEW f \in fwds, f > CumulativeAck(Received)
    PROVE  skip < f /\ skip \in Nat /\ f \in Nat
<1>1. Received \subseteq 1..Len(log) /\ skip \in 0..Len(log) /\ f \in 0..Len(log) /\ Len(log) \in Nat
  BY PeerFacts, QueueFacts
<1> DEFINE c == CumulativeAck(Received)
<1>2. c \in 0..Len(log) /\ c + 1 \notin Received
  BY <1>1, CumulativeAckOf
<1>3. c + 1 \notin 1..skip
  BY <1>2 DEF Received
<1>4. c < f
  OBVIOUS
<1> HIDE DEF c
<1>5. c \in Nat /\ skip \in Nat /\ f \in Nat
  BY <1>1, <1>2
<1> QED BY <1>3, <1>4, <1>5

LEMMA NextDeferred ==
    ASSUME QueueOK, ForwardOK, [Next]_vars
    PROVE  /\ skip <= skip' /\ skip' \in Nat /\ skip \in Nat
           /\ \A i \in 1..Len(deferred'.fwds) : deferred'.fwds[i] <= skip'
<1>0. /\ skip \in 0..Len(log) /\ Len(log) \in Nat /\ skip \in Nat
      /\ deferred \in [last : Nat, fwds : Seq(fwds)] /\ fwds \subseteq 0..Len(log)
      /\ \A i \in 1..Len(deferred.fwds) : deferred.fwds[i] <= skip
      /\ \A i \in 1..Len(deferred.fwds) : deferred.fwds[i] \in fwds
  <2>1. skip \in 0..Len(log) /\ Len(log) \in Nat /\ deferred.fwds \in Seq(fwds)
    BY PeerFacts, QueueFacts
  <2>2. \A i \in 1..Len(deferred.fwds) : deferred.fwds[i] \in fwds
    BY <2>1, ElementOfSeq
  <2>3. skip \in Nat
    BY <2>1
  <2> QED BY <2>1, <2>2, <2>3, PeerFacts DEF ForwardOK
<1>1. CASE UNCHANGED <<skip, deferred>>
  BY <1>0, <1>1
<1>2. CASE \E f \in fwds : ReceiveForwardTsn(f)
  <2>1. PICK f \in fwds : ReceiveForwardTsn(f)
    BY <1>2
  <2>2. CASE ~(f > CumulativeAck(Received))
    BY <1>1, <2>1, <2>2 DEF ReceiveForwardTsn
  <2>3. CASE f > CumulativeAck(Received)
    <3>1. skip' = f /\ skip < f /\ f \in Nat
      BY <2>1, <2>3, SkipGrows DEF ReceiveForwardTsn
    <3>2. skip <= skip' /\ skip' \in Nat
      BY <1>0, <3>1
    <3>3. deferred'.fwds = Append(deferred.fwds, f) \/ deferred' = deferred
      <4> DEFINE g == Append(deferred.fwds, f)
                 Q == Seq(fwds)
      <4>1. deferred' = [deferred EXCEPT !.fwds = g] \/ deferred' = deferred
        BY <2>1, <2>3 DEF ReceiveForwardTsn, HandleForwardTsn
      <4>2. deferred \in [last : Nat, fwds : Q]
        BY <1>0
      <4> HIDE DEF g, Q
      <4>3. deferred'.fwds = g \/ deferred' = deferred
        BY <4>1, <4>2
      <4> QED BY <4>3 DEF g
    <3>4. \A i \in 1..Len(deferred.fwds) : deferred.fwds[i] \in Nat
      <4>1. \A x \in fwds : x \in Nat
        BY <1>0
      <4> QED BY <1>0, <4>1
    <3>5. \A i \in 1..Len(deferred.fwds) : deferred.fwds[i] <= f
      BY <1>0, <3>1, <3>4
    <3>6. CASE deferred'.fwds = Append(deferred.fwds, f)
      <4>1. /\ Len(deferred'.fwds) = Len(deferred.fwds) + 1 /\ Len(deferred.fwds) \in Nat
            /\ deferred'.fwds[Len(deferred.fwds) + 1] = f
            /\ \A i \in 1..Len(deferred.fwds) : deferred'.fwds[i] = deferred.fwds[i]
        BY <1>0, <3>6, AppendProperties, LenProperties
      <4>2. \A i \in 1..Len(deferred'.fwds) :
              i \in 1..Len(deferred.fwds) \/ i = Len(deferred.fwds) + 1
        BY <4>1
      <4>3. f <= f
        BY <3>1
      <4> QED BY <3>1, <3>2, <3>5, <4>1, <4>2, <4>3, <1>0
    <3>7. CASE deferred' = deferred
      BY <1>0, <3>1, <3>2, <3>5, <3>7
    <3> QED BY <3>3, <3>6, <3>7
  <2> QED BY <2>2, <2>3
<1>3. CASE \E b \in resets : ReceiveResetRequest(b)
  <2>1. skip' = skip
    BY <1>3 DEF ReceiveResetRequest
  <2>2. deferred'.fwds = << >>
    <3>1. PICK b \in resets : ReceiveResetRequest(b)
      BY <1>3
    <3> DEFINE n == b - 1
    <3>2. deferred' = NotDeferred \/ deferred' = [NotDeferred EXCEPT !.last = n]
      BY <3>1 DEF ReceiveResetRequest
    <3> HIDE DEF n
    <3>3. NotDeferred = [last |-> 0, fwds |-> << >>]
      BY DEF NotDeferred
    <3>4. [NotDeferred EXCEPT !.last = n] = [last |-> n, fwds |-> << >>]
      BY <3>3
    <3> QED BY <3>2, <3>3, <3>4
  <2>3. Len(deferred'.fwds) = 0
    BY <2>2, EmptySeq
  <2>4. 1..Len(deferred'.fwds) = {}
    BY <2>3
  <2> QED BY <1>0, <2>1, <2>4
<1>4. CASE \/ Send \/ LimitEnds \/ (\E m \in Messages : Expire(m)) \/ SendNothing
           \/ ResetStreams \/ UNCHANGED vars \/ SendControl \/ (\E t \in sent : ReceiveData(t))
           \/ Retransmit \/ Produce \/ ProduceExpired \/ OnRtxTimerExpiry
  <2>1. UNCHANGED <<skip, deferred>>
    BY <1>4 DEF Send, LimitEnds, Expire, SendNothing, ResetStreams, vars, SendControl, ReceiveData,
                Retransmit, Produce, ProduceExpired, OnRtxTimerExpiry, peer, reassembly
  <2> QED BY <1>1, <2>1
<1>5. CASE \E s \in sacks, a \in PeerWindows : HandleSack(s, a)
  <2>1. UNCHANGED <<skip, deferred>>
    BY <1>5, HandleSackFacts DEF reassembly
  <2> QED BY <1>1, <2>1
<1> QED BY <1>2, <1>3, <1>4, <1>5 DEF Next


LEMMA NewEndsAtReset ==
    ASSUME QueueOK, QueueOK', SafeOK, SafeOK', StepOK, ForwardOK, SendControl,
           NEW f \in fwds' \ fwds, f # 0
    PROVE  /\ log'[f].msg < head'.msg
           /\ f + 1 <= Len(log') /\ log'[f + 1].msg = log'[f].msg => f + 1 \in resets'
<1>0. /\ cum \in Nat /\ cum' \in Nat /\ Len(log') \in Nat /\ head'.msg \in Nat
      /\ \A t \in 1..Len(log') : log'[t].msg \in Nat
  BY StepFacts
<1>1. /\ cum' = cum /\ f \in Nat /\ cum <= f /\ f <= Len(log')
      /\ cum + 1 \in Abandoned(item') /\ f + 1 \notin Abandoned(item') \ breaks
  BY NewForwardTsn
<1>2. \A t \in (cum + 1)..f : item'[t].life = "Abandoned"
  BY NewForwardTsn
<1>3. \A t : t \in DOMAIN item' <=> t \in Nat /\ cum < t /\ t <= Len(log')
  BY <1>1, StepFacts DEF Outstanding
<1>4. breaks \subseteq resets'
  BY DEF ForwardOK, StepOK
<1>5. \A t \in DOMAIN item' : item'[t].life = "Abandoned" => log'[t].msg < head'.msg
  BY DEF SafeOK, AbandonOK
<1>6. \A t, u \in DOMAIN item' :
        item'[t].life = "Abandoned" /\ log'[u].msg = log'[t].msg => item'[u].life = "Abandoned"
  BY DEF SafeOK, AbandonOK
<1>7. CASE f = cum
  <2>1. cum + 1 \in DOMAIN item' /\ item'[cum + 1].life = "Abandoned"
    BY <1>1 DEF Abandoned
  <2>2. log'[cum + 1].msg < head'.msg
    BY <1>5, <2>1
  <2>3. f \in 1..Len(log') /\ cum + 1 \in 1..Len(log') /\ f < cum + 1
    BY <1>0, <1>1, <1>3, <1>7, <2>1
  <2>4. log'[f].msg <= log'[cum + 1].msg
    BY <2>3 DEF SafeOK, LogOK
  <2>5. log'[f].msg < head'.msg
    <3>1. log'[f].msg \in Nat /\ log'[cum + 1].msg \in Nat
      BY <1>0, <2>3
    <3> QED BY <1>0, <2>2, <2>4, <3>1
  <2>6. f + 1 \in resets'
    BY <1>1, <1>4, <1>7
  <2> QED BY <2>5, <2>6
<1>8. CASE f # cum
  <2>1. f \in (cum + 1)..f /\ cum < f
    BY <1>0, <1>1, <1>8
  <2>2. f \in DOMAIN item' /\ item'[f].life = "Abandoned"
    BY <1>1, <1>2, <1>3, <2>1
  <2>3. log'[f].msg < head'.msg
    BY <1>5, <2>2
  <2>4. ASSUME f + 1 <= Len(log'), log'[f + 1].msg = log'[f].msg PROVE f + 1 \in resets'
    <3>1. f + 1 \in Nat /\ cum < f + 1
      BY <1>0, <1>1, <2>1
    <3>2. f + 1 \in DOMAIN item'
      BY <1>3, <2>4, <3>1
    <3>3. f + 1 \in Abandoned(item')
      BY <1>6, <2>2, <2>4, <3>2 DEF Abandoned
    <3> QED BY <1>1, <1>4, <3>3
  <2> QED BY <2>3, <2>4
<1> QED BY <1>7, <1>8

LEMMA NextForward ==
    ASSUME QueueOK, QueueOK', SafeOK, SafeOK', StepOK, ForwardOK, [Next]_vars
    PROVE  ForwardOK'
<1>0. /\ Len(log) \in Nat /\ Len(log') \in Nat /\ Len(log) <= Len(log')
      /\ head.msg \in Nat /\ head'.msg \in Nat /\ head.msg <= head'.msg
      /\ \A t \in 1..Len(log') : log'[t].msg \in Nat
      /\ \A t \in 1..Len(log) : t \in 1..Len(log') /\ MessageOf(t) = log'[t].msg
  BY StepFacts
<1>1. ASSUME NEW f \in fwds, f # 0
      PROVE  /\ log'[f].msg < head'.msg
             /\ f + 1 <= Len(log') /\ log'[f + 1].msg = log'[f].msg => f + 1 \in resets'
  <2>1. f \in 1..Len(log) /\ f \in Nat
    <3>1. f \in 0..Len(log)
      BY PeerFacts
    <3> QED BY <1>0, <1>1, <3>1
  <2>2. /\ MessageOf(f) < head.msg
        /\ f + 1 <= Len(log) /\ MessageOf(f + 1) = MessageOf(f) => f + 1 \in resets
    BY <1>1 DEF ForwardOK, EndsAtReset
  <2>3. log'[f].msg = MessageOf(f) /\ log'[f].msg \in Nat
    BY <1>0, <2>1
  <2>4. log'[f].msg < head'.msg
    BY <1>0, <2>2, <2>3
  <2>5. ASSUME f + 1 <= Len(log'), log'[f + 1].msg = log'[f].msg PROVE f + 1 \in resets'
    <3>1. CASE f + 1 <= Len(log)
      <4>1. f + 1 \in 1..Len(log)
        BY <2>1, <3>1
      <4>2. MessageOf(f + 1) = MessageOf(f)
        BY <1>0, <2>3, <2>5, <4>1
      <4> QED BY <2>2, <3>1, <4>2 DEF StepOK
    <3>2. CASE ~(f + 1 <= Len(log))
      <4>1. f + 1 \in (Len(log) + 1)..Len(log')
        BY <1>0, <2>1, <2>5, <3>2
      <4>2. head.msg <= log'[f + 1].msg
        BY <4>1 DEF StepOK
      <4> QED BY <1>0, <2>2, <2>3, <2>5, <4>2
    <3> QED BY <3>1, <3>2
  <2> QED BY <2>4, <2>5
<1>2. ASSUME NEW f \in fwds' \ fwds, f # 0
      PROVE  /\ log'[f].msg < head'.msg
             /\ f + 1 <= Len(log') /\ log'[f + 1].msg = log'[f].msg => f + 1 \in resets'
  <2>1. SendControl
    <3> SUFFICES ASSUME ~SendControl PROVE fwds' = fwds
      BY <1>2
    <3>1. CASE \E s \in sacks, a \in PeerWindows : HandleSack(s, a)
      BY <3>1, HandleSackFacts
    <3>2. CASE ~\E s \in sacks, a \in PeerWindows : HandleSack(s, a)
      BY <3>2 DEF Next, Send, ResetStreams, LimitEnds, Expire, SendNothing,
           ReceiveResetRequest, ReceiveData, ReceiveForwardTsn, Retransmit, Produce,
           ProduceExpired, OnRtxTimerExpiry, path, vars
    <3> QED BY <3>1, <3>2
  <2> QED BY <1>2, <2>1, NewEndsAtReset
<1>3. \A f \in fwds' : EndsAtReset(f)'
  BY <1>1, <1>2 DEF EndsAtReset, MessageOf
<1>4. breaks' \subseteq resets'
  <2>0. breaks \subseteq resets
    BY DEF ForwardOK
  <2>1. CASE \E s \in sacks, a \in PeerWindows : HandleSack(s, a)
    <3>1. breaks' \subseteq breaks /\ resets' = resets
      BY <2>1, HandleSackFacts
    <3> QED BY <2>0, <3>1
  <2>2. CASE SendControl
    BY <2>0, <2>2, SendControlFacts
  <2>3. CASE ResetStreams
    BY <2>0, <2>3 DEF ResetStreams, BeginResetStreams
  <2>4. CASE ~SendControl /\ ~ResetStreams /\ ~\E s \in sacks, a \in PeerWindows : HandleSack(s, a)
    <3>1. UNCHANGED <<breaks, resets>>
      BY <2>4 DEF Next, Send, LimitEnds, Expire, SendNothing,
           ReceiveResetRequest, ReceiveData, ReceiveForwardTsn, Retransmit, Produce,
           ProduceExpired, OnRtxTimerExpiry, outstanding, vars
    <3> QED BY <2>0, <3>1
  <2> QED BY <2>1, <2>2, <2>3, <2>4
<1>5. \A t \in sent' : log'[t].frag # 0
  <2>1. \A t \in sent : log'[t].frag # 0
    BY PeerFacts DEF ForwardOK, StepOK
  <2>2. CASE Produce
    <3>1. sent' = sent \cup {Len(log) + 1} /\ log' = Append(log, NextHead)
      BY <2>2, QueueFacts DEF Produce
    <3>2. log'[Len(log) + 1] = NextHead /\ NextHead.frag # 0
      <4>1. HasData
        BY <2>2 DEF Produce
      <4>2. NextHead \in Entry /\ NextHead \in HeadType(sends) /\ log \in Seq(Entry)
        BY <4>1, AfterHeadFacts, HeadFacts, QueueFacts
      <4>3. NextHead.frag # 0
        BY <4>2 DEF HeadType
      <4> QED BY <3>1, <4>2, <4>3, AppendProperties
    <3> QED BY <2>1, <3>1, <3>2
  <2>3. CASE ~Produce
    <3>1. sent' = sent
      <4>1. CASE \E s \in sacks, a \in PeerWindows : HandleSack(s, a)
        BY <4>1, HandleSackFacts
      <4>2. CASE ~\E s \in sacks, a \in PeerWindows : HandleSack(s, a)
        BY <2>3, <4>2 DEF Next, Send, ResetStreams, LimitEnds, Expire, SendNothing, SendControl,
             ReceiveResetRequest, ReceiveData, ReceiveForwardTsn, Retransmit,
             ProduceExpired, OnRtxTimerExpiry, path, vars
      <4> QED BY <4>1, <4>2
    <3> QED BY <2>1, <3>1
  <2> QED BY <2>2, <2>3
<1>6. \A i \in 1..Len(deferred'.fwds) : deferred'.fwds[i] <= skip'
  BY NextDeferred
<1> QED BY <1>3, <1>4, <1>5, <1>6 DEF ForwardOK

LEMMA NextFresh ==
    ASSUME QueueOK, QueueOK', SafeOK, SafeOK', StepOK, ForwardOK, FreshInv, [Next]_vars
    PROVE  FreshInv'
<1>0. /\ arrived \subseteq 1..Len(log) /\ rx \in Streams(arrived) /\ FreshOK(rx, arrived, skip)
      /\ fwds \subseteq 0..Len(log) /\ skip \in Nat /\ skip' \in Nat /\ skip <= skip'
      /\ Len(log) \in Nat
  BY PeerFacts, QueueFacts, NextDeferred DEF FreshInv
<1>1. FreshOK(rx, arrived, skip')
  <2>1. \A t \in 1..Len(log) : t > skip' => t > skip
    BY <1>0
  <2> QED BY <1>0, <2>1 DEF FreshOK
<1>2. CASE UNCHANGED <<rx, arrived>>
  BY <1>0, <1>1, <1>2, FreshPrimed
<1>3. CASE \E t \in sent : ReceiveData(t)
  <2>1. PICK t \in sent : ReceiveData(t)
    BY <1>3
  <2>2. /\ rx' = AddChunk(rx, t) /\ arrived' = arrived \cup {t} /\ t \in 1..Len(log)
        /\ t \notin Received /\ skip' = skip
    BY <2>1, PeerFacts DEF ReceiveData
  <2>3. t \notin arrived /\ t > skip /\ log[t].frag # 0
    BY <1>0, <2>2 DEF Received, ForwardOK
  <2>4. FreshOK(rx', arrived', skip') /\ arrived' \subseteq 1..Len(log)
    BY <1>0, <2>2, <2>3, AddFresh
  <2> QED BY <2>4, FreshPrimed
<1>4. CASE \E f \in fwds : ReceiveForwardTsn(f)
  <2>1. PICK f \in fwds : ReceiveForwardTsn(f)
    BY <1>4
  <2>2. /\ arrived' = arrived /\ f \in 0..Len(log) /\ EndsAtReset(f)
        /\ rx' = rx \/ (rx' = EraseTo(rx, f) /\ skip' = f)
    BY <1>0, <2>1 DEF ReceiveForwardTsn, HandleForwardTsn, ForwardOK
  <2>3. skip' = f => f <= skip'
    BY <1>0
  <2>4. FreshOK(rx', arrived', skip')
    BY <1>0, <1>1, <2>2, <2>3, EraseFresh
  <2> QED BY <1>0, <2>2, <2>4, FreshPrimed
<1>5. CASE \E b \in resets : ReceiveResetRequest(b)
  <2>1. PICK b \in resets : ReceiveResetRequest(b)
    BY <1>5
  <2>2. arrived' = arrived /\ skip' = skip /\ (rx' = rx \/ rx' = EraseToEach(rx, deferred.fwds))
    BY <2>1 DEF ReceiveResetRequest
  <2> DEFINE S == {x \in Streams(arrived) : FreshOK(x, arrived, skip)}
             F == {f \in fwds : f <= skip}
             fs == deferred.fwds
  <2>3. \A x \in S, f \in F : EraseTo(x, f) \in S
    BY <1>0, EraseFresh DEF ForwardOK
  <2>4. rx \in S
    BY <1>0
  <2>5. fs \in Seq(F)
    <3>1. fs \in Seq(fwds)
      BY PeerFacts
    <3>2. Len(fs) \in Nat /\ fs = [i \in 1..Len(fs) |-> fs[i]] /\ \A i \in 1..Len(fs) : fs[i] \in fwds
      BY <3>1, LenProperties, ElementOfSeq
    <3>3. \A i \in 1..Len(fs) : fs[i] \in F
      BY <3>2 DEF ForwardOK
    <3> HIDE DEF F, fs
    <3>4. fs \in [1..Len(fs) -> F]
      BY <3>2, <3>3
    <3> QED BY <3>2, <3>4, SeqDef
  <2> HIDE DEF S, F, fs
  <2>6. EraseToEach(rx, fs) \in S
    BY <2>3, <2>4, <2>5, EraseToEachKeeps
  <2>7. FreshOK(rx', arrived', skip')
    BY <1>0, <2>2, <2>6 DEF S, fs
  <2> QED BY <1>0, <2>2, <2>7, FreshPrimed
<1>6. CASE \/ Send \/ LimitEnds \/ (\E m \in Messages : Expire(m)) \/ SendNothing
           \/ ResetStreams \/ UNCHANGED vars \/ SendControl
           \/ Retransmit \/ Produce \/ ProduceExpired \/ OnRtxTimerExpiry
  <2>1. UNCHANGED <<rx, arrived>>
    BY <1>6 DEF Send, LimitEnds, Expire, SendNothing, ResetStreams, vars, SendControl,
                Retransmit, Produce, ProduceExpired, OnRtxTimerExpiry, peer, reassembly
  <2> QED BY <1>2, <2>1
<1>7. CASE \E s \in sacks, a \in PeerWindows : HandleSack(s, a)
  <2>1. UNCHANGED <<rx, arrived>>
    BY <1>7, HandleSackFacts DEF reassembly
  <2> QED BY <1>2, <2>1
<1> QED BY <1>3, <1>4, <1>5, <1>6, <1>7 DEF Next

LEMMA InitFresh == Init => ForwardOK /\ FreshInv
<1> SUFFICES ASSUME Init PROVE ForwardOK /\ FreshInv
  OBVIOUS
<1>1. deferred.fwds = << >> /\ rx.next = 0 /\ rx.held = {} /\ Len(log) = 0
  BY EmptySeq DEF Init, NotDeferred
<1>2. 1..Len(deferred.fwds) = {} /\ 1..Len(log) = {}
  <2>1. Len(deferred.fwds) = 0
    BY <1>1, EmptySeq
  <2> QED BY <1>1, <2>1
<1>3. ForwardOK
  BY <1>2 DEF ForwardOK, Init
<1>4. FreshInv
  BY <1>1, <1>2 DEF FreshInv, FreshOK
<1> QED BY <1>3, <1>4

\* EraseTo and Add leave no chunk of a message that was read or skipped: a chunk in
\* chunks_by_ssn_ whose SSN is below next_ssn_ is of a message inside of which a
\* stream was reset, for any number of messages, losses and resets.
THEOREM NothingStaleIsHeld == Spec => []NoStaleChunks
<1> DEFINE Inv == QueueOK /\ SafeOK /\ ForwardOK /\ FreshInv
<1>1. Init => Inv
  BY InitQueueOK, InitSafe, InitFresh
<1>2. Inv /\ [Next]_vars => Inv'
  BY NextQueueOK, NextSafe, NextForward, NextFresh
<1>3. Inv => NoStaleChunks
  BY DEF FreshInv, FreshOK, Cut, NoStaleChunks
<1> QED BY <1>1, <1>2, <1>3, PTL DEF Spec

=============================================================================
