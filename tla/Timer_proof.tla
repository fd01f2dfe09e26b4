----------------------------- MODULE Timer_proof -----------------------------
(***************************************************************************)
(* Proofs about Timer, for every value of its constants. The argument is   *)
(* about the states that the operations of a timer pass through: Core says *)
(* that the posted task is early enough for the timeout, and Sound that    *)
(* the timer and its timeout agree, which they do not in the middle of an  *)
(* operation.                                                              *)
(***************************************************************************)
EXTENDS Timer, TLAPS

TimerType ==
    [options : Options, duration : Durations, running : BOOLEAN,
     generation : 0..(Generations - 1), count : Nat,
     expiration : Nat \cup {Never}, posted : Nat \cup {Never},
     id : 0..(Generations - 1), clean : BOOLEAN]

TaskType == [due : Nat, alive : BOOLEAN]

States == [timer : TimerType, tasks : SUBSET TaskType]

\* At most one task is alive, and posted says when it is run.
OneTask(s) ==
    \A t \in s.tasks : t.alive => t.due = s.timer.posted

HasTask(s) ==
    s.timer.posted # Never => [due |-> s.timer.posted, alive |-> TRUE] \in s.tasks

\* No task is later than the task queue lets it be.
OnTime(s) == \A t \in s.tasks : now <= t.due + Lag

\* The posted task is run no later than the timeout expires.
Covered(s) ==
    s.timer.expiration # Never =>
        s.timer.posted # Never /\ s.timer.posted <= s.timer.expiration

Base(s) ==
    /\ s \in States
    /\ OneTask(s) /\ HasTask(s) /\ OnTime(s)
    /\ s.timer.clean

Core(s) == Base(s) /\ Covered(s)

Heard(t) ==
    /\ t.running <=> t.expiration # Never
    /\ t.running => t.id = t.generation

Counted(t) ==
    \/ t.options.maxRestarts = NoLimit
    \/ t.count <= t.options.maxRestarts + (IF t.running THEN 0 ELSE 1)

Sound(s) == Core(s) /\ Heard(s.timer) /\ Counted(s.timer)

\* The fields that only the timer itself, not its timeout, writes.
SameTimer(t, u) ==
    /\ t.options = u.options /\ t.duration = u.duration
    /\ t.count = u.count /\ t.running = u.running

\* What the assumptions say of durations and options.
LEMMA Constants ==
    /\ Durations \subseteq Nat /\ 0 \notin Durations
    /\ \A o \in Options : o.duration \in Durations /\ o.maxRestarts \in Nat \cup {NoLimit}
    /\ Backoffs \subseteq Nat
BY TimerOptionsAssumption DEF Backoffs

LEMMA NewTask ==
    ASSUME NEW due \in Nat
    PROVE  [due |-> due, alive |-> TRUE] \in TaskType
BY DEF TaskType

\* EnsureTask only touches the tasks and posted, and covers the time due.
LEMMA EnsureTaskEffect ==
    ASSUME now \in Nat, NEW s, s \in States, OneTask(s), HasTask(s), OnTime(s),
           NEW due \in Nat, now <= due,
           NEW r, r = EnsureTask(s, due)
    PROVE  /\ r \in States /\ OneTask(r) /\ HasTask(r) /\ OnTime(r)
           /\ r.timer = [s.timer EXCEPT !.posted = r.timer.posted]
           /\ r.timer.posted \in Nat /\ r.timer.posted <= due
<1> USE TimerAssumption
<1>0. /\ s = [timer |-> s.timer, tasks |-> s.tasks]
      /\ s.timer \in TimerType /\ s.tasks \in SUBSET TaskType
  BY DEF States
<1>1. CASE s.timer.posted # Never /\ due >= s.timer.posted
  <2>1. r = s
    BY <1>1 DEF EnsureTask
  <2> QED BY <2>1, <1>0, <1>1 DEF TimerType, Never
<1>2. CASE s.timer.posted = Never
  <2>1. r = PostTask(s, due)
    BY <1>2 DEF EnsureTask
  <2>2. /\ r = [timer |-> r.timer, tasks |-> r.tasks]
        /\ r.timer = [s.timer EXCEPT !.posted = due]
        /\ r.tasks = s.tasks \cup {[due |-> due, alive |-> TRUE]}
    BY <2>1, <1>0 DEF PostTask
  <2>3. r.timer \in TimerType /\ r.timer.posted = due
    BY <2>2, <1>0 DEF TimerType
  <2>5. r.tasks \in SUBSET TaskType
    BY <2>2, <1>0, NewTask
  <2>4. \A t \in s.tasks : ~t.alive
    BY <1>2, <1>0 DEF OneTask, TaskType, Never
  <2> QED BY <2>2, <2>3, <2>4, <2>5 DEF States, OneTask, HasTask, OnTime
<1>3. CASE s.timer.posted # Never /\ ~(due >= s.timer.posted)
  <2>1. r = PostTask([s EXCEPT !.tasks = Ghosts(s)], due)
    BY <1>3 DEF EnsureTask
  <2>2. /\ r = [timer |-> r.timer, tasks |-> r.tasks]
        /\ r.timer = [s.timer EXCEPT !.posted = due]
        /\ r.tasks = Ghosts(s) \cup {[due |-> due, alive |-> TRUE]}
    BY <2>1, <1>0 DEF PostTask
  <2>3. Ghosts(s) \in SUBSET TaskType /\ \A t \in Ghosts(s) : ~t.alive /\ now <= t.due + Lag
    BY <1>0 DEF Ghosts, TaskType, OnTime
  <2>4. r.timer \in TimerType /\ r.timer.posted = due
    BY <2>2, <1>0 DEF TimerType
  <2>5. r.tasks \in SUBSET TaskType
    BY <2>2, <2>3, NewTask
  <2> QED BY <2>2, <2>3, <2>4, <2>5 DEF States, OneTask, HasTask, OnTime
<1> QED BY <1>1, <1>2, <1>3

\* Starting a timeout that is not running.
LEMMA TimeoutStartEffect ==
    ASSUME now \in Nat, NEW s, Core(s), s.timer.expiration = Never,
           NEW d \in Nat, NEW id \in 0..(Generations - 1),
           NEW r, r = TimeoutStart(s, d, id)
    PROVE  /\ Core(r) /\ SameTimer(r.timer, s.timer)
           /\ r.timer.expiration = now + d /\ r.timer.id = id
           /\ r.timer.generation = s.timer.generation
<1> DEFINE t == [s.timer EXCEPT !.expiration = now + d, !.id = id, !.clean = TRUE]
           set == [timer |-> t, tasks |-> s.tasks]
<1>0. /\ s = [timer |-> s.timer, tasks |-> s.tasks]
      /\ s.timer \in TimerType /\ s.tasks \in SUBSET TaskType
  BY DEF Core, Base, States
<1>1. (s.timer.clean /\ s.timer.expiration = Never) = TRUE
  BY DEF Core, Base
<1>2. r = EnsureTask(set, now + d)
  <2>1. r = EnsureTask([s EXCEPT !.timer =
                           [s.timer EXCEPT !.expiration = now + d, !.id = id,
                              !.clean = s.timer.clean /\ s.timer.expiration = Never]],
                       now + d)
    BY DEF TimeoutStart
  <2>2. [s.timer EXCEPT !.expiration = now + d, !.id = id,
                        !.clean = s.timer.clean /\ s.timer.expiration = Never] = t
    BY <1>1
  <2>3. [s EXCEPT !.timer = t] = set
    BY <1>0
  <2> HIDE DEF t, set
  <2> QED BY <2>1, <2>2, <2>3
<1>3. /\ t \in TimerType
      /\ SameTimer(t, s.timer) /\ t.posted = s.timer.posted
      /\ t.generation = s.timer.generation
      /\ t.expiration = now + d /\ t.id = id /\ t.clean
  <2> DEFINE e == now + d
  <2>1. e \in Nat /\ t = [s.timer EXCEPT !.expiration = e, !.id = id, !.clean = TRUE]
    OBVIOUS
  <2> HIDE DEF e, t
  <2>2. t \in TimerType
    BY <1>0, <2>1 DEF TimerType
  <2>3. /\ SameTimer(t, s.timer) /\ t.posted = s.timer.posted
        /\ t.generation = s.timer.generation
        /\ t.expiration = e /\ t.id = id /\ t.clean
    BY <1>0, <2>1 DEF TimerType, SameTimer
  <2> QED BY <2>2, <2>3 DEF e
<1> HIDE DEF t
<1>4. set.timer = t /\ set \in States /\ OneTask(set) /\ HasTask(set) /\ OnTime(set)
  BY <1>0, <1>3 DEF Core, Base, States, OneTask, HasTask, OnTime
<1> HIDE DEF set
<1>6. /\ r \in States /\ OneTask(r) /\ HasTask(r) /\ OnTime(r)
      /\ r.timer = [t EXCEPT !.posted = r.timer.posted]
      /\ r.timer.posted \in Nat /\ r.timer.posted <= now + d
  BY <1>2, <1>4, EnsureTaskEffect
<1>7. /\ r.timer.expiration = now + d /\ r.timer.id = id
      /\ r.timer.generation = s.timer.generation
      /\ SameTimer(r.timer, s.timer) /\ r.timer.clean
  BY <1>3, <1>6 DEF TimerType, SameTimer
<1>8. Covered(r)
  BY <1>6, <1>7 DEF Covered, Never
<1> QED BY <1>6, <1>7, <1>8 DEF Core, Base

\* Stopping a timeout leaves its task posted.
LEMMA TimeoutStopEffect ==
    ASSUME NEW s, Base(s), NEW r, r = TimeoutStop(s)
    PROVE  /\ Core(r) /\ SameTimer(r.timer, s.timer)
           /\ r.timer.expiration = Never
           /\ r.timer.id = s.timer.id /\ r.timer.generation = s.timer.generation
<1>0. /\ s = [timer |-> s.timer, tasks |-> s.tasks]
      /\ s.timer \in TimerType /\ s.tasks \in SUBSET TaskType
  BY DEF Core, Base, States
<1>1. /\ r = [timer |-> r.timer, tasks |-> s.tasks] /\ r.tasks = s.tasks
      /\ r.timer = [s.timer EXCEPT !.expiration = Never]
  BY <1>0 DEF TimeoutStop
<1>2. /\ r.timer \in TimerType /\ SameTimer(r.timer, s.timer)
      /\ r.timer.expiration = Never /\ r.timer.posted = s.timer.posted
      /\ r.timer.id = s.timer.id /\ r.timer.generation = s.timer.generation
      /\ r.timer.clean = s.timer.clean
  BY <1>0, <1>1 DEF TimerType, SameTimer
<1> QED BY <1>0, <1>1, <1>2 DEF Core, Base, States, OneTask, HasTask, OnTime, Covered

\* Changes to the fields of the timer itself.
LEMMA FieldsEffect ==
    ASSUME NEW s, Core(s), NEW t \in TimerType,
           t.posted = s.timer.posted, t.expiration = s.timer.expiration,
           t.clean = s.timer.clean
    PROVE  Core([timer |-> t, tasks |-> s.tasks])
<1>1. [timer |-> t, tasks |-> s.tasks] \in States
  BY DEF Core, Base, States
<1> QED BY <1>1 DEF Core, Base, OneTask, HasTask, OnTime, Covered

\* The timeout is started with a new generation.
LEMMA StartTimeoutEffect ==
    ASSUME now \in Nat, NEW s, Core(s), s.timer.expiration = Never, s.timer.running,
           NEW d \in Nat, NEW r, r = StartTimeout(s, d)
    PROVE  /\ Core(r) /\ Heard(r.timer) /\ SameTimer(r.timer, s.timer)
           /\ r.timer.expiration = now + d
<1> DEFINE next == (s.timer.generation + 1) % Generations
           u == [s EXCEPT !.timer.generation = next]
           t == [s.timer EXCEPT !.generation = next]
<1>0. s = [timer |-> s.timer, tasks |-> s.tasks] /\ s.timer \in TimerType
  BY DEF Core, Base, States
<1>1. next \in 0..(Generations - 1)
  BY <1>0, TimerAssumption DEF TimerType
<1>2. u = [timer |-> t, tasks |-> s.tasks]
  BY <1>0
<1>3. r = TimeoutStart(u, d, next)
  BY DEF StartTimeout
<1> HIDE DEF next
<1>4. /\ t \in TimerType /\ SameTimer(t, s.timer) /\ t.generation = next
      /\ t.posted = s.timer.posted /\ t.expiration = Never /\ t.clean = s.timer.clean
  BY <1>0, <1>1 DEF TimerType, SameTimer
<1> HIDE DEF t, u
<1>5. Core(u)
  BY <1>2, <1>4, FieldsEffect
<1>6. /\ Core(r) /\ SameTimer(r.timer, u.timer)
      /\ r.timer.expiration = now + d /\ r.timer.id = next
      /\ r.timer.generation = u.timer.generation
  BY <1>1, <1>2, <1>3, <1>4, <1>5, TimeoutStartEffect
<1>7. u.timer = t
  BY <1>2
<1>8. SameTimer(r.timer, s.timer) /\ r.timer.generation = next
  BY <1>4, <1>6, <1>7 DEF SameTimer
<1>9. r.timer.expiration # Never
  BY <1>6 DEF Never
<1>10. r.timer.running
  BY <1>8 DEF SameTimer
<1> QED BY <1>6, <1>8, <1>9, <1>10 DEF Heard

\* What the type says of the options and the duration of a timer.
LEMMA TimerFields ==
    ASSUME NEW s, Core(s)
    PROVE  /\ s.timer.duration \in Durations /\ s.timer.duration \in Nat
           /\ s.timer.options \in Options
           /\ s.timer.options.maxRestarts \in Nat \cup {NoLimit}
           /\ s.timer.count \in Nat /\ s.timer.running \in BOOLEAN
<1>1. s.timer \in TimerType
  BY DEF Core, Base, States
<1>2. s.timer.duration \in Durations /\ s.timer.options \in Options
      /\ s.timer.count \in Nat /\ s.timer.running \in BOOLEAN
  BY <1>1 DEF TimerType
<1> QED BY <1>2, Constants

LEMMA SetEffect ==
    ASSUME NEW s, Core(s), NEW running \in BOOLEAN, NEW count \in Nat,
           NEW r, r = Set(s, running, count)
    PROVE  /\ Core(r)
           /\ r.timer.running = running /\ r.timer.count = count
           /\ r.timer.options = s.timer.options /\ r.timer.duration = s.timer.duration
           /\ r.timer.expiration = s.timer.expiration
           /\ r.timer.id = s.timer.id /\ r.timer.generation = s.timer.generation
<1> DEFINE t == [s.timer EXCEPT !.running = running, !.count = count]
<1>0. s = [timer |-> s.timer, tasks |-> s.tasks] /\ s.timer \in TimerType
  BY DEF Core, Base, States
<1>1. r = [timer |-> t, tasks |-> s.tasks]
  BY <1>0 DEF Set
<1>2. /\ t \in TimerType /\ t.running = running /\ t.count = count
      /\ t.options = s.timer.options /\ t.duration = s.timer.duration
      /\ t.expiration = s.timer.expiration /\ t.posted = s.timer.posted
      /\ t.id = s.timer.id /\ t.generation = s.timer.generation
      /\ t.clean = s.timer.clean
  BY <1>0 DEF TimerType
<1> HIDE DEF t
<1>3. Core(r)
  BY <1>1, <1>2, FieldsEffect
<1> QED BY <1>1, <1>2, <1>3

\* Start and Stop of a timer do what the promise says.
LEMMA TimerStartEffect ==
    ASSUME now \in Nat, NEW s, Sound(s), NEW r, r = TimerStart(s)
    PROVE  /\ Sound(r)
           /\ r.timer.running /\ r.timer.expiration = now + s.timer.duration
           /\ r.timer.count = 0
           /\ r.timer.duration = s.timer.duration /\ r.timer.options = s.timer.options
<1> DEFINE u == Set(s, TRUE, 0)
           v == IF s.timer.running THEN TimeoutStop(u) ELSE u
<1>0. Core(s) /\ s.timer.duration \in Nat /\ s.timer.options.maxRestarts \in Nat \cup {NoLimit}
  BY TimerFields DEF Sound
<1>1. /\ Core(u) /\ u.timer.running /\ u.timer.count = 0
      /\ u.timer.options = s.timer.options /\ u.timer.duration = s.timer.duration
      /\ u.timer.expiration = s.timer.expiration
  <2> DEFINE yes == TRUE
  <2>1. yes \in BOOLEAN /\ u = Set(s, yes, 0)
    OBVIOUS
  <2> HIDE DEF u, yes
  <2>2. /\ Core(u) /\ u.timer.running = yes /\ u.timer.count = 0
        /\ u.timer.options = s.timer.options /\ u.timer.duration = s.timer.duration
        /\ u.timer.expiration = s.timer.expiration
    BY <1>0, <2>1, SetEffect
  <2> QED BY <2>2 DEF yes
<1>2. r = StartTimeout(v, s.timer.duration)
  BY DEF TimerStart
<1> HIDE DEF u
<1>3. /\ Core(v) /\ v.timer.running /\ v.timer.count = 0
      /\ v.timer.options = s.timer.options /\ v.timer.duration = s.timer.duration
      /\ v.timer.expiration = Never
  <2>1. CASE s.timer.running
    <3>1. v = TimeoutStop(u)
      BY <2>1
    <3> HIDE DEF v
    <3> QED BY <3>1, <1>1, TimeoutStopEffect DEF SameTimer, Core
  <2>2. CASE ~s.timer.running
    BY <2>2, <1>1 DEF Sound, Heard
  <2> QED BY <2>1, <2>2
<1> HIDE DEF v
<1>4. /\ Core(r) /\ Heard(r.timer) /\ SameTimer(r.timer, v.timer)
      /\ r.timer.expiration = now + s.timer.duration
  BY <1>0, <1>2, <1>3, StartTimeoutEffect
<1>5. /\ r.timer.running /\ r.timer.count = 0
      /\ r.timer.duration = s.timer.duration /\ r.timer.options = s.timer.options
  BY <1>3, <1>4 DEF SameTimer
<1>6. Counted(r.timer)
  BY <1>0, <1>5 DEF Counted
<1> QED BY <1>4, <1>5, <1>6 DEF Sound

LEMMA TimerStopEffect ==
    ASSUME NEW s, Sound(s), NEW r, r = TimerStop(s)
    PROVE  /\ Sound(r)
           /\ ~r.timer.running
           /\ r.timer.count = IF s.timer.running THEN 0 ELSE s.timer.count
           /\ r.timer.duration = s.timer.duration /\ r.timer.options = s.timer.options
<1>1. CASE ~s.timer.running
  BY <1>1 DEF TimerStop
<1>2. CASE s.timer.running
  <2> DEFINE u == Set(s, FALSE, 0)
  <2>0. Core(s) /\ s.timer.options.maxRestarts \in Nat \cup {NoLimit}
    BY TimerFields DEF Sound
  <2>1. /\ Core(u) /\ ~u.timer.running /\ u.timer.count = 0
        /\ u.timer.options = s.timer.options /\ u.timer.duration = s.timer.duration
    <3> DEFINE no == FALSE
    <3>1. no \in BOOLEAN /\ u = Set(s, no, 0)
      OBVIOUS
    <3> HIDE DEF u, no
    <3>2. /\ Core(u) /\ u.timer.running = no /\ u.timer.count = 0
          /\ u.timer.options = s.timer.options /\ u.timer.duration = s.timer.duration
      BY <2>0, <3>1, SetEffect
    <3> QED BY <3>2 DEF no
  <2>2. r = TimeoutStop(u)
    BY <1>2 DEF TimerStop
  <2> HIDE DEF u
  <2>3. /\ Core(r) /\ SameTimer(r.timer, u.timer) /\ r.timer.expiration = Never
    BY <2>1, <2>2, TimeoutStopEffect DEF Core
  <2>4. /\ ~r.timer.running /\ r.timer.count = 0
        /\ r.timer.options = s.timer.options /\ r.timer.duration = s.timer.duration
    BY <2>1, <2>3 DEF SameTimer
  <2>5. Counted(r.timer) /\ Heard(r.timer)
    BY <2>0, <2>3, <2>4 DEF Counted, Heard
  <2> QED BY <1>2, <2>3, <2>4, <2>5 DEF Sound
<1> QED BY <1>1, <1>2

\* The first part of Trigger: the timer has expired once more, and starts again
\* if it may.
LEMMA ExpiredEffect ==
    ASSUME now \in Nat, NEW s, Core(s), s.timer.expiration = Never, s.timer.running,
           Counted(s.timer), NEW first \in Nat, NEW r, r = Expired(s, first)
    PROVE  /\ Sound(r)
           /\ r.timer.options = s.timer.options /\ r.timer.duration = s.timer.duration
           /\ r.timer.count = s.timer.count + 1
           /\ r.timer.running <=> MayRestart(s.timer.options, s.timer.count + 1)
           /\ r.timer.running => r.timer.expiration = now + first
<1> DEFINE n == s.timer.count + 1
<1>0. n \in Nat /\ s.timer.options.maxRestarts \in Nat \cup {NoLimit}
  BY TimerFields
<1>1. CASE MayRestart(s.timer.options, n)
  <2> DEFINE yes == TRUE
             u == Set(s, yes, n)
  <2>1. yes \in BOOLEAN /\ u = Set(s, yes, n) /\ r = StartTimeout(u, first)
    BY <1>1 DEF Expired
  <2> HIDE DEF yes, u, n
  <2>2. /\ Core(u) /\ u.timer.running = yes /\ u.timer.count = n
        /\ u.timer.options = s.timer.options /\ u.timer.duration = s.timer.duration
        /\ u.timer.expiration = Never
    BY <1>0, <2>1, SetEffect
  <2>3. u.timer.running
    BY <2>2 DEF yes
  <2>4. /\ Core(r) /\ Heard(r.timer) /\ SameTimer(r.timer, u.timer)
        /\ r.timer.expiration = now + first
    BY <2>1, <2>2, <2>3, StartTimeoutEffect
  <2>5. /\ r.timer.running /\ r.timer.count = n
        /\ r.timer.options = s.timer.options /\ r.timer.duration = s.timer.duration
    BY <2>2, <2>3, <2>4 DEF SameTimer
  <2>6. Counted(r.timer)
    BY <1>0, <1>1, <2>5 DEF Counted, MayRestart
  <2> QED BY <1>1, <2>4, <2>5, <2>6 DEF Sound, n
<1>2. CASE ~MayRestart(s.timer.options, n)
  <2> DEFINE no == FALSE
  <2>1. no \in BOOLEAN /\ r = Set(s, no, n)
    BY <1>2 DEF Expired
  <2> HIDE DEF no
  <2>2. /\ Core(r) /\ r.timer.running = no /\ r.timer.count = n
        /\ r.timer.options = s.timer.options /\ r.timer.duration = s.timer.duration
        /\ r.timer.expiration = Never
    <3> HIDE DEF n
    <3> QED BY <1>0, <2>1, SetEffect
  <2>3. ~r.timer.running
    BY <2>2 DEF no
  <2>4. Counted(r.timer) /\ Heard(r.timer)
    BY <1>0, <2>2, <2>3, TimerFields DEF Counted, Heard, NoLimit
  <2> QED BY <1>2, <2>2, <2>3, <2>4 DEF Sound
<1> QED BY <1>1, <1>2

\* The handler.
LEMMA HandleEffect ==
    ASSUME now \in Nat, NEW s, Sound(s), NEW handler \in Handlers,
           NEW r, r = Handle(s, handler)
    PROVE  /\ Sound(r)
           /\ r.timer.options = s.timer.options /\ r.timer.duration = s.timer.duration
           /\ \/ r = s
              \/ r.timer.running /\ r.timer.count = 0 /\ r.timer.expiration = now + s.timer.duration
              \/ ~r.timer.running /\ s.timer.running /\ r.timer.count = 0
<1>1. CASE handler = "Start"
  <2>1. r = TimerStart(s)
    BY <1>1 DEF Handle
  <2> QED BY <2>1, TimerStartEffect
<1>2. CASE handler = "Stop"
  <2>1. r = TimerStop(s)
    BY <1>2 DEF Handle
  <2>2. CASE s.timer.running
    BY <2>1, <2>2, TimerStopEffect
  <2>3. CASE ~s.timer.running
    BY <2>1, <2>3 DEF TimerStop
  <2> QED BY <2>2, <2>3
<1>3. CASE handler = "nothing"
  BY <1>3 DEF Handle
<1> QED BY <1>1, <1>2, <1>3 DEF Handlers

\* What becomes of s when the handler has returned base.
IsRescheduled(s, base, next, r) ==
    /\ Sound(r)
    /\ r.timer.options = s.timer.options /\ r.timer.count = s.timer.count
    /\ r.timer.running <=> s.timer.running
    /\ r.timer.duration = IF base = 0 THEN s.timer.duration ELSE base
    /\ r.timer.running =>
         r.timer.expiration = IF base = 0 \/ base = s.timer.duration
                              THEN s.timer.expiration ELSE now + next

\* The last part of Trigger.
LEMMA RescheduledEffect ==
    ASSUME now \in Nat, NEW s, Sound(s), NEW base \in Durations \cup {0},
           NEW next \in Nat, NEW r, r = Rescheduled(s, base, next)
    PROVE  IsRescheduled(s, base, next, r)
<1> USE DEF IsRescheduled
<1>1. CASE base = 0 \/ base = s.timer.duration
  BY <1>1 DEF Rescheduled
<1>2. CASE base # 0 /\ base # s.timer.duration
  <2> DEFINE u == [s EXCEPT !.timer.duration = base]
             t == [s.timer EXCEPT !.duration = base]
  <2>0. s = [timer |-> s.timer, tasks |-> s.tasks] /\ s.timer \in TimerType
    BY DEF Sound, Core, Base, States
  <2>1. base \in Durations
    BY <1>2
  <2>2. u = [timer |-> t, tasks |-> s.tasks]
    BY <2>0
  <2>3. /\ t \in TimerType /\ t.duration = base
        /\ t.options = s.timer.options /\ t.count = s.timer.count
        /\ t.running = s.timer.running
        /\ t.posted = s.timer.posted /\ t.expiration = s.timer.expiration
        /\ t.clean = s.timer.clean
        /\ t.id = s.timer.id /\ t.generation = s.timer.generation
    BY <2>0, <2>1 DEF TimerType
  <2>4. r = IF s.timer.running THEN StartTimeout(TimeoutStop(u), next) ELSE u
    BY <1>2 DEF Rescheduled
  <2> HIDE DEF t, u
  <2>5. Core(u) /\ u.timer = t
    BY <2>2, <2>3, FieldsEffect DEF Sound
  <2>6. CASE ~s.timer.running
    <3>1. r = u
      BY <2>4, <2>6
    <3>2. Counted(t) /\ Heard(t)
      BY <2>3 DEF Sound, Counted, Heard
    <3> QED BY <1>2, <2>3, <2>5, <2>6, <3>1, <3>2 DEF Sound
  <2>7. CASE s.timer.running
    <3> DEFINE v == TimeoutStop(u)
    <3>1. v = TimeoutStop(u) /\ r = StartTimeout(v, next)
      BY <2>4, <2>7
    <3> HIDE DEF v
    <3>2. Core(v) /\ SameTimer(v.timer, t) /\ v.timer.expiration = Never
      BY <2>5, <3>1, TimeoutStopEffect DEF Core
    <3>3. v.timer.running
      BY <2>3, <2>7, <3>2 DEF SameTimer
    <3>4. /\ Core(r) /\ Heard(r.timer) /\ SameTimer(r.timer, v.timer)
          /\ r.timer.expiration = now + next
      BY <3>1, <3>2, <3>3, StartTimeoutEffect
    <3>5. /\ r.timer.running /\ r.timer.count = s.timer.count
          /\ r.timer.options = s.timer.options /\ r.timer.duration = base
      BY <2>3, <3>2, <3>3, <3>4 DEF SameTimer
    <3>6. Counted(r.timer)
      BY <2>7, <3>5 DEF Sound, Counted
    <3> QED BY <1>2, <2>7, <3>4, <3>5, <3>6 DEF Sound
  <2> QED BY <2>6, <2>7
<1> QED BY <1>1, <1>2

-----------------------------------------------------------------------------
(* Steps                                                                     *)

\* What the promise says of an expiration, of timer t that becomes u.
HasExpired(t, u) ==
    /\ u.options = t.options /\ u.duration \in Durations
    /\ \/ /\ ~u.running
          /\ u.count = 0 \/ (u.count = t.count + 1 /\ ~MayRestart(t.options, u.count))
       \/ /\ u.running
          /\ u.count = 0 \/ (u.count = t.count + 1 /\ MayRestart(t.options, u.count))
          /\ u.expiration = now + GetBackoffDuration(t.options, u.duration, u.count)

LEMMA NoBackoffAtFirst ==
    ASSUME NEW o, NEW base
    PROVE  GetBackoffDuration(o, base, 0) = base
BY DEF GetBackoffDuration

\* A timer that its timeout triggers has expired as promised.
LEMMA TriggerEffect ==
    ASSUME now \in Nat, NEW STATE s, Core(s), s.timer.expiration = Never,
           s.timer.running, s.timer.id = s.timer.generation, Counted(s.timer),
           Trigger(s)
    PROVE  \E r : Become(r) /\ Sound(r) /\ HasExpired(s.timer, r.timer)
<1>1. PICK handler \in Handlers, base \in Durations \cup {0},
           first \in Backoffs, next \in Backoffs :
        /\ first = GetBackoffDuration(s.timer.options, s.timer.duration, s.timer.count + 1)
        /\ next = GetBackoffDuration(s.timer.options, base,
                     Handle(Expired(s, first), handler).timer.count)
        /\ Become(Rescheduled(Handle(Expired(s, first), handler), base, next))
  BY DEF Trigger
<1> DEFINE e == Expired(s, first)
           h == Handle(e, handler)
           r == Rescheduled(h, base, next)
<1>2. /\ e = Expired(s, first) /\ h = Handle(e, handler)
      /\ r = Rescheduled(h, base, next)
      /\ next = GetBackoffDuration(s.timer.options, base, h.timer.count)
      /\ Become(r)
  BY <1>1
<1> HIDE DEF e, h, r
<1>3. first \in Nat /\ next \in Nat /\ s.timer.count \in Nat
  BY Constants, TimerFields
<1>4. /\ Sound(e)
      /\ e.timer.options = s.timer.options /\ e.timer.duration = s.timer.duration
      /\ e.timer.count = s.timer.count + 1
      /\ e.timer.running <=> MayRestart(s.timer.options, s.timer.count + 1)
      /\ e.timer.running => e.timer.expiration = now + first
  BY <1>2, <1>3, ExpiredEffect
<1>5. /\ Sound(h)
      /\ h.timer.options = e.timer.options /\ h.timer.duration = e.timer.duration
      /\ \/ h = e
         \/ h.timer.running /\ h.timer.count = 0 /\ h.timer.expiration = now + e.timer.duration
         \/ ~h.timer.running /\ e.timer.running /\ h.timer.count = 0
  BY <1>2, <1>4, HandleEffect
<1>6. /\ h.timer.count = 0 \/ h.timer.count = s.timer.count + 1
      /\ h.timer.count = 0 \/ (h.timer.running <=> MayRestart(s.timer.options, h.timer.count))
      /\ h.timer.running =>
           h.timer.expiration =
             now + GetBackoffDuration(s.timer.options, s.timer.duration, h.timer.count)
  <2>1. CASE h = e
    BY <1>1, <1>4, <2>1
  <2>2. CASE h.timer.running /\ h.timer.count = 0 /\ h.timer.expiration = now + e.timer.duration
    BY <1>4, <2>2, NoBackoffAtFirst
  <2>3. CASE ~h.timer.running /\ h.timer.count = 0
    BY <2>3
  <2> QED BY <1>5, <2>1, <2>2, <2>3
<1>7. IsRescheduled(h, base, next, r)
  BY <1>2, <1>3, <1>5, RescheduledEffect
<1>8. r.timer.options = s.timer.options /\ r.timer.duration \in Durations
  BY <1>4, <1>5, <1>7, TimerFields DEF IsRescheduled
<1>9. r.timer.running =>
        r.timer.expiration =
          now + GetBackoffDuration(s.timer.options, r.timer.duration, r.timer.count)
  <2>1. CASE base = 0 \/ base = h.timer.duration
    <3>1. r.timer.duration = s.timer.duration
      BY <1>4, <1>5, <1>7, <2>1 DEF IsRescheduled
    <3> QED BY <1>6, <1>7, <2>1, <3>1 DEF IsRescheduled
  <2>2. CASE base # 0 /\ base # h.timer.duration
    BY <1>2, <1>7, <2>2 DEF IsRescheduled
  <2> QED BY <2>1, <2>2
<1>10. HasExpired(s.timer, r.timer)
  BY <1>6, <1>7, <1>8, <1>9 DEF HasExpired, IsRescheduled
<1> QED BY <1>2, <1>7, <1>10 DEF IsRescheduled

\* A state that an operation ends in is the state of the next step.
LEMMA Becoming ==
    ASSUME NEW r, Sound(r), Become(r), now' = now
    PROVE  Sound(State)' /\ timer' = r.timer
BY DEF Sound, Core, Base, States, OneTask, HasTask, OnTime, Covered, Become, State

Inv == now \in 0..MaxTime /\ Sound(State)

\* What is left when the posted task is taken out of the queue.
LEMMA TaskTaken ==
    ASSUME Inv, NEW t \in tasks, t.alive,
           NEW s, s = [timer |-> [timer EXCEPT !.posted = Never], tasks |-> tasks \ {t}]
    PROVE  /\ Base(s)
           /\ SameTimer(s.timer, timer)
           /\ s.timer.expiration = timer.expiration
           /\ s.timer.id = timer.id /\ s.timer.generation = timer.generation
<1>0. /\ timer \in TimerType /\ tasks \in SUBSET TaskType /\ timer.clean
      /\ \A u \in tasks : u.alive => u.due = timer.posted
      /\ \A u \in tasks : now <= u.due + Lag
  BY DEF Inv, Sound, Core, Base, States, OneTask, OnTime, State
<1>1. s.timer = [timer EXCEPT !.posted = Never] /\ s.tasks = tasks \ {t}
  OBVIOUS
<1>2. /\ s.timer \in TimerType /\ s.timer.posted = Never
      /\ SameTimer(s.timer, timer) /\ s.timer.clean = timer.clean
      /\ s.timer.expiration = timer.expiration
      /\ s.timer.id = timer.id /\ s.timer.generation = timer.generation
  BY <1>0, <1>1 DEF TimerType, SameTimer
<1>3. \A u \in s.tasks : ~u.alive
  <2> SUFFICES ASSUME NEW u \in s.tasks, u.alive PROVE FALSE
    OBVIOUS
  <2>1. u \in TaskType /\ t \in TaskType /\ u.due = t.due /\ u # t
    BY <1>0, <1>1
  <2>2. u = [due |-> u.due, alive |-> u.alive] /\ t = [due |-> t.due, alive |-> t.alive]
    BY <2>1 DEF TaskType
  <2>3. u.alive = TRUE /\ t.alive = TRUE
    BY <2>1 DEF TaskType
  <2> QED BY <2>1, <2>2, <2>3
<1>4. s \in States
  BY <1>0, <1>2, <1>1 DEF States
<1> QED BY <1>0, <1>1, <1>2, <1>3, <1>4 DEF Base, OneTask, HasTask, OnTime

\* A task that is run leaves the timer as it is to its owner, or the timer has
\* expired as promised, not before its time.
LEMMA RunTaskEffect ==
    ASSUME Inv, NEW t \in tasks, RunTask(t)
    PROVE  /\ Inv'
           /\ \/ SameTimer(timer', timer) /\ timer'.expiration = timer.expiration
              \/ /\ timer.running /\ timer.expiration <= now
                 /\ HasExpired(timer, timer')
<1> DEFINE s == [timer |-> [timer EXCEPT !.posted = Never], tasks |-> tasks \ {t}]
           left == [timer |-> timer, tasks |-> tasks \ {t}]
<1>0. /\ now' = now /\ now \in Nat /\ timer \in TimerType
      /\ Heard(timer) /\ Counted(timer)
  BY TimerAssumption DEF RunTask, Inv, Sound, Core, Base, States, State
<1>1. CASE ~t.alive /\ Become(left)
  <2>1. timer' = timer /\ tasks' = tasks \ {t}
    BY <1>1 DEF Become
  <2>2. [due |-> timer.posted, alive |-> TRUE] # t
    BY <1>1
  <2> QED BY <1>0, <2>1, <2>2
          DEF Inv, Sound, Core, Base, States, OneTask, HasTask, OnTime, Covered, State, SameTimer
<1>2. CASE t.alive /\ TimeoutHandler(s)
  <2>1. /\ Base(s) /\ SameTimer(s.timer, timer)
        /\ s.timer.expiration = timer.expiration
        /\ s.timer.id = timer.id /\ s.timer.generation = timer.generation
    BY <1>2, TaskTaken
  <2>2. Heard(s.timer) /\ Counted(s.timer)
    BY <1>0, <2>1 DEF Heard, Counted, SameTimer
  <2> HIDE DEF s
  <2> DEFINE v == TimeoutStop(s)
  <2>3. /\ Core(v) /\ SameTimer(v.timer, s.timer) /\ v.timer.expiration = Never
        /\ v.timer.id = s.timer.id /\ v.timer.generation = s.timer.generation
    BY <2>1, TimeoutStopEffect
  <2>4. CASE s.timer.expiration = Never /\ Become(s)
    <3>1. Sound(s)
      BY <2>1, <2>2, <2>4 DEF Sound, Core, Covered
    <3>2. Sound(State)' /\ timer' = s.timer
      BY <1>0, <2>4, <3>1, Becoming
    <3> QED BY <1>0, <2>1, <3>2 DEF Inv
  <2>5. CASE /\ s.timer.expiration # Never /\ s.timer.expiration > now
             /\ Become(TimeoutStart(v, s.timer.expiration - now, s.timer.id))
    <3> DEFINE d == s.timer.expiration - now
               r == TimeoutStart(v, d, s.timer.id)
    <3>1. /\ d \in Nat /\ now + d = s.timer.expiration
          /\ s.timer.id \in 0..(Generations - 1)
      BY <1>0, <2>1, <2>5 DEF TimerType, Never
    <3>2. r = TimeoutStart(v, d, s.timer.id) /\ Become(r)
      BY <2>5
    <3> HIDE DEF d, r, v
    <3>3. /\ Core(r) /\ SameTimer(r.timer, v.timer)
          /\ r.timer.expiration = now + d /\ r.timer.id = s.timer.id
          /\ r.timer.generation = v.timer.generation
      BY <1>0, <2>3, <3>1, <3>2, TimeoutStartEffect
    <3>4. Heard(r.timer) /\ Counted(r.timer)
      BY <2>2, <2>3, <2>5, <3>1, <3>3 DEF Heard, Counted, SameTimer
    <3>5. Sound(State)' /\ timer' = r.timer
      BY <1>0, <3>2, <3>3, <3>4, Becoming DEF Sound
    <3>6. SameTimer(timer', timer) /\ timer'.expiration = timer.expiration
      BY <2>1, <2>3, <3>1, <3>3, <3>5 DEF SameTimer
    <3> QED BY <1>0, <3>5, <3>6 DEF Inv
  <2>6. CASE s.timer.expiration # Never /\ s.timer.expiration <= now /\ Trigger(v)
    <3>1. /\ v.timer.running /\ v.timer.id = v.timer.generation /\ Counted(v.timer)
          /\ v.timer.options = timer.options /\ v.timer.count = timer.count
      BY <2>1, <2>2, <2>3, <2>6 DEF Heard, Counted, SameTimer
    <3> HIDE DEF v
    <3>2. PICK r : Become(r) /\ Sound(r) /\ HasExpired(v.timer, r.timer)
      BY <1>0, <2>3, <2>6, <3>1, TriggerEffect
    <3>3. Sound(State)' /\ timer' = r.timer
      BY <1>0, <3>2, Becoming
    <3>4. HasExpired(timer, timer')
      BY <3>1, <3>2, <3>3 DEF HasExpired
    <3>5. timer.running
      BY <1>0, <2>1, <2>6 DEF Heard
    <3> QED BY <1>0, <2>1, <2>6, <3>3, <3>4, <3>5 DEF Inv
  <2> QED BY <1>2, <2>4, <2>5, <2>6 DEF TimeoutHandler
<1>3. left.timer = timer /\ [left EXCEPT !.timer.posted = Never] = s
  OBVIOUS
<1> QED BY <1>1, <1>2, <1>3 DEF RunTask

LEMMA InitInv == Init => Inv
<1> SUFFICES ASSUME Init PROVE Inv
  OBVIOUS
<1>1. PICK o \in Options : timer = NewTimer(o)
  BY DEF Init
<1>2. timer \in TimerType
  BY <1>1, Constants, TimerAssumption DEF NewTimer, TimerType
<1>3. /\ timer.posted = Never /\ timer.expiration = Never /\ timer.clean
      /\ ~timer.running /\ timer.count = 0 /\ timer.options = o
  BY <1>1 DEF NewTimer
<1> QED BY <1>2, <1>3, Constants, TimerAssumption
        DEF Init, Inv, Sound, Core, Base, States, OneTask, HasTask, OnTime, Covered,
            Heard, Counted, State

LEMMA StartEffect ==
    ASSUME Inv, Start
    PROVE  /\ Inv'
           /\ timer'.running /\ timer'.expiration = now + timer.duration
           /\ timer'.count = 0
           /\ timer'.duration = timer.duration /\ timer'.options = timer.options
<1> DEFINE r == TimerStart(State)
<1>1. Sound(State) /\ now \in Nat /\ now' = now /\ State.timer = timer /\ Become(r)
  BY TimerAssumption DEF Inv, Start, State
<1>2. r = TimerStart(State)
  OBVIOUS
<1> HIDE DEF r
<1>3. /\ Sound(r)
      /\ r.timer.running /\ r.timer.expiration = now + timer.duration
      /\ r.timer.count = 0
      /\ r.timer.duration = timer.duration /\ r.timer.options = timer.options
  BY <1>1, <1>2, TimerStartEffect
<1>4. Sound(State)' /\ timer' = r.timer
  BY <1>1, <1>3, Becoming
<1> QED BY <1>1, <1>3, <1>4 DEF Inv

LEMMA StopEffect ==
    ASSUME Inv, Stop
    PROVE  /\ Inv'
           /\ ~timer'.running
           /\ timer'.count = IF timer.running THEN 0 ELSE timer.count
           /\ timer'.duration = timer.duration /\ timer'.options = timer.options
<1> DEFINE r == TimerStop(State)
<1>1. Sound(State) /\ now' = now /\ State.timer = timer /\ Become(r)
  BY DEF Inv, Stop, State
<1>2. r = TimerStop(State)
  OBVIOUS
<1> HIDE DEF r
<1>3. /\ Sound(r) /\ ~r.timer.running
      /\ r.timer.count = IF timer.running THEN 0 ELSE timer.count
      /\ r.timer.duration = timer.duration /\ r.timer.options = timer.options
  BY <1>1, <1>2, TimerStopEffect
<1>4. Sound(State)' /\ timer' = r.timer
  BY <1>1, <1>3, Becoming
<1> QED BY <1>1, <1>3, <1>4 DEF Inv

LEMMA SetDurationEffect ==
    ASSUME Inv, SetDuration
    PROVE  /\ Inv'
           /\ timer'.running = timer.running /\ timer'.expiration = timer.expiration
           /\ timer'.count = timer.count /\ timer'.options = timer.options
           /\ timer'.duration \in Durations
<1>1. PICK d \in Durations : timer' = [timer EXCEPT !.duration = d]
  BY DEF SetDuration
<1>2. timer \in TimerType /\ tasks' = tasks /\ now' = now
  BY DEF SetDuration, Inv, Sound, Core, Base, States, State
<1>3. /\ timer' \in TimerType /\ timer'.duration = d
      /\ timer'.running = timer.running /\ timer'.expiration = timer.expiration
      /\ timer'.count = timer.count /\ timer'.options = timer.options
      /\ timer'.posted = timer.posted /\ timer'.clean = timer.clean
      /\ timer'.id = timer.id /\ timer'.generation = timer.generation
  BY <1>1, <1>2 DEF TimerType
<1>4. Sound(State)'
  BY <1>2, <1>3 DEF Inv, Sound, Core, Base, States, OneTask, HasTask, OnTime, Covered,
                    Heard, Counted, State
<1> QED BY <1>2, <1>3, <1>4 DEF Inv

LEMMA RenewEffect ==
    ASSUME Inv, Renew
    PROVE  /\ Inv'
           /\ ~timer'.running /\ timer'.count = 0
           /\ timer'.options \in Options /\ timer'.duration = timer'.options.duration
<1>1. PICK o \in Options : timer' = NewTimer(o)
  BY DEF Renew
<1>2. tasks \in SUBSET TaskType /\ tasks' = Ghosts(State) /\ now' = now
  BY DEF Renew, Inv, Sound, Core, Base, States, State
<1>3. timer' \in TimerType
  BY <1>1, Constants, TimerAssumption DEF NewTimer, TimerType
<1>4. /\ timer'.posted = Never /\ timer'.expiration = Never /\ timer'.clean
      /\ ~timer'.running /\ timer'.count = 0 /\ timer'.options = o
      /\ timer'.duration = o.duration
  BY <1>1 DEF NewTimer
<1>5. tasks' \in SUBSET TaskType /\ \A t \in tasks' : ~t.alive /\ now <= t.due + Lag
  BY <1>2 DEF Ghosts, State, TaskType, Inv, Sound, Core, Base, OnTime
<1>6. Sound(State)'
  BY <1>2, <1>3, <1>4, <1>5, Constants
     DEF Sound, Core, Base, States, OneTask, HasTask, OnTime, Covered, Heard, Counted, State
<1> QED BY <1>2, <1>4, <1>6 DEF Inv

\* The task of a running timer keeps time from passing beyond its expiration.
LEMMA TickEffect ==
    ASSUME Inv, Tick
    PROVE  /\ Inv'
           /\ timer.running => now < timer.expiration + Lag
           /\ now < MaxTime /\ now' = now + 1 /\ timer' = timer
<1>0. /\ now \in Nat /\ Lag \in Nat /\ MaxTime \in Nat
      /\ now < MaxTime /\ now' = now + 1 /\ timer' = timer /\ tasks' = tasks
      /\ timer \in TimerType /\ tasks \in SUBSET TaskType
      /\ \A t \in tasks : t.due \in Nat /\ now < t.due + Lag
  BY TimerAssumption DEF Tick, Inv, Sound, Core, Base, States, State, TaskType
<1>1. ASSUME timer.running PROVE now < timer.expiration + Lag
  <2>1. /\ timer.expiration # Never /\ timer.posted # Never
        /\ timer.posted <= timer.expiration
        /\ [due |-> timer.posted, alive |-> TRUE] \in tasks
    BY <1>1 DEF Inv, Sound, Core, Base, Heard, Covered, HasTask, State
  <2>2. now < timer.posted + Lag
    BY <1>0, <2>1
  <2>3. timer.posted \in Nat /\ timer.expiration \in Nat
    BY <1>0, <2>1 DEF TimerType
  <2> QED BY <1>0, <2>1, <2>2, <2>3
<1>2. \A t \in tasks : now + 1 <= t.due + Lag
  BY <1>0
<1>3. Sound(State)'
  BY <1>0, <1>2 DEF Inv, Sound, Core, Base, States, OneTask, HasTask, OnTime, Covered, State
<1> QED BY <1>0, <1>1, <1>3 DEF Inv

LEMMA StutterEffect ==
    ASSUME Inv, UNCHANGED vars
    PROVE  Inv'
BY DEF vars, Inv, Sound, Core, Base, States, OneTask, HasTask, OnTime, Covered, State

LEMMA StepInv == Inv /\ [Next]_vars => Inv'
BY StartEffect, StopEffect, SetDurationEffect, RenewEffect, RunTaskEffect, TickEffect,
   StutterEffect DEF Next

-----------------------------------------------------------------------------
(* Theorems                                                                  *)

\* The timer and its timeout are always in states of the declared types, and a
\* timer does not restart more often than its options allow.
THEOREM TypeCorrect == Spec => []TypeOK
<1>1. Inv => TypeOK
  BY DEF Inv, Sound, Core, Base, States, Counted, State, TypeOK, TimerType, TaskType
<1> QED BY <1>1, InitInv, StepInv, PTL DEF Spec

\* A timeout never has two tasks that would both do something.
THEOREM NoTwoTasks == Spec => []OneLiveTask
<1>1. Inv => OneLiveTask
  <2> SUFFICES ASSUME Inv PROVE OneLiveTask
    OBVIOUS
  <2>0. /\ timer \in TimerType /\ tasks \in SUBSET TaskType
        /\ \A t \in tasks : t.alive => t.due = timer.posted
        /\ timer.posted # Never => [due |-> timer.posted, alive |-> TRUE] \in tasks
    BY DEF Inv, Sound, Core, Base, States, OneTask, HasTask, State
  <2>1. ASSUME NEW t \in Alive
        PROVE  timer.posted # Never /\ t = [due |-> timer.posted, alive |-> TRUE]
    <3>1. t \in TaskType /\ t.alive /\ t.due = timer.posted
      BY <2>0 DEF Alive
    <3>2. t = [due |-> t.due, alive |-> t.alive] /\ t.alive = TRUE
      BY <3>1 DEF TaskType
    <3>3. t.due # Never
      BY <3>1 DEF TaskType, Never
    <3> QED BY <3>1, <3>2, <3>3
  <2>2. CASE timer.posted = Never
    BY <2>1, <2>2 DEF OneLiveTask
  <2>3. CASE timer.posted # Never
    <3>1. [due |-> timer.posted, alive |-> TRUE] \in Alive
      BY <2>0, <2>3 DEF Alive
    <3> QED BY <2>1, <2>3, <3>1 DEF OneLiveTask
  <2> QED BY <2>2, <2>3
<1> QED BY <1>1, InitInv, StepInv, PTL DEF Spec

\* No expiration is ignored: Timer::Trigger finds the generation it waits for.
THEOREM NoExpiryIsLost == Spec => []ExpiryIsHeard
<1>1. Inv => ExpiryIsHeard
  BY DEF Inv, Sound, Core, Base, Heard, State, ExpiryIsHeard
<1> QED BY <1>1, InitInv, StepInv, PTL DEF Spec

\* No timeout is started while it runs, which TaskQueueTimeout::Start asserts.
THEOREM NeverStartedTwice == Spec => []StartsWhenIdle
<1>1. Inv => StartsWhenIdle
  BY DEF Inv, Sound, Core, Base, State, StartsWhenIdle
<1> QED BY <1>1, InitInv, StepInv, PTL DEF Spec

\* A running timer is never later than the task queue makes it.
THEOREM ExpiresInTime == Spec => []NeverLate
<1>1. Inv => NeverLate
  <2> SUFFICES ASSUME Inv, timer.running PROVE now <= timer.expiration + Lag
    BY DEF NeverLate
  <2>0. /\ timer \in TimerType /\ now \in Nat /\ Lag \in Nat
        /\ \A t \in tasks : now <= t.due + Lag
        /\ timer.expiration # Never /\ timer.posted # Never
        /\ timer.posted <= timer.expiration
        /\ [due |-> timer.posted, alive |-> TRUE] \in tasks
    BY TimerAssumption
       DEF Inv, Sound, Core, Base, States, Heard, Covered, HasTask, OnTime, State
  <2>1. now <= timer.posted + Lag
    BY <2>0
  <2>2. timer.posted \in Nat /\ timer.expiration \in Nat
    BY <2>0 DEF TimerType
  <2> QED BY <2>0, <2>1, <2>2
<1> QED BY <1>1, InitInv, StepInv, PTL DEF Spec

\* The timer on a task queue keeps the promise of timer.h.
THEOREM TimerKeepsPromise == Spec => KeepsPromise
<1>1. Init => Promise!Init
  BY DEF Init, NewTimer, Promise!Init
<1>2. Inv /\ [Next]_vars => [Promise!Next]_(Promise!vars)
  <2> SUFFICES ASSUME Inv, [Next]_vars PROVE Promise!Next \/ UNCHANGED Promise!vars
    BY DEF Promise!vars
  <2>0. /\ timer.running \in BOOLEAN /\ Heard(timer)
        /\ timer.duration \in Durations
    <3>1. timer \in TimerType /\ Heard(timer)
      BY DEF Inv, Sound, Core, Base, States, State
    <3> QED BY <3>1 DEF TimerType
  <2>1. CASE Start
    <3>1. now' = now
      BY <2>1 DEF Start
    <3> QED BY <2>1, <3>1, StartEffect DEF Promise!Next, Promise!Start, Promise!RunFor
  <2>2. CASE Stop
    <3>1. now' = now
      BY <2>2 DEF Stop
    <3> QED BY <2>2, <3>1, StopEffect DEF Promise!Next, Promise!Stop, Promise!Idle
  <2>3. CASE SetDuration
    <3>1. now' = now
      BY <2>3 DEF SetDuration
    <3> QED BY <2>3, <3>1, SetDurationEffect DEF Promise!Next, Promise!SetDuration
  <2>4. CASE Renew
    <3>1. now' = now
      BY <2>4 DEF Renew
    <3> QED BY <2>4, <3>1, RenewEffect DEF Promise!Next, Promise!Renew, Promise!Idle
  <2>5. ASSUME NEW t \in tasks, RunTask(t) PROVE Promise!Next \/ UNCHANGED Promise!vars
    <3>1. now' = now
      BY <2>5 DEF RunTask
    <3>2. CASE SameTimer(timer', timer) /\ timer'.expiration = timer.expiration
      BY <3>1, <3>2 DEF Promise!vars, SameTimer
    <3>3. CASE timer.running /\ timer.expiration <= now /\ HasExpired(timer, timer')
      BY <3>1, <3>3 DEF HasExpired, Promise!Next, Promise!Expire, Promise!Idle, Promise!RunFor
    <3> QED BY <2>5, <3>2, <3>3, RunTaskEffect
  <2>6. CASE Tick
    BY <2>6, TickEffect DEF Promise!Next, Promise!Tick
  <2>7. CASE UNCHANGED vars
    BY <2>7 DEF vars, Promise!vars
  <2> QED BY <2>1, <2>2, <2>3, <2>4, <2>5, <2>6, <2>7 DEF Next
<1> QED BY <1>1, <1>2, InitInv, StepInv, PTL DEF Spec, KeepsPromise, Promise!Spec
=============================================================================
