------------------------------- MODULE Timer -------------------------------
(***************************************************************************)
(* A dcSCTP timer (timer/timer.cc) on a timeout of a task queue            *)
(* (timer/task_queue_timeout.cc). A task queue cannot take a posted task   *)
(* back. A stopped timeout leaves its task posted, a restarted one uses    *)
(* the posted task when that is not too late, and otherwise the task is    *)
(* made a ghost, which does nothing when it is run.                        *)
(*                                                                         *)
(* Everything runs on the task queue, which runs a delayed task when its   *)
(* time has come, at most Lag later.                                       *)
(***************************************************************************)
EXTENDS TimerOptions, FiniteSets

CONSTANTS
    Generations,    \* 2^32: TimerGeneration wraps
    Lag,            \* how late a task may be run
    MaxTime         \* bound

ASSUME TimerAssumption ==
    /\ Generations \in Nat \ {0}
    /\ Lag \in Nat /\ MaxTime \in Nat

Never == -1         \* Timestamp::PlusInfinity

VARIABLES
    now,            \* the time
    timer,          \* the timer and its timeout
    tasks           \* delayed tasks in the task queue

vars == <<now, timer, tasks>>

\* A timer and the tasks that are posted for it. Operations map one such state
\* to another, because the timer calls its timeout and its handler.
State == [timer |-> timer, tasks |-> tasks]

NewTimer(options) ==
    [options |-> options,
     duration |-> options.duration,
     running |-> FALSE,             \* is_running_
     generation |-> 0,
     count |-> 0,                   \* expiration_count_
     expiration |-> Never,          \* timeout_expiration_
     posted |-> Never,              \* posted_task_expiration_
     id |-> 0,                      \* the generation in timeout_id_
     clean |-> TRUE]                \* history: see StartsWhenIdle

-----------------------------------------------------------------------------
(* TaskQueueTimeout                                                        *)

\* SetNotAlive, of the safety flag that the posted tasks share.
Ghosts(s) == {[t EXCEPT !.alive = FALSE] : t \in s.tasks}

PostTask(s, due) ==
    [s EXCEPT !.timer.posted = due, !.tasks = @ \cup {[due |-> due, alive |-> TRUE]}]

\* Mutant: a posted task is used even when it is too late.
EnsureTaskLate(s, due) == IF s.timer.posted # Never THEN s ELSE PostTask(s, due)

\* Mutant: the task that is too late stays alive.
EnsureTaskTwice(s, due) ==
    IF s.timer.posted # Never /\ due >= s.timer.posted THEN s ELSE PostTask(s, due)

\* A task will be run at the time due, or before.
EnsureTask(s, due) ==
    IF s.timer.posted # Never /\ due >= s.timer.posted THEN s
    ELSE PostTask(IF s.timer.posted = Never THEN s ELSE [s EXCEPT !.tasks = Ghosts(s)], due)

TimeoutStart(s, d, id) ==
    LET idle == s.timer.expiration = Never
        t == [s.timer EXCEPT !.expiration = now + d, !.id = id,
                             !.clean = s.timer.clean /\ idle]
    IN  EnsureTask([s EXCEPT !.timer = t], now + d)

TimeoutStop(s) == [s EXCEPT !.timer.expiration = Never]

-----------------------------------------------------------------------------
(* Timer                                                                   *)

\* Mutant: the timeout gets the generation before.
StartTimeoutStale(s, d) ==
    LET next == (s.timer.generation + 1) % Generations
    IN  TimeoutStart([s EXCEPT !.timer.generation = next], d, s.timer.generation)

\* The timeout is started with a new generation, to expire after d.
StartTimeout(s, d) ==
    LET next == (s.timer.generation + 1) % Generations
    IN  TimeoutStart([s EXCEPT !.timer.generation = next], d, next)

\* is_running_ and expiration_count_ are set.
Set(s, running, count) ==
    [s EXCEPT !.timer = [s.timer EXCEPT !.running = running, !.count = count]]

\* Timeout::Restart stops and starts.
TimerStart(s) ==
    StartTimeout(IF s.timer.running THEN TimeoutStop(Set(s, TRUE, 0)) ELSE Set(s, TRUE, 0),
                 s.timer.duration)

\* Mutant: the timeout is not stopped.
TimerStopForgets(s) == Set(s, FALSE, 0)

TimerStop(s) ==
    IF s.timer.running THEN TimeoutStop(Set(s, FALSE, 0)) ELSE s

\* The first part of Timer::Trigger, before the handler is called. The timer
\* restarts if it may, after the duration first.
Expired(s, first) ==
    LET count == s.timer.count + 1
    IN  IF MayRestart(s.timer.options, count)
        THEN StartTimeout(Set(s, TRUE, count), first)
        ELSE Set(s, FALSE, count)

\* What on_expired_ may do to the timer.
Handlers == {"nothing", "Start", "Stop"}
Handle(s, handler) ==
    CASE handler = "Start" -> TimerStart(s)
      [] handler = "Stop" -> TimerStop(s)
      [] OTHER -> s

\* The last part: base is the duration that on_expired_ returned, or 0, and the
\* timer expires again after the duration next.
Rescheduled(s, base, next) ==
    IF base = 0 \/ base = s.timer.duration THEN s
    ELSE LET set == [s EXCEPT !.timer.duration = base]
         IN  IF s.timer.running THEN StartTimeout(TimeoutStop(set), next) ELSE set

Backoffs == 0..kMaxTimerDuration

Become(s) == timer' = s.timer /\ tasks' = s.tasks

\* Timer::Trigger, with the generation that the timeout reports.
Trigger(s) ==
    IF s.timer.running /\ s.timer.id = s.timer.generation
    THEN \E handler \in Handlers, base \in Durations \cup {0}, first, next \in Backoffs :
           LET handled == Handle(Expired(s, first), handler)
           IN  /\ first = GetBackoffDuration(s.timer.options, s.timer.duration,
                                             s.timer.count + 1)
               /\ next = GetBackoffDuration(s.timer.options, base, handled.timer.count)
               /\ Become(Rescheduled(handled, base, next))
    ELSE Become(s)

-----------------------------------------------------------------------------
(* Steps                                                                   *)

Init ==
    /\ now = 0 /\ tasks = {}
    /\ \E options \in Options : timer = NewTimer(options)

Start == Become(TimerStart(State)) /\ UNCHANGED now
Stop == Become(TimerStop(State)) /\ UNCHANGED now

SetDuration ==
    /\ \E d \in Durations : timer' = [timer EXCEPT !.duration = d]
    /\ UNCHANGED <<now, tasks>>

\* The owner destroys the timer and its timeout, and creates another one.
Renew ==
    /\ \E options \in Options : timer' = NewTimer(options)
    /\ tasks' = Ghosts(State)
    /\ UNCHANGED now

\* Mutant: the timeout is taken to have expired when its task is run.
TimeoutHandlerEarly(s) ==
    \/ s.timer.expiration = Never /\ Become(s)
    \/ s.timer.expiration # Never /\ Trigger(TimeoutStop(s))

\* What the task of the timeout does when it is run. If the timeout was
\* restarted meanwhile, it goes on for the time that remains.
TimeoutHandler(s) ==
    \/ s.timer.expiration = Never /\ Become(s)
    \/ /\ s.timer.expiration # Never /\ s.timer.expiration > now
       /\ Become(TimeoutStart(TimeoutStop(s), s.timer.expiration - now, s.timer.id))
    \/ /\ s.timer.expiration # Never /\ s.timer.expiration <= now
       /\ Trigger(TimeoutStop(s))

\* posted_task_expiration_ is reset by a task that is not a ghost.
RunTask(t) ==
    LET left == [timer |-> timer, tasks |-> tasks \ {t}] IN
    /\ t.due <= now
    /\ \/ ~t.alive /\ Become(left)
       \/ t.alive /\ TimeoutHandler([left EXCEPT !.timer.posted = Never])
    /\ UNCHANGED now

Tick ==
    /\ now < MaxTime
    /\ \A t \in tasks : now < t.due + Lag
    /\ now' = now + 1
    /\ UNCHANGED <<timer, tasks>>

Next == Start \/ Stop \/ SetDuration \/ Renew \/ (\E t \in tasks : RunTask(t)) \/ Tick

Spec == Init /\ [][Next]_vars

-----------------------------------------------------------------------------
(* Properties                                                              *)

Alive == {t \in tasks : t.alive}

\* Types; and a timer that gives up after max_restarts expiries has not counted
\* more of them than that (Timer::Trigger).
TypeOK ==
    /\ now \in 0..MaxTime
    /\ tasks \subseteq [due : Nat, alive : BOOLEAN]
    /\ timer \in [options : Options, duration : Durations, running : BOOLEAN,
                  generation : 0..(Generations - 1), count : Nat,
                  expiration : Nat \cup {Never}, posted : Nat \cup {Never},
                  id : 0..(Generations - 1), clean : BOOLEAN]
    /\ \/ timer.options.maxRestarts = NoLimit
       \/ timer.count <= timer.options.maxRestarts + (IF timer.running THEN 0 ELSE 1)

\* However a timeout is stopped, restarted and destroyed, it has at most one task
\* that is not a ghost, and knows when that is run (RTC_DCHECK in the task:
\* !posted_task_expiration_.IsPlusInfinity()).
OneLiveTask ==
    Alive = IF timer.posted = Never THEN {} ELSE {[due |-> timer.posted, alive |-> TRUE]}

\* A timer is running exactly when its timeout is, and then the timeout reports
\* the generation that the timer waits for: no expiration is lost, whatever the
\* number of generations (Timer::Trigger ignores other generations).
ExpiryIsHeard ==
    /\ timer.running <=> timer.expiration # Never
    /\ timer.running => timer.id = timer.generation

\* A timeout is only started when it is not running (RTC_DCHECK in
\* TaskQueueTimeout::Start: timeout_expiration_.IsPlusInfinity()).
StartsWhenIdle == timer.clean

\* A running timer expires in time: the task that was posted last is early
\* enough, or the one posted before it is run first (TaskQueueTimeout::Start).
NeverLate == timer.running => now <= timer.expiration + Lag

\* The doubling stops at the limits (GetBackoffDuration), against a definition
\* without a loop.
BackoffIsLimited ==
    \A base \in Durations :
        LET o == timer.options
            n == timer.count + 1
            doubled == base * 2^n
        IN  GetBackoffDuration(o, base, n) =
              IF ~o.exponential THEN base
              ELSE IF doubled <= o.maxBackoff THEN doubled ELSE o.maxBackoff

\* The timer keeps the promise of timer.h: it is to its owner as if nothing but
\* the last call of Start counted, whatever tasks are still posted.
Promise == INSTANCE TimerPromise WITH
    Backoff <- GetBackoffDuration,
    running <- timer.running,
    deadline <- IF timer.running THEN timer.expiration ELSE 0,
    count <- timer.count,
    duration <- timer.duration,
    options <- timer.options
KeepsPromise == Promise!Spec
=============================================================================
