---------------------------- MODULE TimerPromise ----------------------------
(***************************************************************************)
(* What timer/timer.h promises of a timer: while it is running it expires  *)
(* when its duration has passed since it was last started, not earlier and *)
(* at most Lag later, and then starts again by itself with a longer        *)
(* duration until it has done so max_restarts times.                       *)
(***************************************************************************)
EXTENDS Integers

CONSTANTS
    Options, Durations,
    Backoff(_, _, _),   \* duration after so many expirations, from the base
    MayRestart(_, _),   \* whether it restarts after so many expirations
    Lag, MaxTime

VARIABLES
    now,        \* the time
    running,
    deadline,   \* when it expires, if it is running
    count,      \* expirations since it was started
    duration,   \* the base duration
    options     \* the options it was created with

vars == <<now, running, deadline, count, duration, options>>

Init ==
    /\ now = 0
    /\ running = FALSE /\ deadline = 0 /\ count = 0
    /\ options \in Options /\ duration = options.duration

\* From now on the timer is to expire in d.
RunFor(d) == running' = TRUE /\ deadline' = now + d
Idle == running' = FALSE /\ deadline' = 0

Start ==
    /\ RunFor(duration) /\ count' = 0
    /\ UNCHANGED <<now, duration, options>>

Stop ==
    /\ Idle /\ count' = IF running THEN 0 ELSE count
    /\ UNCHANGED <<now, duration, options>>

SetDuration ==
    /\ duration' \in Durations
    /\ UNCHANGED <<now, running, deadline, count, options>>

\* The timer starts again unless it has done so often enough. Its handler may
\* set another base duration, and stop the timer or start it anew.
Expire ==
    /\ running /\ now >= deadline
    /\ duration' \in Durations
    /\ \/ /\ Idle
          /\ count' = 0 \/ (count' = count + 1 /\ ~MayRestart(options, count'))
       \/ /\ count' = 0 \/ (count' = count + 1 /\ MayRestart(options, count'))
          /\ RunFor(Backoff(options, duration', count'))
    /\ UNCHANGED <<now, options>>

\* The timer is destroyed and another one is created.
Renew ==
    /\ Idle /\ count' = 0
    /\ options' \in Options /\ duration' = options'.duration
    /\ UNCHANGED now

Tick ==
    /\ now < MaxTime
    /\ running => now < deadline + Lag
    /\ now' = now + 1
    /\ UNCHANGED <<running, deadline, count, duration, options>>

Next == Start \/ Stop \/ SetDuration \/ Expire \/ Renew \/ Tick

Spec == Init /\ [][Next]_vars
=============================================================================
