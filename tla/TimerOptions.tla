---------------------------- MODULE TimerOptions ----------------------------
(* The options of a dcSCTP timer and what follows from them (timer/timer.h  *)
(* and timer/timer.cc).                                                     *)
EXTENDS Integers

CONSTANTS
    kMaxTimerDuration,  \* Timer::kMaxTimerDuration
    Durations,          \* base durations that the owner of a timer sets
    Options             \* the options that timers are created with

NoLimit == -1           \* max_restarts is not set

\* An unlimited backoff has maxBackoff = kMaxTimerDuration.
ASSUME TimerOptionsAssumption ==
    /\ kMaxTimerDuration \in Nat
    /\ Durations \subseteq 1..kMaxTimerDuration
    /\ Options \subseteq [duration : Durations,
                          exponential : BOOLEAN,
                          maxRestarts : Nat \cup {NoLimit},
                          maxBackoff : 1..kMaxTimerDuration]

\* Mutant: the limit is looked at before the duration is doubled.
GetBackoffDurationLate(options, base, count) ==
    LET backoff[d \in Nat, n \in Nat] ==
          IF n = 0 \/ d >= kMaxTimerDuration THEN d
          ELSE IF d > options.maxBackoff THEN options.maxBackoff
          ELSE backoff[2 * d, n - 1]
    IN  IF options.exponential THEN backoff[base, count] ELSE base

\* The duration after count expirations: it is doubled each time, up to a limit.
GetBackoffDuration(options, base, count) ==
    LET backoff[d \in Nat, n \in Nat] ==
          IF n = 0 \/ d >= kMaxTimerDuration
          THEN IF d < kMaxTimerDuration THEN d ELSE kMaxTimerDuration
          ELSE IF 2 * d > options.maxBackoff THEN options.maxBackoff
          ELSE backoff[2 * d, n - 1]
    IN  IF options.exponential /\ count > 0 THEN backoff[base, count] ELSE base

\* Mutant: one restart too many.
MayRestartOnceMore(options, count) ==
    options.maxRestarts = NoLimit \/ count - 1 <= options.maxRestarts

\* The timer restarts by itself after its count-th expiration.
MayRestart(options, count) ==
    options.maxRestarts = NoLimit \/ count <= options.maxRestarts
=============================================================================
