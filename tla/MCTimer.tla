------------------------------- MODULE MCTimer -------------------------------
(* Timers that never restart, restart once or always, with each backoff.     *)
EXTENDS Timer

Timing(exponential, maxRestarts, maxBackoff) ==
    [duration |-> 2, exponential |-> exponential, maxRestarts |-> maxRestarts,
     maxBackoff |-> maxBackoff]

MCOptions == {Timing(FALSE, 0, 8), Timing(TRUE, 1, 8), Timing(TRUE, NoLimit, 3)}
=============================================================================
