CONSTANTS
    kMaxTimerDuration = 8
    Durations = {1, 2, 3}
    Options <- MCOptions
    Generations = 2
    Lag = 1
    MaxTime = 5
SPECIFICATION Spec
INVARIANTS TypeOK OneLiveTask ExpiryIsHeard StartsWhenIdle NeverLate BackoffIsLimited
 
