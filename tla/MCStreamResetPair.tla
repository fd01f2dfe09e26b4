-------------------------- MODULE MCStreamResetPair --------------------------
(* An instance of StreamResetPair: the client of socket a sends two messages *)
(* and resets streams twice, that of z only receives.                        *)
EXTENDS StreamResetPair, TLC

CONSTANTS a, z

Each(byA, byZ) == (a :> byA) @@ (z :> byZ)
MCSends == Each(2, 0)
MCResets == Each(2, 0)
=============================================================================
