---------------------------- MODULE ReceivedTsns ----------------------------
(***************************************************************************)
(* What DataTracker promises: it is a set of TSNs. It tells a TSN seen for *)
(* the first time from a duplicate, FORWARD-TSN adds everything up to a    *)
(* point, and a SACK acknowledges members of the set only, at least the    *)
(* ones without a gap before them. TSNs are counted from the peer's        *)
(* initial TSN, which is 1.                                                *)
(***************************************************************************)
EXTENDS Naturals

CONSTANT MaxTsn    \* bound: the highest TSN

VARIABLES
    received,  \* TSNs received, or given up on by the sender
    fresh,     \* the last answer of Observe
    claimed    \* TSNs acknowledged by the last SACK

vars == <<received, fresh, claimed>>

Tsns == 1..MaxTsn

\* TSNs that have no gap before them
Prefix(S) == {n \in S : 1..n \subseteq S}

Init == received = {} /\ fresh = FALSE /\ claimed = {}

Observe(t) ==
    /\ received' = received \cup {t}
    /\ fresh' = (t \notin received)
    /\ UNCHANGED claimed

Skip(t) ==
    /\ received' = received \cup 1..t
    /\ UNCHANGED <<fresh, claimed>>

Acknowledge ==
    /\ claimed' \in SUBSET received
    /\ Prefix(received) \subseteq claimed'
    /\ UNCHANGED <<received, fresh>>

Next == \/ \E t \in Tsns : Observe(t) \/ Skip(t)
        \/ Acknowledge

Spec == Init /\ [][Next]_vars
=============================================================================
