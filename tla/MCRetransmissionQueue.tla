----------------------- MODULE MCRetransmissionQueue -----------------------
(* An instance of RetransmissionQueue for TLC. *)
EXTENDS RetransmissionQueue

\* A reliable message, one of two chunks that is given up after its first loss,
\* or earlier when it expires, and another reliable one.
OneTwoOne == <<1, 2, 1>>
LimitedSecond == <<NoLimit, 0, NoLimit>>

=============================================================================
