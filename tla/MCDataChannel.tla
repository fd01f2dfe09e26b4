---------------------------- MODULE MCDataChannel ----------------------------
(* An instance of DataChannel. Peer a is the DTLS client and allocates even  *)
(* stream ids. Channels with life 1 are unordered, those with life 2 are     *)
(* ordered.                                                                  *)
EXTENDS DataChannel

CONSTANTS a, b

EvenAndOdd == (a :> {0, 2}) @@ (b :> {1})

Creates(first) == (0 :> first) @@ (1 :> 0) @@ (2 :> 0)
Sends(fromA, fromB) == (a :> fromA) @@ (b :> fromB)
Scenario(negotiated, first, closers, data) ==
    [negotiated |-> negotiated, lives |-> Creates(first), closers |-> closers, data |-> data]

MCScenarios ==
    {\* A stream id is used twice, and either side closes the channels.
     Scenario({}, 2, Peers \X {0}, Sends(<<>>, <<>>)),
     \* Both sides close channels while another reset is under way.
     Scenario({1}, 1, {<<a, 0>>, <<b, 0>>, <<b, 1>>}, Sends(<<>>, <<>>)),
     \* Three channels are closed: one request resets two of them.
     Scenario(Sids, 1, {a} \X Sids, Sends(<<>>, <<>>)),
     \* One of the three is not known to the peer.
     Scenario({1, 2}, 1, {a} \X Sids, Sends(<<>>, <<>>)),
     \* Data in both directions, one message in two fragments.
     Scenario({}, 1, Peers \X {0}, Sends(<<1, 2>>, <<1>>)),
     \* More data than the send queue takes.
     Scenario({}, 1, Peers \X {0}, Sends(<<1, 1, 1>>, <<>>)),
     \* A stream id is used twice, with data.
     Scenario({}, 2, {<<b, 0>>}, Sends(<<>>, <<1>>)),
     Scenario({}, 2, {<<a, 0>>}, Sends(<<1>>, <<>>))}
=============================================================================
