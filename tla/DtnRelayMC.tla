----------------------------- MODULE DtnRelayMC -----------------------------
(* Instances of DtnRelay for TLC.                                          *)
EXTENDS DtnRelay

\* Four nodes: 1 sends to 4, which 2 and 3 can reach; 2 and 3 may relay.
N4    == 1 .. 4
Field == {<<1, 2>>, <<2, 3>>, <<2, 4>>, <<3, 4>>}
RelayAndReceiver == {2, 4}
\* Two nodes.
N2   == 1 .. 2
Pair == {<<1, 2>>}

FromOne == [b \in Bundle |-> 1]
ToTwo   == [b \in Bundle |-> 2]
ToFour  == [b \in Bundle |-> 4]
\* Each relay is closer to the receiver's NodeId than the node before it; the
\* receiver's own PeerId hashes to a key that is farther than all of them.
Relayed == [d \in Node |-> <<3, 2, 1, 4>>]
\* The sender's key is closer to the receiver's NodeId than the receiver's.
Far     == [d \in Node |-> <<1, 2>>]

One    == 1 .. 1
Three  == 1 .. 3
Unit   == [b \in Bundle |-> 1]
Growing == [b \in Bundle |-> b]
Double == [b \in Bundle |-> 2 * Size[b]]
=============================================================================
