---------------------------- MODULE MCUdpEngine ----------------------------
(* Small instances of UdpEngine. *)
EXTENDS UdpEngine, TLC

CONSTANTS p1, real, fake, w1, w2

\* One client, one real and one fake destination, each flow on its own worker.
OnePeer == {p1}
OneEngine == [p \in {p1} |-> "v4"]
OneIp == [p \in {p1} |-> "ip1"]
TwoWorkers == [f \in {p1} \X Dsts |-> IF f[2] = real THEN w1 ELSE w2]

\* Incarnations are interchangeable.
OpenSymmetry == Permutations(Opens)

Two == [c \in Classes |-> 2]
One == [c \in Classes |-> 1]
Three == [c \in Classes |-> 3]
=============================================================================
