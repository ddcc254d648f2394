-------------------------- MODULE MCLearningSwitch --------------------------
(***************************************************************************)
(* LearningSwitch on the network of the first phase, two switches, and on  *)
(* that of the second, a core switch between two edge switches.            *)
(***************************************************************************)
EXTENDS LearningSwitch, TLC

Plug(s, p) == [switch |-> s, port |-> p]

\* network/mininet_test_topo.py: s2 -- s1 -- s3, hosts a and b at s2 and c at s3.
TreeCables == [s1 |-> 1 :> Plug("s2", 1) @@ 2 :> Plug("s3", 1),
               s2 |-> 1 :> Plug("s1", 1), s3 |-> 1 :> Plug("s1", 2)]
TreeHosts == [s1 |-> <<>>, s2 |-> 2 :> "a" @@ 3 :> "b", s3 |-> 2 :> "c"]
TreeToward == [s1 |-> [a |-> 1, b |-> 1, c |-> 2], s2 |-> [a |-> 2, b |-> 3, c |-> 1],
               s3 |-> [a |-> 1, b |-> 1, c |-> 2]]

\* Two switches, as in the first phase: hosts a and b at s2, c at s1.
PairCables == [s1 |-> 1 :> Plug("s2", 1), s2 |-> 1 :> Plug("s1", 1)]
PairHosts == [s1 |-> 2 :> "c", s2 |-> 2 :> "a" @@ 3 :> "b"]
PairToward == [s1 |-> [a |-> 1, b |-> 1, c |-> 2], s2 |-> [a |-> 2, b |-> 3, c |-> 1]]

Frame(src, dst, n) == [src |-> src, dst |-> dst, n |-> n]

\* Sent without a buffer, as the table-miss rule asks, or in one of two buffers.
AnyBuffer == {NoBuffer, 0, 1}

\* An ARP request, its answer, and two frames of the flow that follows.
Talk == {Frame("a", Broadcast, 1), Frame("c", "a", 1), Frame("a", "c", 1), Frame("a", "c", 2)}
=============================================================================
