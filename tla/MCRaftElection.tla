---------------------------- MODULE MCRaftElection ----------------------------
(* RaftElection on three nodes.  node1 has the highest address, as in the    *)
(* checked-in nodes.txt, and the order of ranks is not that of addresses.    *)
EXTENDS RaftElection, TLC

ThreeNodes == {4, 5, 6}
ThreeRanks == 6 :> 1 @@ 4 :> 2 @@ 5 :> 3
===============================================================================
