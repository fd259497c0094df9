------------------------------ MODULE MCRaft3 ------------------------------
(***************************************************************************)
(* RaftNode with three nodes, as in src/tests/raft/test_raft_cluster.cpp.  *)
(***************************************************************************)
EXTENDS MCRaft

CONSTANTS n1, n2, n3

\* peerIds of every node, in the order the tests give them.
TestPeers == [n \in {n1, n2, n3} |-> CASE n = n1 -> <<n2, n3>>
                                       [] n = n2 -> <<n1, n3>>
                                       [] n = n3 -> <<n1, n2>>]

\* A bound on what is explored: n3 votes and never campaigns.
OnlyVoter == role[n3] = "FOLLOWER"

\* A bound on what is explored: n1 campaigns in term 1 only, n2 in later terms
\* only, and n3 never.
InTurn == /\ role[n1] # "FOLLOWER" => currentTerm[n1] = 1
          /\ role[n2] # "FOLLOWER" => currentTerm[n2] > 1
          /\ role[n3] = "FOLLOWER"
=============================================================================
