------------------------------ MODULE MCRaft5 ------------------------------
(***************************************************************************)
(* RaftNode with five nodes, enough for two majorities of one term that    *)
(* have only a deposed winner in common.                                   *)
(***************************************************************************)
EXTENDS MCRaft

CONSTANTS n1, n2, n3, n4, n5

FivePeers == [n \in {n1, n2, n3, n4, n5} |-> CASE n = n1 -> <<n2, n3, n4, n5>>
                                               [] n = n2 -> <<n1, n3, n4, n5>>
                                               [] n = n3 -> <<n1, n2, n4, n5>>
                                               [] n = n4 -> <<n1, n2, n3, n5>>
                                               [] n = n5 -> <<n1, n2, n3, n4>>]

\* A bound on what is explored: n1 campaigns in term 1 only, n5 and then n2 in
\* term 2 only, the others never.
OneAfterTheOther ==
    /\ \A n \in {n3, n4} : role[n] = "FOLLOWER"
    /\ role[n1] # "FOLLOWER" => currentTerm[n1] = 1
    /\ \A n \in {n2, n5} : role[n] # "FOLLOWER" => currentTerm[n] = 2
    /\ \A m, n \in Server : pc[m] = "election" /\ pc[n] = "election" => m = n
    /\ role[n2] # "FOLLOWER" => <<2, n5>> \in won
=============================================================================
