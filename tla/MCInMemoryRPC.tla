--------------------------- MODULE MCInMemoryRPC ---------------------------
(***************************************************************************)
(* Two nodes over the in-memory transport, registered when they start as   *)
(* in src/tests/raft/test_raft_cluster.cpp.                                *)
(***************************************************************************)
EXTENDS InMemoryRPC

CONSTANTS n1, n2

TwoPeers == [n \in {n1, n2} |-> IF n = n1 THEN <<n2>> ELSE <<n1>>]

Put(client, seq) == [op |-> "PUT", client |-> client, seq |-> seq]

OneCommand == {Put("c1", 1)}
=============================================================================
