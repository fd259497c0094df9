------------------------------ MODULE MCRaft2 ------------------------------
(***************************************************************************)
(* RaftNode with two nodes: small enough for three terms, late requests    *)
(* and liveness.  With one peer no deposed leader goes on sending.         *)
(***************************************************************************)
EXTENDS MCRaft

CONSTANTS n1, n2

TwoPeers == [n \in {n1, n2} |-> IF n = n1 THEN <<n2>> ELSE <<n1>>]

\* The calls of n1 get through; the calls of n2 may fail for ever.
MCFairSpec == MCSpec /\ ThreadsRun /\ CallsGetThrough(n1)

\* What n1 answers with success as the leader of the last term, both nodes apply.
FollowersCatchUp == AnsweredIsApplied(n1)

\* n2, whose calls may all fail and which n1 may call at the same time, does not
\* keep its mutex.
CallsEnd == MutexIsReleased(n2)
=============================================================================
