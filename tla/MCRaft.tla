------------------------------- MODULE MCRaft -------------------------------
(***************************************************************************)
(* What the model-checking modules of RaftNode share: commands, and the    *)
(* end of what the bounds allow.                                           *)
(***************************************************************************)
EXTENDS RaftRefinement, RaftSafety

Put(client, seq) == [op |-> "PUT", client |-> client, seq |-> seq]

\* One command that its client retries.
OneCommand == {Put("c1", 1)}

TwoCommands == {Put("c1", 1), Put("c1", 2)}

\* Every node is in the last term that TLC explores, no node leads and no
\* request is under way: here the bound stops, not the system.  With this step
\* every other state without a successor is a deadlock.
AtTermBound ==
    /\ \A n \in Server : /\ pc[n] = "idle"
                         /\ role[n] # "LEADER"
                         /\ currentTerm[n] = MaxTerm
    /\ late = {}
    /\ UNCHANGED vars

MCSpec == Init /\ [][Next \/ AtTermBound]_vars
=============================================================================
