--------------------------- MODULE MCRaftRestart ---------------------------
(***************************************************************************)
(* Three nodes, some of which stop and start again.                        *)
(***************************************************************************)
EXTENDS RaftRestart

CONSTANTS n1, n2, n3

TestPeers == [n \in {n1, n2, n3} |-> CASE n = n1 -> <<n2, n3>>
                                       [] n = n2 -> <<n1, n3>>
                                       [] n = n3 -> <<n1, n2>>]

\* Client ids and characters are numbers, as in the bytes of a file.
OnePut == {[op |-> "PUT", client |-> 1, seq |-> 1, key |-> <<1>>, value |-> <<2>>]}

\* A bound on what is explored: n3 votes and never campaigns.
OnlyVoter == role[n3] = "FOLLOWER"

\* Every node is dead, or idle in the last term that TLC explores, and no
\* request can arrive: here the bound stops, not the system.
AtBound ==
    /\ \A n \in Server : \/ life[n] = "dead"
                         \/ /\ life[n] = "up"
                            /\ pc[n] = "idle"
                            /\ role[n] # "LEADER"
                            /\ currentTerm[n] = MaxTerm
    /\ \A m \in late : life[m.to] = "dead"
    /\ UNCHANGED restartVars

MCSpec == RestartInit /\ [][RestartNext \/ AtBound]_restartVars
=============================================================================
