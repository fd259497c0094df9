---------------------------- MODULE InMemoryRPC ----------------------------
(***************************************************************************)
(* The nodes of RaftNode over the in-memory transport that the tests use   *)
(* (class InMemoryRPC, src/src/raft/InMemoryRPC.cpp).  The transport has   *)
(* one mutex, rpcMutex, and a caller holds it from before it looks up the  *)
(* peer until the peer's handler has returned.  The handler needs the      *)
(* peer's stateMutex, and the caller holds its own all along.  The timeout *)
(* argument is not used: no call fails, is given up or is handled late.    *)
(***************************************************************************)
EXTENDS RaftNode

VARIABLES
    rpcMutex,    \* the node whose call is being made, or Nil
    nodes,       \* the nodes that are registered
    partitions   \* pairs of nodes that setPartition cut off, read by no call

transportVars == <<rpcMutex, nodes, partitions>>

rpcVars == <<vars, transportVars>>

RpcInit ==
    /\ Init
    /\ rpcMutex = Nil
    /\ nodes = {}
    /\ partitions = {}

registerNode(n) ==
    /\ rpcMutex = Nil
    /\ nodes' = nodes \cup {n}
    /\ UNCHANGED <<vars, rpcMutex, partitions>>

unregisterNode(n) ==
    /\ rpcMutex = Nil
    /\ nodes' = nodes \ {n}
    /\ UNCHANGED <<vars, rpcMutex, partitions>>

\* isReachable, which reads the partitions, is called by nothing.
setPartition(a, b, partitioned) ==
    LET pairs == {<<a, b>>, <<b, a>>}
    IN  /\ rpcMutex = Nil
        /\ partitions' = IF partitioned THEN partitions \cup pairs ELSE partitions \ pairs
        /\ UNCHANGED <<vars, rpcMutex, nodes>>

\* A call of n starts: sendRequestVote, sendAppendEntries or sendInstallSnapshot
\* takes rpcMutex.
CallStarts(n) ==
    /\ Waiting(n)
    /\ rpcMutex = Nil
    /\ rpcMutex' = n
    /\ UNCHANGED <<vars, nodes, partitions>>

\* The peer is not registered: the reply has term 0.
PeerNotFound(n) ==
    /\ rpcMutex = n
    /\ Head(todo[n]) \notin nodes
    /\ reply' = [reply EXCEPT ![n] = Answered(0, FALSE)]
    /\ rpcMutex' = Nil
    /\ UNCHANGED <<electionVars, log, commitIndex, storeVars, leaderVars, snapshotVars,
                   threadVars, late, historyVars, nodes, partitions>>

\* The peer's handler runs, once the peer's stateMutex is free.
CallReturns(n) ==
    /\ rpcMutex = n
    /\ Head(todo[n]) \in nodes
    /\ Handle(Request(n))
    /\ rpcMutex' = Nil
    /\ UNCHANGED <<nodes, partitions>>

\* What the threads of n and its clients do between two calls.
ThreadGoesOn(n) ==
    /\ \/ ElectionTimeout(n)
       \/ ElectionStepsDown(n)
       \/ CountVote(n)
       \/ WinElection(n)
       \/ LoseElection(n)
       \/ HeartbeatTick(n)
       \/ HeartbeatStepsDown(n)
       \/ SnapshotSent(n)
       \/ AppendSucceeds(n)
       \/ AppendRejected(n)
       \/ takeSnapshot(n)
       \/ \E c \in Command : handleClientRequest(n, c)
    /\ UNCHANGED transportVars

RpcNext ==
    \/ \E n \in Server : \/ registerNode(n)
                         \/ unregisterNode(n)
                         \/ CallStarts(n)
                         \/ PeerNotFound(n)
                         \/ CallReturns(n)
                         \/ ThreadGoesOn(n)
    \/ \E a, b \in Server, partitioned \in BOOLEAN : setPartition(a, b, partitioned)

\* A thread that can go on does, and a mutex that is free again and again is
\* taken in the end: only a call that cannot return keeps one waiting.
RpcFairness ==
    \A n \in Server : /\ WF_rpcVars(PeerNotFound(n))
                      /\ SF_rpcVars(CallStarts(n))
                      /\ SF_rpcVars(CallReturns(n))
                      /\ WF_rpcVars(ThreadGoesOn(n))

RpcSpec == RpcInit /\ [][RpcNext]_rpcVars /\ RpcFairness

----------------------------------------------------------------------------
\* A call returns, within the timeout that its caller states
\* (RaftRPC.hpp:25, `timeout = std::chrono::milliseconds(100)`): the caller's
\* stateMutex does not stay locked.
CallsReturn == \A n \in Server : pc[n] # "idle" ~> pc[n] = "idle"
=============================================================================
