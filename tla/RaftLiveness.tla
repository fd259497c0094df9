---------------------------- MODULE RaftLiveness ----------------------------
(***************************************************************************)
(* What a cluster does in the end.  The fairness is what the code's        *)
(* scheduling justifies: a thread that holds stateMutex goes on, a call    *)
(* over gRPC ends at its deadline at the latest (context.set_deadline,     *)
(* gRPCRaftClient.cpp), and of the calls that a leader repeats with every  *)
(* heartbeat not all fail for ever.  Elections and clients are not fair.   *)
(***************************************************************************)
EXTENDS RaftProperties

\* What the threads of n do by themselves: the loop that holds the mutex goes on
\* after a reply, after a deadline, or at its end, and a leader sends heartbeats.
ThreadStep(n) ==
    \/ ElectionStepsDown(n)
    \/ CountVote(n)
    \/ WinElection(n)
    \/ LoseElection(n)
    \/ HeartbeatTick(n)
    \/ HeartbeatStepsDown(n)
    \/ SnapshotSent(n)
    \/ AppendSucceeds(n)
    \/ AppendRejected(n)
    \/ CallFails(n)

\* The call of n to p in progress is answered.
CallAnswered(n, p) ==
    /\ Waiting(n)
    /\ Head(todo[n]) = p
    /\ Handle(Request(n))
    /\ reply'[n] # Nil

ThreadsRun == \A n \in Server : WF_vars(ThreadStep(n))

\* A call that n repeats for ever is answered again and again, and the answer of
\* a follower that accepts reaches n again and again.
CallsGetThrough(n) ==
    \A p \in PeerSet(n) : /\ SF_vars(CallAnswered(n, p))
                          /\ SF_vars(AppendSucceeds(n) /\ Head(todo[n]) = p)

----------------------------------------------------------------------------
\* stateMutex is released again and again: a node that calls its peers one after
\* the other does not hold it for ever, although a peer may hold its own mutex
\* in a call to this node.
MutexIsReleased(n) == []<>(pc[n] = "idle")

\* n leads in the last term and has answered c with success: c is in its log, in
\* an entry of its term.
HasAnswered(n, c) ==
    /\ role[n] = "LEADER"
    /\ currentTerm[n] = MaxTerm
    /\ \E e \in EntrySet(log[n]) : e.term = MaxTerm /\ e.command = c

AppliedBy(p, c) == \E r \in applied : r.by = p /\ r.entry.command = c

\* What the leader n of the last term answered with success every node applies in
\* the end, however far it lags behind.
AnsweredIsApplied(n) ==
    \A c \in Command : HasAnswered(n, c) ~> \A p \in Server : AppliedBy(p, c)
=============================================================================
