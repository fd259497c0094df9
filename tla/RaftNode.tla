------------------------------ MODULE RaftNode ------------------------------
(***************************************************************************)
(* A cluster of Raft nodes (class RaftNode, src/src/raft/RaftNode.cpp) over *)
(* the gRPC transport (gRPCRaftClient.cpp, gRPCRaftService.cpp).            *)
(*                                                                         *)
(* A node has three timer threads and the handlers that the transport      *)
(* calls; all of them run under one mutex, stateMutex.  The election and   *)
(* the heartbeat thread keep it while they call the peers one after the    *)
(* other, so a step here is what a node does under the mutex between two   *)
(* calls: pc[n] says which loop holds the mutex, todo[n] which peers the   *)
(* loop still has to call, and reply[n] what the call in progress to       *)
(* Head(todo[n]) returned.  The handlers run when the mutex is free.       *)
(*                                                                         *)
(* Nodes are built without a state directory here, so nothing is persisted *)
(* and no node restarts; RaftRestart adds both.  Time is abstracted: an    *)
(* election timeout, a heartbeat or the deadline of a call may come at any *)
(* moment.                                                                 *)
(***************************************************************************)
EXTENDS RaftLog, FiniteSets

CONSTANTS
    Server,              \* the ids of the nodes
    Nil,                 \* the id 0: no vote, no leader, no reply
    Peers,               \* peerIds of every node, in the order it calls them
    snapshotThreshold,   \* log size from which the snapshot thread compacts
    MaxTerm,             \* bound: no election is started in a later term
    MaxIndex,            \* bound: no command is appended beyond this index
    MaxLate              \* bound: abandoned requests that still arrive

PeerSet(n) == {Peers[n][i] : i \in DOMAIN Peers[n]}

ASSUME ServerAssumption ==
    /\ IsFiniteSet(Server)
    /\ Nil \notin Server

\* peerIds lists every other node once.
ASSUME PeersAssumption ==
    \A n \in Server : /\ Peers[n] \in Seq(Server \ {n})
                      /\ PeerSet(n) = Server \ {n}
                      /\ Len(Peers[n]) + 1 = Cardinality(Server)

\* A command carries the id of its client and the client's sequence number.
ASSUME CommandAssumption ==
    \A c \in Command : c.seq \in Nat /\ c.op \in {"PUT", "APPEND", "GET"}

ASSUME BoundsAssumption ==
    /\ snapshotThreshold \in Nat
    /\ MaxTerm \in Nat
    /\ MaxIndex \in Nat
    /\ MaxLate \in Nat

VARIABLES
    currentTerm, votedFor, role, currentLeaderId,
    log, commitIndex,
    lastApplied,
    kvStore,             \* the writes applied: pairs of index and command
    lastAppliedSeq,      \* the commands that lastAppliedSeq remembers
    nextIndex, matchIndex,
    snapshotIndex, snapshotTerm, snapshotData

electionVars == <<currentTerm, votedFor, role, currentLeaderId>>
storeVars    == <<lastApplied, kvStore, lastAppliedSeq>>
leaderVars   == <<nextIndex, matchIndex>>
snapshotVars == <<snapshotIndex, snapshotTerm, snapshotData>>

VARIABLES
    pc,             \* "idle", or the loop that holds stateMutex
    todo,           \* the peers that loop still calls; the head is being called
    votesReceived,  \* the peers that granted their vote so far
    reply,          \* the result of the call in progress, Nil until it is there
    late            \* requests whose caller gave up, still to be handled; of
                    \* identical ones it keeps one

threadVars == <<pc, todo, votesReceived>>

(***************************************************************************)
(* History: what was done, for the properties.  No action reads it.        *)
(***************************************************************************)
VARIABLES
    granted,        \* <<t, v, c>>: v granted its vote in term t to c
    won,            \* <<t, n>>: n became leader in term t
    impostorTerms,  \* terms in which a node that is no leader keeps sending
    applied,        \* [by, term, entry]: who applied the entry in which term
    led             \* <<t, e>>: the log of a leader of term t held entry e

historyVars == <<granted, won, impostorTerms, applied, led>>

vars == <<electionVars, log, commitIndex, storeVars, leaderVars, snapshotVars,
          threadVars, reply, late, historyVars>>

----------------------------------------------------------------------------
(***************************************************************************)
(* Messages.  The request in progress is determined by the caller's state, *)
(* which nothing changes before the call returns.                          *)
(***************************************************************************)
Store == SUBSET (Nat \X Payload)

RequestVoteArgs ==
    [type : {"RequestVote"}, from : Server, to : Server, term : Nat,
     lastLogIndex : Nat, lastLogTerm : Nat]

AppendEntriesArgs ==
    [type : {"AppendEntries"}, from : Server, to : Server, term : Nat,
     prevLogIndex : Nat, prevLogTerm : Nat, entries : Seq(Entry), leaderCommit : Nat]

InstallSnapshotArgs ==
    [type : {"InstallSnapshot"}, from : Server, to : Server, term : Nat,
     lastIncludedIndex : Nat, lastIncludedTerm : Nat, data : Store]

Message == RequestVoteArgs \cup AppendEntriesArgs \cup InstallSnapshotArgs

\* The three reply structures; ok is voteGranted or success.
Reply == [term : Nat, ok : BOOLEAN, conflictIndex : Nat]

Answered(term, ok) == [term |-> term, ok |-> ok, conflictIndex |-> 0]

RequestVote(n, p) ==
    [type |-> "RequestVote", from |-> n, to |-> p, term |-> currentTerm[n],
     lastLogIndex |-> getLastIndex(log[n]), lastLogTerm |-> getLastTerm(log[n])]

AppendEntries(n, p) ==
    [type |-> "AppendEntries", from |-> n, to |-> p, term |-> currentTerm[n],
     prevLogIndex |-> nextIndex[n][p] - 1,
     prevLogTerm  |-> getTerm(log[n], nextIndex[n][p] - 1),
     entries      |-> EntriesFrom(log[n], nextIndex[n][p]),
     leaderCommit |-> commitIndex[n]]

InstallSnapshot(n, p) ==
    [type |-> "InstallSnapshot", from |-> n, to |-> p, term |-> currentTerm[n],
     lastIncludedIndex |-> snapshotIndex[n], lastIncludedTerm |-> snapshotTerm[n],
     data |-> snapshotData[n]]

\* replicateToFollower: the follower needs entries that are compacted away.
NeedsSnapshot(n, p) == nextIndex[n][p] <= log[n].snapshotIndex

Request(n) ==
    LET p == Head(todo[n])
    IN  IF pc[n] = "election" THEN RequestVote(n, p)
        ELSE IF NeedsSnapshot(n, p) THEN InstallSnapshot(n, p)
        ELSE AppendEntries(n, p)

Waiting(n) == todo[n] # <<>> /\ reply[n] = Nil

Pending == late \cup {Request(n) : n \in {k \in Server : Waiting(k)}}

\* The handler's result goes to the caller, unless the caller gave up.
Answer(m, rep) ==
    \/ /\ Waiting(m.from) /\ m = Request(m.from)
       /\ reply' = [reply EXCEPT ![m.from] = rep]
       /\ UNCHANGED late
    \/ /\ m \in late
       /\ late' = late \ {m}
       /\ UNCHANGED reply

\* Mutant: the reply the client makes up says success.
FailedReplySucceeds(n) == Answered(currentTerm[n], TRUE)

\* The reply the client makes up for a failed call, with the caller's own term.
FailedReply(n) == Answered(currentTerm[n], FALSE)

\* The call fails or runs into its deadline, before or after the handler ran.
\* A request that was not handled may still be.
CallFails(n) ==
    /\ todo[n] # <<>>
    /\ reply' = [reply EXCEPT ![n] = FailedReply(n)]
    /\ \/ UNCHANGED late
       \/ /\ reply[n] = Nil
          /\ Cardinality(late) < MaxLate
          /\ late' = late \cup {Request(n)}
    /\ UNCHANGED <<electionVars, log, commitIndex, storeVars, leaderVars, snapshotVars,
                   threadVars, historyVars>>

----------------------------------------------------------------------------
(***************************************************************************)
(* Helper methods.                                                         *)
(***************************************************************************)
becomeFollower(n, newTerm) ==
    /\ currentTerm' = [currentTerm EXCEPT ![n] = newTerm]
    /\ role' = [role EXCEPT ![n] = "FOLLOWER"]
    /\ votedFor' = [votedFor EXCEPT ![n] = Nil]
    /\ currentLeaderId' = [currentLeaderId EXCEPT ![n] = Nil]

\* Mutant: the leader of the last term is not forgotten.
becomeCandidateKeepsLeader(n) ==
    /\ role' = [role EXCEPT ![n] = "CANDIDATE"]
    /\ currentTerm' = [currentTerm EXCEPT ![n] = @ + 1]
    /\ votedFor' = [votedFor EXCEPT ![n] = n]
    /\ UNCHANGED currentLeaderId

becomeCandidate(n) ==
    /\ role' = [role EXCEPT ![n] = "CANDIDATE"]
    /\ currentTerm' = [currentTerm EXCEPT ![n] = @ + 1]
    /\ votedFor' = [votedFor EXCEPT ![n] = n]
    /\ currentLeaderId' = [currentLeaderId EXCEPT ![n] = Nil]

becomeLeader(n) ==
    /\ role' = [role EXCEPT ![n] = "LEADER"]
    /\ currentLeaderId' = [currentLeaderId EXCEPT ![n] = n]
    /\ nextIndex' = [nextIndex EXCEPT ![n] = [p \in Server |-> getLastIndex(log[n]) + 1]]
    /\ matchIndex' = [matchIndex EXCEPT ![n] = [p \in Server |-> 0]]
    /\ UNCHANGED <<currentTerm, votedFor>>

\* Mutant: compares the terms only.
isLastTermUpToDate(lg, lastLogIndex, lastLogTerm) == lastLogTerm >= getLastTerm(lg)

isLogUpToDate(lg, lastLogIndex, lastLogTerm) ==
    \/ lastLogTerm > getLastTerm(lg)
    \/ lastLogTerm = getLastTerm(lg) /\ lastLogIndex >= getLastIndex(lg)

\* Mutant: half of the nodes is enough.
IsHalf(n, others) == Cardinality(others) + 1 >= (Len(Peers[n]) + 1) \div 2

\* votesNeeded of startElection and majority of updateCommitIndex; the callers
\* count themselves besides `others`.
IsMajority(n, others) == Cardinality(others) + 1 >= (Len(Peers[n]) + 1) \div 2 + 1

\* A leader may commit index i: an entry of its own term on a majority.
Committable(n, match, i) ==
    /\ role[n] = "LEADER"
    /\ getTerm(log[n], i) = currentTerm[n]
    /\ IsMajority(n, {p \in PeerSet(n) : match[p] >= i})

\* Mutant: updateCommitIndex runs before matchIndex is updated.
IsNewCommitIndexTooEarly(n, match, k) ==
    /\ k # commitIndex[n] => Committable(n, matchIndex[n], k)
    /\ \A i \in commitIndex[n] + 1 .. getLastIndex(log[n]) :
           Committable(n, matchIndex[n], i) => i <= k

\* k is the commitIndex that updateCommitIndex leaves.
IsNewCommitIndex(n, match, k) ==
    /\ k # commitIndex[n] => Committable(n, match, k)
    /\ \A i \in commitIndex[n] + 1 .. getLastIndex(log[n]) :
           Committable(n, match, i) => i <= k

\* Mutant: a retry of the last command is no duplicate.
IsOlder(n, c) == \E d \in lastAppliedSeq[n] : d.client = c.client /\ d.seq > c.seq

\* The test for a duplicate, here and in handleClientRequest.
IsDuplicate(n, c) == \E d \in lastAppliedSeq[n] : d.client = c.client /\ d.seq >= c.seq

\* Mutant: duplicates within the batch are not seen.
FreshBeforeBatch(n, batch) == {e \in batch : ~IsDuplicate(n, e.command)}

\* The entries of the batch that are executed, in the order of their indices.
Fresh(n, batch) ==
    {e \in batch :
        /\ ~IsDuplicate(n, e.command)
        /\ \A f \in batch : /\ f.index < e.index
                            /\ f.command.client = e.command.client
                            => f.command.seq < e.command.seq}

\* Mutant: one entry per call.
OneMoreApplied(n, upTo) == IF upTo > lastApplied[n] THEN lastApplied[n] + 1 ELSE lastApplied[n]

AllApplied(n, upTo) == IF upTo > lastApplied[n] THEN upTo ELSE lastApplied[n]

\* applyCommittedEntries on the log lg with commitIndex = upTo.
applyCommittedEntries(n, lg, upTo) ==
    LET last  == AllApplied(n, upTo)
        batch == {getEntry(lg, i) : i \in lastApplied[n] + 1 .. last}
        fresh == Fresh(n, batch)
    IN  /\ lastApplied' = [lastApplied EXCEPT ![n] = last]
        /\ kvStore' = [kvStore EXCEPT ![n] =
                @ \cup {<<e.index, e.command>> : e \in {f \in fresh : f.command.op # "GET"}}]
        /\ lastAppliedSeq' = [lastAppliedSeq EXCEPT ![n] = @ \cup {e.command : e \in fresh}]
        /\ applied' = applied \cup
                {[by |-> n, term |-> currentTerm'[n], entry |-> e] : e \in batch}

----------------------------------------------------------------------------
Init ==
    /\ currentTerm = [n \in Server |-> 0]
    /\ votedFor = [n \in Server |-> Nil]
    /\ role = [n \in Server |-> "FOLLOWER"]
    /\ currentLeaderId = [n \in Server |-> Nil]
    /\ log = [n \in Server |-> EmptyLog]
    /\ commitIndex = [n \in Server |-> 0]
    /\ lastApplied = [n \in Server |-> 0]
    /\ kvStore = [n \in Server |-> {}]
    /\ lastAppliedSeq = [n \in Server |-> {}]
    /\ nextIndex = [n \in Server |-> [p \in Server |-> 1]]
    /\ matchIndex = [n \in Server |-> [p \in Server |-> 0]]
    /\ snapshotIndex = [n \in Server |-> 0]
    /\ snapshotTerm = [n \in Server |-> 0]
    /\ snapshotData = [n \in Server |-> {}]
    /\ pc = [n \in Server |-> "idle"]
    /\ todo = [n \in Server |-> <<>>]
    /\ votesReceived = [n \in Server |-> {}]
    /\ reply = [n \in Server |-> Nil]
    /\ late = {}
    /\ granted = {}
    /\ won = {}
    /\ impostorTerms = {}
    /\ applied = {}
    /\ led = {}

----------------------------------------------------------------------------
(***************************************************************************)
(* The election thread.                                                    *)
(***************************************************************************)

\* electionTimerLoop finds the timeout elapsed; startElection up to its loop.
ElectionTimeout(n) ==
    /\ pc[n] = "idle"
    /\ role[n] # "LEADER"
    /\ currentTerm[n] < MaxTerm
    /\ becomeCandidate(n)
    /\ pc' = [pc EXCEPT ![n] = "election"]
    /\ todo' = [todo EXCEPT ![n] = Peers[n]]
    /\ UNCHANGED <<log, commitIndex, storeVars, leaderVars, snapshotVars,
                   votesReceived, reply, late, historyVars>>

\* startElection: a reply of a later term ends the election.
ElectionStepsDown(n) ==
    /\ pc[n] = "election"
    /\ reply[n] # Nil
    /\ reply[n].term > currentTerm[n]
    /\ becomeFollower(n, reply[n].term)
    /\ reply' = [reply EXCEPT ![n] = Nil]
    /\ pc' = [pc EXCEPT ![n] = "idle"]
    /\ todo' = [todo EXCEPT ![n] = <<>>]
    /\ votesReceived' = [votesReceived EXCEPT ![n] = {}]
    /\ UNCHANGED <<log, commitIndex, storeVars, leaderVars, snapshotVars, late, historyVars>>

CountVote(n) ==
    /\ pc[n] = "election"
    /\ reply[n] # Nil
    /\ reply[n].term <= currentTerm[n]
    /\ votesReceived' = [votesReceived EXCEPT ![n] =
                            IF reply[n].ok THEN @ \cup {Head(todo[n])} ELSE @]
    /\ reply' = [reply EXCEPT ![n] = Nil]
    /\ todo' = [todo EXCEPT ![n] = Tail(@)]
    /\ UNCHANGED <<electionVars, log, commitIndex, storeVars, leaderVars, snapshotVars,
                   pc, late, historyVars>>

\* The loop of sendHeartbeats goes on with the peers in rest.
SendTo(n, rest) ==
    /\ todo' = [todo EXCEPT ![n] = rest]
    /\ pc' = [pc EXCEPT ![n] = IF rest = <<>> THEN "idle" ELSE "heartbeat"]

WinElection(n) ==
    /\ pc[n] = "election"
    /\ todo[n] = <<>>
    /\ IsMajority(n, votesReceived[n])
    /\ becomeLeader(n)
    /\ SendTo(n, Peers[n])
    /\ votesReceived' = [votesReceived EXCEPT ![n] = {}]
    /\ won' = won \cup {<<currentTerm[n], n>>}
    /\ led' = led \cup {<<currentTerm[n], e>> : e \in EntrySet(log[n])}
    /\ UNCHANGED <<log, commitIndex, storeVars, snapshotVars, reply, late,
                   granted, impostorTerms, applied>>

LoseElection(n) ==
    /\ pc[n] = "election"
    /\ todo[n] = <<>>
    /\ ~IsMajority(n, votesReceived[n])
    /\ pc' = [pc EXCEPT ![n] = "idle"]
    /\ votesReceived' = [votesReceived EXCEPT ![n] = {}]
    /\ UNCHANGED <<electionVars, log, commitIndex, storeVars, leaderVars, snapshotVars,
                   todo, reply, late, historyVars>>

----------------------------------------------------------------------------
(***************************************************************************)
(* The heartbeat thread.                                                   *)
(***************************************************************************)

HeartbeatTick(n) ==
    /\ pc[n] = "idle"
    /\ role[n] = "LEADER"
    /\ SendTo(n, Peers[n])
    /\ UNCHANGED <<electionVars, log, commitIndex, storeVars, leaderVars, snapshotVars,
                   votesReceived, reply, late, historyVars>>

\* replicateToFollower has the reply to its call.
HasReply(n) == pc[n] = "heartbeat" /\ reply[n] # Nil

\* Mutant: a call that did not succeed is repeated at once.
PeerDoneOnSuccess(n) ==
    /\ reply' = [reply EXCEPT ![n] = Nil]
    /\ SendTo(n, IF reply[n].ok THEN Tail(todo[n]) ELSE todo[n])
    /\ UNCHANGED <<votesReceived, late>>

\* sendHeartbeats is done with this peer, whatever the reply was.
PeerDone(n) ==
    /\ reply' = [reply EXCEPT ![n] = Nil]
    /\ SendTo(n, Tail(todo[n]))
    /\ UNCHANGED <<votesReceived, late>>

\* The node steps down, and sendHeartbeats calls the other peers all the same.
HeartbeatStepsDown(n) ==
    /\ HasReply(n)
    /\ reply[n].term > currentTerm[n]
    /\ becomeFollower(n, reply[n].term)
    /\ PeerDone(n)
    /\ impostorTerms' = IF Tail(todo[n]) = <<>> THEN impostorTerms
                                                ELSE impostorTerms \cup {reply[n].term}
    /\ UNCHANGED <<log, commitIndex, storeVars, leaderVars, snapshotVars,
                   granted, won, applied, led>>

\* Any reply of InstallSnapshot that is not of a later term counts as success,
\* the one the client makes up for a failed call too.
SnapshotSent(n) ==
    LET p == Head(todo[n])
    IN  /\ HasReply(n)
        /\ reply[n].term <= currentTerm[n]
        /\ NeedsSnapshot(n, p)
        /\ nextIndex' = [nextIndex EXCEPT ![n][p] = snapshotIndex[n] + 1]
        /\ matchIndex' = [matchIndex EXCEPT ![n][p] = snapshotIndex[n]]
        /\ PeerDone(n)
        /\ UNCHANGED <<electionVars, log, commitIndex, storeVars, snapshotVars, historyVars>>

\* matchIndex of a peer that accepted the entries, unless none were sent.
Matched(n, p) ==
    LET entries == EntriesFrom(log[n], nextIndex[n][p])
    IN  IF entries = <<>> THEN matchIndex[n][p] ELSE entries[Len(entries)].index

AppendSucceeds(n) ==
    LET p     == Head(todo[n])
        match == [matchIndex[n] EXCEPT ![p] = Matched(n, p)]
    IN  /\ HasReply(n)
        /\ reply[n].term <= currentTerm[n]
        /\ reply[n].ok
        /\ ~NeedsSnapshot(n, p)
        /\ matchIndex' = [matchIndex EXCEPT ![n] = match]
        /\ nextIndex' = [nextIndex EXCEPT ![n][p] =
                IF EntriesFrom(log[n], @) = <<>> THEN @ ELSE Matched(n, p) + 1]
        /\ \E k \in {commitIndex[n]} \cup (commitIndex[n] + 1 .. getLastIndex(log[n])) :
              /\ IsNewCommitIndex(n, match, k)
              /\ commitIndex' = [commitIndex EXCEPT ![n] = k]
              /\ UNCHANGED electionVars
              /\ applyCommittedEntries(n, log[n], k)
        /\ PeerDone(n)
        /\ UNCHANGED <<log, snapshotVars, granted, won, impostorTerms, led>>

\* Mutant: nextIndex stays when the reply has no conflictIndex.
NextAfterHintOnly(n, p) ==
    IF reply[n].conflictIndex > 1 THEN reply[n].conflictIndex ELSE nextIndex[n][p]

\* A failed call has no conflictIndex either, so that nextIndex falls to 1.
NextAfterRejection(n, p) ==
    IF reply[n].conflictIndex > 1 THEN reply[n].conflictIndex ELSE 1

AppendRejected(n) ==
    LET p == Head(todo[n])
    IN  /\ HasReply(n)
        /\ reply[n].term <= currentTerm[n]
        /\ ~reply[n].ok
        /\ ~NeedsSnapshot(n, p)
        /\ nextIndex' = [nextIndex EXCEPT ![n][p] = NextAfterRejection(n, p)]
        /\ PeerDone(n)
        /\ UNCHANGED <<electionVars, log, commitIndex, storeVars, matchIndex, snapshotVars,
                       historyVars>>

----------------------------------------------------------------------------
(***************************************************************************)
(* The handlers.                                                           *)
(***************************************************************************)

\* Mutant: the check is gone.
NeverStale(m) == FALSE

\* The request is of an earlier term.
Stale(m) == m.term < currentTerm[m.to]

\* Every handler replies false, and changes nothing, to a stale request.
HandleStale(m) ==
    /\ pc[m.to] = "idle"
    /\ Stale(m)
    /\ Answer(m, Answered(currentTerm[m.to], FALSE))
    /\ UNCHANGED <<electionVars, log, commitIndex, storeVars, leaderVars, snapshotVars,
                   threadVars, historyVars>>

\* canVote, after becomeFollower cleared the vote of an earlier term.
CanVote(n, m) == m.term > currentTerm[n] \/ votedFor[n] \in {Nil, m.from}

handleRequestVote(m) ==
    LET n     == m.to
        newer == m.term > currentTerm[n]
        grant == CanVote(n, m) /\ isLogUpToDate(log[n], m.lastLogIndex, m.lastLogTerm)
    IN  /\ m.type = "RequestVote"
        /\ pc[n] = "idle"
        /\ ~Stale(m)
        /\ currentTerm' = [currentTerm EXCEPT ![n] = m.term]
        /\ role' = [role EXCEPT ![n] = IF newer THEN "FOLLOWER" ELSE @]
        /\ currentLeaderId' = [currentLeaderId EXCEPT ![n] = IF newer THEN Nil ELSE @]
        /\ votedFor' = [votedFor EXCEPT ![n] =
                IF grant THEN m.from ELSE IF newer THEN Nil ELSE @]
        /\ granted' = IF grant THEN granted \cup {<<m.term, n, m.from>>} ELSE granted
        /\ Answer(m, Answered(m.term, grant))
        /\ UNCHANGED <<log, commitIndex, storeVars, leaderVars, snapshotVars, threadVars,
                       won, impostorTerms, applied, led>>

\* Mutants: becomeFollower whatever the term and the role; for a later term only.
StepsDownAlways(n, m) == TRUE
StepsDownForLaterTerm(n, m) == m.term > currentTerm[n]

\* handleAppendEntries calls becomeFollower, in the node's own term too, where
\* this clears its vote.
StepsDown(n, m) == m.term > currentTerm[n] \/ role[n] # "FOLLOWER"

\* handleAppendEntries before its consistency check.
AcceptLeader(m) ==
    LET n == m.to
    IN  /\ m.type = "AppendEntries"
        /\ pc[n] = "idle"
        /\ ~Stale(m)
        /\ currentTerm' = [currentTerm EXCEPT ![n] = m.term]
        /\ role' = [role EXCEPT ![n] = IF StepsDown(n, m) THEN "FOLLOWER" ELSE @]
        /\ votedFor' = [votedFor EXCEPT ![n] = IF StepsDown(n, m) THEN Nil ELSE @]
        /\ currentLeaderId' = [currentLeaderId EXCEPT ![n] = m.from]
        /\ UNCHANGED <<leaderVars, snapshotVars, threadVars, granted, won, impostorTerms, led>>

EntryMissing(lg, m) == m.prevLogIndex > getLastIndex(lg)

TermMismatch(lg, m) ==
    /\ ~EntryMissing(lg, m)
    /\ m.prevLogIndex > 0
    /\ getTerm(lg, m.prevLogIndex) # m.prevLogTerm

\* handleAppendEntries, consistency check failed.
RejectAppendEntries(m) ==
    LET lg        == log[m.to]
        reject(k) == Answer(m, [term |-> m.term, ok |-> FALSE, conflictIndex |-> k])
    IN  /\ AcceptLeader(m)
        /\ \/ EntryMissing(lg, m) /\ reject(getLastIndex(lg) + 1)
           \/ /\ TermMismatch(lg, m)
              /\ \E k \in 1 .. m.prevLogIndex :
                    IsConflictIndex(lg, m.prevLogIndex, k) /\ reject(k)
        /\ UNCHANGED <<log, commitIndex, storeVars, applied>>

\* Mutant: the leader's commitIndex is taken over when it is lower, too.
FollowerCommitGoesBack(n, lg, leaderCommit) ==
    IF leaderCommit < getLastIndex(lg) THEN leaderCommit ELSE getLastIndex(lg)

\* commitIndex after a request with this leaderCommit, on the merged log.
FollowerCommit(n, lg, leaderCommit) ==
    IF leaderCommit <= commitIndex[n] THEN commitIndex[n]
    ELSE IF leaderCommit < getLastIndex(lg) THEN leaderCommit ELSE getLastIndex(lg)

\* handleAppendEntries, consistency check passed.
AcceptAppendEntries(m) ==
    LET n == m.to
    IN  /\ AcceptLeader(m)
        /\ ~EntryMissing(log[n], m)
        /\ ~TermMismatch(log[n], m)
        /\ \E k \in 1 .. Len(m.entries) + 1 :
              LET merged == Merge(log[n], m.prevLogIndex, m.entries, k)
                  commit == FollowerCommit(n, merged, m.leaderCommit)
              IN  /\ IsFirstConflict(log[n], m.prevLogIndex, m.entries, k)
                  /\ log' = [log EXCEPT ![n] = merged]
                  /\ commitIndex' = [commitIndex EXCEPT ![n] = commit]
                  /\ applyCommittedEntries(n, merged, commit)
        /\ Answer(m, Answered(m.term, TRUE))

\* Mutant: set without a comparison.
RaiseAlways(old, index) == index

\* lastApplied and commitIndex once a snapshot up to `index` is installed.
Raise(old, index) == IF index > old THEN index ELSE old

\* The snapshot replaces store and snapshot even when it is older than what
\* the node has; log, lastApplied and commitIndex only move forward.  The role
\* changes only for a later term.
handleInstallSnapshot(m) ==
    LET n     == m.to
        newer == m.term > currentTerm[n]
        index == m.lastIncludedIndex
    IN  /\ m.type = "InstallSnapshot"
        /\ pc[n] = "idle"
        /\ ~Stale(m)
        /\ IF newer THEN becomeFollower(n, m.term) ELSE UNCHANGED electionVars
        /\ snapshotData' = [snapshotData EXCEPT ![n] = m.data]
        /\ snapshotIndex' = [snapshotIndex EXCEPT ![n] = index]
        /\ snapshotTerm' = [snapshotTerm EXCEPT ![n] = m.lastIncludedTerm]
        /\ log' = [log EXCEPT ![n] = discardEntriesUpTo(@, index, m.lastIncludedTerm)]
        /\ kvStore' = [kvStore EXCEPT ![n] = m.data]
        /\ lastApplied' = [lastApplied EXCEPT ![n] = Raise(@, index)]
        /\ commitIndex' = [commitIndex EXCEPT ![n] = Raise(@, index)]
        /\ Answer(m, Answered(m.term, TRUE))
        /\ UNCHANGED <<lastAppliedSeq, leaderVars, threadVars, historyVars>>

\* The entry that a leader makes of a command.
NewEntry(n, c) ==
    [index |-> getLastIndex(log[n]) + 1, term |-> currentTerm[n], command |-> c]

\* handleClientRequest on a leader, no duplicate: the answer is success as soon as
\* the entry is in the leader's own log.  The other cases only reply.
handleClientRequest(n, c) ==
    /\ pc[n] = "idle"
    /\ role[n] = "LEADER"
    /\ ~IsDuplicate(n, c)
    /\ getLastIndex(log[n]) < MaxIndex
    /\ log' = [log EXCEPT ![n] = append(@, NewEntry(n, c))]
    /\ led' = led \cup {<<currentTerm[n], NewEntry(n, c)>>}
    /\ UNCHANGED <<electionVars, commitIndex, storeVars, leaderVars, snapshotVars,
                   threadVars, reply, late, granted, won, impostorTerms, applied>>

----------------------------------------------------------------------------
(***************************************************************************)
(* The snapshot thread; triggerSnapshot does the same below the threshold. *)
(***************************************************************************)
shouldTakeSnapshot(n) ==
    getLastIndex(log[n]) - log[n].snapshotIndex >= snapshotThreshold

\* Mutant: all of the log, applied or not.
WholeLog(n) == getLastIndex(log[n])

\* What a snapshot covers: what is applied.
SnapshotPoint(n) == lastApplied[n]

takeSnapshot(n) ==
    LET index == SnapshotPoint(n)
        term  == getTerm(log[n], index)
    IN  /\ pc[n] = "idle"
        /\ shouldTakeSnapshot(n)
        /\ index > log[n].snapshotIndex
        /\ snapshotData' = [snapshotData EXCEPT ![n] = kvStore[n]]
        /\ snapshotIndex' = [snapshotIndex EXCEPT ![n] = index]
        /\ snapshotTerm' = [snapshotTerm EXCEPT ![n] = term]
        /\ log' = [log EXCEPT ![n] = discardEntriesUpTo(@, index, term)]
        /\ UNCHANGED <<electionVars, commitIndex, storeVars, leaderVars, threadVars,
                       reply, late, historyVars>>

----------------------------------------------------------------------------
NodeStep(n) ==
    \/ ElectionTimeout(n)
    \/ ElectionStepsDown(n)
    \/ CountVote(n)
    \/ WinElection(n)
    \/ LoseElection(n)
    \/ HeartbeatTick(n)
    \/ HeartbeatStepsDown(n)
    \/ SnapshotSent(n)
    \/ AppendSucceeds(n)
    \/ AppendRejected(n)
    \/ CallFails(n)
    \/ takeSnapshot(n)
    \/ \E c \in Command : handleClientRequest(n, c)

Handle(m) ==
    \/ HandleStale(m)
    \/ handleRequestVote(m)
    \/ RejectAppendEntries(m)
    \/ AcceptAppendEntries(m)
    \/ handleInstallSnapshot(m)

Next == \/ \E n \in Server : NodeStep(n)
        \/ \E m \in Pending : Handle(m)

Spec == Init /\ [][Next]_vars
=============================================================================
