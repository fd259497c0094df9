---------------------------- MODULE RaftRestart ----------------------------
(***************************************************************************)
(* RaftNode with state directories: nodes save their state                 *)
(* (RaftNode::persistState), stop in an orderly way or in the middle of    *)
(* whatever they do, and are built again from what they find on disk       *)
(* (RaftNode::restoreState, which the constructor calls twice).            *)
(*                                                                         *)
(* A node is "up", "down", or "dead": its constructor threw, and throws    *)
(* each time it is called again.  A node that is not up has the state of   *)
(* one that was never built.  What a process wrote and flushed stays on    *)
(* disk; a save may be cut off.                                            *)
(***************************************************************************)
EXTENDS RaftProperties, RaftPersistence

CONSTANTS
    Durable,         \* the nodes that have a state directory, and may stop
    NoFile,          \* the file does not exist
    MaxStops,        \* bound: how often nodes stop
    MaxCutSaves      \* bound: how many of these stops cut off a save

ASSUME RestartAssumption ==
    /\ Durable \subseteq Server
    /\ NoFile \notin Seq(Nat \cup Server \cup {Nil})
    /\ CommandsFit
    /\ MaxStops \in Nat
    /\ MaxCutSaves \in Nat

VARIABLES
    life,       \* "up", "down" or "dead"
    disk,       \* the state file and the snapshot file of every node
    stops, cutSaves

nodeLife == <<life, stops, cutSaves>>

restartVars == <<vars, disk, nodeLife>>

NoFiles == [state |-> NoFile, snapshot |-> NoFile]

RestartInit ==
    /\ Init
    /\ life = [n \in Server |-> "up"]
    /\ disk = [n \in Server |-> NoFiles]
    /\ stops = 0
    /\ cutSaves = 0

\* What saveState leaves on disk; a snapshot file stays when there is nothing
\* to write into it.  A snapshot holds writes: RaftNode does not tell an empty
\* store from no snapshot.
Saved(n, term, vote, lg, data) ==
    IF n \notin Durable THEN NoFiles
    ELSE [state    |-> StateFile(term, vote, lg),
          snapshot |-> IF data = {} THEN disk[n].snapshot ELSE data]

persistState(n) ==
    disk' = [disk EXCEPT ![n] =
                Saved(n, currentTerm'[n], votedFor'[n], log'[n], snapshotData'[n])]

----------------------------------------------------------------------------
(***************************************************************************)
(* What RaftNode does, with the saves it makes.                            *)
(***************************************************************************)
SavingStep(n) ==
    /\ \/ ElectionTimeout(n)
       \/ ElectionStepsDown(n)
       \/ HeartbeatStepsDown(n)
       \/ takeSnapshot(n)
    /\ persistState(n)

OtherStep(n) ==
    /\ \/ CountVote(n)
       \/ WinElection(n)
       \/ LoseElection(n)
       \/ HeartbeatTick(n)
       \/ SnapshotSent(n)
       \/ AppendSucceeds(n)
       \/ AppendRejected(n)
       \/ CallFails(n)
    /\ UNCHANGED disk

ClientStep(n, c) ==
    /\ handleClientRequest(n, c)
    /\ persistState(n)

\* Mutant: the vote is saved only with a new term.
VoteSavedForNewTerm(n, m) == m.term > currentTerm[n]

\* becomeFollower saves, and so does a granted vote.
VoteSaves(n, m) ==
    \/ m.term > currentTerm[n]
    \/ CanVote(n, m) /\ isLogUpToDate(log[n], m.lastLogIndex, m.lastLogTerm)

\* becomeFollower saves, and so does a request that has entries and passes.
EntriesSave(n, m) == StepsDown(n, m) \/ m.entries # <<>>

HandlerStep(m) ==
    LET n           == m.to
        saveIf(yes) == IF yes THEN persistState(n) ELSE UNCHANGED disk
    IN  \/ HandleStale(m) /\ UNCHANGED disk
        \/ handleRequestVote(m) /\ saveIf(VoteSaves(n, m))
        \/ RejectAppendEntries(m) /\ saveIf(StepsDown(n, m))
        \/ AcceptAppendEntries(m) /\ saveIf(EntriesSave(n, m))
        \/ handleInstallSnapshot(m) /\ persistState(n)

NodeRuns(n) ==
    /\ life[n] = "up"
    /\ SavingStep(n) \/ OtherStep(n) \/ \E c \in Command : ClientStep(n, c)
    /\ UNCHANGED nodeLife

HandlerRuns(m) ==
    /\ life[m.to] = "up"
    /\ HandlerStep(m)
    /\ UNCHANGED nodeLife

----------------------------------------------------------------------------
(***************************************************************************)
(* Stops.                                                                  *)
(***************************************************************************)

\* The node loses its memory, and the call it is making; its request may still
\* arrive.
Stops(n) ==
    /\ n \in Durable
    /\ life[n] = "up"
    /\ stops < MaxStops
    /\ stops' = stops + 1
    /\ life' = [life EXCEPT ![n] = "down"]
    /\ currentTerm' = [currentTerm EXCEPT ![n] = 0]
    /\ votedFor' = [votedFor EXCEPT ![n] = Nil]
    /\ role' = [role EXCEPT ![n] = "FOLLOWER"]
    /\ currentLeaderId' = [currentLeaderId EXCEPT ![n] = Nil]
    /\ log' = [log EXCEPT ![n] = EmptyLog]
    /\ commitIndex' = [commitIndex EXCEPT ![n] = 0]
    /\ lastApplied' = [lastApplied EXCEPT ![n] = 0]
    /\ kvStore' = [kvStore EXCEPT ![n] = {}]
    /\ lastAppliedSeq' = [lastAppliedSeq EXCEPT ![n] = {}]
    /\ nextIndex' = [nextIndex EXCEPT ![n] = [p \in Server |-> 1]]
    /\ matchIndex' = [matchIndex EXCEPT ![n] = [p \in Server |-> 0]]
    /\ snapshotIndex' = [snapshotIndex EXCEPT ![n] = 0]
    /\ snapshotTerm' = [snapshotTerm EXCEPT ![n] = 0]
    /\ snapshotData' = [snapshotData EXCEPT ![n] = {}]
    /\ pc' = [pc EXCEPT ![n] = "idle"]
    /\ todo' = [todo EXCEPT ![n] = <<>>]
    /\ votesReceived' = [votesReceived EXCEPT ![n] = {}]
    /\ reply' = [reply EXCEPT ![n] = Nil]
    /\ \/ UNCHANGED late
       \/ /\ Waiting(n)
          /\ Cardinality(late) < MaxLate
          /\ late' = late \cup {Request(n)}
    /\ UNCHANGED historyVars

\* The files of n after a save of what it has in memory.
SavedNow(n) == Saved(n, currentTerm[n], votedFor[n], log[n], snapshotData[n])

\* ~RaftNode, once the threads are joined, saves a last time.
Shutdown(n) ==
    /\ pc[n] = "idle"
    /\ Stops(n)
    /\ disk' = [disk EXCEPT ![n] = SavedNow(n)]
    /\ UNCHANGED cutSaves

\* The process is killed, also by exit(0) in the signal handler of raft_main.
Crash(n) ==
    /\ Stops(n)
    /\ UNCHANGED <<disk, cutSaves>>

\* It is killed between the save of becomeFollower and the next save of the same
\* handler.
CrashInHandler(m) ==
    LET n == m.to
    IN  /\ pc[n] = "idle"
        /\ ~Stale(m)
        /\ m.term > currentTerm[n] \/ (m.type = "AppendEntries" /\ StepsDown(n, m))
        /\ Stops(n)
        /\ disk' = [disk EXCEPT ![n] = Saved(n, m.term, Nil, log[n], snapshotData[n])]
        /\ UNCHANGED cutSaves

\* A save is cut off: the state file is opened with trunc and not yet written.
\* What is written of it makes no difference: RaftStorage!TornFileIsRefused.
CrashInStateFile(n) ==
    /\ Stops(n)
    /\ cutSaves < MaxCutSaves
    /\ cutSaves' = cutSaves + 1
    /\ disk' = [disk EXCEPT ![n].state = <<>>]

\* A save is cut off: the state file is written and the snapshot file is opened
\* with trunc and empty, which loadState takes for no snapshot.
CrashInSnapshotFile(n) ==
    /\ snapshotData[n] # {}
    /\ Stops(n)
    /\ cutSaves < MaxCutSaves
    /\ cutSaves' = cutSaves + 1
    /\ disk' = [disk EXCEPT ![n] = [SavedNow(n) EXCEPT !.snapshot = NoFile]]

\* takeSnapshot's save is cut off between the files: the snapshot is the old one.
CrashBetweenFiles(n) ==
    LET index == SnapshotPoint(n)
    IN  /\ pc[n] = "idle"
        /\ shouldTakeSnapshot(n)
        /\ index > log[n].snapshotIndex
        /\ Stops(n)
        /\ cutSaves < MaxCutSaves
        /\ cutSaves' = cutSaves + 1
        /\ disk' = [disk EXCEPT ![n].state =
                StateFile(currentTerm[n], votedFor[n],
                          discardEntriesUpTo(log[n], index, getTerm(log[n], index)))]

\* handleInstallSnapshot's save is cut off between the files: the state file is of
\* the log that is cut, the snapshot is the one that the node had before.
CrashInInstall(m) ==
    LET n    == m.to
        vote == IF m.term > currentTerm[n] THEN Nil ELSE votedFor[n]
    IN  /\ m.type = "InstallSnapshot"
        /\ pc[n] = "idle"
        /\ ~Stale(m)
        /\ Stops(n)
        /\ cutSaves < MaxCutSaves
        /\ cutSaves' = cutSaves + 1
        /\ disk' = [disk EXCEPT ![n].state =
                StateFile(m.term, vote,
                          discardEntriesUpTo(log[n], m.lastIncludedIndex, m.lastIncludedTerm))]

----------------------------------------------------------------------------
(***************************************************************************)
(* The constructor.                                                        *)
(***************************************************************************)

\* The log after both calls of restoreState, unless one of them throws: the
\* second one appends the entries to the log that the first one filled.
LoadedTwice(n) ==
    LET first == LogRead(disk[n].state, EmptyLog)
    IN  IF first.ok THEN LogRead(disk[n].state, first.log) ELSE first

CanRestore(n) == IsComplete(disk[n].state) /\ LoadedTwice(n).ok

\* There is no state file: the node starts as a new one.
StartNew(n) ==
    /\ life[n] = "down"
    /\ disk[n].state = NoFile
    /\ life' = [life EXCEPT ![n] = "up"]
    /\ UNCHANGED <<vars, disk, stops, cutSaves>>

\* Mutant: the vote is not read back.
RestoredNoVote(n) == Nil

RestoredVote(n) == disk[n].state[2]

\* restoreState: the members snapshotIndex and snapshotTerm, the compaction
\* point of the log and lastAppliedSeq are not restored; lastApplied and
\* commitIndex are those of the snapshot, if there is one.
Restore(n) ==
    LET file     == disk[n].state
        snapshot == disk[n].snapshot
    IN  /\ life[n] = "down"
        /\ file # NoFile
        /\ CanRestore(n)
        /\ life' = [life EXCEPT ![n] = "up"]
        /\ currentTerm' = [currentTerm EXCEPT ![n] = file[1]]
        /\ votedFor' = [votedFor EXCEPT ![n] = RestoredVote(n)]
        /\ log' = [log EXCEPT ![n] = LoadedTwice(n).log]
        /\ IF snapshot = NoFile
           THEN UNCHANGED <<snapshotData, kvStore, lastApplied, commitIndex>>
           ELSE /\ snapshotData' = [snapshotData EXCEPT ![n] = snapshot]
                /\ kvStore' = [kvStore EXCEPT ![n] = snapshot]
                /\ lastApplied' = [lastApplied EXCEPT ![n] = file[3]]
                /\ commitIndex' = [commitIndex EXCEPT ![n] = file[3]]
        /\ UNCHANGED <<role, currentLeaderId, lastAppliedSeq, leaderVars, snapshotIndex,
                       snapshotTerm, threadVars, reply, late, historyVars,
                       disk, stops, cutSaves>>

\* loadState throws, and the exception leaves the constructor.
RestoreThrows(n) ==
    /\ life[n] = "down"
    /\ disk[n].state # NoFile
    /\ ~CanRestore(n)
    /\ life' = [life EXCEPT ![n] = "dead"]
    /\ UNCHANGED <<vars, disk, stops, cutSaves>>

----------------------------------------------------------------------------
RestartNext ==
    \/ \E n \in Server : \/ NodeRuns(n)
                         \/ Shutdown(n)
                         \/ Crash(n)
                         \/ CrashInStateFile(n)
                         \/ CrashInSnapshotFile(n)
                         \/ CrashBetweenFiles(n)
                         \/ StartNew(n)
                         \/ Restore(n)
                         \/ RestoreThrows(n)
    \/ \E m \in Pending : HandlerRuns(m) \/ CrashInHandler(m) \/ CrashInInstall(m)

RestartSpec == RestartInit /\ [][RestartNext]_restartVars

----------------------------------------------------------------------------
\* Before a node answers, what it answers for is on disk: of a node that is up
\* the state file holds the term, the vote and the entries of its log, whatever
\* was interrupted before (RaftNode.cpp:110, 200, 255, 306, 341, 350, 684).
DiskIsCurrent ==
    \A n \in Durable : life[n] = "up" =>
        LET file == disk[n].state
            data == serializeLog(log[n])
        IN  IF file = NoFile
            THEN currentTerm[n] = 0 /\ votedFor[n] = Nil /\ log[n] = EmptyLog
            ELSE /\ file[1] = currentTerm[n]
                 /\ file[2] = votedFor[n]
                 /\ SubSeq(file, LogSize, Len(file)) = <<Len(data)>> \o data

\* A node that stops comes back (README.md:31, "Persistent state survives node
\* restarts"), when no save was cut off.
NodesComeBack == \A n \in Server : life[n] # "dead"
=============================================================================
