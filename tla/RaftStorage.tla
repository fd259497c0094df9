---------------------------- MODULE RaftStorage ----------------------------
(***************************************************************************)
(* What a node writes into bytes and reads back: commands, its log in the  *)
(* state file, and its store in a snapshot.  RaftLogLoops supplies every   *)
(* log a node can have within the bounds.                                  *)
(***************************************************************************)
EXTENDS RaftLogLoops, RaftPersistence, KVStore, SequencesExt

ASSUME CommandsAssumption == CommandsFit

\* The state file of a node with this log, whatever its term and its vote.
File == StateFile(MaxTerm, 1, log)

\* The commands of the log, in order.
Commands == [i \in DOMAIN SavedEntries(log) |-> SavedEntries(log)[i].command]

Keys == {Commands[i].key : i \in DOMAIN Commands}

----------------------------------------------------------------------------
\* A log that is not compacted reads back from the state file as it was, each
\* command with every field (RaftPersistence.cpp:157-248, Command.cpp:89-159).
SavedLogReadsBack ==
    log.snapshotIndex = 0 => /\ CanLoad(File, EmptyLog)
                             /\ LogRead(File, EmptyLog).log = log

\* A state file that was cut off while it was written is never taken for a
\* complete one, wherever it ends (RaftPersistence.cpp:89-124).
TornFileIsRefused ==
    \A k \in 0 .. Len(File) - 1 : ~CanLoad(SubSeq(File, 1, k), EmptyLog)

\* A command is read from all of its bytes and from no part of them, although
\* no length of the whole is written (Command.cpp:39-83).
TornCommandIsRefused ==
    \A i \in DOMAIN Commands :
        LET bytes == serialize(Commands[i])
        IN  /\ CanDeserialize(bytes)
            /\ \A k \in 0 .. Len(bytes) - 1 : ~CanDeserialize(SubSeq(bytes, 1, k))

Writes(c, key) == c.op # "GET" /\ c.key = key

Sets(c, key) == c.op = "PUT" /\ c.key = key

\* The positions of the writes to a key since the last one that set it, that one
\* included.
LastWrites(commands, key) ==
    {i \in DOMAIN commands : /\ Writes(commands[i], key)
                             /\ \A j \in DOMAIN commands : j > i => ~Sets(commands[j], key)}

\* A set of positions from the first to the last.
InOrder(at) == {s \in SetToSeqs(at) : \A i, j \in DOMAIN s : i < j => s[i] < s[j]}

\* A GET returns the value of the last PUT with all that was appended since, or
\* nothing for a key that was never written (KVStore.cpp:3-32).
GetReturnsTheLastWrites ==
    \A key \in Keys : \E s \in InOrder(LastWrites(Commands, key)) :
        Get(Replay(Commands), key) =
            IF s = <<>> THEN NotFound
            ELSE FlattenSeq([i \in DOMAIN s |-> Commands[s[i]].value])

\* A store reads back from its snapshot as it was, in whatever order the
\* unordered_map lists its keys (KVStore.cpp:34-95).
SnapshotReadsBack ==
    LET kvMap == Replay(Commands)
    IN  \A order \in SetToSeqs(DOMAIN kvMap) : installSnapshot(takeSnapshot(kvMap, order)) = kvMap
=============================================================================
