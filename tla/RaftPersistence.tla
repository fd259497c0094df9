-------------------------- MODULE RaftPersistence --------------------------
(***************************************************************************)
(* The state file of a node (class RaftPersistence,                        *)
(* src/src/raft/RaftPersistence.cpp): what saveState writes into it and    *)
(* what loadState makes of it.  As in CommandCodec a file is a sequence    *)
(* with one element per integer, and a file that was cut off while it was  *)
(* written is a proper prefix.                                             *)
(***************************************************************************)
EXTENDS RaftLog, CommandCodec

\* A command as clients send it: PUT and APPEND carry a value.  Ids and characters
\* are numbers, as in the bytes of a file.
WriteCommand == [op : {"PUT", "APPEND"}, client : Nat, seq : Nat,
                 key : Seq(Nat), value : Seq(Nat)]

ReadCommand == [op : {"GET"}, client : Nat, seq : Nat, key : Seq(Nat)]

\* What a client can propose fits into a file.
CommandsFit == Command \subseteq WriteCommand \cup ReadCommand

\* command_data; the entries that a node can save all hold a command.
CommandBytes(command) == IF command = NoCommand THEN <<>> ELSE serialize(command)

CommandOf(bytes) == IF bytes = <<>> THEN NoCommand ELSE deserialize(bytes)

\* The entries from firstIndex to lastIndex: getEntry finds them all, since the
\* log is well formed.
SavedEntries(lg) == EntriesFrom(lg, lg.snapshotIndex + 1)

serializeEntry(entry) ==
    LET bytes == CommandBytes(entry.command)
    IN  <<entry.index, entry.term, Len(bytes)>> \o bytes

\* The number of entries, and one after the other.
serializeLog(lg) ==
    LET entries == SavedEntries(lg)
        data[k \in 0 .. Len(entries)] ==
            IF k = 0 THEN <<getLastIndex(lg) - lg.snapshotIndex>>
                     ELSE data[k - 1] \o serializeEntry(entries[k])
    IN  data[Len(entries)]

\* The header of the state file, before the size of the log and the log.
Header(term, vote, lg) == <<term, vote, lg.snapshotIndex, lg.snapshotTerm>>

\* Mutant: the size of the log leaves out the number of entries before them.
StateFileTooShort(term, vote, lg) ==
    LET data == serializeLog(lg)
    IN  Header(term, vote, lg) \o <<Len(data) - 1>> \o data

\* The state file that saveState leaves.
StateFile(term, vote, lg) ==
    LET data == serializeLog(lg)
    IN  Header(term, vote, lg) \o <<Len(data)>> \o data

----------------------------------------------------------------------------
\* One iteration of deserializeLog.  It throws when the data ends too early,
\* and log.append throws when the log does not end just before the entry.
ReadEntry(data, done) ==
    LET size  == data[done.offset + 2]
        after == done.offset + 3 + size
        entry == [index   |-> data[done.offset],
                  term    |-> data[done.offset + 1],
                  command |-> CommandOf(SubSeq(data, done.offset + 3, after - 1))]
    IN  IF /\ done.ok
           /\ done.offset + 2 <= Len(data)
           /\ after - 1 <= Len(data)
           /\ CanAppend(done.log, entry)
        THEN [ok |-> TRUE, offset |-> after, log |-> append(done.log, entry)]
        ELSE [done EXCEPT !.ok = FALSE]

\* The log with the entries in data appended to what it has, unless it throws.
deserializeLog(data, lg) ==
    LET numEntries == IF data = <<>> THEN 0 ELSE data[1]
        done[k \in 0 .. numEntries] ==
            IF k = 0 THEN [ok |-> TRUE, offset |-> 2, log |-> lg]
                     ELSE ReadEntry(data, done[k - 1])
    IN  done[numEntries]

\* The position of the size of the log in the state file.
LogSize == 5

\* Every read of the header and of the log data got all its bytes.
IsComplete(file) == LogSize <= Len(file) /\ LogSize + file[LogSize] <= Len(file)

LogRead(file, lg) ==
    deserializeLog(SubSeq(file, LogSize + 1, LogSize + file[LogSize]), lg)

\* loadState gets through; it throws a runtime_error or a logic_error otherwise.
CanLoad(file, lg) == IsComplete(file) /\ LogRead(file, lg).ok
=============================================================================
