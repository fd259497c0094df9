------------------------------ MODULE RaftLog ------------------------------
(***************************************************************************)
(* The replicated log of one node (class RaftLog, src/src/raft/Log.cpp):   *)
(* a vector Entries whose first element is a sentinel, and the index and   *)
(* term of the last entry that compaction removed.  A log is a record and  *)
(* every method an operator from log to log.                               *)
(*                                                                         *)
(* The vector is 0-based in C++ and a 1-based sequence here: Entries[i] of *)
(* the code is Entries[i + 1] of the model.                                *)
(***************************************************************************)
EXTENDS Integers, Sequences

CONSTANTS
    Command,     \* the payloads a client can propose
    NoCommand    \* the empty payload of the sentinel

Payload == Command \cup {NoCommand}

Entry == [index : Nat, term : Nat, command : Payload]

Log == [Entries : Seq(Entry), snapshotIndex : Nat, snapshotTerm : Nat]

Sentinel(index, term) == [index |-> index, term |-> term, command |-> NoCommand]

\* RaftLog::RaftLog
EmptyLog == [Entries |-> <<Sentinel(0, 0)>>, snapshotIndex |-> 0, snapshotTerm |-> 0]

Size(lg) == Len(lg.Entries)

getLastIndex(lg) == lg.Entries[Size(lg)].index

getLastTerm(lg) == lg.Entries[Size(lg)].term

\* The position is the index itself: snapshotIndex is not subtracted.
getTerm(lg, index) == IF index >= Size(lg) THEN 0 ELSE lg.Entries[index + 1].term

\* getEntry throws out_of_range on any other index.
HasEntry(lg, index) == /\ index > lg.snapshotIndex
                       /\ index - lg.snapshotIndex < Size(lg)

getEntry(lg, index) == lg.Entries[index - lg.snapshotIndex + 1]

\* append throws logic_error on any other entry.
CanAppend(lg, entry) == entry.index = getLastIndex(lg) + 1

append(lg, entry) == [lg EXCEPT !.Entries = Append(@, entry)]

\* Mutant: keeps the entry at `index` itself.
truncateAfter(lg, index) ==
    IF index >= Size(lg) THEN lg ELSE [lg EXCEPT !.Entries = SubSeq(@, 1, index + 1)]

\* Like getTerm, truncate takes the index for a position in the vector.
truncate(lg, index) ==
    IF index >= Size(lg) THEN lg ELSE [lg EXCEPT !.Entries = SubSeq(@, 1, index)]

\* Mutant: the entry at `index` does not stay as the sentinel.
discardEntriesThrough(lg, index, term) ==
    LET position == index - lg.snapshotIndex
        kept     == IF position + 1 >= Size(lg)
                    THEN <<Sentinel(index, term)>>
                    ELSE SubSeq(lg.Entries, position + 2, Size(lg))
    IN  IF index <= lg.snapshotIndex
        THEN lg
        ELSE [Entries |-> kept, snapshotIndex |-> index, snapshotTerm |-> term]

\* The entry at `index`, when the log has it, becomes the new sentinel as it
\* is; a sentinel is made only when everything was discarded.  Log.cpp:85 also makes
\* one when the first entry kept has another index, which the first entry of a
\* well-formed log never has (LogWellFormed).
discardEntriesUpTo(lg, index, term) ==
    LET position == index - lg.snapshotIndex
        kept     == IF position >= Size(lg)
                    THEN <<Sentinel(index, term)>>
                    ELSE SubSeq(lg.Entries, position + 1, Size(lg))
    IN  IF index <= lg.snapshotIndex
        THEN lg
        ELSE [Entries |-> kept, snapshotIndex |-> index, snapshotTerm |-> term]

\* getEntry(next), ..., getEntry(getLastIndex): what a leader sends from `next`.
EntriesFrom(lg, next) == SubSeq(lg.Entries, next - lg.snapshotIndex + 1, Size(lg))

----------------------------------------------------------------------------
(***************************************************************************)
(* The two loops of RaftNode::handleAppendEntries over the log, in closed  *)
(* form.  RaftLogLoops states both loops iteration by iteration; the two   *)
(* are compared there, and proved equal in RaftStorageProofs.              *)
(***************************************************************************)

\* Mutant: some index of the run.
IsInConflictingTerm(lg, prevLogIndex, k) ==
    \A i \in k .. prevLogIndex : getTerm(lg, i) = getTerm(lg, prevLogIndex)

\* k is the first index of the run of equal terms that ends at prevLogIndex:
\* the conflictIndex of the reply.
IsConflictIndex(lg, prevLogIndex, k) ==
    /\ \A i \in k .. prevLogIndex : getTerm(lg, i) = getTerm(lg, prevLogIndex)
    /\ k > 1 => getTerm(lg, k - 1) # getTerm(lg, prevLogIndex)

\* Mutant: the last entry of the log is not compared.
ConflictsBeforeLast(lg, prevLogIndex, entries, k) ==
    /\ prevLogIndex + k < getLastIndex(lg)
    /\ getTerm(lg, prevLogIndex + k) # entries[k].term

\* The k-th new entry meets an existing entry of another term.
Conflicts(lg, prevLogIndex, entries, k) ==
    /\ prevLogIndex + k <= getLastIndex(lg)
    /\ getTerm(lg, prevLogIndex + k) # entries[k].term

\* Mutant: the log is cut after prevLogIndex, conflict or not.
IsFirstEntry(lg, prevLogIndex, entries, k) == k = 1

\* k is the first new entry that conflicts, or Len(entries) + 1.
IsFirstConflict(lg, prevLogIndex, entries, k) ==
    /\ \A j \in 1 .. k - 1 : ~Conflicts(lg, prevLogIndex, entries, j)
    /\ k <= Len(entries) => Conflicts(lg, prevLogIndex, entries, k)

\* The log once it is cut at the first conflict k and the entries past its
\* end are appended.
Merge(lg, prevLogIndex, entries, k) ==
    LET kept == IF k <= Len(entries) THEN truncate(lg, prevLogIndex + k) ELSE lg
        new  == SubSeq(entries, getLastIndex(kept) - prevLogIndex + 1, Len(entries))
    IN  [kept EXCEPT !.Entries = @ \o new]

----------------------------------------------------------------------------
(***************************************************************************)
(* What the other components rely on.                                      *)
(***************************************************************************)

\* The position of an entry tells its index: getEntry(i) has index i.
Contiguous(lg) == \A k \in 1 .. Size(lg) : lg.Entries[k].index = lg.snapshotIndex + k - 1

WellFormed(lg) == /\ lg \in Log
                  /\ Size(lg) > 0
                  /\ Contiguous(lg)

\* The entries above the sentinel, as a set.
EntrySet(lg) == {lg.Entries[k] : k \in 2 .. Size(lg)}
=============================================================================
