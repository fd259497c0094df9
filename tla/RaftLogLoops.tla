---------------------------- MODULE RaftLogLoops ----------------------------
(***************************************************************************)
(* One node's log under everything the node can do to it: appends by a     *)
(* leader, merges of the entries of an AppendEntries request, and          *)
(* compaction.  The two loops of RaftNode::handleAppendEntries are stated  *)
(* here iteration by iteration and compared with the closed forms that     *)
(* RaftLog gives and RaftNode uses, on every log that is reachable and     *)
(* every request within the bounds.                                        *)
(***************************************************************************)
EXTENDS RaftLog

CONSTANTS
    MaxTerm,     \* bound on the terms of entries
    MaxIndex,    \* bound on the indices of entries
    Proposed     \* the command that the leader of a term proposes

ASSUME BoundAssumption ==
    /\ MaxTerm \in Nat
    /\ MaxIndex \in Nat
    /\ Proposed \in [1 .. MaxTerm -> Command]

VARIABLE log

----------------------------------------------------------------------------
\* The search for conflictIndex goes down from prevLogIndex; at index i it ends
\* or goes on.
ConflictIndexLoop(lg, prevTerm, prevLogIndex) ==
    LET from[i \in 1 .. prevLogIndex] ==
            IF getTerm(lg, i) # prevTerm THEN i + 1
            ELSE IF i = 1 THEN 1 ELSE from[i - 1]
    IN  from[prevLogIndex]

\* The merge of one entry into the log.
MergeEntry(lg, entryIndex, entry) ==
    LET conflict == /\ entryIndex <= getLastIndex(lg)
                    /\ getTerm(lg, entryIndex) # entry.term
        cut      == IF conflict THEN truncate(lg, entryIndex) ELSE lg
    IN  IF entryIndex > getLastIndex(cut) THEN append(cut, entry) ELSE cut

\* The log after the first k iterations, and after the loop.
MergeLoop(lg, prevLogIndex, entries) ==
    LET merged[k \in 0 .. Len(entries)] ==
            IF k = 0 THEN lg
                     ELSE MergeEntry(merged[k - 1], prevLogIndex + k, entries[k])
    IN  merged[Len(entries)]

----------------------------------------------------------------------------
Terms == 1 .. MaxTerm

\* The entries of a request: consecutive indices from prevLogIndex + 1, as a
\* leader reads them from its log, whose terms never decrease.
Requests(prevLogIndex) ==
    {[k \in 1 .. len |-> [index |-> prevLogIndex + k, term |-> f[k], command |-> Proposed[f[k]]]] :
        len \in 0 .. MaxIndex - prevLogIndex,
        f \in {g \in [1 .. MaxIndex -> Terms] : \A i \in 2 .. MaxIndex : g[i - 1] <= g[i]}}

Init == log = EmptyLog

LeaderAppends(term) ==
    /\ getLastIndex(log) < MaxIndex
    /\ getLastTerm(log) <= term
    /\ log' = append(log, [index |-> getLastIndex(log) + 1, term |-> term,
                           command |-> Proposed[term]])

\* The consistency check passed at prevLogIndex, for some prevLogTerm.
FollowerMerges(prevLogIndex, entries) ==
    /\ prevLogIndex <= getLastIndex(log)
    /\ log' = MergeLoop(log, prevLogIndex, entries)

\* takeSnapshot at an entry of the log, or a snapshot installed beyond it.
Discards(index, term) ==
    log' = discardEntriesUpTo(log, index, term)

Next ==
    \/ \E term \in Terms : LeaderAppends(term)
    \/ \E prev \in 0 .. MaxIndex : \E entries \in Requests(prev) : FollowerMerges(prev, entries)
    \/ \E index \in 1 .. MaxIndex, term \in Terms : Discards(index, term)

Spec == Init /\ [][Next]_log

----------------------------------------------------------------------------
\* The log is never empty and every entry stands at the position that
\* getEntry computes for its index, whatever is truncated or discarded.  It
\* would not if an append inside handleAppendEntries met an index other than
\* the last one plus 1, where the code throws: none does, although truncate
\* cuts at the wrong position once the log is compacted.
LogWellFormed == WellFormed(log)

\* handleAppendEntries' search for the first entry of the conflicting term
\* returns what RaftLog!IsConflictIndex characterises, and no other index.
ConflictIndexLoopMatches ==
    \A prev \in 1 .. getLastIndex(log) : \A k \in 1 .. prev :
        IsConflictIndex(log, prev, k) <=> k = ConflictIndexLoop(log, getTerm(log, prev), prev)

\* handleAppendEntries' loop over the new entries computes RaftLog!Merge at
\* the first conflict, on compacted logs too.
MergeLoopMatches ==
    \A prev \in 0 .. getLastIndex(log) : \A entries \in Requests(prev) :
        \E k \in 1 .. Len(entries) + 1 :
            /\ IsFirstConflict(log, prev, entries, k)
            /\ MergeLoop(log, prev, entries) = Merge(log, prev, entries, k)

\* A follower that accepted the entries of a request holds exactly these at
\* their indices, as long as its log is not compacted: then truncate cuts where
\* Log.cpp:34 says, and what lies past the end is appended once.
MergeStoresTheEntries ==
    log.snapshotIndex = 0 => \A prev \in 0 .. getLastIndex(log) : \A entries \in Requests(prev) :
        LET merged == MergeLoop(log, prev, entries)
        IN  \A k \in 1 .. Len(entries) :
                /\ HasEntry(merged, prev + k)
                /\ getEntry(merged, prev + k) = entries[k]
=============================================================================
