------------------------- MODULE RaftStorageProofs -------------------------
(***************************************************************************)
(* The theorems about one node's log and about what is written of it:      *)
(* whatever a leader, a follower and compaction do to a log, it stays well *)
(* formed, the two loops of RaftNode::handleAppendEntries compute the      *)
(* closed forms that RaftLog gives and RaftNode uses, and a state file, a  *)
(* command and a snapshot of the store read back as what was written.      *)
(***************************************************************************)
EXTENDS RaftStorage, RaftLogProofs, FiniteSetTheorems

----------------------------------------------------------------------------
(***************************************************************************)
(* The loops of handleAppendEntries, for every log and every request.      *)
(***************************************************************************)

\* The loop over the conflicting term returns the first index of the run that
\* ends where it started.
LEMMA ConflictIndexLoopFinds ==
    ASSUME NEW lg, NEW prev \in Nat \ {0}
    PROVE  \A k \in 1 .. prev :
              IsConflictIndex(lg, prev, k) <=> k = ConflictIndexLoop(lg, getTerm(lg, prev), prev)
  <1> DEFINE t == getTerm(lg, prev)
             d == CHOOSE d : d = [i \in 1 .. prev |->
                                    IF getTerm(lg, i) # t THEN i + 1
                                    ELSE IF i = 1 THEN 1 ELSE d[i - 1]]
             step == [k \in 1 .. prev |->
                         [x \in Nat |-> IF getTerm(lg, k) # t THEN k + 1 ELSE x]]
  <1>1. ConflictIndexLoop(lg, t, prev) = d[prev]
    BY DEF ConflictIndexLoop
  <1>2. step \in [1 .. prev -> [Nat -> Nat]]
    OBVIOUS
  <1>3. PICK g : Iterates(g, Nat, 1, prev, step)
    <2> HIDE DEF step
    <2>1. QED
      BY <1>2, RecursionExists
  <1>4. g \in [0 .. prev -> Nat] /\ g[0] = 1 /\ \A k \in 1 .. prev : g[k] = step[k][g[k - 1]]
    BY <1>3 DEF Iterates
  <1>5. \E h : h = [i \in 1 .. prev |-> IF getTerm(lg, i) # t THEN i + 1
                                        ELSE IF i = 1 THEN 1 ELSE h[i - 1]]
    <2> DEFINE h == [i \in 1 .. prev |-> g[i]]
    <2>1. ASSUME NEW i \in 1 .. prev
          PROVE  h[i] = IF getTerm(lg, i) # t THEN i + 1 ELSE IF i = 1 THEN 1 ELSE h[i - 1]
      <3>1. g[i - 1] \in Nat
        BY <1>4
      <3>2. g[i] = IF getTerm(lg, i) # t THEN i + 1 ELSE g[i - 1]
        BY <1>4, <3>1
      <3>3. i = 1 => g[i - 1] = 1
        BY <1>4
      <3>4. i # 1 => i - 1 \in 1 .. prev
        OBVIOUS
      <3>5. QED
        BY <3>2, <3>3, <3>4
    <2>2. h = [i \in 1 .. prev |-> IF getTerm(lg, i) # t THEN i + 1
                                   ELSE IF i = 1 THEN 1 ELSE h[i - 1]]
      BY <2>1
    <2>3. QED
      BY <2>2
  <1>6. d = [i \in 1 .. prev |-> IF getTerm(lg, i) # t THEN i + 1
                                 ELSE IF i = 1 THEN 1 ELSE d[i - 1]]
    BY <1>5
  <1> HIDE DEF d, step
  <1> DEFINE Found(i, x) == /\ x \in 1 .. i + 1
                            /\ \A j \in x .. i : getTerm(lg, j) = t
                            /\ x > 1 => getTerm(lg, x - 1) # t
             T == {i \in 0 .. prev : i = 0 \/ Found(i, d[i])}
  <1>7. \A i \in 0 .. prev : i \in T
    <2>1. 0 \in T
      OBVIOUS
    <2>2. ASSUME NEW i \in 1 .. prev, i - 1 \in T PROVE i \in T
      <3>1. d[i] = IF getTerm(lg, i) # t THEN i + 1 ELSE IF i = 1 THEN 1 ELSE d[i - 1]
        BY <1>6
      <3>2. CASE getTerm(lg, i) # t
        BY <3>1, <3>2
      <3>3. CASE getTerm(lg, i) = t /\ i = 1
        BY <3>1, <3>3
      <3>4. CASE getTerm(lg, i) = t /\ i # 1
        <4>1. d[i] = d[i - 1]
          BY <3>1, <3>4
        <4>2. Found(i - 1, d[i - 1])
          BY <2>2, <3>4
        <4>3. Found(i, d[i])
          BY <3>4, <4>1, <4>2
        <4>4. QED
          BY <4>3
      <3>5. QED
        BY <3>2, <3>3, <3>4
    <2> HIDE DEF T
    <2>3. QED
      BY <2>1, <2>2, UpTo
  <1>8. Found(prev, d[prev])
    BY <1>7
  <1> DEFINE c == d[prev]
  <1>9. c \in 1 .. prev /\ (\A j \in c .. prev : getTerm(lg, j) = t)
          /\ (c > 1 => getTerm(lg, c - 1) # t)
    <2>1. getTerm(lg, prev) = t
      OBVIOUS
    <2> HIDE DEF t
    <2>2. QED
      BY <1>8, <2>1
  <1> HIDE DEF c
  <1>10. ASSUME NEW k \in 1 .. prev PROVE IsConflictIndex(lg, prev, k) <=> k = c
    <2>1. IsConflictIndex(lg, prev, k) <=> /\ \A i \in k .. prev : getTerm(lg, i) = t
                                           /\ k > 1 => getTerm(lg, k - 1) # t
      BY DEF IsConflictIndex
    <2> HIDE DEF t
    <2>2. ASSUME \A i \in k .. prev : getTerm(lg, i) = t, k > 1 => getTerm(lg, k - 1) # t
          PROVE  k = c
      <3>1. CASE k < c
        <4>1. c > 1 /\ c - 1 \in k .. prev
          BY <1>9, <3>1
        <4>2. QED
          BY <1>9, <2>2, <4>1
      <3>2. CASE c < k
        <4>1. k > 1 /\ k - 1 \in c .. prev
          BY <1>9, <3>2
        <4>2. QED
          BY <1>9, <2>2, <4>1
      <3>3. QED
        BY <1>9, <3>1, <3>2
    <2>3. QED
      BY <1>9, <2>1, <2>2
  <1>11. QED
    BY <1>1, <1>10 DEF c

\* Entries added at the end of a log that continue its indices.
LEMMA ConcatWellFormed ==
    ASSUME NEW lg, WellFormed(lg), NEW new \in Seq(Entry),
           \A i \in 1 .. Len(new) : new[i].index = getLastIndex(lg) + i
    PROVE  LET all == [lg EXCEPT !.Entries = @ \o new]
           IN  /\ WellFormed(all)
               /\ getLastIndex(all) = getLastIndex(lg) + Len(new)
               /\ Size(all) = Size(lg) + Len(new)
               /\ all.Entries = lg.Entries \o new
  <1> DEFINE es  == lg.Entries \o new
             all == [lg EXCEPT !.Entries = @ \o new]
  <1>1. Parts(lg) /\ getLastIndex(lg) = lg.snapshotIndex + Size(lg) - 1
    BY LogParts, LogLast
  <1>2. /\ lg.Entries \in Seq(Entry) /\ Len(lg.Entries) = Size(lg) /\ Size(lg) \in Nat
        /\ Size(lg) > 0 /\ Len(new) \in Nat
        /\ lg.snapshotIndex \in Nat /\ lg.snapshotTerm \in Nat
    BY <1>1 DEF Parts
  <1>3. /\ es \in Seq(Entry) /\ Len(es) = Size(lg) + Len(new) /\ Len(es) > 0
        /\ \A k \in 1 .. Len(es) : es[k] = IF k <= Size(lg) THEN lg.Entries[k]
                                                           ELSE new[k - Size(lg)]
    <2>1. /\ es \in Seq(Entry) /\ Len(es) = Len(lg.Entries) + Len(new)
          /\ \A i \in 1 .. Len(lg.Entries) + Len(new) :
                es[i] = IF i <= Len(lg.Entries) THEN lg.Entries[i] ELSE new[i - Len(lg.Entries)]
      BY <1>2, ConcatParts
    <2> HIDE DEF es
    <2>2. QED
      BY <1>2, <2>1
  <1>4. all = [Entries |-> es, snapshotIndex |-> lg.snapshotIndex, snapshotTerm |-> lg.snapshotTerm]
    <2>1. all = [lg EXCEPT !.Entries = es]
      OBVIOUS
    <2> HIDE DEF es, all
    <2>2. QED
      BY <2>1, LogExceptEntries
  <1> HIDE DEF all
  <1>5. ASSUME NEW k \in 1 .. Len(es) PROVE es[k].index = lg.snapshotIndex + k - 1
    <2> HIDE DEF es
    <2>1. CASE k <= Size(lg)
      <3>1. k \in 1 .. Size(lg) /\ es[k] = lg.Entries[k]
        BY <1>2, <1>3, <2>1
      <3>2. QED
        BY <1>1, <3>1 DEF Parts
    <2>2. CASE ~(k <= Size(lg))
      <3>1. k - Size(lg) \in 1 .. Len(new) /\ es[k] = new[k - Size(lg)]
        BY <1>2, <1>3, <2>2
      <3>2. new[k - Size(lg)].index = getLastIndex(lg) + (k - Size(lg))
        BY <3>1
      <3>3. QED
        BY <1>1, <1>2, <3>1, <3>2
    <2>3. QED
      BY <2>1, <2>2
  <1>6. WellFormed(all) /\ Size(all) = Len(es) /\ all.Entries = es
        /\ all.snapshotIndex = lg.snapshotIndex
    <2> HIDE DEF es
    <2>1. QED
      BY <1>2, <1>3, <1>4, <1>5, LogOfParts DEF Size
  <1>7. getLastIndex(all) = lg.snapshotIndex + Size(all) - 1
    BY <1>6, LogLast
  <1> HIDE DEF es
  <1>8. getLastIndex(all) = getLastIndex(lg) + Len(new)
    <2> DEFINE n == Size(lg)
               m == Len(new)
               s == lg.snapshotIndex
    <2>1. n \in Nat /\ m \in Nat /\ s \in Nat /\ Size(all) = n + m
      BY <1>2, <1>3, <1>6
    <2>2. getLastIndex(all) = s + Size(all) - 1 /\ getLastIndex(lg) = s + n - 1
      BY <1>1, <1>7
    <2> HIDE DEF n, m, s
    <2>3. getLastIndex(all) = getLastIndex(lg) + m
      BY <2>1, <2>2
    <2>4. QED
      BY <2>3 DEF m
  <1>9. WellFormed(all) /\ Size(all) = Size(lg) + Len(new) /\ all.Entries = es
    BY <1>3, <1>6
  <1>10. QED
    BY <1>8, <1>9 DEF es, all

\* A request as handleAppendEntries gets it: consecutive entries from prev + 1.
Consecutive(prev, entries) ==
    entries \in Seq(Entry) /\ \A j \in 1 .. Len(entries) : entries[j].index = prev + j

\* The log in the loop: cut at the first conflict and extended by what lies past
\* its end, up to the j-th new entry.
Extended(kept, prev, entries, j) ==
    [kept EXCEPT !.Entries = @ \o SubSeq(entries, getLastIndex(kept) - prev + 1, j)]

LEMMA ExtendedParts ==
    ASSUME NEW kept, WellFormed(kept), NEW prev \in Nat, prev <= getLastIndex(kept),
           NEW entries, Consecutive(prev, entries), NEW j \in 0 .. Len(entries)
    PROVE  /\ WellFormed(Extended(kept, prev, entries, j))
           /\ prev + j <= getLastIndex(kept) => Extended(kept, prev, entries, j) = kept
           /\ prev + j >= getLastIndex(kept) =>
                 getLastIndex(Extended(kept, prev, entries, j)) = prev + j
           /\ j > 0 /\ prev + j > getLastIndex(kept) =>
                 Extended(kept, prev, entries, j)
                    = append(Extended(kept, prev, entries, j - 1), entries[j])
  <1> DEFINE last == getLastIndex(kept)
             m    == last - prev + 1
             new  == SubSeq(entries, m, j)
             ext  == Extended(kept, prev, entries, j)
  <1>1. last \in Nat /\ m \in Nat \ {0} /\ j \in Nat /\ Len(entries) \in Nat
        /\ j <= Len(entries) /\ entries \in Seq(Entry)
    BY LogLast DEF Consecutive
  <1>2. Parts(kept)
    BY LogParts
  <1>3. ext = [kept EXCEPT !.Entries = @ \o new]
    BY DEF Extended
  <1> HIDE DEF last
  <1>4. /\ new \in Seq(Entry) /\ Len(new) = (IF m <= j THEN j - m + 1 ELSE 0)
        /\ \A i \in 1 .. Len(new) : i + m - 1 \in 1 .. j /\ new[i] = entries[i + m - 1]
    <2> HIDE DEF m
    <2>1. QED
      BY <1>1
  <1>5. \A i \in 1 .. Len(new) : new[i].index = last + i
    <2> SUFFICES ASSUME NEW i \in 1 .. Len(new) PROVE new[i].index = last + i
      OBVIOUS
    <2> HIDE DEF new
    <2>1. i + m - 1 \in 1 .. Len(entries) /\ new[i] = entries[i + m - 1]
      BY <1>1, <1>4
    <2>2. entries[i + m - 1].index = prev + (i + m - 1)
      BY <2>1 DEF Consecutive
    <2>3. i \in Nat
      BY <1>4
    <2>4. QED
      BY <1>1, <2>1, <2>2, <2>3
  <1>6. WellFormed(ext) /\ getLastIndex(ext) = last + Len(new)
        /\ ext.Entries = kept.Entries \o new
    <2> HIDE DEF new, ext
    <2>1. QED
      BY <1>3, <1>4, <1>5, ConcatWellFormed DEF last
  <1>7. ASSUME prev + j <= last PROVE ext = kept
    <2>1. new = <<>>
      BY <1>1, <1>4, <1>7
    <2>2. kept.Entries \o <<>> = kept.Entries
      BY <1>2 DEF Parts
    <2>3. ext = [kept EXCEPT !.Entries = kept.Entries]
      BY <1>3, <2>1, <2>2
    <2>4. QED
      BY <2>3 DEF WellFormed, Log
  <1>8. ASSUME prev + j >= last PROVE getLastIndex(ext) = prev + j
    <2> HIDE DEF new, ext
    <2>1. Len(new) = prev + j - last
      BY <1>1, <1>4, <1>8
    <2>2. QED
      BY <1>1, <1>6, <2>1
  <1>9. ASSUME j > 0, prev + j > last
        PROVE  ext = append(Extended(kept, prev, entries, j - 1), entries[j])
    <2> DEFINE old == SubSeq(entries, m, j - 1)
    <2>1. new = Append(old, entries[j])
      <3>1. m <= j
        BY <1>1, <1>9
      <3> HIDE DEF m
      <3>2. QED
        BY <1>1, <1>9, <3>1
    <2>2. old \in Seq(Entry) /\ entries[j] \in Entry
      <3> HIDE DEF m
      <3>1. QED
        BY <1>1, <1>9
    <2>3. kept.Entries \in Seq(Entry)
      BY <1>2 DEF Parts
    <2> HIDE DEF new, old, ext
    <2>4. kept.Entries \o new = Append(kept.Entries \o old, entries[j])
      <3>1. Append(old, entries[j]) = old \o <<entries[j]>> /\ <<entries[j]>> \in Seq(Entry)
        BY <2>2, AppendIsConcat
      <3>2. (kept.Entries \o old) \o <<entries[j]>> = kept.Entries \o (old \o <<entries[j]>>)
        <4> DEFINE last1 == <<entries[j]>>
                   es    == kept.Entries
        <4>1. old \in Seq(Entry) /\ last1 \in Seq(Entry) /\ es \in Seq(Entry)
          BY <2>2, <2>3, <3>1
        <4> HIDE DEF last1, es
        <4>2. (es \o old) \o last1 = es \o (old \o last1)
          BY <4>1, ConcatAssociative
        <4>3. QED
          BY <4>2 DEF last1, es
      <3>3. kept.Entries \o old \in Seq(Entry)
        BY <2>2, <2>3
      <3>4. Append(kept.Entries \o old, entries[j]) = (kept.Entries \o old) \o <<entries[j]>>
        BY <2>2, <3>3, AppendIsConcat
      <3>5. QED
        BY <2>1, <3>1, <3>2, <3>4
    <2>5. Extended(kept, prev, entries, j - 1) = [kept EXCEPT !.Entries = @ \o old]
      BY DEF Extended, old, last
    <2>6. kept \in Log
      BY DEF WellFormed
    <2>7. QED
      BY <1>3, <2>4, <2>5, <2>6 DEF append, Log
  <1>10. QED
    BY <1>6, <1>7, <1>8, <1>9 DEF last, ext

\* What the first conflict, at the k-th new entry, leaves of the log.
KeptAt(lg, prev, entries, k) ==
    IF k <= Len(entries) THEN truncate(lg, prev + k) ELSE lg

\* The log after j iterations.
LogAfter(lg, prev, entries, k, j) ==
    IF j < k /\ k <= Len(entries) THEN lg
    ELSE Extended(KeptAt(lg, prev, entries, k), prev, entries, j)

\* A cut at a position that the log does not have leaves it alone.
LEMMA KeptParts ==
    ASSUME NEW lg, WellFormed(lg), NEW prev \in Nat, prev <= getLastIndex(lg),
           NEW entries, Consecutive(prev, entries), NEW k \in 1 .. Len(entries) + 1
    PROVE  LET kept == KeptAt(lg, prev, entries, k)
           IN  /\ WellFormed(kept)
               /\ prev <= getLastIndex(kept)
               /\ k <= Len(entries) => \A j \in k .. Len(entries) + 1 :
                                          j > k => truncate(kept, prev + j) = kept
  <1> DEFINE kept == KeptAt(lg, prev, entries, k)
  <1>1. Len(entries) \in Nat /\ k \in Nat \ {0} /\ prev + k \in Nat \ {0}
    BY DEF Consecutive
  <1>2. Parts(lg) /\ getLastIndex(lg) = lg.snapshotIndex + Size(lg) - 1
    BY LogParts, LogLast
  <1>3. CASE k <= Len(entries)
    <2>1. kept = truncate(lg, prev + k)
      BY <1>3 DEF KeptAt
    <2> HIDE DEF kept
    <2>2. /\ WellFormed(kept)
          /\ getLastIndex(kept) = IF prev + k >= Size(lg) THEN getLastIndex(lg)
                                  ELSE lg.snapshotIndex + (prev + k) - 1
      BY <1>1, <2>1, TruncateWellFormed
    <2>3. Size(kept) <= prev + k /\ Size(kept) \in Nat
      <3>1. CASE prev + k >= Size(lg)
        BY <1>2, <2>1, <3>1 DEF truncate, Parts
      <3>2. CASE ~(prev + k >= Size(lg))
        <4>1. kept.Entries = SubSeq(lg.Entries, 1, prev + k)
          BY <2>1, <3>2 DEF truncate, WellFormed, Log
        <4>2. prev + k \in 0 .. Len(lg.Entries) /\ lg.Entries \in Seq(Entry)
          BY <1>1, <1>2, <3>2 DEF Parts
        <4>3. QED
          BY <1>1, <4>1, <4>2, SubSeqUpTo DEF Size
      <3>3. QED
        BY <3>1, <3>2
    <2>4. prev <= getLastIndex(kept)
      BY <1>1, <1>2, <2>2 DEF Parts
    <2>5. ASSUME NEW j \in k .. Len(entries) + 1, j > k PROVE truncate(kept, prev + j) = kept
      <3>1. prev + j >= Size(kept)
        BY <1>1, <2>3, <2>5
      <3>2. QED
        BY <3>1 DEF truncate
    <2>6. QED
      BY <2>2, <2>4, <2>5 DEF kept
  <1>4. CASE ~(k <= Len(entries))
    BY <1>4 DEF KeptAt
  <1>5. QED
    BY <1>3, <1>4

\* One iteration.
LEMMA MergeIteration ==
    ASSUME NEW lg, WellFormed(lg), NEW prev \in Nat, prev <= getLastIndex(lg),
           NEW entries, Consecutive(prev, entries),
           NEW k \in 1 .. Len(entries) + 1, IsFirstConflict(lg, prev, entries, k),
           NEW j \in 1 .. Len(entries)
    PROVE  MergeEntry(LogAfter(lg, prev, entries, k, j - 1), prev + j, entries[j])
              = LogAfter(lg, prev, entries, k, j)
  <1> DEFINE kept == KeptAt(lg, prev, entries, k)
             last == getLastIndex(kept)
             old  == LogAfter(lg, prev, entries, k, j - 1)
             e    == entries[j]
             conflict == prev + j <= getLastIndex(old) /\ getTerm(old, prev + j) # e.term
             cut  == IF conflict THEN truncate(old, prev + j) ELSE old
             next == Extended(kept, prev, entries, j)
  <1>0. MergeEntry(old, prev + j, e)
          = IF prev + j > getLastIndex(cut) THEN append(cut, e) ELSE cut
    BY DEF MergeEntry
  <1>1. /\ Len(entries) \in Nat /\ k \in Nat \ {0} /\ j \in Nat \ {0} /\ j <= Len(entries)
        /\ j - 1 \in 0 .. Len(entries) /\ j \in 0 .. Len(entries)
    BY DEF Consecutive
  <1>2. /\ WellFormed(kept) /\ prev <= last
        /\ k <= Len(entries) /\ j > k => truncate(kept, prev + j) = kept
    BY <1>1, KeptParts
  <1>3. last \in Nat /\ getLastIndex(lg) \in Nat
    BY <1>2, LogLast
  <1>4. /\ WellFormed(next)
        /\ prev + j <= last => next = kept
        /\ prev + j > last => next = append(Extended(kept, prev, entries, j - 1), e)
    BY <1>1, <1>2, ExtendedParts
  <1>5. /\ prev + (j - 1) <= last => Extended(kept, prev, entries, j - 1) = kept
        /\ prev + (j - 1) >= last =>
              getLastIndex(Extended(kept, prev, entries, j - 1)) = prev + (j - 1)
    BY <1>1, <1>2, ExtendedParts
  <1> HIDE DEF kept, last, next, old, conflict, cut, e
  \* Before the first conflict.
  <1>6. CASE j < k /\ k <= Len(entries)
    <2>1. old = lg /\ LogAfter(lg, prev, entries, k, j) = lg
      BY <1>1, <1>6 DEF old, LogAfter
    <2>2. ~Conflicts(lg, prev, entries, j)
      BY <1>1, <1>6 DEF IsFirstConflict
    <2>3. cut = lg
      BY <2>1, <2>2 DEF Conflicts, cut, conflict, e
    <2>4. prev + j <= getLastIndex(lg)
      <3>1. prev + k <= getLastIndex(lg)
        BY <1>1, <1>6 DEF IsFirstConflict, Conflicts
      <3>2. QED
        BY <1>1, <1>3, <1>6, <3>1
    <2>5. QED
      BY <1>0, <1>1, <1>3, <2>1, <2>3, <2>4 DEF old, e
  \* At the first conflict.
  <1>7. CASE j = k
    <2>1. old = lg /\ LogAfter(lg, prev, entries, k, j) = next
      BY <1>1, <1>7 DEF old, LogAfter, next, kept
    <2>2. conflict
      BY <1>1, <1>7, <2>1 DEF IsFirstConflict, Conflicts, conflict, e
    <2>3. cut = kept
      BY <1>1, <1>7, <2>1, <2>2 DEF cut, kept, KeptAt
    <2>4. CASE prev + j <= last
      BY <1>0, <1>1, <1>3, <1>4, <2>1, <2>3, <2>4 DEF last, old, e
    <2>5. CASE prev + j > last
      <3>1. prev + (j - 1) = last
        <4>1. last \in {getLastIndex(lg), prev + j - 1 + lg.snapshotIndex}
              /\ getLastIndex(lg) >= prev + j
          <5>1. last = IF prev + k >= Size(lg) THEN getLastIndex(lg)
                       ELSE lg.snapshotIndex + (prev + k) - 1
            <6>1. kept = truncate(lg, prev + k) /\ prev + k \in Nat \ {0}
              BY <1>1, <1>7 DEF kept, KeptAt
            <6>2. QED
              BY <6>1, TruncateWellFormed DEF last
          <5>2. prev + j <= getLastIndex(lg)
            BY <2>1, <2>2 DEF conflict
          <5>3. lg.snapshotIndex \in Nat
            BY LogParts DEF Parts
          <5>4. QED
            BY <1>1, <1>3, <1>7, <5>1, <5>2, <5>3
        <4>2. lg.snapshotIndex \in Nat
          BY LogParts DEF Parts
        <4>3. QED
          BY <1>1, <1>3, <2>5, <4>1, <4>2
      <3>2. Extended(kept, prev, entries, j - 1) = kept
        BY <1>3, <1>5, <3>1
      <3>3. QED
        BY <1>0, <1>1, <1>3, <1>4, <2>1, <2>3, <2>5, <3>2 DEF last, old, e
    <2>6. QED
      BY <1>1, <1>3, <2>4, <2>5
  \* After it, or when there is none.
  <1>8. CASE j > k \/ ~(k <= Len(entries))
    <2>1. old = Extended(kept, prev, entries, j - 1) /\ LogAfter(lg, prev, entries, k, j) = next
      BY <1>1, <1>8 DEF old, LogAfter, next, kept
    <2>2. CASE prev + j <= last
      <3>1. old = kept /\ next = kept
        BY <1>1, <1>3, <1>4, <1>5, <2>1, <2>2
      <3>2. cut = kept
        <4>1. CASE k <= Len(entries)
          BY <1>2, <1>8, <3>1, <4>1 DEF cut
        <4>2. CASE ~(k <= Len(entries))
          <5>1. kept = lg
            BY <4>2 DEF kept, KeptAt
          <5>2. ~Conflicts(lg, prev, entries, j)
            BY <1>1, <4>2 DEF IsFirstConflict
          <5>3. QED
            BY <3>1, <5>1, <5>2 DEF Conflicts, cut, conflict, e
        <4>3. QED
          BY <4>1, <4>2
      <3>3. QED
        BY <1>0, <1>1, <1>3, <2>1, <2>2, <3>1, <3>2 DEF last, old, e
    <2>3. CASE prev + j > last
      <3>1. getLastIndex(old) = prev + (j - 1)
        BY <1>1, <1>3, <1>5, <2>1, <2>3
      <3>2. cut = old
        BY <1>1, <3>1 DEF cut, conflict
      <3>3. QED
        BY <1>0, <1>1, <1>4, <2>1, <2>3, <3>1, <3>2 DEF old, e
    <2>4. QED
      BY <1>1, <1>3, <2>2, <2>3
  <1>9. QED
    BY <1>1, <1>6, <1>7, <1>8

\* Some k is the first conflict.
LEMMA FirstConflictExists ==
    ASSUME NEW lg, NEW prev \in Nat, NEW entries, Consecutive(prev, entries)
    PROVE  \E k \in 1 .. Len(entries) + 1 : IsFirstConflict(lg, prev, entries, k)
  <1> DEFINE C == {k \in 1 .. Len(entries) : Conflicts(lg, prev, entries, k)}
  <1>1. Len(entries) \in Nat
    BY DEF Consecutive
  <1>2. CASE C = {}
    <2>1. IsFirstConflict(lg, prev, entries, Len(entries) + 1)
      BY <1>1, <1>2 DEF IsFirstConflict
    <2>2. QED
      BY <1>1, <2>1
  <1>3. CASE C # {}
    <2>1. C \in SUBSET Nat
      OBVIOUS
    <2>2. PICK k \in C : \A y \in C : k <= y
      BY <1>3, <2>1, LeastOf
    <2>3. k \in 1 .. Len(entries) + 1 /\ Conflicts(lg, prev, entries, k)
      BY <1>1, <2>2
    <2>4. ASSUME NEW j \in 1 .. k - 1 PROVE ~Conflicts(lg, prev, entries, j)
      BY <1>1, <2>2
    <2>5. IsFirstConflict(lg, prev, entries, k)
      BY <2>3, <2>4 DEF IsFirstConflict
    <2>6. QED
      BY <2>3, <2>5
  <1>4. QED
    BY <1>2, <1>3

\* append adds its entry to the entries of any log, and nothing else.
LEMMA AppendAddsOne ==
    ASSUME NEW lg \in Log, NEW e \in Entry
    PROVE  \A f \in EntrySet(append(lg, e)) : f \in EntrySet(lg) \/ f = e
  <1> DEFINE new == append(lg, e)
  <1>1. lg.Entries \in Seq(Entry) /\ new.Entries = Append(lg.Entries, e)
    BY DEF append, Log
  <1>2. /\ Size(new) = Size(lg) + 1 /\ Size(lg) \in Nat
        /\ new.Entries[Size(lg) + 1] = e
        /\ \A m \in 1 .. Size(lg) : new.Entries[m] = lg.Entries[m]
    BY <1>1 DEF Size
  <1> HIDE DEF new
  <1>3. ASSUME NEW m \in 2 .. Size(new)
        PROVE  m = Size(lg) + 1 \/ (m \in 1 .. Size(lg) /\ m \in 2 .. Size(lg))
    BY <1>2
  <1>4. ASSUME NEW m \in 2 .. Size(new)
        PROVE  new.Entries[m] \in EntrySet(lg) \/ new.Entries[m] = e
    BY <1>2, <1>3 DEF EntrySet
  <1>5. QED
    BY <1>4 DEF EntrySet, new

\* truncate adds nothing to the entries of any log.
LEMMA TruncateRemoves ==
    ASSUME NEW lg \in Log, NEW i \in Nat \ {0}
    PROVE  EntrySet(truncate(lg, i)) \subseteq EntrySet(lg) /\ truncate(lg, i) \in Log
  <1>1. CASE i >= Size(lg)
    BY <1>1 DEF truncate
  <1>2. CASE ~(i >= Size(lg))
    <2> DEFINE es  == SubSeq(lg.Entries, 1, i)
               cut == truncate(lg, i)
    <2>1. /\ lg.Entries \in Seq(Entry) /\ Len(lg.Entries) = Size(lg) /\ Size(lg) \in Nat
          /\ i \in 0 .. Len(lg.Entries)
      BY <1>2 DEF Log, Size
    <2>2. es \in Seq(Entry) /\ Len(es) = i /\ \A m \in 1 .. i : es[m] = lg.Entries[m]
      BY <2>1, SubSeqUpTo
    <2>3. cut = [lg EXCEPT !.Entries = es]
      BY <1>2 DEF truncate
    <2> HIDE DEF es, cut
    <2>4. cut.Entries = es /\ cut \in Log
      BY <2>2, <2>3 DEF Log
    <2>5. ASSUME NEW m \in 2 .. i PROVE m \in 1 .. i /\ m \in 2 .. Size(lg)
      BY <1>2, <2>1
    <2>6. QED
      BY <2>2, <2>4, <2>5 DEF EntrySet, Size, cut
  <1>3. QED
    BY <1>1, <1>2

\* Compaction makes no entry: what it keeps is above the sentinel.
LEMMA DiscardRemoves ==
    ASSUME NEW lg, WellFormed(lg), NEW i \in Nat, NEW t \in Nat
    PROVE  EntrySet(discardEntriesUpTo(lg, i, t)) \subseteq EntrySet(lg)
  <1> DEFINE new == discardEntriesUpTo(lg, i, t)
             m   == i - lg.snapshotIndex + 1
  <1>1. Parts(lg)
    BY LogParts
  <1>2. CASE i <= lg.snapshotIndex
    BY <1>2 DEF discardEntriesUpTo
  <1>3. CASE i > lg.snapshotIndex /\ i - lg.snapshotIndex >= Size(lg)
    <2>1. new.Entries = <<Sentinel(i, t)>>
      BY <1>1, <1>3 DEF discardEntriesUpTo, Parts
    <2>2. QED
      BY <2>1 DEF EntrySet, Size
  <1>4. CASE i > lg.snapshotIndex /\ ~(i - lg.snapshotIndex >= Size(lg))
    <2>1. /\ lg.Entries \in Seq(Entry) /\ Len(lg.Entries) = Size(lg) /\ Size(lg) \in Nat
          /\ m \in Nat \ {0, 1}
      BY <1>1, <1>4 DEF Parts
    <2>2. new.Entries = SubSeq(lg.Entries, m, Len(lg.Entries))
      <3>1. ~(i <= lg.snapshotIndex) /\ ~(i - lg.snapshotIndex >= Size(lg))
        BY <1>1, <1>4 DEF Parts
      <3>2. new = [Entries |-> SubSeq(lg.Entries, i - lg.snapshotIndex + 1, Size(lg)),
                   snapshotIndex |-> i, snapshotTerm |-> t]
        BY <3>1 DEF discardEntriesUpTo
      <3> HIDE DEF new
      <3>3. QED
        BY <2>1, <3>2
    <2> HIDE DEF new, m
    <2>3. \A k \in 1 .. Len(new.Entries) : /\ k + m - 1 \in 1 .. Len(lg.Entries)
                                           /\ new.Entries[k] = lg.Entries[k + m - 1]
      BY <2>1, <2>2, SubSeqFrom
    <2>4. ASSUME NEW k \in 2 .. Len(new.Entries) PROVE new.Entries[k] \in EntrySet(lg)
      <3>0. k \in Int /\ k >= 2 /\ k <= Len(new.Entries)
        OBVIOUS
      <3>1. k \in 1 .. Len(new.Entries)
        BY <3>0
      <3>2. k + m - 1 \in 1 .. Len(lg.Entries) /\ new.Entries[k] = lg.Entries[k + m - 1]
        BY <2>3, <3>1
      <3>3. k + m - 1 \in 2 .. Size(lg)
        BY <2>1, <3>0, <3>2
      <3>4. QED
        BY <3>2, <3>3 DEF EntrySet
    <2>5. QED
      BY <2>4 DEF EntrySet, Size, new
  <1>5. QED
    BY <1>1, <1>2, <1>3, <1>4 DEF Parts

\* One iteration turns a log into a log, also where append would throw.
LEMMA MergeEntryLog ==
    ASSUME NEW lg \in Log, NEW i \in Nat \ {0}, NEW e \in Entry
    PROVE  MergeEntry(lg, i, e) \in Log
  <1>1. truncate(lg, i) \in Log
    BY TruncateRemoves
  <1>2. \A x \in Log : append(x, e) \in Log
    <2>1. ASSUME NEW x \in Log PROVE append(x, e) \in Log
      <3>1. x.Entries \in Seq(Entry)
        BY DEF Log
      <3>2. Append(x.Entries, e) \in Seq(Entry)
        BY <3>1
      <3>3. QED
        BY <3>2 DEF append, Log
    <2>2. QED
      BY <2>1
  <1>3. QED
    BY <1>1, <1>2 DEF MergeEntry

\* The loop as a function over its iterations.
LEMMA MergeLoopIterates ==
    ASSUME NEW lg \in Log, NEW prev \in Nat, NEW entries, Consecutive(prev, entries)
    PROVE  \E d : /\ d[0] = lg
                  /\ \A k \in 1 .. Len(entries) :
                        d[k] = MergeEntry(d[k - 1], prev + k, entries[k])
                  /\ MergeLoop(lg, prev, entries) = d[Len(entries)]
  <1> DEFINE K == Len(entries)
             d == CHOOSE d : d = [k \in 0 .. K |->
                                    IF k = 0 THEN lg
                                    ELSE MergeEntry(d[k - 1], prev + k, entries[k])]
             step == [k \in 1 .. K |-> [x \in Log |-> MergeEntry(x, prev + k, entries[k])]]
  <1>1. MergeLoop(lg, prev, entries) = d[K]
    BY DEF MergeLoop
  <1>2. K \in Nat /\ step \in [1 .. K -> [Log -> Log]]
    <2>1. K \in Nat /\ \A k \in 1 .. K : entries[k] \in Entry /\ prev + k \in Nat \ {0}
      BY DEF Consecutive
    <2>2. \A k \in 1 .. K : \A x \in Log : MergeEntry(x, prev + k, entries[k]) \in Log
      BY <2>1, MergeEntryLog
    <2> HIDE DEF K
    <2>3. QED
      BY <2>1, <2>2
  <1>3. PICK g : Iterates(g, Log, lg, K, step)
    <2> HIDE DEF step, K
    <2>1. QED
      BY <1>2, RecursionExists
  <1> HIDE DEF K
  <1>4. g \in [0 .. K -> Log] /\ g[0] = lg /\ \A k \in 1 .. K : g[k] = step[k][g[k - 1]]
    BY <1>3 DEF Iterates
  <1>5. \E h : h = [k \in 0 .. K |-> IF k = 0 THEN lg
                                     ELSE MergeEntry(h[k - 1], prev + k, entries[k])]
    <2>1. ASSUME NEW k \in 1 .. K PROVE g[k] = MergeEntry(g[k - 1], prev + k, entries[k])
      <3>1. g[k - 1] \in Log
        BY <1>2, <1>4
      <3>2. QED
        BY <1>4, <3>1
    <2> HIDE DEF step
    <2>2. ASSUME NEW k \in 0 .. K
          PROVE  g[k] = IF k = 0 THEN lg ELSE MergeEntry(g[k - 1], prev + k, entries[k])
      <3>1. k = 0 \/ k \in 1 .. K
        BY <1>2
      <3>2. QED
        BY <1>4, <2>1, <3>1
    <2>3. g = [k \in 0 .. K |-> g[k]]
      BY <1>4
    <2>4. g = [k \in 0 .. K |-> IF k = 0 THEN lg
                                ELSE MergeEntry(g[k - 1], prev + k, entries[k])]
      BY <2>2, <2>3
    <2>5. QED
      BY <2>4
  <1>6. d = [k \in 0 .. K |-> IF k = 0 THEN lg ELSE MergeEntry(d[k - 1], prev + k, entries[k])]
    BY <1>5
  <1> HIDE DEF d
  <1>7. 0 \in 0 .. K /\ \A k \in 1 .. K : k \in 0 .. K /\ k # 0
    BY <1>2
  <1>8. d[0] = lg /\ \A k \in 1 .. K : d[k] = MergeEntry(d[k - 1], prev + k, entries[k])
    BY <1>6, <1>7, Zenon
  <1>9. QED
    BY <1>1, <1>8 DEF K

\* The loop computes RaftLog!Merge at the first conflict.
LEMMA MergeLoopIsMerge ==
    ASSUME NEW lg, WellFormed(lg), NEW prev \in Nat, prev <= getLastIndex(lg),
           NEW entries, Consecutive(prev, entries),
           NEW k \in 1 .. Len(entries) + 1, IsFirstConflict(lg, prev, entries, k)
    PROVE  MergeLoop(lg, prev, entries) = Merge(lg, prev, entries, k)
  <1> DEFINE K == Len(entries)
             After(j) == LogAfter(lg, prev, entries, k, j)
  <1>1. K \in Nat /\ k \in Nat \ {0} /\ k <= K + 1 /\ lg \in Log
    BY DEF Consecutive, WellFormed
  <1>2. PICK d : /\ d[0] = lg
                 /\ \A j \in 1 .. K : d[j] = MergeEntry(d[j - 1], prev + j, entries[j])
                 /\ MergeLoop(lg, prev, entries) = d[K]
    BY <1>1, MergeLoopIterates
  <1>3. After(0) = lg
    <2>1. CASE k <= K
      BY <1>1, <2>1 DEF LogAfter
    <2>2. CASE ~(k <= K)
      <3>1. KeptAt(lg, prev, entries, k) = lg
        BY <2>2 DEF KeptAt
      <3>2. 0 \in 0 .. Len(entries) /\ prev + 0 <= getLastIndex(lg)
        BY <1>1
      <3>3. Extended(lg, prev, entries, 0) = lg
        BY <3>2, ExtendedParts
      <3>4. QED
        BY <2>2, <3>1, <3>3 DEF LogAfter
    <2>3. QED
      BY <2>1, <2>2
  <1>4. \A j \in 1 .. K : MergeEntry(After(j - 1), prev + j, entries[j]) = After(j)
    BY MergeIteration
  <1> HIDE DEF After
  <1> DEFINE T == {j \in 0 .. K : d[j] = After(j)}
  <1>5. \A j \in 0 .. K : j \in T
    <2>1. 0 \in T
      BY <1>1, <1>2, <1>3
    <2>2. ASSUME NEW j \in 1 .. K, j - 1 \in T PROVE j \in T
      <3>1. d[j] = MergeEntry(d[j - 1], prev + j, entries[j]) /\ d[j - 1] = After(j - 1)
        BY <1>2, <2>2
      <3>2. d[j] = After(j)
        BY <1>4, <3>1
      <3>3. QED
        BY <1>1, <3>2
    <2> HIDE DEF T, K
    <2>3. QED
      BY <1>1, <2>1, <2>2, UpTo
  <1>6. d[K] = After(K)
    BY <1>1, <1>5
  <1>7. After(K) = Extended(KeptAt(lg, prev, entries, k), prev, entries, K)
    BY <1>1 DEF After, LogAfter
  <1>8. Merge(lg, prev, entries, k) = Extended(KeptAt(lg, prev, entries, k), prev, entries, K)
    BY DEF Merge, Extended, KeptAt
  <1>9. QED
    BY <1>2, <1>6, <1>7, <1>8

\* What the loop keeps: it adds nothing but entries of the request.
LEMMA MergeLoopEntries ==
    ASSUME NEW lg, WellFormed(lg), NEW prev \in Nat, prev <= getLastIndex(lg),
           NEW entries, Consecutive(prev, entries)
    PROVE  \A e \in EntrySet(MergeLoop(lg, prev, entries)) :
              e \in EntrySet(lg) \/ \E j \in 1 .. Len(entries) : e = entries[j]
  <1> DEFINE K == Len(entries)
             Old(x) == \A e \in EntrySet(x) :
                          e \in EntrySet(lg) \/ \E j \in 1 .. K : e = entries[j]
  <1>1. K \in Nat /\ lg \in Log /\ \A j \in 1 .. K : entries[j] \in Entry /\ prev + j \in Nat \ {0}
    BY DEF Consecutive, WellFormed
  <1>2. PICK d : /\ d[0] = lg
                 /\ \A j \in 1 .. K : d[j] = MergeEntry(d[j - 1], prev + j, entries[j])
                 /\ MergeLoop(lg, prev, entries) = d[K]
    BY <1>1, MergeLoopIterates
  <1>3. ASSUME NEW x \in Log, Old(x), NEW j \in 1 .. K
        PROVE  LET next == MergeEntry(x, prev + j, entries[j]) IN next \in Log /\ Old(next)
    <2> DEFINE i == prev + j
               cut == truncate(x, i)
    <2>1. MergeEntry(x, i, entries[j]) \in Log
      BY <1>1, MergeEntryLog
    <2>2. EntrySet(cut) \subseteq EntrySet(x) /\ cut \in Log
      BY <1>1, TruncateRemoves
    <2>3. ASSUME NEW y \in Log, EntrySet(y) \subseteq EntrySet(x)
          PROVE  Old(append(y, entries[j]))
      <3>1. \A f \in EntrySet(append(y, entries[j])) : f \in EntrySet(y) \/ f = entries[j]
        BY <1>1, AppendAddsOne
      <3>2. QED
        BY <1>3, <2>3, <3>1
    <2>4. MergeEntry(x, i, entries[j]) \in {x, cut, append(x, entries[j]), append(cut, entries[j])}
      BY DEF MergeEntry
    <2>5. Old(x) /\ Old(cut) /\ Old(append(x, entries[j])) /\ Old(append(cut, entries[j]))
      <3>1. Old(cut)
        BY <1>3, <2>2
      <3>2. cut \in Log
        BY <2>2
      <3> HIDE DEF cut, Old
      <3>3. QED
        BY <1>3, <2>2, <2>3, <3>1, <3>2
    <2> HIDE DEF cut, Old
    <2>6. QED
      BY <2>1, <2>4, <2>5
  <1> DEFINE T == {j \in 0 .. K : d[j] \in Log /\ Old(d[j])}
  <1>4. \A j \in 0 .. K : j \in T
    <2>1. 0 \in T
      BY <1>1, <1>2
    <2>2. ASSUME NEW j \in 1 .. K, j - 1 \in T PROVE j \in T
      <3> HIDE DEF Old
      <3>1. d[j] = MergeEntry(d[j - 1], prev + j, entries[j]) /\ d[j - 1] \in Log /\ Old(d[j - 1])
        BY <1>2, <2>2
      <3>2. d[j] \in Log /\ Old(d[j])
        BY <1>3, <3>1
      <3>3. QED
        BY <1>1, <3>2
    <2> HIDE DEF T, K
    <2>3. QED
      BY <1>1, <2>1, <2>2, UpTo
  <1>5. QED
    BY <1>1, <1>2, <1>4

----------------------------------------------------------------------------
(***************************************************************************)
(* The log of RaftLogLoops.                                                *)
(***************************************************************************)

\* The inductive invariant: the log is well formed, what a leader of a term
\* proposes is what every entry of the term holds, and a log that was never
\* compacted starts with the constructor's sentinel.
ProposedOnly(lg) ==
    \A e \in EntrySet(lg) : e.term \in Terms /\ e.command = Proposed[e.term]

Start(lg) == lg.snapshotIndex = 0 => FromTheStart(lg)

LogInv == WellFormed(log) /\ ProposedOnly(log) /\ Start(log)

\* A log whose sentinel and whose base are those of another is as old.
LEMMA SameStart ==
    ASSUME NEW lg, Start(lg), NEW new, WellFormed(new),
           new.snapshotIndex = lg.snapshotIndex, new.snapshotTerm = lg.snapshotTerm,
           new.Entries[1] = lg.Entries[1]
    PROVE  Start(new)
  BY DEF Start, FromTheStart

LEMMA AppendKeepsStart ==
    ASSUME NEW lg \in Log, Size(lg) > 0, NEW e \in Entry
    PROVE  LET new == append(lg, e)
           IN  /\ new.snapshotIndex = lg.snapshotIndex /\ new.snapshotTerm = lg.snapshotTerm
               /\ new.Entries[1] = lg.Entries[1]
  <1> DEFINE es == lg.Entries
             all == Append(es, e)
  <1>1. es \in Seq(Entry) /\ Len(es) > 0
    BY DEF Log, Size
  <1>2. append(lg, e).Entries = all /\ append(lg, e).snapshotIndex = lg.snapshotIndex
        /\ append(lg, e).snapshotTerm = lg.snapshotTerm
    BY DEF append, Log
  <1> HIDE DEF es
  <1>3. all[1] = es[1]
    BY <1>1
  <1> HIDE DEF all
  <1>4. QED
    BY <1>2, <1>3 DEF es

LEMMA MergeKeepsStart ==
    ASSUME NEW lg, WellFormed(lg), NEW prev \in Nat, prev <= getLastIndex(lg),
           NEW entries, Consecutive(prev, entries), NEW k \in 1 .. Len(entries) + 1
    PROVE  LET new == Merge(lg, prev, entries, k)
           IN  /\ new.snapshotIndex = lg.snapshotIndex /\ new.snapshotTerm = lg.snapshotTerm
               /\ new.Entries[1] = lg.Entries[1]
  <1> DEFINE kept == KeptAt(lg, prev, entries, k)
             from == getLastIndex(kept) - prev + 1
             rest == SubSeq(entries, from, Len(entries))
             new  == Merge(lg, prev, entries, k)
             es   == kept.Entries
  <1>1. lg \in Log /\ Size(lg) > 0 /\ lg.Entries \in Seq(Entry) /\ Len(lg.Entries) = Size(lg)
    BY DEF WellFormed, Log, Size
  <1>0. entries \in Seq(Entry) /\ WellFormed(kept) /\ prev <= getLastIndex(kept)
    BY KeptParts DEF Consecutive
  <1>2. /\ kept \in Log /\ kept.snapshotIndex = lg.snapshotIndex
        /\ kept.snapshotTerm = lg.snapshotTerm
        /\ es \in Seq(Entry) /\ Len(es) > 0 /\ es[1] = lg.Entries[1]
    <2>1. CASE kept = lg
      BY <1>1, <2>1
    <2>2. CASE kept # lg
      <3> DEFINE i == prev + k
                 part == SubSeq(lg.Entries, 1, i)
      <3>1. kept = [lg EXCEPT !.Entries = part] /\ ~(i >= Size(lg))
        BY <2>2 DEF truncate, KeptAt
      <3>2. i \in 0 .. Len(lg.Entries) /\ i > 0
        BY <1>0, <1>1, <3>1
      <3> HIDE DEF i, kept
      <3>3. part \in Seq(Entry) /\ Len(part) = i /\ part[1] = lg.Entries[1]
        <4>1. part \in Seq(Entry) /\ Len(part) = i /\ \A m \in 1 .. i : part[m] = lg.Entries[m]
          BY <1>1, <3>2, SubSeqUpTo
        <4>2. 1 \in 1 .. i
          BY <3>2
        <4>3. QED
          BY <4>1, <4>2
      <3> HIDE DEF part
      <3>4. QED
        BY <1>1, <3>1, <3>2, <3>3 DEF Log
    <2>3. QED
      BY <2>1, <2>2
  <1>3. /\ new.Entries = es \o rest /\ new.snapshotIndex = kept.snapshotIndex
        /\ new.snapshotTerm = kept.snapshotTerm
    <2>1. new = [kept EXCEPT !.Entries = @ \o rest]
      BY DEF Merge, KeptAt
    <2> HIDE DEF kept, new, rest
    <2>2. QED
      BY <1>2, <2>1 DEF Log
  <1> HIDE DEF new, kept, es
  <1>4. rest \in Seq(Entry)
    <2>1. from \in Nat \ {0}
      BY <1>0, LogLast
    <2> HIDE DEF from
    <2>2. QED
      BY <1>0, <2>1, SubSeqFrom
  <1> HIDE DEF rest
  <1>5. (es \o rest)[1] = es[1]
    BY <1>2, <1>4
  <1>6. QED
    BY <1>2, <1>3, <1>5 DEF new

\* The requests are what handleAppendEntries gets.
LEMMA RequestParts ==
    ASSUME NEW prev \in Nat, NEW entries \in Requests(prev)
    PROVE  /\ Consecutive(prev, entries)
           /\ \A j \in 1 .. Len(entries) : /\ entries[j].term \in Terms
                                           /\ entries[j].command = Proposed[entries[j].term]
  <1>1. PICK len \in 0 .. MaxIndex - prev, f \in [1 .. MaxIndex -> Terms] :
            entries = [k \in 1 .. len |->
                        [index |-> prev + k, term |-> f[k], command |-> Proposed[f[k]]]]
    BY DEF Requests
  <1>2. MaxIndex \in Nat /\ MaxTerm \in Nat /\ Proposed \in [1 .. MaxTerm -> Command]
    BY BoundAssumption
  <1>3. len \in Nat /\ \A k \in 1 .. len : k \in 1 .. MaxIndex
    BY <1>2
  <1>4. ASSUME NEW k \in 1 .. len
        PROVE  /\ entries[k] = [index |-> prev + k, term |-> f[k], command |-> Proposed[f[k]]]
               /\ entries[k] \in Entry /\ f[k] \in Terms
    <2>1. k \in 1 .. MaxIndex
      BY <1>3
    <2>2. f[k] \in Terms /\ f[k] \in Nat /\ Proposed[f[k]] \in Command
      BY <1>2, <2>1 DEF Terms
    <2>3. entries[k] = [index |-> prev + k, term |-> f[k], command |-> Proposed[f[k]]]
      BY <1>1
    <2>4. QED
      BY <2>2, <2>3 DEF Entry, Payload
  <1>5. entries \in Seq(Entry) /\ Len(entries) = len
    BY <1>1, <1>3, <1>4
  <1>6. ASSUME NEW j \in 1 .. Len(entries)
        PROVE  /\ entries[j].index = prev + j
               /\ entries[j].term \in Terms /\ entries[j].command = Proposed[entries[j].term]
    BY <1>4, <1>5
  <1>7. QED
    BY <1>5, <1>6 DEF Consecutive

LEMMA LogInvInit == Init => LogInv
  <1>1. EntrySet(EmptyLog) = {}
    BY DEF EntrySet, EmptyLog, Size
  <1>2. Start(EmptyLog)
    BY EmptyLogWellFormed DEF Start, FromTheStart, EmptyLog
  <1>3. QED
    BY <1>1, <1>2, EmptyLogWellFormed DEF Init, LogInv, ProposedOnly

LEMMA LogInvNext ==
    ASSUME LogInv, [Next]_log
    PROVE  LogInv'
  <1>0. MaxIndex \in Nat /\ MaxTerm \in Nat /\ Proposed \in [1 .. MaxTerm -> Command]
    BY BoundAssumption
  <1>1. WellFormed(log) /\ ProposedOnly(log) /\ Start(log)
    BY DEF LogInv
  <1>2. SUFFICES WellFormed(log') /\ ProposedOnly(log') /\ Start(log')
    BY DEF LogInv
  <1>3. ASSUME NEW term \in Terms, LeaderAppends(term)
        PROVE  WellFormed(log') /\ ProposedOnly(log') /\ Start(log')
    <2> DEFINE e == [index |-> getLastIndex(log) + 1, term |-> term, command |-> Proposed[term]]
    <2>1. e \in Entry /\ CanAppend(log, e) /\ e.term \in Terms /\ e.command = Proposed[e.term]
      BY <1>0, <1>1, LogLast DEF Terms, Entry, Payload, CanAppend
    <2>2. log' = append(log, e)
      BY <1>3 DEF LeaderAppends
    <2> HIDE DEF e
    <2>3. WellFormed(append(log, e))
      BY <1>1, <2>1, AppendWellFormed
    <2>4. \A f \in EntrySet(append(log, e)) : f \in EntrySet(log) \/ f = e
      BY <1>1, <2>1, AppendAddsOne DEF WellFormed
    <2>5. Start(append(log, e))
      <3>1. log \in Log /\ Size(log) > 0
        BY <1>1 DEF WellFormed
      <3>2. QED
        BY <1>1, <2>1, <2>3, <3>1, AppendKeepsStart, SameStart
    <2>6. QED
      BY <1>1, <2>1, <2>2, <2>3, <2>4, <2>5 DEF ProposedOnly
  <1>4. ASSUME NEW prev \in 0 .. MaxIndex, NEW entries \in Requests(prev),
               FollowerMerges(prev, entries)
        PROVE  WellFormed(log') /\ ProposedOnly(log') /\ Start(log')
    <2>1. prev \in Nat /\ prev <= getLastIndex(log) /\ log' = MergeLoop(log, prev, entries)
      BY <1>4 DEF FollowerMerges
    <2>2. /\ Consecutive(prev, entries)
          /\ \A j \in 1 .. Len(entries) : /\ entries[j].term \in Terms
                                          /\ entries[j].command = Proposed[entries[j].term]
      BY <2>1, RequestParts
    <2>3. WellFormed(log') /\ Start(log')
      <3>1. PICK k \in 1 .. Len(entries) + 1 : IsFirstConflict(log, prev, entries, k)
        BY <2>1, <2>2, FirstConflictExists
      <3>2. log' = Merge(log, prev, entries, k)
        BY <1>1, <2>1, <2>2, <3>1, MergeLoopIsMerge
      <3>3. WellFormed(log')
        BY <1>1, <2>1, <2>2, <3>1, <3>2, MergeWellFormed DEF Consecutive
      <3>4. /\ log'.snapshotIndex = log.snapshotIndex /\ log'.snapshotTerm = log.snapshotTerm
            /\ log'.Entries[1] = log.Entries[1]
        BY <1>1, <2>1, <2>2, <3>1, <3>2, MergeKeepsStart
      <3>5. QED
        BY <1>1, <3>3, <3>4, SameStart
    <2>4. \A e \in EntrySet(log') : e \in EntrySet(log) \/ \E j \in 1 .. Len(entries) : e = entries[j]
      BY <1>1, <2>1, <2>2, MergeLoopEntries
    <2>5. QED
      BY <1>1, <2>2, <2>3, <2>4 DEF ProposedOnly
  <1>5. ASSUME NEW index \in 1 .. MaxIndex, NEW term \in Terms, Discards(index, term)
        PROVE  WellFormed(log') /\ ProposedOnly(log') /\ Start(log')
    <2>1. index \in Nat /\ term \in Nat /\ log' = discardEntriesUpTo(log, index, term)
      BY <1>0, <1>5 DEF Discards, Terms
    <2>2. WellFormed(log') /\ EntrySet(log') \subseteq EntrySet(log)
      BY <1>1, <2>1, DiscardWellFormed, DiscardRemoves
    <2>3. Start(log')
      <3>1. CASE index <= log.snapshotIndex
        BY <1>1, <2>1, <3>1 DEF discardEntriesUpTo
      <3>2. CASE ~(index <= log.snapshotIndex)
        <4>1. log'.snapshotIndex = index /\ index # 0
          BY <2>1, <3>2 DEF discardEntriesUpTo
        <4>2. QED
          BY <4>1 DEF Start
      <3>3. QED
        BY <3>1, <3>2
    <2>4. QED
      BY <1>1, <2>2, <2>3 DEF ProposedOnly
  <1>6. CASE UNCHANGED log
    BY <1>1, <1>6
  <1>7. QED
    BY <1>3, <1>4, <1>5, <1>6 DEF Next

THEOREM LogInvHolds == Spec => []LogInv
  <1>1. LogInv /\ [Next]_log => LogInv'
    BY LogInvNext
  <1>2. QED
    BY <1>1, LogInvInit, PTL DEF Spec

\* The log is never empty, and every entry stands where getEntry looks for it:
\* neither handleClientRequest nor handleAppendEntries meets an append that throws.
THEOREM LogStaysWellFormed == Spec => []LogWellFormed
  <1>1. LogInv => LogWellFormed
    BY DEF LogInv, LogWellFormed
  <1>2. QED
    BY <1>1, LogInvHolds, PTL

\* The search for conflictIndex returns what RaftLog!IsConflictIndex says, on
\* every log.
THEOREM ConflictIndexLoopIsRight == Spec => []ConflictIndexLoopMatches
  <1>1. LogInv => ConflictIndexLoopMatches
    <2>1. SUFFICES ASSUME LogInv, NEW prev \in 1 .. getLastIndex(log), NEW k \in 1 .. prev
                   PROVE  IsConflictIndex(log, prev, k)
                             <=> k = ConflictIndexLoop(log, getTerm(log, prev), prev)
      BY DEF ConflictIndexLoopMatches
    <2>2. prev \in Nat \ {0}
      OBVIOUS
    <2>3. QED
      BY <2>2, ConflictIndexLoopFinds
  <1>2. QED
    BY <1>1, LogInvHolds, PTL

\* The loop over the new entries computes RaftLog!Merge, compacted or not.
THEOREM MergeLoopIsRight == Spec => []MergeLoopMatches
  <1>1. LogInv => MergeLoopMatches
    <2>1. SUFFICES ASSUME LogInv, NEW prev \in 0 .. getLastIndex(log),
                          NEW entries \in Requests(prev)
                   PROVE  \E k \in 1 .. Len(entries) + 1 :
                             /\ IsFirstConflict(log, prev, entries, k)
                             /\ MergeLoop(log, prev, entries) = Merge(log, prev, entries, k)
      BY DEF MergeLoopMatches
    <2>2. WellFormed(log) /\ getLastIndex(log) \in Nat
      BY <2>1, LogLast DEF LogInv
    <2>3. prev \in Nat /\ prev <= getLastIndex(log) /\ Consecutive(prev, entries)
      BY <2>2, RequestParts
    <2>4. PICK k \in 1 .. Len(entries) + 1 : IsFirstConflict(log, prev, entries, k)
      BY <2>3, FirstConflictExists
    <2>5. QED
      BY <2>2, <2>3, <2>4, MergeLoopIsMerge
  <1>2. QED
    BY <1>1, LogInvHolds, PTL

\* On a log that is not compacted a follower that accepted a request holds its
\* entries, each at its index.
THEOREM MergeStores == Spec => []MergeStoresTheEntries
  <1>1. LogInv => MergeStoresTheEntries
    <2>1. SUFFICES ASSUME LogInv, log.snapshotIndex = 0, NEW prev \in 0 .. getLastIndex(log),
                          NEW entries \in Requests(prev), NEW j \in 1 .. Len(entries)
                   PROVE  LET merged == MergeLoop(log, prev, entries)
                          IN  HasEntry(merged, prev + j) /\ getEntry(merged, prev + j) = entries[j]
      BY DEF MergeStoresTheEntries
    <2> DEFINE merged == MergeLoop(log, prev, entries)
    <2>2. Flat(log) /\ ProposedOnly(log) /\ WellFormed(log) /\ getLastIndex(log) \in Nat
      BY <2>1, LogLast DEF LogInv, Flat
    <2>3. prev \in Nat /\ prev <= getLastIndex(log)
      BY <2>2
    <2>4. /\ Consecutive(prev, entries) /\ entries[j].index = prev + j /\ j \in Nat \ {0}
          /\ entries[j].term \in Terms /\ entries[j].command = Proposed[entries[j].term]
          /\ entries[j] \in Entry
      BY <2>3, RequestParts DEF Consecutive
    <2>5. PICK k \in 1 .. Len(entries) + 1 : IsFirstConflict(log, prev, entries, k)
      BY <2>3, <2>4, FirstConflictExists
    <2> DEFINE last == MergeKeepsTo(log, prev, entries, k)
    <2>6. MergedTo(log, prev, entries, k, merged, last)
      <3>1. merged = Merge(log, prev, entries, k)
        BY <2>2, <2>3, <2>4, <2>5, MergeLoopIsMerge
      <3>2. MergedTo(log, prev, entries, k, Merge(log, prev, entries, k), last)
        BY <2>2, <2>3, <2>4, <2>5, FlatMerge DEF Consecutive
      <3>3. QED
        BY <3>1, <3>2
    <2> HIDE DEF merged, last
    <2>7. Flat(merged) /\ last \in Nat /\ last <= getLastIndex(log)
      BY <2>6 DEF MergedTo
    <2>8. entries[j] \in EntrySet(merged)
      <3>1. CASE prev + j > last
        BY <2>6, <3>1 DEF MergedTo
      <3>2. CASE prev + j <= last
        <4>1. getTerm(log, prev + j) = entries[j].term
          BY <2>6, <3>2 DEF MergedTo
        <4>2. prev + j \in 1 .. getLastIndex(log)
          BY <2>2, <2>3, <2>4, <2>7, <3>2
        <4>3. PICK e \in EntrySet(log) : e.index = prev + j
          BY <2>2, <4>2, FlatEntries
        <4>4. getTerm(log, e.index) = e.term /\ e \in Entry
          BY <2>2, FlatEntries
        <4>5. e.command = Proposed[e.term]
          BY <2>2 DEF ProposedOnly
        <4>6. e = entries[j]
          BY <2>4, <4>1, <4>3, <4>4, <4>5 DEF Entry
        <4>7. QED
          BY <2>6, <3>2, <4>3, <4>6 DEF MergedTo
      <3>3. QED
        BY <2>3, <2>4, <2>7, <3>1, <3>2
    <2>9. HasEntry(merged, entries[j].index) /\ getEntry(merged, entries[j].index) = entries[j]
      BY <2>7, <2>8, LogEntrySet DEF Flat
    <2>10. QED
      BY <2>4, <2>9 DEF merged
  <1>2. QED
    BY <1>1, LogInvHolds, PTL

----------------------------------------------------------------------------
(***************************************************************************)
(* The state file of the log.                                              *)
(***************************************************************************)

\* The entries that are saved hold commands that clients send.
LEMMA SavedCommands ==
    ASSUME LogInv, NEW i \in DOMAIN Commands
    PROVE  Commands[i] \in WriteCommand \cup ReadCommand
  <1> DEFINE es == SavedEntries(log)
  <1>1. WellFormed(log) /\ ProposedOnly(log) /\ CommandsFit
        /\ Proposed \in [1 .. MaxTerm -> Command]
    BY CommandsAssumption, BoundAssumption DEF LogInv
  <1>2. Parts(log) /\ DOMAIN Commands = DOMAIN es /\ Commands[i] = es[i].command
    BY <1>1, LogParts DEF Commands
  <1>3. es = SubSeq(log.Entries, 2, Len(log.Entries))
    <2>1. Len(log.Entries) = Size(log) /\ (log.snapshotIndex + 1) - log.snapshotIndex + 1 = 2
      BY <1>2 DEF Parts
    <2>2. QED
      BY <2>1 DEF SavedEntries, EntriesFrom
  <1> HIDE DEF es
  <1>4. /\ es \in Seq(Entry)
        /\ \A k \in 1 .. Len(es) : k + 2 - 1 \in 1 .. Len(log.Entries)
                                    /\ es[k] = log.Entries[k + 2 - 1]
    BY <1>2, <1>3, SubSeqFrom DEF Parts
  <1>5. i \in 1 .. Len(es)
    BY <1>2, <1>4
  <1>6. es[i] \in EntrySet(log)
    <2>1. i + 2 - 1 \in 2 .. Size(log)
      BY <1>2, <1>4, <1>5 DEF Parts
    <2>2. QED
      BY <1>4, <1>5, <2>1 DEF EntrySet
  <1>7. es[i].command \in Command
    BY <1>1, <1>6 DEF ProposedOnly, Terms
  <1>8. QED
    BY <1>1, <1>2, <1>7 DEF CommandsFit

\* saveState and loadState agree: of a log that was never compacted every field of
\* every entry comes back, whatever the payloads hold.
THEOREM SavedLogsReadBack == Spec => []SavedLogReadsBack
  <1>1. LogInv => SavedLogReadsBack
    <2>1. SUFFICES ASSUME LogInv, log.snapshotIndex = 0
                   PROVE  CanLoad(File, EmptyLog) /\ LogRead(File, EmptyLog).log = log
      BY DEF SavedLogReadsBack
    <2>2. FromTheStart(log) /\ WellFormed(log) /\ CommandsFit /\ MaxTerm \in Nat
      BY <2>1, CommandsAssumption, BoundAssumption DEF LogInv, Start
    <2>3. FileHolds(File, MaxTerm, 1, log)
      BY <2>2, StateFileHolds DEF File
    <2>4. IsComplete(File) /\ LogRead(File, EmptyLog) = deserializeLog(serializeLog(log), EmptyLog)
      BY <2>3 DEF FileHolds
    <2>5. QED
      BY <2>2, <2>4, LogReadsBack DEF CanLoad
  <1>2. QED
    BY <1>1, LogInvHolds, PTL

\* loadState throws on every file that ends before saveState was done with it.
THEOREM TornFilesAreRefused == Spec => []TornFileIsRefused
  <1>1. LogInv => TornFileIsRefused
    <2>1. SUFFICES ASSUME LogInv, NEW k \in 0 .. Len(File) - 1
                   PROVE  ~CanLoad(SubSeq(File, 1, k), EmptyLog)
      BY DEF TornFileIsRefused
    <2>2. WellFormed(log) /\ CommandsFit /\ MaxTerm \in Nat /\ 1 \in Nat
      BY <2>1, CommandsAssumption, BoundAssumption DEF LogInv
    <2>3. ~IsComplete(SubSeq(File, 1, k))
      BY <2>2, TornFileEnds DEF File
    <2>4. QED
      BY <2>3 DEF CanLoad
  <1>2. QED
    BY <1>1, LogInvHolds, PTL

\* Command::deserialize takes the bytes of a command for a command, and throws on
\* each part of them that ends too early.
THEOREM TornCommandsAreRefused == Spec => []TornCommandIsRefused
  <1>1. LogInv => TornCommandIsRefused
    <2>1. SUFFICES ASSUME LogInv, NEW i \in DOMAIN Commands
                   PROVE  LET bytes == serialize(Commands[i])
                          IN  /\ CanDeserialize(bytes)
                              /\ \A k \in 0 .. Len(bytes) - 1 : ~CanDeserialize(SubSeq(bytes, 1, k))
      BY DEF TornCommandIsRefused
    <2> DEFINE c == Commands[i]
    <2>2. c \in WriteCommand \cup ReadCommand
      BY <2>1, SavedCommands
    <2> HIDE DEF c
    <2>3. CanDeserialize(serialize(c))
      BY <2>2, CommandReadsBack
    <2>4. \A k \in 0 .. Len(serialize(c)) - 1 : ~CanDeserialize(SubSeq(serialize(c), 1, k))
      BY <2>2, TornCommandThrows
    <2>5. QED
      BY <2>3, <2>4 DEF c
  <1>2. QED
    BY <1>1, LogInvHolds, PTL

----------------------------------------------------------------------------
(***************************************************************************)
(* The store and its snapshot.                                             *)
(***************************************************************************)

\* A sequence that starts with s0 and gets one piece after the other.
Grown(d, s0, p, K) == [k \in 0 .. K |-> IF k = 0 THEN s0 ELSE d[k - 1] \o p[k]]

LEMMA GrownGrows ==
    ASSUME NEW K \in Nat, NEW s0 \in Seq(Nat), NEW p \in [1 .. K -> Seq(Nat)]
    PROVE  /\ \E d : d = Grown(d, s0, p, K)
           /\ \A d : d = Grown(d, s0, p, K) => Grows(d, p, K) /\ d[0] = s0
  <1> DEFINE step == [k \in 1 .. K |-> [x \in Seq(Nat) |-> x \o p[k]]]
  <1>1. step \in [1 .. K -> [Seq(Nat) -> Seq(Nat)]]
    <2>1. ASSUME NEW k \in 1 .. K, NEW x \in Seq(Nat) PROVE x \o p[k] \in Seq(Nat)
      <3>1. p[k] \in Seq(Nat)
        OBVIOUS
      <3>2. QED
        BY <3>1
    <2>2. QED
      BY <2>1
  <1>2. PICK g : Iterates(g, Seq(Nat), s0, K, step)
    <2> HIDE DEF step
    <2>1. QED
      BY <1>1, RecursionExists
  <1>3. g \in [0 .. K -> Seq(Nat)] /\ g[0] = s0 /\ \A k \in 1 .. K : g[k] = step[k][g[k - 1]]
    BY <1>2 DEF Iterates
  <1>4. ASSUME NEW k \in 1 .. K PROVE g[k] = g[k - 1] \o p[k]
    <2>1. g[k - 1] \in Seq(Nat)
      BY <1>3
    <2>2. QED
      BY <1>3, <2>1
  <1> HIDE DEF step
  <1>5. g = Grown(g, s0, p, K)
    <2>1. \A k \in 0 .. K : g[k] = IF k = 0 THEN s0 ELSE g[k - 1] \o p[k]
      <3>1. ASSUME NEW k \in 0 .. K PROVE g[k] = IF k = 0 THEN s0 ELSE g[k - 1] \o p[k]
        <4>1. k = 0 \/ k \in 1 .. K
          OBVIOUS
        <4>2. QED
          BY <1>3, <1>4, <4>1
      <3>2. QED
        BY <3>1
    <2>2. g = [k \in 0 .. K |-> g[k]]
      BY <1>3
    <2>3. QED
      BY <2>1, <2>2 DEF Grown
  <1>6. ASSUME NEW d, d = Grown(d, s0, p, K)
        PROVE  Grows(d, p, K) /\ d[0] = s0
    <2>1. 0 \in 0 .. K /\ \A k \in 1 .. K : k \in 0 .. K /\ k # 0
      OBVIOUS
    <2>2. d[0] = s0 /\ \A k \in 1 .. K : d[k] = d[k - 1] \o p[k]
      BY <1>6, <2>1, Zenon DEF Grown
    <2> DEFINE T == {k \in 0 .. K : d[k] \in Seq(Nat)}
    <2>3. 0 \in T
      BY <2>1, <2>2
    <2>4. ASSUME NEW k \in 1 .. K, k - 1 \in T PROVE k \in T
      <3>1. d[k - 1] \in Seq(Nat) /\ p[k] \in Seq(Nat)
        BY <2>4
      <3>2. d[k - 1] \o p[k] \in Seq(Nat)
        BY <3>1
      <3>3. QED
        BY <2>1, <2>2, <3>2
    <2> HIDE DEF T
    <2>5. \A k \in 0 .. K : k \in T
      BY <2>3, <2>4, UpTo
    <2>6. \A k \in 0 .. K : d[k] \in Seq(Nat)
      BY <2>5 DEF T
    <2>7. QED
      BY <2>2, <2>6 DEF Grows
  <1>7. QED
    BY <1>5, <1>6

\* A store: finitely many keys, each with a string.
Maps == UNION {[D -> Seq(Nat)] : D \in {S \in SUBSET Seq(Nat) : IsFiniteSet(S)}}

LEMMA MapParts ==
    ASSUME NEW kvMap \in Maps
    PROVE  /\ kvMap \in [DOMAIN kvMap -> Seq(Nat)]
           /\ DOMAIN kvMap \subseteq Seq(Nat)
           /\ IsFiniteSet(DOMAIN kvMap)
  <1>1. PICK D \in {S \in SUBSET Seq(Nat) : IsFiniteSet(S)} : kvMap \in [D -> Seq(Nat)]
    BY DEF Maps
  <1>2. DOMAIN kvMap = D
    BY <1>1
  <1>3. QED
    BY <1>1, <1>2

LEMMA PutMap ==
    ASSUME NEW kvMap \in Maps, NEW key \in Seq(Nat), NEW value \in Seq(Nat)
    PROVE  Put(kvMap, key, value) \in Maps
  <1> DEFINE D == DOMAIN kvMap \cup {key}
  <1>1. D \subseteq Seq(Nat) /\ IsFiniteSet(D)
    BY MapParts, FS_AddElement
  <1>2. \A k \in D : (IF k = key THEN value ELSE kvMap[k]) \in Seq(Nat)
    BY MapParts
  <1>3. Put(kvMap, key, value) = [k \in D |-> IF k = key THEN value ELSE kvMap[k]]
    BY DEF Put
  <1> HIDE DEF D
  <1>4. Put(kvMap, key, value) \in [D -> Seq(Nat)]
    BY <1>2, <1>3
  <1>5. QED
    BY <1>1, <1>4 DEF Maps

LEMMA ExecuteMap ==
    ASSUME NEW kvMap \in Maps, NEW c \in WriteCommand \cup ReadCommand
    PROVE  Execute(kvMap, c) \in Maps
  <1>1. /\ c.key \in Seq(Nat) /\ c.op \in {"PUT", "APPEND", "GET"}
        /\ c.op # "GET" => c.value \in Seq(Nat)
    BY CommandLayout DEF HasValue
  <1>2. CASE c.op = "PUT"
    <2>1. Execute(kvMap, c) = Put(kvMap, c.key, c.value)
      BY <1>2 DEF Execute
    <2>2. QED
      BY <1>1, <1>2, <2>1, PutMap
  <1>3. CASE c.op = "APPEND"
    <2> DEFINE key == c.key
               value == c.value
               new == IF key \in DOMAIN kvMap THEN kvMap[key] \o value ELSE value
    <2>1. Execute(kvMap, c) = Put(kvMap, key, new)
      BY <1>3 DEF Execute, AppendTo
    <2>2. key \in Seq(Nat) /\ value \in Seq(Nat)
      BY <1>1, <1>3
    <2> HIDE DEF key, value
    <2>3. new \in Seq(Nat)
      <3>1. CASE key \in DOMAIN kvMap
        <4> DEFINE old == kvMap[key]
        <4>1. old \in Seq(Nat)
          BY <3>1, MapParts
        <4> HIDE DEF old
        <4>2. old \o value \in Seq(Nat)
          BY <2>2, <4>1
        <4>3. QED
          BY <3>1, <4>2 DEF old
      <3>2. CASE key \notin DOMAIN kvMap
        BY <2>2, <3>2
      <3>3. QED
        BY <3>1, <3>2
    <2> HIDE DEF new
    <2>4. QED
      BY <2>1, <2>2, <2>3, PutMap
  <1>4. CASE c.op = "GET"
    BY <1>4 DEF Execute
  <1>5. QED
    BY <1>1, <1>2, <1>3, <1>4

\* The stores m that the commands make, one after the other.
Replays(m, commands, K) ==
    /\ m[0] = EmptyMap
    /\ \A i \in 1 .. K : m[i] = Execute(m[i - 1], commands[i])
    /\ \A i \in 0 .. K : m[i] \in Maps

LEMMA ReplaySteps ==
    ASSUME NEW commands, NEW K \in Nat, Len(commands) = K,
           \A i \in 1 .. K : commands[i] \in WriteCommand \cup ReadCommand
    PROVE  \E m : Replays(m, commands, K) /\ Replay(commands) = m[K]
  <1> DEFINE step == [i \in 1 .. K |-> [x \in Maps |-> Execute(x, commands[i])]]
             F(m) == [i \in 0 .. K |-> IF i = 0 THEN EmptyMap ELSE Execute(m[i - 1], commands[i])]
             m == CHOOSE m : m = F(m)
  <1>1. EmptyMap \in Maps
    <2>1. EmptyMap \in [{} -> Seq(Nat)]
      BY DEF EmptyMap
    <2>2. IsFiniteSet({}) /\ {} \in SUBSET Seq(Nat)
      BY FS_EmptySet
    <2>3. QED
      BY <2>1, <2>2 DEF Maps
  <1>2. Replay(commands) = m[K]
    BY Zenon DEF Replay
  <1>3. step \in [1 .. K -> [Maps -> Maps]]
    BY ExecuteMap
  <1>4. PICK g : Iterates(g, Maps, EmptyMap, K, step)
    <2> HIDE DEF step
    <2>1. QED
      BY <1>1, <1>3, RecursionExists
  <1>5. g \in [0 .. K -> Maps] /\ g[0] = EmptyMap /\ \A i \in 1 .. K : g[i] = step[i][g[i - 1]]
    BY <1>4 DEF Iterates
  <1>6. ASSUME NEW i \in 1 .. K PROVE g[i] = Execute(g[i - 1], commands[i])
    <2>1. g[i - 1] \in Maps
      BY <1>5
    <2>2. QED
      BY <1>5, <2>1
  <1> HIDE DEF step
  <1>7. g = F(g)
    <2>1. ASSUME NEW i \in 0 .. K
          PROVE  g[i] = IF i = 0 THEN EmptyMap ELSE Execute(g[i - 1], commands[i])
      <3>1. i = 0 \/ i \in 1 .. K
        OBVIOUS
      <3>2. QED
        BY <1>5, <1>6, <3>1
    <2>2. g = [i \in 0 .. K |-> g[i]]
      BY <1>5
    <2>3. QED
      BY <2>1, <2>2
  <1>8. m = F(m)
    <2> HIDE DEF F
    <2>1. QED
      BY <1>7
  <1> HIDE DEF m
  <1>9. 0 \in 0 .. K /\ \A i \in 1 .. K : i \in 0 .. K /\ i # 0
    OBVIOUS
  <1>10. m[0] = EmptyMap /\ \A i \in 1 .. K : m[i] = Execute(m[i - 1], commands[i])
    BY <1>8, <1>9, Zenon
  <1> DEFINE T == {i \in 0 .. K : m[i] \in Maps}
  <1>11. 0 \in T
    BY <1>1, <1>9, <1>10
  <1>12. ASSUME NEW i \in 1 .. K, i - 1 \in T PROVE i \in T
    <2>1. m[i - 1] \in Maps /\ commands[i] \in WriteCommand \cup ReadCommand
      BY <1>12
    <2>2. QED
      BY <1>9, <1>10, <2>1, ExecuteMap
  <1>13. \A i \in 0 .. K : i \in T
    <2> HIDE DEF T
    <2>1. QED
      BY <1>11, <1>12, UpTo
  <1>14. Replays(m, commands, K)
    BY <1>10, <1>13 DEF Replays
  <1>15. QED
    BY <1>2, <1>14

\* Whatever commands are replayed make a store.
LEMMA ReplayMap ==
    ASSUME NEW commands, NEW K \in Nat, Len(commands) = K,
           \A i \in 1 .. K : commands[i] \in WriteCommand \cup ReadCommand
    PROVE  Replay(commands) \in Maps
  <1>1. PICK m : Replays(m, commands, K) /\ Replay(commands) = m[K]
    BY ReplaySteps
  <1>2. K \in 0 .. K
    OBVIOUS
  <1>3. QED
    BY <1>1, <1>2 DEF Replays

\* A string is written behind its length.
LEMMA SizedStringParts ==
    ASSUME NEW str \in Seq(Nat)
    PROVE  /\ SizedString(str) \in Seq(Nat)
           /\ Len(SizedString(str)) = 1 + Len(str)
           /\ SizedString(str)[1] = Len(str)
           /\ \A i \in 1 .. Len(str) : SizedString(str)[1 + i] = str[i]
  <1> DEFINE size == <<Len(str)>>
             all  == SizedString(str)
  <1>1. size \in Seq(Nat) /\ Len(size) = 1 /\ size[1] = Len(str) /\ Len(str) \in Nat
    OBVIOUS
  <1>2. all = size \o str
    BY DEF SizedString
  <1> HIDE DEF size, all
  <1>3. /\ all \in Seq(Nat) /\ Len(all) = Len(size) + Len(str)
        /\ \A i \in 1 .. Len(size) + Len(str) :
              all[i] = IF i <= Len(size) THEN size[i] ELSE str[i - Len(size)]
    BY <1>1, <1>2, ConcatParts
  <1>4. Len(all) = 1 + Len(str) /\ all[1] = Len(str)
    BY <1>1, <1>3
  <1>5. ASSUME NEW i \in 1 .. Len(str) PROVE all[1 + i] = str[i]
    <2>1. 1 + i \in 1 .. Len(size) + Len(str) /\ ~(1 + i <= Len(size)) /\ (1 + i) - Len(size) = i
      BY <1>1
    <2>2. QED
      BY <1>3, <2>1
  <1>6. QED
    BY <1>3, <1>4, <1>5 DEF all

\* A key and its value, position by position.
LEMMA SizedPairParts ==
    ASSUME NEW key \in Seq(Nat), NEW value \in Seq(Nat)
    PROVE  LET pair == SizedPair(key, value)
               n    == Len(key)
               m    == Len(value)
           IN  /\ pair \in Seq(Nat)
               /\ n \in Nat /\ m \in Nat
               /\ Len(pair) = 2 + n + m
               /\ pair[1] = n /\ pair[2 + n] = m
               /\ \A i \in 1 .. n : pair[1 + i] = key[i]
               /\ \A i \in 1 .. m : pair[2 + n + i] = value[i]
  <1> DEFINE a == SizedString(key)
             b == SizedString(value)
             pair == SizedPair(key, value)
             n == Len(key)
             m == Len(value)
  <1>1. /\ a \in Seq(Nat) /\ Len(a) = 1 + n /\ a[1] = n
        /\ \A i \in 1 .. n : a[1 + i] = key[i]
    BY SizedStringParts
  <1>2. /\ b \in Seq(Nat) /\ Len(b) = 1 + m /\ b[1] = m
        /\ \A i \in 1 .. m : b[1 + i] = value[i]
    BY SizedStringParts
  <1>3. n \in Nat /\ m \in Nat /\ pair = a \o b
    BY DEF SizedPair
  <1> HIDE DEF a, b, pair, n, m
  <1>4. /\ pair \in Seq(Nat) /\ Len(pair) = Len(a) + Len(b)
        /\ \A i \in 1 .. Len(a) + Len(b) : pair[i] = IF i <= Len(a) THEN a[i] ELSE b[i - Len(a)]
    BY <1>1, <1>2, <1>3, ConcatParts
  <1>5. Len(pair) = 2 + n + m
    BY <1>1, <1>2, <1>3, <1>4
  <1>6. ASSUME NEW i \in 1 .. 1 + n PROVE pair[i] = a[i]
    <2>1. i \in 1 .. Len(a) + Len(b) /\ i <= Len(a)
      BY <1>1, <1>2, <1>3
    <2>2. QED
      BY <1>4, <2>1
  <1>7. ASSUME NEW i \in 1 .. 1 + m PROVE pair[1 + n + i] = b[i]
    <2>1. /\ 1 + n + i \in 1 .. Len(a) + Len(b) /\ ~(1 + n + i <= Len(a))
          /\ (1 + n + i) - Len(a) = i
      BY <1>1, <1>2, <1>3
    <2>2. QED
      BY <1>4, <2>1
  <1>8. pair[1] = n /\ pair[2 + n] = m
    <2>1. 1 \in 1 .. 1 + n /\ 1 \in 1 .. 1 + m /\ 2 + n = 1 + n + 1
      BY <1>3
    <2>2. pair[1] = a[1] /\ pair[1 + n + 1] = b[1]
      BY <1>6, <1>7, <2>1
    <2>3. QED
      BY <1>1, <1>2, <2>1, <2>2
  <1>9. ASSUME NEW i \in 1 .. n PROVE pair[1 + i] = key[i]
    <2>1. 1 + i \in 1 .. 1 + n
      BY <1>3
    <2>2. QED
      BY <1>1, <1>6, <2>1
  <1>10. ASSUME NEW i \in 1 .. m PROVE pair[2 + n + i] = value[i]
    <2>1. 1 + i \in 1 .. 1 + m /\ 2 + n + i = 1 + n + (1 + i)
      BY <1>3
    <2>2. pair[1 + n + (1 + i)] = b[1 + i]
      BY <1>7, <2>1
    <2>3. QED
      BY <1>2, <2>1, <2>2
  <1>11. QED
    BY <1>3, <1>4, <1>5, <1>8, <1>9, <1>10 DEF pair, n, m

\* A pair that stands in the data is read, and the offset moves behind it.
LEMMA ReadPairReads ==
    ASSUME NEW data \in Seq(Nat), NEW base, NEW after, NEW key \in Seq(Nat),
           NEW value \in Seq(Nat), NEW kvMap,
           HoldsPiece(data, base, SizedPair(key, value), after)
    PROVE  ReadPair(data, [offset |-> base + 1, kvMap |-> kvMap])
              = [offset |-> after + 1, kvMap |-> Put(kvMap, key, value)]
  <1> DEFINE pair == SizedPair(key, value)
             n == Len(key)
             m == Len(value)
             o == base + 1
             v == base + n + 2
             end == Len(data)
  <1>1. /\ n \in Nat /\ m \in Nat
        /\ Len(pair) = 2 + n + m
        /\ pair[1] = n /\ pair[2 + n] = m
        /\ \A i \in 1 .. n : pair[1 + i] = key[i]
        /\ \A i \in 1 .. m : pair[2 + n + i] = value[i]
    BY SizedPairParts, Zenon
  <1>2. /\ base \in Nat /\ after = base + Len(pair) /\ after <= end /\ end \in Nat
        /\ \A i \in 1 .. Len(pair) : data[base + i] = pair[i]
    BY DEF HoldsPiece
  <1>3. n = Len(key) /\ m = Len(value) /\ end = Len(data)
    OBVIOUS
  <1> HIDE DEF pair, n, m, end
  <1>4. o \in Nat /\ v \in Nat /\ after = base + 2 + n + m
    BY <1>1, <1>2
  <1>5. data[o] = n /\ data[v] = m
    <2>1. 1 \in 1 .. Len(pair) /\ 2 + n \in 1 .. Len(pair) /\ v = base + (2 + n)
      BY <1>1, <1>2
    <2> HIDE DEF v
    <2>2. data[base + 1] = pair[1] /\ data[v] = pair[2 + n]
      BY <1>2, <2>1
    <2>3. QED
      BY <1>1, <2>2
  <1>6. IsPart(data, o, n, key)
    <2>1. ASSUME NEW i \in 1 .. n PROVE key[i] = data[o + i]
      <3>1. 1 + i \in 1 .. Len(pair) /\ o + i = base + (1 + i)
        BY <1>1, <1>2
      <3> HIDE DEF o
      <3>2. data[o + i] = pair[1 + i]
        BY <1>2, <3>1
      <3>3. QED
        BY <1>1, <3>2
    <2>2. o + n <= end
      BY <1>1, <1>2, <1>4
    <2> HIDE DEF o
    <2>3. QED
      BY <1>3, <2>1, <2>2 DEF IsPart
  <1>7. IsPart(data, v, m, value)
    <2>1. ASSUME NEW i \in 1 .. m PROVE value[i] = data[v + i]
      <3>1. 2 + n + i \in 1 .. Len(pair) /\ v + i = base + (2 + n + i)
        BY <1>1, <1>2
      <3> HIDE DEF v
      <3>2. data[v + i] = pair[2 + n + i]
        BY <1>2, <3>1
      <3>3. QED
        BY <1>1, <3>2
    <2>2. v + m <= end
      BY <1>1, <1>2, <1>4
    <2> HIDE DEF v
    <2>3. QED
      BY <1>3, <2>1, <2>2 DEF IsPart
  <1>8. o + n + 1 = v /\ v - 1 = o + n /\ v + m + 1 = after + 1
    BY <1>1, <1>2, <1>4
  <1> HIDE DEF o, v
  <1>9. SubSeq(data, o + 1, o + n) = key
    <2>1. o \in Nat /\ n \in Nat
      BY <1>1, <1>4
    <2>2. QED
      BY ONLY <2>1, <1>6, PartIs, Zenon
  <1>10. SubSeq(data, v + 1, v + m) = value
    <2>1. v \in Nat /\ m \in Nat
      BY <1>1, <1>4
    <2>2. QED
      BY ONLY <2>1, <1>7, PartIs, Zenon
  <1> DEFINE done == [offset |-> o, kvMap |-> kvMap]
             w == done.offset + data[done.offset] + 1
  <1>11. w = v
    BY <1>5, <1>8
  <1>12. done.offset = o /\ done.kvMap = kvMap
    OBVIOUS
  <1>13. ReadPair(data, done)
            = [offset |-> w + data[w] + 1,
               kvMap  |-> Put(done.kvMap, SubSeq(data, done.offset + 1, w - 1),
                                          SubSeq(data, w + 1, w + data[w]))]
    BY Zenon DEF ReadPair
  <1> HIDE DEF w, done
  <1>14. ReadPair(data, done)
            = [offset |-> v + m + 1,
               kvMap  |-> Put(kvMap, SubSeq(data, o + 1, v - 1), SubSeq(data, v + 1, v + m))]
    BY <1>5, <1>11, <1>12, <1>13, Zenon
  <1>15. SubSeq(data, o + 1, v - 1) = key
    BY <1>8, <1>9, Zenon
  <1>16. ReadPair(data, done) = [offset |-> after + 1, kvMap |-> Put(kvMap, key, value)]
    BY <1>8, <1>10, <1>14, <1>15, Zenon
  <1>17. QED
    BY <1>16 DEF done, o

\* An order of the keys lists each of them.
LEMMA OrderIsOnto ==
    ASSUME NEW D, IsFiniteSet(D), NEW order \in SetToSeqs(D)
    PROVE  LET N == Cardinality(D)
           IN  /\ N \in Nat /\ order \in [1 .. N -> D] /\ Len(order) = N
               /\ \A key \in D : \E i \in 1 .. N : order[i] = key
  <1> DEFINE N == Cardinality(D)
             S == 1 .. N
  <1>1. N \in Nat
    BY FS_CardinalityType
  <1>2. order \in [S -> D] /\ \A i, j \in S : i # j => order[i] # order[j]
    BY Zenon DEF SetToSeqs
  <1>3. IsFiniteSet(S) /\ Cardinality(S) = N
    <2>1. IsFiniteSet(1 .. N) /\ Cardinality(1 .. N) = IF 1 > N THEN 0 ELSE N - 1 + 1
      BY <1>1, FS_Interval
    <2>2. (IF 1 > N THEN 0 ELSE N - 1 + 1) = N
      BY <1>1
    <2>3. QED
      BY <2>1, <2>2
  <1>4. order \in Injection(S, D)
    <2>1. DOMAIN order = S
      BY <1>2
    <2>2. \A i, j \in DOMAIN order : order[i] = order[j] => i = j
      BY <1>2, <2>1
    <2>3. QED
      BY <1>2, <2>2 DEF Injection, IsInjective
  <1>5. order \in Surjection(S, D)
    BY <1>3, <1>4, FS_Injection
  <1>6. \A key \in D : \E i \in S : order[i] = key
    BY <1>5 DEF Surjection
  <1>7. Len(order) = N
    BY <1>1, <1>2
  <1>8. QED
    BY <1>1, <1>2, <1>6, <1>7

\* The pairs of a snapshot, and the store after the first k of them.
Pairs(kvMap, order, K) == [i \in 1 .. K |-> SizedPair(order[i], kvMap[order[i]])]

MapTo(kvMap, order, k) == [key \in {order[i] : i \in 1 .. k} |-> kvMap[key]]

\* The order lists the K keys of a store.
Lists(order, K, D, kvMap) ==
    /\ D \subseteq Seq(Nat) /\ kvMap \in [D -> Seq(Nat)]
    /\ K \in Nat /\ Cardinality(D) = K
    /\ order \in [1 .. K -> D] /\ Len(order) = K
    /\ \A key \in D : \E i \in 1 .. K : order[i] = key

\* The bytes d of a snapshot grow pair by pair.
SnapshotBytes(d, order, K, kvMap) == Grows(d, Pairs(kvMap, order, K), K) /\ d[0] = <<K>>

\* What takeSnapshot writes.
LEMMA SnapshotWrites ==
    ASSUME NEW order, NEW K, NEW D, NEW kvMap, Lists(order, K, D, kvMap)
    PROVE  \E d : SnapshotBytes(d, order, K, kvMap) /\ takeSnapshot(kvMap, order) = d[K]
  <1>0. /\ D \subseteq Seq(Nat) /\ kvMap \in [D -> Seq(Nat)]
        /\ K \in Nat /\ Cardinality(D) = K
        /\ order \in [1 .. K -> D] /\ Len(order) = K
        /\ \A key \in D : \E i \in 1 .. K : order[i] = key
    BY DEF Lists
  <1> USE <1>0
  <1> DEFINE p == Pairs(kvMap, order, K)
             F(d) == [i \in 0 .. K |-> IF i = 0 THEN <<K>>
                                       ELSE d[i - 1] \o SizedPair(order[i], kvMap[order[i]])]
             d == CHOOSE d : d = F(d)
  <1>1. DOMAIN kvMap = D
    OBVIOUS
  <1>2. takeSnapshot(kvMap, order) = d[K]
    BY <1>1 DEF takeSnapshot
  <1>3. ASSUME NEW i \in 1 .. K
        PROVE  p[i] = SizedPair(order[i], kvMap[order[i]]) /\ p[i] \in Seq(Nat)
    <2>1. order[i] \in D
      OBVIOUS
    <2>2. order[i] \in Seq(Nat) /\ kvMap[order[i]] \in Seq(Nat)
      BY <2>1
    <2>3. p[i] = SizedPair(order[i], kvMap[order[i]])
      BY DEF Pairs
    <2> DEFINE key == order[i]
               value == kvMap[key]
    <2> HIDE DEF key, value, p
    <2>4. SizedPair(key, value) \in Seq(Nat)
      <3>1. key \in Seq(Nat) /\ value \in Seq(Nat)
        BY <2>2 DEF key, value
      <3>2. QED
        BY <3>1, SizedPairParts
    <2>5. QED
      BY <2>3, <2>4 DEF key, value
  <1>4. p \in [1 .. K -> Seq(Nat)]
    BY <1>3 DEF Pairs
  <1>5. ASSUME NEW x PROVE F(x) = Grown(x, <<K>>, p, K)
    <2>1. \A i \in 0 .. K : i # 0 => i \in 1 .. K
      OBVIOUS
    <2> HIDE DEF p
    <2>2. \A i \in 0 .. K : i # 0 => p[i] = SizedPair(order[i], kvMap[order[i]])
      BY <1>3, <2>1
    <2>3. QED
      BY <2>2 DEF Grown
  <1> HIDE DEF F, p
  <1>6. <<K>> \in Seq(Nat)
    OBVIOUS
  <1>7. /\ \E x : x = Grown(x, <<K>>, p, K)
        /\ \A x : x = Grown(x, <<K>>, p, K) => Grows(x, p, K) /\ x[0] = <<K>>
    BY <1>4, <1>6, GrownGrows
  <1>8. \E x : x = F(x)
    BY <1>5, <1>7
  <1>9. d = F(d)
    BY <1>8
  <1> HIDE DEF d
  <1>10. Grows(d, p, K) /\ d[0] = <<K>>
    BY <1>5, <1>7, <1>9
  <1>11. QED
    BY <1>2, <1>10 DEF p, SnapshotBytes

\* One more pair of the store.
LEMMA MapToGrows ==
    ASSUME NEW kvMap, NEW order, NEW k \in Nat \ {0}
    PROVE  Put(MapTo(kvMap, order, k - 1), order[k], kvMap[order[k]]) = MapTo(kvMap, order, k)
  <1> DEFINE A == {order[i] : i \in 1 .. k - 1}
             B == {order[i] : i \in 1 .. k}
             old == MapTo(kvMap, order, k - 1)
  <1>1. B = A \cup {order[k]}
    <2>1. \A i \in 1 .. k : i \in 1 .. k - 1 \/ i = k
      OBVIOUS
    <2>2. k \in 1 .. k /\ \A i \in 1 .. k - 1 : i \in 1 .. k
      OBVIOUS
    <2>3. QED
      BY <2>1, <2>2
  <1>2. old = [key \in A |-> kvMap[key]] /\ MapTo(kvMap, order, k) = [key \in B |-> kvMap[key]]
    BY DEF MapTo
  <1> HIDE DEF A, B, old
  <1>3. Put(old, order[k], kvMap[order[k]])
           = [x \in A \cup {order[k]} |-> IF x = order[k] THEN kvMap[order[k]] ELSE old[x]]
    BY <1>2 DEF Put
  <1>4. \A x \in A \cup {order[k]} : (IF x = order[k] THEN kvMap[order[k]] ELSE old[x]) = kvMap[x]
    BY <1>2
  <1>5. QED
    BY <1>1, <1>2, <1>3, <1>4 DEF old

\* installSnapshot reads every pair that takeSnapshot wrote.
LEMMA SnapshotReads ==
    ASSUME NEW order, NEW K, NEW D, NEW kvMap, Lists(order, K, D, kvMap),
           NEW d, SnapshotBytes(d, order, K, kvMap)
    PROVE  installSnapshot(d[K]) = kvMap
  <1>0. /\ D \subseteq Seq(Nat) /\ kvMap \in [D -> Seq(Nat)]
        /\ K \in Nat /\ Cardinality(D) = K
        /\ order \in [1 .. K -> D] /\ Len(order) = K
        /\ \A key \in D : \E i \in 1 .. K : order[i] = key
    BY DEF Lists
  <1> USE <1>0
  <1>00. Grows(d, Pairs(kvMap, order, K), K) /\ d[0] = <<K>>
    BY DEF SnapshotBytes
  <1> USE <1>00
  <1> DEFINE p == Pairs(kvMap, order, K)
             data == d[K]
             N == data[1]
             s0 == [offset |-> 2, kvMap |-> EmptyMap]
             Done(k) == [offset |-> Len(d[k]) + 1, kvMap |-> MapTo(kvMap, order, k)]
             F(x) == [i \in 0 .. K |-> IF i = 0 THEN s0 ELSE ReadPair(data, x[i - 1])]
             r == CHOOSE r : r = [i \in 0 .. N |-> IF i = 0 THEN s0 ELSE ReadPair(data, r[i - 1])]
  <1>1. 0 \in 0 .. K /\ K \in 0 .. K /\ data \in Seq(Nat)
    BY DEF Grows
  <1>2. N = K
    <2>1. Len(<<K>>) = 1 /\ <<K>>[1] = K
      OBVIOUS
    <2>2. \A i \in 1 .. Len(d[0]) : d[K][i] = d[0][i]
      <3> DEFINE q == Pairs(kvMap, order, K)
      <3>1. Grows(d, q, K)
        OBVIOUS
      <3> HIDE DEF q
      <3>2. \A j \in 0 .. K : \A k \in 0 .. j : \A i \in 1 .. Len(d[k]) : d[j][i] = d[k][i]
        BY ONLY <3>1, GrowingKeeps
      <3>3. QED
        BY <1>1, <3>2
    <2>3. QED
      BY <2>1, <2>2
  <1>3. installSnapshot(data) = r[N].kvMap
    BY Zenon DEF installSnapshot
  <1>4. r = CHOOSE x : x = F(x)
    BY <1>2
  <1> HIDE DEF r, N
  <1>5. ASSUME NEW k \in 1 .. K PROVE ReadPair(data, Done(k - 1)) = Done(k)
    <2> DEFINE key == order[k]
               value == kvMap[key]
    <2>1. key \in D
      OBVIOUS
    <2>2. key \in Seq(Nat) /\ value \in Seq(Nat)
      BY <2>1
    <2>3. p[k] = SizedPair(key, value)
      BY DEF Pairs
    <2>4. Grows(d, p, K) /\ k \in 1 .. K
      OBVIOUS
    <2> HIDE DEF p
    <2>5. HoldsPiece(d[K], Len(d[k - 1]), p[k], Len(d[k]))
      BY <2>4, GrowingHolds, Zenon
    <2>6. Put(MapTo(kvMap, order, k - 1), key, value) = MapTo(kvMap, order, k)
      <3>1. k \in Nat \ {0}
        OBVIOUS
      <3>2. QED
        BY ONLY <3>1, MapToGrows, Zenon
    <2> HIDE DEF key, value
    <2>7. HoldsPiece(data, Len(d[k - 1]), SizedPair(key, value), Len(d[k]))
      BY <2>3, <2>5
    <2> DEFINE base == Len(d[k - 1])
               after == Len(d[k])
               old == MapTo(kvMap, order, k - 1)
    <2> HIDE DEF base, after, old, data
    <2>8. HoldsPiece(data, base, SizedPair(key, value), after)
      BY <2>7 DEF base, after
    <2>9. ReadPair(data, [offset |-> base + 1, kvMap |-> old])
             = [offset |-> after + 1, kvMap |-> Put(old, key, value)]
      BY <1>1, <2>2, <2>8, ReadPairReads
    <2>10. QED
      BY <2>6, <2>9 DEF base, after, old
  <1>6. Done(0) = s0
    <2>1. Len(<<K>>) + 1 = 2
      OBVIOUS
    <2>2. MapTo(kvMap, order, 0) = EmptyMap
      BY DEF MapTo, EmptyMap
    <2>3. QED
      BY <2>1, <2>2
  <1> HIDE DEF data, s0
  <1>7. \E x : x = F(x)
    <2> DEFINE h == [k \in 0 .. K |-> Done(k)]
    <2>1. ASSUME NEW k \in 0 .. K PROVE h[k] = IF k = 0 THEN s0 ELSE ReadPair(data, h[k - 1])
      <3>1. CASE k = 0
        BY <1>6, <3>1
      <3>2. CASE k # 0
        <4>1. k \in 1 .. K /\ k - 1 \in 0 .. K
          BY <3>2
        <4>2. h[k] = Done(k) /\ h[k - 1] = Done(k - 1)
          BY <4>1
        <4> HIDE DEF h, Done
        <4>3. QED
          BY <1>5, <3>2, <4>1, <4>2
      <3>3. QED
        BY <3>1, <3>2
    <2>2. h = F(h)
      <3> HIDE DEF Done
      <3>1. QED
        BY <2>1
    <2>3. QED
      BY <2>2
  <1> HIDE DEF Done
  <1>8. r = F(r)
    <2> HIDE DEF F
    <2>1. QED
      BY <1>4, <1>7
  <1>9. \A k \in 1 .. K : k \in 0 .. K /\ k # 0
    OBVIOUS
  <1>10. r[0] = s0 /\ \A k \in 1 .. K : r[k] = ReadPair(data, r[k - 1])
    BY <1>1, <1>8, <1>9, Zenon
  <1> DEFINE T == {k \in 0 .. K : r[k] = Done(k)}
  <1>11. 0 \in T
    BY <1>1, <1>6, <1>10
  <1>12. ASSUME NEW k \in 1 .. K, k - 1 \in T PROVE k \in T
    BY <1>5, <1>9, <1>10, <1>12
  <1>13. r[K] = Done(K)
    <2> HIDE DEF T
    <2>1. \A k \in 0 .. K : k \in T
      BY <1>11, <1>12, UpTo
    <2>2. K \in T
      BY <1>1, <2>1
    <2>3. QED
      BY <2>2 DEF T
  <1>14. MapTo(kvMap, order, K) = kvMap
    <2>1. {order[i] : i \in 1 .. K} = D
      OBVIOUS
    <2>2. kvMap = [key \in D |-> kvMap[key]]
      OBVIOUS
    <2>3. QED
      BY <2>1, <2>2 DEF MapTo
  <1>15. QED
    BY <1>2, <1>3, <1>13, <1>14 DEF Done, data

\* What a node puts into a snapshot of its store is what a node has that installs
\* it, in whatever order the unordered_map lists the keys.
THEOREM SnapshotsReadBack == Spec => []SnapshotReadsBack
  <1>1. LogInv => SnapshotReadsBack
    <2> DEFINE kvMap == Replay(Commands)
               D == DOMAIN kvMap
               N == Cardinality(D)
    <2>1. SUFFICES ASSUME LogInv, NEW order \in SetToSeqs(D)
                   PROVE  installSnapshot(takeSnapshot(kvMap, order)) = kvMap
      BY DEF SnapshotReadsBack
    <2>2. kvMap \in Maps
      <3>1. WellFormed(log) /\ CommandsFit
        BY <2>1, CommandsAssumption DEF LogInv
      <3>2. SavedEntries(log) \in Seq(Entry)
        BY <3>1, SerializeLogWrites
      <3> DEFINE K == Len(SavedEntries(log))
      <3>3. K \in Nat /\ DOMAIN SavedEntries(log) = 1 .. K
        BY <3>2
      <3>4. DOMAIN Commands = 1 .. K /\ Len(Commands) = K
        BY <3>3 DEF Commands
      <3>5. \A i \in 1 .. K : Commands[i] \in WriteCommand \cup ReadCommand
        BY <2>1, <3>4, SavedCommands
      <3> HIDE DEF K
      <3>6. QED
        BY <3>3, <3>4, <3>5, ReplayMap
    <2> HIDE DEF kvMap
    <2>3. kvMap \in [D -> Seq(Nat)] /\ D \subseteq Seq(Nat) /\ IsFiniteSet(D)
      BY <2>2, MapParts
    <2>4. order \in SetToSeqs(D)
      BY <2>1
    <2> HIDE DEF D
    <2>5. /\ N \in Nat /\ order \in [1 .. N -> D] /\ Len(order) = N
          /\ \A key \in D : \E i \in 1 .. N : order[i] = key
      BY <2>3, <2>4, OrderIsOnto
    <2>6. Cardinality(D) = N
      OBVIOUS
    <2> HIDE DEF N
    <2>7. Lists(order, N, D, kvMap)
      BY <2>3, <2>5, <2>6 DEF Lists
    <2>8. PICK d : SnapshotBytes(d, order, N, kvMap) /\ takeSnapshot(kvMap, order) = d[N]
      BY <2>7, SnapshotWrites, Zenon
    <2>9. installSnapshot(d[N]) = kvMap
      BY <2>7, <2>8, SnapshotReads, Zenon
    <2>10. QED
      BY <2>8, <2>9
  <1>2. QED
    BY <1>1, LogInvHolds, PTL

----------------------------------------------------------------------------
(***************************************************************************)
(* What a GET returns.                                                     *)
(***************************************************************************)

\* The strings of v joined one by one.
Joins(f, v, m) ==
    /\ f \in [1 .. m -> Seq(Nat)]
    /\ f[1] = v[1]
    /\ \A i \in 2 .. m : f[i] = f[i - 1] \o v[i]

LEMMA FlattenJoins ==
    ASSUME NEW m \in Nat \ {0}, NEW v \in [1 .. m -> Seq(Nat)], NEW f, Joins(f, v, m)
    PROVE  FlattenSeq(v) = f[m]
  <1> DEFINE F(x) == [i \in 1 .. m |-> IF i = 1 THEN v[i] ELSE x[i - 1] \o v[i]]
             g == CHOOSE g : g = F(g)
  <1>1. Len(v) = m
    OBVIOUS
  <1>2. FlattenSeq(v) = g[m]
    BY <1>1 DEF FlattenSeq
  <1>3. f = F(f)
    <2>1. ASSUME NEW i \in 1 .. m PROVE f[i] = IF i = 1 THEN v[i] ELSE f[i - 1] \o v[i]
      <3>1. i = 1 \/ i \in 2 .. m
        OBVIOUS
      <3>2. QED
        BY <3>1 DEF Joins
    <2>2. f = [i \in 1 .. m |-> f[i]]
      BY DEF Joins
    <2>3. QED
      BY <2>1, <2>2
  <1>4. g = F(g)
    <2> HIDE DEF F
    <2>1. QED
      BY <1>3
  <1> HIDE DEF g
  <1>5. g[1] = v[1] /\ \A i \in 2 .. m : g[i] = g[i - 1] \o v[i]
    <2>1. 1 \in 1 .. m /\ \A i \in 2 .. m : i \in 1 .. m /\ i # 1
      OBVIOUS
    <2>2. QED
      BY <1>4, <2>1, Zenon
  <1> DEFINE T == {k \in 0 .. m : k = 0 \/ g[k] = f[k]}
  <1>6. 0 \in T
    OBVIOUS
  <1>7. ASSUME NEW k \in 1 .. m, k - 1 \in T PROVE k \in T
    <2>1. CASE k = 1
      BY <1>5, <2>1 DEF Joins
    <2>2. CASE k # 1
      <3>1. k \in 2 .. m /\ k - 1 # 0
        BY <2>2
      <3>2. g[k - 1] = f[k - 1]
        BY <1>7, <3>1
      <3>3. g[k] = f[k]
        BY <1>5, <3>1, <3>2 DEF Joins
      <3>4. QED
        BY <3>3
    <2>3. QED
      BY <2>1, <2>2
  <1> HIDE DEF T
  <1>8. \A k \in 0 .. m : k \in T
    BY <1>6, <1>7, UpTo
  <1>9. m \in T /\ m # 0
    BY <1>8
  <1>10. QED
    BY <1>2, <1>9 DEF T

\* s lists the m members of A from the first to the last.
Enumerates(s, m, A) ==
    /\ s \in [1 .. m -> A]
    /\ \A i, j \in 1 .. m : i < j => s[i] < s[j]
    /\ \A x \in A : \E i \in 1 .. m : s[i] = x

LEMMA EnumeratesInOrder ==
    ASSUME NEW A \in SUBSET Nat, NEW m \in Nat, NEW s, Enumerates(s, m, A)
    PROVE  s \in InOrder(A)
  <1> DEFINE S == 1 .. m
  <1>1. /\ s \in [S -> A] /\ DOMAIN s = S
        /\ \A i, j \in S : i < j => s[i] < s[j]
        /\ \A x \in A : \E i \in S : s[i] = x
    BY DEF Enumerates
  <1>2. \A i, j \in S : i # j => s[i] # s[j]
    <2>1. ASSUME NEW i \in S, NEW j \in S, i # j PROVE s[i] # s[j]
      <3>1. i < j \/ j < i
        BY <2>1
      <3>2. s[i] \in Nat /\ s[j] \in Nat
        BY <1>1
      <3>3. s[i] < s[j] \/ s[j] < s[i]
        BY <1>1, <3>1
      <3>4. QED
        BY <3>2, <3>3
    <2>2. QED
      BY <2>1
  <1>3. IsFiniteSet(S) /\ Cardinality(S) = m
    <2>1. IsFiniteSet(1 .. m) /\ Cardinality(1 .. m) = IF 1 > m THEN 0 ELSE m - 1 + 1
      BY FS_Interval
    <2>2. (IF 1 > m THEN 0 ELSE m - 1 + 1) = m
      OBVIOUS
    <2>3. QED
      BY <2>1, <2>2
  <1> HIDE DEF S
  <1>4. s \in Surjection(S, A) /\ s \in Injection(S, A)
    BY <1>1, <1>2 DEF Surjection, Injection, IsInjective
  <1>5. Cardinality(A) = m
    BY <1>3, <1>4, FS_Surjection
  <1>6. s \in SetToSeqs(A)
    BY <1>1, <1>2, <1>5 DEF SetToSeqs, S
  <1>7. QED
    BY <1>1, <1>6 DEF InOrder

\* LastWrites among the first n commands.
LastUpTo(commands, key, n) ==
    {i \in 1 .. n : /\ Writes(commands[i], key)
                    /\ \A j \in i + 1 .. n : ~Sets(commands[j], key)}

\* The writes at the positions of a set, one after the other, make a value.
Written(commands, at, value) ==
    \E m \in Nat \ {0} : \E s, f :
        /\ Enumerates(s, m, at)
        /\ Joins(f, [i \in 1 .. m |-> commands[s[i]].value], m)
        /\ value = f[m]

\* A store has at a key what the last writes among the first n commands left.
HoldsLast(store, commands, key, n) ==
    LET at == LastUpTo(commands, key, n)
    IN  IF key \notin DOMAIN store THEN at = {} ELSE Written(commands, at, store[key])

\* One more command.
LEMMA LastStep ==
    ASSUME NEW commands, NEW key, NEW n \in Nat \ {0}
    PROVE  /\ ~Writes(commands[n], key) => LastUpTo(commands, key, n) = LastUpTo(commands, key, n - 1)
           /\ Sets(commands[n], key) => LastUpTo(commands, key, n) = {n}
           /\ Writes(commands[n], key) /\ ~Sets(commands[n], key) =>
                 LastUpTo(commands, key, n) = LastUpTo(commands, key, n - 1) \cup {n}
  <1> DEFINE c   == commands[n]
             old == LastUpTo(commands, key, n - 1)
             new == LastUpTo(commands, key, n)
  <1>1. Sets(c, key) => Writes(c, key)
    BY DEF Sets, Writes
  <1>2. n \in new <=> Writes(c, key)
    BY DEF LastUpTo
  <1>3. ASSUME NEW i \in 1 .. n - 1 PROVE i \in new <=> i \in old /\ ~Sets(c, key)
    <2>1. i \in 1 .. n /\ n \in i + 1 .. n
      OBVIOUS
    <2>2. \A j : j \in i + 1 .. n <=> j \in i + 1 .. n - 1 \/ j = n
      OBVIOUS
    <2>3. QED
      BY <2>1, <2>2 DEF LastUpTo
  <1>4. old \subseteq 1 .. n - 1 /\ new \subseteq 1 .. n
    BY DEF LastUpTo
  <1>5. \A i \in 1 .. n : i \in 1 .. n - 1 \/ i = n
    OBVIOUS
  <1>6. n \notin 1 .. n - 1
    OBVIOUS
  <1> HIDE DEF c, old, new
  <1>7. ~Writes(c, key) => new = old
    BY <1>1, <1>2, <1>3, <1>4, <1>5, <1>6
  <1>8. Sets(c, key) => new = {n}
    BY <1>1, <1>2, <1>3, <1>4, <1>5
  <1>9. Writes(c, key) /\ ~Sets(c, key) => new = old \cup {n}
    BY <1>2, <1>3, <1>4, <1>5
  <1>10. QED
    BY <1>7, <1>8, <1>9 DEF c, old, new

\* The first write to a key, or one that sets it.
LEMMA OneWrite ==
    ASSUME NEW commands, NEW n \in Nat, commands[n].value \in Seq(Nat)
    PROVE  Written(commands, {n}, commands[n].value)
  <1> DEFINE s == [i \in 1 .. 1 |-> n]
             f == [i \in 1 .. 1 |-> commands[n].value]
             v == [i \in 1 .. 1 |-> commands[s[i]].value]
  <1>1. Enumerates(s, 1, {n})
    BY DEF Enumerates
  <1>2. v[1] = commands[n].value /\ f[1] = commands[n].value /\ f \in [1 .. 1 -> Seq(Nat)]
    OBVIOUS
  <1> HIDE DEF f
  <1>3. Joins(f, v, 1)
    <2>1. \A i \in 2 .. 1 : FALSE
      OBVIOUS
    <2> HIDE DEF v
    <2>2. QED
      BY <1>2, <2>1 DEF Joins
  <1> HIDE DEF s
  <1>4. 1 \in Nat \ {0}
    OBVIOUS
  <1>5. QED
    BY <1>1, <1>2, <1>3, <1>4 DEF Written

LEMMA OneMore ==
    ASSUME NEW m \in Nat \ {0}
    PROVE  /\ m + 1 \in Nat \ {0} /\ m + 1 \in 1 .. m + 1 /\ ~(m + 1 <= m)
           /\ \A i \in 1 .. m : i \in 1 .. m + 1 /\ i <= m /\ i < m + 1
           /\ \A i \in 1 .. m + 1 : i \in 1 .. m \/ (i = m + 1 /\ ~(i <= m))
  OBVIOUS

\* A write that is appended to the others.
LEMMA OneMoreWrite ==
    ASSUME NEW commands, NEW n \in Nat, commands[n].value \in Seq(Nat),
           NEW A, A \subseteq 1 .. n - 1, NEW value, Written(commands, A, value)
    PROVE  Written(commands, A \cup {n}, value \o commands[n].value)
  <1> PICK m \in Nat \ {0} : \E s, f : /\ Enumerates(s, m, A)
                                       /\ Joins(f, [i \in 1 .. m |-> commands[s[i]].value], m)
                                       /\ value = f[m]
    BY DEF Written
  <1> PICK s, f : /\ Enumerates(s, m, A)
                 /\ Joins(f, [i \in 1 .. m |-> commands[s[i]].value], m)
                 /\ value = f[m]
    OBVIOUS
  <1> DEFINE k == m + 1
             t == [i \in 1 .. k |-> IF i <= m THEN s[i] ELSE n]
             g == [i \in 1 .. k |-> IF i <= m THEN f[i] ELSE f[m] \o commands[n].value]
             v == [i \in 1 .. m |-> commands[s[i]].value]
             w == [i \in 1 .. k |-> commands[t[i]].value]
  <1>0. \A i \in 1 .. k : i \in 1 .. m \/ (i = k /\ ~(i <= m))
    BY OneMore, Zenon
  <1>1. /\ k \in Nat \ {0} /\ k \in 1 .. k /\ ~(k <= m)
        /\ \A i \in 1 .. m : i \in 1 .. k /\ i <= m /\ i < k
    BY OneMore, Zenon
  <1>2. t[k] = n /\ \A i \in 1 .. m : t[i] = s[i]
    BY <1>1
  <1>3. Enumerates(t, k, A \cup {n})
    <2>1. /\ s \in [1 .. m -> A]
          /\ \A i, j \in 1 .. m : i < j => s[i] < s[j]
          /\ \A x \in A : \E i \in 1 .. m : s[i] = x
      BY DEF Enumerates
    <2>2. \A i \in 1 .. m : s[i] \in A /\ s[i] < n
      <3>1. \A x \in A : x < n
        OBVIOUS
      <3>2. QED
        BY ONLY <2>1, <3>1
    <2>3. t \in [1 .. k -> A \cup {n}]
      BY <2>2, <1>0
    <2> HIDE DEF t
    <2>4. ASSUME NEW i \in 1 .. k, NEW j \in 1 .. k, i < j PROVE t[i] < t[j]
      <3>1. i \in 1 .. m
        BY <2>4
      <3>2. CASE j = k
        BY <1>2, <2>2, <3>1, <3>2
      <3>3. CASE j \in 1 .. m
        BY <1>2, <2>1, <2>4, <3>1, <3>3
      <3>4. QED
        BY <1>0, <3>2, <3>3
    <2>5. ASSUME NEW x \in A \cup {n} PROVE \E i \in 1 .. k : t[i] = x
      BY <1>1, <1>2, <2>1
    <2> HIDE DEF k
    <2>6. QED
      BY <2>3, <2>4, <2>5 DEF Enumerates
  <1>4. Joins(g, w, k)
    <2>1. /\ f \in [1 .. m -> Seq(Nat)] /\ f[1] = v[1]
          /\ \A i \in 2 .. m : f[i] = f[i - 1] \o v[i]
      BY DEF Joins
    <2>2. w[k] = commands[n].value /\ \A i \in 1 .. m : w[i] = v[i]
      BY <1>1, <1>2
    <2>3. m \in 1 .. m /\ 1 \in 1 .. m /\ 1 \in 1 .. k
      OBVIOUS
    <2>4. f[m] \in Seq(Nat) /\ \A i \in 1 .. m : f[i] \in Seq(Nat)
      BY <2>1, <2>3
    <2> DEFINE x == f[m]
               y == commands[n].value
    <2>5. x \o y \in Seq(Nat)
      <3>1. x \in Seq(Nat) /\ y \in Seq(Nat)
        BY <2>4
      <3> HIDE DEF x, y
      <3>2. QED
        BY <3>1
    <2>6. g[k] = f[m] \o w[k] /\ \A i \in 1 .. m : g[i] = f[i]
      BY <1>1, <2>2
    <2>7. g \in [1 .. k -> Seq(Nat)]
      <3> HIDE DEF k
      <3>1. QED
        BY <2>4, <2>5
    <2> HIDE DEF g, w, v
    <2>8. g[1] = w[1]
      BY <2>1, <2>2, <2>3, <2>6
    <2>9. ASSUME NEW i \in 2 .. k PROVE g[i] = g[i - 1] \o w[i]
      <3>1. i - 1 \in 1 .. m /\ (i = k => i - 1 = m) /\ (i # k => i \in 2 .. m /\ i \in 1 .. m)
        OBVIOUS
      <3>2. g[i - 1] = f[i - 1]
        BY <2>6, <3>1
      <3>3. CASE i = k
        BY <2>6, <3>1, <3>2, <3>3
      <3>4. CASE i # k
        BY <2>1, <2>2, <2>6, <3>1, <3>2, <3>4
      <3>5. QED
        BY <3>3, <3>4
    <2> HIDE DEF k
    <2>10. QED
      BY <2>7, <2>8, <2>9 DEF Joins
  <1>5. g[k] = f[m] \o commands[n].value
    BY <1>1
  <1> HIDE DEF g, t, k
  <1>6. QED
    BY <1>1, <1>3, <1>4, <1>5 DEF Written

\* What a command leaves in a store at a key.
LEMMA ExecuteAt ==
    ASSUME NEW store \in Maps, NEW c \in WriteCommand \cup ReadCommand, NEW key
    PROVE  LET new == Execute(store, c)
           IN  /\ ~Writes(c, key) => /\ key \in DOMAIN new <=> key \in DOMAIN store
                                     /\ key \in DOMAIN store => new[key] = store[key]
               /\ Writes(c, key) => /\ key \in DOMAIN new
                                    /\ c.value \in Seq(Nat)
                                    /\ new[key] = IF Sets(c, key) \/ key \notin DOMAIN store
                                                  THEN c.value ELSE store[key] \o c.value
  <1>1. /\ c.op \in {"PUT", "APPEND", "GET"}
        /\ c.op # "GET" => c.value \in Seq(Nat)
    BY CommandLayout DEF HasValue
  <1>2. CASE c.op = "GET"
    BY <1>2 DEF Execute, Writes
  <1>3. CASE c.op = "PUT"
    <2>1. Execute(store, c) = Put(store, c.key, c.value)
      BY <1>3 DEF Execute
    <2>2. QED
      BY <1>1, <1>3, <2>1 DEF Put, Writes, Sets
  <1>4. CASE c.op = "APPEND"
    <2> DEFINE value == IF c.key \in DOMAIN store THEN store[c.key] \o c.value ELSE c.value
    <2>1. Execute(store, c) = Put(store, c.key, value)
      BY <1>4 DEF Execute, AppendTo
    <2> HIDE DEF value
    <2>2. /\ DOMAIN Put(store, c.key, value) = DOMAIN store \cup {c.key}
          /\ Put(store, c.key, value)[c.key] = value
          /\ \A k \in DOMAIN store : k # c.key => Put(store, c.key, value)[k] = store[k]
      BY DEF Put
    <2>3. Writes(c, key) <=> c.key = key
      BY <1>4 DEF Writes
    <2>4. ~Sets(c, key)
      BY <1>4 DEF Sets
    <2>5. CASE c.key = key
      BY <1>1, <1>4, <2>1, <2>2, <2>3, <2>4, <2>5 DEF value
    <2>6. CASE c.key # key
      BY <2>1, <2>2, <2>3, <2>6
    <2>7. QED
      BY <2>5, <2>6
  <1>5. QED
    BY <1>1, <1>2, <1>3, <1>4

LEMMA HoldsLastStep ==
    ASSUME NEW commands, NEW key, NEW n \in Nat \ {0}, NEW store \in Maps,
           commands[n] \in WriteCommand \cup ReadCommand,
           HoldsLast(store, commands, key, n - 1)
    PROVE  HoldsLast(Execute(store, commands[n]), commands, key, n)
  <1> DEFINE c   == commands[n]
             new == Execute(store, c)
             old == LastUpTo(commands, key, n - 1)
             at  == LastUpTo(commands, key, n)
  <1>1. /\ ~Writes(c, key) => at = old
        /\ Sets(c, key) => at = {n}
        /\ Writes(c, key) /\ ~Sets(c, key) => at = old \cup {n}
    BY LastStep
  <1>2. /\ ~Writes(c, key) => /\ key \in DOMAIN new <=> key \in DOMAIN store
                              /\ key \in DOMAIN store => new[key] = store[key]
        /\ Writes(c, key) => /\ key \in DOMAIN new
                             /\ c.value \in Seq(Nat)
                             /\ new[key] = IF Sets(c, key) \/ key \notin DOMAIN store
                                           THEN c.value ELSE store[key] \o c.value
    BY ExecuteAt
  <1>3. IF key \notin DOMAIN store THEN old = {} ELSE Written(commands, old, store[key])
    BY DEF HoldsLast
  <1>4. c.value \in Seq(Nat) => Written(commands, {n}, c.value)
    BY OneWrite
  <1>5. ASSUME NEW value, Written(commands, old, value), c.value \in Seq(Nat)
        PROVE  Written(commands, old \cup {n}, value \o c.value)
    <2>1. old \subseteq 1 .. n - 1
      BY DEF LastUpTo
    <2>2. QED
      BY <1>5, <2>1, OneMoreWrite
  <1>6. SUFFICES IF key \notin DOMAIN new THEN at = {} ELSE Written(commands, at, new[key])
    BY DEF HoldsLast
  <1> HIDE DEF c, new, old, at
  <1>7. CASE ~Writes(c, key)
    BY <1>1, <1>2, <1>3, <1>7
  <1>8. CASE Sets(c, key)
    <2>1. Writes(c, key)
      BY <1>8 DEF Sets, Writes
    <2>2. QED
      BY <1>1, <1>2, <1>4, <1>8, <2>1
  <1>9. CASE Writes(c, key) /\ ~Sets(c, key)
    <2>1. CASE key \in DOMAIN store
      BY <1>1, <1>2, <1>3, <1>5, <1>9, <2>1
    <2>2. CASE key \notin DOMAIN store
      <3>1. at = {n} /\ new[key] = c.value /\ key \in DOMAIN new
        BY <1>1, <1>2, <1>3, <1>9, <2>2
      <3>2. QED
        BY <1>2, <1>4, <1>9, <3>1
    <2>3. QED
      BY <2>1, <2>2
  <1>10. QED
    BY <1>7, <1>8, <1>9

\* Get's value after any commands.
LEMMA GetHoldsLast ==
    ASSUME NEW commands, NEW K \in Nat, Len(commands) = K, DOMAIN commands = 1 .. K,
           \A i \in 1 .. K : commands[i] \in WriteCommand \cup ReadCommand,
           NEW key
    PROVE  \E s \in InOrder(LastWrites(commands, key)) :
              Get(Replay(commands), key) =
                 IF s = <<>> THEN NotFound
                 ELSE FlattenSeq([i \in DOMAIN s |-> commands[s[i]].value])
  <1> DEFINE at == LastUpTo(commands, key, K)
  <1>1. PICK m : Replays(m, commands, K) /\ Replay(commands) = m[K]
    BY ReplaySteps
  <1> DEFINE T == {i \in 0 .. K : HoldsLast(m[i], commands, key, i)}
  <1>2. 0 \in T
    <2>1. LastUpTo(commands, key, 0) = {}
      BY DEF LastUpTo
    <2>2. m[0] = EmptyMap /\ key \notin DOMAIN EmptyMap /\ 0 \in 0 .. K
      BY <1>1 DEF Replays, EmptyMap
    <2>3. QED
      BY <2>1, <2>2 DEF HoldsLast
  <1>3. ASSUME NEW i \in 1 .. K, i - 1 \in T PROVE i \in T
    <2>1. /\ i \in Nat \ {0} /\ i \in 0 .. K /\ i - 1 \in 0 .. K
          /\ m[i - 1] \in Maps /\ m[i] = Execute(m[i - 1], commands[i])
          /\ commands[i] \in WriteCommand \cup ReadCommand
      BY <1>1 DEF Replays
    <2>2. HoldsLast(m[i - 1], commands, key, i - 1)
      BY <1>3
    <2>3. HoldsLast(m[i], commands, key, i)
      BY <2>1, <2>2, HoldsLastStep
    <2>4. QED
      BY <2>1, <2>3
  <1>4. HoldsLast(m[K], commands, key, K)
    <2> HIDE DEF T
    <2>1. \A i \in 0 .. K : i \in T
      BY <1>2, <1>3, UpTo
    <2>2. K \in T
      BY <2>1
    <2>3. QED
      BY <2>2 DEF T
  <1>5. LastWrites(commands, key) = at
    <2>1. \A i, j : i \in 1 .. K => (j \in i + 1 .. K <=> j \in 1 .. K /\ j > i)
      OBVIOUS
    <2>2. QED
      BY <2>1 DEF LastWrites, LastUpTo
  <1>6. at \in SUBSET Nat /\ \A x \in at : commands[x].value \in Seq(Nat)
    <2>1. ASSUME NEW x \in at PROVE x \in 1 .. K /\ commands[x].op # "GET"
      BY DEF LastUpTo, Writes
    <2>2. ASSUME NEW x \in at PROVE commands[x].value \in Seq(Nat)
      <3>1. commands[x] \in WriteCommand \cup ReadCommand /\ HasValue(commands[x].op)
        BY <2>1 DEF HasValue
      <3>2. QED
        BY <3>1, CommandLayout
    <2>3. QED
      BY <2>1, <2>2
  <1> HIDE DEF at
  <1>7. CASE key \notin DOMAIN m[K]
    <2>1. at = {}
      BY <1>4, <1>7 DEF HoldsLast, at
    <2>2. Enumerates(<<>>, 0, at)
      BY <2>1 DEF Enumerates
    <2>3. <<>> \in InOrder(at)
      BY <1>6, <2>2, EnumeratesInOrder
    <2>4. Get(Replay(commands), key) = NotFound
      BY <1>1, <1>7 DEF Get
    <2>5. QED
      BY <1>5, <2>3, <2>4
  <1>8. CASE key \in DOMAIN m[K]
    <2> PICK k \in Nat \ {0} : \E s, f : /\ Enumerates(s, k, at)
                                         /\ Joins(f, [i \in 1 .. k |-> commands[s[i]].value], k)
                                         /\ m[K][key] = f[k]
      BY <1>4, <1>8 DEF HoldsLast, Written, at
    <2>1. PICK s, f : /\ Enumerates(s, k, at)
                      /\ Joins(f, [i \in 1 .. k |-> commands[s[i]].value], k)
                      /\ m[K][key] = f[k]
      OBVIOUS
    <2> DEFINE v == [i \in 1 .. k |-> commands[s[i]].value]
    <2>2. s \in [1 .. k -> at] /\ DOMAIN s = 1 .. k
      BY <2>1 DEF Enumerates
    <2>3. v \in [1 .. k -> Seq(Nat)]
      BY <1>6, <2>2
    <2>4. Joins(f, v, k) /\ v = [i \in DOMAIN s |-> commands[s[i]].value]
      BY <2>1, <2>2
    <2> HIDE DEF v
    <2>5. FlattenSeq(v) = f[k]
      BY <2>3, <2>4, FlattenJoins
    <2>6. s \in InOrder(at)
      BY <1>6, <2>1, EnumeratesInOrder
    <2>7. s # <<>>
      BY <2>2
    <2>8. Get(Replay(commands), key) = FlattenSeq(v)
      BY <1>1, <1>8, <2>1, <2>5 DEF Get
    <2>9. QED
      BY <1>5, <2>4, <2>6, <2>7, <2>8
  <1>9. QED
    BY <1>7, <1>8

\* A GET returns what the last PUT to its key and the APPENDs since then wrote, in
\* the order in which the log has them.
THEOREM GetsReturnTheLastWrites == Spec => []GetReturnsTheLastWrites
  <1>1. LogInv => GetReturnsTheLastWrites
    <2> SUFFICES ASSUME LogInv PROVE GetReturnsTheLastWrites
      OBVIOUS
    <2>1. WellFormed(log) /\ CommandsFit
      BY CommandsAssumption DEF LogInv
    <2> DEFINE K == Len(SavedEntries(log))
    <2>2. SavedEntries(log) \in Seq(Entry)
      BY <2>1, SerializeLogWrites
    <2>3. K \in Nat /\ DOMAIN SavedEntries(log) = 1 .. K
      BY <2>2
    <2>4. DOMAIN Commands = 1 .. K /\ Len(Commands) = K
      BY <2>3 DEF Commands
    <2>5. \A i \in 1 .. K : Commands[i] \in WriteCommand \cup ReadCommand
      BY <2>4, SavedCommands
    <2> DEFINE cs == Commands
    <2> HIDE DEF K, cs
    <2>6. \A key : \E s \in InOrder(LastWrites(cs, key)) :
             Get(Replay(cs), key) =
                IF s = <<>> THEN NotFound ELSE FlattenSeq([i \in DOMAIN s |-> cs[s[i]].value])
      <3>1. K \in Nat /\ Len(cs) = K /\ DOMAIN cs = 1 .. K
            /\ \A i \in 1 .. K : cs[i] \in WriteCommand \cup ReadCommand
        BY <2>3, <2>4, <2>5 DEF cs
      <3>2. QED
        BY ONLY <3>1, GetHoldsLast
    <2>7. QED
      BY <2>6 DEF GetReturnsTheLastWrites, cs
  <1>2. QED
    BY <1>1, LogInvHolds, PTL
=============================================================================
