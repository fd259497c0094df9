--------------------------- MODULE RaftLogProofs ---------------------------
(***************************************************************************)
(* Lemmas about the operations of RaftLog, for every log: what each does   *)
(* to the shape of a log, and what a log that was saved reads back as.     *)
(* The modules on RaftNode cite them.                                      *)
(***************************************************************************)
EXTENDS RaftPersistence, TLAPS, SequenceTheorems, WellFoundedInduction

----------------------------------------------------------------------------
(***************************************************************************)
(* Recursive functions over 0 .. K.                                        *)
(***************************************************************************)

\* A set of numbers that is not empty has a least one.
LEMMA LeastOf ==
    ASSUME NEW T \in SUBSET Nat, T # {}
    PROVE  \E x \in T : \A y \in T : x <= y
  <1> DEFINE R == {ss \in Nat \X Nat : ss[1] < ss[2]}
  <1>1. IsWellFoundedOn(R, Nat)
    BY NatLessThanWellFounded DEF OpToRel
  <1> HIDE DEF R
  <1>2. PICK x \in T : \A y \in T : ~ (<<y, x>> \in R)
    BY <1>1, WFMin
  <1>3. ASSUME NEW y \in T PROVE x <= y
    <2>1. <<y, x>> \notin R
      BY <1>2
    <2>2. ~(y < x)
      BY <2>1 DEF R
    <2>3. QED
      BY <2>2
  <1>4. QED
    BY <1>3

\* Induction over 0 .. K, for a property given as the set T of what has it.
LEMMA UpTo ==
    ASSUME NEW K \in Nat, NEW T, 0 \in T, \A k \in 1 .. K : k - 1 \in T => k \in T
    PROVE  \A k \in 0 .. K : k \in T
  <1> DEFINE B == {k \in 0 .. K : k \notin T}
  <1>1. SUFFICES ASSUME B # {} PROVE FALSE
    OBVIOUS
  <1>2. B \in SUBSET Nat
    OBVIOUS
  <1>3. PICK b \in B : \A y \in B : b <= y
    BY <1>1, <1>2, LeastOf
  <1>4. b \in 1 .. K /\ b - 1 \in 0 .. K
    BY <1>3
  <1>5. b - 1 \notin B
    BY <1>3, <1>4
  <1>6. QED
    BY <1>3, <1>4, <1>5

\* The function f starts with s0 and goes on with step, which stays in S.
Iterates(f, S, s0, K, step) ==
    /\ f \in [0 .. K -> S]
    /\ f[0] = s0
    /\ \A k \in 1 .. K : f[k] = step[k][f[k - 1]]

\* There is one: what a recursive definition over 0 .. K stands for.
LEMMA RecursionExists ==
    ASSUME NEW S, NEW s0 \in S, NEW K \in Nat, NEW step \in [1 .. K -> [S -> S]]
    PROVE  \E f : Iterates(f, S, s0, K, step)
  <1> DEFINE Good(n, f) == /\ f \in [0 .. n -> S] /\ f[0] = s0
                           /\ \A k \in 1 .. n : f[k] = step[k][f[k - 1]]
             T == {n \in 0 .. K : \E f : Good(n, f)}
  <1>1. 0 \in T
    <2>1. Good(0, [i \in 0 .. 0 |-> s0])
      OBVIOUS
    <2> HIDE DEF Good
    <2>2. QED
      BY <2>1
  <1>2. ASSUME NEW n \in 1 .. K, n - 1 \in T PROVE n \in T
    <2>1. PICK f : Good(n - 1, f)
      BY <1>2
    <2> DEFINE g == [i \in 0 .. n |-> IF i < n THEN f[i] ELSE step[n][f[n - 1]]]
    <2>2. f[n - 1] \in S /\ \A i \in 0 .. n - 1 : f[i] \in S
      BY <2>1
    <2>3. step[n][f[n - 1]] \in S
      BY <2>2
    <2>4. g \in [0 .. n -> S] /\ g[0] = s0
      BY <2>1, <2>2, <2>3
    <2>5. ASSUME NEW k \in 1 .. n PROVE g[k] = step[k][g[k - 1]]
      <3>1. g[k - 1] = f[k - 1]
        OBVIOUS
      <3>2. CASE k = n
        BY <3>1, <3>2
      <3>3. CASE k # n
        BY <2>1, <3>1, <3>3
      <3>4. QED
        BY <3>2, <3>3
    <2> HIDE DEF g
    <2>6. Good(n, g)
      BY <2>4, <2>5
    <2>7. QED
      BY <2>6
  <1> HIDE DEF T
  <1>3. K \in T
    <2>1. \A k \in 0 .. K : k \in T
      BY <1>1, <1>2, UpTo
    <2>2. QED
      BY <2>1
  <1>4. QED
    BY <1>3 DEF T, Iterates

----------------------------------------------------------------------------
\* A part of a sequence from any position m, also one beyond its end.
LEMMA SubSeqFrom ==
    ASSUME NEW S, NEW s \in Seq(S), NEW m \in Nat \ {0}
    PROVE  /\ SubSeq(s, m, Len(s)) \in Seq(S)
           /\ \A i \in 1 .. Len(SubSeq(s, m, Len(s))) :
                 /\ i + m - 1 \in 1 .. Len(s)
                 /\ SubSeq(s, m, Len(s))[i] = s[i + m - 1]
           /\ Len(SubSeq(s, m, Len(s))) = IF m <= Len(s) THEN Len(s) - m + 1 ELSE 0
  OBVIOUS

LEMMA SubSeqUpTo ==
    ASSUME NEW S, NEW s \in Seq(S), NEW n \in 0 .. Len(s)
    PROVE  /\ SubSeq(s, 1, n) \in Seq(S)
           /\ Len(SubSeq(s, 1, n)) = n
           /\ \A i \in 1 .. n : SubSeq(s, 1, n)[i] = s[i]
  OBVIOUS

LEMMA ConcatParts ==
    ASSUME NEW S, NEW a \in Seq(S), NEW b \in Seq(S)
    PROVE  /\ a \o b \in Seq(S)
           /\ Len(a \o b) = Len(a) + Len(b)
           /\ \A i \in 1 .. Len(a) + Len(b) :
                 (a \o b)[i] = IF i <= Len(a) THEN a[i] ELSE b[i - Len(a)]
  OBVIOUS

\* The constructor's log is well formed.
LEMMA EmptyLogWellFormed == WellFormed(EmptyLog)
  BY DEF WellFormed, EmptyLog, Log, Entry, Sentinel, Size, Contiguous, Payload

\* The parts of a well-formed log, spelled out.
Parts(lg) ==
    /\ lg.Entries \in Seq(Entry)
    /\ Size(lg) = Len(lg.Entries) /\ Size(lg) \in Nat /\ Size(lg) > 0
    /\ lg.snapshotIndex \in Nat
    /\ lg.snapshotTerm \in Nat
    /\ \A k \in 1 .. Size(lg) : /\ lg.Entries[k] \in Entry
                                /\ lg.Entries[k].term \in Nat
                                /\ lg.Entries[k].index = lg.snapshotIndex + k - 1

LEMMA LogParts ==
    ASSUME NEW lg, WellFormed(lg)
    PROVE  Parts(lg)
  <1>1. lg \in Log /\ Size(lg) > 0 /\ Contiguous(lg)
    BY DEF WellFormed
  <1>2. \A k \in 1 .. Size(lg) : lg.Entries[k] \in Entry
    BY <1>1 DEF Log, Size
  <1>3. \A k \in 1 .. Size(lg) : lg.Entries[k].term \in Nat
    BY <1>2 DEF Entry
  <1>4. QED
    BY <1>1, <1>2, <1>3 DEF Log, Size, Contiguous, Parts

\* A record of parts that fit is a well-formed log.
LEMMA LogOfParts ==
    ASSUME NEW es \in Seq(Entry), NEW i \in Nat, NEW t \in Nat, Len(es) > 0,
           \A k \in 1 .. Len(es) : es[k].index = i + k - 1
    PROVE  WellFormed([Entries |-> es, snapshotIndex |-> i, snapshotTerm |-> t])
  BY DEF WellFormed, Log, Size, Contiguous

\* A log with other entries, written with EXCEPT.
LEMMA LogExceptEntries ==
    ASSUME NEW lg, WellFormed(lg), NEW es
    PROVE  [lg EXCEPT !.Entries = es]
             = [Entries |-> es, snapshotIndex |-> lg.snapshotIndex,
                snapshotTerm |-> lg.snapshotTerm]
  BY DEF WellFormed, Log

\* getLastIndex and getLastTerm, from the length and the last entry.
LEMMA LogLast ==
    ASSUME NEW lg, WellFormed(lg)
    PROVE  /\ getLastIndex(lg) = lg.snapshotIndex + Size(lg) - 1
           /\ getLastIndex(lg) \in Nat
           /\ getLastTerm(lg) \in Nat
  <1>1. Parts(lg)
    BY LogParts
  <1>2. QED
    BY <1>1 DEF getLastIndex, getLastTerm, Parts

\* EntrySet, by the index of an entry.
LEMMA LogEntrySet ==
    ASSUME NEW lg, WellFormed(lg)
    PROVE  \A e \in EntrySet(lg) : e \in Entry /\ HasEntry(lg, e.index) /\ getEntry(lg, e.index) = e
  <1> SUFFICES ASSUME NEW k \in 2 .. Size(lg), NEW e, e = lg.Entries[k]
               PROVE  e \in Entry /\ HasEntry(lg, e.index) /\ getEntry(lg, e.index) = e
    BY DEF EntrySet
  <1>1. Parts(lg)
    BY LogParts
  <1>2. e \in Entry /\ e.index = lg.snapshotIndex + k - 1
    BY <1>1 DEF Parts
  <1>3. e.index - lg.snapshotIndex + 1 = k /\ e.index > lg.snapshotIndex
          /\ e.index - lg.snapshotIndex < Size(lg)
    BY <1>1, <1>2 DEF Parts
  <1>4. QED
    BY <1>2, <1>3 DEF HasEntry, getEntry

LEMMA LogGetTerm ==
    ASSUME NEW lg, WellFormed(lg), NEW i \in Nat
    PROVE  getTerm(lg, i) \in Nat
  <1>1. Parts(lg)
    BY LogParts
  <1>2. QED
    BY <1>1 DEF getTerm, Parts

\* getEntry returns the entry with the index asked for.
LEMMA LogGetEntry ==
    ASSUME NEW lg, WellFormed(lg), NEW i \in Nat, HasEntry(lg, i)
    PROVE  getEntry(lg, i) \in Entry /\ getEntry(lg, i).index = i
  <1> DEFINE k == i - lg.snapshotIndex + 1
  <1>1. Parts(lg)
    BY LogParts
  <1>2. k \in 1 .. Size(lg) /\ lg.snapshotIndex + k - 1 = i
    <2> DEFINE s == lg.snapshotIndex
               n == Size(lg)
    <2>1. i > s /\ i - s < n
      BY DEF HasEntry
    <2>2. s \in Nat /\ n \in Nat
      BY <1>1 DEF Parts
    <2> HIDE DEF s, n
    <2>3. i - s + 1 \in 1 .. n /\ s + (i - s + 1) - 1 = i
      BY <2>1, <2>2
    <2>4. QED
      BY <2>3 DEF s, n
  <1>3. getEntry(lg, i) = lg.Entries[k]
    BY DEF getEntry
  <1> HIDE DEF k
  <1>4. QED
    BY <1>1, <1>2, <1>3 DEF Parts

\* append keeps a log well formed when it does not throw.
LEMMA AppendWellFormed ==
    ASSUME NEW lg, WellFormed(lg), NEW e \in Entry, CanAppend(lg, e)
    PROVE  WellFormed(append(lg, e)) /\ append(lg, e).snapshotIndex = lg.snapshotIndex
  <1> DEFINE es == Append(lg.Entries, e)
  <1>1. Parts(lg)
    BY LogParts
  <1>2. append(lg, e) = [Entries |-> es, snapshotIndex |-> lg.snapshotIndex,
                         snapshotTerm |-> lg.snapshotTerm]
    BY LogExceptEntries DEF append
  <1>3. es \in Seq(Entry) /\ Len(es) = Size(lg) + 1 /\ Len(es) > 0
    BY <1>1 DEF Parts
  <1>4. e.index = lg.snapshotIndex + Size(lg)
    <2>1. e.index = getLastIndex(lg) + 1
      BY DEF CanAppend
    <2>2. QED
      BY <1>1, <2>1, LogLast DEF Parts
  <1>5. ASSUME NEW k \in 1 .. Len(es) PROVE es[k].index = lg.snapshotIndex + k - 1
    <2>1. lg.Entries \in Seq(Entry) /\ Len(lg.Entries) = Size(lg) /\ Size(lg) \in Nat
      BY <1>1 DEF Parts
    <2>2. CASE k = Size(lg) + 1
      <3>1. es[k] = e
        BY <2>1, <2>2
      <3>2. QED
        BY <1>1, <1>4, <2>2, <3>1 DEF Parts
    <2>3. CASE k # Size(lg) + 1
      <3>1. k \in 1 .. Size(lg) /\ es[k] = lg.Entries[k]
        BY <1>3, <2>1, <2>3
      <3>2. QED
        BY <1>1, <3>1 DEF Parts
    <2>4. QED
      BY <2>2, <2>3
  <1>6. lg.snapshotIndex \in Nat /\ lg.snapshotTerm \in Nat
    BY <1>1 DEF Parts
  <1> HIDE DEF es
  <1>7. QED
    BY <1>2, <1>3, <1>5, <1>6, LogOfParts

\* truncate keeps a log well formed, whatever position it cuts at.
LEMMA TruncateWellFormed ==
    ASSUME NEW lg, WellFormed(lg), NEW i \in Nat \ {0}
    PROVE  /\ WellFormed(truncate(lg, i))
           /\ truncate(lg, i).snapshotIndex = lg.snapshotIndex
           /\ getLastIndex(truncate(lg, i)) =
                 IF i >= Size(lg) THEN getLastIndex(lg) ELSE lg.snapshotIndex + i - 1
  <1>1. Parts(lg)
    BY LogParts
  <1>2. CASE i >= Size(lg)
    BY <1>2 DEF truncate
  <1>3. CASE ~(i >= Size(lg))
    <2> DEFINE es == SubSeq(lg.Entries, 1, i)
    <2>1. i \in 0 .. Len(lg.Entries) /\ lg.Entries \in Seq(Entry) /\ i \in 1 .. Size(lg)
      BY <1>1, <1>3 DEF Parts
    <2>2. es \in Seq(Entry) /\ Len(es) = i /\ \A k \in 1 .. i : es[k] = lg.Entries[k]
      BY <2>1, SubSeqUpTo
    <2>3. truncate(lg, i) = [lg EXCEPT !.Entries = es]
      BY <1>3 DEF truncate
    <2>4. truncate(lg, i) = [Entries |-> es, snapshotIndex |-> lg.snapshotIndex,
                             snapshotTerm |-> lg.snapshotTerm]
      BY <2>3, LogExceptEntries
    <2> HIDE DEF es
    <2>5. \A k \in 1 .. Len(es) : es[k].index = lg.snapshotIndex + k - 1
      BY <1>1, <2>1, <2>2 DEF Parts
    <2>6. lg.snapshotIndex \in Nat /\ lg.snapshotTerm \in Nat
      BY <1>1 DEF Parts
    <2>7. WellFormed(truncate(lg, i))
      BY <2>2, <2>4, <2>5, <2>6, LogOfParts
    <2>8. Size(truncate(lg, i)) = i /\ truncate(lg, i).snapshotIndex = lg.snapshotIndex
      BY <2>2, <2>4 DEF Size
    <2>9. getLastIndex(truncate(lg, i)) = lg.snapshotIndex + i - 1
      BY <2>7, <2>8, LogLast
    <2>10. QED
      BY <1>3, <2>7, <2>8, <2>9
  <1>4. QED
    BY <1>2, <1>3

\* Compaction keeps a log well formed and moves its base to the given index.
LEMMA DiscardWellFormed ==
    ASSUME NEW lg, WellFormed(lg), NEW i \in Nat, NEW t \in Nat
    PROVE  /\ WellFormed(discardEntriesUpTo(lg, i, t))
           /\ discardEntriesUpTo(lg, i, t).snapshotIndex =
                 IF i <= lg.snapshotIndex THEN lg.snapshotIndex ELSE i
  <1> DEFINE position == i - lg.snapshotIndex
             es == IF position >= Size(lg) THEN <<Sentinel(i, t)>>
                   ELSE SubSeq(lg.Entries, position + 1, Size(lg))
  <1>1. Parts(lg)
    BY LogParts
  <1>2. CASE i <= lg.snapshotIndex
    BY <1>2 DEF discardEntriesUpTo
  <1>3. CASE ~(i <= lg.snapshotIndex)
    <2>1. discardEntriesUpTo(lg, i, t) = [Entries |-> es, snapshotIndex |-> i, snapshotTerm |-> t]
      BY <1>3 DEF discardEntriesUpTo
    <2>2. es \in Seq(Entry) /\ Len(es) > 0 /\ \A k \in 1 .. Len(es) : es[k].index = i + k - 1
      <3>1. CASE position >= Size(lg)
        <4>1. es = <<Sentinel(i, t)>>
          BY <3>1
        <4>2. Sentinel(i, t) \in Entry /\ Sentinel(i, t).index = i
          BY DEF Sentinel, Entry, Payload
        <4> HIDE DEF es
        <4>3. QED
          BY <4>1, <4>2
      <3>2. CASE ~(position >= Size(lg))
        <4> DEFINE m == position + 1
        <4>1. es = SubSeq(lg.Entries, m, Size(lg)) /\ Size(lg) = Len(lg.Entries)
          BY <1>1, <3>2 DEF Parts
        <4>2. /\ m \in Nat \ {0} /\ m <= Len(lg.Entries)
              /\ lg.snapshotIndex + m - 1 = i
              /\ lg.Entries \in Seq(Entry)
          BY <1>1, <1>3, <3>2 DEF Parts
        <4> HIDE DEF m, es
        <4>3. es = SubSeq(lg.Entries, m, Len(lg.Entries))
          BY <4>1
        <4>4. /\ es \in Seq(Entry)
              /\ \A k \in 1 .. Len(es) : /\ k + m - 1 \in 1 .. Len(lg.Entries)
                                         /\ es[k] = lg.Entries[k + m - 1]
              /\ Len(es) = Len(lg.Entries) - m + 1
          BY <4>2, <4>3, SubSeqFrom
        <4>5. ASSUME NEW k \in 1 .. Len(es) PROVE es[k].index = i + k - 1
          <5>1. k + m - 1 \in 1 .. Size(lg) /\ es[k] = lg.Entries[k + m - 1]
            BY <4>1, <4>4
          <5>2. lg.Entries[k + m - 1].index = lg.snapshotIndex + (k + m - 1) - 1
            BY <1>1, <5>1 DEF Parts
          <5>3. QED
            BY <1>1, <4>2, <5>1, <5>2 DEF Parts
        <4>6. Len(es) > 0
          BY <4>2, <4>4
        <4>7. QED
          BY <4>4, <4>5, <4>6
      <3>3. QED
        BY <3>1, <3>2
    <2> HIDE DEF es
    <2>3. WellFormed([Entries |-> es, snapshotIndex |-> i, snapshotTerm |-> t])
      BY <2>2, LogOfParts
    <2>4. QED
      BY <1>3, <2>1, <2>3
  <1>4. QED
    BY <1>2, <1>3

\* The entries a leader sends from an index it still has are consecutive.
LEMMA EntriesFromConsecutive ==
    ASSUME NEW lg, WellFormed(lg), NEW next \in Nat, next > lg.snapshotIndex
    PROVE  /\ EntriesFrom(lg, next) \in Seq(Entry)
           /\ \A k \in 1 .. Len(EntriesFrom(lg, next)) :
                 EntriesFrom(lg, next)[k].index = next - 1 + k
  <1> DEFINE m == next - lg.snapshotIndex + 1
             es == EntriesFrom(lg, next)
  <1>1. Parts(lg)
    BY LogParts
  <1>2. m \in Nat \ {0} /\ lg.snapshotIndex + m - 1 = next /\ lg.Entries \in Seq(Entry)
    BY <1>1 DEF Parts
  <1>3. es = SubSeq(lg.Entries, m, Size(lg)) /\ Size(lg) = Len(lg.Entries)
    BY <1>1 DEF EntriesFrom, Parts
  <1> HIDE DEF m, es
  <1>4. /\ es \in Seq(Entry)
        /\ \A k \in 1 .. Len(es) : /\ k + m - 1 \in 1 .. Len(lg.Entries)
                                   /\ es[k] = lg.Entries[k + m - 1]
    BY <1>2, <1>3, SubSeqFrom
  <1>5. ASSUME NEW k \in 1 .. Len(es) PROVE es[k].index = next - 1 + k
    <2>1. k + m - 1 \in 1 .. Size(lg) /\ es[k] = lg.Entries[k + m - 1]
      BY <1>3, <1>4
    <2>2. lg.Entries[k + m - 1].index = lg.snapshotIndex + (k + m - 1) - 1
      BY <1>1, <2>1 DEF Parts
    <2>3. QED
      BY <1>1, <1>2, <2>1, <2>2 DEF Parts
  <1>6. QED
    BY <1>4, <1>5 DEF es

\* The log that a merge leaves before it appends, and what it appends to it.
KeptBy(lg, prev, entries, k) == IF k <= Len(entries) THEN truncate(lg, prev + k) ELSE lg

ExtendedBy(all, kept, entries) ==
    /\ Size(all) >= Size(kept)
    /\ \A i \in 1 .. Size(all) : \/ i <= Size(kept) /\ all.Entries[i] = kept.Entries[i]
                               \/ \E j \in 1 .. Len(entries) : all.Entries[i] = entries[j]

\* A merge keeps a log well formed, so none of its appends throws.
LEMMA MergeWellFormed ==
    ASSUME NEW lg, WellFormed(lg),
           NEW prev \in Nat, prev <= getLastIndex(lg),
           NEW entries \in Seq(Entry),
           \A j \in 1 .. Len(entries) : entries[j].index = prev + j,
           NEW k \in 1 .. Len(entries) + 1
    PROVE  /\ WellFormed(Merge(lg, prev, entries, k))
           /\ Merge(lg, prev, entries, k).snapshotIndex = lg.snapshotIndex
           /\ ExtendedBy(Merge(lg, prev, entries, k), KeptBy(lg, prev, entries, k), entries)
  <1> DEFINE kept == IF k <= Len(entries) THEN truncate(lg, prev + k) ELSE lg
             m    == getLastIndex(kept) - prev + 1
             new  == SubSeq(entries, m, Len(entries))
             es   == kept.Entries \o new
  <1>1. Len(entries) \in Nat /\ k \in Nat /\ prev + k \in Nat \ {0}
    OBVIOUS
  <1>2. /\ WellFormed(kept) /\ kept.snapshotIndex = lg.snapshotIndex
        /\ getLastIndex(kept) \in Nat /\ getLastIndex(kept) >= prev
    <2>1. CASE k <= Len(entries)
      <3>1. kept = truncate(lg, prev + k)
        BY <2>1
      <3>2. WellFormed(kept) /\ kept.snapshotIndex = lg.snapshotIndex
        BY <1>1, <3>1, TruncateWellFormed
      <3>3. getLastIndex(kept) = IF prev + k >= Size(lg) THEN getLastIndex(lg)
                                 ELSE lg.snapshotIndex + (prev + k) - 1
        BY <1>1, <3>1, TruncateWellFormed
      <3> HIDE DEF kept
      <3>4. Parts(lg) /\ getLastIndex(lg) \in Nat
        BY LogParts, LogLast
      <3>5. QED
        BY <1>1, <3>2, <3>3, <3>4 DEF Parts
    <2>2. CASE ~(k <= Len(entries))
      BY <2>2, LogLast
    <2>3. QED
      BY <2>1, <2>2
  <1>3. Merge(lg, prev, entries, k) = [kept EXCEPT !.Entries = es]
    BY DEF Merge
  <1>0. KeptBy(lg, prev, entries, k) = kept
    BY DEF KeptBy
  <1> HIDE DEF kept
  <1>4. m \in Nat \ {0} /\ getLastIndex(kept) = prev + m - 1
    BY <1>2
  <1> HIDE DEF m
  <1>5. /\ new \in Seq(Entry)
        /\ \A i \in 1 .. Len(new) : /\ i + m - 1 \in 1 .. Len(entries)
                                    /\ new[i] = entries[i + m - 1]
    BY <1>4, SubSeqFrom
  <1> HIDE DEF new
  <1>6. ASSUME NEW i \in 1 .. Len(new) PROVE new[i].index = getLastIndex(kept) + i
    <2>1. i + m - 1 \in 1 .. Len(entries) /\ new[i] = entries[i + m - 1]
      BY <1>5
    <2>2. entries[i + m - 1].index = prev + (i + m - 1)
      BY <2>1
    <2>3. QED
      BY <1>4, <2>1, <2>2
  <1>7. Parts(kept)
    BY <1>2, LogParts
  <1>8. getLastIndex(kept) = kept.snapshotIndex + Size(kept) - 1
    BY <1>2, LogLast
  <1>9. /\ es \in Seq(Entry)
        /\ Len(es) = Size(kept) + Len(new)
        /\ Len(es) > 0
        /\ \A i \in 1 .. Len(es) :
              es[i] = IF i <= Size(kept) THEN kept.Entries[i] ELSE new[i - Size(kept)]
    <2>1. kept.Entries \in Seq(Entry) /\ Len(kept.Entries) = Size(kept) /\ Size(kept) > 0
          /\ Size(kept) \in Nat
      BY <1>7 DEF Parts
    <2>2. /\ es \in Seq(Entry)
          /\ Len(es) = Len(kept.Entries) + Len(new)
          /\ \A i \in 1 .. Len(kept.Entries) + Len(new) :
                es[i] = IF i <= Len(kept.Entries) THEN kept.Entries[i]
                                                  ELSE new[i - Len(kept.Entries)]
      BY <1>5, <2>1, ConcatParts
    <2> HIDE DEF es
    <2>3. Len(new) \in Nat
      BY <1>5
    <2>4. QED
      BY <2>1, <2>2, <2>3
  <1> HIDE DEF es
  <1>10. ASSUME NEW i \in 1 .. Len(es) PROVE es[i].index = kept.snapshotIndex + i - 1
    <2>1. CASE i <= Size(kept)
      <3>1. es[i] = kept.Entries[i] /\ i \in 1 .. Size(kept)
        BY <1>7, <1>9, <2>1 DEF Parts
      <3>2. kept.Entries[i].index = kept.snapshotIndex + i - 1
        BY <1>7, <3>1 DEF Parts
      <3>3. QED
        BY <3>1, <3>2
    <2>2. CASE ~(i <= Size(kept))
      <3>0. Size(kept) \in Nat /\ Len(new) \in Nat /\ kept.snapshotIndex \in Nat
        BY <1>5, <1>7 DEF Parts
      <3>1. i - Size(kept) \in 1 .. Len(new) /\ es[i] = new[i - Size(kept)]
        BY <1>9, <2>2, <3>0
      <3>2. es[i].index = getLastIndex(kept) + (i - Size(kept))
        BY <1>6, <3>1
      <3>3. QED
        BY <1>8, <3>0, <3>2
    <2>3. QED
      BY <2>1, <2>2
  <1>11. Merge(lg, prev, entries, k)
           = [Entries |-> es, snapshotIndex |-> kept.snapshotIndex,
              snapshotTerm |-> kept.snapshotTerm]
    BY <1>2, <1>3, LogExceptEntries
  <1>12. kept.snapshotIndex \in Nat /\ kept.snapshotTerm \in Nat
    BY <1>7 DEF Parts
  <1>13. WellFormed([Entries |-> es, snapshotIndex |-> kept.snapshotIndex,
                     snapshotTerm |-> kept.snapshotTerm])
    BY <1>9, <1>10, <1>12, LogOfParts
  <1>14. ExtendedBy(Merge(lg, prev, entries, k), kept, entries)
    <2> DEFINE all == Merge(lg, prev, entries, k)
    <2>1. all.Entries = es /\ Size(all) = Len(es)
      BY <1>11 DEF Size
    <2>2. Size(kept) \in Nat /\ Len(new) \in Nat
      BY <1>5, <1>7 DEF Parts
    <2> HIDE DEF all
    <2>3. ASSUME NEW i \in 1 .. Len(es), ~(i <= Size(kept))
          PROVE  \E j \in 1 .. Len(entries) : es[i] = entries[j]
      <3>1. i - Size(kept) \in 1 .. Len(new) /\ es[i] = new[i - Size(kept)]
        BY <1>9, <2>2, <2>3
      <3>2. QED
        BY <1>5, <3>1
    <2>4. Len(es) >= Size(kept)
      BY <1>9, <2>2
    <2>5. QED
      BY <1>9, <2>1, <2>3, <2>4 DEF ExtendedBy, all
  <1>15. QED
    BY <1>0, <1>2, <1>11, <1>13, <1>14

\* The entries of a log after each of its operations, compacted or not.
LEMMA AppendEntrySet ==
    ASSUME NEW lg, WellFormed(lg), NEW e \in Entry
    PROVE  EntrySet(append(lg, e)) \subseteq EntrySet(lg) \cup {e}
  <1>1. lg.Entries \in Seq(Entry) /\ append(lg, e).Entries = Append(lg.Entries, e)
    BY LogParts DEF Parts, append, WellFormed, Log
  <1>2. QED
    BY <1>1 DEF EntrySet, Size

LEMMA DiscardEntrySet ==
    ASSUME NEW lg, WellFormed(lg), NEW i \in Nat, NEW t \in Nat
    PROVE  /\ EntrySet(discardEntriesUpTo(lg, i, t)) \subseteq EntrySet(lg)
           /\ getLastIndex(discardEntriesUpTo(lg, i, t)) >= getLastIndex(lg)
           /\ getLastIndex(discardEntriesUpTo(lg, i, t)) >= i
  <1> DEFINE new == discardEntriesUpTo(lg, i, t)
             position == i - lg.snapshotIndex
  <1> SUFFICES /\ EntrySet(new) \subseteq EntrySet(lg)
               /\ getLastIndex(new) >= getLastIndex(lg)
               /\ getLastIndex(new) >= i
    OBVIOUS
  <1>1. Parts(lg) /\ Size(lg) \in Nat /\ Size(lg) > 0 /\ lg.snapshotIndex \in Nat
    BY LogParts DEF Parts
  <1>2. /\ getLastIndex(lg) = lg.snapshotIndex + Size(lg) - 1
        /\ WellFormed(new) /\ getLastIndex(new) = new.snapshotIndex + Size(new) - 1
        /\ new.snapshotIndex = IF i <= lg.snapshotIndex THEN lg.snapshotIndex ELSE i
    BY LogLast, DiscardWellFormed
  <1>3. CASE i <= lg.snapshotIndex
    <2>1. new = lg
      BY <1>3 DEF discardEntriesUpTo
    <2>2. getLastIndex(lg) \in Nat /\ getLastIndex(lg) >= i
      BY <1>1, <1>2, <1>3 DEF Parts
    <2>3. QED
      BY <2>1, <2>2
  <1>4. CASE ~(i <= lg.snapshotIndex) /\ position >= Size(lg)
    <2>1. new.Entries = <<Sentinel(i, t)>>
      BY <1>4 DEF discardEntriesUpTo
    <2>2. Size(new) = 1 /\ EntrySet(new) = {}
      BY <2>1 DEF Size, EntrySet
    <2> HIDE DEF new
    <2>3. QED
      BY <1>1, <1>2, <1>4, <2>2
  <1>5. CASE ~(i <= lg.snapshotIndex) /\ ~(position >= Size(lg))
    <2>1. new.Entries = SubSeq(lg.Entries, position + 1, Size(lg))
      BY <1>5 DEF discardEntriesUpTo
    <2>2. position \in Nat /\ position > 0 /\ position < Size(lg)
      BY <1>1, <1>5 DEF Parts
    <2> DEFINE m == position + 1
    <2>3. m \in Nat \ {0} /\ m <= Size(lg)
      BY <1>1, <2>2 DEF Parts
    <2> HIDE DEF m
    <2>4. new.Entries = SubSeq(lg.Entries, m, Len(lg.Entries))
      BY <1>1, <2>1 DEF m, Parts
    <2>5. lg.Entries \in Seq(Entry) /\ Len(lg.Entries) = Size(lg)
      BY <1>1 DEF Parts
    <2>6. /\ Len(new.Entries) = Size(lg) - m + 1
          /\ \A k \in 1 .. Len(new.Entries) : /\ k + m - 1 \in 1 .. Len(lg.Entries)
                                             /\ new.Entries[k] = lg.Entries[k + m - 1]
      BY <2>3, <2>4, <2>5, SubSeqFrom
    <2>7. Size(new) = Size(lg) - m + 1
      BY <2>6 DEF Size
    <2>8. ASSUME NEW k \in 2 .. Size(new) PROVE new.Entries[k] \in EntrySet(lg)
      <3>1. k \in 1 .. Len(new.Entries) /\ k + m - 1 \in 2 .. Size(lg)
        BY <1>1, <2>3, <2>6, <2>7 DEF Parts
      <3>2. new.Entries[k] = lg.Entries[k + m - 1]
        BY <2>6, <3>1
      <3>3. QED
        BY <3>1, <3>2 DEF EntrySet
    <2>9. EntrySet(new) \subseteq EntrySet(lg)
      BY <2>8 DEF EntrySet
    <2>10. m = i - lg.snapshotIndex + 1
      BY DEF m
    <2> HIDE DEF new
    <2>11. QED
      BY <1>1, <1>2, <1>5, <2>3, <2>7, <2>9, <2>10
  <1>6. QED
    BY <1>3, <1>4, <1>5

LEMMA EntriesFromSet ==
    ASSUME NEW lg, WellFormed(lg), NEW next \in Nat, next > lg.snapshotIndex
    PROVE  \A j \in 1 .. Len(EntriesFrom(lg, next)) : EntriesFrom(lg, next)[j] \in EntrySet(lg)
  <1> DEFINE m == next - lg.snapshotIndex + 1
  <1>1. lg.Entries \in Seq(Entry) /\ Size(lg) = Len(lg.Entries) /\ lg.snapshotIndex \in Nat
    BY LogParts DEF Parts
  <1>2. m \in Nat \ {0} /\ m > 1
    BY <1>1
  <1>3. EntriesFrom(lg, next) = SubSeq(lg.Entries, m, Len(lg.Entries))
    BY <1>1 DEF EntriesFrom
  <1> HIDE DEF m
  <1>4. \A j \in 1 .. Len(EntriesFrom(lg, next)) :
           /\ j + m - 1 \in 1 .. Len(lg.Entries)
           /\ EntriesFrom(lg, next)[j] = lg.Entries[j + m - 1]
    <2> DEFINE s == lg.Entries
    <2>1. s \in Seq(Entry) /\ m \in Nat \ {0} /\ EntriesFrom(lg, next) = SubSeq(s, m, Len(s))
      BY <1>1, <1>2, <1>3
    <2> HIDE DEF s
    <2>2. \A j \in 1 .. Len(SubSeq(s, m, Len(s))) :
             j + m - 1 \in 1 .. Len(s) /\ SubSeq(s, m, Len(s))[j] = s[j + m - 1]
      BY ONLY <2>1, SubSeqFrom, Zenon
    <2>3. QED
      BY <2>1, <2>2 DEF s
  <1>5. ASSUME NEW j \in 1 .. Len(EntriesFrom(lg, next))
        PROVE  EntriesFrom(lg, next)[j] \in EntrySet(lg)
    <2>1. j + m - 1 \in 2 .. Size(lg)
      BY <1>1, <1>2, <1>4
    <2>2. QED
      BY <1>4, <2>1 DEF EntrySet
  <1>6. QED
    BY <1>5

LEMMA TruncateEntrySet ==
    ASSUME NEW lg, WellFormed(lg), NEW i \in Nat \ {0}
    PROVE  EntrySet(truncate(lg, i)) \subseteq EntrySet(lg)
  <1>1. lg.Entries \in Seq(Entry) /\ Size(lg) = Len(lg.Entries)
    BY LogParts DEF Parts
  <1>2. CASE i >= Size(lg)
    BY <1>2 DEF truncate
  <1>3. CASE ~(i >= Size(lg))
    <2>1. truncate(lg, i).Entries = SubSeq(lg.Entries, 1, i)
      BY <1>3 DEF truncate, WellFormed, Log
    <2>2. i \in 0 .. Len(lg.Entries)
      BY <1>1, <1>3
    <2>3. /\ Len(truncate(lg, i).Entries) = i
          /\ \A k \in 1 .. i : truncate(lg, i).Entries[k] = lg.Entries[k]
      BY <1>1, <2>1, <2>2, SubSeqUpTo
    <2>4. \A k \in 2 .. i : k \in 1 .. i /\ k \in 2 .. Size(lg)
      BY <1>1, <2>2
    <2>5. QED
      BY <2>3, <2>4 DEF EntrySet, Size
  <1>4. QED
    BY <1>2, <1>3

\* A merge adds entries of the request only; and it removes none when all
\* entries are of one term: then it finds a conflict only where getTerm looks
\* past the end of the vector, where truncate does nothing.
LEMMA MergeEntrySet ==
    ASSUME NEW lg, WellFormed(lg),
           NEW prev \in Nat, prev <= getLastIndex(lg),
           NEW entries \in Seq(Entry),
           \A j \in 1 .. Len(entries) : entries[j].index = prev + j,
           NEW k \in 1 .. Len(entries) + 1, IsFirstConflict(lg, prev, entries, k)
    PROVE  LET all == Merge(lg, prev, entries, k)
           IN  /\ \A e \in EntrySet(all) : \/ e \in EntrySet(lg)
                                           \/ \E j \in 1 .. Len(entries) : e = entries[j]
               /\ \A t : /\ \A e \in EntrySet(lg) : e.term = t
                         /\ \A j \in 1 .. Len(entries) : entries[j].term = t
                         => getLastIndex(all) >= getLastIndex(lg)
  <1> DEFINE all  == Merge(lg, prev, entries, k)
             kept == KeptBy(lg, prev, entries, k)
  <1>1. WellFormed(all) /\ all.snapshotIndex = lg.snapshotIndex /\ ExtendedBy(all, kept, entries)
    BY MergeWellFormed
  <1>2. prev + k \in Nat \ {0} /\ Len(entries) \in Nat
    OBVIOUS
  <1>3. EntrySet(kept) \subseteq EntrySet(lg) /\ Size(kept) \in Nat
    <2>1. WellFormed(kept)
      BY <1>2, TruncateWellFormed DEF KeptBy
    <2>2. Size(kept) \in Nat
      BY <2>1, LogParts DEF Parts
    <2>3. QED
      BY <1>2, <2>2, TruncateEntrySet DEF KeptBy
  <1>4. ASSUME NEW t, \A e \in EntrySet(lg) : e.term = t, \A j \in 1 .. Len(entries) : entries[j].term = t
        PROVE  kept = lg
    <2>1. CASE k <= Len(entries)
      <3>1. getTerm(lg, prev + k) # t
        BY <1>4, <2>1 DEF IsFirstConflict, Conflicts
      <3>2. prev + k >= Size(lg)
        <4>1. SUFFICES ASSUME ~(prev + k >= Size(lg)) PROVE FALSE
          OBVIOUS
        <4>2. Size(lg) \in Nat
          BY LogParts DEF Parts
        <4>3. prev + k + 1 \in 2 .. Size(lg)
          BY <1>2, <4>1, <4>2
        <4>4. lg.Entries[prev + k + 1] \in EntrySet(lg)
          BY <4>3 DEF EntrySet
        <4>5. getTerm(lg, prev + k) = lg.Entries[prev + k + 1].term
          BY <4>1 DEF getTerm
        <4>6. QED
          BY <1>4, <3>1, <4>4, <4>5
      <3>3. QED
        BY <3>2 DEF KeptBy, truncate
    <2>2. QED
      BY <2>1 DEF KeptBy
  <1> HIDE DEF all, kept
  <1>5. ASSUME NEW i \in 2 .. Size(all)
        PROVE  \/ all.Entries[i] \in EntrySet(lg)
               \/ \E j \in 1 .. Len(entries) : all.Entries[i] = entries[j]
    <2>1. i \in 1 .. Size(all)
      OBVIOUS
    <2>2. CASE i <= Size(kept) /\ all.Entries[i] = kept.Entries[i]
      <3>1. Size(all) \in Nat
        BY <1>1, LogParts DEF Parts
      <3>2. i \in 2 .. Size(kept)
        BY <1>3, <2>2, <3>1
      <3>3. QED
        BY <1>3, <2>2, <3>2 DEF EntrySet
    <2>3. QED
      BY <1>1, <2>1, <2>2 DEF ExtendedBy
  <1>6. \A e \in EntrySet(all) : \/ e \in EntrySet(lg)
                                 \/ \E j \in 1 .. Len(entries) : e = entries[j]
    BY <1>5 DEF EntrySet
  <1>7. Size(all) >= Size(kept)
    BY <1>1 DEF ExtendedBy
  <1>8. /\ getLastIndex(all) = all.snapshotIndex + Size(all) - 1
        /\ getLastIndex(lg) = lg.snapshotIndex + Size(lg) - 1
        /\ Size(all) \in Nat /\ Size(lg) \in Nat /\ lg.snapshotIndex \in Nat
    BY <1>1, LogLast, LogParts DEF Parts
  <1>9. kept = lg => getLastIndex(all) >= getLastIndex(lg)
    BY <1>1, <1>7, <1>8
  <1>10. QED
    BY <1>4, <1>6, <1>9 DEF all

----------------------------------------------------------------------------
(***************************************************************************)
(* Logs of which nothing was compacted: an entry is found at its index, so *)
(* getTerm and truncate, which take an index for a position, are right.    *)
(***************************************************************************)
Flat(lg) == WellFormed(lg) /\ lg.snapshotIndex = 0

LEMMA FlatParts ==
    ASSUME NEW lg, Flat(lg)
    PROVE  /\ getLastIndex(lg) = Size(lg) - 1 /\ getLastIndex(lg) \in Nat
           /\ \A i \in 1 .. getLastIndex(lg) :
                 /\ lg.Entries[i + 1] \in EntrySet(lg) /\ lg.Entries[i + 1] \in Entry
                 /\ lg.Entries[i + 1].index = i
           /\ \A e \in EntrySet(lg) :
                 /\ e.index \in 1 .. getLastIndex(lg)
                 /\ e = lg.Entries[e.index + 1]
  <1>1. Parts(lg) /\ lg.snapshotIndex = 0
    BY LogParts DEF Flat
  <1>2. getLastIndex(lg) = Size(lg) - 1 /\ getLastIndex(lg) \in Nat
    <2>1. getLastIndex(lg) = 0 + Size(lg) - 1 /\ getLastIndex(lg) \in Nat
      BY <1>1, LogLast DEF Flat
    <2>2. Size(lg) \in Nat
      BY <1>1 DEF Parts
    <2>3. QED
      BY <2>1, <2>2
  <1>3. ASSUME NEW i \in 1 .. getLastIndex(lg)
        PROVE  /\ lg.Entries[i + 1] \in EntrySet(lg) /\ lg.Entries[i + 1] \in Entry
               /\ lg.Entries[i + 1].index = i
    <2>1. i + 1 \in 2 .. Size(lg) /\ i + 1 \in 1 .. Size(lg)
      BY <1>1, <1>2 DEF Parts
    <2>2. lg.Entries[i + 1] \in Entry /\ lg.Entries[i + 1].index = lg.snapshotIndex + (i + 1) - 1
      BY <1>1, <2>1 DEF Parts
    <2>3. QED
      BY <1>1, <2>1, <2>2 DEF EntrySet
  <1>4. ASSUME NEW e \in EntrySet(lg)
        PROVE  e.index \in 1 .. getLastIndex(lg) /\ e = lg.Entries[e.index + 1]
    <2>1. PICK k \in 2 .. Size(lg) : e = lg.Entries[k]
      BY DEF EntrySet
    <2>2. k \in 1 .. Size(lg) /\ k \in Nat /\ k >= 2
      BY <1>1, <2>1 DEF Parts
    <2>3. e.index = lg.snapshotIndex + k - 1
      BY <1>1, <2>1, <2>2 DEF Parts
    <2>4. e.index = k - 1
      BY <1>1, <2>2, <2>3
    <2>5. QED
      BY <1>1, <1>2, <2>1, <2>2, <2>4 DEF Parts
  <1>5. QED
    BY <1>2, <1>3, <1>4

\* The entries of a flat log: one for each index up to the last.
LEMMA FlatEntries ==
    ASSUME NEW lg, Flat(lg)
    PROVE  /\ getLastIndex(lg) \in Nat
           /\ \A e \in EntrySet(lg) :
                 /\ e \in Entry /\ e.index \in 1 .. getLastIndex(lg)
                 /\ getTerm(lg, e.index) = e.term
                 /\ HasEntry(lg, e.index) /\ getEntry(lg, e.index) = e
                 /\ \A f \in EntrySet(lg) : f.index = e.index => f = e
           /\ \A i \in 1 .. getLastIndex(lg) : \E e \in EntrySet(lg) : e.index = i
           /\ \A i \in Nat : i > getLastIndex(lg) => getTerm(lg, i) = 0
  <1>1. /\ getLastIndex(lg) = Size(lg) - 1 /\ getLastIndex(lg) \in Nat
        /\ \A i \in 1 .. getLastIndex(lg) : lg.Entries[i + 1] \in EntrySet(lg)
                                            /\ lg.Entries[i + 1].index = i
        /\ \A e \in EntrySet(lg) : /\ e.index \in 1 .. getLastIndex(lg)
                                   /\ e = lg.Entries[e.index + 1]
    BY FlatParts
  <1>2. Size(lg) \in Nat
    BY LogParts DEF Parts, Flat
  <1>3. ASSUME NEW e \in EntrySet(lg)
        PROVE  /\ e \in Entry /\ e.index \in 1 .. getLastIndex(lg)
               /\ getTerm(lg, e.index) = e.term
               /\ HasEntry(lg, e.index) /\ getEntry(lg, e.index) = e
               /\ \A f \in EntrySet(lg) : f.index = e.index => f = e
    <2>1. e \in Entry /\ HasEntry(lg, e.index) /\ getEntry(lg, e.index) = e
      BY LogEntrySet DEF Flat
    <2>2. e.index \in 1 .. getLastIndex(lg) /\ e = lg.Entries[e.index + 1]
      BY <1>1
    <2>3. ~(e.index >= Size(lg))
      BY <1>1, <1>2, <2>2
    <2>4. QED
      BY <1>1, <2>1, <2>2, <2>3 DEF getTerm
  <1>4. ASSUME NEW i \in Nat, i > getLastIndex(lg) PROVE getTerm(lg, i) = 0
    <2>1. i >= Size(lg)
      BY <1>1, <1>2, <1>4
    <2>2. QED
      BY <2>1 DEF getTerm
  <1>5. QED
    BY <1>1, <1>3, <1>4

\* The last entry: the sentinel of an empty log, a member of EntrySet otherwise.
LEMMA FlatLast ==
    ASSUME NEW lg, Flat(lg)
    PROVE  /\ getLastIndex(lg) = 0 => getLastTerm(lg) = lg.Entries[1].term
           /\ getLastIndex(lg) > 0 => \E e \in EntrySet(lg) : /\ e.index = getLastIndex(lg)
                                                              /\ e.term = getLastTerm(lg)
  <1>1. /\ getLastIndex(lg) = Size(lg) - 1 /\ getLastIndex(lg) \in Nat
        /\ \A i \in 1 .. getLastIndex(lg) : lg.Entries[i + 1] \in EntrySet(lg)
                                            /\ lg.Entries[i + 1].index = i
    BY FlatParts
  <1>2. Size(lg) \in Nat
    BY LogParts DEF Parts, Flat
  <1>3. CASE getLastIndex(lg) = 0
    <2>1. Size(lg) = 1
      BY <1>1, <1>2, <1>3
    <2>2. QED
      BY <1>3, <2>1 DEF getLastTerm
  <1>4. CASE getLastIndex(lg) > 0
    <2>1. getLastIndex(lg) \in 1 .. getLastIndex(lg) /\ getLastIndex(lg) + 1 = Size(lg)
      BY <1>1, <1>2, <1>4
    <2>2. lg.Entries[Size(lg)] \in EntrySet(lg) /\ lg.Entries[Size(lg)].index = getLastIndex(lg)
      BY <1>1, <2>1
    <2>3. QED
      BY <1>1, <1>4, <2>2 DEF getLastTerm
  <1>5. QED
    BY <1>1, <1>3, <1>4

\* append adds its entry.
LEMMA FlatAppend ==
    ASSUME NEW lg, Flat(lg), NEW e \in Entry, CanAppend(lg, e)
    PROVE  /\ Flat(append(lg, e))
           /\ EntrySet(append(lg, e)) = EntrySet(lg) \cup {e}
           /\ getLastIndex(append(lg, e)) = getLastIndex(lg) + 1
           /\ append(lg, e).Entries[1] = lg.Entries[1]
  <1> DEFINE new == append(lg, e)
  <1>1. Flat(new)
    BY AppendWellFormed DEF Flat
  <1>2. Parts(lg)
    BY LogParts DEF Flat
  <1>3. new.Entries = Append(lg.Entries, e)
    BY DEF append, Flat, WellFormed, Log
  <1>4. /\ Size(new) = Size(lg) + 1 /\ Size(lg) \in Nat /\ Size(lg) > 0
        /\ new.Entries[Size(lg) + 1] = e
        /\ \A k \in 1 .. Size(lg) : new.Entries[k] = lg.Entries[k]
    <2>1. lg.Entries \in Seq(Entry) /\ Len(lg.Entries) = Size(lg) /\ Size(lg) \in Nat
          /\ Size(lg) > 0
      BY <1>2 DEF Parts
    <2>2. QED
      BY <1>3, <2>1 DEF Size
  <1> HIDE DEF new
  <1>5. EntrySet(new) = EntrySet(lg) \cup {e}
    <2>1. ASSUME NEW k \in 2 .. Size(new) PROVE new.Entries[k] \in EntrySet(lg) \cup {e}
      <3>1. k = Size(lg) + 1 \/ (k \in 2 .. Size(lg) /\ k \in 1 .. Size(lg))
        BY <1>4
      <3>2. QED
        BY <1>4, <3>1 DEF EntrySet
    <2>2. e \in EntrySet(new)
      <3>1. Size(lg) + 1 \in 2 .. Size(new)
        BY <1>4
      <3>2. QED
        BY <1>4, <3>1 DEF EntrySet
    <2>3. ASSUME NEW k \in 2 .. Size(lg) PROVE lg.Entries[k] \in EntrySet(new)
      <3>1. k \in 2 .. Size(new) /\ k \in 1 .. Size(lg)
        BY <1>4
      <3>2. QED
        BY <1>4, <3>1 DEF EntrySet
    <2>4. QED
      BY <2>1, <2>2, <2>3 DEF EntrySet
  <1>6. getLastIndex(new) = Size(new) - 1 /\ getLastIndex(lg) = Size(lg) - 1
    BY <1>1, FlatParts
  <1>7. QED
    BY <1>1, <1>4, <1>5, <1>6 DEF new

\* truncate below the last index keeps the entries below the given one.
LEMMA FlatTruncate ==
    ASSUME NEW lg, Flat(lg), NEW i \in 1 .. getLastIndex(lg)
    PROVE  /\ Flat(truncate(lg, i))
           /\ getLastIndex(truncate(lg, i)) = i - 1
           /\ EntrySet(truncate(lg, i)) = {e \in EntrySet(lg) : e.index < i}
           /\ truncate(lg, i).Entries[1] = lg.Entries[1]
  <1> DEFINE kept == truncate(lg, i)
  <1>1. /\ getLastIndex(lg) = Size(lg) - 1 /\ getLastIndex(lg) \in Nat /\ i \in Nat \ {0}
        /\ \A e \in EntrySet(lg) : /\ e.index \in 1 .. getLastIndex(lg)
                                   /\ e = lg.Entries[e.index + 1]
    BY FlatParts
  <1>2. Parts(lg) /\ lg.snapshotIndex = 0
    BY LogParts DEF Flat
  <1>3. ~(i >= Size(lg)) /\ i \in 0 .. Len(lg.Entries) /\ i > 0
    BY <1>1, <1>2 DEF Parts
  <1>4. Flat(kept) /\ getLastIndex(kept) = i - 1
    <2>1. /\ WellFormed(kept) /\ kept.snapshotIndex = lg.snapshotIndex
          /\ getLastIndex(kept) = IF i >= Size(lg) THEN getLastIndex(lg)
                                  ELSE lg.snapshotIndex + i - 1
      BY <1>1, TruncateWellFormed DEF Flat
    <2> HIDE DEF kept
    <2>2. QED
      BY <1>1, <1>2, <1>3, <2>1 DEF Flat
  <1>5. kept.Entries = SubSeq(lg.Entries, 1, i)
    BY <1>3 DEF truncate, Flat, WellFormed, Log
  <1>6. Size(kept) = i /\ \A k \in 1 .. i : kept.Entries[k] = lg.Entries[k]
    <2>1. /\ Len(SubSeq(lg.Entries, 1, i)) = i
          /\ \A k \in 1 .. i : SubSeq(lg.Entries, 1, i)[k] = lg.Entries[k]
      BY <1>2, <1>3, SubSeqUpTo DEF Parts
    <2>2. QED
      BY <1>5, <2>1 DEF Size
  <1> HIDE DEF kept
  <1>7. EntrySet(kept) = {e \in EntrySet(lg) : e.index < i}
    <2>1. ASSUME NEW k \in 2 .. Size(kept)
          PROVE  kept.Entries[k] \in EntrySet(lg) /\ kept.Entries[k].index < i
      <3>1. k \in 1 .. i /\ k \in 2 .. Size(lg) /\ k \in 1 .. Size(lg)
        BY <1>2, <1>3, <1>6 DEF Parts
      <3>2. kept.Entries[k] = lg.Entries[k] /\ lg.Entries[k].index = lg.snapshotIndex + k - 1
        BY <1>2, <1>6, <3>1 DEF Parts
      <3>3. lg.Entries[k].index < i
        BY <1>2, <3>1, <3>2
      <3>4. QED
        BY <3>1, <3>2, <3>3 DEF EntrySet
    <2>2. ASSUME NEW e \in EntrySet(lg), e.index < i PROVE e \in EntrySet(kept)
      <3>1. e = lg.Entries[e.index + 1] /\ e.index + 1 \in 2 .. Size(kept) /\ e.index + 1 \in 1 .. i
        BY <1>1, <1>6, <2>2
      <3>2. e = kept.Entries[e.index + 1]
        BY <1>6, <3>1
      <3>3. QED
        BY <3>1, <3>2 DEF EntrySet
    <2>3. QED
      BY <2>1, <2>2 DEF EntrySet
  <1>8. QED
    BY <1>3, <1>4, <1>6, <1>7 DEF kept

\* Entries appended one after the other.
LEMMA FlatConcat ==
    ASSUME NEW lg, Flat(lg), NEW new \in Seq(Entry),
           \A i \in 1 .. Len(new) : new[i].index = getLastIndex(lg) + i
    PROVE  LET all == [lg EXCEPT !.Entries = @ \o new]
           IN  /\ Flat(all)
               /\ getLastIndex(all) = getLastIndex(lg) + Len(new)
               /\ EntrySet(all) = EntrySet(lg) \cup {new[i] : i \in 1 .. Len(new)}
               /\ all.Entries[1] = lg.Entries[1]
  <1> DEFINE es  == lg.Entries \o new
             all == [lg EXCEPT !.Entries = @ \o new]
  <1>1. Parts(lg) /\ lg.snapshotIndex = 0
    BY LogParts DEF Flat
  <1>2. getLastIndex(lg) = Size(lg) - 1
    BY FlatParts
  <1>3. /\ es \in Seq(Entry) /\ Len(es) = Size(lg) + Len(new) /\ Len(es) > 0
        /\ Size(lg) \in Nat /\ Size(lg) > 0 /\ Len(new) \in Nat
        /\ \A k \in 1 .. Len(es) : es[k] = IF k <= Size(lg) THEN lg.Entries[k]
                                                           ELSE new[k - Size(lg)]
    <2>1. lg.Entries \in Seq(Entry) /\ Len(lg.Entries) = Size(lg) /\ Size(lg) \in Nat
          /\ Size(lg) > 0
      BY <1>1 DEF Parts
    <2>2. /\ es \in Seq(Entry) /\ Len(es) = Len(lg.Entries) + Len(new)
          /\ \A i \in 1 .. Len(lg.Entries) + Len(new) :
                es[i] = IF i <= Len(lg.Entries) THEN lg.Entries[i] ELSE new[i - Len(lg.Entries)]
      BY <2>1, ConcatParts
    <2> HIDE DEF es
    <2>3. Len(new) \in Nat
      OBVIOUS
    <2>4. QED
      BY <2>1, <2>2, <2>3
  <1>4. all = [Entries |-> es, snapshotIndex |-> lg.snapshotIndex, snapshotTerm |-> lg.snapshotTerm]
    <2>1. all = [lg EXCEPT !.Entries = es]
      OBVIOUS
    <2> HIDE DEF es, all
    <2>2. QED
      BY <2>1, LogExceptEntries DEF Flat
  <1> HIDE DEF es, all
  <1>5. \A k \in 1 .. Len(es) : es[k].index = k - 1
    <2>1. SUFFICES ASSUME NEW k \in 1 .. Len(es) PROVE es[k].index = k - 1
      OBVIOUS
    <2>2. CASE k <= Size(lg)
      <3>1. k \in 1 .. Size(lg) /\ es[k] = lg.Entries[k]
        BY <1>3, <2>2
      <3>2. lg.Entries[k].index = lg.snapshotIndex + k - 1
        BY <1>1, <3>1 DEF Parts
      <3>3. QED
        BY <1>1, <3>1, <3>2
    <2>3. CASE ~(k <= Size(lg))
      <3>1. k - Size(lg) \in 1 .. Len(new) /\ es[k] = new[k - Size(lg)]
        BY <1>3, <2>3
      <3>2. new[k - Size(lg)].index = getLastIndex(lg) + (k - Size(lg))
        BY <3>1
      <3>3. QED
        BY <1>2, <1>3, <3>1, <3>2
    <2>4. QED
      BY <2>2, <2>3
  <1>6. Flat(all)
    <2>1. lg.snapshotIndex = 0 /\ lg.snapshotTerm \in Nat
      BY <1>1 DEF Parts
    <2>2. \A k \in 1 .. Len(es) : es[k].index = 0 + k - 1
      BY <1>5
    <2>3. QED
      BY <1>3, <1>4, <2>1, <2>2, LogOfParts DEF Flat
  <1>7. Size(all) = Len(es) /\ all.Entries = es
    BY <1>4 DEF Size
  <1>8. getLastIndex(all) = getLastIndex(lg) + Len(new)
    <2>1. getLastIndex(all) = Size(all) - 1
      BY <1>6, FlatParts
    <2>2. QED
      BY <1>2, <1>3, <1>7, <2>1
  <1>9. EntrySet(all) = EntrySet(lg) \cup {new[i] : i \in 1 .. Len(new)}
    <2>1. ASSUME NEW k \in 2 .. Size(all)
          PROVE  all.Entries[k] \in EntrySet(lg) \cup {new[i] : i \in 1 .. Len(new)}
      <3>1. k \in 1 .. Len(es)
        BY <1>3, <1>7
      <3>2. CASE k <= Size(lg)
        <4>1. k \in 2 .. Size(lg) /\ all.Entries[k] = lg.Entries[k]
          BY <1>3, <1>7, <3>1, <3>2
        <4>2. QED
          BY <4>1 DEF EntrySet
      <3>3. CASE ~(k <= Size(lg))
        BY <1>3, <1>7, <3>1, <3>3
      <3>4. QED
        BY <3>2, <3>3
    <2>2. ASSUME NEW k \in 2 .. Size(lg) PROVE lg.Entries[k] \in EntrySet(all)
      <3>1. k \in 2 .. Size(all) /\ k \in 1 .. Len(es) /\ k <= Size(lg)
        BY <1>3, <1>7
      <3>2. lg.Entries[k] = all.Entries[k]
        BY <1>3, <1>7, <3>1
      <3>3. QED
        BY <3>1, <3>2 DEF EntrySet
    <2>3. ASSUME NEW i \in 1 .. Len(new) PROVE new[i] \in EntrySet(all)
      <3>1. Size(lg) + i \in 2 .. Size(all) /\ Size(lg) + i \in 1 .. Len(es)
              /\ ~(Size(lg) + i <= Size(lg)) /\ (Size(lg) + i) - Size(lg) = i
        BY <1>3, <1>7
      <3>2. new[i] = all.Entries[Size(lg) + i]
        BY <1>3, <1>7, <3>1
      <3>3. QED
        BY <3>1, <3>2 DEF EntrySet
    <2>4. QED
      BY <2>1, <2>2, <2>3 DEF EntrySet
  <1>10. all.Entries[1] = lg.Entries[1]
    BY <1>3, <1>7
  <1>11. QED
    BY <1>6, <1>8, <1>9, <1>10 DEF all

\* The entries from a given index on, as a leader sends them.
LEMMA FlatEntriesFrom ==
    ASSUME NEW lg, Flat(lg), NEW next \in Nat \ {0}
    PROVE  LET es == EntriesFrom(lg, next)
           IN  /\ es \in Seq(Entry) /\ Len(es) \in Nat
               /\ next <= getLastIndex(lg) + 1 => next + Len(es) = getLastIndex(lg) + 1
               /\ next > getLastIndex(lg) => es = <<>>
               /\ es # <<>> => Len(es) > 0 /\ es[Len(es)].index = getLastIndex(lg)
               /\ \A j \in 1 .. Len(es) : es[j] \in EntrySet(lg) /\ es[j].index = next - 1 + j
  <1> DEFINE es == EntriesFrom(lg, next)
             m  == next + 1
  <1>1. Parts(lg) /\ lg.snapshotIndex = 0 /\ lg.Entries \in Seq(Entry)
          /\ Len(lg.Entries) = Size(lg) /\ Size(lg) \in Nat /\ Size(lg) > 0
    BY LogParts DEF Flat, Parts
  <1>2. getLastIndex(lg) = Size(lg) - 1
    BY FlatParts
  <1>3. m \in Nat \ {0} /\ next - lg.snapshotIndex + 1 = m
    BY <1>1
  <1>4. es = SubSeq(lg.Entries, m, Len(lg.Entries))
    BY <1>1, <1>3 DEF EntriesFrom
  <1> HIDE DEF m, es
  <1>5. /\ es \in Seq(Entry)
        /\ \A i \in 1 .. Len(es) : /\ i + m - 1 \in 1 .. Len(lg.Entries)
                                   /\ es[i] = lg.Entries[i + m - 1]
        /\ Len(es) = IF m <= Len(lg.Entries) THEN Len(lg.Entries) - m + 1 ELSE 0
    BY <1>1, <1>3, <1>4, SubSeqFrom
  <1>6. Len(es) \in Nat /\ (Len(es) = 0 => es = <<>>) /\ (es # <<>> => Len(es) > 0)
    BY <1>5
  <1>7. /\ next <= getLastIndex(lg) + 1 => next + Len(es) = getLastIndex(lg) + 1
        /\ next > getLastIndex(lg) => Len(es) = 0
    <2>1. Len(es) = IF m <= Size(lg) THEN Size(lg) - m + 1 ELSE 0
      BY <1>1, <1>5
    <2>2. m = next + 1 /\ next \in Nat
      BY DEF m
    <2>3. Size(lg) \in Nat /\ getLastIndex(lg) = Size(lg) - 1
      BY <1>1, <1>2
    <2>4. QED
      BY <2>1, <2>2, <2>3
  <1>8. ASSUME NEW j \in 1 .. Len(es)
        PROVE  es[j] \in EntrySet(lg) /\ es[j].index = next - 1 + j
    <2>1. j + m - 1 = j + next /\ j + next \in 2 .. Size(lg) /\ j + next \in 1 .. Size(lg)
      BY <1>1, <1>5 DEF m
    <2>2. es[j] = lg.Entries[j + next]
      BY <1>5, <2>1
    <2>3. lg.Entries[j + next].index = lg.snapshotIndex + (j + next) - 1
      BY <1>1, <2>1 DEF Parts
    <2>4. QED
      BY <1>1, <2>1, <2>2, <2>3 DEF EntrySet
  <1>9. es # <<>> => Len(es) > 0 /\ es[Len(es)].index = getLastIndex(lg)
    <2>1. SUFFICES ASSUME es # <<>> PROVE Len(es) > 0 /\ es[Len(es)].index = getLastIndex(lg)
      OBVIOUS
    <2>2. Len(es) > 0 /\ Len(es) \in 1 .. Len(es)
      BY <1>6, <2>1
    <2>3. es[Len(es)].index = next - 1 + Len(es)
      BY <1>8, <2>2
    <2>4. next + Len(es) = getLastIndex(lg) + 1
      BY <1>1, <1>2, <1>7, <2>2
    <2>5. QED
      BY <1>1, <1>2, <1>6, <2>2, <2>3, <2>4
  <1>10. QED
    BY <1>5, <1>6, <1>7, <1>8, <1>9 DEF es

\* The merge that finds the k-th new entry in conflict keeps the entries up to here.
MergeKeepsTo(lg, prev, entries, k) ==
    IF k <= Len(entries) THEN prev + k - 1 ELSE getLastIndex(lg)

\* What a merge does to the entries of a log: it keeps those up to `last`, cuts
\* the rest if the k-th new entry conflicts, and adds the new ones above.
MergedTo(lg, prev, entries, k, merged, last) ==
    /\ Flat(merged)
    /\ merged.Entries[1] = lg.Entries[1]
    /\ last \in Nat /\ last >= prev /\ last <= getLastIndex(lg)
    /\ \A e \in EntrySet(merged) :
          \/ e \in EntrySet(lg) /\ e.index <= last
          \/ e.index > last /\ \E j \in 1 .. Len(entries) : e = entries[j]
    /\ \A e \in EntrySet(lg) : e.index <= last => e \in EntrySet(merged)
    /\ \A j \in 1 .. Len(entries) :
          /\ prev + j > last => entries[j] \in EntrySet(merged)
          /\ prev + j <= last => getTerm(lg, prev + j) = entries[j].term
    /\ k <= Len(entries) => getTerm(lg, prev + k) # entries[k].term
    /\ getLastIndex(merged) >= prev + Len(entries)

LEMMA FlatMerge ==
    ASSUME NEW lg, Flat(lg), NEW prev \in Nat, prev <= getLastIndex(lg),
           NEW entries \in Seq(Entry),
           \A j \in 1 .. Len(entries) : entries[j].index = prev + j,
           NEW k \in 1 .. Len(entries) + 1, IsFirstConflict(lg, prev, entries, k)
    PROVE  MergedTo(lg, prev, entries, k, Merge(lg, prev, entries, k),
                    MergeKeepsTo(lg, prev, entries, k))
  <1> DEFINE kept   == IF k <= Len(entries) THEN truncate(lg, prev + k) ELSE lg
             m      == getLastIndex(kept) - prev + 1
             new    == SubSeq(entries, m, Len(entries))
             merged == Merge(lg, prev, entries, k)
             last   == IF k <= Len(entries) THEN prev + k - 1 ELSE getLastIndex(lg)
  <1>1. Len(entries) \in Nat /\ k \in Nat /\ k > 0 /\ getLastIndex(lg) \in Nat
    BY FlatParts
  <1>2. ASSUME NEW j \in 1 .. Len(entries), j < k, prev + j <= getLastIndex(lg)
        PROVE  getTerm(lg, prev + j) = entries[j].term
    BY <1>1, <1>2 DEF IsFirstConflict, Conflicts
  <1>3. ASSUME k <= Len(entries)
        PROVE  prev + k \in 1 .. getLastIndex(lg) /\ getTerm(lg, prev + k) # entries[k].term
    BY <1>1, <1>3 DEF IsFirstConflict, Conflicts
  <1>4. last \in Nat /\ last >= prev /\ last <= getLastIndex(lg)
    BY <1>1, <1>3
  <1>5. /\ Flat(kept) /\ getLastIndex(kept) = last
        /\ EntrySet(kept) = {e \in EntrySet(lg) : e.index <= last}
        /\ kept.Entries[1] = lg.Entries[1]
    <2>1. CASE k <= Len(entries)
      <3>1. kept = truncate(lg, prev + k) /\ last = prev + k - 1
        BY <2>1
      <3>2. /\ Flat(kept) /\ getLastIndex(kept) = prev + k - 1
            /\ EntrySet(kept) = {e \in EntrySet(lg) : e.index < prev + k}
            /\ kept.Entries[1] = lg.Entries[1]
        BY <1>3, <2>1, <3>1, FlatTruncate
      <3> HIDE DEF kept, last
      <3>3. \A e \in EntrySet(lg) : e.index < prev + k <=> e.index <= last
        <4>1. \A e \in EntrySet(lg) : e.index \in 1 .. getLastIndex(lg)
          BY FlatParts
        <4>2. QED
          BY <1>1, <3>1, <4>1
      <3>4. QED
        BY <3>1, <3>2, <3>3
    <2>2. CASE ~(k <= Len(entries))
      <3>1. \A e \in EntrySet(lg) : e.index \in 1 .. getLastIndex(lg) /\ e.index <= getLastIndex(lg)
        BY <1>1, FlatParts
      <3>2. QED
        BY <2>2, <3>1
    <2>3. QED
      BY <2>1, <2>2
  <1>6. merged = [kept EXCEPT !.Entries = @ \o new]
    BY DEF Merge
  <1> HIDE DEF kept
  <1>7. m \in Nat \ {0} /\ m = last - prev + 1
    BY <1>4, <1>5
  <1> HIDE DEF m, merged
  <1>8. /\ new \in Seq(Entry)
        /\ \A i \in 1 .. Len(new) : /\ i + m - 1 \in 1 .. Len(entries)
                                    /\ new[i] = entries[i + m - 1]
        /\ Len(new) = IF m <= Len(entries) THEN Len(entries) - m + 1 ELSE 0
    BY <1>7, SubSeqFrom
  <1> HIDE DEF new
  <1>9. ASSUME NEW i \in 1 .. Len(new)
        PROVE  /\ i + m - 1 \in 1 .. Len(entries) /\ new[i] = entries[i + m - 1]
               /\ new[i].index = getLastIndex(kept) + i
    <2>1. i + m - 1 \in 1 .. Len(entries) /\ new[i] = entries[i + m - 1]
      BY <1>8
    <2>2. \A j \in 1 .. Len(entries) : entries[j].index = prev + j
      OBVIOUS
    <2>3. new[i].index = prev + (i + m - 1)
      BY <2>1, <2>2
    <2>4. i \in Int /\ m = last - prev + 1 /\ last \in Nat /\ getLastIndex(kept) = last
      BY <1>4, <1>5, <1>7
    <2> HIDE DEF last
    <2>5. prev + (i + m - 1) = last + i
      BY <2>4
    <2>6. QED
      BY <2>1, <2>3, <2>4, <2>5
  <1>10. /\ Flat(merged)
         /\ getLastIndex(merged) = last + Len(new)
         /\ EntrySet(merged) = EntrySet(kept) \cup {new[i] : i \in 1 .. Len(new)}
         /\ merged.Entries[1] = lg.Entries[1]
    <2>1. \A i \in 1 .. Len(new) : new[i].index = getLastIndex(kept) + i
      BY <1>9
    <2>2. Flat(kept) /\ new \in Seq(Entry)
      BY <1>5, <1>8
    <2>3. /\ Flat(merged)
          /\ getLastIndex(merged) = getLastIndex(kept) + Len(new)
          /\ EntrySet(merged) = EntrySet(kept) \cup {new[i] : i \in 1 .. Len(new)}
          /\ merged.Entries[1] = kept.Entries[1]
      BY <1>6, <2>1, <2>2, FlatConcat
    <2>4. QED
      BY <1>5, <2>3
  <1> HIDE DEF last
  <1>len. Len(new) \in Nat /\ Len(new) = IF m <= Len(entries) THEN Len(entries) - m + 1 ELSE 0
    BY <1>8
  <1>11. getLastIndex(merged) >= last /\ getLastIndex(merged) >= prev + Len(entries)
    <2>1. getLastIndex(merged) = last + Len(new)
      BY <1>10
    <2>2. ASSUME NEW a \in Nat, NEW c \in Nat, NEW x \in Int, x = a - prev + 1,
                 NEW y \in Nat, y = IF x <= c THEN c - x + 1 ELSE 0
          PROVE  a + y >= a /\ a + y >= prev + c
      BY <2>2
    <2>3. QED
      BY <1>1, <1>4, <1>7, <1>len, <2>1, <2>2
  <1>12. ASSUME NEW e \in EntrySet(merged)
         PROVE  \/ e \in EntrySet(lg) /\ e.index <= last
                \/ e.index > last /\ \E j \in 1 .. Len(entries) : e = entries[j]
    <2>1. CASE e \in EntrySet(kept)
      BY <1>5, <2>1
    <2>2. CASE \E i \in 1 .. Len(new) : e = new[i]
      <3>1. PICK i \in 1 .. Len(new) : e = new[i]
        BY <2>2
      <3>2. e.index = last + i /\ e.index > last
        BY <1>4, <1>5, <1>9, <3>1
      <3>3. QED
        BY <1>9, <3>1, <3>2
    <2>3. QED
      BY <1>10, <2>1, <2>2
  <1>13. ASSUME NEW e \in EntrySet(lg), e.index <= last PROVE e \in EntrySet(merged)
    BY <1>5, <1>10, <1>13
  <1>14. ASSUME NEW j \in 1 .. Len(entries)
         PROVE  /\ prev + j > last => entries[j] \in EntrySet(merged)
                /\ prev + j <= last => getTerm(lg, prev + j) = entries[j].term
    <2>1. ASSUME prev + j > last PROVE entries[j] \in EntrySet(merged)
      <3>1. j - m + 1 \in 1 .. Len(new) /\ (j - m + 1) + m - 1 = j
        BY <1>1, <1>4, <1>7, <1>len, <2>1
      <3>2. new[j - m + 1] = entries[j]
        BY <1>9, <3>1
      <3>3. QED
        BY <1>10, <3>1, <3>2
    <2>2. ASSUME prev + j <= last PROVE getTerm(lg, prev + j) = entries[j].term
      <3>1. j < k /\ prev + j <= getLastIndex(lg)
        BY <1>1, <1>4, <2>2 DEF last
      <3>2. QED
        BY <1>2, <3>1
    <2>3. QED
      BY <2>1, <2>2
  <1>15. MergedTo(lg, prev, entries, k, merged, last)
    BY <1>3, <1>4, <1>10, <1>11, <1>12, <1>13, <1>14 DEF MergedTo
  <1>16. QED
    BY <1>15 DEF last, merged, MergeKeepsTo

----------------------------------------------------------------------------
\* The entries of lg above the base of new are in new.
KeepsEntries(lg, new) ==
    \A i \in new.snapshotIndex + 1 .. getLastIndex(lg) :
        /\ HasEntry(new, i)
        /\ HasEntry(lg, i) => getEntry(new, i) = getEntry(lg, i)

LEMMA SameKeepsEntries ==
    ASSUME NEW lg, WellFormed(lg)
    PROVE  KeepsEntries(lg, lg)
  <1>1. Parts(lg) /\ getLastIndex(lg) = lg.snapshotIndex + Size(lg) - 1
    BY LogParts, LogLast
  <1>2. ASSUME NEW i \in lg.snapshotIndex + 1 .. getLastIndex(lg) PROVE HasEntry(lg, i)
    BY <1>1 DEF HasEntry, Parts
  <1>3. QED
    BY <1>2 DEF KeepsEntries

LEMMA AppendKeepsEntries ==
    ASSUME NEW lg, WellFormed(lg), NEW e \in Entry
    PROVE  KeepsEntries(lg, append(lg, e))
  <1> DEFINE new == append(lg, e)
  <1>1. Parts(lg) /\ getLastIndex(lg) = lg.snapshotIndex + Size(lg) - 1
    BY LogParts, LogLast
  <1>2. new.snapshotIndex = lg.snapshotIndex /\ new.Entries = Append(lg.Entries, e)
    BY DEF append, WellFormed, Log
  <1>3. /\ Size(new) = Size(lg) + 1
        /\ \A k \in 1 .. Size(lg) : new.Entries[k] = lg.Entries[k]
    <2>1. lg.Entries \in Seq(Entry) /\ Len(lg.Entries) = Size(lg) /\ Size(lg) \in Nat
      BY <1>1 DEF Parts
    <2>2. QED
      BY <1>2, <2>1 DEF Size
  <1> HIDE DEF new
  <1>4. ASSUME NEW i \in new.snapshotIndex + 1 .. getLastIndex(lg)
        PROVE  HasEntry(new, i) /\ getEntry(new, i) = getEntry(lg, i)
    <2>1. i - lg.snapshotIndex + 1 \in 1 .. Size(lg) /\ i > lg.snapshotIndex
          /\ i - lg.snapshotIndex < Size(lg) + 1
      <3> DEFINE s == lg.snapshotIndex
                 n == Size(lg)
      <3>1. s \in Nat /\ n \in Nat /\ i \in s + 1 .. s + n - 1
        BY <1>1, <1>2 DEF Parts
      <3> HIDE DEF s, n
      <3>2. i - s + 1 \in 1 .. n /\ i > s /\ i - s < n + 1
        BY <3>1
      <3>3. QED
        BY <3>2 DEF s, n
    <2>2. new.Entries[i - lg.snapshotIndex + 1] = lg.Entries[i - lg.snapshotIndex + 1]
      BY <1>3, <2>1
    <2>3. HasEntry(new, i)
      BY <1>2, <1>3, <2>1 DEF HasEntry
    <2>4. QED
      BY <1>2, <2>2, <2>3 DEF getEntry
  <1>5. QED
    BY <1>4 DEF KeepsEntries, new

LEMMA DiscardKeepsEntries ==
    ASSUME NEW lg, WellFormed(lg), NEW index \in Nat, NEW term \in Nat
    PROVE  KeepsEntries(lg, discardEntriesUpTo(lg, index, term))
  <1> DEFINE new == discardEntriesUpTo(lg, index, term)
             m   == index - lg.snapshotIndex + 1
  <1>1. Parts(lg) /\ getLastIndex(lg) = lg.snapshotIndex + Size(lg) - 1
    BY LogParts, LogLast
  <1>2. CASE index <= lg.snapshotIndex
    BY <1>2, SameKeepsEntries DEF discardEntriesUpTo
  <1>3. CASE index > lg.snapshotIndex /\ index - lg.snapshotIndex >= Size(lg)
    <2>1. new.snapshotIndex = index
      BY <1>1, <1>3 DEF discardEntriesUpTo, Parts
    <2>2. new.snapshotIndex + 1 > getLastIndex(lg)
      BY <1>1, <1>3, <2>1 DEF Parts
    <2> HIDE DEF new
    <2>3. ASSUME NEW i \in new.snapshotIndex + 1 .. getLastIndex(lg) PROVE FALSE
      BY <1>1, <2>1, <2>2 DEF Parts
    <2>4. QED
      BY <2>3 DEF KeepsEntries, new
  <1>4. CASE index > lg.snapshotIndex /\ ~(index - lg.snapshotIndex >= Size(lg))
    <2>0. /\ lg.Entries \in Seq(Entry) /\ Len(lg.Entries) = Size(lg) /\ Size(lg) \in Nat
          /\ lg.snapshotIndex \in Nat
      BY <1>1 DEF Parts
    <2>1. /\ new.snapshotIndex = index
          /\ new.Entries = SubSeq(lg.Entries, m, Len(lg.Entries))
      <3>1. ~(index <= lg.snapshotIndex) /\ ~(index - lg.snapshotIndex >= Size(lg))
        BY <1>4, <2>0
      <3>2. new = [Entries |-> SubSeq(lg.Entries, index - lg.snapshotIndex + 1, Size(lg)),
                   snapshotIndex |-> index, snapshotTerm |-> term]
        BY <3>1 DEF discardEntriesUpTo
      <3> HIDE DEF new
      <3>3. QED
        BY <2>0, <3>2
    <2>2. m \in Nat \ {0} /\ m <= Size(lg)
      BY <1>4, <2>0
    <2>3. /\ \A i \in 1 .. Len(new.Entries) : new.Entries[i] = lg.Entries[i + m - 1]
          /\ Len(new.Entries) = Size(lg) - m + 1
      <3> DEFINE es == SubSeq(lg.Entries, m, Len(lg.Entries))
      <3>1. /\ \A i \in 1 .. Len(es) : es[i] = lg.Entries[i + m - 1]
            /\ Len(es) = IF m <= Len(lg.Entries) THEN Len(lg.Entries) - m + 1 ELSE 0
        BY <2>0, <2>2, SubSeqFrom
      <3>2. new.Entries = es
        BY <2>1
      <3> HIDE DEF es, new, m
      <3>3. QED
        BY <2>0, <2>2, <3>1, <3>2
    <2> HIDE DEF new
    <2>4. ASSUME NEW i \in new.snapshotIndex + 1 .. getLastIndex(lg)
          PROVE  HasEntry(new, i) /\ getEntry(new, i) = getEntry(lg, i)
      <3>1. /\ i - index + 1 \in 1 .. Len(new.Entries) /\ i > index /\ i - index < Len(new.Entries)
            /\ (i - index + 1) + m - 1 = i - lg.snapshotIndex + 1
        <4>1. i \in index + 1 .. lg.snapshotIndex + Size(lg) - 1
          BY <1>1, <2>1
        <4>2. Len(new.Entries) = Size(lg) - m + 1 /\ m = index - lg.snapshotIndex + 1
          BY <2>3
        <4> HIDE DEF m
        <4> DEFINE len == Len(new.Entries)
        <4>3. len = Size(lg) - m + 1
          BY <4>2
        <4> HIDE DEF len
        <4>4. i \in Int /\ i >= index + 1 /\ i <= lg.snapshotIndex + Size(lg) - 1
          BY <2>0, <4>1
        <4>5. len \in Int /\ i - index + 1 >= 1 /\ i - index + 1 <= len /\ i > index
              /\ i - index < len
          <5>1. len = Size(lg) - (index - lg.snapshotIndex + 1) + 1 /\ Size(lg) \in Int
                /\ index \in Int /\ lg.snapshotIndex \in Int
            BY <2>0, <2>2, <4>2, <4>3
          <5>2. ASSUME NEW a \in Int, NEW b \in Int, NEW c \in Int, NEW d, d = c - (a - b + 1) + 1,
                       NEW j \in Int, j >= a + 1, j <= b + c - 1
                PROVE  d \in Int /\ j - a + 1 >= 1 /\ j - a + 1 <= d /\ j > a /\ j - a < d
            BY <5>2
          <5>3. QED
            BY <4>4, <5>1, <5>2
        <4>6. (i - index + 1) + m - 1 = i - lg.snapshotIndex + 1
          <5>1. ASSUME NEW a \in Int, NEW b \in Int, NEW c \in Int, NEW d, d = b - c + 1
                PROVE  (a - b + 1) + d - 1 = a - c + 1
            BY <5>1
          <5>2. i \in Int /\ index \in Int /\ lg.snapshotIndex \in Int
            BY <2>0, <4>4
          <5>3. QED
            BY <4>2, <5>1, <5>2
        <4>7. QED
          BY <4>4, <4>5, <4>6 DEF len
      <3>2. new.Entries[i - index + 1] = lg.Entries[i - lg.snapshotIndex + 1]
        BY <2>3, <3>1
      <3>3. QED
        BY <2>1, <3>1, <3>2 DEF HasEntry, getEntry, Size
    <2>5. QED
      BY <2>4 DEF KeepsEntries, new
  <1>5. QED
    BY <1>1, <1>2, <1>3, <1>4 DEF Parts

----------------------------------------------------------------------------
(***************************************************************************)
(* The state file.                                                         *)
(***************************************************************************)

\* Short sequences.
LEMMA JoinOneTwo ==
    ASSUME NEW S, NEW x \in S, NEW y \in S, NEW z \in S
    PROVE  <<x>> \o <<y, z>> = <<x, y, z>>
  <1> DEFINE a == <<x>>
             b == <<y, z>>
             c == <<x, y, z>>
  <1>1. /\ a \in Seq(S) /\ b \in Seq(S) /\ c \in Seq(S)
        /\ Len(a) = 1 /\ Len(b) = 2 /\ Len(c) = 3
        /\ a[1] = x /\ b[1] = y /\ b[2] = z /\ c[1] = x /\ c[2] = y /\ c[3] = z
    OBVIOUS
  <1> HIDE DEF a, b, c
  <1>2. /\ a \o b \in Seq(S) /\ Len(a \o b) = Len(a) + Len(b)
        /\ \A i \in 1 .. Len(a) + Len(b) : (a \o b)[i] = IF i <= Len(a) THEN a[i] ELSE b[i - Len(a)]
    BY <1>1, ConcatParts
  <1>3. Len(a \o b) = 3 /\ \A i \in 1 .. 3 : (a \o b)[i] = IF i <= 1 THEN a[i] ELSE b[i - 1]
    BY <1>1, <1>2
  <1>4. \A i \in 1 .. 3 : (a \o b)[i] = c[i]
    <2>1. (a \o b)[1] = a[1] /\ (a \o b)[2] = b[1] /\ (a \o b)[3] = b[2]
      BY <1>3
    <2>2. \A i \in 1 .. 3 : i = 1 \/ i = 2 \/ i = 3
      OBVIOUS
    <2>3. QED
      BY <1>1, <2>1, <2>2
  <1>5. a \o b = c
    BY <1>1, <1>2, <1>3, <1>4, SeqEqual
  <1>6. QED
    BY <1>5 DEF a, b, c

LEMMA JoinThreeOne ==
    ASSUME NEW S, NEW x \in S, NEW y \in S, NEW z \in S, NEW w \in S
    PROVE  <<x, y, z>> \o <<w>> = <<x, y, z, w>>
  <1> DEFINE a == <<x, y, z>>
             b == <<w>>
             c == <<x, y, z, w>>
  <1>1. /\ a \in Seq(S) /\ b \in Seq(S) /\ c \in Seq(S)
        /\ Len(a) = 3 /\ Len(b) = 1 /\ Len(c) = 4
        /\ a[1] = x /\ a[2] = y /\ a[3] = z /\ b[1] = w
        /\ c[1] = x /\ c[2] = y /\ c[3] = z /\ c[4] = w
    OBVIOUS
  <1> HIDE DEF a, b, c
  <1>2. /\ a \o b \in Seq(S) /\ Len(a \o b) = Len(a) + Len(b)
        /\ \A i \in 1 .. Len(a) + Len(b) : (a \o b)[i] = IF i <= Len(a) THEN a[i] ELSE b[i - Len(a)]
    BY <1>1, ConcatParts
  <1>3. Len(a \o b) = 4 /\ \A i \in 1 .. 4 : (a \o b)[i] = IF i <= 3 THEN a[i] ELSE b[i - 3]
    BY <1>1, <1>2
  <1>4. \A i \in 1 .. 4 : (a \o b)[i] = c[i]
    <2>1. (a \o b)[1] = a[1] /\ (a \o b)[2] = a[2] /\ (a \o b)[3] = a[3] /\ (a \o b)[4] = b[1]
      BY <1>3
    <2>2. \A i \in 1 .. 4 : i = 1 \/ i = 2 \/ i = 3 \/ i = 4
      OBVIOUS
    <2>3. QED
      BY <1>1, <2>1, <2>2
  <1>5. a \o b = c
    BY <1>1, <1>2, <1>3, <1>4, SeqEqual
  <1>6. QED
    BY <1>5 DEF a, b, c

\* A command as bytes, and where its parts are.
LEMMA CommandLayout ==
    ASSUME NEW c \in WriteCommand \cup ReadCommand
    PROVE  /\ c.key \in Seq(Nat) /\ c.client \in Nat /\ c.seq \in Nat
           /\ c.op \in {"PUT", "APPEND", "GET"}
           /\ HasValue(c.op) => c.value \in Seq(Nat)
           /\ HasValue(c.op) <=> c \in WriteCommand
           /\ TypeByte[c.op] \in Nat
           /\ serialize(c) = <<TypeByte[c.op], c.client, c.seq, Len(c.key)>> \o c.key
                               \o (IF HasValue(c.op) THEN <<Len(c.value)>> \o c.value ELSE <<>>)
           /\ serialize(c) \in Seq(Nat)
           /\ Len(serialize(c)) = 4 + Len(c.key) + (IF HasValue(c.op) THEN 1 + Len(c.value) ELSE 0)
  <1> DEFINE value == IF HasValue(c.op) THEN <<Len(c.value)>> \o c.value ELSE <<>>
             head  == <<TypeByte[c.op], c.client, c.seq, Len(c.key)>>
  <1>1. /\ c.key \in Seq(Nat) /\ c.client \in Nat /\ c.seq \in Nat
        /\ c.op \in {"PUT", "APPEND", "GET"}
        /\ HasValue(c.op) => c.value \in Seq(Nat)
        /\ HasValue(c.op) <=> c \in WriteCommand
    <2>1. CASE c \in WriteCommand
      BY <2>1 DEF WriteCommand, HasValue
    <2>2. CASE c \in ReadCommand
      BY <2>2 DEF ReadCommand, WriteCommand, HasValue
    <2>3. QED
      BY <2>1, <2>2
  <1>2. TypeByte[c.op] \in Nat
    BY <1>1 DEF TypeByte
  <1>3. /\ value \in Seq(Nat)
        /\ Len(value) = IF HasValue(c.op) THEN 1 + Len(c.value) ELSE 0
    <2>1. CASE HasValue(c.op)
      <3>1. c.value \in Seq(Nat) /\ <<Len(c.value)>> \in Seq(Nat) /\ Len(<<Len(c.value)>>) = 1
        BY <1>1, <2>1
      <3>2. /\ <<Len(c.value)>> \o c.value \in Seq(Nat)
            /\ Len(<<Len(c.value)>> \o c.value) = Len(<<Len(c.value)>>) + Len(c.value)
        BY <3>1, ConcatParts
      <3>3. QED
        BY <2>1, <3>1, <3>2
    <2>2. CASE ~HasValue(c.op)
      BY <2>2
    <2>3. QED
      BY <2>1, <2>2
  <1> DEFINE len == Len(c.key)
             t   == TypeByte[c.op]
  <1>4. head \in Seq(Nat) /\ Len(head) = 4
    <2>1. len \in Nat
      BY <1>1
    <2> HIDE DEF len, t
    <2>2. QED
      BY <1>1, <1>2, <2>1 DEF t
  <1>5. serialize(c) = <<t>> \o <<c.client, c.seq>> \o (<<len>> \o c.key) \o value
    BY DEF serialize, write_meta, write_string
  <1>6. <<t>> \o <<c.client, c.seq>> \o (<<len>> \o c.key) = head \o c.key
    <2>1. len \in Nat /\ t \in Nat
      BY <1>1, <1>2
    <2> DEFINE a == <<t>> \o <<c.client, c.seq>>
               b == <<len>>
               k == c.key
    <2> HIDE DEF len, t
    <2>2. a = <<t, c.client, c.seq>>
      BY <1>1, <2>1, JoinOneTwo
    <2>3. a \o b = head
      <3>1. t \in Nat /\ c.client \in Nat /\ c.seq \in Nat /\ len \in Nat
        BY <1>1, <2>1
      <3>2. <<t, c.client, c.seq>> \o <<len>> = <<t, c.client, c.seq, len>>
        BY ONLY <3>1, JoinThreeOne, Zenon
      <3>3. QED
        BY <2>2, <3>2 DEF len, t
    <2>4. a \in Seq(Nat) /\ b \in Seq(Nat) /\ k \in Seq(Nat)
      BY <1>1, <2>1, <2>2
    <2> HIDE DEF a, b, k, head
    <2>5. (a \o b) \o k = a \o (b \o k)
      BY <2>4, ConcatAssociative
    <2>6. QED
      BY <2>3, <2>5 DEF a, b, k
  <1> HIDE DEF value, head, len, t
  <1>7. serialize(c) = head \o c.key \o value
    BY <1>5, <1>6
  <1>8. head \o c.key \in Seq(Nat) /\ Len(head \o c.key) = 4 + Len(c.key)
    <2>1. head \in Seq(Nat) /\ c.key \in Seq(Nat)
      BY <1>1, <1>4
    <2>2. head \o c.key \in Seq(Nat) /\ Len(head \o c.key) = Len(head) + Len(c.key)
      BY <2>1, ConcatParts
    <2>3. QED
      BY <1>4, <2>2
  <1>9. /\ (head \o c.key) \o value \in Seq(Nat)
        /\ Len((head \o c.key) \o value) = Len(head \o c.key) + Len(value)
    BY <1>3, <1>8, ConcatParts
  <1>10. QED
    BY <1>1, <1>2, <1>3, <1>7, <1>8, <1>9 DEF value, head

\* The bytes of an entry.
LEMMA EntryLayout ==
    ASSUME CommandsFit, NEW e \in Entry
    PROVE  LET bytes == CommandBytes(e.command)
           IN  /\ bytes \in Seq(Nat)
               /\ serializeEntry(e) = <<e.index, e.term, Len(bytes)>> \o bytes
               /\ serializeEntry(e) \in Seq(Nat)
               /\ Len(serializeEntry(e)) = 3 + Len(bytes)
  <1> DEFINE bytes == CommandBytes(e.command)
             head  == <<e.index, e.term, Len(bytes)>>
  <1>1. e.index \in Nat /\ e.term \in Nat /\ e.command \in Command \cup {NoCommand}
    BY DEF Entry, Payload
  <1>2. bytes \in Seq(Nat)
    <2>1. CASE e.command = NoCommand
      BY <2>1 DEF CommandBytes
    <2>2. CASE e.command # NoCommand
      <3>1. e.command \in WriteCommand \cup ReadCommand
        BY <1>1, <2>2 DEF CommandsFit
      <3>2. QED
        BY <2>2, <3>1, CommandLayout DEF CommandBytes
    <2>3. QED
      BY <2>1, <2>2
  <1> HIDE DEF bytes
  <1>3. head \in Seq(Nat) /\ Len(head) = 3
    BY <1>1, <1>2
  <1>4. serializeEntry(e) = head \o bytes
    BY DEF serializeEntry, bytes
  <1> HIDE DEF head
  <1>5. head \o bytes \in Seq(Nat) /\ Len(head \o bytes) = 3 + Len(bytes)
    <2>1. head \in Seq(Nat)
      BY <1>3
    <2>2. head \o bytes \in Seq(Nat) /\ Len(head \o bytes) = Len(head) + Len(bytes)
      BY <1>2, <2>1, ConcatParts
    <2>3. QED
      BY <1>3, <2>2
  <1>6. QED
    BY <1>2, <1>4, <1>5 DEF head, bytes

\* What serializeLog writes, entry by entry.
FileBytes(d, lg) ==
    LET entries == SavedEntries(lg)
    IN  /\ d[0] = <<getLastIndex(lg) - lg.snapshotIndex>>
        /\ \A k \in 0 .. Len(entries) : d[k] \in Seq(Nat)
        /\ \A k \in 1 .. Len(entries) : d[k] = d[k - 1] \o serializeEntry(entries[k])
        /\ serializeLog(lg) = d[Len(entries)]

LEMMA SerializeLogWrites ==
    ASSUME CommandsFit, NEW lg, WellFormed(lg)
    PROVE  /\ SavedEntries(lg) \in Seq(Entry)
           /\ Len(SavedEntries(lg)) = getLastIndex(lg) - lg.snapshotIndex
           /\ \A k \in 1 .. Len(SavedEntries(lg)) :
                 SavedEntries(lg)[k].index = lg.snapshotIndex + k
           /\ \E d : FileBytes(d, lg)
  <1> DEFINE entries == SavedEntries(lg)
             K  == Len(entries)
             s0 == <<getLastIndex(lg) - lg.snapshotIndex>>
             d  == CHOOSE d : d = [k \in 0 .. K |->
                                     IF k = 0 THEN s0 ELSE d[k - 1] \o serializeEntry(entries[k])]
             step == [k \in 1 .. K |-> [x \in Seq(Nat) |-> x \o serializeEntry(entries[k])]]
  <1>1. Parts(lg) /\ getLastIndex(lg) = lg.snapshotIndex + Size(lg) - 1
    BY LogParts, LogLast
  <1>2. /\ entries \in Seq(Entry) /\ K = getLastIndex(lg) - lg.snapshotIndex
        /\ \A k \in 1 .. K : entries[k].index = lg.snapshotIndex + k
    <2>1. /\ lg.Entries \in Seq(Entry) /\ Len(lg.Entries) = Size(lg) /\ Size(lg) \in Nat
          /\ Size(lg) > 0 /\ lg.snapshotIndex \in Nat
      BY <1>1 DEF Parts
    <2>2. entries = SubSeq(lg.Entries, 2, Len(lg.Entries))
      <3>1. (lg.snapshotIndex + 1) - lg.snapshotIndex + 1 = 2
        BY <2>1
      <3>2. QED
        BY <2>1, <3>1 DEF SavedEntries, EntriesFrom
    <2>3. /\ entries \in Seq(Entry)
          /\ \A i \in 1 .. K : i + 2 - 1 \in 1 .. Len(lg.Entries) /\ entries[i] = lg.Entries[i + 2 - 1]
          /\ K = IF 2 <= Len(lg.Entries) THEN Len(lg.Entries) - 2 + 1 ELSE 0
      BY <2>1, <2>2, SubSeqFrom
    <2> HIDE DEF entries
    <2>4. K = Size(lg) - 1
      BY <2>1, <2>3
    <2>5. ASSUME NEW k \in 1 .. K PROVE entries[k].index = lg.snapshotIndex + k
      <3>1. k + 1 \in 1 .. Size(lg) /\ entries[k] = lg.Entries[k + 1] /\ k \in Nat
        BY <2>1, <2>3
      <3>2. lg.Entries[k + 1].index = lg.snapshotIndex + (k + 1) - 1
        BY <1>1, <3>1 DEF Parts
      <3>3. QED
        BY <2>1, <3>1, <3>2
    <2>6. QED
      BY <1>1, <2>1, <2>3, <2>4, <2>5
  <1>3. K \in Nat /\ s0 \in Seq(Nat) /\ \A k \in 1 .. K : serializeEntry(entries[k]) \in Seq(Nat)
    <2>1. K \in Nat
      BY <1>2
    <2>2. s0 \in Seq(Nat)
      BY <1>2, <2>1
    <2>3. \A k \in 1 .. K : entries[k] \in Entry
      BY <1>2
    <2>4. QED
      BY <2>1, <2>2, <2>3, EntryLayout
  <1>4. serializeLog(lg) = d[K]
    BY DEF serializeLog
  <1> HIDE DEF K, s0, entries
  <1>5. step \in [1 .. K -> [Seq(Nat) -> Seq(Nat)]]
    <2>1. ASSUME NEW k \in 1 .. K, NEW x \in Seq(Nat) PROVE x \o serializeEntry(entries[k]) \in Seq(Nat)
      BY <1>3
    <2>2. QED
      BY <2>1
  <1>6. PICK g : Iterates(g, Seq(Nat), s0, K, step)
    <2> HIDE DEF step
    <2>1. QED
      BY <1>3, <1>5, RecursionExists
  <1>7. g \in [0 .. K -> Seq(Nat)] /\ g[0] = s0 /\ \A k \in 1 .. K : g[k] = step[k][g[k - 1]]
    BY <1>6 DEF Iterates
  <1>8. \A k \in 0 .. K : g[k] = IF k = 0 THEN s0 ELSE g[k - 1] \o serializeEntry(entries[k])
    <2>1. ASSUME NEW k \in 1 .. K PROVE g[k] = g[k - 1] \o serializeEntry(entries[k])
      <3>1. g[k - 1] \in Seq(Nat)
        BY <1>3, <1>7
      <3>2. QED
        BY <1>7, <3>1
    <2> HIDE DEF step
    <2>2. ASSUME NEW k \in 0 .. K
          PROVE  g[k] = IF k = 0 THEN s0 ELSE g[k - 1] \o serializeEntry(entries[k])
      <3>1. k = 0 \/ k \in 1 .. K
        BY <1>3
      <3>2. QED
        BY <1>7, <2>1, <3>1
    <2>3. QED
      BY <2>2
  <1>9. d = [k \in 0 .. K |-> IF k = 0 THEN s0 ELSE d[k - 1] \o serializeEntry(entries[k])]
    <2>1. g = [k \in 0 .. K |-> g[k]]
      BY <1>7
    <2>2. g = [k \in 0 .. K |-> IF k = 0 THEN s0 ELSE g[k - 1] \o serializeEntry(entries[k])]
      BY <1>8, <2>1
    <2>3. QED
      BY <2>2
  <1> HIDE DEF d, step
  <1>10. 0 \in 0 .. K /\ \A k \in 1 .. K : k \in 0 .. K /\ k # 0
    BY <1>3
  <1>11. d[0] = s0 /\ \A k \in 1 .. K : d[k] = d[k - 1] \o serializeEntry(entries[k])
    BY <1>9, <1>10, Zenon
  <1>12. \A k \in 0 .. K : d[k] \in Seq(Nat)
    <2> DEFINE T == {k \in 0 .. K : d[k] \in Seq(Nat)}
    <2>1. 0 \in T
      BY <1>3, <1>10, <1>11
    <2>2. ASSUME NEW k \in 1 .. K, k - 1 \in T PROVE k \in T
      <3>1. d[k - 1] \in Seq(Nat) /\ serializeEntry(entries[k]) \in Seq(Nat)
        BY <1>3, <2>2
      <3>2. d[k - 1] \o serializeEntry(entries[k]) \in Seq(Nat)
        BY <3>1
      <3>3. QED
        BY <1>10, <1>11, <3>2
    <2> HIDE DEF T
    <2>3. \A k \in 0 .. K : k \in T
      BY <1>3, <2>1, <2>2, UpTo
    <2>4. QED
      BY <2>3 DEF T
  <1>13. FileBytes(d, lg)
    BY <1>4, <1>11, <1>12 DEF FileBytes, K, s0, entries
  <1>14. QED
    BY <1>2, <1>13 DEF entries, K

\* The data starts with the number of entries.
LEMMA DataStarts ==
    ASSUME CommandsFit, NEW lg, WellFormed(lg)
    PROVE  /\ serializeLog(lg) \in Seq(Nat)
           /\ serializeLog(lg) # <<>>
           /\ serializeLog(lg)[1] = getLastIndex(lg) - lg.snapshotIndex
  <1> DEFINE entries == SavedEntries(lg)
             K == Len(entries)
             N == getLastIndex(lg) - lg.snapshotIndex
             Starts(s) == Len(s) >= 1 /\ s[1] = N
  <1>1. PICK d : FileBytes(d, lg)
    BY SerializeLogWrites
  <1>2. /\ entries \in Seq(Entry) /\ K \in Nat
        /\ \A k \in 1 .. K : serializeEntry(entries[k]) \in Seq(Nat)
    <2>1. entries \in Seq(Entry) /\ K \in Nat
      BY SerializeLogWrites
    <2>2. \A k \in 1 .. K : entries[k] \in Entry
      BY <2>1
    <2> HIDE DEF entries, K
    <2>3. \A k \in 1 .. K : serializeEntry(entries[k]) \in Seq(Nat)
      BY <2>2, EntryLayout
    <2>4. QED
      BY <2>1, <2>3
  <1>3. /\ d[0] = <<N>>
        /\ \A k \in 0 .. K : d[k] \in Seq(Nat)
        /\ \A k \in 1 .. K : d[k] = d[k - 1] \o serializeEntry(entries[k])
        /\ serializeLog(lg) = d[K]
    BY <1>1 DEF FileBytes
  <1> HIDE DEF entries, K, N
  <1> DEFINE T == {k \in 0 .. K : Starts(d[k])}
  <1>4. 0 \in T
    <2>1. Len(<<N>>) = 1 /\ <<N>>[1] = N
      OBVIOUS
    <2>2. Starts(d[0]) /\ 0 \in 0 .. K
      BY <1>2, <1>3, <2>1
    <2>3. QED
      BY <2>2
  <1>5. ASSUME NEW k \in 1 .. K, k - 1 \in T PROVE k \in T
    <2> DEFINE a == d[k - 1]
               b == serializeEntry(entries[k])
    <2>1. a \in Seq(Nat) /\ b \in Seq(Nat) /\ Starts(a) /\ d[k] = a \o b /\ k \in 0 .. K
      <3>1. k - 1 \in 0 .. K /\ k \in 0 .. K
        BY <1>2
      <3>2. Starts(d[k - 1])
        BY <1>5
      <3> HIDE DEF Starts
      <3>3. QED
        BY <1>2, <1>3, <3>1, <3>2
    <2> HIDE DEF a, b
    <2>2. /\ Len(a \o b) = Len(a) + Len(b)
          /\ \A i \in 1 .. Len(a) + Len(b) : (a \o b)[i] = IF i <= Len(a) THEN a[i] ELSE b[i - Len(a)]
      BY <2>1, ConcatParts
    <2>3. Len(a) \in Nat /\ Len(b) \in Nat
      BY <2>1
    <2>4. 1 \in 1 .. Len(a) + Len(b) /\ 1 <= Len(a)
      BY <2>1, <2>3
    <2>5. Starts(a \o b)
      BY <2>1, <2>2, <2>3, <2>4
    <2>6. QED
      BY <2>1, <2>5
  <1> HIDE DEF T
  <1>6. \A k \in 0 .. K : k \in T
    BY <1>2, <1>4, <1>5, UpTo
  <1>7. Starts(d[K]) /\ d[K] \in Seq(Nat)
    BY <1>2, <1>3, <1>6 DEF T
  <1>8. QED
    BY <1>3, <1>7 DEF N

\* What saveState leaves: the term, the vote and the base of the log in front,
\* then the size of the log data and the data.
FileHolds(file, term, vote, lg) ==
    LET data == serializeLog(lg)
    IN  /\ Len(file) = LogSize + Len(data)
        /\ file[1] = term /\ file[2] = vote /\ file[3] = lg.snapshotIndex
        /\ file[LogSize] = Len(data)
        /\ SubSeq(file, LogSize + 1, LogSize + Len(data)) = data
        /\ SubSeq(file, LogSize, Len(file)) = <<Len(data)>> \o data
        /\ IsComplete(file)
        /\ \A x : LogRead(file, x) = deserializeLog(data, x)

LEMMA StateFileHolds ==
    ASSUME CommandsFit, NEW lg, WellFormed(lg), NEW term \in Nat, NEW V, NEW vote \in V
    PROVE  /\ serializeLog(lg) \in Seq(Nat)
           /\ serializeLog(lg) # <<>>
           /\ StateFile(term, vote, lg) \in Seq(Nat \cup V)
           /\ FileHolds(StateFile(term, vote, lg), term, vote, lg)
  <1> DEFINE data == serializeLog(lg)
             S    == Nat \cup V
             head == Header(term, vote, lg)
             size == <<Len(data)>>
             file == StateFile(term, vote, lg)
  <1>1. data \in Seq(Nat) /\ data # <<>>
    BY DataStarts
  <1>2. term \in S /\ vote \in S /\ lg.snapshotIndex \in S /\ lg.snapshotTerm \in S
    BY LogParts DEF Parts
  <1> HIDE DEF S, data
  <1>3. /\ head \in Seq(S) /\ Len(head) = 4
        /\ head[1] = term /\ head[2] = vote /\ head[3] = lg.snapshotIndex
    BY <1>2 DEF Header
  <1>4. Len(data) \in Nat /\ Len(data) \in S /\ data \in Seq(S)
    BY <1>1 DEF S
  <1>5. size \in Seq(S) /\ Len(size) = 1 /\ size[1] = Len(data)
    BY <1>4
  <1>6. file = (head \o size) \o data
    BY DEF StateFile, data
  <1> HIDE DEF head, size, file
  <1> DEFINE front == head \o size
  <1>7. front \in Seq(S) /\ Len(front) = 5 /\ front[5] = Len(data)
        /\ front[1] = term /\ front[2] = vote /\ front[3] = lg.snapshotIndex
    <2>1. /\ front \in Seq(S) /\ Len(front) = Len(head) + Len(size)
          /\ \A i \in 1 .. Len(head) + Len(size) :
                front[i] = IF i <= Len(head) THEN head[i] ELSE size[i - Len(head)]
      <3>1. head \in Seq(S) /\ size \in Seq(S)
        BY <1>3, <1>5
      <3>2. QED
        BY <3>1, ConcatParts
    <2> HIDE DEF front
    <2>2. Len(front) = 5 /\ \A i \in 1 .. 5 : front[i] = IF i <= 4 THEN head[i] ELSE size[i - 4]
      BY <1>3, <1>5, <2>1
    <2>3. front[1] = head[1] /\ front[2] = head[2] /\ front[3] = head[3] /\ front[5] = size[1]
      BY <2>2
    <2>4. QED
      BY <1>3, <1>5, <2>1, <2>2, <2>3
  <1>8. /\ file \in Seq(S) /\ Len(file) = Len(front) + Len(data)
        /\ \A i \in 1 .. Len(front) + Len(data) :
              file[i] = IF i <= Len(front) THEN front[i] ELSE data[i - Len(front)]
    <2>1. file = front \o data
      BY <1>6
    <2> HIDE DEF front
    <2>2. QED
      BY <1>4, <1>7, <2>1, ConcatParts
  <1> HIDE DEF front
  <1>10. Len(file) = 5 + Len(data)
    BY <1>7, <1>8
  <1>11. file[1] = term /\ file[2] = vote /\ file[3] = lg.snapshotIndex /\ file[5] = Len(data)
    <2>1. \A i \in 1 .. 5 : file[i] = front[i]
      BY <1>4, <1>7, <1>8
    <2>2. QED
      BY <1>7, <2>1
  <1>12. SubSeq(file, 6, 5 + Len(data)) = data
    <2>1. /\ SubSeq(file, 6, 5 + Len(data)) \in Seq(S)
          /\ Len(SubSeq(file, 6, 5 + Len(data))) = Len(data)
          /\ \A i \in 1 .. Len(data) : SubSeq(file, 6, 5 + Len(data))[i] = file[5 + i]
      <3>1. \A i \in 6 .. 5 + Len(data) : file[i] \in S
        BY <1>4, <1>8, <1>10
      <3> DEFINE n == 5 + Len(data)
      <3>2. n \in Int /\ \A i \in 6 .. n : file[i] \in S
        BY <1>4, <3>1
      <3> HIDE DEF n
      <3>3. /\ SubSeq(file, 6, n) \in Seq(S)
            /\ Len(SubSeq(file, 6, n)) = IF 6 <= n THEN n - 6 + 1 ELSE 0
            /\ \A i \in 1 .. n - 6 + 1 : SubSeq(file, 6, n)[i] = file[6 + i - 1]
        BY <3>2, SubSeqProperties
      <3> DEFINE part == SubSeq(file, 6, n)
                 len  == Len(data)
      <3> HIDE DEF part
      <3>4. n = 5 + len /\ len \in Nat
        BY <1>4 DEF n
      <3> HIDE DEF len
      <3>5. Len(part) = len /\ \A i \in 1 .. len : part[i] = file[5 + i]
        <4>1. Len(part) = IF 6 <= n THEN n - 6 + 1 ELSE 0
          BY <3>3 DEF part
        <4>2. \A i \in 1 .. n - 6 + 1 : part[i] = file[6 + i - 1]
          BY <3>3 DEF part
        <4>3. \A i \in 1 .. len : i \in 1 .. n - 6 + 1 /\ 6 + i - 1 = 5 + i
          BY <3>4
        <4>4. \A i \in 1 .. len : part[i] = file[5 + i]
          BY <4>2, <4>3
        <4>5. Len(part) = len
          BY <3>4, <4>1
        <4>6. QED
          BY <4>4, <4>5
      <3>6. QED
        BY <3>3, <3>5 DEF part, len, n
    <2>2. \A i \in 1 .. Len(data) : file[5 + i] = data[i]
      <3>1. ASSUME NEW i \in 1 .. Len(data) PROVE file[5 + i] = data[i]
        <4>1. /\ 5 + i \in 1 .. Len(front) + Len(data) /\ ~(5 + i <= Len(front))
              /\ (5 + i) - Len(front) = i
          BY <1>4, <1>7
        <4>2. QED
          BY <1>8, <4>1
      <3>2. QED
        BY <3>1
    <2> DEFINE part == SubSeq(file, 6, 5 + Len(data))
    <2> HIDE DEF part
    <2>3. part = data
      BY <1>4, <2>1, <2>2, SeqEqual DEF part
    <2>4. QED
      BY <2>3 DEF part
  <1>13. SubSeq(file, 5, Len(file)) = size \o data
    <2> DEFINE m == 5
               n == Len(file)
    <2>1. m \in 1 .. Len(file) /\ n \in m .. Len(file) /\ m + 1 = 6
      BY <1>4, <1>10
    <2>2. SubSeq(file, 6, n) = data /\ file[m] = Len(data)
      BY <1>10, <1>11, <1>12
    <2> HIDE DEF m, n
    <2>3. SubSeq(file, m, n) = <<file[m]>> \o SubSeq(file, m + 1, n)
      BY <1>8, <2>1, SubSeqRecursiveFirst
    <2>4. SubSeq(file, m, n) = <<Len(data)>> \o data
      BY <2>1, <2>2, <2>3
    <2>5. QED
      BY <2>4 DEF m, n, size
  <1>14. IsComplete(file)
    <2>1. 5 <= Len(file) /\ 5 + file[5] <= Len(file)
      BY <1>4, <1>10, <1>11
    <2>2. QED
      BY <2>1 DEF IsComplete, LogSize
  <1>15. ASSUME NEW x PROVE LogRead(file, x) = deserializeLog(data, x)
    <2>1. LogSize + 1 = 6 /\ LogSize + file[LogSize] = 5 + Len(data)
      BY <1>11 DEF LogSize
    <2>2. QED
      BY <1>12, <2>1 DEF LogRead
  <1>16. FileHolds(file, term, vote, lg)
    BY <1>10, <1>11, <1>12, <1>13, <1>14, <1>15 DEF FileHolds, LogSize, data, size
  <1>17. QED
    BY <1>1, <1>8, <1>16 DEF file, data, S

\* A log whose commands are whatever was read, and what deserializeLog has after
\* some entries.
ReadLog(X) == [Entries : Seq([index : Nat, term : Nat, command : X]),
               snapshotIndex : Nat, snapshotTerm : Nat]

Reading(X) == [ok : BOOLEAN, offset : Nat \ {0}, log : ReadLog(X)]

\* X holds every command that the data can be read as.
ReadsInto(data, X) == \A i \in Nat, j \in Nat : CommandOf(SubSeq(data, i, j)) \in X

LEMMA ReadEntryParts ==
    ASSUME NEW data \in Seq(Nat), NEW X, ReadsInto(data, X), NEW done \in Reading(X)
    PROVE  LET next == ReadEntry(data, done)
           IN  /\ next \in Reading(X)
               /\ next.ok => /\ done.ok
                             /\ done.offset \in 1 .. Len(data)
                             /\ data[done.offset] = getLastIndex(done.log) + 1
                             /\ getLastIndex(next.log) = data[done.offset]
                             /\ next.log.Entries # <<>>
  <1> DEFINE size  == data[done.offset + 2]
             after == done.offset + 3 + size
             entry == [index   |-> data[done.offset],
                       term    |-> data[done.offset + 1],
                       command |-> CommandOf(SubSeq(data, done.offset + 3, after - 1))]
             reads == /\ done.ok
                      /\ done.offset + 2 <= Len(data)
                      /\ after - 1 <= Len(data)
                      /\ CanAppend(done.log, entry)
             next == ReadEntry(data, done)
  <1>1. next = IF reads THEN [ok |-> TRUE, offset |-> after, log |-> append(done.log, entry)]
               ELSE [done EXCEPT !.ok = FALSE]
    BY DEF ReadEntry
  <1>2. /\ done.ok \in BOOLEAN /\ done.offset \in Nat \ {0} /\ done.log \in ReadLog(X)
        /\ Len(data) \in Nat
    BY DEF Reading
  <1>3. CASE reads
    <2>1. done.offset \in 1 .. Len(data) /\ done.offset + 1 \in 1 .. Len(data)
            /\ done.offset + 2 \in 1 .. Len(data)
      <3>1. done.offset + 2 <= Len(data)
        BY <1>3
      <3> HIDE DEF reads, after, entry, size
      <3>2. QED
        BY <1>2, <3>1
    <2>2. data[done.offset] \in Nat /\ data[done.offset + 1] \in Nat /\ size \in Nat
      <3>1. \A i \in 1 .. Len(data) : data[i] \in Nat
        OBVIOUS
      <3>2. data[done.offset] \in Nat /\ data[done.offset + 1] \in Nat
              /\ data[done.offset + 2] \in Nat
        BY ONLY <2>1, <3>1, Zenon
      <3>3. QED
        BY ONLY <3>2 DEF size
    <2>3. after \in Nat \ {0} /\ after - 1 \in Nat /\ done.offset + 3 \in Nat
      <3> DEFINE o == done.offset
      <3>1. o \in Nat \ {0} /\ size \in Nat /\ after = o + 3 + size
        BY <1>2, <2>2
      <3> HIDE DEF size, after, o
      <3>2. after \in Nat \ {0} /\ after - 1 \in Nat /\ o + 3 \in Nat
        BY <3>1
      <3>3. QED
        BY <3>2 DEF o
    <2>4. entry \in [index : Nat, term : Nat, command : X]
      <3>1. CommandOf(SubSeq(data, done.offset + 3, after - 1)) \in X
        <4> HIDE DEF after
        <4>1. QED
          BY <2>3 DEF ReadsInto
      <3> HIDE DEF after
      <3>2. QED
        BY <2>2, <3>1
    <2>5. CanAppend(done.log, entry) /\ entry.index = data[done.offset] /\ done.ok
      BY <1>3
    <2>6. next = [ok |-> TRUE, offset |-> after, log |-> append(done.log, entry)]
      BY <1>1, <1>3
    <2> HIDE DEF entry, after, next, size
    <2>7. /\ done.log.Entries \in Seq([index : Nat, term : Nat, command : X])
          /\ append(done.log, entry) = [done.log EXCEPT !.Entries = Append(@, entry)]
      BY <1>2 DEF ReadLog, append
    <2> DEFINE new == Append(done.log.Entries, entry)
    <2>8. /\ new \in Seq([index : Nat, term : Nat, command : X])
          /\ new # <<>> /\ new[Len(new)] = entry
      <3> DEFINE S == [index : Nat, term : Nat, command : X]
                 es == done.log.Entries
      <3>1. es \in Seq(S) /\ entry \in S
        BY <2>4, <2>7
      <3> HIDE DEF S, es
      <3>2. /\ Append(es, entry) \in Seq(S) /\ Append(es, entry) # <<>>
            /\ Append(es, entry)[Len(Append(es, entry))] = entry
        BY <3>1
      <3>3. QED
        BY <3>2 DEF S, es
    <2> HIDE DEF new
    <2>9. append(done.log, entry) \in ReadLog(X) /\ append(done.log, entry).Entries = new
      BY <1>2, <2>7, <2>8 DEF ReadLog, new
    <2>10. getLastIndex(append(done.log, entry)) = entry.index
      BY <2>8, <2>9 DEF getLastIndex, Size
    <2>11. next \in Reading(X) /\ next.log = append(done.log, entry)
      BY <2>3, <2>6, <2>9 DEF Reading
    <2>12. QED
      BY <2>1, <2>5, <2>8, <2>9, <2>10, <2>11 DEF CanAppend, next
  <1>4. CASE ~reads
    <2>1. next = [done EXCEPT !.ok = FALSE]
      BY <1>1, <1>4
    <2> HIDE DEF next, reads
    <2>2. next \in Reading(X) /\ next.ok = FALSE
      BY <2>1 DEF Reading
    <2>3. QED
      BY <2>2 DEF next
  <1>5. QED
    BY <1>3, <1>4

\* What deserializeLog does, entry by entry.
Reads(d, data, lg, X) ==
    LET K == data[1]
    IN  /\ d[0] = [ok |-> TRUE, offset |-> 2, log |-> lg]
        /\ \A k \in 0 .. K : d[k] \in Reading(X)
        /\ \A k \in 1 .. K : d[k] = ReadEntry(data, d[k - 1])
        /\ deserializeLog(data, lg) = d[K]

LEMMA DeserializeLogReads ==
    ASSUME NEW data \in Seq(Nat), data # <<>>, NEW X, ReadsInto(data, X), NEW lg \in ReadLog(X)
    PROVE  data[1] \in Nat /\ \E d : Reads(d, data, lg, X)
  <1> DEFINE K  == data[1]
             s0 == [ok |-> TRUE, offset |-> 2, log |-> lg]
             N  == IF data = <<>> THEN 0 ELSE data[1]
             d  == CHOOSE d : d = [k \in 0 .. K |-> IF k = 0 THEN s0 ELSE ReadEntry(data, d[k - 1])]
             step == [k \in 1 .. K |-> [x \in Reading(X) |-> ReadEntry(data, x)]]
  <1>1. K \in Nat /\ s0 \in Reading(X)
    <2>1. 1 \in 1 .. Len(data)
      OBVIOUS
    <2>2. QED
      BY <2>1 DEF Reading
  <1>2. N = K
    OBVIOUS
  <1>3. deserializeLog(data, lg) = d[K]
    BY <1>2 DEF deserializeLog
  <1> HIDE DEF K, s0, N
  <1>4. step \in [1 .. K -> [Reading(X) -> Reading(X)]]
    <2>1. \A x \in Reading(X) : ReadEntry(data, x) \in Reading(X)
      BY ReadEntryParts
    <2>2. QED
      BY <2>1
  <1>5. PICK g : Iterates(g, Reading(X), s0, K, step)
    <2> HIDE DEF step
    <2>1. QED
      BY <1>1, <1>4, RecursionExists
  <1>6. /\ g \in [0 .. K -> Reading(X)] /\ g[0] = s0
        /\ \A k \in 1 .. K : g[k] = step[k][g[k - 1]]
    BY <1>5 DEF Iterates
  <1>7. \A k \in 0 .. K : g[k] = IF k = 0 THEN s0 ELSE ReadEntry(data, g[k - 1])
    <2>1. ASSUME NEW k \in 1 .. K PROVE g[k] = ReadEntry(data, g[k - 1])
      <3>1. g[k - 1] \in Reading(X)
        BY <1>1, <1>6
      <3>2. QED
        BY <1>6, <3>1
    <2> HIDE DEF step
    <2>2. ASSUME NEW k \in 0 .. K
          PROVE  g[k] = IF k = 0 THEN s0 ELSE ReadEntry(data, g[k - 1])
      <3>1. k = 0 \/ k \in 1 .. K
        BY <1>1
      <3>2. QED
        BY <1>6, <2>1, <3>1
    <2>3. QED
      BY <2>2
  <1>8. d = [k \in 0 .. K |-> IF k = 0 THEN s0 ELSE ReadEntry(data, d[k - 1])]
    <2>1. g = [k \in 0 .. K |-> g[k]]
      BY <1>6
    <2>2. g = [k \in 0 .. K |-> IF k = 0 THEN s0 ELSE ReadEntry(data, g[k - 1])]
      BY <1>7, <2>1
    <2>3. QED
      BY <2>2
  <1> HIDE DEF d, step
  <1>9. 0 \in 0 .. K /\ \A k \in 1 .. K : k \in 0 .. K /\ k # 0
    BY <1>1
  <1>10. d[0] = s0 /\ \A k \in 1 .. K : d[k] = ReadEntry(data, d[k - 1])
    BY <1>8, <1>9, Zenon
  <1>11. \A k \in 0 .. K : d[k] \in Reading(X)
    <2> DEFINE T == {k \in 0 .. K : d[k] \in Reading(X)}
    <2>1. 0 \in T
      BY <1>1, <1>9, <1>10
    <2>2. ASSUME NEW k \in 1 .. K, k - 1 \in T PROVE k \in T
      <3>1. d[k - 1] \in Reading(X)
        BY <2>2
      <3>2. ReadEntry(data, d[k - 1]) \in Reading(X)
        BY <3>1, ReadEntryParts
      <3>3. QED
        BY <1>9, <1>10, <3>2
    <2> HIDE DEF T
    <2>3. \A k \in 0 .. K : k \in T
      BY <1>1, <2>1, <2>2, UpTo
    <2>4. QED
      BY <2>3 DEF T
  <1>12. Reads(d, data, lg, X)
    BY <1>3, <1>10, <1>11 DEF Reads, K, s0
  <1>13. QED
    BY <1>1, <1>12 DEF K

\* A log that has data to read ends where the data says, which is one entry after
\* the log that it was read into; one that has none stays as it is.
LEMMA DeserializeLogAppends ==
    ASSUME NEW data \in Seq(Nat), data # <<>>, NEW X, ReadsInto(data, X), NEW lg \in ReadLog(X),
           deserializeLog(data, lg).ok
    PROVE  LET read == deserializeLog(data, lg).log
           IN  /\ data[1] \in Nat /\ read \in ReadLog(X)
               /\ data[1] = 0 => read = lg
               /\ data[1] > 0 => data[2] = getLastIndex(lg) + 1
               /\ data[1] > 0 => getLastIndex(read) \in Nat /\ getLastIndex(read) >= data[2]
  <1> DEFINE K == data[1]
  <1>1. K \in Nat
    BY DeserializeLogReads
  <1>2. PICK d : Reads(d, data, lg, X)
    BY DeserializeLogReads
  <1>3. /\ d[0] = [ok |-> TRUE, offset |-> 2, log |-> lg]
        /\ \A k \in 0 .. K : d[k] \in Reading(X)
        /\ \A k \in 1 .. K : d[k] = ReadEntry(data, d[k - 1])
        /\ deserializeLog(data, lg) = d[K]
    BY <1>2 DEF Reads
  <1> HIDE DEF K
  <1>4. d[K].ok /\ d[K].log \in ReadLog(X)
    BY <1>1, <1>3 DEF Reading
  <1>5. CASE K = 0
    BY <1>1, <1>3, <1>4, <1>5 DEF K
  <1>6. CASE K > 0
    <2> DEFINE Good(k) == d[k].ok => /\ data[2] = getLastIndex(lg) + 1
                                     /\ getLastIndex(d[k].log) >= data[2]
                                     /\ data[2] \in Nat /\ getLastIndex(d[k].log) \in Nat
               T == {k \in 0 .. K : k = 0 \/ Good(k)}
    <2>1. 0 \in T
      BY <1>1
    <2>2. ASSUME NEW k \in 1 .. K, k - 1 \in T PROVE k \in T
      <3>1. k - 1 \in 0 .. K /\ k \in 0 .. K /\ d[k] = ReadEntry(data, d[k - 1])
              /\ d[k - 1] \in Reading(X)
        BY <1>1, <1>3
      <3>2. SUFFICES ASSUME d[k].ok
                     PROVE  /\ data[2] = getLastIndex(lg) + 1
                            /\ getLastIndex(d[k].log) >= data[2]
                            /\ data[2] \in Nat /\ getLastIndex(d[k].log) \in Nat
        BY <3>1
      <3>3. LET old == d[k - 1]
            IN  /\ old.ok
                /\ old.offset \in 1 .. Len(data)
                /\ data[old.offset] = getLastIndex(old.log) + 1
                /\ getLastIndex(d[k].log) = data[old.offset]
        BY <3>1, <3>2, ReadEntryParts
      <3>4. CASE k = 1
        <4>1. d[k - 1] = [ok |-> TRUE, offset |-> 2, log |-> lg]
          BY <1>3, <3>4
        <4>2. 2 \in 1 .. Len(data) /\ data[2] = getLastIndex(lg) + 1
              /\ getLastIndex(d[k].log) = data[2]
          BY <3>3, <4>1
        <4>3. data[2] \in Nat
          BY <4>2
        <4>4. QED
          BY <4>2, <4>3
      <3>5. CASE k # 1
        <4>1. Good(k - 1)
          BY <2>2, <3>5
        <4>2. /\ data[2] = getLastIndex(lg) + 1 /\ data[2] \in Nat
              /\ getLastIndex(d[k - 1].log) >= data[2]
          BY <3>3, <4>1
        <4>3. data[d[k - 1].offset] \in Nat
          BY <3>3
        <4>4. getLastIndex(d[k].log) = data[d[k - 1].offset]
              /\ data[d[k - 1].offset] = getLastIndex(d[k - 1].log) + 1
          BY <3>3
        <4> DEFINE a == getLastIndex(d[k - 1].log)
                   b == getLastIndex(d[k].log)
        <4>5. a \in Nat
          BY <3>3, <4>1
        <4> HIDE DEF a, b
        <4>6. b = a + 1 /\ a >= data[2]
          BY <4>2, <4>4 DEF a, b
        <4>7. b >= data[2] /\ b \in Nat
          BY <4>2, <4>5, <4>6
        <4>8. QED
          BY <4>2, <4>7 DEF b
      <3>6. QED
        BY <3>4, <3>5
    <2> HIDE DEF T
    <2>3. \A k \in 0 .. K : k \in T
      BY <1>1, <2>1, <2>2, UpTo
    <2>4. Good(K)
      BY <1>1, <1>6, <2>3 DEF T
    <2>5. QED
      BY <1>1, <1>3, <1>4, <1>6, <2>4 DEF K
  <1>7. QED
    BY <1>1, <1>5, <1>6

\* Of the data of a well-formed log that can be read into an empty log twice, as
\* both calls of restoreState do, there is none: the log is empty after both.
LEMMA OnlyEmptyReadsTwice ==
    ASSUME CommandsFit, NEW lg, WellFormed(lg),
           deserializeLog(serializeLog(lg), EmptyLog).ok,
           deserializeLog(serializeLog(lg), deserializeLog(serializeLog(lg), EmptyLog).log).ok
    PROVE  /\ serializeLog(lg) = <<0>>
           /\ deserializeLog(serializeLog(lg),
                             deserializeLog(serializeLog(lg), EmptyLog).log).log = EmptyLog
  <1> DEFINE data   == serializeLog(lg)
             first  == deserializeLog(data, EmptyLog).log
             second == deserializeLog(data, first).log
             X      == {CommandOf(SubSeq(data, i, j)) : i \in Nat, j \in Nat} \cup {NoCommand}
  <1>1. data \in Seq(Nat) /\ data # <<>>
    BY DataStarts
  <1>2. ReadsInto(data, X)
    BY DEF ReadsInto
  <1>3. EmptyLog \in ReadLog(X) /\ getLastIndex(EmptyLog) = 0
    <2>1. Sentinel(0, 0) \in [index : Nat, term : Nat, command : X] /\ Sentinel(0, 0).index = 0
      BY DEF Sentinel
    <2> HIDE DEF X
    <2>2. QED
      BY <2>1 DEF EmptyLog, ReadLog, getLastIndex, Size
  <1>4. deserializeLog(data, EmptyLog).ok /\ deserializeLog(data, first).ok
    OBVIOUS
  <1> HIDE DEF X, data
  <1>5. /\ data[1] \in Nat /\ first \in ReadLog(X)
        /\ data[1] = 0 => first = EmptyLog
        /\ data[1] > 0 => /\ data[2] = 1 /\ getLastIndex(first) >= data[2]
                          /\ getLastIndex(first) \in Nat
    <2>1. LET read == deserializeLog(data, EmptyLog).log
          IN  /\ data[1] \in Nat /\ read \in ReadLog(X)
              /\ data[1] = 0 => read = EmptyLog
              /\ data[1] > 0 => data[2] = getLastIndex(EmptyLog) + 1
              /\ data[1] > 0 => getLastIndex(read) \in Nat /\ getLastIndex(read) >= data[2]
      BY <1>1, <1>2, <1>3, <1>4, DeserializeLogAppends
    <2> HIDE DEF first
    <2>2. QED
      BY <1>3, <2>1 DEF first
  <1> HIDE DEF first
  <1>6. /\ data[1] = 0 => second = first
        /\ data[1] > 0 => data[2] = getLastIndex(first) + 1
    BY <1>1, <1>2, <1>4, <1>5, DeserializeLogAppends
  <1>7. data[1] = 0
    <2>1. ASSUME data[1] > 0 PROVE FALSE
      <3> DEFINE x == getLastIndex(first)
      <3>1. x \in Nat /\ x >= 1 /\ 1 = x + 1
        BY <1>5, <1>6, <2>1
      <3> HIDE DEF x
      <3>2. QED
        BY <3>1
    <2>2. QED
      BY <1>5, <2>1
  <1>8. data = <<0>>
    <2>1. PICK d : FileBytes(d, lg)
      BY SerializeLogWrites
    <2>2. getLastIndex(lg) - lg.snapshotIndex = 0
      BY <1>7, DataStarts DEF data
    <2>3. d[0] = <<0>> /\ data = d[0]
      BY <2>1, <2>2, SerializeLogWrites DEF FileBytes, data
    <2>4. QED
      BY <2>3
  <1>9. QED
    BY <1>5, <1>6, <1>7, <1>8 DEF first, data

----------------------------------------------------------------------------
(***************************************************************************)
(* What was written reads back: a command, an entry, the log.              *)
(***************************************************************************)

\* t stands in s behind the first k elements.
IsPart(s, k, n, t) ==
    /\ s \in Seq(Nat) /\ t \in Seq(Nat) /\ Len(t) = n /\ k + n <= Len(s)
    /\ \A i \in 1 .. n : t[i] = s[k + i]

LEMMA PartIs ==
    ASSUME NEW s, NEW k \in Nat, NEW n \in Nat, NEW t, IsPart(s, k, n, t)
    PROVE  SubSeq(s, k + 1, k + n) = t
  <1> DEFINE S == Nat
             part == SubSeq(s, k + 1, k + n)
             a == k + 1
             b == k + n
  <1>0. /\ s \in Seq(S) /\ t \in Seq(S) /\ Len(t) = n /\ k + n <= Len(s)
        /\ \A i \in 1 .. n : t[i] = s[k + i]
    BY DEF IsPart
  <1> HIDE DEF S
  <1>1. a \in Nat \ {0} /\ b \in Int /\ \A i \in a .. b : s[i] \in S
    BY <1>0
  <1>2. /\ SubSeq(s, a, b) \in Seq(S)
        /\ Len(SubSeq(s, a, b)) = IF a <= b THEN b - a + 1 ELSE 0
        /\ \A i \in 1 .. b - a + 1 : SubSeq(s, a, b)[i] = s[a + i - 1]
    <2> HIDE DEF a, b
    <2>1. QED
      BY <1>0, <1>1, SubSeqProperties
  <1>3. part \in Seq(S) /\ Len(part) = n
    <2>1. (IF a <= b THEN b - a + 1 ELSE 0) = n
      OBVIOUS
    <2>2. QED
      BY <1>2, <2>1
  <1>4. ASSUME NEW i \in 1 .. n PROVE part[i] = t[i]
    <2>1. i \in 1 .. b - a + 1 /\ a + i - 1 = k + i
      OBVIOUS
    <2> HIDE DEF a, b
    <2>2. SubSeq(s, a, b)[i] = s[k + i]
      BY <1>2, <2>1
    <2>3. QED
      BY <1>0, <2>2 DEF a, b
  <1> HIDE DEF part
  <1>5. part = t
    BY <1>0, <1>3, <1>4, SeqEqual
  <1>6. QED
    BY <1>5 DEF part

\* What the bytes of a command hold, position by position.
LEMMA CommandBytesAt ==
    ASSUME NEW c \in WriteCommand \cup ReadCommand
    PROVE  LET bytes == serialize(c)
               end   == 4 + Len(c.key)
           IN  /\ bytes \in Seq(Nat)
               /\ Len(bytes) = end + (IF HasValue(c.op) THEN 1 + Len(c.value) ELSE 0)
               /\ bytes[1] = TypeByte[c.op] /\ bytes[2] = c.client /\ bytes[3] = c.seq
               /\ bytes[4] = Len(c.key)
               /\ \A i \in 1 .. Len(c.key) : bytes[4 + i] = c.key[i]
               /\ HasValue(c.op) => /\ bytes[end + 1] = Len(c.value)
                                    /\ \A i \in 1 .. Len(c.value) : bytes[end + 1 + i] = c.value[i]
  <1> DEFINE head  == <<TypeByte[c.op], c.client, c.seq, Len(c.key)>>
             key   == c.key
             value == IF HasValue(c.op) THEN <<Len(c.value)>> \o c.value ELSE <<>>
             bytes == serialize(c)
             n     == Len(c.key)
  <1>1. /\ key \in Seq(Nat) /\ n \in Nat /\ n = Len(key) /\ c.client \in Nat /\ c.seq \in Nat
        /\ HasValue(c.op) => c.value \in Seq(Nat)
        /\ TypeByte[c.op] \in Nat
        /\ bytes = head \o key \o value
        /\ bytes \in Seq(Nat)
        /\ Len(bytes) = 4 + n + (IF HasValue(c.op) THEN 1 + Len(c.value) ELSE 0)
    <2>1. key \in Seq(Nat) /\ n = Len(key)
      BY CommandLayout
    <2>2. /\ bytes = head \o key \o value
          /\ Len(bytes) = 4 + n + (IF HasValue(c.op) THEN 1 + Len(c.value) ELSE 0)
      BY CommandLayout, Zenon
    <2>3. /\ c.client \in Nat /\ c.seq \in Nat /\ TypeByte[c.op] \in Nat /\ bytes \in Seq(Nat)
          /\ HasValue(c.op) => c.value \in Seq(Nat)
      BY CommandLayout, Zenon
    <2>4. n \in Nat
      BY <2>1
    <2>5. QED
      BY <2>1, <2>2, <2>3, <2>4
  <1>2. /\ head \in Seq(Nat) /\ Len(head) = 4
        /\ head[1] = TypeByte[c.op] /\ head[2] = c.client /\ head[3] = c.seq /\ head[4] = n
    BY <1>1
  <1>3. /\ value \in Seq(Nat)
        /\ HasValue(c.op) => /\ value[1] = Len(c.value) /\ Len(value) = 1 + Len(c.value)
                             /\ \A i \in 1 .. Len(c.value) : value[1 + i] = c.value[i]
    <2>1. CASE HasValue(c.op)
      <3> DEFINE v == c.value
                 size == <<Len(v)>>
      <3>1. v \in Seq(Nat) /\ size \in Seq(Nat) /\ Len(size) = 1 /\ size[1] = Len(v) /\ Len(v) \in Nat
        BY <1>1, <2>1
      <3>2. value = size \o v
        BY <2>1
      <3> HIDE DEF size, v, value
      <3>3. /\ value \in Seq(Nat)
            /\ Len(value) = Len(size) + Len(v)
            /\ \A i \in 1 .. Len(size) + Len(v) :
                  value[i] = IF i <= Len(size) THEN size[i] ELSE v[i - Len(size)]
        BY <3>1, <3>2, ConcatParts
      <3>4. value[1] = Len(v) /\ Len(value) = 1 + Len(v)
        BY <3>1, <3>3
      <3>5. ASSUME NEW i \in 1 .. Len(v) PROVE value[1 + i] = v[i]
        <4>1. 1 + i \in 1 .. Len(size) + Len(v) /\ ~(1 + i <= Len(size)) /\ (1 + i) - Len(size) = i
          BY <3>1
        <4>2. QED
          BY <3>3, <4>1
      <3>6. QED
        BY <3>3, <3>4, <3>5 DEF v
    <2>2. CASE ~HasValue(c.op)
      BY <2>2
    <2>3. QED
      BY <2>1, <2>2
  <1> HIDE DEF head, key, value, bytes, n
  <1> DEFINE front == head \o key
  <1>4. /\ front \in Seq(Nat) /\ Len(front) = Len(head) + Len(key)
        /\ \A i \in 1 .. Len(head) + Len(key) :
              front[i] = IF i <= Len(head) THEN head[i] ELSE key[i - Len(head)]
    BY <1>1, <1>2, ConcatParts
  <1>5. /\ bytes = front \o value
        /\ \A i \in 1 .. Len(front) + Len(value) :
              bytes[i] = IF i <= Len(front) THEN front[i] ELSE value[i - Len(front)]
    <2>1. bytes = front \o value
      BY <1>1
    <2> HIDE DEF front
    <2>2. QED
      BY <1>3, <1>4, <2>1, ConcatParts
  <1> HIDE DEF front
  <1>6. Len(front) = 4 + n /\ Len(value) \in Nat
    BY <1>1, <1>2, <1>3, <1>4
  <1>7. \A i \in 1 .. 4 : bytes[i] = head[i]
    <2>1. ASSUME NEW i \in 1 .. 4 PROVE bytes[i] = head[i]
      <3>1. i \in 1 .. Len(front) + Len(value) /\ i <= Len(front)
        BY <1>1, <1>6
      <3>2. i \in 1 .. Len(head) + Len(key) /\ i <= Len(head)
        BY <1>1, <1>2
      <3>3. QED
        BY <1>4, <1>5, <3>1, <3>2
    <2>2. QED
      BY <2>1
  <1>8. ASSUME NEW i \in 1 .. n PROVE bytes[4 + i] = key[i]
    <2>1. 4 + i \in 1 .. Len(front) + Len(value) /\ 4 + i <= Len(front)
      BY <1>1, <1>6
    <2>2. 4 + i \in 1 .. Len(head) + Len(key) /\ ~(4 + i <= Len(head)) /\ (4 + i) - Len(head) = i
      BY <1>1, <1>2
    <2>3. QED
      BY <1>4, <1>5, <2>1, <2>2
  <1>9. ASSUME NEW i \in 1 .. Len(value) PROVE bytes[4 + n + i] = value[i]
    <2>1. /\ 4 + n + i \in 1 .. Len(front) + Len(value) /\ ~(4 + n + i <= Len(front))
          /\ (4 + n + i) - Len(front) = i
      BY <1>1, <1>6
    <2>2. QED
      BY <1>5, <2>1
  <1>10. ASSUME HasValue(c.op)
         PROVE  /\ bytes[4 + n + 1] = Len(c.value)
                /\ \A i \in 1 .. Len(c.value) : bytes[4 + n + 1 + i] = c.value[i]
    <2>1. Len(c.value) \in Nat /\ Len(value) = 1 + Len(c.value) /\ value[1] = Len(c.value)
      BY <1>1, <1>3, <1>10
    <2>2. bytes[4 + n + 1] = Len(c.value)
      BY <1>9, <2>1
    <2>3. ASSUME NEW i \in 1 .. Len(c.value) PROVE bytes[4 + n + 1 + i] = c.value[i]
      <3>1. 1 + i \in 1 .. Len(value) /\ 4 + n + (1 + i) = 4 + n + 1 + i
        BY <1>1, <2>1
      <3>2. value[1 + i] = c.value[i]
        BY <1>3, <1>10
      <3>3. bytes[4 + n + (1 + i)] = value[1 + i]
        BY <1>9, <3>1
      <3>4. QED
        BY <3>1, <3>2, <3>3
    <2>4. QED
      BY <2>2, <2>3
  <1>11. bytes[1] = TypeByte[c.op] /\ bytes[2] = c.client /\ bytes[3] = c.seq /\ bytes[4] = n
    BY <1>2, <1>7
  <1>12. QED
    BY <1>1, <1>8, <1>10, <1>11 DEF bytes, key, n

\* The three types have different bytes.
LEMMA TypeBytes ==
    ASSUME NEW op \in {"PUT", "APPEND", "GET"}
    PROVE  /\ DOMAIN TypeByte = {"PUT", "APPEND", "GET"}
           /\ \A o \in DOMAIN TypeByte : TypeByte[o] = TypeByte[op] <=> o = op
  BY DEF TypeByte

\* A command reads back from its bytes as it was.
LEMMA CommandReadsBack ==
    ASSUME NEW c \in WriteCommand \cup ReadCommand
    PROVE  /\ CanDeserialize(serialize(c))
           /\ deserialize(serialize(c)) = c
  <1> DEFINE bytes == serialize(c)
             n     == Len(c.key)
             m     == Len(c.value)
  <1>1. /\ bytes \in Seq(Nat)
        /\ Len(bytes) = 4 + n + (IF HasValue(c.op) THEN 1 + m ELSE 0)
        /\ bytes[1] = TypeByte[c.op] /\ bytes[2] = c.client /\ bytes[3] = c.seq
        /\ bytes[4] = n
        /\ \A i \in 1 .. n : bytes[4 + i] = c.key[i]
        /\ HasValue(c.op) => /\ bytes[4 + n + 1] = m
                             /\ \A i \in 1 .. m : bytes[4 + n + 1 + i] = c.value[i]
    BY CommandBytesAt, Zenon
  <1>2. /\ c.key \in Seq(Nat) /\ c.op \in {"PUT", "APPEND", "GET"}
        /\ HasValue(c.op) => c.value \in Seq(Nat)
        /\ HasValue(c.op) <=> c \in WriteCommand
    BY CommandLayout
  <1>3. n \in Nat /\ (HasValue(c.op) => m \in Nat)
    BY <1>2
  <1>4. (CHOOSE o \in DOMAIN TypeByte : TypeByte[o] = bytes[1]) = c.op
    BY <1>1, <1>2, TypeBytes
  <1> HIDE DEF bytes, n, m
  <1>5. AfterString(bytes, KeyOffset) = 4 + n + 1 /\ HasString(bytes, KeyOffset)
    BY <1>1, <1>3 DEF AfterString, KeyOffset, HasString
  <1>6. read_string(bytes, KeyOffset) = c.key
    <2>1. read_string(bytes, KeyOffset) = SubSeq(bytes, 5, 4 + n)
      BY <1>1 DEF read_string, KeyOffset
    <2> DEFINE key == c.key
    <2>2. key \in Seq(Nat) /\ Len(key) = n /\ \A i \in 1 .. n : key[i] = bytes[4 + i]
      BY <1>1, <1>2 DEF n
    <2>3. Len(bytes) \in Nat /\ 4 + n <= Len(bytes)
      <3>1. CASE HasValue(c.op)
        BY <1>1, <1>3, <3>1
      <3>2. CASE ~HasValue(c.op)
        BY <1>1, <1>3, <3>2
      <3>3. QED
        BY <3>1, <3>2
    <2> HIDE DEF key
    <2>4. SubSeq(bytes, 5, 4 + n) = key
      <3>1. IsPart(bytes, 4, n, key)
        BY <1>1, <2>2, <2>3 DEF IsPart
      <3>2. 4 \in Nat /\ 4 + 1 = 5
        OBVIOUS
      <3>3. SubSeq(bytes, 4 + 1, 4 + n) = key
        BY <1>3, <3>1, <3>2, PartIs, Zenon
      <3>4. QED
        BY <3>2, <3>3, Zenon
    <2>5. QED
      BY <2>1, <2>4 DEF key
  <1>7. CASE HasValue(c.op)
    <2>1. HasString(bytes, 4 + n + 1)
      BY <1>1, <1>3, <1>7 DEF HasString
    <2>2. CanDeserialize(bytes)
      <3>1. c.op \in DOMAIN TypeByte /\ KeyOffset - 1 <= Len(bytes)
        BY <1>1, <1>2, <1>3, <1>7, TypeBytes DEF KeyOffset
      <3>2. QED
        BY <1>1, <1>5, <2>1, <3>1 DEF CanDeserialize
    <2>3. read_string(bytes, 4 + n + 1) = c.value
      <3>1. read_string(bytes, 4 + n + 1) = SubSeq(bytes, 4 + n + 1 + 1, 4 + n + 1 + m)
        BY <1>1, <1>7 DEF read_string
      <3> DEFINE value == c.value
                 k == 4 + n + 1
      <3>2. /\ value \in Seq(Nat) /\ Len(value) = m /\ \A i \in 1 .. m : value[i] = bytes[k + i]
            /\ m \in Nat
        BY <1>1, <1>2, <1>3, <1>7 DEF m
      <3>3. k \in Nat /\ Len(bytes) = k + m
        BY <1>1, <1>3, <1>7
      <3> HIDE DEF value, k
      <3>4. SubSeq(bytes, k + 1, k + m) = value
        <4>1. IsPart(bytes, k, m, value)
          BY <1>1, <3>2, <3>3 DEF IsPart
        <4>2. QED
          BY <3>2, <3>3, <4>1, PartIs, Zenon
      <3>5. QED
        BY <3>1, <3>4 DEF k, value
    <2>4. deserialize(bytes) = [op |-> c.op, client |-> c.client, seq |-> c.seq, key |-> c.key,
                                value |-> c.value]
      BY <1>1, <1>4, <1>5, <1>6, <1>7, <2>3 DEF deserialize
    <2>5. c = [op |-> c.op, client |-> c.client, seq |-> c.seq, key |-> c.key, value |-> c.value]
      BY <1>2, <1>7 DEF WriteCommand
    <2>6. QED
      BY <2>2, <2>4, <2>5 DEF bytes
  <1>8. CASE ~HasValue(c.op)
    <2>1. CanDeserialize(bytes)
      <3>1. c.op \in DOMAIN TypeByte /\ KeyOffset - 1 <= Len(bytes)
        BY <1>1, <1>2, <1>3, <1>8, TypeBytes DEF KeyOffset
      <3>2. QED
        BY <1>1, <1>5, <1>8, <3>1 DEF CanDeserialize
    <2>2. deserialize(bytes) = [op |-> c.op, client |-> c.client, seq |-> c.seq, key |-> c.key]
      BY <1>1, <1>4, <1>5, <1>6, <1>8 DEF deserialize
    <2>3. c = [op |-> c.op, client |-> c.client, seq |-> c.seq, key |-> c.key]
      <3>1. c \in ReadCommand
        BY <1>2, <1>8
      <3>2. QED
        BY <3>1 DEF ReadCommand
    <2>4. QED
      BY <2>1, <2>2, <2>3 DEF bytes
  <1>9. QED
    BY <1>7, <1>8

\* No part of the bytes of a command that ends before they do is read as one.
LEMMA TornCommandThrows ==
    ASSUME NEW c \in WriteCommand \cup ReadCommand, NEW k \in 0 .. Len(serialize(c)) - 1
    PROVE  ~CanDeserialize(SubSeq(serialize(c), 1, k))
  <1> DEFINE bytes == serialize(c)
             n     == Len(c.key)
             m     == Len(c.value)
             part  == SubSeq(bytes, 1, k)
  <1>1. /\ bytes \in Seq(Nat)
        /\ Len(bytes) = 4 + n + (IF HasValue(c.op) THEN 1 + m ELSE 0)
        /\ bytes[1] = TypeByte[c.op]
        /\ bytes[4] = n
        /\ HasValue(c.op) => bytes[4 + n + 1] = m
    BY CommandBytesAt, Zenon
  <1>2. /\ c.key \in Seq(Nat) /\ c.op \in {"PUT", "APPEND", "GET"}
        /\ HasValue(c.op) => c.value \in Seq(Nat)
    BY CommandLayout
  <1>3. n \in Nat /\ (HasValue(c.op) => m \in Nat) /\ Len(bytes) \in Nat /\ k \in 0 .. Len(bytes) - 1
    <2>1. n \in Nat /\ (HasValue(c.op) => m \in Nat)
      <3>1. n \in Nat
        BY <1>2
      <3>2. ASSUME HasValue(c.op) PROVE m \in Nat
        BY <1>2, <3>2
      <3>3. QED
        BY <3>1, <3>2
    <2>2. k \in 0 .. Len(bytes) - 1
      OBVIOUS
    <2> HIDE DEF bytes
    <2>3. Len(bytes) \in Nat
      <3>1. bytes \in Seq(Nat)
        BY <1>1
      <3>2. QED
        BY <3>1
    <2>4. QED
      BY <2>1, <2>2, <2>3
  <1> HIDE DEF bytes, n, m
  <1>4. Len(part) = k /\ \A i \in 1 .. k : part[i] = bytes[i]
    BY <1>1, <1>3, SubSeqUpTo
  <1> HIDE DEF part
  <1>5. SUFFICES ASSUME CanDeserialize(part) PROVE FALSE
    BY DEF part, bytes
  <1>6. 4 <= k /\ 4 + part[4] <= k
    BY <1>4, <1>5 DEF CanDeserialize, HasString, KeyOffset
  <1>7. part[1] = bytes[1] /\ part[4] = n /\ 4 + n <= k
    BY <1>1, <1>3, <1>4, <1>6
  <1>8. HasValue(c.op)
    BY <1>1, <1>3, <1>7
  <1>9. HasString(part, 4 + n + 1)
    <2>1. PICK op \in DOMAIN TypeByte : /\ part[1] = TypeByte[op]
                                        /\ HasValue(op) => HasString(part, AfterString(part, KeyOffset))
      BY <1>5 DEF CanDeserialize
    <2>2. op = c.op
      <3>1. TypeByte[op] = TypeByte[c.op]
        BY <1>1, <1>7, <2>1
      <3>2. QED
        BY ONLY <1>2, <2>1, <3>1, TypeBytes, Zenon
    <2>3. QED
      BY <1>7, <1>8, <2>1, <2>2 DEF AfterString, KeyOffset
  <1>10. 4 + n + 1 <= k /\ 4 + n + 1 + part[4 + n + 1] <= k
    BY <1>4, <1>9 DEF HasString
  <1>11. part[4 + n + 1] = m
    BY <1>1, <1>3, <1>4, <1>8, <1>10
  <1>12. QED
    BY <1>1, <1>3, <1>8, <1>10, <1>11

\* The payload of an entry reads back from its bytes.
LEMMA PayloadReadsBack ==
    ASSUME CommandsFit, NEW command \in Payload
    PROVE  CommandOf(CommandBytes(command)) = command
  <1>1. CASE command = NoCommand
    BY <1>1 DEF CommandBytes, CommandOf
  <1>2. CASE command # NoCommand
    <2>1. command \in WriteCommand \cup ReadCommand
      BY <1>2 DEF Payload, CommandsFit
    <2>2. serialize(command) # <<>>
      <3>1. serialize(command) \in Seq(Nat) /\ CanDeserialize(serialize(command))
        BY <2>1, CommandLayout, CommandReadsBack
      <3>2. ~(KeyOffset - 1 <= Len(<<>>))
        BY DEF KeyOffset
      <3>3. ~CanDeserialize(<<>>)
        BY <3>2 DEF CanDeserialize
      <3>4. QED
        BY <3>1, <3>3
    <2>3. QED
      BY <1>2, <2>1, <2>2, CommandReadsBack DEF CommandBytes, CommandOf
  <1>3. QED
    BY <1>1, <1>2

\* The entry e, with a payload of len bytes, stands in the data from o on.
StandsAt(data, o, len, e) ==
    /\ o + 2 <= Len(data) /\ o + 3 + len - 1 <= Len(data)
    /\ data[o] = e.index /\ data[o + 1] = e.term /\ data[o + 2] = len
    /\ CommandOf(SubSeq(data, o + 3, o + 3 + len - 1)) = e.command

LEMMA ReadEntryAt ==
    ASSUME NEW data, NEW o \in Nat, NEW len \in Nat, NEW e \in Entry, NEW lg, CanAppend(lg, e),
           StandsAt(data, o, len, e)
    PROVE  ReadEntry(data, [ok |-> TRUE, offset |-> o, log |-> lg])
              = [ok |-> TRUE, offset |-> o + 3 + len, log |-> append(lg, e)]
  <1> DEFINE done  == [ok |-> TRUE, offset |-> o, log |-> lg]
             size  == data[done.offset + 2]
             after == done.offset + 3 + size
             entry == [index   |-> data[done.offset],
                       term    |-> data[done.offset + 1],
                       command |-> CommandOf(SubSeq(data, done.offset + 3, after - 1))]
  <1>0. /\ data[o] = e.index /\ data[o + 1] = e.term /\ data[o + 2] = len
        /\ CommandOf(SubSeq(data, o + 3, o + 3 + len - 1)) = e.command
        /\ o + 2 <= Len(data) /\ o + 3 + len - 1 <= Len(data)
    BY Zenon DEF StandsAt
  <1>1. done.ok /\ done.offset = o /\ done.log = lg
    OBVIOUS
  <1>2. ReadEntry(data, done) = IF /\ done.ok /\ done.offset + 2 <= Len(data)
                                   /\ after - 1 <= Len(data) /\ CanAppend(done.log, entry)
                                THEN [ok |-> TRUE, offset |-> after, log |-> append(done.log, entry)]
                                ELSE [done EXCEPT !.ok = FALSE]
    BY Zenon DEF ReadEntry
  <1> HIDE DEF done
  <1>3. size = len /\ after = o + 3 + len
    BY <1>0, <1>1
  <1> HIDE DEF size
  <1>4. entry = e
    <2>1. e = [index |-> e.index, term |-> e.term, command |-> e.command]
      BY DEF Entry
    <2> HIDE DEF after
    <2>2. CommandOf(SubSeq(data, done.offset + 3, after - 1)) = e.command
      BY <1>0, <1>1, <1>3
    <2>3. data[done.offset] = e.index /\ data[done.offset + 1] = e.term
      BY <1>0, <1>1
    <2>4. QED
      BY <2>1, <2>2, <2>3
  <1> HIDE DEF entry, after
  <1>5. ReadEntry(data, done) = [ok |-> TRUE, offset |-> after, log |-> append(lg, e)]
    BY <1>0, <1>1, <1>2, <1>3, <1>4
  <1>6. QED
    BY <1>3, <1>5 DEF done

\* An entry that stands in the data is read and appended, whatever follows it.
LEMMA ReadEntryReads ==
    ASSUME CommandsFit, NEW data \in Seq(Nat), NEW e \in Entry, NEW base \in Nat, NEW lg,
           CanAppend(lg, e),
           base + Len(serializeEntry(e)) <= Len(data),
           \A i \in 1 .. Len(serializeEntry(e)) : data[base + i] = serializeEntry(e)[i]
    PROVE  ReadEntry(data, [ok |-> TRUE, offset |-> base + 1, log |-> lg])
              = [ok |-> TRUE, offset |-> base + Len(serializeEntry(e)) + 1, log |-> append(lg, e)]
  <1> DEFINE bytes == CommandBytes(e.command)
             all   == serializeEntry(e)
             head  == <<e.index, e.term, Len(bytes)>>
             len   == Len(bytes)
  <1>1. /\ bytes \in Seq(Nat) /\ all = head \o bytes /\ all \in Seq(Nat) /\ Len(all) = 3 + Len(bytes)
    BY EntryLayout, Zenon
  <1>2. /\ len \in Nat /\ e.index \in Nat /\ e.term \in Nat /\ e.command \in Payload
        /\ e = [index |-> e.index, term |-> e.term, command |-> e.command]
    <2>1. e.index \in Nat /\ e.term \in Nat /\ e.command \in Payload
          /\ e = [index |-> e.index, term |-> e.term, command |-> e.command]
      BY DEF Entry
    <2> HIDE DEF bytes
    <2>2. QED
      BY <1>1, <2>1
  <1>3. CommandOf(bytes) = e.command
    BY <1>2, PayloadReadsBack
  <1>4. /\ base + Len(all) <= Len(data)
        /\ \A i \in 1 .. Len(all) : data[base + i] = all[i]
    OBVIOUS
  <1> HIDE DEF bytes, all
  <1>5. /\ head \in Seq(Nat) /\ Len(head) = 3
        /\ head[1] = e.index /\ head[2] = e.term /\ head[3] = len
    BY <1>2
  <1> HIDE DEF head
  <1>6. /\ Len(head \o bytes) = Len(head) + Len(bytes)
        /\ \A i \in 1 .. Len(head) + Len(bytes) :
              all[i] = IF i <= Len(head) THEN head[i] ELSE bytes[i - Len(head)]
    BY <1>1, <1>5, ConcatParts
  <1>7. Len(all) = 3 + len /\ len = Len(bytes)
    BY <1>1
  <1> HIDE DEF len
  <1>8. all[1] = e.index /\ all[2] = e.term /\ all[3] = len
    <2>1. ASSUME NEW i \in 1 .. 3 PROVE all[i] = head[i]
      <3>1. i \in 1 .. Len(head) + Len(bytes) /\ i <= Len(head)
        BY <1>2, <1>5, <1>7
      <3>2. QED
        BY <1>6, <3>1
    <2>2. QED
      BY <1>5, <2>1
  <1>9. ASSUME NEW i \in 1 .. len PROVE all[3 + i] = bytes[i]
    <2>1. 3 + i \in 1 .. Len(head) + Len(bytes) /\ ~(3 + i <= Len(head)) /\ (3 + i) - Len(head) = i
      BY <1>2, <1>5, <1>7
    <2>2. QED
      BY <1>6, <2>1
  <1>10. /\ data[base + 1] = e.index /\ data[base + 1 + 1] = e.term /\ data[base + 1 + 2] = len
    <2>1. 1 \in 1 .. Len(all) /\ 2 \in 1 .. Len(all) /\ 3 \in 1 .. Len(all)
      BY <1>2, <1>7
    <2>2. base + 1 + 1 = base + 2 /\ base + 1 + 2 = base + 3
      OBVIOUS
    <2>3. QED
      BY <1>4, <1>8, <2>1, <2>2
  <1> DEFINE after == base + 1 + 3 + len
  <1>11. SubSeq(data, base + 1 + 3, after - 1) = bytes
    <2> DEFINE k == base + 3
    <2>1. k \in Nat /\ k + len <= Len(data)
      <3> DEFINE whole == Len(data)
                 size  == Len(all)
      <3>1. whole \in Nat /\ len \in Nat /\ base + size <= whole /\ size = 3 + len
        BY <1>2, <1>4, <1>7
      <3> HIDE DEF whole, size
      <3>2. base + 3 \in Nat /\ base + 3 + len <= whole
        BY <3>1
      <3>3. QED
        BY <3>2 DEF whole
    <2>2. ASSUME NEW i \in 1 .. len PROVE bytes[i] = data[k + i]
      <3>1. 3 + i \in 1 .. Len(all) /\ base + (3 + i) = k + i
        BY <1>2, <1>7
      <3>2. data[base + (3 + i)] = all[3 + i]
        BY <1>4, <3>1
      <3>3. QED
        BY <1>9, <3>1, <3>2
    <2>3. base + 1 + 3 = k + 1 /\ after - 1 = k + len
      BY <1>2
    <2>4. /\ bytes \in Seq(Nat) /\ Len(bytes) = len /\ len \in Nat /\ data \in Seq(Nat)
          /\ \A i \in 1 .. len : bytes[i] = data[k + i]
      BY <1>1, <1>2, <1>7, <2>2
    <2> HIDE DEF k, after
    <2>5. SubSeq(data, k + 1, k + len) = bytes
      <3>1. IsPart(data, k, len, bytes)
        BY <2>1, <2>4 DEF IsPart
      <3>2. QED
        BY <2>1, <2>4, <3>1, PartIs, Zenon
    <2>6. QED
      BY <2>3, <2>5
  <1>12. /\ base + 1 + 2 <= Len(data) /\ after - 1 <= Len(data)
         /\ after = base + Len(all) + 1
    <2> DEFINE whole == Len(data)
               size  == Len(all)
    <2>1. whole \in Nat /\ base + size <= whole /\ size = 3 + len /\ len \in Nat
      BY <1>2, <1>4, <1>7
    <2> HIDE DEF whole, size
    <2>2. base + 1 + 2 <= whole /\ after - 1 <= whole /\ after = base + size + 1
      BY <2>1
    <2>3. QED
      BY <2>2 DEF whole, size
  <1> DEFINE o == base + 1
  <1>13. /\ o \in Nat /\ o + 3 + len = after /\ o + 3 = base + 1 + 3
         /\ o + 1 = base + 1 + 1 /\ o + 2 = base + 1 + 2
    OBVIOUS
  <1> HIDE DEF o
  <1>14. /\ data[o] = e.index /\ data[o + 1] = e.term /\ data[o + 2] = len
         /\ o + 2 <= Len(data)
    BY <1>10, <1>12, <1>13 DEF o
  <1> HIDE DEF after
  <1>15. /\ CommandOf(SubSeq(data, o + 3, o + 3 + len - 1)) = e.command
         /\ o + 3 + len - 1 <= Len(data)
    <2> DEFINE p == base + 1 + 3
               q == after - 1
    <2>1. o + 3 = p /\ o + 3 + len - 1 = q
      BY <1>2, <1>13
    <2>2. CommandOf(SubSeq(data, p, q)) = e.command /\ q <= Len(data)
      BY <1>3, <1>11, <1>12
    <2> HIDE DEF p, q
    <2>3. QED
      BY <2>1, <2>2, Zenon
  <1>16. ReadEntry(data, [ok |-> TRUE, offset |-> o, log |-> lg])
            = [ok |-> TRUE, offset |-> o + 3 + len, log |-> append(lg, e)]
    <2>1. o \in Nat /\ len \in Nat /\ CanAppend(lg, e)
      BY <1>2, <1>13
    <2>2. StandsAt(data, o, len, e)
      BY <1>14, <1>15, Zenon DEF StandsAt
    <2>3. QED
      BY <2>1, <2>2, ReadEntryAt
  <1>17. QED
    BY <1>12, <1>13, <1>16 DEF o, all

\* A file that ends before all of it was written is not complete: the size of the
\* log data is missing, or more than what follows it.
LEMMA TornFileEnds ==
    ASSUME CommandsFit, NEW lg, WellFormed(lg), NEW term \in Nat, NEW vote \in Nat,
           NEW k \in 0 .. Len(StateFile(term, vote, lg)) - 1
    PROVE  ~IsComplete(SubSeq(StateFile(term, vote, lg), 1, k))
  <1> DEFINE file == StateFile(term, vote, lg)
             data == serializeLog(lg)
             part == SubSeq(file, 1, k)
             len  == Len(data)
             all  == Len(file)
  <1>1. data \in Seq(Nat) /\ file \in Seq(Nat \cup Nat) /\ FileHolds(file, term, vote, lg)
    BY StateFileHolds
  <1>2. k \in 0 .. all - 1
    OBVIOUS
  <1> HIDE DEF file
  <1>3. all = 5 + len /\ file[5] = len
    BY <1>1 DEF FileHolds, LogSize
  <1>4. len \in Nat /\ all \in Nat
    BY <1>1
  <1>5. Len(part) = k /\ \A i \in 1 .. k : part[i] = file[i]
    <2>1. k \in 0 .. Len(file)
      BY <1>2, <1>4
    <2>2. QED
      BY <1>1, <2>1, SubSeqUpTo
  <1> HIDE DEF part, len, all
  <1>6. SUFFICES ASSUME IsComplete(part) PROVE FALSE
    BY DEF part, file
  <1>7. 5 <= k /\ 5 + part[5] <= k
    BY <1>5, <1>6 DEF IsComplete, LogSize
  <1>8. part[5] = len
    BY <1>2, <1>3, <1>4, <1>5, <1>7
  <1>9. QED
    BY <1>2, <1>3, <1>4, <1>7, <1>8

\* What was written first stays in front of the data: d[k] is what was written
\* after the piece p[k].
Grows(d, p, K) ==
    /\ K \in Nat
    /\ \A k \in 0 .. K : d[k] \in Seq(Nat)
    /\ \A k \in 1 .. K : p[k] \in Seq(Nat) /\ d[k] = d[k - 1] \o p[k]

LEMMA GrowingKeeps ==
    ASSUME NEW d, NEW p, NEW K, Grows(d, p, K)
    PROVE  \A j \in 0 .. K : \A k \in 0 .. j :
              /\ Len(d[k]) <= Len(d[j])
              /\ \A i \in 1 .. Len(d[k]) : d[j][i] = d[k][i]
  <1> DEFINE Keeps(j, k) == /\ Len(d[k]) <= Len(d[j])
                            /\ \A i \in 1 .. Len(d[k]) : d[j][i] = d[k][i]
             T == {j \in 0 .. K : \A k \in 0 .. j : Keeps(j, k)}
  <1>1. K \in Nat
    BY DEF Grows
  <1>2. /\ \A k \in 0 .. K : d[k] \in Seq(Nat)
        /\ \A k \in 1 .. K : p[k] \in Seq(Nat) /\ d[k] = d[k - 1] \o p[k]
    BY DEF Grows
  <1>3. 0 \in T
    <2>1. d[0] \in Seq(Nat)
      BY <1>1, <1>2
    <2>2. Len(d[0]) \in Nat
      BY <2>1
    <2>3. Keeps(0, 0) /\ \A k \in 0 .. 0 : k = 0
      BY <2>2
    <2> HIDE DEF Keeps
    <2>4. QED
      BY <1>1, <2>3
  <1>4. ASSUME NEW j \in 1 .. K, j - 1 \in T PROVE j \in T
    <2> DEFINE a == d[j - 1]
               b == p[j]
               c == d[j]
    <2>1. a \in Seq(Nat) /\ b \in Seq(Nat) /\ c = a \o b /\ j \in 0 .. K
      <3>1. j - 1 \in 0 .. K /\ j \in 0 .. K
        BY <1>1
      <3>2. QED
        BY <1>2, <3>1
    <2>2. \A k \in 0 .. j - 1 : Keeps(j - 1, k)
      BY <1>4
    <2>3. ASSUME NEW k \in 0 .. j - 1 PROVE Keeps(j, k)
      <3> DEFINE n == Len(d[k])
      <3>1. n <= Len(a) /\ \A i \in 1 .. n : a[i] = d[k][i]
        BY <2>2
      <3>2. n \in Nat
        <4>1. k \in 0 .. K
          BY <1>1
        <4>2. d[k] \in Seq(Nat)
          BY <1>2, <4>1
        <4>3. QED
          BY <4>2
      <3> HIDE DEF a, b, n, c
      <3>3. /\ Len(c) = Len(a) + Len(b)
            /\ \A i \in 1 .. Len(a) + Len(b) : c[i] = IF i <= Len(a) THEN a[i] ELSE b[i - Len(a)]
        BY <2>1, ConcatParts
      <3>4. Len(a) \in Nat /\ Len(b) \in Nat
        BY <2>1
      <3>5. n <= Len(c) /\ \A i \in 1 .. n : c[i] = d[k][i]
        <4>1. \A i \in 1 .. n : i \in 1 .. Len(a) + Len(b) /\ i <= Len(a)
          BY <3>1, <3>2, <3>4
        <4>2. \A i \in 1 .. n : c[i] = a[i]
          BY <3>3, <4>1
        <4>3. n <= Len(c)
          BY <3>1, <3>2, <3>3, <3>4
        <4>4. QED
          BY <3>1, <4>2, <4>3
      <3>6. QED
        BY <3>5 DEF n, c
    <2>4. Keeps(j, j)
      <3>1. Len(c) \in Nat
        <4>1. c \in Seq(Nat)
          BY <1>2, <2>1
        <4> HIDE DEF c
        <4>2. QED
          BY <4>1
      <3>2. QED
        BY <3>1
    <2> HIDE DEF Keeps
    <2>5. \A k \in 0 .. j : k = j \/ k \in 0 .. j - 1
      BY <1>1
    <2>6. QED
      BY <2>1, <2>3, <2>4, <2>5
  <1>5. \A j \in 0 .. K : j \in T
    <2> HIDE DEF T
    <2>1. QED
      BY <1>1, <1>3, <1>4, UpTo
  <1>6. QED
    BY <1>5

\* Each piece stands behind what was written before it.
HoldsPiece(data, base, piece, after) ==
    /\ base \in Nat /\ Len(piece) \in Nat
    /\ after = base + Len(piece) /\ after <= Len(data)
    /\ \A i \in 1 .. Len(piece) : data[base + i] = piece[i]

LEMMA GrowingHolds ==
    ASSUME NEW d, NEW p, NEW K, Grows(d, p, K), NEW k \in 1 .. K
    PROVE  HoldsPiece(d[K], Len(d[k - 1]), p[k], Len(d[k]))
  <1> DEFINE a == d[k - 1]
             b == p[k]
             c == d[k]
             e == d[K]
             base == Len(a)
             size == Len(b)
  <1>1. K \in Nat /\ k - 1 \in 0 .. K /\ k \in 0 .. K /\ K \in 0 .. K /\ k \in 0 .. K
    BY DEF Grows
  <1>2. a \in Seq(Nat) /\ b \in Seq(Nat) /\ c = a \o b
    BY <1>1 DEF Grows
  <1>3. Len(c) <= Len(e) /\ \A i \in 1 .. Len(c) : e[i] = c[i]
    BY <1>1, GrowingKeeps
  <1> HIDE DEF a, b, c, e
  <1>4. /\ Len(c) = Len(a) + Len(b)
        /\ \A i \in 1 .. Len(a) + Len(b) : c[i] = IF i <= Len(a) THEN a[i] ELSE b[i - Len(a)]
    BY <1>2, ConcatParts
  <1>5. base \in Nat /\ size \in Nat
    BY <1>2
  <1>6. Len(c) = base + size
    BY <1>4
  <1>7. ASSUME NEW i \in 1 .. size PROVE e[base + i] = b[i]
    <2>1. /\ base + i \in 1 .. Len(a) + Len(b) /\ ~(base + i <= Len(a))
          /\ (base + i) - Len(a) = i /\ base + i \in 1 .. Len(c)
      BY <1>5, <1>6
    <2>2. e[base + i] = c[base + i]
      BY <1>3, <2>1
    <2>3. c[base + i] = b[i]
      BY <1>4, <2>1
    <2>4. QED
      BY <2>2, <2>3
  <1>8. QED
    BY <1>3, <1>5, <1>6, <1>7 DEF a, b, c, e, HoldsPiece

\* The first n entries of a sequence and the next one are the first n + 1.
LEMMA SubSeqGrows ==
    ASSUME NEW S, NEW s \in Seq(S), NEW n \in Nat, n + 1 <= Len(s)
    PROVE  Append(SubSeq(s, 1, n), s[n + 1]) = SubSeq(s, 1, n + 1)
  <1> DEFINE a == SubSeq(s, 1, n)
             b == SubSeq(s, 1, n + 1)
             c == Append(a, s[n + 1])
  <1>1. n \in 0 .. Len(s) /\ n + 1 \in 0 .. Len(s) /\ s[n + 1] \in S
    OBVIOUS
  <1>2. a \in Seq(S) /\ Len(a) = n /\ \A i \in 1 .. n : a[i] = s[i]
    BY <1>1, SubSeqUpTo
  <1>3. b \in Seq(S) /\ Len(b) = n + 1 /\ \A i \in 1 .. n + 1 : b[i] = s[i]
    BY <1>1, SubSeqUpTo
  <1> HIDE DEF a, b
  <1>4. c \in Seq(S) /\ Len(c) = n + 1 /\ \A i \in 1 .. n + 1 : c[i] = s[i]
    <2>1. c \in Seq(S) /\ Len(c) = Len(a) + 1 /\ c[Len(a) + 1] = s[n + 1]
          /\ \A i \in 1 .. Len(a) : c[i] = a[i]
      BY <1>1, <1>2
    <2> HIDE DEF c
    <2>2. \A i \in 1 .. n + 1 : i \in 1 .. n \/ i = n + 1
      OBVIOUS
    <2>3. QED
      BY <1>2, <2>1, <2>2
  <1> HIDE DEF c
  <1>5. c = b
    BY <1>3, <1>4, SeqEqual
  <1>6. QED
    BY <1>5 DEF a, b, c

\* The log up to the k-th entry above the sentinel, before any compaction.
LogTo(lg, k) == [Entries |-> SubSeq(lg.Entries, 1, k + 1), snapshotIndex |-> 0, snapshotTerm |-> 0]

\* A log that has all its entries from the constructor's sentinel on.
FromTheStart(lg) ==
    /\ WellFormed(lg)
    /\ lg.snapshotIndex = 0 /\ lg.snapshotTerm = 0
    /\ lg.Entries[1] = Sentinel(0, 0)

LEMMA LogToParts ==
    ASSUME NEW lg, FromTheStart(lg)
    PROVE  LET es == SavedEntries(lg)
           IN  /\ es \in Seq(Entry)
               /\ LogTo(lg, 0) = EmptyLog
               /\ LogTo(lg, Len(es)) = lg
               /\ \A k \in 1 .. Len(es) : /\ CanAppend(LogTo(lg, k - 1), es[k])
                                          /\ append(LogTo(lg, k - 1), es[k]) = LogTo(lg, k)
  <1> DEFINE es == SavedEntries(lg)
             E  == lg.Entries
             K  == Len(es)
  <1>1. /\ WellFormed(lg) /\ lg.snapshotIndex = 0 /\ lg.snapshotTerm = 0
        /\ E[1] = Sentinel(0, 0) /\ Parts(lg)
    BY LogParts DEF FromTheStart
  <1>2. /\ E \in Seq(Entry) /\ Len(E) = Size(lg) /\ Size(lg) \in Nat /\ Size(lg) > 0
        /\ lg = [Entries |-> E, snapshotIndex |-> 0, snapshotTerm |-> 0]
        /\ \A k \in 1 .. Size(lg) : E[k].index = k - 1
    <2>1. /\ E \in Seq(Entry) /\ Len(E) = Size(lg) /\ Size(lg) \in Nat /\ Size(lg) > 0
          /\ \A k \in 1 .. Size(lg) : E[k].index = 0 + k - 1
      BY <1>1 DEF Parts
    <2>2. lg = [Entries |-> E, snapshotIndex |-> 0, snapshotTerm |-> 0]
      BY <1>1 DEF WellFormed, Log
    <2>3. QED
      BY <2>1, <2>2
  <1>3. es = SubSeq(E, 2, Len(E))
    BY <1>1, <1>2 DEF SavedEntries, EntriesFrom
  <1> HIDE DEF es, E
  <1>4. /\ es \in Seq(Entry)
        /\ \A i \in 1 .. K : i + 2 - 1 \in 1 .. Len(E) /\ es[i] = E[i + 2 - 1]
        /\ K = IF 2 <= Len(E) THEN Len(E) - 2 + 1 ELSE 0
    BY <1>2, <1>3, SubSeqFrom
  <1> HIDE DEF K
  <1>5. K \in Nat /\ Len(E) = K + 1 /\ \A k \in 1 .. K : es[k] = E[k + 1]
    <2>1. K \in Nat /\ Len(E) = K + 1
      BY <1>2, <1>4
    <2>2. ASSUME NEW k \in 1 .. K PROVE es[k] = E[k + 1]
      <3>1. k + 2 - 1 = k + 1
        OBVIOUS
      <3>2. QED
        BY <1>4, <3>1
    <2>3. QED
      BY <2>1, <2>2
  <1>6. LogTo(lg, 0) = EmptyLog
    <2>1. E # <<>> /\ 1 \in 1 .. Len(E)
      BY <1>2
    <2>2. SubSeq(E, 1, 1) = <<E[1]>>
      <3> DEFINE part == SubSeq(E, 1, 1)
                 one  == <<E[1]>>
      <3>1. 1 \in 0 .. Len(E) /\ E[1] \in Entry
        BY <1>2, <2>1
      <3>2. part \in Seq(Entry) /\ Len(part) = 1 /\ part[1] = E[1]
        BY <1>2, <3>1, SubSeqUpTo
      <3>3. one \in Seq(Entry) /\ Len(one) = 1 /\ one[1] = E[1]
        BY <3>1
      <3> HIDE DEF part, one
      <3>4. part = one
        BY <3>2, <3>3, SeqEqual
      <3>5. QED
        BY <3>4 DEF part, one
    <2>3. LogTo(lg, 0) = [Entries |-> SubSeq(E, 1, 1), snapshotIndex |-> 0, snapshotTerm |-> 0]
      BY DEF LogTo, E
    <2>4. QED
      BY <1>1, <2>2, <2>3 DEF EmptyLog
  <1>7. LogTo(lg, K) = lg
    <2>1. SubSeq(E, 1, Len(E)) = E
      BY <1>2, SubSeqFull
    <2>2. LogTo(lg, K) = [Entries |-> SubSeq(E, 1, K + 1), snapshotIndex |-> 0, snapshotTerm |-> 0]
      BY DEF LogTo, E
    <2>3. QED
      BY <1>2, <1>5, <2>1, <2>2
  <1>8. ASSUME NEW k \in 1 .. K
        PROVE  /\ CanAppend(LogTo(lg, k - 1), es[k])
               /\ append(LogTo(lg, k - 1), es[k]) = LogTo(lg, k)
    <2> DEFINE old == LogTo(lg, k - 1)
               part == SubSeq(E, 1, k)
    <2>1. /\ old = [Entries |-> part, snapshotIndex |-> 0, snapshotTerm |-> 0]
          /\ k \in Nat /\ k \in 1 .. Len(E) /\ k + 1 \in 1 .. Len(E) /\ k + 1 <= Len(E)
          /\ k \in 0 .. Len(E)
      <3>1. k - 1 + 1 = k
        OBVIOUS
      <3>2. QED
        BY <1>5, <3>1 DEF LogTo, E
    <2>2. part \in Seq(Entry) /\ Len(part) = k /\ \A i \in 1 .. k : part[i] = E[i]
      BY <1>2, <2>1, SubSeqUpTo
    <2>3. Append(part, E[k + 1]) = SubSeq(E, 1, k + 1)
      BY <1>2, <2>1, SubSeqGrows
    <2> HIDE DEF old, part
    <2>4. old.Entries = part /\ Size(old) = k /\ getLastIndex(old) = part[k].index
      BY <2>1, <2>2 DEF Size, getLastIndex
    <2>5. part[k].index = k - 1 /\ es[k].index = k
      <3>1. part[k] = E[k]
        BY <2>1, <2>2
      <3>2. E[k].index = k - 1 /\ E[k + 1].index = (k + 1) - 1
        BY <1>2, <2>1
      <3>3. QED
        BY <1>5, <2>1, <3>1, <3>2
    <2>6. CanAppend(old, es[k])
      BY <2>1, <2>4, <2>5 DEF CanAppend
    <2>7. append(old, es[k]) = [old EXCEPT !.Entries = Append(part, E[k + 1])]
      BY <1>5, <2>4 DEF append
    <2>8. append(old, es[k]) = LogTo(lg, k)
      BY <2>1, <2>3, <2>7 DEF LogTo, E
    <2>9. QED
      BY <2>6, <2>8 DEF old
  <1>9. QED
    BY <1>4, <1>6, <1>7, <1>8 DEF es, K

\* The data of a log that has all its entries is read back into the same log.
LEMMA LogReadsBack ==
    ASSUME CommandsFit, NEW lg, FromTheStart(lg)
    PROVE  LET read == deserializeLog(serializeLog(lg), EmptyLog)
           IN  read.ok /\ read.log = lg
  <1> DEFINE es   == SavedEntries(lg)
             K    == Len(es)
             data == serializeLog(lg)
             X    == {CommandOf(SubSeq(data, i, j)) : i \in Nat, j \in Nat} \cup {NoCommand}
  <1>1. WellFormed(lg) /\ lg.snapshotIndex = 0
    BY DEF FromTheStart
  <1>2. PICK d : FileBytes(d, lg)
    BY <1>1, SerializeLogWrites
  <1>3. /\ K \in Nat /\ K = getLastIndex(lg) - lg.snapshotIndex
        /\ \A k \in 1 .. K : es[k] \in Entry
    BY <1>1, SerializeLogWrites
  <1>4. data \in Seq(Nat) /\ data # <<>> /\ data[1] = K
    BY <1>1, <1>3, DataStarts
  <1>5. ReadsInto(data, X)
    BY DEF ReadsInto
  <1>6. EmptyLog \in ReadLog(X)
    <2>1. Sentinel(0, 0) \in [index : Nat, term : Nat, command : X]
      BY DEF Sentinel
    <2> HIDE DEF X
    <2>2. QED
      BY <2>1 DEF EmptyLog, ReadLog
  <1>7. /\ d[0] = <<K>>
        /\ \A k \in 0 .. K : d[k] \in Seq(Nat)
        /\ \A k \in 1 .. K : d[k] = d[k - 1] \o serializeEntry(es[k])
        /\ data = d[K]
    BY <1>2, <1>3 DEF FileBytes
  <1>8. /\ LogTo(lg, 0) = EmptyLog /\ LogTo(lg, K) = lg
        /\ \A k \in 1 .. K : /\ CanAppend(LogTo(lg, k - 1), es[k])
                             /\ append(LogTo(lg, k - 1), es[k]) = LogTo(lg, k)
    BY LogToParts, Zenon
  <1> HIDE DEF X, data, es, K
  <1> DEFINE p == [k \in 1 .. K |-> serializeEntry(es[k])]
  <1>9. Grows(d, p, K)
    <2>1. \A k \in 1 .. K : serializeEntry(es[k]) \in Seq(Nat)
      BY <1>3, EntryLayout
    <2>2. QED
      BY <1>3, <1>7, <2>1 DEF Grows
  <1> HIDE DEF p
  <1>10. \A k \in 1 .. K : HoldsPiece(d[K], Len(d[k - 1]), p[k], Len(d[k]))
    <2>1. ASSUME NEW k \in 1 .. K PROVE HoldsPiece(d[K], Len(d[k - 1]), p[k], Len(d[k]))
      <3>1. Grows(d, p, K) /\ k \in 1 .. K
        BY <1>9
      <3>2. QED
        BY <3>1, GrowingHolds, Zenon
    <2>2. QED
      BY <2>1
  <1>11. PICK r : Reads(r, data, EmptyLog, X)
    BY <1>4, <1>5, <1>6, DeserializeLogReads
  <1>12. /\ r[0] = [ok |-> TRUE, offset |-> 2, log |-> EmptyLog]
         /\ \A k \in 1 .. K : r[k] = ReadEntry(data, r[k - 1])
         /\ deserializeLog(data, EmptyLog) = r[K]
    BY <1>4, <1>11 DEF Reads
  <1> DEFINE Done(k) == [ok |-> TRUE, offset |-> Len(d[k]) + 1, log |-> LogTo(lg, k)]
             T == {k \in 0 .. K : r[k] = Done(k)}
  <1>13. 0 \in T
    <2>1. Len(<<K>>) + 1 = 2
      OBVIOUS
    <2>2. Done(0) = [ok |-> TRUE, offset |-> 2, log |-> EmptyLog]
      BY <1>7, <1>8, <2>1
    <2>3. QED
      BY <1>3, <1>12, <2>2
  <1>14. ASSUME NEW k \in 1 .. K, k - 1 \in T PROVE k \in T
    <2> DEFINE e == es[k]
               all == serializeEntry(e)
               base == Len(d[k - 1])
               size == Len(all)
               old == LogTo(lg, k - 1)
    <2>1. k \in 0 .. K /\ p[k] = all
      BY <1>3 DEF p
    <2>2. e \in Entry /\ CanAppend(old, e) /\ append(old, e) = LogTo(lg, k)
      BY <1>3, <1>8
    <2>3. r[k] = ReadEntry(data, [ok |-> TRUE, offset |-> base + 1, log |-> old])
      BY <1>12, <1>14
    <2>4. /\ base \in Nat /\ size \in Nat
          /\ Len(d[k]) = base + size
          /\ base + size <= Len(data)
          /\ \A i \in 1 .. size : data[base + i] = all[i]
      <3>1. HoldsPiece(d[K], base, p[k], Len(d[k]))
        BY <1>10
      <3> HIDE DEF all, base
      <3>2. QED
        BY <1>7, <2>1, <3>1 DEF HoldsPiece
    <2> HIDE DEF e, all, base, size, old
    <2>5. ReadEntry(data, [ok |-> TRUE, offset |-> base + 1, log |-> old])
             = [ok |-> TRUE, offset |-> base + size + 1, log |-> append(old, e)]
      BY <1>4, <2>2, <2>4, ReadEntryReads DEF all, size
    <2>6. r[k] = Done(k)
      BY <2>2, <2>3, <2>4, <2>5
    <2>7. QED
      BY <2>1, <2>6
  <1>15. r[K] = Done(K)
    <2> HIDE DEF T
    <2>1. \A k \in 0 .. K : k \in T
      BY <1>3, <1>13, <1>14, UpTo
    <2>2. K \in T
      BY <1>3, <2>1
    <2>3. QED
      BY <2>2 DEF T
  <1>16. QED
    BY <1>8, <1>12, <1>15 DEF data
=============================================================================
