---------------------------- MODULE RaftStepProofs ----------------------------
(***************************************************************************)
(* What one step of RaftNode may do to the logs, to what is committed and  *)
(* to what leaders, candidates and voters know of each other, in a cluster *)
(* in which the invariant of RaftSafety holds.  RaftSafetyProofs shows from *)
(* these facts, action by action no more, that the invariant is kept.      *)
(***************************************************************************)
EXTENDS RaftNodeProofs, RaftSafety

\* What the proofs assume of the state before a step.
Core == NodeInv /\ HintsAreBehind /\ NoImpostor /\ NothingCompacted /\ SafetyInv

----------------------------------------------------------------------------
(***************************************************************************)
(* Types, in the form that the proofs use.                                 *)
(***************************************************************************)
LEMMA SecondOfPairs ==
    ASSUME NEW A, NEW B, NEW S \in SUBSET (A \X B), NEW t, NEW e
    PROVE  e \in {x[2] : x \in {y \in S : y[1] = t}} <=> <<t, e>> \in S
  <1>1. ASSUME NEW x \in {y \in S : y[1] = t}, e = x[2] PROVE <<t, e>> \in S
    <2>1. x = <<x[1], x[2]>>
      OBVIOUS
    <2>2. QED
      BY <1>1, <2>1
  <1>2. ASSUME <<t, e>> \in S PROVE e \in {x[2] : x \in {y \in S : y[1] = t}}
    <2>1. <<t, e>>[1] = t /\ <<t, e>>[2] = e
      OBVIOUS
    <2>2. QED
      BY <1>2, <2>1
  <1>3. QED
    BY <1>1, <1>2

LEMMA FirstOfPairs ==
    ASSUME NEW A, NEW B, NEW S \in SUBSET (A \X B), NEW t
    PROVE  t \in {w[1] : w \in S} <=> \E a \in B : <<t, a>> \in S
  <1>1. ASSUME NEW w \in S, t = w[1] PROVE \E a \in B : <<t, a>> \in S
    <2>1. w = <<w[1], w[2]>> /\ w[2] \in B
      OBVIOUS
    <2>2. QED
      BY <1>1, <2>1
  <1>2. ASSUME NEW a \in B, <<t, a>> \in S PROVE t \in {w[1] : w \in S}
    <2>1. <<t, a>>[1] = t
      OBVIOUS
    <2>2. QED
      BY <1>2, <2>1
  <1>3. QED
    BY <1>1, <1>2

LEMMA InLeaderLog ==
    ASSUME NEW t, NEW e
    PROVE  /\ HistoryTypes => (e \in LeaderLog(t) <=> <<t, e>> \in led)
           /\ HistoryTypes' => (e \in LeaderLog(t)' <=> <<t, e>> \in led')
  BY SecondOfPairs DEF LeaderLog, HistoryTypes

LEMMA InWonTerms ==
    ASSUME NEW t
    PROVE  /\ HistoryTypes => (t \in WonTerms <=> \E a \in Server : <<t, a>> \in won)
           /\ HistoryTypes' => (t \in WonTerms' <=> \E a \in Server : <<t, a>> \in won')
  BY FirstOfPairs DEF WonTerms, HistoryTypes

LEMMA CoreTypes ==
    ASSUME NodeInv, NothingCompacted
    PROVE  /\ TypeIInv /\ VoteInv /\ ElectionInv /\ HistoryTypes
           /\ \A n \in Server : Flat(log[n]) /\ currentTerm[n] \in Nat
           /\ \A t \in WonTerms : t \in Nat
           /\ \A t, e : e \in LeaderLog(t) => t \in Nat /\ e \in Entry
  <1>1. TypeIInv /\ VoteInv /\ ElectionInv /\ HistoryTypes
    BY DEF NodeInv, TypeIInv
  <1>2. \A n \in Server : Flat(log[n]) /\ currentTerm[n] \in Nat
    BY <1>1 DEF TypeIInv, ElectionTypes, LogTypes, NothingCompacted, Flat
  <1>3. ASSUME NEW t \in WonTerms PROVE t \in Nat
    BY <1>1 DEF WonTerms, HistoryTypes
  <1>4. ASSUME NEW t, NEW e, e \in LeaderLog(t) PROVE t \in Nat /\ e \in Entry
    <2>1. <<t, e>> \in led
      BY <1>1, <1>4, InLeaderLog
    <2>2. QED
      BY <1>1, <2>1 DEF HistoryTypes
  <1>5. QED
    BY <1>1, <1>2, <1>3, <1>4

\* The entries of a node: one for each index up to the last.
LEMMA EntriesOfNode ==
    ASSUME NodeInv, NothingCompacted, NEW n \in Server
    PROVE  /\ getLastIndex(log[n]) \in Nat /\ Flat(log[n])
           /\ \A e \in Entries(n) :
                 /\ e \in Entry /\ e.index \in Nat /\ e.term \in Nat
                 /\ e.index > 0 /\ e.index <= getLastIndex(log[n])
                 /\ getTerm(log[n], e.index) = e.term
                 /\ HasEntry(log[n], e.index) /\ getEntry(log[n], e.index) = e
           /\ \A e, f \in Entries(n) : e.index = f.index => e = f
           /\ \A i \in 1 .. getLastIndex(log[n]) : \E e \in Entries(n) : e.index = i
  <1>1. Flat(log[n])
    BY CoreTypes
  <1>2. QED
    BY <1>1, FlatEntries DEF Entries, Entry

----------------------------------------------------------------------------
(***************************************************************************)
(* Logs and leaders' logs in one state.                                    *)
(***************************************************************************)

\* LeaderLogsMatch, unfolded; an entry of a leader's log is in the log of the
\* leader that made it.
LEMMA LeaderLogFacts ==
    ASSUME Core, NEW t, NEW e \in LeaderLog(t)
    PROVE  /\ t \in WonTerms /\ t \in Nat /\ e \in Entry
           /\ e.index \in Nat /\ e.term \in Nat
           /\ e.index > 0 /\ e.term > 0 /\ e.term <= t
           /\ e \in LeaderLog(e.term) /\ e.term \in WonTerms
           /\ \A i \in 1 .. e.index : \E f \in LeaderLog(t) : f.index = i
           /\ \A f \in LeaderLog(t) : /\ f.index = e.index => f = e
                                      /\ f.index <= e.index => f \in LeaderLog(e.term)
  <1>1. t \in Nat /\ e \in Entry /\ HistoryTypes
    BY CoreTypes DEF Core
  <1>2. \A s, f : f \in LeaderLog(s) => s \in WonTerms
    <2> SUFFICES ASSUME NEW s, NEW f, f \in LeaderLog(s) PROVE s \in WonTerms
      OBVIOUS
    <2>1. <<s, f>> \in led /\ <<s, f>>[1] = s
      BY <1>1, InLeaderLog
    <2>2. QED
      BY <2>1 DEF Core, SafetyInv, LeaderLogsMatch
  <1>3. e.index \in Nat /\ e.term \in Nat
    BY <1>1 DEF Entry
  <1>4. /\ e.index > 0 /\ e.term > 0 /\ e.term <= t
        /\ \A i \in 1 .. e.index : \E f \in LeaderLog(t) : f.index = i
        /\ \A f \in LeaderLog(t) : /\ f.index = e.index => f = e
                                   /\ f.index <= e.index => f \in LeaderLog(e.term)
    BY <1>2 DEF Core, SafetyInv, LeaderLogsMatch
  <1>5. e \in LeaderLog(e.term)
    BY <1>3, <1>4
  <1>6. QED
    BY <1>1, <1>2, <1>3, <1>4, <1>5

\* LogsMatchLeaders, unfolded.
LEMMA EntryFacts ==
    ASSUME Core, NEW n \in Server, NEW e \in Entries(n)
    PROVE  /\ e \in Entry /\ e.index \in Nat /\ e.term \in Nat
           /\ e.index > 0 /\ e.index <= getLastIndex(log[n])
           /\ getTerm(log[n], e.index) = e.term
           /\ e.term > 0 /\ e.term <= currentTerm[n] /\ e.term \in WonTerms
           /\ e \in LeaderLog(e.term)
           /\ \A f \in Entries(n) : /\ f.index = e.index => f = e
                                    /\ f.index <= e.index => f \in LeaderLog(e.term)
           /\ \A i \in 1 .. e.index : \E f \in Entries(n) : f.index = i
  <1>1. /\ e \in Entry /\ e.index \in Nat /\ e.term \in Nat
        /\ e.index > 0 /\ e.index <= getLastIndex(log[n]) /\ getLastIndex(log[n]) \in Nat
        /\ getTerm(log[n], e.index) = e.term
        /\ \A f \in Entries(n) : f.index = e.index => f = e
        /\ \A i \in 1 .. getLastIndex(log[n]) : \E f \in Entries(n) : f.index = i
    BY EntriesOfNode DEF Core
  <1>2. e.term <= currentTerm[n] /\ \A f \in Entries(n) : f.index <= e.index => f \in LeaderLog(e.term)
    BY DEF Core, SafetyInv, LogsMatchLeaders
  <1>3. e \in LeaderLog(e.term)
    BY <1>1, <1>2
  <1>4. e.term > 0 /\ e.term \in WonTerms
    BY <1>3, LeaderLogFacts
  <1>5. \A i \in 1 .. e.index : i \in 1 .. getLastIndex(log[n])
    BY <1>1
  <1>6. QED
    BY <1>1, <1>2, <1>3, <1>4, <1>5

\* A log and a leader's log that agree on the index and term of an entry agree
\* up to it.
LEMMA LogMeetsLeader ==
    ASSUME Core, NEW n \in Server, NEW t, NEW h \in Entries(n), NEW g \in LeaderLog(t),
           h.index = g.index, h.term = g.term
    PROVE  /\ h = g
           /\ \A f \in Entries(n) : f.index <= h.index => f \in LeaderLog(t)
           /\ \A f \in LeaderLog(t) : f.index <= h.index => f \in Entries(n)
  <1>1. h \in LeaderLog(g.term) /\ g \in LeaderLog(g.term)
    BY EntryFacts, LeaderLogFacts
  <1>2. h = g
    BY <1>1, LeaderLogFacts
  <1>3. ASSUME NEW f \in Entries(n), f.index <= h.index PROVE f \in LeaderLog(t)
    <2>1. f \in LeaderLog(g.term) /\ f.index \in Nat /\ f.index > 0
      BY <1>3, EntryFacts
    <2>2. f.index \in 1 .. g.index
      BY <1>3, <2>1, LeaderLogFacts
    <2>3. PICK x \in LeaderLog(t) : x.index = f.index
      BY <2>2, LeaderLogFacts
    <2>4. x \in LeaderLog(g.term)
      BY <2>2, <2>3, LeaderLogFacts
    <2>5. x = f
      BY <2>1, <2>3, <2>4, LeaderLogFacts
    <2>6. QED
      BY <2>3, <2>5
  <1>4. ASSUME NEW f \in LeaderLog(t), f.index <= h.index PROVE f \in Entries(n)
    <2>1. f \in LeaderLog(g.term) /\ f.index \in Nat /\ f.index > 0
      BY <1>4, LeaderLogFacts
    <2>2. f.index \in 1 .. h.index
      BY <1>4, <2>1, EntryFacts
    <2>3. PICK x \in Entries(n) : x.index = f.index
      BY <2>2, EntryFacts
    <2>4. x \in LeaderLog(g.term)
      BY <1>4, <2>3, EntryFacts
    <2>5. x = f
      BY <2>1, <2>3, <2>4, LeaderLogFacts
    <2>6. QED
      BY <2>3, <2>5
  <1>5. QED
    BY <1>2, <1>3, <1>4

\* The last entry of a log.
LEMMA LastEntry ==
    ASSUME Core, NEW n \in Server
    PROVE  /\ getLastIndex(log[n]) = 0 => getLastTerm(log[n]) = 0
           /\ getLastIndex(log[n]) > 0 => \E e \in Entries(n) : /\ e.index = getLastIndex(log[n])
                                                                /\ e.term = getLastTerm(log[n])
  <1>1. Flat(log[n])
    BY CoreTypes DEF Core
  <1>2. log[n].Entries[1].term = 0
    BY DEF Core, SafetyInv, SentinelsStay, Sentinel
  <1>3. QED
    BY <1>1, <1>2, FlatLast DEF Entries

\* Who is up to date with a log that has entry e has e, unless the leader of
\* some later term does not.
LEMMA UpToDate ==
    ASSUME Core, NEW v \in Server, NEW c \in Server, NEW e \in Entries(v),
           isLogUpToDate(log[v], getLastIndex(log[c]), getLastTerm(log[c]))
    PROVE  e \in Entries(c) \/ \E w \in WonTerms : w > e.term /\ e \notin LeaderLog(w)
  <1>0. getLastIndex(log[v]) \in Nat /\ getLastIndex(log[c]) \in Nat
    BY EntriesOfNode DEF Core
  <1>1. e.index \in Nat /\ e.index > 0 /\ e.index <= getLastIndex(log[v]) /\ e.term \in Nat
    BY EntryFacts
  <1>2. PICK x \in Entries(v) : x.index = getLastIndex(log[v]) /\ x.term = getLastTerm(log[v])
    BY <1>0, <1>1, LastEntry
  <1>3. e \in LeaderLog(x.term) /\ x.term \in Nat /\ x.term > 0
    BY <1>1, <1>2, EntryFacts
  <1>4. e.term <= x.term
    BY <1>3, LeaderLogFacts
  <1>5. \/ getLastTerm(log[c]) > x.term
        \/ getLastTerm(log[c]) = x.term /\ getLastIndex(log[c]) >= x.index
    BY <1>2 DEF isLogUpToDate
  <1>6. getLastIndex(log[c]) > 0
    BY <1>0, <1>3, <1>5, LastEntry
  <1>7. PICK y \in Entries(c) : y.index = getLastIndex(log[c]) /\ y.term = getLastTerm(log[c])
    BY <1>6, LastEntry
  <1>8. /\ y.term \in Nat /\ y.index \in Nat /\ y \in LeaderLog(y.term) /\ y.term \in WonTerms
        /\ x.index \in Nat
    BY <1>0, <1>2, <1>7, EntryFacts
  <1>9. ASSUME e \in LeaderLog(y.term), e.index <= y.index PROVE e \in Entries(c)
    <2>1. e.index \in 1 .. y.index
      BY <1>1, <1>8, <1>9
    <2>2. PICK f \in Entries(c) : f.index = e.index
      BY <2>1, EntryFacts
    <2>3. f \in LeaderLog(y.term)
      BY <1>9, <2>2, EntryFacts
    <2>4. QED
      BY <1>9, <2>2, <2>3, LeaderLogFacts
  <1>10. CASE y.term = x.term
    <2>1. e.index <= y.index
      BY <1>1, <1>2, <1>5, <1>7, <1>8, <1>10
    <2>2. QED
      BY <1>3, <1>9, <1>10, <2>1
  <1>11. CASE y.term > x.term
    <2>1. y.term > e.term
      BY <1>1, <1>3, <1>4, <1>8, <1>11
    <2>2. CASE e \notin LeaderLog(y.term)
      BY <1>8, <2>1, <2>2
    <2>3. CASE e \in LeaderLog(y.term)
      <3>1. CASE e.index <= y.index
        BY <1>9, <2>3, <3>1
      <3>2. CASE ~(e.index <= y.index)
        <4>1. y.index <= e.index
          BY <1>1, <1>8, <3>2
        <4>2. y \in LeaderLog(e.term)
          BY <1>8, <2>3, <4>1, LeaderLogFacts
        <4>3. y.term <= e.term
          BY <4>2, LeaderLogFacts
        <4>4. QED
          BY <1>1, <1>8, <2>1, <4>3
      <3>3. QED
        BY <3>1, <3>2
    <2>4. QED
      BY <2>2, <2>3
  <1>12. QED
    BY <1>5, <1>7, <1>10, <1>11

\* What is committed as of some term is in the logs of the leaders from then on.
LEMMA CommittedInLater ==
    ASSUME Core, NEW s \in Nat, NEW t \in WonTerms, s <= t, NEW e, CommittedIn(s, e)
    PROVE  e \in LeaderLog(t)
  <1>0. t \in Nat
    BY CoreTypes DEF Core
  <1>1. PICK f \in {x[2] : x \in led} :
           f.term <= s /\ e.index <= f.index /\ e \in LeaderLog(f.term) /\ Chosen(f)
    BY DEF CommittedIn
  <1>2. f \in LeaderLog(f.term) /\ \A w \in WonTerms : w > f.term => f \in LeaderLog(w)
    BY <1>1 DEF Chosen
  <1>3. f.term \in Nat
    BY <1>2, LeaderLogFacts
  <1>4. f \in LeaderLog(t)
    BY <1>0, <1>1, <1>2, <1>3
  <1>5. e.index \in 1 .. f.index
    BY <1>1, <1>2, LeaderLogFacts
  <1>6. PICK g \in LeaderLog(t) : g.index = e.index
    BY <1>4, <1>5, LeaderLogFacts
  <1>7. g \in LeaderLog(f.term)
    BY <1>1, <1>4, <1>6, LeaderLogFacts
  <1>8. g = e
    BY <1>1, <1>6, <1>7, LeaderLogFacts
  <1>9. QED
    BY <1>6, <1>8

\* A majority is met by the voters of every winner, and by those a leader counts.
LEMMA QuorumMeets ==
    ASSUME NEW Q \in Majority, NEW n \in Server, NEW A \in SUBSET PeerSet(n), IsMajority(n, A)
    PROVE  \E p \in Q : p \in A \cup {n}
  <1> DEFINE S == A \cup {n}
  <1>1. S \subseteq Server /\ Cardinality(S) \in Nat /\ Cardinality(S) + Cardinality(S) > Cardinality(Server)
    BY MajorityCount
  <1>2. Q \subseteq Server /\ 2 * Cardinality(Q) > Cardinality(Server)
    BY DEF Majority
  <1>3. IsFiniteSet(Server) /\ Cardinality(Server) \in Nat
    BY PeersFinite
  <1>4. Cardinality(Q) \in Nat
    BY <1>2, <1>3, FS_Subset, FS_CardinalityType
  <1>5. Cardinality(S) + Cardinality(Q) > Cardinality(Server)
    <2> HIDE DEF S
    <2>1. QED
      BY <1>1, <1>2, <1>3, <1>4
  <1>6. S \cap Q # {}
    <2> HIDE DEF S
    <2>1. QED
      BY <1>1, <1>2, <1>3, <1>5, FS_MajoritiesIntersect
  <1>7. QED
    BY <1>6

LEMMA QuorumOf ==
    ASSUME NEW n \in Server, NEW A \in SUBSET PeerSet(n), IsMajority(n, A)
    PROVE  A \cup {n} \in Majority
  <1> DEFINE S == A \cup {n}
  <1>1. S \subseteq Server /\ Cardinality(S) \in Nat /\ Cardinality(S) + Cardinality(S) > Cardinality(Server)
    BY MajorityCount
  <1>2. Cardinality(Server) \in Nat
    BY PeersFinite
  <1> HIDE DEF S
  <1>3. 2 * Cardinality(S) > Cardinality(Server)
    BY <1>1, <1>2
  <1>4. QED
    BY <1>1, <1>3 DEF Majority, S

----------------------------------------------------------------------------
(***************************************************************************)
(* The steps that change a log or what is committed.                       *)
(***************************************************************************)

\* No log, store, history of leaders or commitIndex changes.
Quiet ==
    UNCHANGED <<log, commitIndex, lastApplied, kvStore, lastAppliedSeq, won, applied, led>>

LEMMA StepKinds ==
    ASSUME [Next]_vars
    PROVE  \/ Quiet
           \/ \E n \in Server : \/ WinElection(n) \/ AppendSucceeds(n) \/ takeSnapshot(n)
                                \/ \E c \in Command : handleClientRequest(n, c)
           \/ \E m \in Pending : AcceptAppendEntries(m) \/ handleInstallSnapshot(m)
  <1>1. ASSUME NEW n \in Server,
               \/ ElectionTimeout(n) \/ ElectionStepsDown(n) \/ CountVote(n) \/ LoseElection(n)
               \/ HeartbeatTick(n) \/ HeartbeatStepsDown(n) \/ SnapshotSent(n)
               \/ AppendRejected(n) \/ CallFails(n)
        PROVE  Quiet
    BY <1>1 DEF ElectionTimeout, ElectionStepsDown, CountVote, LoseElection, HeartbeatTick,
                HeartbeatStepsDown, SnapshotSent, AppendRejected, CallFails, Quiet, storeVars,
                historyVars
  <1>2. ASSUME NEW m \in Pending,
               HandleStale(m) \/ handleRequestVote(m) \/ RejectAppendEntries(m)
        PROVE  Quiet
    BY <1>2 DEF HandleStale, handleRequestVote, RejectAppendEntries, AcceptLeader, Quiet,
                storeVars, historyVars
  <1>3. CASE UNCHANGED vars
    BY <1>3 DEF vars, Quiet, storeVars, historyVars
  <1>4. QED
    BY <1>1, <1>2, <1>3 DEF Next, NodeStep, Handle

LEMMA SnapshotInstalls ==
    ASSUME TypeIInv, NEW m \in Pending, handleInstallSnapshot(m)
    PROVE  /\ m.to \in Server
           /\ log' = [log EXCEPT ![m.to] = discardEntriesUpTo(@, m.lastIncludedIndex, m.lastIncludedTerm)]
           /\ m.lastIncludedIndex \in Nat /\ m.lastIncludedTerm \in Nat
  BY PendingGood DEF handleInstallSnapshot, GoodMessage, Message, InstallSnapshotArgs,
                     RequestVoteArgs, AppendEntriesArgs

\* What is compacted stays compacted.
LEMMA CompactionStays ==
    ASSUME TypeIInv, [Next]_vars, NothingCompacted'
    PROVE  NothingCompacted /\ \A n \in Server : ~takeSnapshot(n)
  <1>0. /\ log \in [Server -> Log]
        /\ \A k \in Server : WellFormed(log[k]) /\ log[k].snapshotIndex \in Nat
        /\ \A k \in Server : log'[k].snapshotIndex = 0
    BY LogParts DEF TypeIInv, LogTypes, Parts, NothingCompacted
  <1>1. ASSUME NEW n \in Server, NEW lg, log' = [log EXCEPT ![n] = lg],
               lg.snapshotIndex >= log[n].snapshotIndex
        PROVE  NothingCompacted
    <2>1. ASSUME NEW k \in Server PROVE log[k].snapshotIndex = 0
      <3>1. CASE k = n
        <4>1. lg.snapshotIndex = 0
          BY <1>0, <1>1
        <4>2. QED
          BY <1>0, <1>1, <3>1, <4>1
      <3>2. CASE k # n
        BY <1>0, <1>1, <3>2
      <3>3. QED
        BY <3>1, <3>2
    <2>2. QED
      BY <2>1 DEF NothingCompacted
  <1>2. ASSUME NEW n \in Server, NEW i \in Nat, NEW t \in Nat,
               log' = [log EXCEPT ![n] = discardEntriesUpTo(log[n], i, t)]
        PROVE  NothingCompacted /\ ~(i > log[n].snapshotIndex)
    <2> DEFINE lg == discardEntriesUpTo(log[n], i, t)
    <2>1. lg.snapshotIndex = IF i <= log[n].snapshotIndex THEN log[n].snapshotIndex ELSE i
      BY <1>0, DiscardWellFormed
    <2>2. log'[n] = lg
      BY <1>0, <1>2
    <2> HIDE DEF lg
    <2>3. lg.snapshotIndex = 0 /\ log[n].snapshotIndex \in Nat
      BY <1>0, <2>2
    <2>4. lg.snapshotIndex >= log[n].snapshotIndex /\ ~(i > log[n].snapshotIndex)
      BY <2>1, <2>3
    <2>5. NothingCompacted
      BY <1>1, <1>2, <2>4 DEF lg
    <2>6. QED
      BY <2>4, <2>5
  <1>3. ASSUME UNCHANGED log PROVE NothingCompacted
    BY <1>0, <1>3 DEF NothingCompacted
  <1>4. ASSUME NEW n \in Server, takeSnapshot(n) PROVE FALSE
    <2>1. /\ log' = [log EXCEPT ![n] = discardEntriesUpTo(@, lastApplied[n],
                                                    getTerm(log[n], lastApplied[n]))]
          /\ lastApplied[n] > log[n].snapshotIndex
      BY <1>4 DEF takeSnapshot, SnapshotPoint
    <2>2. lastApplied[n] \in Nat
      BY DEF TypeIInv, StoreTypes
    <2>3. getTerm(log[n], lastApplied[n]) \in Nat
      BY <1>0, <2>2, LogGetTerm
    <2>4. QED
      BY <1>2, <2>1, <2>2, <2>3
  <1>5. ASSUME NEW n \in Server, NEW c \in Command, handleClientRequest(n, c)
        PROVE  NothingCompacted
    <2>1. log' = [log EXCEPT ![n] = append(log[n], NewEntry(n, c))]
      BY <1>5 DEF handleClientRequest
    <2>2. append(log[n], NewEntry(n, c)).snapshotIndex = log[n].snapshotIndex
      BY <1>0 DEF append, WellFormed, Log
    <2>3. append(log[n], NewEntry(n, c)).snapshotIndex >= log[n].snapshotIndex
      BY <1>0, <2>2
    <2>4. QED
      BY <1>1, <2>1, <2>3
  <1>6. ASSUME NEW m \in Pending, AcceptAppendEntries(m) PROVE NothingCompacted
    <2>1. PICK k \in 1 .. Len(m.entries) + 1 :
             LET merged == Merge(log[m.to], m.prevLogIndex, m.entries, k)
                 commit == FollowerCommit(m.to, merged, m.leaderCommit)
             IN  Applies(m.to, merged, commit)
      BY <1>6, AcceptApplies
    <2> DEFINE merged == Merge(log[m.to], m.prevLogIndex, m.entries, k)
    <2>2. log' = [log EXCEPT ![m.to] = merged] /\ merged.snapshotIndex = log[m.to].snapshotIndex
      BY <2>1 DEF Applies
    <2> HIDE DEF merged
    <2>3. m.to \in Server
      BY PendingGood
    <2>4. merged.snapshotIndex >= log[m.to].snapshotIndex
      BY <1>0, <2>2, <2>3
    <2>5. QED
      BY <1>1, <2>2, <2>3, <2>4
  <1>7. ASSUME NEW m \in Pending, handleInstallSnapshot(m) PROVE NothingCompacted
    BY <1>2, <1>7, SnapshotInstalls
  <1>8. ASSUME NEW n \in Server, WinElection(n) \/ AppendSucceeds(n) PROVE UNCHANGED log
    BY <1>8 DEF WinElection, AppendSucceeds
  <1>9. NothingCompacted
    BY <1>3, <1>4, <1>5, <1>6, <1>7, <1>8, StepKinds DEF Quiet
  <1>10. QED
    BY <1>4, <1>9

\* The histories only grow, and terms only rise.
HistoryGrows ==
    /\ granted \subseteq granted' /\ won \subseteq won' /\ led \subseteq led'
    /\ impostorTerms \subseteq impostorTerms' /\ applied \subseteq applied'

TermsRise == \A n \in Server : currentTerm'[n] >= currentTerm[n]

LEMMA HistoriesGrow ==
    ASSUME TypeIInv, [Next]_vars
    PROVE  HistoryGrows
  <1>1. ASSUME NEW n \in Server, NodeStep(n) PROVE HistoryGrows
    <2>1. CASE AppendSucceeds(n)
      BY <2>1 DEF AppendSucceeds, applyCommittedEntries, HistoryGrows
    <2>2. CASE ~AppendSucceeds(n)
      BY <1>1, <2>2 DEF NodeStep, ElectionTimeout, ElectionStepsDown, CountVote, WinElection,
         LoseElection, HeartbeatTick, HeartbeatStepsDown, SnapshotSent, AppendRejected,
         CallFails, takeSnapshot, handleClientRequest, historyVars, HistoryGrows
    <2>3. QED
      BY <2>1, <2>2
  <1>2. ASSUME NEW m \in Pending, Handle(m) PROVE HistoryGrows
    <2>1. CASE AcceptAppendEntries(m)
      BY <2>1 DEF AcceptAppendEntries, AcceptLeader, applyCommittedEntries, HistoryGrows
    <2>2. CASE ~AcceptAppendEntries(m)
      BY <1>2, <2>2 DEF Handle, HandleStale, handleRequestVote, RejectAppendEntries,
         AcceptLeader, handleInstallSnapshot, historyVars, HistoryGrows
    <2>3. QED
      BY <2>1, <2>2
  <1>3. QED
    BY <1>1, <1>2 DEF Next, vars, historyVars, HistoryGrows

LEMMA TermsOnlyRise ==
    ASSUME TypeIInv, [Next]_vars
    PROVE  TermsRise
  <1>0. currentTerm \in [Server -> Nat]
    BY DEF TypeIInv, ElectionTypes
  <1>1. ASSUME NEW n \in Server, NEW t \in Nat, t >= currentTerm[n],
               currentTerm' = [currentTerm EXCEPT ![n] = t]
        PROVE  TermsRise
    BY <1>0, <1>1 DEF TermsRise
  <1>2. ASSUME UNCHANGED currentTerm PROVE TermsRise
    BY <1>0, <1>2 DEF TermsRise
  <1>3. ASSUME NEW n \in Server, NodeStep(n) PROVE TermsRise
    <2>1. CASE ElectionTimeout(n)
      <3>1. currentTerm' = [currentTerm EXCEPT ![n] = currentTerm[n] + 1]
        BY <2>1 DEF ElectionTimeout, becomeCandidate
      <3>2. currentTerm[n] + 1 \in Nat /\ currentTerm[n] + 1 >= currentTerm[n]
        BY <1>0
      <3>3. QED
        BY <1>1, <3>1, <3>2
    <2>2. CASE ElectionStepsDown(n) \/ HeartbeatStepsDown(n)
      <3>1. /\ reply[n] # Nil /\ reply[n].term > currentTerm[n]
            /\ currentTerm' = [currentTerm EXCEPT ![n] = reply[n].term]
        BY <2>2 DEF ElectionStepsDown, HeartbeatStepsDown, HasReply, becomeFollower
      <3>2. reply[n].term \in Nat
        BY <3>1 DEF TypeIInv, ReplyTypes, Reply
      <3>3. reply[n].term >= currentTerm[n]
        BY <1>0, <3>1, <3>2
      <3>4. QED
        BY <1>1, <3>1, <3>2, <3>3
    <2>3. CASE ~(ElectionTimeout(n) \/ ElectionStepsDown(n) \/ HeartbeatStepsDown(n))
      <3>1. UNCHANGED currentTerm
        BY <1>3, <2>3 DEF NodeStep, CountVote, WinElection, becomeLeader, LoseElection,
           HeartbeatTick, SnapshotSent, AppendSucceeds, AppendRejected, CallFails, takeSnapshot,
           handleClientRequest, electionVars
      <3>2. QED
        BY <1>2, <3>1
    <2>4. QED
      BY <2>1, <2>2, <2>3
  <1>4. ASSUME NEW m \in Pending, Handle(m) PROVE TermsRise
    <2>0. m.to \in Server /\ m.term \in Nat
      BY PendingGood
    <2>1. CASE HandleStale(m)
      BY <1>2, <2>1 DEF HandleStale, electionVars
    <2>2. CASE ~HandleStale(m)
      <3>1. ~(m.term < currentTerm[m.to])
        BY <1>4, <2>2 DEF Handle, handleRequestVote, RejectAppendEntries, AcceptAppendEntries,
           AcceptLeader, handleInstallSnapshot, Stale
      <3>2. m.term >= currentTerm[m.to]
        BY <1>0, <2>0, <3>1
      <3>3. \/ currentTerm' = [currentTerm EXCEPT ![m.to] = m.term]
            \/ UNCHANGED currentTerm
        BY <1>4, <2>2 DEF Handle, handleRequestVote, RejectAppendEntries, AcceptAppendEntries,
           AcceptLeader, handleInstallSnapshot, becomeFollower, electionVars
      <3>4. QED
        BY <1>1, <1>2, <2>0, <3>2, <3>3
    <2>3. QED
      BY <2>1, <2>2
  <1>5. QED
    BY <1>2, <1>3, <1>4 DEF Next, vars, electionVars

----------------------------------------------------------------------------
(***************************************************************************)
(* Requests.                                                               *)
(***************************************************************************)

\* Whoever sends heartbeats leads: nobody is an impostor.
LEMMA HeartbeatLeads ==
    ASSUME Core, NEW n \in Server, pc[n] = "heartbeat"
    PROVE  role[n] = "LEADER" /\ currentTerm[n] \in WonTerms /\ Entries(n) = LeaderLog(currentTerm[n])
  <1>1. ElectionInv /\ HistoryTypes /\ currentTerm[n] \in Nat /\ impostorTerms = {}
    BY CoreTypes DEF Core, NoImpostor
  <1>2. <<currentTerm[n], n>> \in won
    BY <1>1 DEF ElectionInv, Elections, SendersWon, SentByWinner
  <1>3. role[n] = "LEADER"
    BY <1>1, <1>2 DEF ElectionInv, Elections, WinsRemembered
  <1>4. QED
    BY <1>1, <1>2, <1>3, InWonTerms DEF Core, SafetyInv, LeadersKeepTheirLog

LEMMA LeaderFacts ==
    ASSUME Core, NEW n \in Server, role[n] = "LEADER"
    PROVE  /\ currentTerm[n] \in WonTerms /\ currentTerm[n] > 0
           /\ Entries(n) = LeaderLog(currentTerm[n])
           /\ \A p \in Server : /\ nextIndex[n][p] \in Nat \ {0}
                                /\ nextIndex[n][p] <= getLastIndex(log[n]) + 1
                                /\ matchIndex[n][p] \in Nat
                                /\ matchIndex[n][p] <= getLastIndex(log[n])
  <1>1. ElectionInv /\ HistoryTypes /\ TypeIInv
    BY CoreTypes DEF Core
  <1>2. <<currentTerm[n], n>> \in won
    BY <1>1 DEF ElectionInv, Elections, LeadersWon
  <1>3. currentTerm[n] \in WonTerms
    BY <1>1, <1>2, InWonTerms
  <1>4. \A p \in Server : nextIndex[n][p] \in Nat \ {0} /\ matchIndex[n][p] \in Nat
    BY <1>1 DEF TypeIInv, LeaderTypes
  <1>5. QED
    BY <1>3, <1>4 DEF Core, SafetyInv, LeadersKeepTheirLog, LeadersStayInLog, TermsAreSound

\* No request sends a snapshot: nextIndex is above the base 0 of every log.
LEMMA NeedsNoSnapshot ==
    ASSUME Core, NEW n \in Server, NEW p \in Server
    PROVE  ~NeedsSnapshot(n, p)
  <1>1. nextIndex[n][p] \in Nat \ {0} /\ log[n].snapshotIndex = 0
    BY CoreTypes DEF Core, TypeIInv, LeaderTypes, NothingCompacted
  <1>2. QED
    BY <1>1 DEF NeedsSnapshot

\* What waits at a node is a request for a vote or for a piece of a leader's log.
LEMMA RequestKind ==
    ASSUME Core, NEW n \in Server, Waiting(n)
    PROVE  LET p == Head(todo[n])
           IN  /\ p \in Server
               /\ \/ pc[n] = "election" /\ Request(n) = RequestVote(n, p)
                  \/ pc[n] = "heartbeat" /\ Request(n) = AppendEntries(n, p)
  <1> DEFINE p == Head(todo[n])
  <1>1. p \in Server /\ pc[n] \in {"election", "heartbeat"}
    BY CoreTypes, TailOk DEF Core, TypeIInv, ThreadTypes, Pc, Waiting
  <1>2. QED
    BY <1>1, NeedsNoSnapshot DEF Request

LEMMA AppendEntriesIsPiece ==
    ASSUME Core, NEW n \in Server, NEW p \in Server, pc[n] = "heartbeat"
    PROVE  /\ PieceOfLeaderLog(AppendEntries(n, p))
           /\ nextIndex[n][p] + Len(EntriesFrom(log[n], nextIndex[n][p])) = getLastIndex(log[n]) + 1
  <1> DEFINE m    == AppendEntries(n, p)
             next == nextIndex[n][p]
             es   == EntriesFrom(log[n], next)
             t    == currentTerm[n]
             last == getLastIndex(log[n])
  <1>1. role[n] = "LEADER" /\ t \in WonTerms /\ Entries(n) = LeaderLog(t)
    BY HeartbeatLeads
  <1>2. next \in Nat \ {0} /\ next <= last + 1
    BY <1>1, LeaderFacts
  <1>3. Flat(log[n]) /\ last \in Nat
    BY EntriesOfNode DEF Core
  <1>4. /\ Len(es) \in Nat /\ next + Len(es) = last + 1
        /\ \A j \in 1 .. Len(es) : es[j] \in Entries(n)
    BY <1>2, <1>3, FlatEntriesFrom DEF Entries
  <1>5. /\ m.prevLogIndex = next - 1 /\ m.prevLogTerm = getTerm(log[n], next - 1)
        /\ m.entries = es /\ m.leaderCommit = commitIndex[n] /\ m.term = t
    BY DEF AppendEntries
  <1>6. /\ commitIndex[n] <= last
        /\ \A e \in Entries(n) : e.index <= commitIndex[n] => CommittedIn(t, e)
    BY DEF Core, SafetyInv, CommitsAreSafe
  <1>7. ASSUME next - 1 > 0
        PROVE  \E g \in LeaderLog(t) : g.index = next - 1 /\ g.term = getTerm(log[n], next - 1)
    <2>1. next - 1 \in 1 .. last
      BY <1>2, <1>3, <1>7
    <2>2. PICK g \in Entries(n) : g.index = next - 1
      BY <2>1, EntriesOfNode DEF Core
    <2>3. getTerm(log[n], g.index) = g.term
      BY EntryFacts
    <2>4. QED
      BY <1>1, <2>2, <2>3
  <1>8. DOMAIN es = 1 .. Len(es)
    BY <1>2, <1>3, FlatEntriesFrom
  <1> HIDE DEF m, es, t
  <1>9. m.prevLogIndex + Len(m.entries) = last
    BY <1>2, <1>3, <1>4, <1>5
  <1>10. /\ m.prevLogIndex > 0 =>
               \E g \in LeaderLog(m.term) : g.index = m.prevLogIndex /\ g.term = m.prevLogTerm
         /\ \A j \in DOMAIN m.entries : m.entries[j] \in LeaderLog(m.term)
         /\ \A e \in LeaderLog(m.term) : e.index <= m.leaderCommit => CommittedIn(m.term, e)
    BY <1>1, <1>4, <1>5, <1>6, <1>7, <1>8
  <1>11. m.leaderCommit <= m.prevLogIndex + Len(m.entries)
    BY <1>5, <1>6, <1>9
  <1>12. PieceOfLeaderLog(m)
    BY <1>10, <1>11 DEF PieceOfLeaderLog
  <1>13. QED
    BY <1>4, <1>12 DEF m, es

\* All that is on its way is safe, as what is late.
LEMMA PendingIsSafe ==
    ASSUME Core, NEW m \in Pending
    PROVE  /\ m.from \in Server /\ m.to \in Server /\ m.from # m.to /\ m.term \in Nat
           /\ m.term <= currentTerm[m.from]
           /\ m.type # "InstallSnapshot"
           /\ m.type = "AppendEntries" => PieceOfLeaderLog(m) /\ m.term \in WonTerms
           /\ m.type = "RequestVote" => DescribesCandidate(m)
  <1>1. TypeIInv /\ ElectionInv /\ HistoryTypes
    BY CoreTypes DEF Core
  <1>2. m.from \in Server /\ m.to \in Server /\ m.from # m.to /\ m.term \in Nat
    BY <1>1, PendingGood DEF GoodMessage
  <1>3. ASSUME m.type = "AppendEntries" PROVE m.term \in WonTerms
    <2>1. SentByWinner(m.term, m.from)
      BY <1>1, <1>3, PendingSender DEF ElectionInv
    <2>2. <<m.term, m.from>> \in won
      BY <2>1 DEF SentByWinner, Core, NoImpostor
    <2>3. QED
      BY <1>1, <1>2, <2>2, InWonTerms
  <1>4. CASE m \in late
    BY <1>2, <1>3, <1>4 DEF Core, SafetyInv, LateIsSafe
  <1>5. CASE \E n \in Server : Waiting(n) /\ m = Request(n)
    <2>1. PICK n \in Server : Waiting(n) /\ m = Request(n)
      BY <1>5
    <2>2. m.from = n /\ m.term = currentTerm[n] /\ currentTerm[n] \in Nat
      BY <1>1, <2>1, RequestGood DEF TypeIInv, ElectionTypes
    <2> DEFINE p == Head(todo[n])
    <2>3. CASE pc[n] = "election" /\ m = RequestVote(n, p)
      <3>1. /\ m.type = "RequestVote" /\ m.lastLogIndex = getLastIndex(log[n])
            /\ m.lastLogTerm = getLastTerm(log[n])
        BY <2>3 DEF RequestVote
      <3>2. QED
        BY <1>2, <2>2, <3>1 DEF DescribesCandidate
    <2>4. CASE pc[n] = "heartbeat" /\ m = AppendEntries(n, p)
      <3>1. m.type = "AppendEntries"
        BY <2>4 DEF AppendEntries
      <3>2. PieceOfLeaderLog(m)
        BY <2>1, <2>4, AppendEntriesIsPiece, RequestKind
      <3>3. QED
        BY <1>2, <1>3, <2>2, <3>1, <3>2
    <2>5. QED
      BY <2>1, <2>3, <2>4, RequestKind
  <1>6. QED
    BY <1>4, <1>5 DEF Pending

\* No step sends or installs a snapshot.
LEMMA NoSnapshotSteps ==
    ASSUME Core
    PROVE  /\ \A n \in Server : ~SnapshotSent(n)
           /\ \A m \in Pending : ~handleInstallSnapshot(m)
  <1>1. ASSUME NEW n \in Server, SnapshotSent(n) PROVE FALSE
    <2>1. HasReply(n) /\ NeedsSnapshot(n, Head(todo[n]))
      BY <1>1 DEF SnapshotSent
    <2>2. Head(todo[n]) \in Server
      BY <2>1, CoreTypes, HeartbeatPeer DEF Core
    <2>3. QED
      BY <2>1, <2>2, NeedsNoSnapshot
  <1>2. QED
    BY <1>1, PendingIsSafe DEF handleInstallSnapshot

----------------------------------------------------------------------------
(***************************************************************************)
(* What a step may do.                                                     *)
(***************************************************************************)
CoreStep ==
    /\ Core /\ [Next]_vars
    /\ NodeInv' /\ NoImpostor' /\ NothingCompacted'

\* The steps of a core are quiet, a win, an append, a commit or a merge.
LEMMA CoreStepKinds ==
    ASSUME CoreStep
    PROVE  \/ Quiet
           \/ \E n \in Server : \/ WinElection(n) \/ AppendSucceeds(n)
                                \/ \E c \in Command : handleClientRequest(n, c)
           \/ \E m \in Pending : AcceptAppendEntries(m)
  <1>1. TypeIInv
    BY CoreTypes DEF CoreStep, Core
  <1>2. QED
    BY <1>1, StepKinds, CompactionStays, NoSnapshotSteps DEF CoreStep

\* A step of node n leaves the logs of the others alone.
LEMMA NodeStepLog ==
    ASSUME TypeIInv, NEW n \in Server, NodeStep(n), NEW k \in Server \ {n}
    PROVE  log'[k] = log[k]
  BY DEF NodeStep, ElectionTimeout, ElectionStepsDown, CountVote, WinElection, LoseElection,
         HeartbeatTick, HeartbeatStepsDown, SnapshotSent, AppendSucceeds, AppendRejected,
         CallFails, takeSnapshot, handleClientRequest, TypeIInv, LogTypes

\* A candidate's term and log stay as they are until its election is over.
Frozen(c) == pc[c] = "election" /\ currentTerm'[c] = currentTerm[c] /\ log'[c] = log[c]

ElectionsFrozen ==
    \A c \in Server : pc'[c] = "election" => currentTerm'[c] > currentTerm[c] \/ Frozen(c)

LEMMA ElectionsAreFrozen ==
    ASSUME CoreStep
    PROVE  ElectionsFrozen
  <1>0. TypeIInv /\ currentTerm \in [Server -> Nat] /\ pc \in [Server -> Pc]
    BY CoreTypes DEF CoreStep, Core, TypeIInv, ElectionTypes, ThreadTypes
  <1>1. ASSUME UNCHANGED <<pc, currentTerm, log>> PROVE ElectionsFrozen
    BY <1>1 DEF ElectionsFrozen, Frozen
  <1>2. ASSUME NEW n \in Server, NodeStep(n) PROVE ElectionsFrozen
    <2>1. ASSUME NEW c \in Server \ {n}, pc'[c] = "election" PROVE Frozen(c)
      BY <1>0, <1>2, <2>1, NodeStepLocal, NodeStepLog DEF SameElection, Frozen
    <2>2. ASSUME pc'[n] = "election" PROVE currentTerm'[n] > currentTerm[n] \/ Frozen(n)
      <3>1. CASE ElectionTimeout(n)
        BY <1>0, <3>1 DEF ElectionTimeout, becomeCandidate
      <3>2. CASE CountVote(n) \/ CallFails(n)
        BY <2>2, <3>2 DEF CountVote, CallFails, threadVars, electionVars, Frozen
      <3>3. CASE ElectionStepsDown(n) \/ LoseElection(n)
        BY <1>0, <2>2, <3>3 DEF ElectionStepsDown, LoseElection
      <3>4. CASE WinElection(n) \/ HeartbeatTick(n)
        BY <1>0, <2>2, <3>4 DEF WinElection, HeartbeatTick, SendTo
      <3>5. CASE HeartbeatStepsDown(n) \/ SnapshotSent(n) \/ AppendSucceeds(n) \/ AppendRejected(n)
        <4>1. PeerDone(n)
          BY <3>5 DEF HeartbeatStepsDown, SnapshotSent, AppendSucceeds, AppendRejected
        <4>2. QED
          BY <1>0, <2>2, <4>1 DEF PeerDone, SendTo
      <3>6. CASE takeSnapshot(n) \/ \E c \in Command : handleClientRequest(n, c)
        BY <2>2, <3>6 DEF takeSnapshot, handleClientRequest, threadVars
      <3>7. QED
        BY <1>2, <3>1, <3>2, <3>3, <3>4, <3>5, <3>6 DEF NodeStep
    <2>3. QED
      BY <2>1, <2>2 DEF ElectionsFrozen
  <1>3. ASSUME NEW m \in Pending, Handle(m) PROVE ElectionsFrozen
    <2>1. pc' = pc /\ pc[m.to] = "idle" /\ m.to \in Server
      BY <1>0, <1>3, PendingGood DEF Handle, HandleStale, handleRequestVote, RejectAppendEntries,
         AcceptAppendEntries, AcceptLeader, handleInstallSnapshot, threadVars
    <2>2. ASSUME NEW c \in Server \ {m.to} PROVE currentTerm'[c] = currentTerm[c] /\ log'[c] = log[c]
      BY <1>0, <1>3 DEF Handle, HandleStale, handleRequestVote, RejectAppendEntries,
         AcceptAppendEntries, AcceptLeader, handleInstallSnapshot, becomeFollower,
         electionVars, TypeIInv, LogTypes
    <2>3. QED
      BY <2>1, <2>2 DEF ElectionsFrozen, Frozen
  <1>4. QED
    BY <1>1, <1>2, <1>3 DEF CoreStep, Next, vars, threadVars, electionVars

\* A vote is given only in a term that the candidate reached, and while it
\* campaigns only if its log is up to date with the voter's.
NewGrants ==
    \A t \in Nat, v, c \in Server : <<t, v, c>> \in granted' =>
        /\ t <= currentTerm[c]
        /\ \/ <<t, v, c>> \in granted
           \/ /\ log' = log
              /\ pc[c] = "election" /\ currentTerm[c] = t =>
                    isLogUpToDate(log[v], getLastIndex(log[c]), getLastTerm(log[c]))

LEMMA GrantsAreSound ==
    ASSUME CoreStep
    PROVE  NewGrants
  <1>0. TypeIInv /\ Core
    BY CoreTypes DEF CoreStep, Core
  <1>1. ASSUME NEW t \in Nat, NEW v \in Server, NEW c \in Server, <<t, v, c>> \in granted
        PROVE  t <= currentTerm[c]
    <2>1. <<t, v, c>>[1] = t /\ <<t, v, c>>[3] = c
      OBVIOUS
    <2>2. QED
      BY <1>0, <1>1, <2>1 DEF Core, SafetyInv, TermsAreSound
  <1>2. ASSUME granted' = granted PROVE NewGrants
    BY <1>1, <1>2 DEF NewGrants
  <1>3. ASSUME NEW m \in Pending, handleRequestVote(m) PROVE NewGrants
    <2>1. /\ m.from \in Server /\ m.to \in Server /\ m.term <= currentTerm[m.from]
          /\ DescribesCandidate(m)
      BY <1>0, <1>3, PendingIsSafe DEF handleRequestVote
    <2>2. log' = log
      BY <1>3 DEF handleRequestVote
    <2>3. \/ granted' = granted
          \/ /\ granted' = granted \cup {<<m.term, m.to, m.from>>}
             /\ isLogUpToDate(log[m.to], m.lastLogIndex, m.lastLogTerm)
      BY <1>3 DEF handleRequestVote
    <2>4. ASSUME NEW t \in Nat, NEW v \in Server, NEW c \in Server,
                 <<t, v, c>> \in granted', <<t, v, c>> \notin granted
          PROVE  /\ t <= currentTerm[c]
                 /\ pc[c] = "election" /\ currentTerm[c] = t =>
                       isLogUpToDate(log[v], getLastIndex(log[c]), getLastTerm(log[c]))
      <3>1. <<t, v, c>> = <<m.term, m.to, m.from>>
        BY <2>3, <2>4
      <3>2. t = m.term /\ v = m.to /\ c = m.from
        BY <3>1
      <3>3. isLogUpToDate(log[v], m.lastLogIndex, m.lastLogTerm)
        BY <2>3, <2>4, <3>2
      <3>4. QED
        BY <2>1, <3>2, <3>3 DEF DescribesCandidate
    <2>5. QED
      BY <1>1, <2>2, <2>4 DEF NewGrants
  <1>4. ASSUME NEW n \in Server, NodeStep(n) PROVE granted' = granted
    BY <1>4 DEF NodeStep, ElectionTimeout, ElectionStepsDown, CountVote, WinElection, LoseElection,
         HeartbeatTick, HeartbeatStepsDown, SnapshotSent, AppendSucceeds, AppendRejected,
         CallFails, takeSnapshot, handleClientRequest, historyVars
  <1>5. ASSUME NEW m \in Pending, Handle(m), ~handleRequestVote(m) PROVE granted' = granted
    BY <1>5 DEF Handle, HandleStale, RejectAppendEntries, AcceptAppendEntries, AcceptLeader,
         handleInstallSnapshot, historyVars
  <1>6. QED
    BY <1>2, <1>3, <1>4, <1>5 DEF CoreStep, Next, vars, historyVars

\* Who leads after a step led before, in the same term and with the same log
\* unless it appends a command, or wins.
Leads(n) == role[n] = "LEADER" /\ role'[n] = "LEADER" /\ currentTerm'[n] = currentTerm[n]

LEMMA LeadersStay ==
    ASSUME CoreStep, NEW n \in Server, role'[n] = "LEADER"
    PROVE  \/ WinElection(n)
           \/ Leads(n) /\ log'[n] = log[n]
           \/ Leads(n) /\ \E c \in Command : handleClientRequest(n, c)
  <1>0. TypeIInv /\ Core /\ role \in [Server -> Role] /\ currentTerm \in [Server -> Nat]
    BY CoreTypes DEF CoreStep, Core, TypeIInv, ElectionTypes
  <1>1. ASSUME UNCHANGED <<role, currentTerm>>, log'[n] = log[n]
        PROVE  Leads(n) /\ log'[n] = log[n]
    BY <1>1 DEF Leads
  <1>2. ASSUME NEW k \in Server, NodeStep(k) PROVE role'[k] = "LEADER" /\ k = n =>
                 \/ WinElection(n)
                 \/ Leads(n) /\ log'[n] = log[n]
                 \/ Leads(n) /\ \E c \in Command : handleClientRequest(n, c)
    <2> SUFFICES ASSUME k = n
                 PROVE  \/ WinElection(n)
                        \/ Leads(n) /\ log'[n] = log[n]
                        \/ Leads(n) /\ \E c \in Command : handleClientRequest(n, c)
      OBVIOUS
    <2>1. CASE ElectionTimeout(n) \/ ElectionStepsDown(n) \/ HeartbeatStepsDown(n)
      <3>1. role'[n] # "LEADER"
        BY <1>0, <2>1 DEF ElectionTimeout, ElectionStepsDown, HeartbeatStepsDown, becomeCandidate,
                          becomeFollower
      <3>2. QED
        BY <3>1
    <2>2. CASE \/ CountVote(n) \/ LoseElection(n) \/ HeartbeatTick(n) \/ SnapshotSent(n)
               \/ AppendSucceeds(n) \/ AppendRejected(n) \/ CallFails(n)
      <3>1. UNCHANGED <<role, currentTerm, log>>
        BY <2>2 DEF CountVote, LoseElection, HeartbeatTick, SnapshotSent, AppendSucceeds,
                    AppendRejected, CallFails, electionVars
      <3>2. QED
        BY <1>1, <3>1
    <2>3. CASE takeSnapshot(n)
      BY <1>0, <2>3, CompactionStays DEF CoreStep
    <2>4. CASE \E c \in Command : handleClientRequest(n, c)
      <3>1. UNCHANGED <<role, currentTerm>>
        BY <2>4 DEF handleClientRequest, electionVars
      <3>2. QED
        BY <2>4, <3>1 DEF Leads
    <2>5. QED
      BY <1>2, <2>1, <2>2, <2>3, <2>4 DEF NodeStep
  <1>3. ASSUME NEW k \in Server \ {n}, NodeStep(k) PROVE Leads(n) /\ log'[n] = log[n]
    <2>1. currentTerm'[n] = currentTerm[n] /\ log'[n] = log[n]
      BY <1>0, <1>3, NodeStepLocal, NodeStepLog DEF SameElection
    <2>2. role'[n] = role[n]
      BY <1>0, <1>3 DEF NodeStep, ElectionTimeout, ElectionStepsDown, CountVote, WinElection,
         LoseElection, HeartbeatTick, HeartbeatStepsDown, SnapshotSent, AppendSucceeds,
         AppendRejected, CallFails, takeSnapshot, handleClientRequest, becomeCandidate,
         becomeFollower, becomeLeader, electionVars
    <2>3. QED
      BY <2>1, <2>2 DEF Leads
  <1>4. ASSUME NEW m \in Pending, Handle(m) PROVE Leads(n) /\ log'[n] = log[n]
    <2>0. m.to \in Server /\ m.term \in Nat /\ ~handleInstallSnapshot(m)
      BY <1>0, PendingGood, NoSnapshotSteps
    <2>1. CASE HandleStale(m)
      BY <1>1, <2>1 DEF HandleStale, electionVars
    <2>2. CASE handleRequestVote(m)
      <3>1. log' = log /\ ~(m.term < currentTerm[m.to])
        BY <2>2 DEF handleRequestVote, Stale
      <3>2. role'[n] = IF n = m.to /\ m.term > currentTerm[n] THEN "FOLLOWER" ELSE role[n]
        BY <1>0, <2>2 DEF handleRequestVote
      <3>3. currentTerm'[n] = IF n = m.to THEN m.term ELSE currentTerm[n]
        BY <1>0, <2>2 DEF handleRequestVote
      <3>4. role[n] = "LEADER" /\ ~(n = m.to /\ m.term > currentTerm[n])
        BY <3>2
      <3>5. currentTerm'[n] = currentTerm[n]
        BY <1>0, <2>0, <3>1, <3>3, <3>4
      <3>6. QED
        BY <3>1, <3>4, <3>5 DEF Leads
    <2>3. CASE RejectAppendEntries(m) \/ AcceptAppendEntries(m)
      <3>1. AcceptLeader(m)
        BY <2>3 DEF RejectAppendEntries, AcceptAppendEntries
      <3>2. CASE n = m.to
        <4>1. role'[n] = "FOLLOWER"
          BY <1>0, <3>1, <3>2, AcceptLeaderMoves, MovesAt
        <4>2. QED
          BY <4>1
      <3>3. CASE n # m.to
        <4>1. role'[n] = role[n] /\ currentTerm'[n] = currentTerm[n]
          BY <1>0, <3>1, <3>3 DEF AcceptLeader
        <4>2. log'[n] = log[n]
          BY <1>0, <2>3, <3>3 DEF RejectAppendEntries, AcceptAppendEntries, TypeIInv, LogTypes
        <4>3. QED
          BY <4>1, <4>2 DEF Leads
      <3>4. QED
        BY <3>2, <3>3
    <2>4. QED
      BY <1>4, <2>0, <2>1, <2>2, <2>3 DEF Handle
  <1>5. QED
    BY <1>1, <1>2, <1>3, <1>4 DEF CoreStep, Next, vars, electionVars

\* A win: the winner's log becomes the leader's log of a new term.
LEMMA WinFacts ==
    ASSUME CoreStep, NEW n \in Server, WinElection(n)
    PROVE  LET t == currentTerm[n]
           IN  /\ UNCHANGED <<log, currentTerm, commitIndex, lastApplied, applied, late, granted>>
               /\ pc[n] = "election" /\ t \in Nat /\ t > 0 /\ t \notin WonTerms
               /\ IsMajority(n, Voters(t, n))
               /\ \A e : e \notin LeaderLog(t)
               /\ \A s : s \in WonTerms' <=> s \in WonTerms \/ s = t
               /\ \A s, e : e \in LeaderLog(s)' <=> e \in LeaderLog(s) \/ (s = t /\ e \in Entries(n))
               /\ \A k \in Server : role'[k] = IF k = n THEN "LEADER" ELSE role[k]
               /\ \A p \in Server : /\ nextIndex'[n][p] = getLastIndex(log[n]) + 1
                                    /\ matchIndex'[n][p] = 0
               /\ \A k \in Server \ {n} : nextIndex'[k] = nextIndex[k] /\ matchIndex'[k] = matchIndex[k]
               /\ reply'[n] = Nil
  <1> DEFINE t == currentTerm[n]
  <1>1. /\ UNCHANGED <<log, currentTerm, commitIndex, lastApplied, applied, late, granted, reply>>
        /\ pc[n] = "election" /\ todo[n] = <<>>
        /\ won' = won \cup {<<t, n>>}
        /\ led' = led \cup {<<t, e>> : e \in Entries(n)}
        /\ role' = [role EXCEPT ![n] = "LEADER"]
        /\ nextIndex' = [nextIndex EXCEPT ![n] = [p \in Server |-> getLastIndex(log[n]) + 1]]
        /\ matchIndex' = [matchIndex EXCEPT ![n] = [p \in Server |-> 0]]
    BY DEF WinElection, becomeLeader, storeVars, Entries
  <1>2. /\ TypeIInv /\ VoteInv /\ ElectionInv /\ HistoryTypes /\ t \in Nat
        /\ HistoryTypes' /\ ElectionInv' /\ impostorTerms = {} /\ impostorTerms' = {}
    BY CoreTypes DEF CoreStep, Core, NodeInv, TypeIInv, NoImpostor
  <1>3. role[n] = "CANDIDATE"
    BY <1>1, <1>2 DEF VoteInv, Campaigns
  <1>4. t > 0
    BY <1>2, <1>3 DEF CoreStep, Core, SafetyInv, TermsAreSound
  <1>5. t \notin WonTerms
    <2>1. SUFFICES ASSUME NEW a \in Server, <<t, a>> \in won PROVE FALSE
      BY <1>2, InWonTerms
    <2>2. <<t, a>> \in won' /\ <<t, n>> \in won'
      BY <1>1, <2>1
    <2>3. a = n
      BY <1>2, <2>2 DEF ElectionInv, Elections, OneWinner
    <2>4. QED
      BY <1>2, <1>3, <2>1, <2>3 DEF ElectionInv, Elections, WinsRemembered
  <1>6. IsMajority(n, Voters(t, n))
    <2>1. <<t, n>> \in won' /\ granted' = granted
      BY <1>1
    <2>2. ASSUME NEW s \in Nat, <<s, n>> \in won' PROVE IsMajority(n, Voters(s, n))
      BY <1>2, <2>1, <2>2 DEF ElectionInv, Elections, WinnersQuorum, IsMajority, Voters
    <2>3. QED
      BY <1>2, <2>1, <2>2
  <1>7. \A e : e \notin LeaderLog(t)
    BY <1>5, LeaderLogFacts DEF CoreStep
  <1>8. ASSUME NEW s PROVE s \in WonTerms' <=> s \in WonTerms \/ s = t
    BY <1>1, <1>2, InWonTerms
  <1>9. ASSUME NEW s, NEW e
        PROVE  e \in LeaderLog(s)' <=> e \in LeaderLog(s) \/ (s = t /\ e \in Entries(n))
    BY <1>1, <1>2, InLeaderLog
  <1>10. /\ role \in [Server -> Role]
         /\ nextIndex \in [Server -> [Server -> Nat \ {0}]]
         /\ matchIndex \in [Server -> [Server -> Nat]]
         /\ reply[n] = Nil
    BY <1>1, <1>2 DEF TypeIInv, ElectionTypes, LeaderTypes, ReplyTypes
  <1>11. QED
    BY <1>1, <1>2, <1>4, <1>5, <1>6, <1>7, <1>8, <1>9, <1>10

\* A command: the leader's log and the record of it grow by one entry at the end.
LEMMA ClientFacts ==
    ASSUME CoreStep, NEW n \in Server, NEW c \in Command, handleClientRequest(n, c)
    PROVE  LET t == currentTerm[n]
               x == NewEntry(n, c)
           IN  /\ UNCHANGED <<electionVars, leaderVars, threadVars, reply, late, granted, won,
                              commitIndex, lastApplied, applied>>
               /\ pc[n] = "idle" /\ role[n] = "LEADER"
               /\ x \in Entry /\ x.index = getLastIndex(log[n]) + 1 /\ x.term = t
               /\ getLastIndex(log'[n]) = getLastIndex(log[n]) + 1
               /\ log'[n].Entries[1] = log[n].Entries[1]
               /\ \A e : e \in Entries(n)' <=> e \in Entries(n) \/ e = x
               /\ \A k \in Server \ {n} : log'[k] = log[k]
               /\ \A s, e : e \in LeaderLog(s)' <=> e \in LeaderLog(s) \/ (s = t /\ e = x)
               /\ \A s : s \in WonTerms' <=> s \in WonTerms
  <1> DEFINE t == currentTerm[n]
             x == NewEntry(n, c)
  <1>1. /\ UNCHANGED <<electionVars, leaderVars, threadVars, reply, late, granted, won,
                       commitIndex, lastApplied, applied>>
        /\ pc[n] = "idle" /\ role[n] = "LEADER"
        /\ log' = [log EXCEPT ![n] = append(log[n], x)]
        /\ led' = led \cup {<<t, x>>}
    BY DEF handleClientRequest, storeVars
  <1>2. /\ TypeIInv /\ HistoryTypes /\ HistoryTypes' /\ t \in Nat
        /\ log \in [Server -> Log] /\ Flat(log[n]) /\ getLastIndex(log[n]) \in Nat
    BY CoreTypes, EntriesOfNode DEF CoreStep, Core, NodeInv, TypeIInv, LogTypes
  <1>3. x \in Entry /\ x.index = getLastIndex(log[n]) + 1 /\ x.term = t
    BY <1>2 DEF NewEntry, Entry, Payload
  <1> HIDE DEF x
  <1>4. log'[n] = append(log[n], x) /\ \A k \in Server \ {n} : log'[k] = log[k]
    BY <1>1, <1>2
  <1>5. /\ EntrySet(append(log[n], x)) = EntrySet(log[n]) \cup {x}
        /\ getLastIndex(append(log[n], x)) = getLastIndex(log[n]) + 1
        /\ append(log[n], x).Entries[1] = log[n].Entries[1]
    BY <1>2, <1>3, FlatAppend DEF CanAppend
  <1>6. \A e : e \in Entries(n)' <=> e \in Entries(n) \/ e = x
    BY <1>4, <1>5 DEF Entries
  <1>7. ASSUME NEW s, NEW e PROVE e \in LeaderLog(s)' <=> e \in LeaderLog(s) \/ (s = t /\ e = x)
    BY <1>1, <1>2, InLeaderLog
  <1>8. ASSUME NEW s PROVE s \in WonTerms' <=> s \in WonTerms
    BY <1>1 DEF WonTerms
  <1>9. QED
    BY <1>1, <1>3, <1>4, <1>5, <1>6, <1>7, <1>8 DEF x

\* A merge: what a follower's log is after a request of the leader of term t.
LEMMA AcceptFacts ==
    ASSUME CoreStep, NEW m \in Pending, AcceptAppendEntries(m)
    PROVE  LET n    == m.to
               t    == m.term
               last == m.prevLogIndex + Len(m.entries)
           IN  /\ n \in Server /\ m.from \in Server /\ n # m.from
               /\ t \in Nat /\ t \in WonTerms /\ t >= currentTerm[n]
               /\ PieceOfLeaderLog(m) /\ last \in Nat /\ m.leaderCommit \in Nat
               /\ currentTerm' = [currentTerm EXCEPT ![n] = t]
               /\ role'[n] = "FOLLOWER" /\ \A k \in Server \ {n} : role'[k] = role[k]
               /\ UNCHANGED <<leaderVars, threadVars, granted, won, led>>
               /\ Answer(m, Answered(t, TRUE))
               /\ \A k \in Server \ {n} : log'[k] = log[k]
               /\ \E lg : /\ Applies(n, lg, FollowerCommit(n, lg, m.leaderCommit))
                          /\ FollowerCommit(n, lg, m.leaderCommit) \in Nat
                          /\ log'[n] = lg /\ Flat(lg)
               /\ log'[n].Entries[1] = log[n].Entries[1]
               /\ getLastIndex(log'[n]) \in Nat /\ getLastIndex(log'[n]) >= last
               /\ \/ \A e \in Entries(n)' : e \in LeaderLog(t)
                  \/ \A e : e \in Entries(n)' <=> e \in Entries(n)
               /\ \A e \in Entries(n) : e \in LeaderLog(t) => e \in Entries(n)'
               /\ \A e \in LeaderLog(t) : e.index <= last => e \in Entries(n)'
  <1> DEFINE n    == m.to
             t    == m.term
             lg   == log[n]
             prev == m.prevLogIndex
             es   == m.entries
  <1>1. Core /\ TypeIInv /\ VoteInv
    BY CoreTypes DEF CoreStep, Core
  <1>2. /\ AcceptLeader(m) /\ m.type = "AppendEntries" /\ ~TermMismatch(log[n], m)
        /\ ~EntryMissing(log[n], m) /\ Answer(m, Answered(t, TRUE))
    BY DEF AcceptAppendEntries, AcceptLeader
  <1>3. /\ n \in Server /\ m.from \in Server /\ n # m.from /\ t \in Nat /\ t \in WonTerms
        /\ PieceOfLeaderLog(m)
    BY <1>1, <1>2, PendingIsSafe
  <1>4. /\ t >= currentTerm[n] /\ role'[n] = "FOLLOWER"
        /\ currentTerm' = [currentTerm EXCEPT ![n] = t]
        /\ \A k \in Server \ {n} : role'[k] = role[k]
        /\ UNCHANGED <<leaderVars, threadVars, granted, won, led>>
    <2>1. role'[n] = "FOLLOWER"
      BY <1>1, <1>2, <1>3, AcceptLeaderMoves, MovesAt
    <2>2. ~(t < currentTerm[n]) /\ currentTerm[n] \in Nat
      BY <1>1, <1>2, <1>3 DEF AcceptLeader, Stale, TypeIInv, ElectionTypes
    <2>3. \A k \in Server \ {n} : role'[k] = role[k]
      BY <1>1, <1>2 DEF AcceptLeader, TypeIInv, ElectionTypes
    <2>4. QED
      BY <1>2, <1>3, <2>1, <2>2, <2>3 DEF AcceptLeader
  <1>5. /\ prev \in Nat /\ es \in Seq(Entry) /\ m.leaderCommit \in Nat
        /\ \A j \in 1 .. Len(es) : es[j].index = prev + j
        /\ prev <= getLastIndex(lg)
    BY <1>1, AcceptApplies
  <1>6. PICK k \in 1 .. Len(es) + 1 :
           LET new    == Merge(lg, prev, es, k)
               commit == FollowerCommit(n, new, m.leaderCommit)
           IN  IsFirstConflict(lg, prev, es, k) /\ commit \in Nat /\ Applies(n, new, commit)
    BY <1>1, AcceptApplies
  <1> DEFINE new  == Merge(lg, prev, es, k)
             keep == MergeKeepsTo(lg, prev, es, k)
  <1>7. Flat(lg) /\ getLastIndex(lg) \in Nat /\ Len(es) \in Nat /\ k \in Nat \ {0}
    BY <1>3, <1>5, EntriesOfNode DEF CoreStep, Core
  <1>merged. MergedTo(lg, prev, es, k, new, keep)
    <2>1. IsFirstConflict(lg, prev, es, k)
      BY <1>6
    <2> HIDE DEF lg, prev, es
    <2>2. QED
      BY <1>5, <1>7, <2>1, FlatMerge
  <1>8. /\ Flat(new)
        /\ new.Entries[1] = lg.Entries[1]
        /\ keep \in Nat /\ keep >= prev /\ keep <= getLastIndex(lg)
        /\ \A e \in EntrySet(new) :
              \/ e \in EntrySet(lg) /\ e.index <= keep
              \/ e.index > keep /\ \E j \in 1 .. Len(es) : e = es[j]
        /\ \A e \in EntrySet(lg) : e.index <= keep => e \in EntrySet(new)
        /\ \A j \in 1 .. Len(es) :
              /\ prev + j > keep => es[j] \in EntrySet(new)
              /\ prev + j <= keep => getTerm(lg, prev + j) = es[j].term
        /\ k <= Len(es) => getTerm(lg, prev + k) # es[k].term
        /\ getLastIndex(new) >= prev + Len(es)
    BY <1>merged DEF MergedTo
  <1>9. log'[n] = new /\ \A a \in Server \ {n} : log'[a] = log[a]
    BY <1>1, <1>3, <1>6 DEF Applies, TypeIInv, LogTypes
  <1>10. /\ Entries(n) = EntrySet(lg) /\ Entries(n)' = EntrySet(new)
         /\ getLastIndex(new) \in Nat
    BY <1>8, <1>9, FlatEntries DEF Entries
  <1>11. /\ Applies(n, new, FollowerCommit(n, new, m.leaderCommit))
         /\ FollowerCommit(n, new, m.leaderCommit) \in Nat
    BY <1>6
  <1>12. /\ \A j \in 1 .. Len(es) : es[j] \in LeaderLog(t)
         /\ prev > 0 => \E g \in LeaderLog(t) : g.index = prev /\ g.term = getTerm(lg, prev)
    <2>1. DOMAIN es = 1 .. Len(es)
      BY <1>5
    <2>2. prev > 0 => getTerm(lg, prev) = m.prevLogTerm
      BY <1>2 DEF TermMismatch
    <2>3. QED
      BY <1>3, <2>1, <2>2 DEF PieceOfLeaderLog
  <1> HIDE DEF new, keep, es, prev, t, n, lg
  \* Up to keep and the end of the request, the follower agrees with the leader.
  <1>13. ASSUME NEW i \in 1 .. keep, i <= prev + Len(es)
         PROVE  \E h \in Entries(n) : \E g \in LeaderLog(t) :
                   h.index = g.index /\ h.term = g.term /\ i <= h.index
    <2>0. i \in Nat /\ i > 0 /\ i <= getLastIndex(lg)
      BY <1>7, <1>8
    <2>1. CASE i <= prev
      <3>1. prev > 0 /\ prev \in 1 .. getLastIndex(lg)
        BY <1>5, <1>7, <2>0, <2>1
      <3>2. PICK g \in LeaderLog(t) : g.index = prev /\ g.term = getTerm(lg, prev)
        BY <1>12, <3>1
      <3>3. PICK h \in Entries(n) : h.index = prev
        BY <1>7, <1>10, <3>1, FlatEntries
      <3>4. h.term = getTerm(lg, prev)
        BY <1>7, <1>10, <3>3, FlatEntries
      <3>5. QED
        BY <2>1, <3>2, <3>3, <3>4
    <2>2. CASE ~(i <= prev)
      <3>1. i - prev \in 1 .. Len(es) /\ prev + (i - prev) = i
        BY <1>5, <1>7, <1>13, <2>0, <2>2
      <3>2. es[i - prev] \in LeaderLog(t) /\ es[i - prev].index = i
        BY <1>5, <1>12, <3>1
      <3>3. getTerm(lg, i) = es[i - prev].term
        BY <1>8, <1>13, <3>1
      <3>4. i \in 1 .. getLastIndex(lg)
        BY <1>7, <2>0
      <3>5. PICK h \in Entries(n) : h.index = i
        BY <1>7, <1>10, <3>4, FlatEntries
      <3>6. h.term = getTerm(lg, i)
        BY <1>7, <1>10, <3>5, FlatEntries
      <3>7. QED
        BY <2>0, <3>2, <3>3, <3>5, <3>6
    <2>3. QED
      BY <2>1, <2>2
  <1>14. ASSUME NEW f \in Entries(n), f.index <= keep, f.index <= prev + Len(es)
         PROVE  f \in LeaderLog(t)
    <2>1. f.index \in 1 .. keep
      BY <1>1, <1>3, <1>8, <1>14, EntryFacts DEF n
    <2>2. PICK h \in Entries(n) : \E g \in LeaderLog(t) :
             h.index = g.index /\ h.term = g.term /\ f.index <= h.index
      BY <1>13, <1>14, <2>1
    <2>3. QED
      BY <1>1, <1>3, <2>2, LogMeetsLeader DEF n, t
  <1>15. ASSUME NEW f \in LeaderLog(t), f.index <= keep, f.index <= prev + Len(es)
         PROVE  f \in Entries(n)
    <2>1. f.index \in 1 .. keep
      BY <1>1, <1>8, <1>15, LeaderLogFacts
    <2>2. PICK h \in Entries(n) : \E g \in LeaderLog(t) :
             h.index = g.index /\ h.term = g.term /\ f.index <= h.index
      BY <1>13, <1>15, <2>1
    <2>3. QED
      BY <1>1, <1>3, <2>2, LogMeetsLeader DEF n, t
  <1>16. \/ \A e \in Entries(n)' : e \in LeaderLog(t)
         \/ \A e : e \in Entries(n)' <=> e \in Entries(n)
    <2>1. CASE keep <= prev + Len(es)
      <3>1. ASSUME NEW e \in Entries(n)' PROVE e \in LeaderLog(t)
        <4>1. CASE e \in Entries(n) /\ e.index <= keep
          <5>1. e.index <= prev + Len(es)
            BY <1>1, <1>3, <1>5, <1>7, <1>8, <2>1, <4>1, EntryFacts DEF n
          <5>2. QED
            BY <1>14, <4>1, <5>1
        <4>2. CASE \E j \in 1 .. Len(es) : e = es[j]
          BY <1>12, <4>2
        <4>3. QED
          BY <1>8, <1>10, <4>1, <4>2
      <3>2. QED
        BY <3>1
    <2>2. CASE ~(keep <= prev + Len(es))
      <3>1. ~(k <= Len(es)) /\ keep = getLastIndex(lg)
        <4>1. k <= Len(es) => keep = prev + k - 1
          BY DEF keep, MergeKeepsTo
        <4>2. ~(k <= Len(es))
          BY <1>5, <1>7, <2>2, <4>1
        <4>3. QED
          BY <4>2 DEF keep, MergeKeepsTo
      <3>2. ASSUME NEW e \in Entries(n) PROVE e \in Entries(n)'
        BY <1>1, <1>3, <1>8, <1>10, <3>1, <3>2, EntryFacts DEF n, lg
      <3>3. ASSUME NEW e \in Entries(n)' PROVE e \in Entries(n)
        <4>1. ASSUME NEW j \in 1 .. Len(es), e = es[j], e.index > keep PROVE FALSE
          <5>1. e.index = prev + j /\ j \in Nat /\ j <= Len(es)
            BY <1>5, <1>7, <4>1
          <5>2. QED
            BY <1>5, <1>7, <1>8, <2>2, <4>1, <5>1
        <4>2. QED
          BY <1>8, <1>10, <4>1
      <3>4. QED
        BY <3>2, <3>3
    <2>3. QED
      BY <2>1, <2>2
  <1>17. ASSUME NEW f \in Entries(n), f \in LeaderLog(t) PROVE f \in Entries(n)'
    <2>0. f.index \in Nat /\ f.index <= getLastIndex(lg)
      BY <1>1, <1>3, EntryFacts DEF n, lg
    <2>1. CASE f.index <= keep
      BY <1>8, <1>10, <2>1
    <2>2. CASE ~(f.index <= keep)
      <3>1. k <= Len(es) /\ keep = prev + k - 1
        BY <2>0, <2>2 DEF keep, MergeKeepsTo
      <3>2. prev + k <= f.index /\ prev + k \in 1 .. getLastIndex(lg) /\ prev + k \in 1 .. f.index
        BY <1>5, <1>7, <2>0, <2>2, <3>1
      <3>3. PICK h \in Entries(n) : h.index = prev + k
        BY <1>7, <1>10, <3>2, FlatEntries
      <3>4. h \in LeaderLog(t)
        BY <1>1, <1>3, <1>17, <3>2, <3>3, LogMeetsLeader DEF n, t
      <3>5. k \in 1 .. Len(es)
        BY <1>7, <3>1
      <3>6. es[k] \in LeaderLog(t) /\ es[k].index = prev + k
        BY <1>5, <1>12, <3>5
      <3>7. h = es[k]
        BY <1>1, <3>3, <3>4, <3>6, LeaderLogFacts
      <3>8. h.term = getTerm(lg, prev + k)
        BY <1>7, <1>10, <3>3, FlatEntries
      <3>9. QED
        BY <1>8, <3>1, <3>7, <3>8
    <2>3. QED
      BY <2>1, <2>2
  <1>18. ASSUME NEW f \in LeaderLog(t), f.index <= prev + Len(es) PROVE f \in Entries(n)'
    <2>0. f.index \in Nat /\ f.index > 0
      BY <1>1, LeaderLogFacts
    <2>1. CASE f.index <= keep
      BY <1>8, <1>10, <1>15, <1>18, <2>1
    <2>2. CASE ~(f.index <= keep)
      <3>1. f.index - prev \in 1 .. Len(es) /\ prev + (f.index - prev) = f.index
        BY <1>5, <1>7, <1>8, <1>18, <2>0, <2>2
      <3>2. es[f.index - prev] \in LeaderLog(t) /\ es[f.index - prev].index = f.index
        BY <1>5, <1>12, <3>1
      <3>3. es[f.index - prev] = f
        BY <1>1, <3>2, LeaderLogFacts
      <3>4. prev + (f.index - prev) > keep
        BY <1>8, <2>0, <2>2, <3>1
      <3>5. QED
        BY <1>8, <1>10, <3>1, <3>3, <3>4
    <2>3. QED
      BY <2>1, <2>2
  <1>19. prev + Len(es) \in Nat
    BY <1>5, <1>7
  <1>20. \E x : /\ Applies(n, x, FollowerCommit(n, x, m.leaderCommit))
                /\ FollowerCommit(n, x, m.leaderCommit) \in Nat
                /\ log'[n] = x /\ Flat(x)
    BY <1>8, <1>9, <1>11
  <1>21. QED
    BY <1>2, <1>3, <1>4, <1>5, <1>8, <1>9, <1>10, <1>16, <1>17, <1>18, <1>19, <1>20
       DEF n, t, lg, prev, es
=============================================================================
