------------------------- MODULE RaftRestartProofs -------------------------
(***************************************************************************)
(* Nodes that stop and start again, for every number of nodes and of stops *)
(* and wherever a stop cuts a handler or a save: a node that is up has on  *)
(* disk what it answers for, votes stay unique, and a term has one winner  *)
(* unless it is an impostor's.                                             *)
(*                                                                         *)
(* A node that is up remembers its votes in its memory, as in              *)
(* RaftNodeProofs with `up` for the nodes that are; one that is not        *)
(* remembers them in its state file, unless that file was cut off: then it *)
(* never comes back.                                                       *)
(***************************************************************************)
EXTENDS RaftRestart, RaftNodeProofs

Up == {n \in Server : life[n] = "up"}

SavedFiles ==
    {StateFile(t, x, lg) : t \in Nat, x \in Server \cup {Nil}, lg \in {l \in Log : WellFormed(l)}}

DiskTypes ==
    /\ life \in [Server -> {"up", "down", "dead"}]
    /\ disk \in [Server -> [state    : {NoFile, <<>>} \cup SavedFiles,
                            snapshot : Store \cup {NoFile}]]

\* A node without a state file starts in term 0.
DiskTerm(n) == IF disk[n].state = NoFile THEN 0 ELSE disk[n].state[1]

DiskVote(n) == IF disk[n].state = NoFile THEN Nil ELSE disk[n].state[2]

\* The state of n when it is not up.
Asleep(n) ==
    /\ currentTerm[n] = 0
    /\ votedFor[n] = Nil
    /\ role[n] = "FOLLOWER"
    /\ pc[n] = "idle"
    /\ log[n] = EmptyLog

\* A node with this term and vote knows of the votes that n gave, and of its own.
Remembers(n, term, vote) ==
    /\ \A t \in Nat, c \in Server :
          <<t, n, c>> \in granted => c # n /\ t <= term /\ (t = term => vote = c)
    /\ \A t \in Nat :
          <<t, n>> \in won => t <= term /\ (t = term /\ t \notin impostorTerms => vote = n)

\* An empty state file is one that was cut off.
DownNodes ==
    \A n \in Server \ Up :
        /\ Asleep(n)
        /\ disk[n].state # <<>> => Remembers(n, DiskTerm(n), DiskVote(n))

RestartIInv ==
    /\ TypeIInv /\ DiskTypes
    /\ VoteInvOf(Up) /\ WinsRememberedBy(Up) /\ Elections
    /\ DownNodes /\ DiskIsCurrent

\* DiskIsCurrent, of one node.
CurrentAt(n) ==
    LET file == disk[n].state
        data == serializeLog(log[n])
    IN  IF file = NoFile
        THEN currentTerm[n] = 0 /\ votedFor[n] = Nil /\ log[n] = EmptyLog
        ELSE /\ file[1] = currentTerm[n]
             /\ file[2] = votedFor[n]
             /\ SubSeq(file, LogSize, Len(file)) = <<Len(data)>> \o data

LEMMA CurrentAtAll == DiskIsCurrent <=> \A n \in Durable : n \in Up => CurrentAt(n)
  BY RestartAssumption DEF DiskIsCurrent, CurrentAt, Up

----------------------------------------------------------------------------
\* A state file is a sequence, and begins with the term and the vote.
LEMMA SavedFileHolds ==
    ASSUME NEW lg, WellFormed(lg), NEW t \in Nat, NEW x \in Server \cup {Nil}
    PROVE  /\ StateFile(t, x, lg) \in SavedFiles
           /\ StateFile(t, x, lg) # NoFile
           /\ StateFile(t, x, lg) # <<>>
           /\ FileHolds(StateFile(t, x, lg), t, x, lg)
  <1> DEFINE file == StateFile(t, x, lg)
             V    == Server \cup {Nil}
  <1>1. /\ serializeLog(lg) \in Seq(Nat)
        /\ file \in Seq(Nat \cup V)
        /\ FileHolds(file, t, x, lg)
    <2> HIDE DEF V, file
    <2>1. x \in V
      BY DEF V
    <2>2. QED
      BY <2>1, RestartAssumption, StateFileHolds DEF file
  <1>2. file \in SavedFiles
    BY DEF SavedFiles, WellFormed
  <1>3. file # NoFile
    BY <1>1, RestartAssumption
  <1>4. file # <<>>
    <2>1. Len(file) = 5 + Len(serializeLog(lg)) /\ Len(serializeLog(lg)) \in Nat
      BY <1>1 DEF FileHolds, LogSize
    <2> HIDE DEF file
    <2>2. Len(file) # 0
      BY <2>1
    <2>3. QED
      BY <2>2
  <1>5. QED
    BY <1>1, <1>2, <1>3, <1>4

\* The disk after a save of this term, vote and log.
SavesTo(n, t, x, lg) ==
    /\ disk' \in [Server -> [state    : {NoFile, <<>>} \cup SavedFiles,
                             snapshot : Store \cup {NoFile}]]
    /\ \A k \in Server \ {n} : disk'[k] = disk[k]
    /\ n \in Durable => disk'[n].state = StateFile(t, x, lg)

LEMMA SavedWrites ==
    ASSUME DiskTypes, NEW n \in Server, NEW lg, WellFormed(lg), NEW t \in Nat,
           NEW x \in Server \cup {Nil}, NEW data \in Store,
           disk' = [disk EXCEPT ![n] = Saved(n, t, x, lg, data)]
    PROVE  SavesTo(n, t, x, lg)
  <1>1. StateFile(t, x, lg) \in SavedFiles
    BY SavedFileHolds
  <1>2. Saved(n, t, x, lg, data) \in [state    : {NoFile, <<>>} \cup SavedFiles,
                                      snapshot : Store \cup {NoFile}]
    BY <1>1 DEF Saved, NoFiles, DiskTypes
  <1>3. n \in Durable => Saved(n, t, x, lg, data).state = StateFile(t, x, lg)
    BY DEF Saved
  <1> HIDE DEF Saved
  <1>4. QED
    BY <1>2, <1>3 DEF DiskTypes, SavesTo

\* persistState, once the rest of the step is known.
LEMMA PersistHolds ==
    ASSUME DiskTypes, TypeIInv', NEW n \in Server, persistState(n)
    PROVE  SavesTo(n, currentTerm'[n], votedFor'[n], log'[n])
  <1> DEFINE t == currentTerm'[n]
             x == votedFor'[n]
             lg == log'[n]
             data == snapshotData'[n]
  <1>1. t \in Nat /\ x \in Server \cup {Nil} /\ WellFormed(lg) /\ data \in Store
    BY DEF TypeIInv, ElectionTypes, LogTypes, SnapshotTypes
  <1>2. disk' = [disk EXCEPT ![n] = Saved(n, t, x, lg, data)]
    BY DEF persistState
  <1> HIDE DEF t, x, lg, data
  <1>3. SavesTo(n, t, x, lg)
    BY <1>1, <1>2, SavedWrites
  <1>4. QED
    BY <1>3 DEF t, x, lg

\* A save makes the disk current.
LEMMA SavedIsCurrent ==
    ASSUME TypeIInv', NEW n \in Server, n \in Durable,
           SavesTo(n, currentTerm'[n], votedFor'[n], log'[n])
    PROVE  CurrentAt(n)'
  <1> DEFINE t  == currentTerm'[n]
             x  == votedFor'[n]
             lg == log'[n]
             file == disk'[n].state
  <1>1. t \in Nat /\ x \in Server \cup {Nil} /\ WellFormed(lg)
    BY DEF TypeIInv, ElectionTypes, LogTypes
  <1>2. file = StateFile(t, x, lg)
    BY DEF SavesTo
  <1> HIDE DEF t, x, lg, file
  <1>3. file # NoFile /\ FileHolds(file, t, x, lg)
    BY <1>1, <1>2, SavedFileHolds
  <1>4. /\ file[1] = t /\ file[2] = x
        /\ SubSeq(file, LogSize, Len(file)) = <<Len(serializeLog(lg))>> \o serializeLog(lg)
    BY <1>3 DEF FileHolds
  <1>5. QED
    BY <1>3, <1>4 DEF CurrentAt, t, x, lg, file

LEMMA CurrentKept ==
    ASSUME NEW n, CurrentAt(n), disk'[n] = disk[n], currentTerm'[n] = currentTerm[n],
           votedFor'[n] = votedFor[n], log'[n] = log[n]
    PROVE  CurrentAt(n)'
  BY DEF CurrentAt

\* Of a node that is up, the disk has its term and its vote.
LEMMA CurrentDisk ==
    ASSUME NEW n, CurrentAt(n)
    PROVE  DiskTerm(n) = currentTerm[n] /\ DiskVote(n) = votedFor[n]
  BY DEF CurrentAt, DiskTerm, DiskVote

----------------------------------------------------------------------------
\* What a step leaves of a node that takes no part in it.
Untouched(k) ==
    /\ currentTerm'[k] = currentTerm[k] /\ votedFor'[k] = votedFor[k]
    /\ role'[k] = role[k] /\ pc'[k] = pc[k] /\ log'[k] = log[k]
    /\ \A t \in Nat, c \in Server : <<t, k, c>> \in granted' => <<t, k, c>> \in granted
    /\ \A t \in Nat : <<t, k>> \in won' => <<t, k>> \in won
    /\ impostorTerms \subseteq impostorTerms'

LEMMA NodeStepTouches ==
    ASSUME TypeIInv, NEW n \in Server, NodeStep(n), NEW k \in Server \ {n}
    PROVE  Untouched(k)
  <1> USE DEF Untouched, electionVars, threadVars, historyVars, TypeIInv, ElectionTypes,
              ThreadTypes, LogTypes
  <1>1. CASE ElectionTimeout(n)
    BY <1>1 DEF ElectionTimeout, becomeCandidate
  <1>2. CASE ElectionStepsDown(n)
    BY <1>2 DEF ElectionStepsDown, becomeFollower
  <1>3. CASE CountVote(n) \/ LoseElection(n) \/ CallFails(n)
    BY <1>3 DEF CountVote, LoseElection, CallFails
  <1>4. CASE WinElection(n)
    BY <1>4 DEF WinElection, becomeLeader, SendTo
  <1>5. CASE HeartbeatTick(n)
    BY <1>5 DEF HeartbeatTick, SendTo
  <1>6. CASE HeartbeatStepsDown(n)
    BY <1>6 DEF HeartbeatStepsDown, becomeFollower, PeerDone, SendTo
  <1>7. CASE SnapshotSent(n) \/ AppendSucceeds(n) \/ AppendRejected(n)
    <2>1. /\ PeerDone(n)
          /\ UNCHANGED <<currentTerm, votedFor, role, log, granted, won, impostorTerms>>
      BY <1>7 DEF SnapshotSent, AppendSucceeds, AppendRejected
    <2>2. QED
      BY <2>1 DEF PeerDone, SendTo
  <1>8. CASE takeSnapshot(n)
    BY <1>8 DEF takeSnapshot
  <1>9. CASE \E c \in Command : handleClientRequest(n, c)
    BY <1>9 DEF handleClientRequest
  <1>10. QED
    BY <1>1, <1>2, <1>3, <1>4, <1>5, <1>6, <1>7, <1>8, <1>9 DEF NodeStep

LEMMA HandlerTouches ==
    ASSUME TypeIInv, NEW m \in Pending, Handle(m), NEW k \in Server \ {m.to}
    PROVE  Untouched(k)
  <1> USE DEF Untouched, electionVars, threadVars, historyVars, TypeIInv, ElectionTypes,
              ThreadTypes, LogTypes
  <1>1. m.to \in Server /\ m.from \in Server
    BY PendingGood
  <1>2. CASE HandleStale(m)
    BY <1>2 DEF HandleStale
  <1>3. CASE handleRequestVote(m)
    BY <1>1, <1>3 DEF handleRequestVote
  <1>4. CASE RejectAppendEntries(m)
    BY <1>1, <1>4 DEF RejectAppendEntries, AcceptLeader
  <1>5. CASE AcceptAppendEntries(m)
    BY <1>1, <1>5 DEF AcceptAppendEntries, AcceptLeader
  <1>6. CASE handleInstallSnapshot(m)
    BY <1>1, <1>6 DEF handleInstallSnapshot, becomeFollower
  <1>7. QED
    BY <1>2, <1>3, <1>4, <1>5, <1>6 DEF Handle

LEMMA UntouchedRemembers ==
    ASSUME NEW k \in Server, NEW t, NEW x, Remembers(k, t, x), Untouched(k)
    PROVE  Remembers(k, t, x)'
  BY DEF Remembers, Untouched

\* What holds of the nodes that are down holds on, if the step leaves them alone.
LEMMA DownKept ==
    ASSUME DownNodes, NEW k \in Server \ Up, Untouched(k), disk'[k] = disk[k]
    PROVE  /\ Asleep(k)'
           /\ disk'[k].state # <<>> => Remembers(k, DiskTerm(k), DiskVote(k))'
  <1>1. Asleep(k)'
    BY DEF DownNodes, Asleep, Untouched
  <1>2. ASSUME disk'[k].state # <<>>
        PROVE  Remembers(k, DiskTerm(k), DiskVote(k))'
    BY <1>2 DEF DownNodes, Remembers, Untouched, DiskTerm, DiskVote
  <1>3. QED
    BY <1>1, <1>2

----------------------------------------------------------------------------
\* Steps of nodes that are up, with their saves.

\* A step of n saves, or leaves what a save would write.
Saves(n) ==
    \/ SavesTo(n, currentTerm'[n], votedFor'[n], log'[n])
    \/ /\ UNCHANGED disk
       /\ currentTerm'[n] = currentTerm[n] /\ votedFor'[n] = votedFor[n] /\ log'[n] = log[n]

LEMMA RunKeeps ==
    ASSUME RestartIInv, TypeIInv', NEW n \in Server, n \in Up, UNCHANGED life, Saves(n),
           \A k \in Server \ {n} : Untouched(k),
           VoteInvOf(Up)', WinsRememberedBy(Up)', Elections'
    PROVE  RestartIInv'
  <1>1. Up' = Up
    BY DEF Up
  <1>2. DiskTypes' /\ \A k \in Server \ {n} : disk'[k] = disk[k]
    BY DEF RestartIInv, DiskTypes, Saves, SavesTo
  <1>3. DownNodes'
    <2>1. ASSUME NEW k \in Server \ Up
          PROVE  /\ Asleep(k)'
                 /\ disk'[k].state # <<>> => Remembers(k, DiskTerm(k), DiskVote(k))'
      <3>1. k \in Server \ {n} /\ Untouched(k) /\ disk'[k] = disk[k]
        BY <1>2
      <3>2. QED
        BY <3>1, DownKept DEF RestartIInv
    <2>2. QED
      BY <1>1, <2>1 DEF DownNodes
  <1>4. ASSUME NEW k \in Durable, k \in Up PROVE CurrentAt(k)'
    <2>1. k \in Server /\ CurrentAt(k)
      BY <1>4, CurrentAtAll, RestartAssumption DEF RestartIInv
    <2>2. CASE k # n
      BY <1>2, <2>1, <2>2, CurrentKept DEF Untouched
    <2>3. CASE k = n
      BY <2>1, <2>3, SavedIsCurrent, CurrentKept DEF Saves
    <2>4. QED
      BY <2>2, <2>3
  <1>5. DiskIsCurrent'
    <2>1. \A k \in Durable : life'[k] = "up" => CurrentAt(k)'
      BY <1>4, RestartAssumption DEF Up
    <2>2. QED
      BY <2>1 DEF DiskIsCurrent, CurrentAt
  <1>6. QED
    BY <1>2, <1>3, <1>5 DEF RestartIInv

\* The nodes that are up, as a rigid set.
LEMMA UpIs ==
    ASSUME NEW up, Up' = up, VoteInvOf(up)', WinsRememberedBy(up)'
    PROVE  VoteInvOf(Up)' /\ WinsRememberedBy(Up)'
  BY DEF VoteInvOf, GrantsRememberedBy, WinsRememberedBy

LEMMA IsUp ==
    ASSUME NEW up, Up = up, RestartIInv
    PROVE  up \in SUBSET Server /\ VoteInvOf(up) /\ WinsRememberedBy(up) /\ Elections
  BY DEF Up, RestartIInv, VoteInvOf, GrantsRememberedBy, WinsRememberedBy

LEMMA NodeRunsKeeps ==
    ASSUME RestartIInv, NEW n \in Server, NodeRuns(n)
    PROVE  RestartIInv'
  <1>1. NodeStep(n) /\ n \in Up /\ UNCHANGED life
    BY DEF NodeRuns, SavingStep, OtherStep, ClientStep, NodeStep, Up, nodeLife
  <1>2. TypeIInv /\ TypeIInv'
    BY <1>1, TypeStep DEF RestartIInv, Next
  <1>3. PICK up : up = Up
    OBVIOUS
  <1>4. up \in SUBSET Server /\ VoteInvOf(up) /\ WinsRememberedBy(up) /\ Elections /\ Up' = up
    BY <1>1, <1>3, IsUp DEF Up
  <1>5. VoteInvOf(up)' /\ WinsKept(up) /\ Elections'
    BY <1>1, <1>2, <1>3, <1>4, VoteInvNode, ElectionInvNode
  <1>6. VoteInvOf(Up)' /\ WinsRememberedBy(Up)'
    BY <1>4, <1>5, UpIs DEF WinsKept
  <1>7. \A k \in Server \ {n} : Untouched(k)
    BY <1>1, <1>2, NodeStepTouches
  <1>8. Saves(n)
    <2>1. CASE SavingStep(n) \/ \E c \in Command : ClientStep(n, c)
      <3>1. persistState(n) /\ DiskTypes
        BY <2>1 DEF SavingStep, ClientStep, RestartIInv
      <3>2. QED
        BY <1>2, <3>1, PersistHolds DEF Saves
    <2>2. CASE OtherStep(n)
      <3>1. UNCHANGED <<disk, currentTerm, votedFor, log>>
        BY <2>2 DEF OtherStep, CountVote, WinElection, LoseElection, HeartbeatTick, SnapshotSent,
                    AppendSucceeds, AppendRejected, CallFails, becomeLeader, electionVars
      <3>2. QED
        BY <3>1 DEF Saves
    <2>3. QED
      BY <2>1, <2>2 DEF NodeRuns
  <1>9. QED
    BY <1>1, <1>2, <1>5, <1>6, <1>7, <1>8, RunKeeps

\* A request without entries that passes leaves the log.
LEMMA NothingToMerge ==
    ASSUME NEW lg, WellFormed(lg), NEW prev \in Nat, prev <= getLastIndex(lg), NEW k \in 1 .. 1
    PROVE  Merge(lg, prev, <<>>, k) = lg
  <1>1. Parts(lg) /\ getLastIndex(lg) \in Nat /\ lg \in Log
    BY LogParts, LogLast DEF WellFormed
  <1>2. SubSeq(<<>>, getLastIndex(lg) - prev + 1, Len(<<>>)) = <<>>
    <2> DEFINE from == getLastIndex(lg) - prev + 1
    <2>1. from \in Int /\ from > 0
      BY <1>1
    <2> HIDE DEF from
    <2>2. SubSeq(<<>>, from, 0) = <<>>
      BY <2>1
    <2>3. QED
      BY <2>2 DEF from
  <1>3. lg.Entries \o <<>> = lg.Entries
    BY <1>1 DEF Parts
  <1>4. [lg EXCEPT !.Entries = lg.Entries] = lg
    BY <1>1 DEF Log
  <1>5. ~(k <= Len(<<>>))
    OBVIOUS
  <1>6. QED
    BY <1>2, <1>3, <1>4, <1>5 DEF Merge

\* A handler that does not save changes neither the term nor the vote nor the log.
LEMMA HandlerSaves ==
    ASSUME TypeIInv, TypeIInv', DiskTypes, NEW m \in Pending, HandlerStep(m)
    PROVE  Saves(m.to)
  <1> DEFINE n == m.to
  <1>1. /\ n \in Server /\ m.term \in Nat /\ currentTerm[n] \in Nat /\ WellFormed(log[n])
        /\ DOMAIN currentTerm = Server /\ DOMAIN votedFor = Server /\ DOMAIN log = Server
    BY PendingGood DEF TypeIInv, ElectionTypes, LogTypes
  <1>2. persistState(n) => Saves(n)
    BY <1>1, PersistHolds DEF Saves
  <1>3. CASE HandleStale(m) /\ UNCHANGED disk
    BY <1>3 DEF HandleStale, electionVars, Saves
  <1>4. CASE handleRequestVote(m) /\ UNCHANGED disk /\ ~VoteSaves(n, m)
    <2>1. ~(m.term > currentTerm[n]) /\ m.term >= currentTerm[n]
      BY <1>4, NotStale DEF VoteSaves, handleRequestVote
    <2>2. m.term = currentTerm[n]
      BY <1>1, <2>1
    <2>3. /\ currentTerm' = [currentTerm EXCEPT ![n] = m.term]
          /\ votedFor' = [votedFor EXCEPT ![n] = @]
          /\ log' = log
      BY <1>4 DEF handleRequestVote, VoteSaves
    <2>4. QED
      BY <1>1, <1>4, <2>2, <2>3 DEF Saves
  <1>5. ASSUME AcceptLeader(m), ~StepsDown(n, m)
        PROVE  currentTerm'[n] = currentTerm[n] /\ votedFor'[n] = votedFor[n]
    <2>1. ~(m.term > currentTerm[n]) /\ m.term >= currentTerm[n]
      BY <1>5, NotStale DEF StepsDown, AcceptLeader
    <2>2. m.term = currentTerm[n]
      BY <1>1, <2>1
    <2>3. QED
      BY <1>1, <1>5, <2>2 DEF AcceptLeader
  <1>6. CASE RejectAppendEntries(m) /\ UNCHANGED disk /\ ~StepsDown(n, m)
    BY <1>5, <1>6 DEF RejectAppendEntries, Saves
  <1>7. CASE AcceptAppendEntries(m) /\ UNCHANGED disk /\ ~EntriesSave(n, m)
    <2>1. AcceptLeader(m) /\ ~StepsDown(n, m) /\ m.entries = <<>>
      BY <1>7 DEF AcceptAppendEntries, EntriesSave
    <2>2. m.prevLogIndex \in Nat /\ m.prevLogIndex <= getLastIndex(log[n])
      <3>1. m.prevLogIndex \in Nat
        BY <2>1, PendingGood DEF GoodMessage, Message, RequestVoteArgs, AppendEntriesArgs,
           InstallSnapshotArgs, AcceptLeader
      <3>2. getLastIndex(log[n]) \in Nat
        BY <1>1, LogLast
      <3>3. QED
        BY <1>7, <3>1, <3>2 DEF AcceptAppendEntries, EntryMissing
    <2>3. PICK k \in 1 .. Len(m.entries) + 1 :
              log' = [log EXCEPT ![n] = Merge(log[n], m.prevLogIndex, m.entries, k)]
      BY <1>7 DEF AcceptAppendEntries
    <2>4. k \in 1 .. 1
      BY <2>1
    <2>5. log'[n] = log[n]
      BY <1>1, <2>1, <2>2, <2>3, <2>4, NothingToMerge
    <2>6. QED
      BY <1>5, <1>7, <2>1, <2>5 DEF Saves
  <1>7a. (\/ HandleStale(m) /\ UNCHANGED disk
          \/ handleRequestVote(m) /\ (IF VoteSaves(n, m) THEN persistState(n) ELSE UNCHANGED disk)
          \/ RejectAppendEntries(m)
             /\ (IF StepsDown(n, m) THEN persistState(n) ELSE UNCHANGED disk)
          \/ AcceptAppendEntries(m)
             /\ (IF EntriesSave(n, m) THEN persistState(n) ELSE UNCHANGED disk)
          \/ handleInstallSnapshot(m) /\ persistState(n))
    BY DEF HandlerStep
  <1>8. QED
    BY <1>2, <1>3, <1>4, <1>6, <1>7, <1>7a

LEMMA HandlerRunsKeeps ==
    ASSUME RestartIInv, NEW m \in Pending, HandlerRuns(m)
    PROVE  RestartIInv'
  <1>1. Handle(m) /\ HandlerStep(m) /\ m.to \in Server /\ m.to \in Up /\ UNCHANGED life
    BY PendingGood DEF HandlerRuns, HandlerStep, Handle, Up, nodeLife, RestartIInv
  <1>2. TypeIInv /\ TypeIInv'
    BY <1>1, TypeStep DEF RestartIInv, Next
  <1>3. PICK up : up = Up
    OBVIOUS
  <1>4. up \in SUBSET Server /\ VoteInvOf(up) /\ WinsRememberedBy(up) /\ Elections /\ Up' = up
    BY <1>1, <1>3, IsUp DEF Up
  <1>5. VoteInvOf(up)' /\ WinsKept(up) /\ Elections'
    BY <1>1, <1>2, <1>3, <1>4, VoteInvHandler, ElectionInvHandler
  <1>6. VoteInvOf(Up)' /\ WinsRememberedBy(Up)'
    BY <1>4, <1>5, UpIs DEF WinsKept
  <1>7. \A k \in Server \ {m.to} : Untouched(k)
    BY <1>1, <1>2, HandlerTouches
  <1>8. Saves(m.to)
    BY <1>1, <1>2, HandlerSaves DEF RestartIInv
  <1>9. QED
    BY <1>1, <1>2, <1>5, <1>6, <1>7, <1>8, RunKeeps

----------------------------------------------------------------------------
\* A node stops: its memory is that of a node that was never built.
LEMMA StopsTypes ==
    ASSUME TypeIInv, NEW n \in Server, Stops(n)
    PROVE  TypeIInv'
  <1>1. ElectionTypes' /\ ThreadTypes'
    BY DEF Stops, TypeIInv, ElectionTypes, ThreadTypes, Role, Pc
  <1>2. LogTypes'
    <2>1. WellFormed(EmptyLog) /\ EmptyLog \in Log
      BY EmptyLogWellFormed DEF WellFormed
    <2>2. QED
      BY <2>1 DEF Stops, TypeIInv, LogTypes
  <1>3. StoreTypes'
    <2>1. {} \in Store /\ 0 \in Nat
      BY DEF Store
    <2>2. QED
      BY <2>1 DEF Stops, TypeIInv, StoreTypes, historyVars
  <1>4. LeaderTypes' /\ SnapshotTypes'
    <2>1. {} \in Store /\ 0 \in Nat /\ 1 \in Nat \ {0}
      BY DEF Store
    <2>2. QED
      BY <2>1 DEF Stops, TypeIInv, LeaderTypes, SnapshotTypes
  <1>5. ReplyTypes'
    BY DEF Stops, TypeIInv, ReplyTypes, ThreadTypes
  <1>6. LateTypes'
    BY RequestGood DEF Stops, TypeIInv, LateTypes
  <1>7. HistoryTypes'
    BY DEF Stops, TypeIInv, HistoryTypes, historyVars
  <1>8. BaseApplied'
    <2>1. EmptyLog.snapshotIndex = 0
      BY DEF EmptyLog
    <2>2. QED
      BY <2>1 DEF Stops, TypeIInv, BaseApplied, LogTypes, StoreTypes
  <1>9. QED
    BY <1>1, <1>2, <1>3, <1>4, <1>5, <1>6, <1>7, <1>8 DEF TypeIInv

\* What is left of a node that stops, and of the others.
LEMMA StopsLeaves ==
    ASSUME TypeIInv, DiskTypes, NEW n \in Server, Stops(n)
    PROVE  /\ Asleep(n)' /\ votesReceived'[n] = {}
           /\ \A k \in Server \ {n} : Untouched(k) /\ SameElection(k)
           /\ UNCHANGED <<granted, won, impostorTerms>>
           /\ n \in Up /\ n \in Durable /\ Up' = Up \ {n}
           /\ life' \in [Server -> {"up", "down", "dead"}]
  <1>1. Asleep(n)' /\ votesReceived'[n] = {}
    BY DEF Stops, Asleep, TypeIInv, ElectionTypes, LogTypes, ThreadTypes
  <1>2. \A k \in Server \ {n} : Untouched(k) /\ SameElection(k)
    BY DEF Stops, Untouched, SameElection, historyVars, TypeIInv, ElectionTypes, LogTypes,
           ThreadTypes, ReplyTypes
  <1>3. n \in Up /\ n \in Durable /\ Up' = Up \ {n}
    BY DEF Stops, Up, DiskTypes
  <1>4. life' \in [Server -> {"up", "down", "dead"}]
    BY DEF Stops, DiskTypes
  <1>5. QED
    BY <1>1, <1>2, <1>3, <1>4 DEF Stops, historyVars

LEMMA StopsVotes ==
    ASSUME RestartIInv, NEW n \in Server, Stops(n)
    PROVE  VoteInvOf(Up)' /\ WinsRememberedBy(Up)' /\ Elections'
  <1>1. TypeIInv /\ TypeIInv' /\ DiskTypes /\ Elections
    BY StopsTypes DEF RestartIInv
  <1>2. /\ currentTerm'[n] = 0 /\ votedFor'[n] = Nil /\ role'[n] = "FOLLOWER" /\ pc'[n] = "idle"
        /\ votesReceived'[n] = {}
    BY <1>1, StopsLeaves DEF Asleep
  <1>3. \A k \in Server \ {n} : Untouched(k) /\ SameElection(k)
    BY <1>1, StopsLeaves
  <1>4. UNCHANGED <<granted, won, impostorTerms>> /\ Up' = Up \ {n} /\ Up \subseteq Server
    BY <1>1, StopsLeaves DEF Up
  <1>5. VoteInvOf(Up)'
    <2>1. GrantsRememberedBy(Up)'
      <3>1. SUFFICES ASSUME NEW t \in Nat, NEW v \in Up', NEW c \in Server,
                            <<t, v, c>> \in granted'
                     PROVE  /\ c # v
                            /\ t <= currentTerm'[v]
                            /\ t = currentTerm'[v] => votedFor'[v] = c /\ role'[v] = "FOLLOWER"
        BY DEF GrantsRememberedBy
      <3>2. v \in Up /\ v \in Server \ {n} /\ <<t, v, c>> \in granted
        BY <1>4, <3>1
      <3>3. QED
        BY <1>3, <3>2 DEF RestartIInv, VoteInvOf, GrantsRememberedBy, Untouched
    <2>2. SelfVotes' /\ Campaigns'
      BY <1>2, <1>3 DEF RestartIInv, VoteInvOf, SelfVotes, Campaigns, Untouched
    <2>3. OneVote'
      BY <1>4 DEF RestartIInv, VoteInvOf, OneVote
    <2>4. QED
      BY <2>1, <2>2, <2>3 DEF VoteInvOf
  <1>6. WinsRememberedBy(Up)'
    <2>1. SUFFICES ASSUME NEW t \in Nat, NEW a \in Up', <<t, a>> \in won'
                   PROVE  /\ t <= currentTerm'[a]
                          /\ t = currentTerm'[a] /\ t \notin impostorTerms' => votedFor'[a] = a
      BY DEF WinsRememberedBy
    <2>2. a \in Up /\ a \in Server \ {n} /\ <<t, a>> \in won
      BY <1>4, <2>1
    <2>3. QED
      BY <1>3, <1>4, <2>2 DEF RestartIInv, WinsRememberedBy, Untouched
  <1>7. LeadersWon' /\ SendersWon'
    BY <1>1, <1>2, <1>3, <1>4 DEF Elections, LeadersWon, SendersWon, SentByWinner, Untouched
  <1>8. LateSendersWon'
    <2>1. CASE UNCHANGED late
      BY <1>1, <1>4, <2>1, LateSendersKept
    <2>2. CASE Waiting(n) /\ late' = late \cup {Request(n)}
      <3>1. Request(n) \in Pending
        BY <2>2 DEF Pending
      <3>2. Request(n).type # "RequestVote" => SentByWinner(Request(n).term, Request(n).from)
        BY <1>1, <3>1, PendingSender
      <3>3. QED
        BY <1>1, <1>4, <2>2, <3>2 DEF Elections, LateSendersWon, SentByWinner
    <2>3. QED
      BY <2>1, <2>2 DEF Stops
  <1>9. WinnersQuorum' /\ OneWinner' /\ WinnersStand'
    BY <1>1, <1>4, QuorumsKept, StandKept
  <1>10. VotesCounted'
    <2>1. VotesCountedAt(n)'
      BY <1>2 DEF VotesCountedAt
    <2>2. granted \subseteq granted' /\ \A k \in Server \ {n} : SameElection(k)
      BY <1>3, <1>4
    <2>3. QED
      BY <1>1, <2>1, <2>2, VotesCountedElsewhere
  <1>11. QED
    BY <1>5, <1>6, <1>7, <1>8, <1>9, <1>10 DEF Elections

\* A node that is up remembers its votes in its memory, and on disk, too.
LEMMA UpRemembers ==
    ASSUME RestartIInv, NEW n \in Up
    PROVE  Remembers(n, currentTerm[n], votedFor[n])
  BY DEF RestartIInv, VoteInvOf, GrantsRememberedBy, WinsRememberedBy, Remembers, Up

\* Only what is on disk matters then.
LEMMA StopKeeps ==
    ASSUME RestartIInv, NEW n \in Server, Stops(n),
           disk' \in [Server -> [state    : {NoFile, <<>>} \cup SavedFiles,
                                 snapshot : Store \cup {NoFile}]],
           \A k \in Server \ {n} : disk'[k] = disk[k],
           disk'[n].state # <<>> => Remembers(n, DiskTerm(n)', DiskVote(n)')
    PROVE  RestartIInv'
  <1>1. TypeIInv /\ TypeIInv' /\ DiskTypes
    BY StopsTypes DEF RestartIInv
  <1>2. /\ Asleep(n)' /\ UNCHANGED <<granted, won, impostorTerms>> /\ Up' = Up \ {n}
        /\ \A k \in Server \ {n} : Untouched(k)
        /\ life' \in [Server -> {"up", "down", "dead"}]
    BY <1>1, StopsLeaves
  <1>3. DownNodes'
    <2>1. ASSUME NEW k \in Server \ Up'
          PROVE  /\ Asleep(k)'
                 /\ disk'[k].state # <<>> => Remembers(k, DiskTerm(k), DiskVote(k))'
      <3>1. CASE k = n
        BY <1>2, <3>1 DEF Remembers
      <3>2. CASE k # n
        <4>1. k \in Server \ Up /\ Untouched(k) /\ disk'[k] = disk[k]
          BY <1>2, <2>1, <3>2
        <4>2. QED
          BY <4>1, DownKept DEF RestartIInv
      <3>3. QED
        BY <3>1, <3>2
    <2>2. QED
      BY <2>1 DEF DownNodes
  <1>4. ASSUME NEW k \in Durable, life'[k] = "up" PROVE CurrentAt(k)'
    <2>1. k \in Server /\ k \in Up /\ k # n
      BY <1>2, <1>4, RestartAssumption DEF Up
    <2>2. CurrentAt(k) /\ Untouched(k) /\ disk'[k] = disk[k]
      BY <1>2, <1>4, <2>1, CurrentAtAll DEF RestartIInv
    <2>3. QED
      BY <2>2, CurrentKept DEF Untouched
  <1>5. DiskIsCurrent'
    BY <1>4 DEF DiskIsCurrent, CurrentAt
  <1>6. QED
    BY <1>1, <1>2, <1>3, <1>5, StopsVotes DEF RestartIInv, DiskTypes

\* A stop after a save of a term and a vote that remember.
LEMMA StopWithSave ==
    ASSUME RestartIInv, NEW n \in Server, Stops(n), NEW lg, WellFormed(lg),
           NEW t \in Nat, NEW x \in Server \cup {Nil}, SavesTo(n, t, x, lg),
           Remembers(n, t, x)
    PROVE  RestartIInv'
  <1>1. n \in Durable /\ disk'[n].state = StateFile(t, x, lg)
    BY DEF Stops, SavesTo
  <1> DEFINE file == StateFile(t, x, lg)
  <1>2. file # NoFile /\ FileHolds(file, t, x, lg)
    BY SavedFileHolds
  <1> HIDE DEF file
  <1>3. disk'[n].state = file /\ file[1] = t /\ file[2] = x
    BY <1>1, <1>2 DEF FileHolds, file
  <1>4. DiskTerm(n)' = t /\ DiskVote(n)' = x
    BY <1>2, <1>3 DEF DiskTerm, DiskVote
  <1>5. QED
    BY <1>4, StopKeeps DEF SavesTo

\* What a node that may stop has in memory.
LEMMA Memory ==
    ASSUME RestartIInv, NEW n \in Server, n \in Up
    PROVE  /\ currentTerm[n] \in Nat /\ votedFor[n] \in Server \cup {Nil}
           /\ WellFormed(log[n]) /\ snapshotData[n] \in Store
           /\ Remembers(n, currentTerm[n], votedFor[n])
           /\ n \in Durable => CurrentAt(n)
           /\ disk[n] \in [state : {NoFile, <<>>} \cup SavedFiles, snapshot : Store \cup {NoFile}]
  BY UpRemembers, CurrentAtAll
     DEF RestartIInv, TypeIInv, ElectionTypes, LogTypes, SnapshotTypes, DiskTypes

LEMMA StopsUp ==
    ASSUME RestartIInv, NEW n \in Server, Stops(n)
    PROVE  n \in Up /\ n \in Durable
  BY DEF Stops, Up

LEMMA ShutdownKeeps ==
    ASSUME RestartIInv, NEW n \in Server, Shutdown(n)
    PROVE  RestartIInv'
  <1> DEFINE t == currentTerm[n]
             x == votedFor[n]
             lg == log[n]
             data == snapshotData[n]
  <1>1. Stops(n) /\ disk' = [disk EXCEPT ![n] = Saved(n, t, x, lg, data)]
    BY DEF Shutdown, SavedNow
  <1>2. /\ t \in Nat /\ x \in Server \cup {Nil} /\ WellFormed(lg) /\ data \in Store
        /\ Remembers(n, t, x) /\ DiskTypes
    BY <1>1, StopsUp, Memory DEF RestartIInv
  <1> HIDE DEF t, x, lg, data
  <1>3. SavesTo(n, t, x, lg)
    BY <1>1, <1>2, SavedWrites
  <1>4. QED
    BY <1>1, <1>2, <1>3, StopWithSave

LEMMA CrashKeeps ==
    ASSUME RestartIInv, NEW n \in Server, Crash(n)
    PROVE  RestartIInv'
  <1>1. Stops(n) /\ disk' = disk
    BY DEF Crash
  <1>2. Remembers(n, currentTerm[n], votedFor[n]) /\ CurrentAt(n) /\ DiskTypes
    BY <1>1, StopsUp, Memory DEF RestartIInv
  <1>3. DiskTerm(n)' = currentTerm[n] /\ DiskVote(n)' = votedFor[n]
    BY <1>1, <1>2, CurrentDisk DEF DiskTerm, DiskVote
  <1>4. QED
    BY <1>1, <1>2, <1>3, StopKeeps DEF DiskTypes

\* Between the two saves of a handler the vote is not there: either the term is
\* new, or the node was no follower and gave its vote to no other node; and if
\* it led, the request it follows is an impostor's.
LEMMA CrashInHandlerKeeps ==
    ASSUME RestartIInv, NEW m \in Pending, CrashInHandler(m)
    PROVE  RestartIInv'
  <1> DEFINE n == m.to
             t == m.term
             lg == log[n]
             data == snapshotData[n]
  <1>1. Stops(n) /\ disk' = [disk EXCEPT ![n] = Saved(n, t, Nil, lg, data)]
    BY DEF CrashInHandler
  <1>2. /\ n \in Server /\ t \in Nat /\ m.from \in Server /\ m.from # n
        /\ TypeIInv /\ Elections /\ DiskTypes
    BY PendingGood DEF GoodMessage, RestartIInv
  <1>3. n \in Up
    BY <1>1, <1>2, StopsUp
  <1>4. /\ currentTerm[n] \in Nat /\ WellFormed(lg) /\ data \in Store
        /\ Remembers(n, currentTerm[n], votedFor[n])
    BY <1>2, <1>3, Memory
  <1>5. \/ t > currentTerm[n]
        \/ t = currentTerm[n] /\ role[n] # "FOLLOWER" /\ m.type = "AppendEntries"
    <2>1. t >= currentTerm[n]
      BY <1>2, NotStale DEF CrashInHandler
    <2>2. t > currentTerm[n] \/ (m.type = "AppendEntries" /\ StepsDown(n, m))
      BY DEF CrashInHandler
    <2>3. QED
      BY <1>2, <1>4, <2>1, <2>2 DEF StepsDown
  <1>6. ASSUME NEW s \in Nat, NEW c \in Server, <<s, n, c>> \in granted
        PROVE  c # n /\ s <= t /\ s # t
    <2>1. c # n /\ s <= currentTerm[n]
      BY <1>4, <1>6 DEF Remembers
    <2>2. s = currentTerm[n] => role[n] = "FOLLOWER"
      BY <1>2, <1>3, <1>6 DEF RestartIInv, VoteInvOf, GrantsRememberedBy
    <2>3. QED
      BY <1>2, <1>4, <1>5, <2>1, <2>2
  <1>7. ASSUME NEW s \in Nat, <<s, n>> \in won
        PROVE  s <= t /\ (s = t => s \in impostorTerms)
    <2>1. s <= currentTerm[n]
      BY <1>4, <1>7 DEF Remembers
    <2>2. ASSUME s = t PROVE s \in impostorTerms
      <3>1. m.type # "RequestVote"
        BY <1>2, <1>4, <1>5, <2>1, <2>2
      <3>2. <<s, m.from>> \in won \/ s \in impostorTerms
        BY <1>2, <2>2, <3>1, PendingSender DEF SentByWinner
      <3>3. QED
        BY <1>2, <1>7, <3>2 DEF Elections, OneWinner
    <2>3. s <= t
      BY <1>2, <1>4, <1>5, <2>1
    <2>4. QED
      BY <2>2, <2>3
  <1>8. Remembers(n, t, Nil)
    BY <1>6, <1>7 DEF Remembers
  <1> HIDE DEF n, t, lg, data
  <1>9. SavesTo(n, t, Nil, lg)
    BY <1>1, <1>2, <1>4, SavedWrites
  <1>10. QED
    BY <1>1, <1>2, <1>4, <1>8, <1>9, StopWithSave

LEMMA CrashInStateFileKeeps ==
    ASSUME RestartIInv, NEW n \in Server, CrashInStateFile(n)
    PROVE  RestartIInv'
  <1>1. Stops(n) /\ disk' = [disk EXCEPT ![n].state = <<>>] /\ DiskTypes
    BY DEF CrashInStateFile, RestartIInv
  <1>2. disk'[n].state = <<>>
    BY <1>1 DEF DiskTypes
  <1>3. disk' \in [Server -> [state    : {NoFile, <<>>} \cup SavedFiles,
                              snapshot : Store \cup {NoFile}]]
    BY <1>1 DEF DiskTypes
  <1>4. \A k \in Server \ {n} : disk'[k] = disk[k]
    BY <1>1 DEF DiskTypes
  <1>5. QED
    BY <1>1, <1>2, <1>3, <1>4, StopKeeps

\* A state file that is written next to a snapshot file that is not.
LEMMA WrittenWith ==
    ASSUME DiskTypes, NEW n \in Server, NEW lg, WellFormed(lg), NEW t \in Nat,
           NEW x \in Server \cup {Nil}, NEW s \in Store \cup {NoFile},
           disk' = [disk EXCEPT ![n] = [state |-> StateFile(t, x, lg), snapshot |-> s]]
    PROVE  SavesTo(n, t, x, lg)
  <1>1. StateFile(t, x, lg) \in SavedFiles
    BY SavedFileHolds
  <1> DEFINE file == StateFile(t, x, lg)
  <1> HIDE DEF file
  <1>2. QED
    BY <1>1 DEF DiskTypes, SavesTo, file

LEMMA CrashInSnapshotFileKeeps ==
    ASSUME RestartIInv, NEW n \in Server, CrashInSnapshotFile(n)
    PROVE  RestartIInv'
  <1> DEFINE t == currentTerm[n]
             x == votedFor[n]
             lg == log[n]
  <1>1. Stops(n) /\ n \in Durable /\ DiskTypes
    BY StopsUp DEF CrashInSnapshotFile, RestartIInv
  <1>2. disk' = [disk EXCEPT ![n] = [state |-> StateFile(t, x, lg), snapshot |-> NoFile]]
    <2> DEFINE file == StateFile(t, x, lg)
    <2>1. disk' = [disk EXCEPT ![n] = [SavedNow(n) EXCEPT !.snapshot = NoFile]]
      BY DEF CrashInSnapshotFile
    <2>2. PICK s : SavedNow(n) = [state |-> file, snapshot |-> s]
      BY <1>1 DEF SavedNow, Saved
    <2> HIDE DEF file
    <2>3. [SavedNow(n) EXCEPT !.snapshot = NoFile] = [state |-> file, snapshot |-> NoFile]
      BY <2>2
    <2>4. QED
      BY <2>1, <2>3 DEF file
  <1>3. t \in Nat /\ x \in Server \cup {Nil} /\ WellFormed(lg) /\ Remembers(n, t, x)
    BY <1>1, StopsUp, Memory
  <1> HIDE DEF t, x, lg
  <1>4. NoFile \in Store \cup {NoFile}
    OBVIOUS
  <1>5. SavesTo(n, t, x, lg)
    BY <1>1, <1>2, <1>3, <1>4, WrittenWith
  <1>6. QED
    BY <1>1, <1>3, <1>5, StopWithSave

LEMMA CrashBetweenFilesKeeps ==
    ASSUME RestartIInv, NEW n \in Server, CrashBetweenFiles(n)
    PROVE  RestartIInv'
  <1> DEFINE t == currentTerm[n]
             x == votedFor[n]
             index == SnapshotPoint(n)
             lg == discardEntriesUpTo(log[n], index, getTerm(log[n], index))
             s == disk[n].snapshot
  <1>1. Stops(n) /\ DiskTypes /\ disk' = [disk EXCEPT ![n].state = StateFile(t, x, lg)]
    BY DEF CrashBetweenFiles, RestartIInv
  <1>2. /\ t \in Nat /\ x \in Server \cup {Nil} /\ WellFormed(log[n]) /\ Remembers(n, t, x)
        /\ disk[n] \in [state : {NoFile, <<>>} \cup SavedFiles, snapshot : Store \cup {NoFile}]
    BY <1>1, StopsUp, Memory
  <1>3. WellFormed(lg)
    <2>1. index \in Nat
      BY DEF RestartIInv, TypeIInv, StoreTypes, SnapshotPoint
    <2>2. getTerm(log[n], index) \in Nat
      BY <1>2, <2>1, LogGetTerm
    <2> HIDE DEF index
    <2>3. QED
      BY <1>2, <2>1, <2>2, DiscardWellFormed
  <1> HIDE DEF t, x, lg
  <1>4. disk' = [disk EXCEPT ![n] = [state |-> StateFile(t, x, lg), snapshot |-> s]]
        /\ s \in Store \cup {NoFile}
    <2> DEFINE file == StateFile(t, x, lg)
    <2> HIDE DEF file
    <2>1. disk' = [disk EXCEPT ![n].state = file]
      BY <1>1 DEF file
    <2>2. [disk[n] EXCEPT !.state = file] = [state |-> file, snapshot |-> s]
      BY <1>2
    <2>3. disk' = [disk EXCEPT ![n] = [state |-> file, snapshot |-> s]]
      BY <2>1, <2>2
    <2>4. QED
      BY <1>2, <2>3 DEF file
  <1> HIDE DEF s
  <1>5. SavesTo(n, t, x, lg)
    BY <1>1, <1>2, <1>3, <1>4, WrittenWith
  <1>6. QED
    BY <1>1, <1>2, <1>3, <1>5, StopWithSave

\* A snapshot that raises the term takes the vote away, and the votes given so far
\* are of earlier terms.
LEMMA CrashInInstallKeeps ==
    ASSUME RestartIInv, NEW m \in Pending, CrashInInstall(m)
    PROVE  RestartIInv'
  <1> DEFINE n == m.to
             t == m.term
             x == IF m.term > currentTerm[n] THEN Nil ELSE votedFor[n]
             lg == discardEntriesUpTo(log[n], m.lastIncludedIndex, m.lastIncludedTerm)
             s == disk[n].snapshot
  <1>1. Stops(n) /\ DiskTypes /\ disk' = [disk EXCEPT ![n].state = StateFile(t, x, lg)]
    BY DEF CrashInInstall, RestartIInv
  <1>2. n \in Server /\ t \in Nat /\ m.lastIncludedIndex \in Nat /\ m.lastIncludedTerm \in Nat
    <2>1. m.type = "InstallSnapshot"
      BY DEF CrashInInstall
    <2>2. QED
      BY <2>1, PendingGood DEF GoodMessage, Message, RequestVoteArgs, AppendEntriesArgs,
                               InstallSnapshotArgs, RestartIInv
  <1>3. /\ currentTerm[n] \in Nat /\ votedFor[n] \in Server \cup {Nil} /\ WellFormed(log[n])
        /\ Remembers(n, currentTerm[n], votedFor[n])
        /\ disk[n] \in [state : {NoFile, <<>>} \cup SavedFiles, snapshot : Store \cup {NoFile}]
    BY <1>1, <1>2, StopsUp, Memory
  <1>4. t >= currentTerm[n]
    BY <1>2, NotStale DEF CrashInInstall, RestartIInv
  <1>5. x \in Server \cup {Nil}
    BY <1>3
  <1>6. Remembers(n, t, x)
    <2>1. CASE t = currentTerm[n]
      BY <1>3, <2>1
    <2>2. CASE t > currentTerm[n]
      BY <1>2, <1>3, <2>2 DEF Remembers
    <2>3. QED
      BY <1>2, <1>3, <1>4, <2>1, <2>2
  <1>7. WellFormed(lg)
    BY <1>2, <1>3, DiscardWellFormed
  <1> HIDE DEF n, t, x, lg
  <1>8. disk' = [disk EXCEPT ![n] = [state |-> StateFile(t, x, lg), snapshot |-> s]]
        /\ s \in Store \cup {NoFile}
    <2> DEFINE file == StateFile(t, x, lg)
    <2> HIDE DEF file
    <2>1. disk' = [disk EXCEPT ![n].state = file]
      BY <1>1 DEF file
    <2>2. [disk[n] EXCEPT !.state = file] = [state |-> file, snapshot |-> s]
      BY <1>3
    <2>3. disk' = [disk EXCEPT ![n] = [state |-> file, snapshot |-> s]]
      BY <2>1, <2>2
    <2>4. QED
      BY <1>3, <2>3 DEF file
  <1> HIDE DEF s
  <1>9. SavesTo(n, t, x, lg)
    BY <1>1, <1>2, <1>5, <1>7, <1>8, WrittenWith
  <1>10. QED
    BY <1>1, <1>2, <1>5, <1>6, <1>7, <1>9, StopWithSave

----------------------------------------------------------------------------
\* A node is built again.

\* What the file of a node that can be restored holds: an empty log, since the
\* entries do not fit onto the log that has them.
LEMMA RestoredHolds ==
    ASSUME DiskTypes, NEW n \in Server, disk[n].state # NoFile, CanRestore(n)
    PROVE  /\ disk[n].state # <<>>
           /\ disk[n].state[1] \in Nat /\ RestoredVote(n) \in Server \cup {Nil}
           /\ disk[n].state[3] \in Nat
           /\ LoadedTwice(n).log = EmptyLog
           /\ LET file == disk[n].state
                  data == serializeLog(EmptyLog)
              IN  SubSeq(file, LogSize, Len(file)) = <<Len(data)>> \o data
  <1> DEFINE file == disk[n].state
  <1>1. disk[n] \in [state : {NoFile, <<>>} \cup SavedFiles, snapshot : Store \cup {NoFile}]
    BY DEF DiskTypes
  <1>2. file # <<>>
    BY DEF CanRestore, IsComplete, LogSize
  <1>3. PICK t \in Nat, x \in Server \cup {Nil}, lg \in {l \in Log : WellFormed(l)} :
            file = StateFile(t, x, lg)
    BY <1>1, <1>2 DEF SavedFiles
  <1>4. WellFormed(lg) /\ CommandsFit
    BY RestartAssumption
  <1>5. FileHolds(file, t, x, lg)
    BY <1>3, <1>4, SavedFileHolds
  <1> DEFINE data == serializeLog(lg)
             first == deserializeLog(data, EmptyLog)
             second == deserializeLog(data, first.log)
  <1>6. \A y : LogRead(file, y) = deserializeLog(data, y)
    BY <1>5 DEF FileHolds
  <1>7. first.ok /\ second.ok /\ LoadedTwice(n) = second
    <2>1. LogRead(file, EmptyLog) = first /\ LogRead(file, first.log) = second
      BY <1>6
    <2> HIDE DEF first, second
    <2>2. LoadedTwice(n) = IF first.ok THEN second ELSE first
      BY <2>1 DEF LoadedTwice
    <2>3. LoadedTwice(n).ok
      BY DEF CanRestore
    <2>4. QED
      BY <2>2, <2>3
  <1>8. data = <<0>> /\ second.log = EmptyLog
    BY <1>4, <1>7, OnlyEmptyReadsTwice
  <1>9. serializeLog(EmptyLog) = <<0>>
    <2>1. WellFormed(EmptyLog)
      BY EmptyLogWellFormed
    <2>2. getLastIndex(EmptyLog) = 0 /\ EmptyLog.snapshotIndex = 0
      BY DEF getLastIndex, EmptyLog, Size, Sentinel
    <2> DEFINE es == SavedEntries(EmptyLog)
    <2>3. Len(es) = 0 /\ \E d : FileBytes(d, EmptyLog)
      <3>1. Len(es) = getLastIndex(EmptyLog) - EmptyLog.snapshotIndex
        BY <1>4, <2>1, SerializeLogWrites
      <3>2. QED
        BY <1>4, <2>1, <2>2, <3>1, SerializeLogWrites
    <2>4. PICK d : FileBytes(d, EmptyLog)
      BY <2>3
    <2>5. /\ d[0] = <<getLastIndex(EmptyLog) - EmptyLog.snapshotIndex>>
          /\ serializeLog(EmptyLog) = d[Len(es)]
      BY <2>4 DEF FileBytes
    <2> HIDE DEF es
    <2>6. serializeLog(EmptyLog) = <<getLastIndex(EmptyLog) - EmptyLog.snapshotIndex>>
      BY <2>3, <2>5
    <2>7. QED
      BY <2>2, <2>6
  <1>10. /\ file[1] = t /\ file[2] = x /\ file[3] = lg.snapshotIndex
         /\ SubSeq(file, LogSize, Len(file)) = <<Len(data)>> \o data
    BY <1>5 DEF FileHolds
  <1>11. lg.snapshotIndex \in Nat
    BY <1>4, LogParts DEF Parts
  <1> HIDE DEF data, first, second
  <1>12. QED
    BY <1>2, <1>7, <1>8, <1>9, <1>10, <1>11 DEF RestoredVote

\* A node comes up with a term and a vote that remember.
LEMMA UpAgain ==
    ASSUME RestartIInv, NEW n \in Server \ Up, TypeIInv', UNCHANGED disk,
           life' = [life EXCEPT ![n] = "up"],
           \A k \in Server \ {n} : Untouched(k),
           UNCHANGED <<role, pc, votesReceived, reply, todo, late, granted, won, impostorTerms>>,
           CurrentAt(n)', disk[n].state # <<>>
    PROVE  RestartIInv'
  <1>1. TypeIInv /\ DiskTypes /\ Elections /\ DiskTypes'
    BY DEF RestartIInv, DiskTypes
  <1>2. Up' = Up \cup {n} /\ Up \subseteq Server /\ n \in Server
    BY <1>1 DEF Up, DiskTypes
  <1>3. /\ role[n] = "FOLLOWER" /\ pc[n] = "idle"
        /\ Remembers(n, DiskTerm(n), DiskVote(n))
    BY DEF RestartIInv, DownNodes, Asleep
  <1>4. Remembers(n, currentTerm'[n], votedFor'[n])
    <2>1. DiskTerm(n) = DiskTerm(n)' /\ DiskVote(n) = DiskVote(n)'
      BY DEF DiskTerm, DiskVote
    <2>2. DiskTerm(n)' = currentTerm'[n] /\ DiskVote(n)' = votedFor'[n]
      BY DEF CurrentAt, DiskTerm, DiskVote
    <2>3. QED
      BY <1>3, <2>1, <2>2
  <1>5. GrantsRememberedBy(Up)'
    <2>1. SUFFICES ASSUME NEW t \in Nat, NEW v \in Up', NEW c \in Server,
                          <<t, v, c>> \in granted
                   PROVE  /\ c # v
                          /\ t <= currentTerm'[v]
                          /\ t = currentTerm'[v] => votedFor'[v] = c /\ role'[v] = "FOLLOWER"
      BY DEF GrantsRememberedBy
    <2>2. CASE v = n
      BY <1>3, <1>4, <2>1, <2>2 DEF Remembers
    <2>3. CASE v # n
      <3>1. v \in Up /\ v \in Server \ {n}
        BY <1>2, <2>1, <2>3
      <3>2. QED
        BY <2>1, <3>1 DEF RestartIInv, VoteInvOf, GrantsRememberedBy, Untouched
    <2>4. QED
      BY <2>2, <2>3
  <1>6. SelfVotes' /\ Campaigns' /\ OneVote'
    BY <1>3 DEF RestartIInv, VoteInvOf, SelfVotes, Campaigns, OneVote, Untouched
  <1>7. WinsRememberedBy(Up)'
    <2>1. SUFFICES ASSUME NEW t \in Nat, NEW a \in Up', <<t, a>> \in won
                   PROVE  /\ t <= currentTerm'[a]
                          /\ t = currentTerm'[a] /\ t \notin impostorTerms => votedFor'[a] = a
      BY DEF WinsRememberedBy
    <2>2. CASE a = n
      BY <1>4, <2>1, <2>2 DEF Remembers
    <2>3. CASE a # n
      <3>1. a \in Up /\ a \in Server \ {n}
        BY <1>2, <2>1, <2>3
      <3>2. QED
        BY <2>1, <3>1 DEF RestartIInv, WinsRememberedBy, Untouched
    <2>4. QED
      BY <2>2, <2>3
  <1>8. Elections'
    <2>1. LeadersWon' /\ SendersWon' /\ LateSendersWon'
      BY <1>1, <1>3 DEF Elections, LeadersWon, SendersWon, LateSendersWon, SentByWinner, Untouched
    <2>2. WinnersQuorum' /\ OneWinner' /\ WinnersStand'
      BY <1>1, QuorumsKept, StandKept
    <2>3. VotesCounted'
      <3>1. VotesCountedAt(n)'
        BY <1>1, <1>3 DEF Elections, VotesCounted, VotesCountedAt
      <3>2. \A k \in Server \ {n} : SameElection(k)
        BY DEF Untouched, SameElection
      <3>3. QED
        BY <1>1, <1>2, <3>1, <3>2, VotesCountedElsewhere
    <2>4. QED
      BY <2>1, <2>2, <2>3 DEF Elections
  <1>9. DownNodes'
    <2>1. ASSUME NEW k \in Server \ Up'
          PROVE  /\ Asleep(k)'
                 /\ disk'[k].state # <<>> => Remembers(k, DiskTerm(k), DiskVote(k))'
      <3>1. k \in Server \ Up /\ Untouched(k) /\ disk'[k] = disk[k]
        BY <1>2, <2>1
      <3>2. QED
        BY <3>1, DownKept DEF RestartIInv
    <2>2. QED
      BY <2>1 DEF DownNodes
  <1>10. ASSUME NEW k \in Durable, life'[k] = "up" PROVE CurrentAt(k)'
    <2>1. CASE k # n
      <3>1. k \in Up /\ k \in Server \ {n} /\ CurrentAt(k)
        BY <1>2, <1>10, <2>1, CurrentAtAll, RestartAssumption DEF Up, RestartIInv
      <3>2. QED
        BY <3>1, CurrentKept DEF Untouched
    <2>2. QED
      BY <2>1
  <1>11. DiskIsCurrent'
    BY <1>10 DEF DiskIsCurrent, CurrentAt
  <1>12. QED
    BY <1>1, <1>5, <1>6, <1>7, <1>8, <1>9, <1>11 DEF RestartIInv, VoteInvOf

LEMMA StartNewKeeps ==
    ASSUME RestartIInv, NEW n \in Server, StartNew(n)
    PROVE  RestartIInv'
  <1>1. n \in Server \ Up /\ Asleep(n)
    BY DEF StartNew, Up, RestartIInv, DownNodes
  <1>2. UNCHANGED vars
    BY DEF StartNew
  <1>3. TypeIInv'
    BY <1>2, TypeStep DEF RestartIInv
  <1>4. /\ \A k \in Server \ {n} : Untouched(k)
        /\ UNCHANGED <<role, pc, votesReceived, reply, todo, late, granted, won, impostorTerms>>
        /\ UNCHANGED <<currentTerm, votedFor, log>>
    BY <1>2 DEF vars, electionVars, threadVars, historyVars, Untouched
  <1>5. CurrentAt(n)'
    BY <1>1, <1>4 DEF StartNew, CurrentAt, Asleep
  <1>6. disk[n].state # <<>>
    <2>1. <<>> \in Seq(Nat \cup Server \cup {Nil})
      OBVIOUS
    <2>2. QED
      BY <2>1, RestartAssumption DEF StartNew
  <1>7. QED
    BY <1>1, <1>3, <1>4, <1>5, <1>6, UpAgain DEF StartNew

LEMMA RestoreKeeps ==
    ASSUME RestartIInv, NEW n \in Server, Restore(n)
    PROVE  RestartIInv'
  <1>1. n \in Server \ Up /\ Asleep(n) /\ TypeIInv /\ DiskTypes
    BY DEF Restore, Up, RestartIInv, DownNodes
  <1> DEFINE file == disk[n].state
             snapshot == disk[n].snapshot
  <1>2. /\ file # <<>> /\ file # NoFile
        /\ file[1] \in Nat /\ RestoredVote(n) \in Server \cup {Nil} /\ file[3] \in Nat
        /\ LoadedTwice(n).log = EmptyLog
        /\ SubSeq(file, LogSize, Len(file)) =
              <<Len(serializeLog(EmptyLog))>> \o serializeLog(EmptyLog)
    BY <1>1, RestoredHolds DEF Restore
  <1>3. snapshot \in Store \cup {NoFile}
    BY <1>1 DEF DiskTypes
  <1>4. /\ currentTerm' = [currentTerm EXCEPT ![n] = file[1]]
        /\ votedFor' = [votedFor EXCEPT ![n] = RestoredVote(n)]
        /\ log' = [log EXCEPT ![n] = EmptyLog]
        /\ UNCHANGED <<role, currentLeaderId, lastAppliedSeq, leaderVars, snapshotIndex,
                       snapshotTerm, threadVars, reply, late, historyVars, disk>>
    BY <1>2 DEF Restore
  <1>5. \/ UNCHANGED <<snapshotData, kvStore, lastApplied, commitIndex>>
        \/ /\ snapshot \in Store
           /\ snapshotData' = [snapshotData EXCEPT ![n] = snapshot]
           /\ kvStore' = [kvStore EXCEPT ![n] = snapshot]
           /\ lastApplied' = [lastApplied EXCEPT ![n] = file[3]]
           /\ commitIndex' = [commitIndex EXCEPT ![n] = file[3]]
    BY <1>3 DEF Restore
  <1> DEFINE index == file[3]
  <1>6. index \in Nat
    BY <1>2
  <1> DEFINE term == file[1]
             vote == RestoredVote(n)
  <1>7. term \in Nat /\ vote \in Server \cup {Nil} /\ file[1] = term /\ file[2] = vote
    BY <1>2 DEF RestoredVote
  <1> HIDE DEF file, snapshot, index, term, vote
  <1>8. TypeIInv'
    <2>1. ElectionTypes'
      BY <1>1, <1>4, <1>7 DEF TypeIInv, ElectionTypes, term, vote
    <2>2. LogTypes'
      <3>1. WellFormed(EmptyLog) /\ EmptyLog \in Log
        BY EmptyLogWellFormed DEF WellFormed
      <3>2. QED
        BY <1>1, <1>4, <3>1 DEF TypeIInv, LogTypes
    <2>3. StoreTypes' /\ SnapshotTypes'
      BY <1>1, <1>4, <1>5, <1>6 DEF TypeIInv, StoreTypes, SnapshotTypes, historyVars, index
    <2>4. LeaderTypes' /\ ThreadTypes' /\ ReplyTypes' /\ LateTypes' /\ HistoryTypes'
      <3>1. UNCHANGED <<leaderVars, threadVars, reply, todo, late, granted, won, impostorTerms, led>>
        BY <1>4 DEF threadVars, historyVars
      <3>2. QED
        BY <1>1, <3>1, LeaderKept, ThreadKept, ReplyKept, LateKept, HistoryKept DEF TypeIInv
    <2>5. BaseApplied'
      <3>1. EmptyLog.snapshotIndex = 0
        BY DEF EmptyLog
      <3>2. QED
        BY <1>1, <1>4, <1>5, <1>6, <3>1
           DEF TypeIInv, BaseApplied, LogTypes, StoreTypes, index
    <2>6. QED
      BY <2>1, <2>2, <2>3, <2>4, <2>5 DEF TypeIInv
  <1>9. /\ \A k \in Server \ {n} : Untouched(k)
        /\ UNCHANGED <<role, pc, votesReceived, reply, todo, late, granted, won, impostorTerms>>
    BY <1>1, <1>4 DEF threadVars, historyVars, Untouched, TypeIInv, ElectionTypes, LogTypes
  <1>10. CurrentAt(n)'
    <2>1. /\ currentTerm'[n] = term /\ votedFor'[n] = vote /\ log'[n] = EmptyLog
          /\ disk'[n].state = file
      BY <1>1, <1>4 DEF TypeIInv, ElectionTypes, LogTypes, term, vote, file
    <2>2. QED
      BY <1>2, <1>7, <2>1 DEF CurrentAt
  <1>11. disk[n].state # <<>>
    BY <1>2 DEF file
  <1>12. QED
    BY <1>1, <1>4, <1>8, <1>9, <1>10, <1>11, UpAgain DEF Restore

LEMMA SameUpKeeps ==
    ASSUME RestartIInv, UNCHANGED vars, UNCHANGED disk, DiskTypes', Up' = Up
    PROVE  RestartIInv'
  <1>1. TypeIInv'
    BY TypeStep DEF RestartIInv
  <1>2. UNCHANGED <<currentTerm, votedFor, role, pc, votesReceived, reply, todo, late, log,
                    granted, won, impostorTerms>>
    BY DEF vars, electionVars, threadVars, historyVars
  <1>3. PICK up : up = Up
    OBVIOUS
  <1>4. up \in SUBSET Server /\ VoteInvOf(up) /\ WinsRememberedBy(up) /\ Elections /\ Up' = up
    BY <1>3, IsUp
  <1>5. VoteInvOf(up)' /\ WinsKept(up) /\ Elections'
    BY <1>2, <1>4, VoteInvKept, ElectionInvKept
  <1>6. VoteInvOf(Up)' /\ WinsRememberedBy(Up)'
    BY <1>4, <1>5, UpIs DEF WinsKept
  <1>7. \A k : Untouched(k) /\ disk'[k] = disk[k]
    BY <1>2 DEF Untouched
  <1>8. DownNodes'
    <2>1. ASSUME NEW k \in Server \ Up
          PROVE  /\ Asleep(k)'
                 /\ disk'[k].state # <<>> => Remembers(k, DiskTerm(k), DiskVote(k))'
      BY <1>7, DownKept DEF RestartIInv
    <2>2. QED
      BY <2>1 DEF DownNodes
  <1>9. DiskIsCurrent'
    <2>1. ASSUME NEW k \in Durable, life'[k] = "up" PROVE CurrentAt(k)'
      <3>1. k \in Up
        BY <2>1, RestartAssumption DEF Up
      <3>2. CurrentAt(k)
        BY <3>1, CurrentAtAll DEF RestartIInv
      <3>3. QED
        BY <1>2, <3>2, CurrentKept
    <2>2. QED
      BY <2>1 DEF DiskIsCurrent, CurrentAt
  <1>10. QED
    BY <1>1, <1>5, <1>6, <1>8, <1>9 DEF RestartIInv

LEMMA RestoreThrowsKeeps ==
    ASSUME RestartIInv, NEW n \in Server, RestoreThrows(n)
    PROVE  RestartIInv'
  <1>1. Up' = Up /\ DiskTypes'
    BY DEF RestoreThrows, Up, RestartIInv, DiskTypes
  <1>2. QED
    BY <1>1, SameUpKeeps DEF RestoreThrows

----------------------------------------------------------------------------
LEMMA RestartStutters ==
    ASSUME RestartIInv, UNCHANGED restartVars
    PROVE  RestartIInv'
  <1>1. Up' = Up /\ DiskTypes'
    BY DEF restartVars, nodeLife, Up, RestartIInv, DiskTypes
  <1>2. QED
    BY <1>1, SameUpKeeps DEF restartVars

LEMMA RestartIInvInit == RestartInit => RestartIInv
  <1> SUFFICES ASSUME RestartInit PROVE RestartIInv
    OBVIOUS
  <1>1. TypeIInv /\ VoteInv /\ ElectionInv /\ Init
    BY TypeInit, VoteInvInit, ElectionInvInit DEF RestartInit
  <1>2. Up = Server
    BY DEF RestartInit, Up
  <1>3. VoteInvOf(Up)
    BY <1>1, <1>2, VoteInvOfAll
  <1>4. WinsRememberedBy(Up)
    BY <1>1 DEF Init, WinsRememberedBy
  <1>5. DiskTypes /\ DiskIsCurrent
    BY <1>1, RestartAssumption DEF RestartInit, DiskTypes, NoFiles, DiskIsCurrent, Init
  <1>6. DownNodes
    BY <1>2 DEF DownNodes
  <1>7. QED
    BY <1>1, <1>3, <1>4, <1>5, <1>6 DEF RestartIInv, ElectionInv

LEMMA RestartIInvNext == RestartIInv /\ [RestartNext]_restartVars => RestartIInv'
  <1> SUFFICES ASSUME RestartIInv, [RestartNext]_restartVars PROVE RestartIInv'
    OBVIOUS
  <1>1. ASSUME NEW n \in Server, NodeRuns(n) PROVE RestartIInv'
    BY <1>1, NodeRunsKeeps
  <1>2. ASSUME NEW m \in Pending, HandlerRuns(m) PROVE RestartIInv'
    BY <1>2, HandlerRunsKeeps
  <1>3. ASSUME NEW n \in Server,
               \/ Shutdown(n) \/ Crash(n) \/ CrashInStateFile(n) \/ CrashInSnapshotFile(n)
               \/ CrashBetweenFiles(n)
        PROVE  RestartIInv'
    BY <1>3, ShutdownKeeps, CrashKeeps, CrashInStateFileKeeps, CrashInSnapshotFileKeeps,
       CrashBetweenFilesKeeps
  <1>4. ASSUME NEW m \in Pending, CrashInHandler(m) \/ CrashInInstall(m) PROVE RestartIInv'
    BY <1>4, CrashInHandlerKeeps, CrashInInstallKeeps
  <1>5. ASSUME NEW n \in Server, StartNew(n) \/ Restore(n) \/ RestoreThrows(n) PROVE RestartIInv'
    BY <1>5, StartNewKeeps, RestoreKeeps, RestoreThrowsKeeps
  <1>6. CASE UNCHANGED restartVars
    BY <1>6, RestartStutters
  <1>7. QED
    BY <1>1, <1>2, <1>3, <1>4, <1>5, <1>6 DEF RestartNext

\* Over any number of stops and restarts the votes of the nodes that are up are
\* in memory and on disk, and those of the others on disk.
THEOREM RestartInvariant == RestartSpec => []RestartIInv
  BY RestartIInvInit, RestartIInvNext, PTL DEF RestartSpec

\* No vote is forgotten over a restart, wherever the stop cut a handler or a
\* save, although the restored votedFor is the one of the last save only
\* (RaftNode.cpp:110, 58 and RaftPersistence.cpp:127).
THEOREM VotesSurviveRestarts == RestartSpec => []OneVotePerTerm
  <1>1. RestartIInv => OneVotePerTerm
    <2> SUFFICES ASSUME RestartIInv,
                        NEW t \in {g[1] : g \in granted},
                        NEW v \in Server, NEW a \in Server, NEW b \in Server,
                        <<t, v, a>> \in granted, <<t, v, b>> \in granted
                 PROVE  a = b
      BY DEF OneVotePerTerm
    <2>1. t \in Nat
      BY DEF RestartIInv, TypeIInv, HistoryTypes
    <2>2. QED
      BY <2>1 DEF RestartIInv, VoteInvOf, OneVote
  <1>2. QED
    BY <1>1, RestartInvariant, PTL

\* Election Safety (README.md:287) over restarts, in every term without an
\* impostor: a winner that forgot that it won still has its own vote.
THEOREM ElectionSafetySurvivesRestarts == RestartSpec => []ElectionSafetyUnlessImpostor
  <1>1. RestartIInv => ElectionSafetyUnlessImpostor
    BY ElectionInvImplies DEF RestartIInv, TypeIInv
  <1>2. QED
    BY <1>1, RestartInvariant, PTL

\* A winner has a majority of votes over restarts, too: those it counts were
\* granted in its term since it started.
THEOREM WinnersAreElectedOverRestarts == RestartSpec => []WinnersHaveMajority
  <1>1. RestartIInv => WinnersHaveMajority
    BY ElectionInvImplies DEF RestartIInv, TypeIInv
  <1>2. QED
    BY <1>1, RestartInvariant, PTL

\* What a node answers for is on disk before it answers, for every log and every
\* number of nodes, the nodes included that come back from a file
\* (RaftNode.cpp:110, 200, 255, 306, 341, 350, 684).
THEOREM DiskStaysCurrent == RestartSpec => []DiskIsCurrent
  <1>1. RestartIInv => DiskIsCurrent
    BY DEF RestartIInv
  <1>2. QED
    BY <1>1, RestartInvariant, PTL
=============================================================================
