---------------------------- MODULE RaftNodeProofs ----------------------------
(***************************************************************************)
(* What holds of RaftNode for every set of servers, every peer list and    *)
(* every bound, and whatever is lost, late, compacted or sent by deposed   *)
(* leaders: its types, its elections, and what a node never does.          *)
(***************************************************************************)
EXTENDS RaftProperties, RaftLogProofs, FiniteSetTheorems

----------------------------------------------------------------------------
(***************************************************************************)
(* Types.                                                                  *)
(*                                                                         *)
(* Every log stays well formed, so no append and no getEntry of a handler  *)
(* throws, and every request in flight carries consecutive entries.  The   *)
(* inductive invariant is TypeInvariant with what it needs about the loops *)
(* and about requests that still arrive.                                   *)
(***************************************************************************)

\* The entries of an AppendEntries request follow prevLogIndex.
Consecutive(m) == \A j \in 1 .. Len(m.entries) : m.entries[j].index = m.prevLogIndex + j

GoodMessage(m) ==
    /\ m \in Message
    /\ m.from # m.to
    /\ m.type = "AppendEntries" => Consecutive(m)

\* TypeInvariant by groups of variables that change together.
ElectionTypes ==
    /\ currentTerm \in [Server -> Nat]
    /\ votedFor \in [Server -> Server \cup {Nil}]
    /\ role \in [Server -> Role]
    /\ currentLeaderId \in [Server -> Server \cup {Nil}]

LogTypes ==
    /\ log \in [Server -> Log]
    /\ \A n \in Server : WellFormed(log[n])

StoreTypes ==
    /\ commitIndex \in [Server -> Nat]
    /\ lastApplied \in [Server -> Nat]
    /\ kvStore \in [Server -> Store]
    /\ lastAppliedSeq \in [Server -> SUBSET Payload]
    /\ applied \in SUBSET [by : Server, term : Nat, entry : Entry]

LeaderTypes ==
    /\ nextIndex \in [Server -> [Server -> Nat \ {0}]]
    /\ matchIndex \in [Server -> [Server -> Nat]]

SnapshotTypes ==
    /\ snapshotIndex \in [Server -> Nat]
    /\ snapshotTerm \in [Server -> Nat]
    /\ snapshotData \in [Server -> Store]

ThreadTypes ==
    /\ pc \in [Server -> Pc]
    /\ todo \in [Server -> Seq(Server)]
    /\ \A n \in Server : todo[n] \in Seq(Server \ {n})
    /\ votesReceived \in [Server -> SUBSET Server]
    /\ \A n \in Server : pc[n] = "idle" => todo[n] = <<>>
    /\ \A n \in Server : pc[n] = "heartbeat" => todo[n] # <<>>

ReplyTypes ==
    /\ reply \in [Server -> Reply \cup {Nil}]
    /\ \A n \in Server : reply[n] # Nil => todo[n] # <<>>

LateTypes == \A m \in late : GoodMessage(m)

HistoryTypes ==
    /\ granted \in SUBSET (Nat \X Server \X Server)
    /\ won \in SUBSET (Nat \X Server)
    /\ impostorTerms \in SUBSET Nat
    /\ led \in SUBSET (Nat \X Entry)

\* A node applied all that its log no longer holds, and all it committed.
\* (commitIndex can be below lastApplied: handleAppendEntries sets it to the
\* last index of a log that a deposed leader's request may have shortened.)
BaseApplied == \A n \in Server : /\ log[n].snapshotIndex <= lastApplied[n]
                                 /\ commitIndex[n] <= lastApplied[n]

TypeIInv ==
    /\ ElectionTypes /\ LogTypes /\ StoreTypes /\ LeaderTypes /\ SnapshotTypes
    /\ ThreadTypes /\ ReplyTypes /\ LateTypes /\ HistoryTypes /\ BaseApplied

LEMMA TypeIInvImplies == TypeIInv => TypeInvariant
  BY DEF TypeIInv, TypeInvariant, ElectionTypes, LogTypes, StoreTypes, LeaderTypes,
         SnapshotTypes, ThreadTypes, ReplyTypes, LateTypes, HistoryTypes, GoodMessage

----------------------------------------------------------------------------
\* The sequences the loops run over.
LEMMA TailOk ==
    ASSUME NEW S, NEW s \in Seq(S), s # <<>>
    PROVE  Head(s) \in S /\ Tail(s) \in Seq(S)
  OBVIOUS

\* A request in progress is a message to another node, with the sender's term.
LEMMA RequestGood ==
    ASSUME TypeIInv, NEW n \in Server, Waiting(n)
    PROVE  /\ GoodMessage(Request(n))
           /\ Request(n).from = n
           /\ Request(n).to = Head(todo[n])
           /\ Request(n).term = currentTerm[n]
  <1> DEFINE p == Head(todo[n])
  <1>1. p \in Server /\ p # n
    <2>1. todo[n] \in Seq(Server \ {n}) /\ todo[n] # <<>>
      BY DEF TypeIInv, ThreadTypes, Waiting
    <2>2. QED
      BY <2>1, TailOk
  <1>2. /\ WellFormed(log[n]) /\ currentTerm[n] \in Nat /\ commitIndex[n] \in Nat
        /\ nextIndex[n][p] \in Nat \ {0}
        /\ snapshotIndex[n] \in Nat /\ snapshotTerm[n] \in Nat /\ snapshotData[n] \in Store
    BY <1>1 DEF TypeIInv, LogTypes, ElectionTypes, StoreTypes, LeaderTypes, SnapshotTypes
  <1> HIDE DEF p
  <1>3. GoodMessage(RequestVote(n, p))
    BY <1>1, <1>2, LogLast DEF GoodMessage, Message, RequestVoteArgs, RequestVote
  <1>4. GoodMessage(InstallSnapshot(n, p))
    BY <1>1, <1>2 DEF GoodMessage, Message, InstallSnapshotArgs, InstallSnapshot
  <1>5. ASSUME ~NeedsSnapshot(n, p) PROVE GoodMessage(AppendEntries(n, p))
    <2> DEFINE es == EntriesFrom(log[n], nextIndex[n][p])
    <2>1. nextIndex[n][p] > log[n].snapshotIndex
      <3>1. log[n].snapshotIndex \in Nat
        BY <1>2, LogParts DEF Parts
      <3>2. QED
        BY <1>2, <1>5, <3>1 DEF NeedsSnapshot
    <2>2. /\ es \in Seq(Entry)
          /\ \A j \in 1 .. Len(es) : es[j].index = nextIndex[n][p] - 1 + j
      BY <1>2, <2>1, EntriesFromConsecutive
    <2>3. getTerm(log[n], nextIndex[n][p] - 1) \in Nat /\ nextIndex[n][p] - 1 \in Nat
      BY <1>2, LogGetTerm
    <2> HIDE DEF es
    <2>4. AppendEntries(n, p) =
            [type |-> "AppendEntries", from |-> n, to |-> p, term |-> currentTerm[n],
             prevLogIndex |-> nextIndex[n][p] - 1,
             prevLogTerm  |-> getTerm(log[n], nextIndex[n][p] - 1),
             entries |-> es, leaderCommit |-> commitIndex[n]]
      BY DEF AppendEntries, es
    <2>5. AppendEntries(n, p) \in AppendEntriesArgs
      BY <1>1, <1>2, <2>2, <2>3, <2>4 DEF AppendEntriesArgs
    <2>6. Consecutive(AppendEntries(n, p))
      BY <2>2, <2>4 DEF Consecutive
    <2>7. QED
      BY <1>1, <2>4, <2>5, <2>6 DEF GoodMessage, Message
  <1>6. Request(n) \in {RequestVote(n, p), InstallSnapshot(n, p)}
          \/ (Request(n) = AppendEntries(n, p) /\ ~NeedsSnapshot(n, p))
    BY DEF Request, p
  <1>7. GoodMessage(Request(n))
    BY <1>3, <1>4, <1>5, <1>6
  <1>8. QED
    BY <1>6, <1>7 DEF RequestVote, InstallSnapshot, AppendEntries, p

LEMMA PendingGood ==
    ASSUME TypeIInv, NEW m \in Pending
    PROVE  GoodMessage(m) /\ m.from \in Server /\ m.to \in Server /\ m.term \in Nat
  <1>1. GoodMessage(m)
    BY RequestGood DEF Pending, TypeIInv, LateTypes
  <1>2. QED
    BY <1>1 DEF GoodMessage, Message, RequestVoteArgs, AppendEntriesArgs, InstallSnapshotArgs

\* What a handler's result does to the caller, or to the late requests.
LEMMA AnswerOk ==
    ASSUME TypeIInv, NEW m \in Pending, NEW rep \in Reply, Answer(m, rep), UNCHANGED todo
    PROVE  ReplyTypes' /\ LateTypes'
  <1>1. m.from \in Server
    BY PendingGood
  <1>2. CASE UNCHANGED late /\ Waiting(m.from) /\ reply' = [reply EXCEPT ![m.from] = rep]
    BY <1>1, <1>2 DEF TypeIInv, ReplyTypes, LateTypes, Waiting
  <1>3. CASE UNCHANGED reply /\ late' = late \ {m}
    BY <1>3 DEF TypeIInv, ReplyTypes, LateTypes
  <1>4. QED
    BY <1>2, <1>3 DEF Answer

LEMMA AnsweredOk ==
    ASSUME NEW t \in Nat, NEW ok \in BOOLEAN
    PROVE  Answered(t, ok) \in Reply
  BY DEF Answered, Reply

----------------------------------------------------------------------------
\* A group is not disturbed by a step that leaves its variables alone.
LEMMA ElectionKept == ElectionTypes /\ UNCHANGED electionVars => ElectionTypes'
  BY DEF ElectionTypes, electionVars

LEMMA LogKept == LogTypes /\ UNCHANGED log => LogTypes'
  BY DEF LogTypes

LEMMA StoreKept ==
    StoreTypes /\ UNCHANGED <<commitIndex, storeVars, applied>> => StoreTypes'
  BY DEF StoreTypes, storeVars

LEMMA LeaderKept == LeaderTypes /\ UNCHANGED leaderVars => LeaderTypes'
  BY DEF LeaderTypes, leaderVars

LEMMA SnapshotKept == SnapshotTypes /\ UNCHANGED snapshotVars => SnapshotTypes'
  BY DEF SnapshotTypes, snapshotVars

LEMMA ThreadKept == ThreadTypes /\ UNCHANGED threadVars => ThreadTypes'
  BY DEF ThreadTypes, threadVars

LEMMA ReplyKept == ReplyTypes /\ UNCHANGED <<reply, todo>> => ReplyTypes'
  BY DEF ReplyTypes

LEMMA LateKept == LateTypes /\ UNCHANGED late => LateTypes'
  BY DEF LateTypes

LEMMA HistoryKept == HistoryTypes /\ UNCHANGED <<granted, won, impostorTerms, led>> => HistoryTypes'
  BY DEF HistoryTypes

LEMMA BaseKept == BaseApplied /\ UNCHANGED <<log, commitIndex, lastApplied>> => BaseApplied'
  BY DEF BaseApplied

\* All ten, for the steps.
LEMMA Kept ==
    ASSUME TypeIInv
    PROVE  /\ UNCHANGED electionVars => ElectionTypes'
           /\ UNCHANGED log => LogTypes'
           /\ UNCHANGED <<commitIndex, storeVars, applied>> => StoreTypes'
           /\ UNCHANGED leaderVars => LeaderTypes'
           /\ UNCHANGED snapshotVars => SnapshotTypes'
           /\ UNCHANGED threadVars => ThreadTypes'
           /\ UNCHANGED <<reply, todo>> => ReplyTypes'
           /\ UNCHANGED late => LateTypes'
           /\ UNCHANGED <<granted, won, impostorTerms, led>> => HistoryTypes'
           /\ UNCHANGED <<log, commitIndex, lastApplied>> => BaseApplied'
  BY ElectionKept, LogKept, StoreKept, LeaderKept, SnapshotKept, ThreadKept, ReplyKept,
     LateKept, HistoryKept, BaseKept DEF TypeIInv

----------------------------------------------------------------------------
\* What the helpers do to the groups.
LEMMA BecomeFollowerTypes ==
    ASSUME TypeIInv, NEW n \in Server, NEW t \in Nat, becomeFollower(n, t)
    PROVE  ElectionTypes'
  BY DEF TypeIInv, ElectionTypes, becomeFollower, Role

LEMMA BecomeCandidateTypes ==
    ASSUME TypeIInv, NEW n \in Server, becomeCandidate(n)
    PROVE  ElectionTypes'
  BY DEF TypeIInv, ElectionTypes, becomeCandidate, Role

LEMMA BecomeLeaderTypes ==
    ASSUME TypeIInv, NEW n \in Server, becomeLeader(n)
    PROVE  ElectionTypes' /\ LeaderTypes'
  <1>1. ElectionTypes'
    BY DEF TypeIInv, ElectionTypes, becomeLeader, Role
  <1>2. getLastIndex(log[n]) \in Nat
    BY LogLast DEF TypeIInv, LogTypes
  <1>3. LeaderTypes'
    BY <1>2 DEF TypeIInv, LeaderTypes, becomeLeader
  <1>4. QED
    BY <1>1, <1>3

\* A loop over peers starts, or goes on with fewer of them.
LEMMA SendToTypes ==
    ASSUME TypeIInv, NEW n \in Server, NEW rest \in Seq(Server \ {n}), SendTo(n, rest),
           votesReceived' = votesReceived \/ votesReceived' = [votesReceived EXCEPT ![n] = {}]
    PROVE  ThreadTypes'
  <1>1. rest \in Seq(Server)
    OBVIOUS
  <1>2. /\ pc' \in [Server -> Pc]
        /\ todo' \in [Server -> Seq(Server)]
        /\ votesReceived' \in [Server -> SUBSET Server]
    BY <1>1 DEF TypeIInv, ThreadTypes, SendTo, Pc
  <1>3. ASSUME NEW k \in Server
        PROVE  /\ todo'[k] \in Seq(Server \ {k})
               /\ pc'[k] = "idle" => todo'[k] = <<>>
               /\ pc'[k] = "heartbeat" => todo'[k] # <<>>
    BY DEF TypeIInv, ThreadTypes, SendTo, Pc
  <1>4. QED
    BY <1>2, <1>3 DEF ThreadTypes

\* The peer being called, while the heartbeat loop has its reply.
LEMMA HeartbeatPeer ==
    ASSUME TypeIInv, NEW n \in Server, HasReply(n)
    PROVE  /\ Head(todo[n]) \in Server
           /\ Tail(todo[n]) \in Seq(Server \ {n})
           /\ reply[n] \in Reply
           /\ reply[n].term \in Nat /\ reply[n].conflictIndex \in Nat
  <1>1. todo[n] # <<>> /\ todo[n] \in Seq(Server \ {n}) /\ reply[n] \in Reply
    BY DEF TypeIInv, ReplyTypes, ThreadTypes, HasReply
  <1>2. Head(todo[n]) \in Server \ {n} /\ Tail(todo[n]) \in Seq(Server \ {n})
    BY <1>1, TailOk
  <1>3. QED
    BY <1>1, <1>2 DEF Reply

LEMMA PeerDoneTypes ==
    ASSUME TypeIInv, NEW n \in Server, HasReply(n), PeerDone(n)
    PROVE  ThreadTypes' /\ ReplyTypes' /\ LateTypes'
  <1>1. ThreadTypes'
    BY HeartbeatPeer, SendToTypes DEF PeerDone
  <1>2. ReplyTypes'
    BY DEF TypeIInv, ReplyTypes, ThreadTypes, PeerDone, SendTo
  <1>3. LateTypes'
    BY Kept DEF PeerDone
  <1>4. QED
    BY <1>1, <1>2, <1>3

\* The entries applied exist, so that getEntry does not throw; afterwards all
\* that is committed is applied.
LEMMA ApplyTypes ==
    ASSUME TypeIInv, NEW n \in Server, NEW lg, WellFormed(lg),
           lg.snapshotIndex = log[n].snapshotIndex,
           NEW k \in Nat, k <= commitIndex[n] \/ k <= getLastIndex(lg),
           currentTerm' \in [Server -> Nat],
           commitIndex' = [commitIndex EXCEPT ![n] = k],
           log' = [log EXCEPT ![n] = lg],
           applyCommittedEntries(n, lg, k)
    PROVE  StoreTypes' /\ BaseApplied' /\ LogTypes'
  <1> DEFINE done  == AllApplied(n, k)
             batch == {getEntry(lg, i) : i \in lastApplied[n] + 1 .. done}
             fresh == Fresh(n, batch)
             puts  == {<<e.index, e.command>> : e \in {f \in fresh : f.command.op # "GET"}}
             cmds  == {e.command : e \in fresh}
             new   == {[by |-> n, term |-> currentTerm'[n], entry |-> e] : e \in batch}
  <1>1. /\ commitIndex[n] <= lastApplied[n] /\ commitIndex[n] \in Nat /\ lastApplied[n] \in Nat
        /\ log[n].snapshotIndex <= lastApplied[n]
    BY DEF TypeIInv, BaseApplied, StoreTypes
  <1>2. batch \in SUBSET Entry
    <2>1. SUFFICES ASSUME NEW i \in lastApplied[n] + 1 .. done PROVE getEntry(lg, i) \in Entry
      OBVIOUS
    <2>2. Parts(lg) /\ getLastIndex(lg) = lg.snapshotIndex + Size(lg) - 1
      BY LogParts, LogLast
    <2>3. i \in Nat /\ i > lastApplied[n] /\ i <= k
      BY <1>1 DEF AllApplied
    <2>4. HasEntry(lg, i)
      <3>1. i <= getLastIndex(lg)
        <4>1. k <= commitIndex[n] => i <= lastApplied[n]
          BY <1>1, <2>3
        <4>2. getLastIndex(lg) \in Nat
          BY LogLast
        <4>3. QED
          BY <1>1, <2>3, <4>1, <4>2
      <3>2. lg.snapshotIndex \in Nat /\ Size(lg) \in Nat
        BY <2>2 DEF Parts
      <3>3. i > lg.snapshotIndex
        BY <1>1, <2>3, <3>2
      <3>4. QED
        BY <2>2, <2>3, <3>1, <3>2, <3>3 DEF HasEntry
    <2>5. QED
      BY <2>3, <2>4, LogGetEntry
  <1>3. fresh \in SUBSET Entry
    BY <1>2 DEF Fresh
  <1>4. /\ lastApplied' = [lastApplied EXCEPT ![n] = done]
        /\ kvStore' = [kvStore EXCEPT ![n] = kvStore[n] \cup puts]
        /\ lastAppliedSeq' = [lastAppliedSeq EXCEPT ![n] = lastAppliedSeq[n] \cup cmds]
        /\ applied' = applied \cup new
    BY DEF applyCommittedEntries
  <1> HIDE DEF batch, fresh
  <1>5. puts \in Store /\ cmds \in SUBSET Payload
    BY <1>3 DEF Store, Entry
  <1>11. done \in Nat /\ k <= done /\ lastApplied[n] <= done
    BY <1>1 DEF AllApplied
  <1>6. new \in SUBSET [by : Server, term : Nat, entry : Entry]
    BY <1>2
  <1> HIDE DEF puts, cmds, new, done
  <1>7. /\ lastApplied' \in [Server -> Nat] /\ commitIndex' \in [Server -> Nat]
        /\ kvStore' \in [Server -> Store] /\ lastAppliedSeq' \in [Server -> SUBSET Payload]
        /\ applied' \in SUBSET [by : Server, term : Nat, entry : Entry]
    <2>1. lastApplied' \in [Server -> Nat] /\ commitIndex' \in [Server -> Nat]
      BY <1>4, <1>11 DEF TypeIInv, StoreTypes
    <2>2. kvStore' \in [Server -> Store]
      BY <1>4, <1>5 DEF TypeIInv, StoreTypes, Store
    <2>3. lastAppliedSeq' \in [Server -> SUBSET Payload]
      BY <1>4, <1>5 DEF TypeIInv, StoreTypes
    <2>4. applied' \in SUBSET [by : Server, term : Nat, entry : Entry]
      BY <1>4, <1>6 DEF TypeIInv, StoreTypes
    <2>5. QED
      BY <2>1, <2>2, <2>3, <2>4
  <1>8. BaseApplied'
    <2>1. log[n].snapshotIndex \in Nat /\ log[n].snapshotIndex <= done
      <3>1. log[n].snapshotIndex \in Nat
        BY LogParts DEF TypeIInv, LogTypes, Parts
      <3>2. QED
        BY <1>1, <1>11, <3>1
    <2>2. ASSUME NEW a \in Server
          PROVE  /\ log'[a].snapshotIndex <= lastApplied'[a]
                 /\ commitIndex'[a] <= lastApplied'[a]
      <3>1. CASE a = n
        <4>1. log'[n] = lg /\ lastApplied'[n] = done /\ commitIndex'[n] = k
          BY <1>4 DEF TypeIInv, LogTypes, StoreTypes
        <4>2. QED
          BY <1>11, <2>1, <3>1, <4>1
      <3>2. CASE a # n
        <4>1. /\ log'[a] = log[a] /\ lastApplied'[a] = lastApplied[a]
              /\ commitIndex'[a] = commitIndex[a]
          BY <1>4, <3>2 DEF TypeIInv, LogTypes, StoreTypes
        <4>2. QED
          BY <4>1 DEF TypeIInv, BaseApplied
      <3>3. QED
        BY <3>1, <3>2
    <2>3. QED
      BY <2>2 DEF BaseApplied
  <1>9. LogTypes'
    BY DEF TypeIInv, LogTypes, WellFormed
  <1>10. QED
    BY <1>7, <1>8, <1>9 DEF StoreTypes

----------------------------------------------------------------------------
LEMMA TypeInit == Init => TypeIInv
  <1> SUFFICES ASSUME Init PROVE TypeIInv
    OBVIOUS
  <1> USE DEF Init
  <1>1. ElectionTypes
    BY DEF ElectionTypes, Role
  <1>2. LogTypes
    BY EmptyLogWellFormed DEF LogTypes, WellFormed
  <1>3. StoreTypes
    BY DEF StoreTypes, Store
  <1>4. LeaderTypes
    BY DEF LeaderTypes
  <1>5. SnapshotTypes
    BY DEF SnapshotTypes, Store
  <1>6. ThreadTypes
    BY DEF ThreadTypes, Pc
  <1>7. ReplyTypes /\ LateTypes /\ HistoryTypes
    BY DEF ReplyTypes, LateTypes, HistoryTypes
  <1>8. BaseApplied
    BY DEF BaseApplied, EmptyLog
  <1>9. QED
    BY <1>1, <1>2, <1>3, <1>4, <1>5, <1>6, <1>7, <1>8 DEF TypeIInv

\* The steps of the election thread.
LEMMA ElectionThreadTypes ==
    ASSUME TypeIInv, NEW n \in Server,
           \/ ElectionTimeout(n) \/ ElectionStepsDown(n) \/ CountVote(n)
           \/ WinElection(n) \/ LoseElection(n)
    PROVE  TypeIInv'
  <1>1. CASE ElectionTimeout(n)
    <2>1. ElectionTypes'
      BY <1>1, BecomeCandidateTypes DEF ElectionTimeout
    <2>2. ThreadTypes'
      <3>1. Peers[n] \in Seq(Server \ {n}) /\ Peers[n] \in Seq(Server)
        <4>1. Peers[n] \in Seq(Server \ {n})
          BY PeersAssumption
        <4>2. QED
          BY <4>1
      <3>2. QED
        BY <1>1, <3>1 DEF ElectionTimeout, TypeIInv, ThreadTypes, Pc
    <2>3. ReplyTypes'
      BY <1>1 DEF ElectionTimeout, TypeIInv, ReplyTypes, ThreadTypes
    <2>4. QED
      BY <1>1, <2>1, <2>2, <2>3, Kept DEF ElectionTimeout, TypeIInv, storeVars, threadVars, historyVars
  <1>2. CASE ElectionStepsDown(n)
    <2>1. ElectionTypes'
      <3>1. reply[n].term \in Nat
        <4>1. reply[n] \in Reply
          BY <1>2 DEF ElectionStepsDown, TypeIInv, ReplyTypes
        <4>2. QED
          BY <4>1 DEF Reply
      <3>2. QED
        BY <1>2, <3>1, BecomeFollowerTypes DEF ElectionStepsDown
    <2>2. ThreadTypes'
      BY <1>2 DEF ElectionStepsDown, TypeIInv, ThreadTypes, Pc
    <2>3. ReplyTypes'
      BY <1>2 DEF ElectionStepsDown, TypeIInv, ReplyTypes, ThreadTypes
    <2>4. QED
      BY <1>2, <2>1, <2>2, <2>3, Kept DEF ElectionStepsDown, TypeIInv, storeVars, threadVars, historyVars
  <1>3. CASE CountVote(n)
    <2>1. /\ todo[n] \in Seq(Server \ {n}) /\ todo[n] # <<>> /\ pc[n] = "election"
          /\ Head(todo[n]) \in Server /\ Tail(todo[n]) \in Seq(Server \ {n})
      BY <1>3, TailOk DEF CountVote, TypeIInv, ReplyTypes, ThreadTypes
    <2>2. ThreadTypes'
      <3>1. /\ pc' \in [Server -> Pc]
            /\ todo' \in [Server -> Seq(Server)]
            /\ votesReceived' \in [Server -> SUBSET Server]
        BY <1>3, <2>1 DEF CountVote, TypeIInv, ThreadTypes
      <3>2. ASSUME NEW k \in Server
            PROVE  /\ todo'[k] \in Seq(Server \ {k})
                   /\ pc'[k] = "idle" => todo'[k] = <<>>
                   /\ pc'[k] = "heartbeat" => todo'[k] # <<>>
        BY <1>3, <2>1 DEF CountVote, TypeIInv, ThreadTypes
      <3>3. QED
        BY <3>1, <3>2 DEF ThreadTypes
    <2>3. ReplyTypes'
      BY <1>3 DEF CountVote, TypeIInv, ReplyTypes, ThreadTypes
    <2>4. QED
      BY <1>3, <2>2, <2>3, Kept DEF CountVote, TypeIInv, storeVars, threadVars, historyVars
  <1>4. CASE WinElection(n)
    <2>1. ElectionTypes' /\ LeaderTypes'
      BY <1>4, BecomeLeaderTypes DEF WinElection
    <2>2. ThreadTypes'
      BY <1>4, SendToTypes, PeersAssumption DEF WinElection
    <2>3. ReplyTypes'
      BY <1>4 DEF WinElection, TypeIInv, ReplyTypes, ThreadTypes, SendTo
    <2>4. HistoryTypes'
      <3>1. EntrySet(log[n]) \subseteq Entry /\ currentTerm[n] \in Nat
        BY LogEntrySet DEF TypeIInv, LogTypes, ElectionTypes
      <3>2. QED
        BY <1>4, <3>1 DEF WinElection, TypeIInv, HistoryTypes
    <2>5. QED
      BY <1>4, <2>1, <2>2, <2>3, <2>4, Kept DEF WinElection, TypeIInv, storeVars, threadVars, historyVars
  <1>5. CASE LoseElection(n)
    <2>1. ThreadTypes'
      BY <1>5 DEF LoseElection, TypeIInv, ThreadTypes, Pc
    <2>2. QED
      BY <1>5, <2>1, Kept DEF LoseElection, TypeIInv, storeVars, threadVars, historyVars
  <1>6. QED
    BY <1>1, <1>2, <1>3, <1>4, <1>5

\* One cell of a table changes.
LEMMA CellTypes ==
    ASSUME NEW S, NEW T, NEW f \in [S -> [S -> T]], NEW a \in S, NEW b \in S, NEW x \in T
    PROVE  [f EXCEPT ![a][b] = x] \in [S -> [S -> T]]
  OBVIOUS

\* The leader's own bookkeeping after an answer.
LEMMA NextIndexTypes ==
    ASSUME TypeIInv, NEW n \in Server, NEW p \in Server, NEW k \in Nat \ {0},
           nextIndex' = [nextIndex EXCEPT ![n][p] = k],
           NEW j \in Nat,
           matchIndex' = matchIndex \/ matchIndex' = [matchIndex EXCEPT ![n][p] = j]
    PROVE  LeaderTypes'
  <1>1. nextIndex' \in [Server -> [Server -> Nat \ {0}]]
    BY CellTypes DEF TypeIInv, LeaderTypes
  <1>2. matchIndex' \in [Server -> [Server -> Nat]]
    <2>1. matchIndex \in [Server -> [Server -> Nat]]
      BY DEF TypeIInv, LeaderTypes
    <2>2. [matchIndex EXCEPT ![n][p] = j] \in [Server -> [Server -> Nat]]
      BY <2>1, CellTypes
    <2>3. QED
      BY <2>1, <2>2
  <1>3. QED
    BY <1>1, <1>2 DEF LeaderTypes

LEMMA MatchedOk ==
    ASSUME TypeIInv, NEW n \in Server, NEW p \in Server, ~NeedsSnapshot(n, p)
    PROVE  Matched(n, p) \in Nat
  <1> DEFINE es == EntriesFrom(log[n], nextIndex[n][p])
  <1>1. /\ WellFormed(log[n]) /\ nextIndex[n][p] \in Nat \ {0}
        /\ matchIndex[n][p] \in Nat
    BY DEF TypeIInv, LogTypes, LeaderTypes
  <1>2. log[n].snapshotIndex \in Nat
    BY <1>1, LogParts DEF Parts
  <1>3. es \in Seq(Entry)
    BY <1>1, <1>2, EntriesFromConsecutive DEF NeedsSnapshot
  <1> HIDE DEF es
  <1>4. es # <<>> => es[Len(es)].index \in Nat
    <2>1. ASSUME es # <<>> PROVE es[Len(es)] \in Entry
      BY <1>3, <2>1
    <2>2. QED
      BY <2>1 DEF Entry
  <1>5. QED
    BY <1>1, <1>4 DEF Matched, es

\* The steps of the heartbeat thread.
LEMMA HeartbeatThreadTypes ==
    ASSUME TypeIInv, NEW n \in Server,
           \/ HeartbeatTick(n) \/ HeartbeatStepsDown(n) \/ SnapshotSent(n)
           \/ AppendSucceeds(n) \/ AppendRejected(n)
    PROVE  TypeIInv'
  <1> DEFINE p == Head(todo[n])
  <1>1. CASE HeartbeatTick(n)
    <2>1. ThreadTypes'
      BY <1>1, SendToTypes, PeersAssumption DEF HeartbeatTick
    <2>2. ReplyTypes'
      BY <1>1 DEF HeartbeatTick, TypeIInv, ReplyTypes, ThreadTypes, SendTo
    <2>3. QED
      BY <1>1, <2>1, <2>2, Kept DEF HeartbeatTick, TypeIInv, storeVars, threadVars, historyVars
  <1>2. CASE HeartbeatStepsDown(n)
    <2>1. reply[n].term \in Nat
      BY <1>2, HeartbeatPeer DEF HeartbeatStepsDown
    <2>2. ElectionTypes'
      BY <1>2, <2>1, BecomeFollowerTypes DEF HeartbeatStepsDown
    <2>3. ThreadTypes' /\ ReplyTypes' /\ LateTypes'
      BY <1>2, PeerDoneTypes DEF HeartbeatStepsDown
    <2>4. HistoryTypes'
      BY <1>2, <2>1 DEF HeartbeatStepsDown, TypeIInv, HistoryTypes
    <2>5. QED
      BY <1>2, <2>2, <2>3, <2>4, Kept
         DEF HeartbeatStepsDown, TypeIInv, storeVars, threadVars, historyVars
  <1>3. CASE SnapshotSent(n)
    <2>1. p \in Server /\ snapshotIndex[n] \in Nat
      BY <1>3, HeartbeatPeer DEF SnapshotSent, TypeIInv, SnapshotTypes
    <2>2. LeaderTypes'
      <3>1. snapshotIndex[n] + 1 \in Nat \ {0}
        BY <2>1
      <3>2. QED
        BY <1>3, <2>1, <3>1, NextIndexTypes DEF SnapshotSent
    <2>3. ThreadTypes' /\ ReplyTypes' /\ LateTypes'
      BY <1>3, PeerDoneTypes DEF SnapshotSent
    <2>4. QED
      BY <1>3, <2>2, <2>3, Kept DEF SnapshotSent, TypeIInv, storeVars, threadVars, historyVars
  <1>4. CASE AppendSucceeds(n)
    <2>1. /\ p \in Server /\ Matched(n, p) \in Nat /\ nextIndex[n][p] \in Nat \ {0}
          /\ ~NeedsSnapshot(n, p)
      BY <1>4, HeartbeatPeer, MatchedOk DEF AppendSucceeds, TypeIInv, LeaderTypes
    <2>2. LeaderTypes'
      <3>1. matchIndex' \in [Server -> [Server -> Nat]]
        BY <1>4, <2>1 DEF AppendSucceeds, TypeIInv, LeaderTypes
      <3> DEFINE k == IF EntriesFrom(log[n], nextIndex[n][p]) = <<>>
                      THEN nextIndex[n][p] ELSE Matched(n, p) + 1
      <3>2. k \in Nat \ {0}
        BY <2>1
      <3>3. nextIndex' = [nextIndex EXCEPT ![n][p] = k]
        BY <1>4 DEF AppendSucceeds
      <3> HIDE DEF k
      <3>4. nextIndex' \in [Server -> [Server -> Nat \ {0}]]
        BY <2>1, <3>2, <3>3, CellTypes DEF TypeIInv, LeaderTypes
      <3>5. QED
        BY <3>1, <3>4 DEF LeaderTypes
    <2>3. StoreTypes' /\ BaseApplied' /\ LogTypes'
      <3>1. PICK k \in {commitIndex[n]} \cup (commitIndex[n] + 1 .. getLastIndex(log[n])) :
                /\ commitIndex' = [commitIndex EXCEPT ![n] = k]
                /\ UNCHANGED electionVars
                /\ applyCommittedEntries(n, log[n], k)
        BY <1>4 DEF AppendSucceeds
      <3>2. /\ WellFormed(log[n]) /\ getLastIndex(log[n]) \in Nat /\ commitIndex[n] \in Nat
            /\ log' = [log EXCEPT ![n] = log[n]]
        BY <1>4, LogLast DEF AppendSucceeds, TypeIInv, LogTypes, StoreTypes
      <3>3. k \in Nat /\ (k <= commitIndex[n] \/ k <= getLastIndex(log[n]))
        BY <3>1, <3>2
      <3>4. currentTerm' \in [Server -> Nat]
        BY <3>1 DEF TypeIInv, ElectionTypes, electionVars
      <3>5. QED
        BY <3>1, <3>2, <3>3, <3>4, ApplyTypes
    <2>4. ThreadTypes' /\ ReplyTypes' /\ LateTypes'
      BY <1>4, PeerDoneTypes DEF AppendSucceeds
    <2>5. ElectionTypes' /\ SnapshotTypes' /\ HistoryTypes'
      BY <1>4, Kept DEF AppendSucceeds
    <2>6. QED
      BY <2>2, <2>3, <2>4, <2>5 DEF TypeIInv
  <1>5. CASE AppendRejected(n)
    <2>1. p \in Server /\ reply[n].conflictIndex \in Nat
      BY <1>5, HeartbeatPeer DEF AppendRejected
    <2>2. LeaderTypes'
      <3> DEFINE k == IF reply[n].conflictIndex > 1 THEN reply[n].conflictIndex ELSE 1
      <3>1. k \in Nat \ {0}
        BY <2>1
      <3>2. nextIndex' = [nextIndex EXCEPT ![n][p] = k] /\ matchIndex' = matchIndex
        BY <1>5 DEF AppendRejected, NextAfterRejection
      <3> HIDE DEF k
      <3>3. QED
        BY <2>1, <3>1, <3>2, NextIndexTypes
    <2>3. ThreadTypes' /\ ReplyTypes' /\ LateTypes'
      BY <1>5, PeerDoneTypes DEF AppendRejected
    <2>4. QED
      BY <1>5, <2>2, <2>3, Kept DEF AppendRejected, TypeIInv, storeVars, threadVars, historyVars
  <1>6. QED
    BY <1>1, <1>2, <1>3, <1>4, <1>5

\* A failed call, the client's commands and the snapshot thread.
LEMMA OtherStepTypes ==
    ASSUME TypeIInv, NEW n \in Server,
           \/ CallFails(n) \/ takeSnapshot(n)
           \/ \E c \in Command : handleClientRequest(n, c)
    PROVE  TypeIInv'
  <1>1. CASE CallFails(n)
    <2>1. Answered(currentTerm[n], FALSE) \in Reply
      BY AnsweredOk DEF TypeIInv, ElectionTypes
    <2>2. ReplyTypes'
      BY <1>1, <2>1 DEF CallFails, FailedReply, TypeIInv, ReplyTypes, threadVars
    <2>3. LateTypes'
      <3>1. CASE UNCHANGED late
        BY <3>1, Kept
      <3>2. CASE reply[n] = Nil /\ late' = late \cup {Request(n)}
        <4>1. GoodMessage(Request(n))
          BY <1>1, <3>2, RequestGood DEF CallFails, Waiting
        <4>2. QED
          BY <3>2, <4>1 DEF TypeIInv, LateTypes
      <3>3. QED
        BY <1>1, <3>1, <3>2 DEF CallFails
    <2>4. QED
      BY <1>1, <2>2, <2>3, Kept DEF CallFails, TypeIInv, storeVars, historyVars
  <1>2. CASE takeSnapshot(n)
    <2> DEFINE index == lastApplied[n]
               term  == getTerm(log[n], index)
               lg    == discardEntriesUpTo(log[n], index, term)
    <2>1. /\ WellFormed(log[n]) /\ index \in Nat /\ kvStore[n] \in Store
          /\ index > log[n].snapshotIndex
          /\ log' = [log EXCEPT ![n] = lg]
      BY <1>2 DEF takeSnapshot, SnapshotPoint, TypeIInv, LogTypes, StoreTypes
    <2>2. term \in Nat
      BY <2>1, LogGetTerm
    <2>3. SnapshotTypes'
      BY <1>2, <2>1, <2>2 DEF takeSnapshot, SnapshotPoint, TypeIInv, SnapshotTypes
    <2>4. WellFormed(lg) /\ lg.snapshotIndex = index
      <3>1. log[n].snapshotIndex \in Nat
        BY <2>1, LogParts DEF Parts
      <3> HIDE DEF term, index
      <3>2. /\ WellFormed(lg)
            /\ lg.snapshotIndex = IF index <= log[n].snapshotIndex
                                  THEN log[n].snapshotIndex ELSE index
        BY <2>1, <2>2, DiscardWellFormed
      <3> HIDE DEF lg
      <3>3. QED
        BY <2>1, <3>1, <3>2
    <2>5. LogTypes' /\ BaseApplied'
      <3> HIDE DEF lg
      <3>1. LogTypes'
        BY <2>1, <2>4 DEF TypeIInv, LogTypes, WellFormed
      <3>2. UNCHANGED <<lastApplied, commitIndex>>
        BY <1>2 DEF takeSnapshot, storeVars
      <3>3. QED
        BY <2>1, <2>4, <3>1, <3>2 DEF TypeIInv, LogTypes, BaseApplied, StoreTypes
    <2>6. QED
      BY <1>2, <2>3, <2>5, Kept DEF takeSnapshot, TypeIInv, storeVars, threadVars, historyVars
  <1>3. CASE \E c \in Command : handleClientRequest(n, c)
    <2>1. PICK c \in Command : handleClientRequest(n, c)
      BY <1>3
    <2> DEFINE e == NewEntry(n, c)
    <2>2. WellFormed(log[n]) /\ currentTerm[n] \in Nat
      BY DEF TypeIInv, LogTypes, ElectionTypes
    <2>3. e \in Entry /\ CanAppend(log[n], e)
      BY <2>2, LogLast DEF NewEntry, Entry, Payload, CanAppend
    <2>4. /\ log' = [log EXCEPT ![n] = append(log[n], e)]
          /\ led' = led \cup {<<currentTerm[n], e>>}
      BY <2>1 DEF handleClientRequest
    <2> HIDE DEF e
    <2>5. /\ WellFormed(append(log[n], e))
          /\ append(log[n], e).snapshotIndex = log[n].snapshotIndex
      BY <2>2, <2>3, AppendWellFormed
    <2>6. LogTypes'
      BY <2>4, <2>5 DEF TypeIInv, LogTypes, WellFormed
    <2>7. BaseApplied'
      BY <2>1, <2>4, <2>5 DEF handleClientRequest, TypeIInv, LogTypes, BaseApplied, storeVars
    <2>8. HistoryTypes'
      BY <2>1, <2>2, <2>3, <2>4 DEF handleClientRequest, TypeIInv, HistoryTypes
    <2>9. QED
      BY <2>1, <2>6, <2>7, <2>8, Kept
         DEF handleClientRequest, TypeIInv, storeVars, threadVars
  <1>4. QED
    BY <1>1, <1>2, <1>3

----------------------------------------------------------------------------
\* The handlers.
LEMMA AcceptLeaderTypes ==
    ASSUME TypeIInv, NEW m \in Pending, AcceptLeader(m)
    PROVE  /\ ElectionTypes' /\ LeaderTypes' /\ SnapshotTypes' /\ ThreadTypes' /\ HistoryTypes'
           /\ UNCHANGED todo
           /\ m \in AppendEntriesArgs /\ Consecutive(m)
  <1>1. m.to \in Server /\ m.from \in Server /\ m.term \in Nat /\ GoodMessage(m)
    BY PendingGood
  <1>2. ElectionTypes'
    BY <1>1 DEF AcceptLeader, TypeIInv, ElectionTypes, Role
  <1>3. LeaderTypes' /\ SnapshotTypes' /\ ThreadTypes' /\ HistoryTypes' /\ UNCHANGED todo
    BY Kept DEF AcceptLeader, threadVars
  <1>4. m \in AppendEntriesArgs /\ Consecutive(m)
    BY <1>1 DEF AcceptLeader, GoodMessage, Message, RequestVoteArgs, InstallSnapshotArgs
  <1>5. QED
    BY <1>2, <1>3, <1>4

\* min(leaderCommit, last), unless the leader's commitIndex is not higher.
LEMMA FollowerCommitOk ==
    ASSUME NEW n, NEW lg, NEW c \in Nat, commitIndex[n] \in Nat, getLastIndex(lg) \in Nat
    PROVE  /\ FollowerCommit(n, lg, c) \in Nat
           /\ \/ FollowerCommit(n, lg, c) <= commitIndex[n]
              \/ FollowerCommit(n, lg, c) <= getLastIndex(lg)
  BY DEF FollowerCommit

LEMMA HandlerTypes ==
    ASSUME TypeIInv, NEW m \in Pending, Handle(m)
    PROVE  TypeIInv'
  <1> DEFINE n == m.to
  <1>1. n \in Server /\ m.from \in Server /\ m.term \in Nat /\ GoodMessage(m)
    BY PendingGood
  <1>2. CASE HandleStale(m)
    <2>1. Answered(currentTerm[n], FALSE) \in Reply
      BY <1>1, AnsweredOk DEF TypeIInv, ElectionTypes
    <2>2. ReplyTypes' /\ LateTypes'
      BY <1>2, <2>1, AnswerOk DEF HandleStale, threadVars
    <2>3. QED
      BY <1>2, <2>2, Kept DEF HandleStale, TypeIInv, storeVars, threadVars, historyVars
  <1>3. CASE handleRequestVote(m)
    <2>1. ElectionTypes'
      BY <1>1, <1>3 DEF handleRequestVote, TypeIInv, ElectionTypes, Role
    <2>2. ReplyTypes' /\ LateTypes'
      <3>1. PICK grant \in BOOLEAN : Answer(m, Answered(m.term, grant))
        BY <1>3 DEF handleRequestVote, CanVote, isLogUpToDate
      <3>2. Answered(m.term, grant) \in Reply
        BY <1>1, AnsweredOk
      <3>3. QED
        BY <1>3, <3>1, <3>2, AnswerOk DEF handleRequestVote, threadVars
    <2>3. HistoryTypes'
      BY <1>1, <1>3 DEF handleRequestVote, TypeIInv, HistoryTypes
    <2>4. QED
      BY <1>3, <2>1, <2>2, <2>3, Kept
         DEF handleRequestVote, TypeIInv, storeVars, threadVars, historyVars
  <1>4. CASE RejectAppendEntries(m)
    <2>1. AcceptLeader(m) /\ UNCHANGED <<log, commitIndex, storeVars, applied>>
      BY <1>4 DEF RejectAppendEntries
    <2>2. ReplyTypes' /\ LateTypes'
      <3>1. getLastIndex(log[n]) \in Nat
        BY <1>1, LogLast DEF TypeIInv, LogTypes
      <3>2. PICK k \in Nat : Answer(m, [term |-> m.term, ok |-> FALSE, conflictIndex |-> k])
        <4>1. m.prevLogIndex \in Nat
          BY <2>1, AcceptLeaderTypes DEF AppendEntriesArgs
        <4>2. getLastIndex(log[n]) + 1 \in Nat /\ 1 .. m.prevLogIndex \subseteq Nat
          BY <3>1, <4>1
        <4>3. \/ Answer(m, [term |-> m.term, ok |-> FALSE,
                            conflictIndex |-> getLastIndex(log[n]) + 1])
              \/ \E k \in 1 .. m.prevLogIndex :
                    Answer(m, [term |-> m.term, ok |-> FALSE, conflictIndex |-> k])
          BY <1>4 DEF RejectAppendEntries
        <4>4. QED
          BY <4>2, <4>3
      <3>3. [term |-> m.term, ok |-> FALSE, conflictIndex |-> k] \in Reply
        BY <1>1 DEF Reply
      <3>4. QED
        BY <2>1, <3>2, <3>3, AnswerOk, AcceptLeaderTypes
    <2>3. QED
      BY <2>1, <2>2, AcceptLeaderTypes, Kept DEF TypeIInv, storeVars
  <1>5. CASE AcceptAppendEntries(m)
    <2>1. AcceptLeader(m) /\ ~EntryMissing(log[n], m)
      BY <1>5 DEF AcceptAppendEntries
    <2>2. ReplyTypes' /\ LateTypes'
      <3>1. Answer(m, Answered(m.term, TRUE)) /\ Answered(m.term, TRUE) \in Reply
        BY <1>1, <1>5, AnsweredOk DEF AcceptAppendEntries
      <3>2. QED
        BY <2>1, <3>1, AnswerOk, AcceptLeaderTypes
    <2>3. PICK k \in 1 .. Len(m.entries) + 1 :
             LET merged == Merge(log[n], m.prevLogIndex, m.entries, k)
                 commit == FollowerCommit(n, merged, m.leaderCommit)
             IN  /\ log' = [log EXCEPT ![n] = merged]
                 /\ commitIndex' = [commitIndex EXCEPT ![n] = commit]
                 /\ applyCommittedEntries(n, merged, commit)
      BY <1>5 DEF AcceptAppendEntries
    <2> DEFINE merged == Merge(log[n], m.prevLogIndex, m.entries, k)
               commit == FollowerCommit(n, merged, m.leaderCommit)
    <2>4. WellFormed(merged) /\ merged.snapshotIndex = log[n].snapshotIndex
      <3>1. /\ m.prevLogIndex \in Nat /\ m.entries \in Seq(Entry)
            /\ \A j \in 1 .. Len(m.entries) : m.entries[j].index = m.prevLogIndex + j
        BY <2>1, AcceptLeaderTypes DEF AppendEntriesArgs, Consecutive
      <3>2. WellFormed(log[n]) /\ getLastIndex(log[n]) \in Nat
        BY <1>1, LogLast DEF TypeIInv, LogTypes
      <3>3. m.prevLogIndex <= getLastIndex(log[n])
        BY <2>1, <3>1, <3>2 DEF EntryMissing
      <3>4. QED
        BY <3>1, <3>2, <3>3, MergeWellFormed
    <2> HIDE DEF merged
    <2>5. commit \in Nat /\ (commit <= commitIndex[n] \/ commit <= getLastIndex(merged))
      <3>1. m.leaderCommit \in Nat
        BY <2>1, AcceptLeaderTypes DEF AppendEntriesArgs
      <3>2. commitIndex[n] \in Nat /\ getLastIndex(merged) \in Nat
        BY <1>1, <2>4, LogLast DEF TypeIInv, StoreTypes
      <3>3. QED
        BY <3>1, <3>2, FollowerCommitOk
    <2> HIDE DEF commit
    <2>6. /\ log' = [log EXCEPT ![n] = merged]
          /\ commitIndex' = [commitIndex EXCEPT ![n] = commit]
          /\ applyCommittedEntries(n, merged, commit)
      BY <2>3 DEF merged, commit
    <2>7. currentTerm' \in [Server -> Nat]
      BY <2>1, AcceptLeaderTypes DEF ElectionTypes
    <2>8. StoreTypes' /\ BaseApplied' /\ LogTypes'
      BY <1>1, <2>4, <2>5, <2>6, <2>7, ApplyTypes
    <2>9. QED
      BY <2>1, <2>2, <2>8, AcceptLeaderTypes DEF TypeIInv
  <1>6. CASE handleInstallSnapshot(m)
    <2> DEFINE index == m.lastIncludedIndex
               lg == discardEntriesUpTo(log[n], index, m.lastIncludedTerm)
    <2>1. index \in Nat /\ m.lastIncludedTerm \in Nat /\ m.data \in Store
      BY <1>1, <1>6 DEF handleInstallSnapshot, GoodMessage, Message, InstallSnapshotArgs,
                        RequestVoteArgs, AppendEntriesArgs
    <2>2. ElectionTypes'
      BY <1>1, <1>6, BecomeFollowerTypes, Kept DEF handleInstallSnapshot
    <2>3. SnapshotTypes'
      BY <1>1, <1>6, <2>1 DEF handleInstallSnapshot, TypeIInv, SnapshotTypes
    <2>4. ReplyTypes' /\ LateTypes'
      <3>1. Answer(m, Answered(m.term, TRUE)) /\ Answered(m.term, TRUE) \in Reply
        BY <1>1, <1>6, AnsweredOk DEF handleInstallSnapshot
      <3>2. QED
        BY <1>6, <3>1, AnswerOk DEF handleInstallSnapshot, threadVars
    <2>5. /\ WellFormed(log[n]) /\ WellFormed(lg)
          /\ lg.snapshotIndex = IF index <= log[n].snapshotIndex
                                THEN log[n].snapshotIndex ELSE index
      BY <1>1, <2>1, DiscardWellFormed DEF TypeIInv, LogTypes
    <2>6. log' = [log EXCEPT ![n] = lg]
      BY <1>6 DEF handleInstallSnapshot
    <2>7. /\ lastApplied[n] \in Nat /\ commitIndex[n] \in Nat /\ commitIndex[n] <= lastApplied[n]
          /\ log[n].snapshotIndex <= lastApplied[n] /\ log[n].snapshotIndex \in Nat
      BY <1>1, <2>5, LogParts DEF TypeIInv, StoreTypes, BaseApplied, Parts
    <2> DEFINE k == IF index > lastApplied[n] THEN index ELSE lastApplied[n]
               c == IF index > commitIndex[n] THEN index ELSE commitIndex[n]
    <2>8. /\ lastApplied' = [lastApplied EXCEPT ![n] = k]
          /\ commitIndex' = [commitIndex EXCEPT ![n] = c]
          /\ k \in Nat /\ c \in Nat
      BY <1>6, <2>1, <2>7 DEF handleInstallSnapshot, Raise
    <2>9. lg.snapshotIndex <= k /\ c <= k
      BY <2>1, <2>5, <2>7
    <2> HIDE DEF lg, k, c
    <2>10. LogTypes'
      BY <1>1, <2>5, <2>6 DEF TypeIInv, LogTypes, WellFormed
    <2>11. StoreTypes'
      BY <1>1, <1>6, <2>1, <2>8 DEF handleInstallSnapshot, TypeIInv, StoreTypes, historyVars
    <2>12. BaseApplied'
      BY <1>1, <2>6, <2>8, <2>9 DEF TypeIInv, BaseApplied, LogTypes, StoreTypes
    <2>13. QED
      BY <1>6, <2>2, <2>3, <2>4, <2>10, <2>11, <2>12, Kept
         DEF handleInstallSnapshot, TypeIInv, historyVars, threadVars
  <1>7. QED
    BY <1>2, <1>3, <1>4, <1>5, <1>6 DEF Handle

----------------------------------------------------------------------------
LEMMA TypeStep == TypeIInv /\ [Next]_vars => TypeIInv'
  <1> SUFFICES ASSUME TypeIInv, [Next]_vars PROVE TypeIInv'
    OBVIOUS
  <1>1. ASSUME NEW n \in Server, NodeStep(n) PROVE TypeIInv'
    BY <1>1, ElectionThreadTypes, HeartbeatThreadTypes, OtherStepTypes DEF NodeStep
  <1>2. ASSUME NEW m \in Pending, Handle(m) PROVE TypeIInv'
    BY <1>2, HandlerTypes
  <1>3. CASE UNCHANGED vars
    BY <1>3, Kept DEF vars, TypeIInv, storeVars, threadVars, historyVars
  <1>4. QED
    BY <1>1, <1>2, <1>3 DEF Next

\* Every variable keeps its type and every log stays well formed: no handler
\* of RaftNode meets an entry it cannot append, or asks for one that is not
\* there, whatever the peers send, lose or delay.
THEOREM TypeCorrect == Spec => []TypeInvariant
  <1>1. Spec => []TypeIInv
    BY TypeInit, TypeStep, PTL DEF Spec
  <1>2. QED
    BY <1>1, TypeIInvImplies, PTL

----------------------------------------------------------------------------
(***************************************************************************)
(* Elections.                                                              *)
(*                                                                         *)
(* First: a node votes for at most one other node per term.  The vote of   *)
(* the current term is in votedFor as long as the node is a follower; a    *)
(* node that is no follower voted for itself, so clearing its votedFor     *)
(* when it steps down in its own term forgets no vote given to another.    *)
(*                                                                         *)
(* Second: the winners of an election have a majority of votes, and a term *)
(* has one winner unless it is an impostor's, that is, unless a deposed    *)
(* leader goes on sending in it.                                           *)
(***************************************************************************)

\* A grant of the current term is remembered in votedFor, by the nodes in up:
\* all of them as long as none stops (RaftRestartProofs).
GrantsRememberedBy(up) ==
    \A t \in Nat, v \in up, c \in Server :
        <<t, v, c>> \in granted
            => /\ c # v
               /\ t <= currentTerm[v]
               /\ t = currentTerm[v] => votedFor[v] = c /\ role[v] = "FOLLOWER"

SelfVotes == \A n \in Server : role[n] # "FOLLOWER" => votedFor[n] = n

Campaigns == \A n \in Server : pc[n] = "election" => role[n] = "CANDIDATE"

OneVote ==
    \A t \in Nat, v, a, b \in Server :
        <<t, v, a>> \in granted /\ <<t, v, b>> \in granted => a = b

VoteInvOf(up) == GrantsRememberedBy(up) /\ SelfVotes /\ Campaigns /\ OneVote

GrantsRemembered == GrantsRememberedBy(Server)

VoteInv == GrantsRemembered /\ SelfVotes /\ Campaigns /\ OneVote

LEMMA VoteInvOfAll == VoteInv <=> VoteInvOf(Server)
  BY DEF VoteInv, GrantsRemembered, VoteInvOf

LEMMA VoteInvImplies == HistoryTypes /\ VoteInv => OneVotePerTerm
  <1> SUFFICES ASSUME HistoryTypes, VoteInv,
                      NEW t \in {g[1] : g \in granted},
                      NEW v \in Server, NEW a \in Server, NEW b \in Server,
                      <<t, v, a>> \in granted, <<t, v, b>> \in granted
               PROVE  a = b
    BY DEF OneVotePerTerm
  <1>1. t \in Nat
    BY DEF HistoryTypes
  <1>2. QED
    BY <1>1 DEF VoteInv, OneVote

----------------------------------------------------------------------------
\* Node n goes to term t with vote x, role r and loop q.
Moves(n, t, x, r, q) ==
    /\ currentTerm' = [currentTerm EXCEPT ![n] = t]
    /\ votedFor' = [votedFor EXCEPT ![n] = x]
    /\ role' = [role EXCEPT ![n] = r]
    /\ pc' = [pc EXCEPT ![n] = q]

LEMMA MovesAt ==
    ASSUME TypeIInv, NEW n \in Server, NEW t, NEW x, NEW r, NEW q, Moves(n, t, x, r, q)
    PROVE  /\ currentTerm'[n] = t /\ votedFor'[n] = x /\ role'[n] = r /\ pc'[n] = q
           /\ \A k \in Server \ {n} :
                 /\ currentTerm'[k] = currentTerm[k] /\ votedFor'[k] = votedFor[k]
                 /\ role'[k] = role[k] /\ pc'[k] = pc[k]
  BY DEF TypeIInv, ElectionTypes, ThreadTypes, Moves

\* A follower that stays in its term keeps its vote; the others may forget
\* theirs, and whoever goes to a later term too.
LEMMA MoveKeepsVotes ==
    ASSUME TypeIInv, NEW up \in SUBSET Server, VoteInvOf(up),
           NEW n \in Server, n \in up, NEW t \in Nat, NEW x, NEW r, NEW q,
           Moves(n, t, x, r, q), granted' = granted,
           t >= currentTerm[n],
           t = currentTerm[n] /\ role[n] = "FOLLOWER" => x = votedFor[n] /\ r = "FOLLOWER",
           r # "FOLLOWER" => x = n,
           q = "election" => r = "CANDIDATE"
    PROVE  VoteInvOf(up)'
  <1>0. currentTerm[n] \in Nat
    BY DEF TypeIInv, ElectionTypes
  <1>1. ASSUME NEW s \in Nat, NEW v \in up, NEW c \in Server, <<s, v, c>> \in granted
        PROVE  /\ c # v
               /\ s <= currentTerm'[v]
               /\ s = currentTerm'[v] => votedFor'[v] = c /\ role'[v] = "FOLLOWER"
    <2>1. /\ c # v /\ s <= currentTerm[v]
          /\ s = currentTerm[v] => votedFor[v] = c /\ role[v] = "FOLLOWER"
      BY <1>1 DEF VoteInvOf, GrantsRememberedBy
    <2>2. CASE v = n
      BY <1>0, <2>1, <2>2, MovesAt
    <2>3. CASE v # n
      BY <2>1, <2>3, MovesAt
    <2>4. QED
      BY <2>2, <2>3
  <1>2. SelfVotes' /\ Campaigns'
    BY MovesAt DEF VoteInvOf, SelfVotes, Campaigns
  <1>3. QED
    BY <1>1, <1>2 DEF VoteInvOf, GrantsRememberedBy, OneVote

\* A grant, by a follower that has not voted or voted for the same node.
LEMMA GrantKeepsVotes ==
    ASSUME TypeIInv, NEW up \in SUBSET Server, VoteInvOf(up),
           NEW n \in Server, n \in up, NEW t \in Nat, NEW c \in Server,
           c # n, Moves(n, t, c, "FOLLOWER", "idle"),
           granted' = granted \cup {<<t, n, c>>},
           \/ t > currentTerm[n]
           \/ t = currentTerm[n] /\ votedFor[n] \in {Nil, c}
    PROVE  VoteInvOf(up)'
  <1>0. currentTerm[n] \in Nat /\ \A d \in Server : d # Nil
    BY ServerAssumption DEF TypeIInv, ElectionTypes
  <1>1. ASSUME NEW d \in Server, <<t, n, d>> \in granted PROVE d = c
    BY <1>0, <1>1 DEF VoteInvOf, GrantsRememberedBy
  <1>2. ASSUME NEW s \in Nat, NEW v \in up, NEW d \in Server, <<s, v, d>> \in granted'
        PROVE  /\ d # v
               /\ s <= currentTerm'[v]
               /\ s = currentTerm'[v] => votedFor'[v] = d /\ role'[v] = "FOLLOWER"
    <2>1. CASE <<s, v, d>> \in granted
      <3>1. /\ d # v /\ s <= currentTerm[v]
            /\ s = currentTerm[v] => votedFor[v] = d /\ role[v] = "FOLLOWER"
        BY <2>1 DEF VoteInvOf, GrantsRememberedBy
      <3>2. CASE v = n
        BY <1>0, <1>1, <2>1, <3>1, <3>2, MovesAt
      <3>3. CASE v # n
        BY <3>1, <3>3, MovesAt
      <3>4. QED
        BY <3>2, <3>3
    <2>2. CASE s = t /\ v = n /\ d = c
      BY <2>2, MovesAt
    <2>3. QED
      BY <1>2, <2>1, <2>2
  <1>3. SelfVotes' /\ Campaigns'
    BY MovesAt DEF VoteInvOf, SelfVotes, Campaigns
  <1>4. OneVote'
    <2>1. SUFFICES ASSUME NEW s \in Nat, NEW v \in Server, NEW a \in Server, NEW b \in Server,
                          <<s, v, a>> \in granted', <<s, v, b>> \in granted'
                   PROVE  a = b
      BY DEF OneVote
    <2>2. CASE s = t /\ v = n
      <3>1. \A d \in Server : <<t, n, d>> \in granted' => d = c
        BY <1>1
      <3>2. QED
        BY <2>1, <2>2, <3>1
    <2>3. CASE ~(s = t /\ v = n)
      <3>1. <<s, v, a>> \in granted /\ <<s, v, b>> \in granted
        BY <2>1, <2>3
      <3>2. QED
        BY <3>1 DEF VoteInvOf, OneVote
    <2>4. QED
      BY <2>2, <2>3
  <1>5. QED
    BY <1>2, <1>3, <1>4 DEF VoteInvOf, GrantsRememberedBy

----------------------------------------------------------------------------
\* The steps, as moves of one node.
LEMMA Stays ==
    ASSUME TypeIInv, NEW n \in Server, UNCHANGED <<currentTerm, votedFor, role>>,
           NEW q, pc' = [pc EXCEPT ![n] = q]
    PROVE  Moves(n, currentTerm[n], votedFor[n], role[n], q)
  BY DEF Moves, TypeIInv, ElectionTypes

LEMMA VoteInvKept ==
    ASSUME NEW up \in SUBSET Server, VoteInvOf(up),
           UNCHANGED <<currentTerm, votedFor, role, pc, granted>>
    PROVE  VoteInvOf(up)'
  BY DEF VoteInvOf, GrantsRememberedBy, SelfVotes, Campaigns, OneVote

\* A reply of a later term makes node n a follower.
LEMMA StepDownMoves ==
    ASSUME TypeIInv, NEW n \in Server, NEW t \in Nat, becomeFollower(n, t),
           NEW q, pc' = [pc EXCEPT ![n] = q]
    PROVE  Moves(n, t, Nil, "FOLLOWER", q)
  BY DEF Moves, becomeFollower

LEMMA VoteInvNode ==
    ASSUME TypeIInv, NEW up \in SUBSET Server, VoteInvOf(up), NEW n \in Server, n \in up,
           NodeStep(n)
    PROVE  VoteInvOf(up)'
  <1> USE DEF electionVars, threadVars, historyVars
  <1>0. currentTerm[n] \in Nat /\ role[n] \in Role
    BY DEF TypeIInv, ElectionTypes
  <1>1. CASE ElectionTimeout(n)
    <2>1. Moves(n, currentTerm[n] + 1, n, "CANDIDATE", "election") /\ granted' = granted
      BY <1>1 DEF ElectionTimeout, becomeCandidate, Moves
    <2> DEFINE t == currentTerm[n] + 1
    <2>2. /\ Moves(n, t, n, "CANDIDATE", "election")
          /\ t \in Nat /\ t >= currentTerm[n] /\ t # currentTerm[n]
      BY <1>0, <2>1
    <2> HIDE DEF t
    <2>3. QED
      BY <2>1, <2>2, MoveKeepsVotes
  <1>2. CASE ElectionStepsDown(n) \/ HeartbeatStepsDown(n)
    <2>1. becomeFollower(n, reply[n].term) /\ granted' = granted /\ reply[n].term > currentTerm[n]
      BY <1>2 DEF ElectionStepsDown, HeartbeatStepsDown
    <2>2. PICK q \in {"idle", "heartbeat"} : pc' = [pc EXCEPT ![n] = q]
      BY <1>2 DEF ElectionStepsDown, HeartbeatStepsDown, PeerDone, SendTo
    <2>3. reply[n].term \in Nat
      <3>1. reply[n] \in Reply
        BY <1>2 DEF ElectionStepsDown, HeartbeatStepsDown, HasReply, TypeIInv, ReplyTypes
      <3>2. QED
        BY <3>1 DEF Reply
    <2>4. Moves(n, reply[n].term, Nil, "FOLLOWER", q)
      BY <2>1, <2>2, <2>3, StepDownMoves
    <2>5. QED
      BY <1>0, <2>1, <2>2, <2>3, <2>4, MoveKeepsVotes
  <1>3. CASE WinElection(n)
    <2>1. /\ role[n] = "CANDIDATE" /\ votedFor[n] = n
      BY <1>3 DEF WinElection, VoteInvOf, Campaigns, SelfVotes
    <2>2. PICK q \in {"idle", "heartbeat"} : pc' = [pc EXCEPT ![n] = q]
      BY <1>3 DEF WinElection, SendTo
    <2>3. Moves(n, currentTerm[n], votedFor[n], "LEADER", q) /\ granted' = granted
      BY <1>3, <2>2 DEF WinElection, becomeLeader, Moves, TypeIInv, ElectionTypes
    <2>4. QED
      BY <1>0, <2>1, <2>2, <2>3, MoveKeepsVotes
  <1>4. CASE \/ LoseElection(n) \/ HeartbeatTick(n) \/ SnapshotSent(n)
             \/ AppendSucceeds(n) \/ AppendRejected(n)
    <2>1. UNCHANGED <<currentTerm, votedFor, role, granted>>
      BY <1>4 DEF LoseElection, HeartbeatTick, SnapshotSent, AppendSucceeds, AppendRejected
    <2>2. PICK q \in {"idle", "heartbeat"} : pc' = [pc EXCEPT ![n] = q]
      BY <1>4 DEF LoseElection, HeartbeatTick, SnapshotSent, AppendSucceeds, AppendRejected,
                  PeerDone, SendTo
    <2>3. Moves(n, currentTerm[n], votedFor[n], role[n], q)
      BY <2>1, <2>2, Stays
    <2>4. role[n] # "FOLLOWER" => votedFor[n] = n
      BY DEF VoteInvOf, SelfVotes
    <2>5. QED
      BY <1>0, <2>1, <2>2, <2>3, <2>4, MoveKeepsVotes
  <1>5. CASE \/ CountVote(n) \/ CallFails(n) \/ takeSnapshot(n)
             \/ \E c \in Command : handleClientRequest(n, c)
    <2>1. UNCHANGED <<currentTerm, votedFor, role, pc, granted>>
      BY <1>5 DEF CountVote, CallFails, takeSnapshot, handleClientRequest
    <2>2. QED
      BY <2>1, VoteInvKept
  <1>6. QED
    BY <1>1, <1>2, <1>3, <1>4, <1>5 DEF NodeStep

LEMMA NotStale ==
    ASSUME TypeIInv, NEW m \in Pending, ~Stale(m)
    PROVE  m.term >= currentTerm[m.to]
  <1>1. m.term \in Nat /\ currentTerm[m.to] \in Nat
    BY PendingGood DEF TypeIInv, ElectionTypes
  <1>2. QED
    BY <1>1 DEF Stale

\* Whoever accepts a leader's request is a follower in its term.
LEMMA AcceptLeaderMoves ==
    ASSUME TypeIInv, NEW m \in Pending, AcceptLeader(m)
    PROVE  /\ m.term >= currentTerm[m.to]
           /\ Moves(m.to, m.term, IF StepsDown(m.to, m) THEN Nil ELSE votedFor[m.to],
                    "FOLLOWER", "idle")
  <1> DEFINE n == m.to
  <1>1. n \in Server
    BY PendingGood
  <1>2. (IF StepsDown(n, m) THEN "FOLLOWER" ELSE role[n]) = "FOLLOWER"
    BY DEF StepsDown
  <1>3. m.term >= currentTerm[n]
    BY NotStale DEF AcceptLeader
  <1>4. pc' = [pc EXCEPT ![n] = "idle"]
    BY <1>1 DEF AcceptLeader, threadVars, TypeIInv, ThreadTypes
  <1>5. QED
    BY <1>2, <1>3, <1>4 DEF AcceptLeader, Moves

LEMMA VoteInvHandler ==
    ASSUME TypeIInv, NEW up \in SUBSET Server, VoteInvOf(up), NEW m \in Pending, m.to \in up,
           Handle(m)
    PROVE  VoteInvOf(up)'
  <1> USE DEF electionVars, threadVars, historyVars
  <1> DEFINE n == m.to
  <1>0. /\ n \in Server /\ n \in up /\ m.from \in Server /\ m.term \in Nat /\ m.from # n
        /\ currentTerm[n] \in Nat /\ role[n] \in Role /\ m.from # Nil /\ n # Nil
    BY PendingGood, ServerAssumption DEF GoodMessage, TypeIInv, ElectionTypes
  <1>1. CASE HandleStale(m)
    BY <1>1, VoteInvKept DEF HandleStale
  <1>2. CASE handleRequestVote(m)
    <2> DEFINE newer == m.term > currentTerm[n]
               grant == CanVote(n, m) /\ isLogUpToDate(log[n], m.lastLogIndex, m.lastLogTerm)
    <2>1. /\ m.term >= currentTerm[n]
          /\ Moves(n, m.term, IF grant THEN m.from ELSE IF newer THEN Nil ELSE votedFor[n],
                   IF newer THEN "FOLLOWER" ELSE role[n], "idle")
          /\ granted' = IF grant THEN granted \cup {<<m.term, n, m.from>>} ELSE granted
      BY <1>0, <1>2 DEF handleRequestVote, Stale, Moves, TypeIInv, ThreadTypes
    <2>2. CASE grant
      <3>1. newer \/ votedFor[n] \in {Nil, m.from}
        BY <2>2 DEF CanVote
      <3>2. newer \/ role[n] = "FOLLOWER"
        BY <1>0, <3>1 DEF VoteInvOf, SelfVotes
      <3>3. /\ Moves(n, m.term, m.from, "FOLLOWER", "idle")
            /\ granted' = granted \cup {<<m.term, n, m.from>>}
        BY <2>1, <2>2, <3>2
      <3>4. newer \/ m.term = currentTerm[n]
        BY <1>0, <2>1
      <3> HIDE DEF n
      <3>5. QED
        BY <1>0, <3>1, <3>3, <3>4, GrantKeepsVotes
    <2>3. CASE ~grant
      <3> DEFINE x == IF newer THEN Nil ELSE votedFor[n]
                 r == IF newer THEN "FOLLOWER" ELSE role[n]
      <3>1. /\ Moves(n, m.term, x, r, "idle")
            /\ granted' = granted
        BY <2>1, <2>3
      <3>2. /\ m.term = currentTerm[n] /\ role[n] = "FOLLOWER"
                  => x = votedFor[n] /\ r = "FOLLOWER"
            /\ r # "FOLLOWER" => x = n
        BY <1>0 DEF VoteInvOf, SelfVotes
      <3> HIDE DEF n, x, r
      <3>3. QED
        BY <1>0, <2>1, <3>1, <3>2, MoveKeepsVotes
    <2>4. QED
      BY <2>2, <2>3
  <1>3. CASE RejectAppendEntries(m) \/ AcceptAppendEntries(m)
    <2> DEFINE x == IF StepsDown(n, m) THEN Nil ELSE votedFor[n]
    <2>1. AcceptLeader(m)
      BY <1>3 DEF RejectAppendEntries, AcceptAppendEntries
    <2>2. /\ m.term >= currentTerm[n]
          /\ Moves(n, m.term, x, "FOLLOWER", "idle")
          /\ granted' = granted
      BY <2>1, AcceptLeaderMoves DEF AcceptLeader
    <2>3. m.term = currentTerm[n] /\ role[n] = "FOLLOWER" => x = votedFor[n]
      BY <1>0 DEF StepsDown
    <2> HIDE DEF n, x
    <2>4. QED
      BY <1>0, <2>2, <2>3, MoveKeepsVotes
  <1>4. CASE handleInstallSnapshot(m)
    <2>1. CASE m.term > currentTerm[n]
      <3>1. Moves(n, m.term, Nil, "FOLLOWER", "idle") /\ granted' = granted
        BY <1>4, <2>1 DEF handleInstallSnapshot, becomeFollower, Moves, TypeIInv, ThreadTypes
      <3> HIDE DEF n
      <3>2. QED
        BY <1>0, <2>1, <3>1, MoveKeepsVotes
    <2>2. CASE ~(m.term > currentTerm[n])
      BY <1>4, <2>2, VoteInvKept DEF handleInstallSnapshot
    <2>3. QED
      BY <2>1, <2>2
  <1>5. QED
    BY <1>1, <1>2, <1>3, <1>4 DEF Handle

LEMMA VoteInvInit == Init => VoteInv
  BY DEF Init, VoteInv, GrantsRemembered, GrantsRememberedBy, SelfVotes, Campaigns, OneVote

LEMMA VoteInvStep == TypeIInv /\ VoteInv /\ [Next]_vars => VoteInv'
  <1> SUFFICES ASSUME TypeIInv, VoteInv, [Next]_vars PROVE VoteInv'
    OBVIOUS
  <1>1. VoteInvOf(Server)
    BY VoteInvOfAll
  <1>2. CASE UNCHANGED vars
    BY <1>1, <1>2, VoteInvKept DEF vars, electionVars, threadVars, historyVars, VoteInvOf,
       VoteInv, GrantsRemembered
  <1>3. ASSUME NEW n \in Server, NodeStep(n) PROVE VoteInvOf(Server)'
    BY <1>1, <1>3, VoteInvNode
  <1>4. ASSUME NEW m \in Pending, Handle(m) PROVE VoteInvOf(Server)'
    BY <1>1, <1>4, PendingGood, VoteInvHandler
  <1>5. VoteInvOf(Server)' => VoteInv'
    BY VoteInvOfAll, PTL
  <1>6. QED
    BY <1>2, <1>3, <1>4, <1>5 DEF Next

LEMMA TypeAndVotes == Spec => [](TypeIInv /\ VoteInv)
  <1>1. Init => TypeIInv /\ VoteInv
    BY TypeInit, VoteInvInit
  <1>2. TypeIInv /\ VoteInv /\ [Next]_vars => (TypeIInv /\ VoteInv)'
    BY TypeStep, VoteInvStep
  <1>3. QED
    BY <1>1, <1>2, PTL DEF Spec

\* No node votes for two others in one term, with any number of nodes and
\* whatever deposed leaders keep sending (RaftNode.cpp:136-139 clears votedFor
\* within a term, and this forgets no vote for another node).
THEOREM VotesAreUnique == Spec => []OneVotePerTerm
  <1>1. TypeIInv /\ VoteInv => OneVotePerTerm
    BY VoteInvImplies DEF TypeIInv
  <1>2. QED
    BY <1>1, TypeAndVotes, PTL

----------------------------------------------------------------------------
\* A winner leads as long as it is in its term, unless an impostor deposes it.
WinsRemembered ==
    \A t \in Nat, a \in Server :
        <<t, a>> \in won
            => /\ t <= currentTerm[a]
               /\ t = currentTerm[a] /\ t \notin impostorTerms => role[a] = "LEADER"

\* It may stop and start again as a follower, and still has its own vote: what
\* the nodes in up remember.
WinsRememberedBy(up) ==
    \A t \in Nat, a \in up :
        <<t, a>> \in won
            => /\ t <= currentTerm[a]
               /\ t = currentTerm[a] /\ t \notin impostorTerms => votedFor[a] = a

LeadersWon == \A n \in Server : role[n] = "LEADER" => <<currentTerm[n], n>> \in won

\* Whoever sends as a leader won its term, or is the impostor of that term.
SentByWinner(t, n) == <<t, n>> \in won \/ t \in impostorTerms

SendersWon == \A n \in Server : pc[n] = "heartbeat" => SentByWinner(currentTerm[n], n)

LateSendersWon == \A m \in late : m.type # "RequestVote" => SentByWinner(m.term, m.from)

Voters(t, n) == {v \in PeerSet(n) : <<t, v, n>> \in granted}

WinnersQuorum ==
    \A t \in Nat, n \in Server : <<t, n>> \in won => IsMajority(n, Voters(t, n))

\* A winner gives its vote to nobody else in its term.
WinnersStand ==
    \A t \in Nat, b, c \in Server :
        <<t, b>> \in won /\ <<t, b, c>> \in granted => t \in impostorTerms

OneWinner ==
    \A t \in Nat, a, b \in Server :
        <<t, a>> \in won /\ <<t, b>> \in won /\ t \notin impostorTerms => a = b

\* The votes an election counts were granted in its term.
VotesCountedAt(n) ==
    IF pc[n] = "election"
    THEN /\ votesReceived[n] \subseteq Voters(currentTerm[n], n)
         /\ reply[n] # Nil /\ reply[n].ok => Head(todo[n]) \in Voters(currentTerm[n], n)
    ELSE votesReceived[n] = {}

VotesCounted == \A n \in Server : VotesCountedAt(n)

Elections ==
    /\ LeadersWon /\ SendersWon /\ LateSendersWon
    /\ WinnersQuorum /\ WinnersStand /\ OneWinner /\ VotesCounted

ElectionInv == WinsRemembered /\ Elections

\* What a step of a node in up preserves.
WinsKept(up) == WinsRememberedBy(up)' /\ (WinsRemembered => WinsRemembered')

LEMMA ElectionInvImplies ==
    ASSUME HistoryTypes, Elections
    PROVE  ElectionSafetyUnlessImpostor /\ WinnersHaveMajority
  <1>1. ElectionSafetyUnlessImpostor
    <2>1. SUFFICES ASSUME NEW w \in won, NEW x \in won, w[1] = x[1], w[1] \notin impostorTerms
                   PROVE  w = x
      BY DEF ElectionSafetyUnlessImpostor
    <2>2. /\ w = <<w[1], w[2]>> /\ x = <<x[1], x[2]>>
          /\ w[1] \in Nat /\ w[2] \in Server /\ x[2] \in Server
      BY DEF HistoryTypes
    <2>3. w[2] = x[2]
      BY <2>1, <2>2 DEF Elections, OneWinner
    <2>4. QED
      BY <2>1, <2>2, <2>3
  <1>2. WinnersHaveMajority
    <2>1. SUFFICES ASSUME NEW w \in won
                   PROVE  IsMajority(w[2], Voters(w[1], w[2]))
      BY DEF WinnersHaveMajority, Voters
    <2>2. w = <<w[1], w[2]>> /\ w[1] \in Nat /\ w[2] \in Server
      BY DEF HistoryTypes
    <2>3. QED
      BY <2>2 DEF Elections, WinnersQuorum
  <1>3. QED
    BY <1>1, <1>2

----------------------------------------------------------------------------
\* Majorities.
LEMMA PeersFinite ==
    ASSUME NEW n \in Server
    PROVE  /\ PeerSet(n) = Server \ {n} /\ IsFiniteSet(PeerSet(n)) /\ IsFiniteSet(Server)
           /\ Len(Peers[n]) + 1 = Cardinality(Server) /\ Cardinality(Server) \in Nat
  <1>1. PeerSet(n) = Server \ {n} /\ Len(Peers[n]) + 1 = Cardinality(Server)
    BY PeersAssumption
  <1>2. IsFiniteSet(Server)
    BY ServerAssumption
  <1>3. IsFiniteSet(Server \ {n})
    BY <1>2, FS_RemoveElement
  <1>4. QED
    BY <1>1, <1>2, <1>3, FS_CardinalityType

\* The votes of a majority, the node's own included.
LEMMA MajorityCount ==
    ASSUME NEW n \in Server, NEW A \in SUBSET PeerSet(n), IsMajority(n, A)
    PROVE  /\ A \cup {n} \subseteq Server
           /\ Cardinality(A \cup {n}) \in Nat
           /\ Cardinality(A \cup {n}) + Cardinality(A \cup {n}) > Cardinality(Server)
  <1> DEFINE N == Cardinality(Server)
  <1>1. /\ PeerSet(n) = Server \ {n} /\ IsFiniteSet(PeerSet(n))
        /\ Len(Peers[n]) + 1 = N /\ N \in Nat
    BY PeersFinite
  <1>2. IsFiniteSet(A) /\ Cardinality(A) \in Nat
    BY <1>1, FS_Subset, FS_CardinalityType
  <1>3. n \notin A
    BY <1>1
  <1>4. Cardinality(A \cup {n}) = Cardinality(A) + 1
    BY <1>2, <1>3, FS_AddElement
  <1>5. Cardinality(A) + 1 >= N \div 2 + 1
    BY <1>1 DEF IsMajority
  <1> HIDE DEF N
  <1>6. N < 2 * (N \div 2) + 2
    BY <1>1
  <1>7. QED
    BY <1>1, <1>2, <1>4, <1>5, <1>6 DEF N

\* Two majorities have a node in common.
LEMMA MajoritiesMeet ==
    ASSUME NEW a \in Server, NEW A \in SUBSET PeerSet(a), IsMajority(a, A),
           NEW b \in Server, NEW B \in SUBSET PeerSet(b), IsMajority(b, B)
    PROVE  (A \cup {a}) \cap (B \cup {b}) # {}
  <1> DEFINE S == A \cup {a}
             T == B \cup {b}
  <1>1. /\ S \subseteq Server /\ Cardinality(S) \in Nat
        /\ Cardinality(S) + Cardinality(S) > Cardinality(Server)
    BY MajorityCount
  <1>2. /\ T \subseteq Server /\ Cardinality(T) \in Nat
        /\ Cardinality(T) + Cardinality(T) > Cardinality(Server)
    BY MajorityCount
  <1>3. IsFiniteSet(Server) /\ Cardinality(Server) \in Nat
    BY PeersFinite
  <1> HIDE DEF S, T
  <1>4. Cardinality(S) + Cardinality(T) > Cardinality(Server)
    BY <1>1, <1>2, <1>3
  <1>5. S \cap T # {}
    BY <1>1, <1>2, <1>3, <1>4, FS_MajoritiesIntersect
  <1>6. QED
    BY <1>5 DEF S, T

\* More votes are a majority too.
LEMMA MajorityGrows ==
    ASSUME NEW n \in Server, NEW A \in SUBSET PeerSet(n), IsMajority(n, A),
           NEW B \in SUBSET PeerSet(n), A \subseteq B
    PROVE  IsMajority(n, B)
  <1>1. IsFiniteSet(B)
    BY PeersFinite, FS_Subset
  <1>2. /\ Cardinality(A) <= Cardinality(B) /\ Cardinality(B) \in Nat
        /\ Cardinality(A) \in Nat
    BY <1>1, FS_Subset, FS_CardinalityType
  <1>3. (Len(Peers[n]) + 1) \div 2 \in Nat
    <2>1. Len(Peers[n]) + 1 \in Nat
      BY PeersFinite
    <2>2. \A k \in Nat : k \div 2 \in Nat
      OBVIOUS
    <2>3. QED
      BY <2>1, <2>2
  <1> DEFINE half == (Len(Peers[n]) + 1) \div 2
  <1>4. Cardinality(A) + 1 >= half + 1
    BY DEF IsMajority
  <1>5. half \in Nat
    BY <1>3
  <1>6. Cardinality(B) + 1 >= half + 1 => IsMajority(n, B)
    BY DEF IsMajority
  <1> HIDE DEF half
  <1>7. QED
    BY <1>2, <1>4, <1>5, <1>6

----------------------------------------------------------------------------
\* What a step preserves in which nobody wins.
LEMMA QuorumsKept ==
    ASSUME TypeIInv, Elections, won' = won, granted \subseteq granted',
           impostorTerms \subseteq impostorTerms'
    PROVE  WinnersQuorum' /\ OneWinner'
  <1>1. OneWinner'
    BY DEF Elections, OneWinner
  <1>2. ASSUME NEW t \in Nat, NEW n \in Server, <<t, n>> \in won'
        PROVE  IsMajority(n, Voters(t, n)')
    <2>1. IsMajority(n, Voters(t, n))
      BY <1>2 DEF Elections, WinnersQuorum
    <2>2. /\ Voters(t, n) \in SUBSET PeerSet(n) /\ Voters(t, n)' \in SUBSET PeerSet(n)
          /\ Voters(t, n) \subseteq Voters(t, n)'
      BY DEF Voters
    <2>3. QED
      BY <2>1, <2>2, MajorityGrows
  <1>3. QED
    BY <1>1, <1>2 DEF WinnersQuorum, IsMajority

\* Node n moves.  It may cease to lead its term only to an impostor's request,
\* and starts to send only as the winner of its term or as its impostor.
LEMMA MoveKeepsWins ==
    ASSUME TypeIInv, NEW up \in SUBSET Server, WinsRememberedBy(up), Elections,
           NEW n \in Server, n \in up, NEW t \in Nat, NEW x, NEW r, NEW q,
           Moves(n, t, x, r, q), won' = won, impostorTerms \subseteq impostorTerms',
           t >= currentTerm[n],
           t = currentTerm[n] /\ <<t, n>> \in won /\ votedFor[n] = n
               => x = n \/ t \in impostorTerms',
           t = currentTerm[n] /\ role[n] = "LEADER" => r = "LEADER" \/ t \in impostorTerms',
           r = "LEADER" => role[n] = "LEADER" /\ t = currentTerm[n],
           q = "heartbeat" => SentByWinner(t, n)'
    PROVE  WinsKept(up) /\ LeadersWon' /\ SendersWon'
  <1>0. currentTerm[n] \in Nat /\ impostorTerms' \subseteq impostorTerms'
    BY DEF TypeIInv, ElectionTypes
  <1>1. ASSUME NEW s \in Nat, NEW a \in up, <<s, a>> \in won'
        PROVE  /\ s <= currentTerm'[a]
               /\ s = currentTerm'[a] /\ s \notin impostorTerms' => votedFor'[a] = a
    <2>1. /\ s <= currentTerm[a]
          /\ s = currentTerm[a] /\ s \notin impostorTerms => votedFor[a] = a
      BY <1>1 DEF WinsRememberedBy
    <2>2. CASE a = n
      BY <1>0, <1>1, <2>1, <2>2, MovesAt
    <2>3. CASE a # n
      BY <2>1, <2>3, MovesAt
    <2>4. QED
      BY <2>2, <2>3
  <1>5. ASSUME WinsRemembered, NEW s \in Nat, NEW a \in Server, <<s, a>> \in won'
        PROVE  /\ s <= currentTerm'[a]
               /\ s = currentTerm'[a] /\ s \notin impostorTerms' => role'[a] = "LEADER"
    <2>1. /\ s <= currentTerm[a]
          /\ s = currentTerm[a] /\ s \notin impostorTerms => role[a] = "LEADER"
      BY <1>5 DEF WinsRemembered
    <2>2. CASE a = n
      BY <1>0, <2>1, <2>2, MovesAt
    <2>3. CASE a # n
      BY <2>1, <2>3, MovesAt
    <2>4. QED
      BY <2>2, <2>3
  <1>2. ASSUME NEW a \in Server, role'[a] = "LEADER" PROVE <<currentTerm'[a], a>> \in won'
    <2>1. role[a] = "LEADER" => <<currentTerm[a], a>> \in won
      BY DEF Elections, LeadersWon
    <2>2. QED
      BY <1>2, <2>1, MovesAt
  <1>3. ASSUME NEW a \in Server, pc'[a] = "heartbeat" PROVE SentByWinner(currentTerm[a], a)'
    <2>1. pc[a] = "heartbeat" => SentByWinner(currentTerm[a], a)
      BY DEF Elections, SendersWon
    <2>2. QED
      BY <1>3, <2>1, MovesAt DEF SentByWinner
  <1>4. QED
    BY <1>1, <1>2, <1>3, <1>5 DEF WinsKept, WinsRememberedBy, WinsRemembered, LeadersWon, SendersWon

LEMMA StandKept ==
    ASSUME Elections, won' = won, granted' = granted, impostorTerms \subseteq impostorTerms'
    PROVE  WinnersStand'
  BY DEF Elections, WinnersStand

\* Requests that still arrive: fewer of them, or the same.
LEMMA LateSendersKept ==
    ASSUME Elections, won \subseteq won', impostorTerms \subseteq impostorTerms',
           late' \subseteq late
    PROVE  LateSendersWon'
  BY DEF Elections, LateSendersWon, SentByWinner

\* A request of a leader is the winner's or the impostor's of its term.
LEMMA PendingSender ==
    ASSUME TypeIInv, Elections, NEW m \in Pending, m.type # "RequestVote"
    PROVE  SentByWinner(m.term, m.from)
  <1>1. CASE m \in late
    BY <1>1 DEF Elections, LateSendersWon
  <1>2. CASE \E n \in Server : Waiting(n) /\ m = Request(n)
    <2>1. PICK n \in Server : Waiting(n) /\ m = Request(n)
      BY <1>2
    <2>2. pc[n] # "election"
      BY <2>1 DEF Request, RequestVote
    <2>3. pc[n] = "heartbeat"
      BY <2>1, <2>2 DEF TypeIInv, ThreadTypes, Pc, Waiting
    <2>4. m.from = n /\ m.term = currentTerm[n]
      BY <2>1, RequestGood
    <2>5. QED
      BY <2>3, <2>4 DEF Elections, SendersWon
  <1>3. QED
    BY <1>1, <1>2 DEF Pending

\* A step of node n does not touch the elections of the others.
SameElection(k) ==
    /\ pc'[k] = pc[k] /\ votesReceived'[k] = votesReceived[k]
    /\ reply'[k] = reply[k] /\ todo'[k] = todo[k] /\ currentTerm'[k] = currentTerm[k]

LEMMA VotesCountedElsewhere ==
    ASSUME TypeIInv, Elections, NEW n \in Server,
           granted \subseteq granted',
           \A k \in Server \ {n} : SameElection(k),
           VotesCountedAt(n)'
    PROVE  VotesCounted'
  <1>1. ASSUME NEW k \in Server \ {n}, pc'[k] = "election"
        PROVE  /\ votesReceived'[k] \subseteq Voters(currentTerm[k], k)'
               /\ reply'[k] # Nil /\ reply'[k].ok
                     => Head(todo'[k]) \in Voters(currentTerm[k], k)'
    <2>1. /\ votesReceived[k] \subseteq Voters(currentTerm[k], k)
          /\ reply[k] # Nil /\ reply[k].ok => Head(todo[k]) \in Voters(currentTerm[k], k)
      BY <1>1 DEF Elections, VotesCounted, VotesCountedAt, SameElection
    <2>2. Voters(currentTerm[k], k) \subseteq Voters(currentTerm[k], k)'
      BY DEF Voters, SameElection
    <2>3. QED
      BY <2>1, <2>2 DEF SameElection
  <1>2. ASSUME NEW k \in Server \ {n}, pc'[k] # "election"
        PROVE  votesReceived'[k] = {}
    BY <1>2 DEF Elections, VotesCounted, VotesCountedAt, SameElection
  <1>3. QED
    BY <1>1, <1>2 DEF VotesCounted, VotesCountedAt

LEMMA NodeStepLocal ==
    ASSUME TypeIInv, NEW n \in Server, NodeStep(n), NEW k \in Server \ {n}
    PROVE  SameElection(k)
  <1> USE DEF SameElection, electionVars, threadVars, TypeIInv, ElectionTypes, ThreadTypes,
              ReplyTypes
  <1>1. CASE ElectionTimeout(n)
    BY <1>1 DEF ElectionTimeout, becomeCandidate
  <1>2. CASE ElectionStepsDown(n)
    BY <1>2 DEF ElectionStepsDown, becomeFollower
  <1>3. CASE CountVote(n)
    BY <1>3 DEF CountVote
  <1>4. CASE WinElection(n)
    BY <1>4 DEF WinElection, becomeLeader, SendTo
  <1>5. CASE LoseElection(n)
    BY <1>5 DEF LoseElection
  <1>6. CASE HeartbeatTick(n)
    BY <1>6 DEF HeartbeatTick, SendTo
  <1>7. CASE HeartbeatStepsDown(n)
    BY <1>7 DEF HeartbeatStepsDown, becomeFollower, PeerDone, SendTo
  <1>8. CASE SnapshotSent(n) \/ AppendSucceeds(n) \/ AppendRejected(n)
    <2>1. PeerDone(n) /\ currentTerm' = currentTerm
      BY <1>8 DEF SnapshotSent, AppendSucceeds, AppendRejected
    <2>2. QED
      BY <2>1 DEF PeerDone, SendTo
  <1>9. CASE CallFails(n)
    BY <1>9 DEF CallFails
  <1>10. CASE takeSnapshot(n) \/ \E c \in Command : handleClientRequest(n, c)
    BY <1>10 DEF takeSnapshot, handleClientRequest
  <1>11. QED
    BY <1>1, <1>2, <1>3, <1>4, <1>5, <1>6, <1>7, <1>8, <1>9, <1>10 DEF NodeStep

----------------------------------------------------------------------------
\* The steps of the election thread.
LEMMA CountedUnlessElecting ==
    ASSUME TypeIInv, Elections, NEW n \in Server, pc'[n] # "election",
           votesReceived'[n] = {}
    PROVE  VotesCountedAt(n)'
  BY DEF VotesCountedAt

LEMMA ElectionInvTimeout ==
    ASSUME TypeIInv, NEW up \in SUBSET Server, VoteInvOf(up), WinsRememberedBy(up), Elections,
           NEW n \in Server, n \in up,
           ElectionTimeout(n)
    PROVE  WinsKept(up) /\ Elections'
  <1>1. /\ Moves(n, currentTerm[n] + 1, n, "CANDIDATE", "election")
        /\ UNCHANGED <<won, granted, impostorTerms, late, votesReceived, reply>>
        /\ pc[n] = "idle" /\ currentTerm[n] \in Nat
    BY DEF ElectionTimeout, becomeCandidate, Moves, historyVars, TypeIInv, ElectionTypes
  <1>2. WinsKept(up) /\ LeadersWon' /\ SendersWon'
    <2> DEFINE t == currentTerm[n] + 1
    <2>1. t \in Nat /\ t > currentTerm[n] /\ t # currentTerm[n] /\ t >= currentTerm[n]
      BY <1>1
    <2>2. Moves(n, t, n, "CANDIDATE", "election")
      BY <1>1
    <2> HIDE DEF t
    <2>3. QED
      BY <1>1, <2>1, <2>2, MoveKeepsWins
  <1>3. WinnersQuorum' /\ OneWinner' /\ WinnersStand' /\ LateSendersWon'
    BY <1>1, QuorumsKept, StandKept, LateSendersKept
  <1>4. VotesCountedAt(n)'
    <2>1. votesReceived'[n] = {} /\ reply'[n] = Nil
      BY <1>1 DEF Elections, VotesCounted, VotesCountedAt, TypeIInv, ThreadTypes, ReplyTypes
    <2>2. QED
      BY <2>1 DEF VotesCountedAt
  <1>5. VotesCounted'
    BY <1>1, <1>4, VotesCountedElsewhere, NodeStepLocal DEF NodeStep
  <1>6. QED
    BY <1>2, <1>3, <1>5 DEF Elections

LEMMA ElectionInvCountVote ==
    ASSUME TypeIInv, NEW up \in SUBSET Server, VoteInvOf(up), WinsRememberedBy(up), Elections,
           NEW n \in Server, n \in up,
           CountVote(n)
    PROVE  WinsKept(up) /\ Elections'
  <1>1. /\ UNCHANGED <<currentTerm, votedFor, role, pc, won, granted, impostorTerms, late>>
        /\ pc[n] = "election" /\ reply[n] # Nil /\ reply'[n] = Nil
    BY DEF CountVote, electionVars, historyVars, TypeIInv, ReplyTypes
  <1>2. WinsKept(up) /\ LeadersWon' /\ SendersWon'
    BY <1>1 DEF Elections, WinsKept, WinsRememberedBy, WinsRemembered, LeadersWon, SendersWon,
                SentByWinner
  <1>3. WinnersQuorum' /\ OneWinner' /\ WinnersStand' /\ LateSendersWon'
    BY <1>1, QuorumsKept, StandKept, LateSendersKept
  <1>4. VotesCountedAt(n)'
    <2>1. /\ votesReceived[n] \subseteq Voters(currentTerm[n], n)
          /\ reply[n].ok => Head(todo[n]) \in Voters(currentTerm[n], n)
      BY <1>1 DEF Elections, VotesCounted, VotesCountedAt
    <2>2. votesReceived'[n] = IF reply[n].ok THEN votesReceived[n] \cup {Head(todo[n])}
                                             ELSE votesReceived[n]
      BY DEF CountVote, TypeIInv, ThreadTypes
    <2>3. Voters(currentTerm[n], n)' = Voters(currentTerm[n], n)
      BY <1>1 DEF Voters
    <2>4. QED
      BY <1>1, <2>1, <2>2, <2>3 DEF VotesCountedAt
  <1>5. VotesCounted'
    BY <1>1, <1>4, VotesCountedElsewhere, NodeStepLocal DEF NodeStep
  <1>6. QED
    BY <1>2, <1>3, <1>5 DEF Elections

\* The majority of a new winner meets the majority of any other winner of its
\* term in a node that would have voted for both.
LEMMA ElectionInvWin ==
    ASSUME TypeIInv, NEW up \in SUBSET Server, VoteInvOf(up), WinsRememberedBy(up), Elections,
           NEW n \in Server, n \in up,
           WinElection(n)
    PROVE  WinsKept(up) /\ Elections'
  <1> DEFINE t == currentTerm[n]
  <1>1. /\ won' = won \cup {<<t, n>>}
        /\ UNCHANGED <<currentTerm, votedFor, granted, impostorTerms, late>>
        /\ role' = [role EXCEPT ![n] = "LEADER"]
        /\ votesReceived'[n] = {}
        /\ t \in Nat /\ pc[n] = "election" /\ IsMajority(n, votesReceived[n])
    BY DEF WinElection, becomeLeader, TypeIInv, ElectionTypes, ThreadTypes
  <1>2. role[n] = "CANDIDATE"
    BY <1>1 DEF VoteInvOf, Campaigns
  <1>3. PICK q \in {"idle", "heartbeat"} : pc' = [pc EXCEPT ![n] = q]
    BY DEF WinElection, SendTo
  <1>4. IsMajority(n, Voters(t, n))
    <2>1. votesReceived[n] \subseteq Voters(t, n) /\ Voters(t, n) \in SUBSET PeerSet(n)
      BY <1>1 DEF Elections, VotesCounted, VotesCountedAt, Voters
    <2>2. QED
      BY <1>1, <2>1, MajorityGrows
  <1>5. \A c \in Server : <<t, n, c>> \notin granted
    BY <1>1, <1>2 DEF VoteInvOf, GrantsRememberedBy
  <1>6. ASSUME NEW b \in Server, <<t, b>> \in won, t \notin impostorTerms
        PROVE  b = n
    <2>1. IsMajority(b, Voters(t, b))
      BY <1>1, <1>6 DEF Elections, WinnersQuorum
    <2>2. Voters(t, b) \in SUBSET PeerSet(b) /\ Voters(t, n) \in SUBSET PeerSet(n)
      BY DEF Voters
    <2>3. PICK v : v \in Voters(t, n) \cup {n} /\ v \in Voters(t, b) \cup {b}
      BY <1>4, <2>1, <2>2, MajoritiesMeet
    <2>4. CASE v \in Voters(t, n) /\ v \in Voters(t, b)
      <3>1. v \in Server /\ <<t, v, n>> \in granted /\ <<t, v, b>> \in granted
        BY <2>4, PeersFinite DEF Voters
      <3>2. QED
        BY <1>1, <3>1 DEF VoteInvOf, OneVote
    <2>5. CASE v = n /\ v \in Voters(t, b)
      BY <1>5, <2>5 DEF Voters
    <2>6. CASE v = b /\ v \in Voters(t, n)
      BY <1>1, <1>6, <2>6 DEF Voters, Elections, WinnersStand
    <2>7. QED
      BY <2>3, <2>4, <2>5, <2>6
  <1>7. role' \in [Server -> Role] /\ role'[n] = "LEADER" /\ pc'[n] = q
        /\ \A k \in Server \ {n} : role'[k] = role[k] /\ pc'[k] = pc[k]
    BY <1>1, <1>3 DEF TypeIInv, ElectionTypes, ThreadTypes, Role
  <1>8. WinsKept(up)
    <2>1. ASSUME NEW s \in Nat, NEW a \in up, <<s, a>> \in won'
          PROVE  /\ s <= currentTerm[a]
                 /\ s = currentTerm[a] /\ s \notin impostorTerms => votedFor[a] = a
      <3>1. CASE <<s, a>> \in won
        BY <3>1 DEF WinsRememberedBy
      <3>2. CASE s = t /\ a = n
        BY <1>1, <1>2, <3>2 DEF VoteInvOf, SelfVotes
      <3>3. QED
        BY <1>1, <2>1, <3>1, <3>2
    <2>2. ASSUME WinsRemembered, NEW s \in Nat, NEW a \in Server, <<s, a>> \in won'
          PROVE  /\ s <= currentTerm[a]
                 /\ s = currentTerm[a] /\ s \notin impostorTerms => role'[a] = "LEADER"
      <3>1. CASE <<s, a>> \in won
        BY <1>7, <2>2, <3>1 DEF WinsRemembered
      <3>2. CASE s = t /\ a = n
        BY <1>1, <1>7, <3>2
      <3>3. QED
        BY <1>1, <2>2, <3>1, <3>2
    <2>3. QED
      BY <1>1, <2>1, <2>2 DEF WinsKept, WinsRememberedBy, WinsRemembered
  <1>9. LeadersWon' /\ SendersWon'
    <2>1. ASSUME NEW a \in Server, role'[a] = "LEADER" PROVE <<currentTerm[a], a>> \in won'
      BY <1>1, <1>7, <2>1 DEF Elections, LeadersWon
    <2>2. ASSUME NEW a \in Server, pc'[a] = "heartbeat" PROVE SentByWinner(currentTerm[a], a)'
      <3>1. CASE a = n
        BY <1>1, <3>1 DEF SentByWinner
      <3>2. CASE a # n
        BY <1>1, <1>7, <2>2, <3>2 DEF Elections, SendersWon, SentByWinner
      <3>3. QED
        BY <3>1, <3>2
    <2>3. QED
      BY <1>1, <2>1, <2>2 DEF LeadersWon, SendersWon
  <1>10. LateSendersWon'
    BY <1>1, LateSendersKept
  <1>11. WinnersQuorum'
    <2>1. SUFFICES ASSUME NEW s \in Nat, NEW a \in Server, <<s, a>> \in won'
                   PROVE  IsMajority(a, Voters(s, a))
      BY <1>1 DEF WinnersQuorum, Voters, IsMajority
    <2>2. CASE <<s, a>> \in won
      BY <2>2 DEF Elections, WinnersQuorum
    <2>3. QED
      BY <1>1, <1>4, <2>1, <2>2
  <1>12. WinnersStand'
    BY <1>1, <1>5 DEF Elections, WinnersStand
  <1>13. OneWinner'
    <2>1. SUFFICES ASSUME NEW s \in Nat, NEW a \in Server, NEW b \in Server,
                          <<s, a>> \in won', <<s, b>> \in won', s \notin impostorTerms
                   PROVE  a = b
      BY <1>1 DEF OneWinner
    <2>2. CASE s # t
      BY <1>1, <2>1, <2>2 DEF Elections, OneWinner
    <2>3. CASE s = t
      <3>1. a = n /\ b = n
        BY <1>1, <1>6, <2>1, <2>3
      <3>2. QED
        BY <3>1
    <2>4. QED
      BY <2>2, <2>3
  <1>14. VotesCounted'
    <2>1. VotesCountedAt(n)'
      BY <1>1, <1>3, <1>7, CountedUnlessElecting
    <2>2. QED
      BY <1>1, <2>1, VotesCountedElsewhere, NodeStepLocal DEF NodeStep
  <1>15. QED
    BY <1>8, <1>9, <1>10, <1>11, <1>12, <1>13, <1>14 DEF Elections

\* A node steps down on a reply of a later term: in an election, which ends,
\* or in the heartbeat loop, which goes on as the impostor's of that term.
LEMMA ElectionInvStepsDown ==
    ASSUME TypeIInv, NEW up \in SUBSET Server, VoteInvOf(up), WinsRememberedBy(up), Elections,
           NEW n \in Server, n \in up,
           ElectionStepsDown(n) \/ HeartbeatStepsDown(n)
    PROVE  WinsKept(up) /\ Elections'
  <1> DEFINE t == reply[n].term
  <1>1. /\ becomeFollower(n, t) /\ t > currentTerm[n]
        /\ UNCHANGED <<won, granted, late>> /\ impostorTerms \subseteq impostorTerms'
    BY DEF ElectionStepsDown, HeartbeatStepsDown, PeerDone, historyVars
  <1>2. t \in Nat /\ currentTerm[n] \in Nat
    <2>1. reply[n] \in Reply
      BY DEF ElectionStepsDown, HeartbeatStepsDown, HasReply, TypeIInv, ReplyTypes
    <2>2. QED
      BY <2>1 DEF Reply, TypeIInv, ElectionTypes
  <1>3. /\ votesReceived'[n] = {}
        /\ \E q \in {"idle", "heartbeat"} :
              /\ pc' = [pc EXCEPT ![n] = q]
              /\ q = "heartbeat" => t \in impostorTerms'
    <2>1. CASE ElectionStepsDown(n)
      BY <2>1 DEF ElectionStepsDown, TypeIInv, ThreadTypes
    <2>2. CASE HeartbeatStepsDown(n)
      BY <2>2 DEF HeartbeatStepsDown, HasReply, PeerDone, SendTo, Elections, VotesCounted,
                  VotesCountedAt
    <2>3. QED
      BY <2>1, <2>2
  <1>4. PICK q \in {"idle", "heartbeat"} :
            /\ pc' = [pc EXCEPT ![n] = q]
            /\ q = "heartbeat" => t \in impostorTerms'
    BY <1>3
  <1>5. Moves(n, t, Nil, "FOLLOWER", q) /\ pc'[n] = q
    BY <1>1, <1>2, <1>4, StepDownMoves DEF TypeIInv, ThreadTypes
  <1>6. VotesCounted'
    <2>1. VotesCountedAt(n)'
      BY <1>3, <1>4, <1>5, CountedUnlessElecting
    <2>2. QED
      BY <1>1, <2>1, VotesCountedElsewhere, NodeStepLocal DEF NodeStep
  <1> HIDE DEF t
  <1>7. WinsKept(up) /\ LeadersWon' /\ SendersWon'
    <2>1. t >= currentTerm[n] /\ t # currentTerm[n]
      BY <1>1, <1>2
    <2>2. q = "heartbeat" => <<t, n>> \in won' \/ t \in impostorTerms'
      BY <1>4
    <2>3. QED
      BY <1>1, <1>2, <1>5, <2>1, <2>2, MoveKeepsWins DEF SentByWinner
  <1>8. WinnersQuorum' /\ OneWinner' /\ WinnersStand' /\ LateSendersWon'
    BY <1>1, QuorumsKept, StandKept, LateSendersKept
  <1>9. QED
    BY <1>6, <1>7, <1>8 DEF Elections

\* The other steps of a node leave its term, vote and role alone.
LEMMA ElectionInvStays ==
    ASSUME TypeIInv, NEW up \in SUBSET Server, VoteInvOf(up), WinsRememberedBy(up), Elections,
           NEW n \in Server, n \in up,
           \/ LoseElection(n) \/ HeartbeatTick(n) \/ SnapshotSent(n)
           \/ AppendSucceeds(n) \/ AppendRejected(n)
    PROVE  WinsKept(up) /\ Elections'
  <1> USE DEF electionVars, threadVars, historyVars
  <1>1. UNCHANGED <<currentTerm, votedFor, role, granted, won, impostorTerms, late>>
    BY DEF LoseElection, HeartbeatTick, SnapshotSent, AppendSucceeds, AppendRejected, PeerDone
  <1>2. PICK q \in {"idle", "heartbeat"} :
            /\ pc' = [pc EXCEPT ![n] = q]
            /\ q = "heartbeat" => pc[n] = "heartbeat" \/ role[n] = "LEADER"
    BY DEF LoseElection, HeartbeatTick, SnapshotSent, AppendSucceeds, AppendRejected,
           HasReply, PeerDone, SendTo
  <1>3. Moves(n, currentTerm[n], votedFor[n], role[n], q) /\ pc'[n] = q /\ currentTerm[n] \in Nat
    BY <1>1, <1>2, Stays DEF TypeIInv, ThreadTypes, ElectionTypes
  <1>4. q = "heartbeat" => SentByWinner(currentTerm[n], n)'
    <2>1. q = "heartbeat" => SentByWinner(currentTerm[n], n)
      BY <1>2 DEF Elections, SendersWon, LeadersWon, SentByWinner
    <2>2. QED
      BY <1>1, <2>1 DEF SentByWinner
  <1>5. WinsKept(up) /\ LeadersWon' /\ SendersWon'
    <2> DEFINE t == currentTerm[n]
    <2>1. SentByWinner(t, n)' <=> SentByWinner(currentTerm[n], n)'
      BY <1>1 DEF SentByWinner
    <2>2. t \in Nat /\ t >= currentTerm[n]
      BY <1>3
    <2>3. QED
      BY <1>1, <1>3, <1>4, <2>1, <2>2, MoveKeepsWins
  <1>6. WinnersQuorum' /\ OneWinner' /\ WinnersStand' /\ LateSendersWon'
    BY <1>1, QuorumsKept, StandKept, LateSendersKept
  <1>7. VotesCounted'
    <2>1. votesReceived'[n] = {}
      BY DEF LoseElection, HeartbeatTick, SnapshotSent, AppendSucceeds, AppendRejected,
             HasReply, PeerDone, Elections, VotesCounted, VotesCountedAt, TypeIInv, ThreadTypes
    <2>2. VotesCountedAt(n)'
      BY <1>2, <1>3, <2>1, CountedUnlessElecting
    <2>3. QED
      BY <1>1, <2>2, VotesCountedElsewhere, NodeStepLocal DEF NodeStep
  <1>8. QED
    BY <1>5, <1>6, <1>7 DEF Elections

LEMMA ElectionInvKept ==
    ASSUME NEW up, WinsRememberedBy(up), Elections,
           UNCHANGED <<currentTerm, votedFor, role, pc, votesReceived, reply, todo, late,
                       granted, won, impostorTerms>>
    PROVE  WinsKept(up) /\ Elections'
  BY DEF Elections, WinsKept, WinsRememberedBy, WinsRemembered, LeadersWon, SendersWon,
         LateSendersWon, SentByWinner,
         WinnersQuorum, WinnersStand, OneWinner, VotesCounted, VotesCountedAt, Voters, IsMajority

\* A failed call gives no vote; its request may still arrive.
LEMMA ElectionInvCallFails ==
    ASSUME TypeIInv, NEW up \in SUBSET Server, VoteInvOf(up), WinsRememberedBy(up), Elections,
           NEW n \in Server, n \in up,
           CallFails(n)
    PROVE  WinsKept(up) /\ Elections'
  <1>1. /\ UNCHANGED <<currentTerm, votedFor, role, pc, votesReceived, todo,
                       granted, won, impostorTerms>>
        /\ reply'[n] = Answered(currentTerm[n], FALSE)
    BY DEF CallFails, FailedReply, electionVars, threadVars, historyVars, TypeIInv, ReplyTypes
  <1>2. WinsKept(up) /\ LeadersWon' /\ SendersWon' /\ WinnersQuorum' /\ WinnersStand'
          /\ OneWinner'
    BY <1>1 DEF Elections, WinsKept, WinsRememberedBy, WinsRemembered, LeadersWon, SendersWon,
                SentByWinner, WinnersQuorum, WinnersStand, OneWinner, Voters, IsMajority
  <1>3. LateSendersWon'
    <2>1. CASE UNCHANGED late
      BY <1>1, <2>1, LateSendersKept
    <2>2. CASE reply[n] = Nil /\ late' = late \cup {Request(n)}
      <3>1. Request(n) \in Pending
        BY <2>2 DEF Pending, Waiting, CallFails
      <3>2. Request(n).type # "RequestVote" => SentByWinner(Request(n).term, Request(n).from)
        BY <3>1, PendingSender
      <3>3. QED
        BY <1>1, <2>2, <3>2 DEF Elections, LateSendersWon, SentByWinner
    <2>3. QED
      BY <2>1, <2>2 DEF CallFails
  <1>4. VotesCounted'
    <2>1. VotesCountedAt(n)'
      <3>1. reply'[n].ok = FALSE
        BY <1>1 DEF Answered
      <3>2. Voters(currentTerm[n], n)' = Voters(currentTerm[n], n)
        BY <1>1 DEF Voters
      <3>3. VotesCountedAt(n)
        BY DEF Elections, VotesCounted
      <3>4. QED
        BY <1>1, <3>1, <3>2, <3>3 DEF VotesCountedAt
    <2>2. QED
      BY <1>1, <2>1, VotesCountedElsewhere, NodeStepLocal DEF NodeStep
  <1>5. QED
    BY <1>2, <1>3, <1>4 DEF Elections

LEMMA ElectionInvNode ==
    ASSUME TypeIInv, NEW up \in SUBSET Server, VoteInvOf(up), WinsRememberedBy(up), Elections,
           NEW n \in Server, n \in up,
           NodeStep(n)
    PROVE  WinsKept(up) /\ Elections'
  <1>1. CASE takeSnapshot(n) \/ \E c \in Command : handleClientRequest(n, c)
    BY <1>1, ElectionInvKept
       DEF takeSnapshot, handleClientRequest, electionVars, threadVars, historyVars
  <1>2. QED
    BY <1>1, ElectionInvTimeout, ElectionInvCountVote, ElectionInvWin, ElectionInvStepsDown,
       ElectionInvStays, ElectionInvCallFails DEF NodeStep

----------------------------------------------------------------------------
\* A handler's result is a vote only if the handler granted it.
LEMMA AnswerVotes ==
    ASSUME TypeIInv, Elections, NEW m \in Pending, NEW rep \in Reply, Answer(m, rep),
           UNCHANGED threadVars, granted \subseteq granted', pc[m.to] = "idle",
           \A k \in Server \ {m.to} : currentTerm'[k] = currentTerm[k],
           m.type = "RequestVote" /\ rep.ok => <<m.term, m.to, m.from>> \in granted'
    PROVE  VotesCounted' /\ late' \subseteq late
  <1>1. m.from \in Server /\ m.to \in Server /\ m.from # m.to
    BY PendingGood DEF GoodMessage
  <1>2. SUFFICES ASSUME NEW k \in Server PROVE VotesCountedAt(k)'
    BY DEF VotesCounted, Answer
  <1>3. VotesCountedAt(k) /\ UNCHANGED <<pc, todo, votesReceived>>
    BY DEF Elections, VotesCounted, threadVars
  <1>4. CASE pc[k] # "election"
    BY <1>3, <1>4 DEF VotesCountedAt
  <1>5. CASE pc[k] = "election"
    <2>1. currentTerm'[k] = currentTerm[k]
      BY <1>5
    <2>2. Voters(currentTerm[k], k) \subseteq Voters(currentTerm[k], k)'
      BY <2>1 DEF Voters
    <2>3. CASE reply'[k] = reply[k]
      BY <1>3, <1>5, <2>2, <2>3 DEF VotesCountedAt
    <2>4. CASE k = m.from /\ Waiting(k) /\ m = Request(k) /\ reply'[k] = rep
      <3>1. /\ m.type = "RequestVote" /\ m.to = Head(todo[k]) /\ m.term = currentTerm[k]
        <4>1. m = RequestVote(k, Head(todo[k]))
          BY <1>5, <2>4 DEF Request
        <4>2. QED
          BY <4>1 DEF RequestVote
      <3>2. Head(todo[k]) \in Server \ {k}
        BY <1>1, <2>4, <3>1
      <3>3. rep.ok => Head(todo[k]) \in Voters(currentTerm[k], k)'
        BY <2>1, <2>4, <3>1, <3>2, PeersFinite DEF Voters
      <3>4. QED
        BY <1>3, <1>5, <2>2, <2>4, <3>3 DEF VotesCountedAt
    <2>5. QED
      BY <2>3, <2>4, <1>1 DEF Answer, TypeIInv, ReplyTypes
  <1>6. QED
    BY <1>4, <1>5

\* A node that follows a request of its own term or a later one.  If it led
\* this term, the request is an impostor's.
LEMMA FollowKeepsElections ==
    ASSUME TypeIInv, NEW up \in SUBSET Server, VoteInvOf(up), WinsRememberedBy(up), Elections,
           NEW m \in Pending, m.to \in up,
           m.type # "RequestVote", m.term >= currentTerm[m.to], pc[m.to] = "idle",
           NEW x, Moves(m.to, m.term, x, "FOLLOWER", "idle"),
           UNCHANGED <<granted, won, impostorTerms, threadVars>>,
           NEW rep \in Reply, Answer(m, rep)
    PROVE  WinsKept(up) /\ Elections'
  <1>1. m.from \in Server /\ m.to \in Server /\ m.from # m.to /\ m.term \in Nat
    BY PendingGood DEF GoodMessage
  <1>2. ASSUME <<m.term, m.to>> \in won PROVE m.term \in impostorTerms
    <2>2. <<m.term, m.from>> \in won \/ m.term \in impostorTerms
      BY PendingSender DEF SentByWinner
    <2>3. QED
      BY <1>1, <1>2, <2>2 DEF Elections, OneWinner
  <1> DEFINE n == m.to
             t == m.term
  <1>3. /\ n \in Server /\ n \in up /\ t \in Nat /\ t >= currentTerm[n]
        /\ Moves(n, t, x, "FOLLOWER", "idle")
        /\ <<t, n>> \in won => t \in impostorTerms'
        /\ t = currentTerm[n] /\ role[n] = "LEADER" => t \in impostorTerms'
    BY <1>1, <1>2 DEF Elections, LeadersWon
  <1>4. VotesCounted' /\ late' \subseteq late
    <2>1. \A k \in Server \ {n} : currentTerm'[k] = currentTerm[k]
      BY <1>3, MovesAt
    <2>2. QED
      BY <2>1, AnswerVotes
  <1> HIDE DEF n, t
  <1>5. WinsKept(up) /\ LeadersWon' /\ SendersWon'
    BY <1>3, MoveKeepsWins
  <1>6. WinnersQuorum' /\ OneWinner' /\ WinnersStand' /\ LateSendersWon'
    BY <1>4, QuorumsKept, StandKept, LateSendersKept
  <1>7. QED
    BY <1>4, <1>5, <1>6 DEF Elections

LEMMA ElectionInvRequestVote ==
    ASSUME TypeIInv, NEW up \in SUBSET Server, VoteInvOf(up), WinsRememberedBy(up), Elections,
           NEW m \in Pending, m.to \in up,
           handleRequestVote(m)
    PROVE  WinsKept(up) /\ Elections'
  <1> DEFINE n == m.to
             t == m.term
             newer == t > currentTerm[n]
             grant == CanVote(n, m) /\ isLogUpToDate(log[n], m.lastLogIndex, m.lastLogTerm)
             x == IF grant THEN m.from ELSE IF newer THEN Nil ELSE votedFor[n]
             r == IF newer THEN "FOLLOWER" ELSE role[n]
  <1>1. /\ m.from \in Server /\ n \in Server /\ m.from # n /\ t \in Nat
        /\ currentTerm[n] \in Nat /\ n # Nil
    BY PendingGood, ServerAssumption DEF GoodMessage, TypeIInv, ElectionTypes
  <1>2. /\ t >= currentTerm[n] /\ pc[n] = "idle"
        /\ Moves(n, t, x, r, "idle")
        /\ granted' = IF grant THEN granted \cup {<<t, n, m.from>>} ELSE granted
        /\ UNCHANGED <<won, impostorTerms, threadVars>>
        /\ Answer(m, Answered(t, grant))
    BY <1>1 DEF handleRequestVote, Stale, Moves, TypeIInv, ThreadTypes, threadVars
  <1>3. VotesCounted' /\ late' \subseteq late
    <2>1. \A k \in Server \ {n} : currentTerm'[k] = currentTerm[k]
      BY <1>1, <1>2, MovesAt
    <2>2. grant \in BOOLEAN
      BY DEF CanVote, isLogUpToDate
    <2>3. Answered(t, grant) \in Reply /\ Answered(t, grant).ok = grant
      BY <1>1, <2>2, AnsweredOk DEF Answered
    <2>4. grant => <<t, n, m.from>> \in granted'
      BY <1>2
    <2> HIDE DEF grant
    <2>5. QED
      BY <1>1, <1>2, <2>1, <2>3, <2>4, AnswerVotes
  <1>4. WinsKept(up) /\ LeadersWon' /\ SendersWon'
    <2>1. /\ n \in up
          /\ r = "LEADER" => role[n] = "LEADER" /\ t = currentTerm[n]
          /\ t = currentTerm[n] /\ role[n] = "LEADER" => r = "LEADER"
          /\ t = currentTerm[n] /\ votedFor[n] = n => x = n
      BY <1>1, <1>2 DEF CanVote
    <2> HIDE DEF n, t, x, r
    <2>2. QED
      BY <1>1, <1>2, <2>1, MoveKeepsWins
  <1>5. WinnersQuorum' /\ OneWinner' /\ LateSendersWon'
    BY <1>2, <1>3, QuorumsKept, LateSendersKept
  <1>6. ASSUME grant, <<t, n>> \in won PROVE t \in impostorTerms
    <2>1. t = currentTerm[n] /\ (t \notin impostorTerms => votedFor[n] = n)
      BY <1>1, <1>2, <1>6 DEF WinsRememberedBy
    <2>2. votedFor[n] \in {Nil, m.from}
      BY <1>1, <1>6, <2>1 DEF CanVote
    <2>3. QED
      BY <1>1, <2>1, <2>2
  <1>7. WinnersStand'
    BY <1>2, <1>6 DEF Elections, WinnersStand
  <1>8. QED
    BY <1>3, <1>4, <1>5, <1>7 DEF Elections

LEMMA ElectionInvHandler ==
    ASSUME TypeIInv, NEW up \in SUBSET Server, VoteInvOf(up), WinsRememberedBy(up), Elections,
           NEW m \in Pending, m.to \in up,
           Handle(m)
    PROVE  WinsKept(up) /\ Elections'
  <1> DEFINE n == m.to
  <1>0. /\ n \in Server /\ m.term \in Nat /\ currentTerm[n] \in Nat
    BY PendingGood DEF TypeIInv, ElectionTypes
  <1>1. ASSUME NEW rep \in Reply, Answer(m, rep), ~rep.ok \/ m.type # "RequestVote",
               UNCHANGED <<currentTerm, votedFor, role, granted, won, impostorTerms, threadVars>>,
               pc[n] = "idle"
        PROVE  WinsKept(up) /\ Elections'
    <2>1. VotesCounted' /\ late' \subseteq late
      BY <1>1, AnswerVotes
    <2>2. QED
      BY <1>1, <2>1, LateSendersKept
         DEF Elections, WinsKept, WinsRememberedBy, WinsRemembered, LeadersWon, SendersWon,
             SentByWinner,
             WinnersQuorum, WinnersStand, OneWinner, Voters, IsMajority, threadVars
  <1>2. CASE HandleStale(m)
    <2>1. Answered(currentTerm[n], FALSE) \in Reply /\ ~Answered(currentTerm[n], FALSE).ok
      BY <1>0, AnsweredOk DEF Answered
    <2>2. QED
      BY <1>1, <1>2, <2>1 DEF HandleStale, electionVars, historyVars
  <1>3. CASE RejectAppendEntries(m) \/ AcceptAppendEntries(m)
    <2> DEFINE x == IF StepsDown(n, m) THEN Nil ELSE votedFor[n]
    <2>1. AcceptLeader(m)
      BY <1>3 DEF RejectAppendEntries, AcceptAppendEntries
    <2>2. /\ m.term >= currentTerm[n] /\ pc[n] = "idle" /\ m.type # "RequestVote"
          /\ Moves(n, m.term, x, "FOLLOWER", "idle")
          /\ UNCHANGED <<granted, won, impostorTerms, threadVars>>
      BY <2>1, AcceptLeaderMoves DEF AcceptLeader
    <2>3. PICK rep \in Reply : Answer(m, rep)
      <3>1. CASE RejectAppendEntries(m)
        <4>1. /\ getLastIndex(log[n]) + 1 \in Nat
              /\ 1 .. m.prevLogIndex \subseteq Nat
          BY <1>0, LogLast DEF TypeIInv, LogTypes
        <4>2. \A k \in Nat : [term |-> m.term, ok |-> FALSE, conflictIndex |-> k] \in Reply
          BY <1>0 DEF Reply
        <4>3. \/ Answer(m, [term |-> m.term, ok |-> FALSE,
                            conflictIndex |-> getLastIndex(log[n]) + 1])
              \/ \E k \in 1 .. m.prevLogIndex :
                    Answer(m, [term |-> m.term, ok |-> FALSE, conflictIndex |-> k])
          BY <3>1 DEF RejectAppendEntries
        <4>4. QED
          BY <4>1, <4>2, <4>3
      <3>2. CASE AcceptAppendEntries(m)
        BY <1>0, <3>2, AnsweredOk DEF AcceptAppendEntries
      <3>3. QED
        BY <1>3, <3>1, <3>2
    <2> HIDE DEF x
    <2>4. QED
      BY <2>2, <2>3, FollowKeepsElections
  <1>4. CASE handleInstallSnapshot(m)
    <2>1. /\ Answered(m.term, TRUE) \in Reply /\ Answer(m, Answered(m.term, TRUE))
          /\ m.type # "RequestVote" /\ m.term >= currentTerm[n] /\ pc[n] = "idle"
          /\ UNCHANGED <<granted, won, impostorTerms, threadVars>>
      BY <1>0, <1>4, AnsweredOk, NotStale DEF handleInstallSnapshot, historyVars
    <2>2. CASE m.term > currentTerm[n]
      <3>1. Moves(n, m.term, Nil, "FOLLOWER", "idle")
        BY <1>4, <2>2 DEF handleInstallSnapshot, becomeFollower, Moves, TypeIInv, ThreadTypes, threadVars
      <3>2. QED
        BY <2>1, <3>1, FollowKeepsElections
    <2>3. CASE ~(m.term > currentTerm[n])
      BY <1>1, <1>4, <2>1, <2>3 DEF handleInstallSnapshot, electionVars
    <2>4. QED
      BY <2>2, <2>3
  <1>5. QED
    BY <1>2, <1>3, <1>4, ElectionInvRequestVote DEF Handle

LEMMA ElectionInvInit == Init => ElectionInv
  BY DEF Init, ElectionInv, Elections, WinsRemembered, LeadersWon, SendersWon, LateSendersWon,
         WinnersQuorum, WinnersStand, OneWinner, VotesCounted, VotesCountedAt

LEMMA ElectionInvStep == TypeIInv /\ VoteInv /\ ElectionInv /\ [Next]_vars => ElectionInv'
  <1> SUFFICES ASSUME TypeIInv, VoteInv, ElectionInv, [Next]_vars PROVE ElectionInv'
    OBVIOUS
  <1>1. VoteInvOf(Server) /\ WinsRememberedBy(Server) /\ Elections /\ WinsRemembered
    <2>1. WinsRememberedBy(Server)
      BY DEF VoteInv, SelfVotes, ElectionInv, WinsRemembered, WinsRememberedBy
    <2>2. QED
      BY <2>1, VoteInvOfAll DEF ElectionInv
  <1>2. WinsKept(Server) /\ Elections' => ElectionInv'
    BY <1>1 DEF WinsKept, ElectionInv
  <1>3. CASE UNCHANGED vars
    BY <1>1, <1>2, <1>3, ElectionInvKept DEF vars, electionVars, threadVars, historyVars
  <1>4. ASSUME NEW n \in Server, NodeStep(n) PROVE ElectionInv'
    BY <1>1, <1>2, <1>4, ElectionInvNode
  <1>5. ASSUME NEW m \in Pending, Handle(m) PROVE ElectionInv'
    BY <1>1, <1>2, <1>5, PendingGood, ElectionInvHandler
  <1>6. QED
    BY <1>3, <1>4, <1>5 DEF Next

LEMMA ElectionInvariant == Spec => [](TypeIInv /\ ElectionInv)
  <1>1. Init => ElectionInv
    BY ElectionInvInit
  <1>2. TypeIInv /\ VoteInv /\ ElectionInv /\ [Next]_vars => ElectionInv'
    BY ElectionInvStep
  <1>3. QED
    BY <1>1, <1>2, TypeAndVotes, PTL DEF Spec

\* Election Safety (README.md:287) in every term without an impostor: two nodes
\* that become leader in the same term are the same.
THEOREM ElectionSafetyHolds == Spec => []ElectionSafetyUnlessImpostor
  <1>1. TypeIInv /\ ElectionInv => ElectionSafetyUnlessImpostor
    BY ElectionInvImplies DEF TypeIInv, ElectionInv
  <1>2. QED
    BY <1>1, ElectionInvariant, PTL

\* Whoever becomes leader was granted a majority of votes in its term,
\* impostors or not.
THEOREM WinnersAreElected == Spec => []WinnersHaveMajority
  <1>1. TypeIInv /\ ElectionInv => WinnersHaveMajority
    BY ElectionInvImplies DEF TypeIInv, ElectionInv
  <1>2. QED
    BY <1>1, ElectionInvariant, PTL

----------------------------------------------------------------------------
(***************************************************************************)
(* What a node never does: it does not name a leader that was not elected, *)
(* remove an entry while it leads, let a rejection move it forward, or     *)
(* compact what nobody applied.                                            *)
(***************************************************************************)

NodeInv == TypeIInv /\ VoteInv /\ ElectionInv

LEMMA NodeInvariant == Spec => []NodeInv
  <1>1. TypeIInv /\ VoteInv /\ ElectionInv => NodeInv
    BY DEF NodeInv
  <1>2. QED
    BY <1>1, TypeAndVotes, ElectionInvariant, PTL

LEMMA NodeInvStep == NodeInv /\ [Next]_vars => NodeInv'
  BY TypeStep, VoteInvStep, ElectionInvStep DEF NodeInv

----------------------------------------------------------------------------
(***************************************************************************)
(* The leader a node names.                                                *)
(***************************************************************************)

\* Node n goes to term t and names h.
LEMMA HintsKept ==
    ASSUME TypeIInv, LeaderHintIsWinner, NEW n \in Server, NEW t, NEW h,
           currentTerm' = [currentTerm EXCEPT ![n] = t],
           currentLeaderId' = [currentLeaderId EXCEPT ![n] = h],
           won \subseteq won', impostorTerms \subseteq impostorTerms',
           h = Nil \/ <<t, h>> \in won' \/ t \in impostorTerms'
    PROVE  LeaderHintIsWinner'
  <1>1. ASSUME NEW k \in Server
        PROVE  \/ currentLeaderId'[k] = Nil
               \/ <<currentTerm'[k], currentLeaderId'[k]>> \in won'
               \/ currentTerm'[k] \in impostorTerms'
    <2>1. CASE k = n
      BY <2>1 DEF TypeIInv, ElectionTypes
    <2>2. CASE k # n
      <3>1. currentTerm'[k] = currentTerm[k] /\ currentLeaderId'[k] = currentLeaderId[k]
        BY <2>2 DEF TypeIInv, ElectionTypes
      <3>2. QED
        BY <3>1 DEF LeaderHintIsWinner
    <2>3. QED
      BY <2>1, <2>2
  <1>2. QED
    BY <1>1 DEF LeaderHintIsWinner

LEMMA HintsUnchanged ==
    ASSUME LeaderHintIsWinner, UNCHANGED <<currentTerm, currentLeaderId>>,
           won \subseteq won', impostorTerms \subseteq impostorTerms'
    PROVE  LeaderHintIsWinner'
  BY DEF LeaderHintIsWinner

LEMMA HintsNode ==
    ASSUME NodeInv, LeaderHintIsWinner, NEW n \in Server, NodeStep(n)
    PROVE  LeaderHintIsWinner'
  <1> USE DEF electionVars, historyVars
  <1>0. TypeIInv
    BY DEF NodeInv
  <1>1. CASE ElectionTimeout(n)
    BY <1>0, <1>1, HintsKept DEF ElectionTimeout, becomeCandidate
  <1>2. CASE ElectionStepsDown(n) \/ HeartbeatStepsDown(n)
    BY <1>0, <1>2, HintsKept DEF ElectionStepsDown, HeartbeatStepsDown, becomeFollower
  <1>3. CASE WinElection(n)
    <2>1. /\ currentTerm' = [currentTerm EXCEPT ![n] = currentTerm[n]]
          /\ currentLeaderId' = [currentLeaderId EXCEPT ![n] = n]
          /\ won' = won \cup {<<currentTerm[n], n>>} /\ impostorTerms' = impostorTerms
      BY <1>0, <1>3 DEF WinElection, becomeLeader, TypeIInv, ElectionTypes
    <2>2. QED
      BY <1>0, <2>1, HintsKept
  <1>4. CASE \/ CountVote(n) \/ LoseElection(n) \/ HeartbeatTick(n) \/ SnapshotSent(n)
             \/ AppendSucceeds(n) \/ AppendRejected(n) \/ CallFails(n) \/ takeSnapshot(n)
             \/ \E c \in Command : handleClientRequest(n, c)
    <2>1. UNCHANGED <<currentTerm, currentLeaderId, won, impostorTerms>>
      BY <1>4 DEF CountVote, LoseElection, HeartbeatTick, SnapshotSent, AppendSucceeds,
                  AppendRejected, CallFails, takeSnapshot, handleClientRequest
    <2>2. QED
      BY <2>1, HintsUnchanged
  <1>5. QED
    BY <1>1, <1>2, <1>3, <1>4 DEF NodeStep

LEMMA HintsHandler ==
    ASSUME NodeInv, LeaderHintIsWinner, NEW m \in Pending, Handle(m)
    PROVE  LeaderHintIsWinner'
  <1> DEFINE n == m.to
  <1>0. TypeIInv /\ ElectionInv /\ n \in Server /\ m.term \in Nat /\ currentTerm[n] \in Nat
    BY PendingGood DEF NodeInv, TypeIInv, ElectionTypes
  <1>1. CASE HandleStale(m)
    BY <1>1, HintsUnchanged DEF HandleStale, electionVars, historyVars
  <1>2. CASE handleRequestVote(m)
    <2> DEFINE h == IF m.term > currentTerm[n] THEN Nil ELSE currentLeaderId[n]
    <2>1. /\ currentTerm' = [currentTerm EXCEPT ![n] = m.term]
          /\ currentLeaderId' = [currentLeaderId EXCEPT ![n] = h]
          /\ UNCHANGED <<won, impostorTerms>>
      BY <1>2 DEF handleRequestVote
    <2>2. ~(m.term > currentTerm[n]) => m.term = currentTerm[n]
      BY <1>0, <1>2 DEF handleRequestVote, Stale
    <2>3. h = Nil \/ <<m.term, h>> \in won' \/ m.term \in impostorTerms'
      BY <1>0, <2>1, <2>2 DEF LeaderHintIsWinner
    <2> HIDE DEF h
    <2>4. QED
      BY <1>0, <2>1, <2>3, HintsKept
  <1>3. CASE RejectAppendEntries(m) \/ AcceptAppendEntries(m)
    <2>1. AcceptLeader(m)
      BY <1>3 DEF RejectAppendEntries, AcceptAppendEntries
    <2>2. /\ currentTerm' = [currentTerm EXCEPT ![n] = m.term]
          /\ currentLeaderId' = [currentLeaderId EXCEPT ![n] = m.from]
          /\ UNCHANGED <<won, impostorTerms>> /\ m.type # "RequestVote"
      BY <2>1 DEF AcceptLeader
    <2>3. <<m.term, m.from>> \in won \/ m.term \in impostorTerms
      BY <1>0, <2>2, PendingSender DEF SentByWinner, ElectionInv
    <2>4. QED
      BY <1>0, <2>2, <2>3, HintsKept
  <1>4. CASE handleInstallSnapshot(m)
    <2>1. CASE m.term > currentTerm[n]
      BY <1>0, <1>4, <2>1, HintsKept DEF handleInstallSnapshot, becomeFollower, historyVars
    <2>2. CASE ~(m.term > currentTerm[n])
      BY <1>4, <2>2, HintsUnchanged DEF handleInstallSnapshot, electionVars, historyVars
    <2>3. QED
      BY <2>1, <2>2
  <1>5. QED
    BY <1>1, <1>2, <1>3, <1>4 DEF Handle

\* The leader a node names to clients was elected in the node's term, unless a
\* deposed leader sends in that term: currentLeaderId is the sender of an
\* AppendEntries request (RaftNode.cpp:133-143), which only winners and
\* impostors send, and is forgotten with every change of the term.
THEOREM LeaderHintsAreRight == Spec => []LeaderHintIsWinner
  <1>1. Init => LeaderHintIsWinner
    BY DEF Init, LeaderHintIsWinner
  <1>2. NodeInv /\ LeaderHintIsWinner /\ [Next]_vars => LeaderHintIsWinner'
    <2> SUFFICES ASSUME NodeInv, LeaderHintIsWinner, [Next]_vars PROVE LeaderHintIsWinner'
      OBVIOUS
    <2>1. CASE UNCHANGED vars
      BY <2>1, HintsUnchanged DEF vars, electionVars, historyVars
    <2>2. QED
      BY <2>1, HintsNode, HintsHandler DEF Next
  <1>3. QED
    BY <1>1, <1>2, NodeInvariant, PTL DEF Spec

----------------------------------------------------------------------------
(***************************************************************************)
(* A leader's log.                                                         *)
(***************************************************************************)

\* A node that led before a step and leads after it did not take over a request.
LEMMA LeaderLogStep ==
    ASSUME TypeIInv, [Next]_vars, NEW n \in Server, role[n] = "LEADER", role'[n] = "LEADER"
    PROVE  KeepsEntries(log[n], log'[n])
  <1>0. WellFormed(log[n]) /\ log \in [Server -> Log] /\ currentTerm[n] \in Nat
    BY DEF TypeIInv, LogTypes, ElectionTypes
  <1>1. ASSUME log'[n] = log[n] PROVE KeepsEntries(log[n], log'[n])
    BY <1>0, <1>1, SameKeepsEntries
  <1>2. ASSUME NEW k \in Server, NodeStep(k) PROVE KeepsEntries(log[n], log'[n])
    <2>1. CASE UNCHANGED log
      BY <1>1, <2>1
    <2>2. CASE takeSnapshot(k)
      <3>1. CASE k # n
        BY <1>0, <1>1, <2>2, <3>1 DEF takeSnapshot
      <3>2. CASE k = n
        <4> DEFINE index == lastApplied[n]
                   term  == getTerm(log[n], index)
        <4>1. log'[n] = discardEntriesUpTo(log[n], index, term)
          BY <1>0, <2>2, <3>2 DEF takeSnapshot, SnapshotPoint
        <4>2. index \in Nat /\ term \in Nat
          BY <1>0, LogGetTerm DEF TypeIInv, StoreTypes
        <4> HIDE DEF index, term
        <4>3. QED
          BY <1>0, <4>1, <4>2, DiscardKeepsEntries
      <3>3. QED
        BY <3>1, <3>2
    <2>3. CASE \E c \in Command : handleClientRequest(k, c)
      <3>1. PICK c \in Command : handleClientRequest(k, c)
        BY <2>3
      <3>2. CASE k # n
        BY <1>0, <1>1, <3>1, <3>2 DEF handleClientRequest
      <3>3. CASE k = n
        <4>1. log'[n] = append(log[n], NewEntry(n, c))
          BY <1>0, <3>1, <3>3 DEF handleClientRequest
        <4>2. NewEntry(n, c) \in Entry
          BY <1>0, LogLast DEF NewEntry, Entry, Payload
        <4>3. QED
          BY <1>0, <4>1, <4>2, AppendKeepsEntries
      <3>4. QED
        BY <3>2, <3>3
    <2>4. QED
      BY <1>2, <2>1, <2>2, <2>3
         DEF NodeStep, ElectionTimeout, ElectionStepsDown, CountVote, WinElection, LoseElection,
             HeartbeatTick, HeartbeatStepsDown, SnapshotSent, AppendSucceeds, AppendRejected,
             CallFails
  <1>3. ASSUME NEW m \in Pending, Handle(m) PROVE KeepsEntries(log[n], log'[n])
    <2>0. m.to \in Server /\ GoodMessage(m)
      BY PendingGood
    <2>1. CASE HandleStale(m) \/ handleRequestVote(m) \/ RejectAppendEntries(m)
      BY <1>1, <2>1 DEF HandleStale, handleRequestVote, RejectAppendEntries
    <2>2. CASE AcceptAppendEntries(m)
      <3>1. CASE m.to # n
        <4>1. log'[n] = log[n]
          BY <1>0, <2>2, <3>1 DEF AcceptAppendEntries
        <4>2. QED
          BY <1>1, <4>1
      <3>2. CASE m.to = n
        <4>1. AcceptLeader(m)
          BY <2>2 DEF AcceptAppendEntries
        <4>2. role'[n] = "FOLLOWER"
          BY <3>2, <4>1, AcceptLeaderMoves, MovesAt
        <4>3. QED
          BY <4>2
      <3>3. QED
        BY <3>1, <3>2
    <2>3. CASE handleInstallSnapshot(m)
      <3>1. CASE m.to # n
        BY <1>0, <1>1, <2>3, <3>1 DEF handleInstallSnapshot
      <3>2. CASE m.to = n
        <4>1. log'[n] = discardEntriesUpTo(log[n], m.lastIncludedIndex, m.lastIncludedTerm)
          BY <1>0, <2>3, <3>2 DEF handleInstallSnapshot
        <4>2. m.lastIncludedIndex \in Nat /\ m.lastIncludedTerm \in Nat
          BY <2>0, <2>3 DEF handleInstallSnapshot, GoodMessage, Message, InstallSnapshotArgs,
                            RequestVoteArgs, AppendEntriesArgs
        <4>3. QED
          BY <1>0, <4>1, <4>2, DiscardKeepsEntries
      <3>3. QED
        BY <3>1, <3>2
    <2>4. QED
      BY <1>3, <2>1, <2>2, <2>3 DEF Handle
  <1>4. CASE UNCHANGED vars
    BY <1>1, <1>4 DEF vars
  <1>5. QED
    BY <1>2, <1>3, <1>4 DEF Next

\* Leader Append-Only (README.md:288): as long as a node leads, whatever a
\* deposed leader sends it and whatever is compacted, it removes no entry that
\* its snapshot does not cover and overwrites none.
THEOREM LeadersOnlyAppend == Spec => LeaderAppendOnly
  <1>1. TypeIInv /\ [Next]_vars
          => \A n \in Server :
                role[n] = "LEADER" /\ role'[n] = "LEADER"
                  => \A i \in log'[n].snapshotIndex + 1 .. getLastIndex(log[n]) :
                        /\ HasEntry(log'[n], i)
                        /\ HasEntry(log[n], i) => getEntry(log'[n], i) = getEntry(log[n], i)
    BY LeaderLogStep DEF KeepsEntries
  <1>2. Spec => []TypeIInv
    BY TypeInit, TypeStep, PTL DEF Spec
  <1>3. QED
    BY <1>1, <1>2, PTL DEF Spec, LeaderAppendOnly

----------------------------------------------------------------------------
(***************************************************************************)
(* Replies, and what they make of nextIndex.                               *)
(***************************************************************************)

\* A handler's reply names no conflict beyond the prevLogIndex of the request.
LEMMA HandlerReplies ==
    ASSUME TypeIInv, NEW m \in Pending, Handle(m)
    PROVE  /\ UNCHANGED <<leaderVars, threadVars>>
           /\ \E rep \in Reply :
                 /\ Answer(m, rep)
                 /\ \/ rep.conflictIndex = 0
                    \/ /\ m.type = "AppendEntries" /\ ~rep.ok
                       /\ rep.conflictIndex <= m.prevLogIndex
  <1> DEFINE n == m.to
  <1>0. n \in Server /\ m.term \in Nat /\ currentTerm[n] \in Nat
    BY PendingGood DEF TypeIInv, ElectionTypes
  <1>1. ASSUME NEW t \in Nat, NEW ok \in BOOLEAN, Answer(m, Answered(t, ok))
        PROVE  \E rep \in Reply : Answer(m, rep) /\ rep.conflictIndex = 0
    <2>1. Answered(t, ok) \in Reply /\ Answered(t, ok).conflictIndex = 0
      BY AnsweredOk DEF Answered
    <2>2. QED
      BY <1>1, <2>1
  <1>2. CASE HandleStale(m)
    BY <1>0, <1>1, <1>2 DEF HandleStale
  <1>3. CASE handleRequestVote(m)
    <2>1. PICK grant \in BOOLEAN : Answer(m, Answered(m.term, grant))
      BY <1>3 DEF handleRequestVote, CanVote, isLogUpToDate
    <2>2. QED
      BY <1>0, <1>1, <1>3, <2>1 DEF handleRequestVote
  <1>4. CASE RejectAppendEntries(m)
    <2>1. AcceptLeader(m)
      BY <1>4 DEF RejectAppendEntries
    <2>2. m.prevLogIndex \in Nat /\ m.type = "AppendEntries"
      BY <2>1, AcceptLeaderTypes DEF AppendEntriesArgs, AcceptLeader
    <2>3. getLastIndex(log[n]) \in Nat
      BY <1>0, LogLast DEF TypeIInv, LogTypes
    <2>4. PICK k \in Nat : /\ k <= m.prevLogIndex
                           /\ Answer(m, [term |-> m.term, ok |-> FALSE, conflictIndex |-> k])
      <3>1. CASE /\ EntryMissing(log[n], m)
                 /\ Answer(m, [term |-> m.term, ok |-> FALSE,
                               conflictIndex |-> getLastIndex(log[n]) + 1])
        <4>1. getLastIndex(log[n]) + 1 \in Nat /\ getLastIndex(log[n]) + 1 <= m.prevLogIndex
          BY <2>2, <2>3, <3>1 DEF EntryMissing
        <4>2. QED
          BY <3>1, <4>1
      <3>2. CASE \E k \in 1 .. m.prevLogIndex :
                    Answer(m, [term |-> m.term, ok |-> FALSE, conflictIndex |-> k])
        <4>1. PICK k \in 1 .. m.prevLogIndex :
                 Answer(m, [term |-> m.term, ok |-> FALSE, conflictIndex |-> k])
          BY <3>2
        <4>2. k \in Nat /\ k <= m.prevLogIndex
          BY <2>2
        <4>3. QED
          BY <4>1, <4>2
      <3>3. QED
        BY <1>4, <3>1, <3>2 DEF RejectAppendEntries
    <2>5. [term |-> m.term, ok |-> FALSE, conflictIndex |-> k] \in Reply
      BY <1>0 DEF Reply
    <2>6. QED
      BY <2>1, <2>2, <2>4, <2>5 DEF AcceptLeader
  <1>5. CASE AcceptAppendEntries(m)
    <2>1. AcceptLeader(m) /\ Answer(m, Answered(m.term, TRUE))
      BY <1>5 DEF AcceptAppendEntries
    <2>2. QED
      BY <1>0, <1>1, <2>1 DEF AcceptLeader
  <1>6. CASE handleInstallSnapshot(m)
    BY <1>0, <1>1, <1>6 DEF handleInstallSnapshot
  <1>7. QED
    BY <1>2, <1>3, <1>4, <1>5, <1>6 DEF Handle

\* What an answer does to the reply of node n.
LEMMA AnswerReply ==
    ASSUME TypeIInv, NEW m \in Pending, NEW rep \in Reply, Answer(m, rep), NEW n \in Server
    PROVE  \/ reply'[n] = reply[n]
           \/ n = m.from /\ Waiting(n) /\ m = Request(n) /\ reply'[n] = rep
  BY DEF Answer, TypeIInv, ReplyTypes

\* The conflictIndex of a rejection lies below the nextIndex it answers.
HintsAreBehind ==
    \A n \in Server : HasReply(n) =>
        \/ reply[n].conflictIndex = 0
        \/ reply[n].conflictIndex < nextIndex[n][Head(todo[n])]

LEMMA HintsAreBehindNode ==
    ASSUME TypeIInv, HintsAreBehind, NEW n \in Server, NodeStep(n)
    PROVE  HintsAreBehind'
  <1>1. ASSUME NEW k \in Server \ {n}, HasReply(k)'
        PROVE  \/ reply'[k].conflictIndex = 0
               \/ reply'[k].conflictIndex < nextIndex'[k][Head(todo'[k])]
    <2>1. SameElection(k)
      BY NodeStepLocal
    <2>2. nextIndex'[k] = nextIndex[k]
      BY DEF NodeStep, ElectionTimeout, ElectionStepsDown, CountVote, WinElection,
             becomeLeader, LoseElection, HeartbeatTick, HeartbeatStepsDown, SnapshotSent,
             AppendSucceeds, AppendRejected, CallFails, takeSnapshot, handleClientRequest,
             leaderVars, TypeIInv, LeaderTypes
    <2>3. HasReply(k)
      BY <1>1, <2>1 DEF HasReply, SameElection
    <2>4. QED
      BY <2>1, <2>2, <2>3 DEF HintsAreBehind, SameElection
  <1>2. ASSUME HasReply(n)'
        PROVE  \/ reply'[n].conflictIndex = 0
               \/ reply'[n].conflictIndex < nextIndex'[n][Head(todo'[n])]
    <2> USE DEF TypeIInv, ThreadTypes, ReplyTypes
    <2>1. CASE ElectionTimeout(n) \/ ElectionStepsDown(n) \/ LoseElection(n) \/ CountVote(n)
      <3>1. pc'[n] # "heartbeat"
        BY <2>1 DEF ElectionTimeout, ElectionStepsDown, LoseElection, CountVote
      <3>2. QED
        BY <1>2, <3>1 DEF HasReply
    <2>2. CASE WinElection(n) \/ HeartbeatTick(n)
      <3>1. todo[n] = <<>> /\ reply' = reply
        BY <2>2 DEF WinElection, HeartbeatTick
      <3>2. QED
        BY <1>2, <3>1 DEF HasReply
    <2>3. CASE HeartbeatStepsDown(n) \/ SnapshotSent(n) \/ AppendSucceeds(n) \/ AppendRejected(n)
      <3>1. PeerDone(n)
        BY <2>3 DEF HeartbeatStepsDown, SnapshotSent, AppendSucceeds, AppendRejected
      <3>2. QED
        BY <1>2, <3>1 DEF HasReply, PeerDone
    <2>4. CASE CallFails(n)
      <3>1. reply'[n] = FailedReply(n)
        BY <2>4 DEF CallFails
      <3>2. QED
        BY <3>1 DEF FailedReply, Answered
    <2>5. CASE takeSnapshot(n) \/ \E c \in Command : handleClientRequest(n, c)
      <3>1. UNCHANGED <<pc, reply, todo, nextIndex>>
        BY <2>5 DEF takeSnapshot, handleClientRequest, threadVars, leaderVars
      <3>2. QED
        BY <1>2, <3>1 DEF HasReply, HintsAreBehind
    <2>6. QED
      BY <2>1, <2>2, <2>3, <2>4, <2>5 DEF NodeStep
  <1>3. QED
    BY <1>1, <1>2 DEF HintsAreBehind

LEMMA HintsAreBehindHandler ==
    ASSUME TypeIInv, HintsAreBehind, NEW m \in Pending, Handle(m)
    PROVE  HintsAreBehind'
  <1>1. UNCHANGED <<pc, todo, nextIndex>>
    BY HandlerReplies DEF threadVars, leaderVars
  <1>2. PICK rep \in Reply :
           /\ Answer(m, rep)
           /\ \/ rep.conflictIndex = 0
              \/ m.type = "AppendEntries" /\ rep.conflictIndex <= m.prevLogIndex
    BY HandlerReplies
  <1>3. ASSUME NEW n \in Server, HasReply(n)'
        PROVE  \/ reply'[n].conflictIndex = 0
               \/ reply'[n].conflictIndex < nextIndex[n][Head(todo[n])]
    <2>1. CASE reply'[n] = reply[n]
      BY <1>1, <1>3, <2>1 DEF HasReply, HintsAreBehind
    <2>2. CASE Waiting(n) /\ m = Request(n) /\ reply'[n] = rep
      <3> DEFINE p == Head(todo[n])
      <3>1. CASE m.type = "AppendEntries" /\ rep.conflictIndex <= m.prevLogIndex
        <4>1. m = AppendEntries(n, p)
          BY <2>2, <3>1 DEF Request, RequestVote, InstallSnapshot
        <4>2. m.prevLogIndex = nextIndex[n][p] - 1
          BY <4>1 DEF AppendEntries
        <4>3. p \in Server
          BY <2>2, TailOk DEF Waiting, TypeIInv, ThreadTypes
        <4>4. nextIndex[n][p] \in Nat /\ rep.conflictIndex \in Nat
          BY <4>3 DEF TypeIInv, LeaderTypes, Reply
        <4>5. QED
          BY <2>2, <3>1, <4>2, <4>4
      <3>2. QED
        BY <1>2, <2>2, <3>1
    <2>3. QED
      BY <1>2, <2>1, <2>2, AnswerReply
  <1>4. QED
    BY <1>1, <1>3 DEF HintsAreBehind

LEMMA HintsAreBehindStep == TypeIInv /\ HintsAreBehind /\ [Next]_vars => HintsAreBehind'
  <1> SUFFICES ASSUME TypeIInv, HintsAreBehind, [Next]_vars PROVE HintsAreBehind'
    OBVIOUS
  <1>1. CASE UNCHANGED vars
    BY <1>1 DEF vars, threadVars, leaderVars, HintsAreBehind, HasReply
  <1>2. QED
    BY <1>1, HintsAreBehindNode, HintsAreBehindHandler DEF Next

LEMMA HintsAreBehindInit == Init => HintsAreBehind
  BY DEF Init, HintsAreBehind, HasReply

\* A rejection moves nextIndex back, or to 1: the conflictIndex that
\* handleAppendEntries returns (RaftNode.cpp:148-172) never lies beyond the
\* prevLogIndex of the request, and no reply of an earlier request is taken for
\* the one to the current nextIndex.
THEOREM RejectionsGoBack == Spec => RejectionBacktracks
  <1> DEFINE Back(n) ==
         todo[n] # <<>> /\ AppendRejected(n)
              => \/ nextIndex'[n][Head(todo[n])] < nextIndex[n][Head(todo[n])]
                 \/ nextIndex'[n][Head(todo[n])] = 1
  <1>1. ASSUME TypeIInv, HintsAreBehind, NEW n \in Server PROVE Back(n)
    <2> SUFFICES ASSUME AppendRejected(n) PROVE Back(n)
      OBVIOUS
    <2> DEFINE p == Head(todo[n])
    <2>1. /\ HasReply(n)
          /\ nextIndex' = [nextIndex EXCEPT ![n][p] = NextAfterRejection(n, p)]
      BY DEF AppendRejected
    <2>2. p \in Server /\ reply[n].conflictIndex \in Nat
      BY <1>1, <2>1, HeartbeatPeer
    <2>3. nextIndex'[n][p] = NextAfterRejection(n, p)
      BY <1>1, <2>1, <2>2 DEF TypeIInv, LeaderTypes
    <2>4. reply[n].conflictIndex = 0 \/ reply[n].conflictIndex < nextIndex[n][p]
      BY <1>1, <2>1 DEF HintsAreBehind
    <2>5. QED
      BY <1>1, <2>2, <2>3, <2>4 DEF NextAfterRejection, TypeIInv, LeaderTypes
  <1>2. TypeIInv /\ HintsAreBehind => \A n \in Server : Back(n)
    BY <1>1
  <1>3. Spec => [](TypeIInv /\ HintsAreBehind)
    BY TypeInit, TypeStep, HintsAreBehindInit, HintsAreBehindStep, PTL DEF Spec
  <1>4. QED
    BY <1>2, <1>3, PTL DEF Spec, RejectionBacktracks

----------------------------------------------------------------------------
(***************************************************************************)
(* What is applied.                                                        *)
(***************************************************************************)

\* Node n, whose log becomes lg, commits and applies up to k.
Applies(n, lg, k) ==
    /\ WellFormed(lg)
    /\ lg.snapshotIndex = log[n].snapshotIndex
    /\ k <= commitIndex[n] \/ k <= getLastIndex(lg)
    /\ commitIndex' = [commitIndex EXCEPT ![n] = k]
    /\ log' = [log EXCEPT ![n] = lg]
    /\ applyCommittedEntries(n, lg, k)

\* The record of an entry that n applies.
Record(n, e) == [by |-> n, term |-> currentTerm'[n], entry |-> e]

\* Every index above lastApplied up to k is applied, with the entry that lg has.
LEMMA AppliesWhat ==
    ASSUME TypeIInv, NEW n \in Server, NEW lg, NEW k \in Nat, Applies(n, lg, k)
    PROVE  /\ AllApplied(n, k) \in Nat /\ AllApplied(n, k) >= lastApplied[n]
           /\ lastApplied' = [lastApplied EXCEPT ![n] = AllApplied(n, k)]
           /\ \A i \in lastApplied[n] + 1 .. AllApplied(n, k) :
                 /\ i \in Nat /\ i <= k
                 /\ HasEntry(lg, i) /\ getEntry(lg, i) \in Entry /\ getEntry(lg, i).index = i
                 /\ Record(n, getEntry(lg, i)) \in applied'
           /\ applied \subseteq applied'
           /\ \A r \in applied' : r \notin applied
                 => \E i \in lastApplied[n] + 1 .. AllApplied(n, k) : r = Record(n, getEntry(lg, i))
  <1> DEFINE done  == AllApplied(n, k)
             batch == {getEntry(lg, i) : i \in lastApplied[n] + 1 .. done}
  <1>1. /\ commitIndex[n] <= lastApplied[n] /\ commitIndex[n] \in Nat /\ lastApplied[n] \in Nat
        /\ log[n].snapshotIndex <= lastApplied[n]
    BY DEF TypeIInv, BaseApplied, StoreTypes
  <1>2. /\ lastApplied' = [lastApplied EXCEPT ![n] = done]
        /\ applied' = applied \cup {Record(n, e) : e \in batch}
    BY DEF Applies, applyCommittedEntries, Record
  <1>3. done \in Nat /\ done >= lastApplied[n]
    BY <1>1 DEF AllApplied
  <1>4. ASSUME NEW i \in lastApplied[n] + 1 .. done
        PROVE  /\ i \in Nat /\ i <= k
               /\ HasEntry(lg, i) /\ getEntry(lg, i) \in Entry /\ getEntry(lg, i).index = i
    <2>1. Parts(lg) /\ getLastIndex(lg) = lg.snapshotIndex + Size(lg) - 1 /\ getLastIndex(lg) \in Nat
      BY LogParts, LogLast DEF Applies
    <2>2. i \in Nat /\ i > lastApplied[n] /\ i <= k
      BY <1>1 DEF AllApplied
    <2>3. i <= getLastIndex(lg)
      BY <1>1, <2>1, <2>2 DEF Applies
    <2>4. lg.snapshotIndex \in Nat /\ Size(lg) \in Nat /\ lg.snapshotIndex = log[n].snapshotIndex
      BY <2>1 DEF Parts, Applies
    <2>5. HasEntry(lg, i)
      BY <1>1, <2>1, <2>2, <2>3, <2>4 DEF HasEntry
    <2>6. QED
      BY <2>2, <2>5, LogGetEntry DEF Applies
  <1>5. \A i \in lastApplied[n] + 1 .. done : Record(n, getEntry(lg, i)) \in applied'
    BY <1>2
  <1>6. \A r \in applied' : r \notin applied
            => \E i \in lastApplied[n] + 1 .. done : r = Record(n, getEntry(lg, i))
    BY <1>2
  <1>7. applied \subseteq applied'
    BY <1>2
  <1> HIDE DEF batch, done
  <1>8. QED
    BY <1>2, <1>3, <1>4, <1>5, <1>6, <1>7 DEF done

\* A leader applies what updateCommitIndex commits.
LEMMA SuccessApplies ==
    ASSUME TypeIInv, NEW n \in Server, AppendSucceeds(n)
    PROVE  /\ currentTerm' = currentTerm
           /\ \E k \in Nat :
                 /\ IsNewCommitIndex(n, [matchIndex[n] EXCEPT ![Head(todo[n])] =
                                             Matched(n, Head(todo[n]))], k)
                 /\ k >= commitIndex[n]
                 /\ Applies(n, log[n], k)
  <1> DEFINE match == [matchIndex[n] EXCEPT ![Head(todo[n])] = Matched(n, Head(todo[n]))]
  <1>1. PICK k \in {commitIndex[n]} \cup (commitIndex[n] + 1 .. getLastIndex(log[n])) :
              /\ IsNewCommitIndex(n, match, k)
              /\ commitIndex' = [commitIndex EXCEPT ![n] = k]
              /\ UNCHANGED electionVars
              /\ applyCommittedEntries(n, log[n], k)
    BY DEF AppendSucceeds
  <1>2. WellFormed(log[n]) /\ commitIndex[n] \in Nat /\ getLastIndex(log[n]) \in Nat
    BY LogLast DEF TypeIInv, LogTypes, StoreTypes
  <1>3. k \in Nat /\ k >= commitIndex[n] /\ (k <= commitIndex[n] \/ k <= getLastIndex(log[n]))
    BY <1>1, <1>2
  <1>4. log' = [log EXCEPT ![n] = log[n]]
    BY DEF AppendSucceeds, TypeIInv, LogTypes
  <1>5. Applies(n, log[n], k)
    BY <1>1, <1>2, <1>3, <1>4 DEF Applies
  <1> HIDE DEF match
  <1>6. QED
    BY <1>1, <1>3, <1>5 DEF match, electionVars

\* A follower applies what the request says is committed.
LEMMA AcceptApplies ==
    ASSUME TypeIInv, NEW m \in Pending, AcceptAppendEntries(m)
    PROVE  /\ m.to \in Server /\ m.prevLogIndex \in Nat /\ m.entries \in Seq(Entry)
           /\ m.leaderCommit \in Nat /\ m.prevLogTerm \in Nat
           /\ \A j \in 1 .. Len(m.entries) : m.entries[j].index = m.prevLogIndex + j
           /\ m.prevLogIndex <= getLastIndex(log[m.to])
           /\ \E k \in 1 .. Len(m.entries) + 1 :
                 LET merged == Merge(log[m.to], m.prevLogIndex, m.entries, k)
                     commit == FollowerCommit(m.to, merged, m.leaderCommit)
                 IN  /\ IsFirstConflict(log[m.to], m.prevLogIndex, m.entries, k)
                     /\ commit \in Nat
                     /\ Applies(m.to, merged, commit)
  <1> DEFINE n == m.to
  <1>1. AcceptLeader(m) /\ ~EntryMissing(log[n], m)
    BY DEF AcceptAppendEntries
  <1>2. n \in Server
    BY PendingGood
  <1>3. /\ m.prevLogIndex \in Nat /\ m.entries \in Seq(Entry)
        /\ m.leaderCommit \in Nat /\ m.prevLogTerm \in Nat
        /\ \A j \in 1 .. Len(m.entries) : m.entries[j].index = m.prevLogIndex + j
    BY <1>1, AcceptLeaderTypes DEF AppendEntriesArgs, Consecutive
  <1>4. WellFormed(log[n]) /\ getLastIndex(log[n]) \in Nat /\ commitIndex[n] \in Nat
    BY <1>2, LogLast DEF TypeIInv, LogTypes, StoreTypes
  <1>5. m.prevLogIndex <= getLastIndex(log[n])
    BY <1>1, <1>3, <1>4 DEF EntryMissing
  <1>6. PICK k \in 1 .. Len(m.entries) + 1 :
           LET merged == Merge(log[n], m.prevLogIndex, m.entries, k)
               commit == FollowerCommit(n, merged, m.leaderCommit)
           IN  /\ IsFirstConflict(log[n], m.prevLogIndex, m.entries, k)
               /\ log' = [log EXCEPT ![n] = merged]
               /\ commitIndex' = [commitIndex EXCEPT ![n] = commit]
               /\ applyCommittedEntries(n, merged, commit)
    BY DEF AcceptAppendEntries
  <1> DEFINE merged == Merge(log[n], m.prevLogIndex, m.entries, k)
             commit == FollowerCommit(n, merged, m.leaderCommit)
  <1>7. WellFormed(merged) /\ merged.snapshotIndex = log[n].snapshotIndex
    BY <1>3, <1>4, <1>5, MergeWellFormed
  <1> HIDE DEF merged
  <1>8. commit \in Nat /\ (commit <= commitIndex[n] \/ commit <= getLastIndex(merged))
    BY <1>3, <1>4, <1>7, LogLast, FollowerCommitOk
  <1> HIDE DEF commit
  <1>9. Applies(n, merged, commit)
    BY <1>6, <1>7, <1>8 DEF Applies, merged, commit
  <1>10. QED
    BY <1>2, <1>3, <1>5, <1>6, <1>8, <1>9 DEF merged, commit

\* Some node applied every index up to i.
Covered(i) == 1 .. i \subseteq AppliedIndices

\* All that is applied, is in a snapshot or is on its way in one was applied
\* entry by entry somewhere.
AppliedOnceSomewhere ==
    /\ \A n \in Server : Covered(lastApplied[n]) /\ Covered(snapshotIndex[n])
    /\ \A m \in late : m.type = "InstallSnapshot" => Covered(m.lastIncludedIndex)

LEMMA CoveredKept ==
    ASSUME NEW i, applied \subseteq applied', Covered(i)
    PROVE  1 .. i \subseteq AppliedIndices'
  BY DEF Covered, AppliedIndices

LEMMA AppliesCovers ==
    ASSUME TypeIInv, AppliedOnceSomewhere, NEW n \in Server, NEW lg, NEW k \in Nat,
           Applies(n, lg, k)
    PROVE  /\ applied \subseteq applied'
           /\ \A a \in Server : Covered(lastApplied[a])'
  <1>1. PICK done \in Nat :
           /\ lastApplied' = [lastApplied EXCEPT ![n] = done]
           /\ applied \subseteq applied'
           /\ \A i \in lastApplied[n] + 1 .. done :
                 getEntry(lg, i).index = i /\ Record(n, getEntry(lg, i)) \in applied'
    BY AppliesWhat
  <1>2. ASSUME NEW i \in 1 .. done PROVE i \in AppliedIndices'
    <2>1. CASE i <= lastApplied[n]
      <3>1. i \in 1 .. lastApplied[n]
        BY <2>1
      <3>2. i \in AppliedIndices
        BY <3>1 DEF AppliedOnceSomewhere, Covered
      <3>3. QED
        BY <1>1, <3>2 DEF AppliedIndices
    <2>2. CASE ~(i <= lastApplied[n])
      <3>1. i \in lastApplied[n] + 1 .. done
        BY <1>1, <2>2 DEF TypeIInv, StoreTypes
      <3>2. Record(n, getEntry(lg, i)).entry.index = i
        BY <1>1, <3>1 DEF Record
      <3>3. QED
        BY <1>1, <3>1, <3>2 DEF AppliedIndices
    <2>3. QED
      BY <2>1, <2>2
  <1>3. ASSUME NEW a \in Server PROVE 1 .. lastApplied'[a] \subseteq AppliedIndices'
    <2>1. CASE a = n
      BY <1>1, <1>2, <2>1 DEF TypeIInv, StoreTypes
    <2>2. CASE a # n
      <3>1. lastApplied'[a] = lastApplied[a]
        BY <1>1, <2>2 DEF TypeIInv, StoreTypes
      <3>2. 1 .. lastApplied[a] \subseteq AppliedIndices'
        BY <1>1, CoveredKept DEF AppliedOnceSomewhere
      <3>3. QED
        BY <3>1, <3>2
    <2>3. QED
      BY <2>1, <2>2
  <1>4. QED
    BY <1>1, <1>3 DEF Covered

\* The indices stay covered if every new one is covered now.
LEMMA AppliedSomewhereKept ==
    ASSUME AppliedOnceSomewhere, applied \subseteq applied',
           \A n \in Server : Covered(lastApplied[n])',
           \A n \in Server : snapshotIndex'[n] = snapshotIndex[n] \/ Covered(snapshotIndex[n])',
           \A m \in late' : \/ m \in late
                           \/ m.type # "InstallSnapshot"
                           \/ 1 .. m.lastIncludedIndex \subseteq AppliedIndices'
    PROVE  AppliedOnceSomewhere'
  <1>1. ASSUME NEW n \in Server PROVE Covered(snapshotIndex[n])'
    <2>1. CASE snapshotIndex'[n] = snapshotIndex[n]
      <3>1. 1 .. snapshotIndex[n] \subseteq AppliedIndices'
        BY CoveredKept DEF AppliedOnceSomewhere
      <3>2. QED
        BY <2>1, <3>1 DEF Covered
    <2>2. QED
      BY <2>1
  <1>2. ASSUME NEW m \in late', m.type = "InstallSnapshot"
        PROVE  1 .. m.lastIncludedIndex \subseteq AppliedIndices'
    BY <1>2, CoveredKept DEF AppliedOnceSomewhere
  <1>3. QED
    BY <1>1, <1>2 DEF AppliedOnceSomewhere, Covered

LEMMA PendingSnapshotCovered ==
    ASSUME TypeIInv, AppliedOnceSomewhere, NEW m \in Pending, m.type = "InstallSnapshot"
    PROVE  Covered(m.lastIncludedIndex)
  <1>1. CASE m \in late
    BY <1>1 DEF AppliedOnceSomewhere
  <1>2. CASE \E n \in Server : Waiting(n) /\ m = Request(n)
    BY <1>2 DEF AppliedOnceSomewhere, Request, RequestVote, AppendEntries, InstallSnapshot
  <1>3. QED
    BY <1>1, <1>2 DEF Pending

LEMMA AppliedSomewhereNode ==
    ASSUME TypeIInv, AppliedOnceSomewhere, NEW n \in Server, NodeStep(n)
    PROVE  AppliedOnceSomewhere'
  <1>0. ASSUME UNCHANGED <<lastApplied, applied>>
        PROVE  \A k \in Server : Covered(lastApplied[k])'
    BY <1>0, CoveredKept DEF AppliedOnceSomewhere, Covered
  <1>1. CASE AppendSucceeds(n)
    <2>1. PICK k \in Nat : Applies(n, log[n], k)
      BY <1>1, SuccessApplies
    <2>2. applied \subseteq applied' /\ \A a \in Server : Covered(lastApplied[a])'
      BY <2>1, AppliesCovers
    <2>3. late' = late /\ snapshotIndex' = snapshotIndex
      BY <1>1 DEF AppendSucceeds, PeerDone, snapshotVars
    <2>4. QED
      BY <2>2, <2>3, AppliedSomewhereKept
  <1>2. CASE takeSnapshot(n)
    <2>1. /\ UNCHANGED <<lastApplied, applied, late>>
          /\ snapshotIndex' = [snapshotIndex EXCEPT ![n] = lastApplied[n]]
      BY <1>2 DEF takeSnapshot, SnapshotPoint, storeVars, historyVars
    <2>2. ASSUME NEW k \in Server
          PROVE  snapshotIndex'[k] = snapshotIndex[k] \/ Covered(snapshotIndex[k])'
      BY <1>0, <2>1 DEF TypeIInv, SnapshotTypes, Covered
    <2>3. QED
      BY <1>0, <2>1, <2>2, AppliedSomewhereKept
  <1>3. CASE CallFails(n)
    <2>1. UNCHANGED <<lastApplied, applied, snapshotIndex>>
      BY <1>3 DEF CallFails, storeVars, historyVars, snapshotVars
    <2>2. ASSUME NEW m \in late', m \notin late, m.type = "InstallSnapshot"
          PROVE  1 .. m.lastIncludedIndex \subseteq AppliedIndices'
      <3>1. m \in Pending
        BY <1>3, <2>2 DEF CallFails, Pending, Waiting
      <3>2. QED
        BY <2>1, <2>2, <3>1, PendingSnapshotCovered, CoveredKept
    <2>3. QED
      BY <1>0, <2>1, <2>2, AppliedSomewhereKept
  <1>4. CASE \/ ElectionTimeout(n) \/ ElectionStepsDown(n) \/ CountVote(n) \/ WinElection(n)
             \/ LoseElection(n) \/ HeartbeatTick(n) \/ HeartbeatStepsDown(n)
             \/ SnapshotSent(n) \/ AppendRejected(n)
             \/ \E c \in Command : handleClientRequest(n, c)
    <2>1. UNCHANGED <<lastApplied, applied, late, snapshotIndex>>
      BY <1>4 DEF ElectionTimeout, ElectionStepsDown, CountVote, WinElection, LoseElection,
                  HeartbeatTick, HeartbeatStepsDown, SnapshotSent, AppendRejected, PeerDone,
                  handleClientRequest, storeVars, historyVars, snapshotVars
    <2>2. QED
      BY <1>0, <2>1, AppliedSomewhereKept
  <1>5. QED
    BY <1>1, <1>2, <1>3, <1>4 DEF NodeStep

LEMMA AppliedSomewhereHandler ==
    ASSUME TypeIInv, AppliedOnceSomewhere, NEW m \in Pending, Handle(m)
    PROVE  AppliedOnceSomewhere'
  <1> DEFINE n == m.to
  <1>0. ASSUME UNCHANGED <<lastApplied, applied>>
        PROVE  \A k \in Server : Covered(lastApplied[k])'
    BY <1>0, CoveredKept DEF AppliedOnceSomewhere, Covered
  <1>1. n \in Server /\ late' \subseteq late
    BY HandlerReplies, PendingGood DEF Answer
  <1>2. CASE HandleStale(m) \/ handleRequestVote(m) \/ RejectAppendEntries(m)
    <2>1. UNCHANGED <<lastApplied, applied, snapshotIndex>>
      BY <1>2 DEF HandleStale, handleRequestVote, RejectAppendEntries, AcceptLeader,
                  storeVars, historyVars, snapshotVars
    <2>2. QED
      BY <1>0, <1>1, <2>1, AppliedSomewhereKept
  <1>3. CASE AcceptAppendEntries(m)
    <2>1. PICK i \in 1 .. Len(m.entries) + 1 :
             LET merged == Merge(log[n], m.prevLogIndex, m.entries, i)
                 commit == FollowerCommit(n, merged, m.leaderCommit)
             IN  commit \in Nat /\ Applies(n, merged, commit)
      BY <1>3, AcceptApplies
    <2>2. applied \subseteq applied' /\ \A a \in Server : Covered(lastApplied[a])'
      BY <1>1, <2>1, AppliesCovers
    <2>3. snapshotIndex' = snapshotIndex
      BY <1>3 DEF AcceptAppendEntries, AcceptLeader, snapshotVars
    <2>4. QED
      BY <1>1, <2>2, <2>3, AppliedSomewhereKept
  <1>4. CASE handleInstallSnapshot(m)
    <2>1. /\ snapshotIndex' = [snapshotIndex EXCEPT ![n] = m.lastIncludedIndex]
          /\ lastApplied' = [lastApplied EXCEPT ![n] = Raise(@, m.lastIncludedIndex)]
          /\ applied' = applied /\ m.type = "InstallSnapshot"
      BY <1>4 DEF handleInstallSnapshot, historyVars
    <2>2. 1 .. m.lastIncludedIndex \subseteq AppliedIndices'
      BY <2>1, PendingSnapshotCovered, CoveredKept
    <2>3. ASSUME NEW k \in Server
          PROVE  /\ snapshotIndex'[k] = snapshotIndex[k] \/ Covered(snapshotIndex[k])'
                 /\ Covered(lastApplied[k])'
      <3>1. 1 .. lastApplied[k] \subseteq AppliedIndices'
        BY <2>1, CoveredKept DEF AppliedOnceSomewhere
      <3>2. lastApplied'[k] \in {lastApplied[k], m.lastIncludedIndex}
        BY <2>1, <2>2, <3>1 DEF Raise, TypeIInv, StoreTypes
      <3>3. Covered(lastApplied[k])'
        BY <2>2, <3>1, <3>2 DEF Covered
      <3>4. snapshotIndex'[k] = snapshotIndex[k] \/ snapshotIndex'[k] = m.lastIncludedIndex
        BY <2>1 DEF TypeIInv, SnapshotTypes
      <3>5. QED
        BY <2>2, <3>3, <3>4 DEF Covered
    <2>4. QED
      BY <1>1, <2>1, <2>3, AppliedSomewhereKept
  <1>5. QED
    BY <1>2, <1>3, <1>4 DEF Handle

\* A node compacts, or skips because of a snapshot it installs, nothing that no
\* node applied entry by entry: takeSnapshot stops at lastApplied
\* (RaftNode.cpp:696-716) and handleInstallSnapshot takes over what such a
\* snapshot covers, however late or often it arrives.
THEOREM CompactionIsSafe == Spec => []CompactedIsApplied
  <1>1. Init => AppliedOnceSomewhere
    BY DEF Init, AppliedOnceSomewhere, Covered
  <1>2. TypeIInv /\ AppliedOnceSomewhere /\ [Next]_vars => AppliedOnceSomewhere'
    <2> SUFFICES ASSUME TypeIInv, AppliedOnceSomewhere, [Next]_vars PROVE AppliedOnceSomewhere'
      OBVIOUS
    <2>1. CASE UNCHANGED vars
      BY <2>1 DEF vars, storeVars, snapshotVars, historyVars, AppliedOnceSomewhere, Covered,
                  AppliedIndices
    <2>2. QED
      BY <2>1, AppliedSomewhereNode, AppliedSomewhereHandler DEF Next
  <1>3. TypeIInv /\ AppliedOnceSomewhere => CompactedIsApplied
    <2> SUFFICES ASSUME TypeIInv, AppliedOnceSomewhere, NEW n \in Server
                 PROVE  /\ log[n].snapshotIndex <= lastApplied[n]
                        /\ 1 .. log[n].snapshotIndex \subseteq AppliedIndices
      BY DEF CompactedIsApplied
    <2>1. log[n].snapshotIndex <= lastApplied[n]
      BY DEF TypeIInv, BaseApplied
    <2>2. log[n].snapshotIndex \in Nat /\ lastApplied[n] \in Nat
      BY LogParts DEF TypeIInv, LogTypes, StoreTypes, Parts
    <2>3. 1 .. lastApplied[n] \subseteq AppliedIndices
      BY DEF AppliedOnceSomewhere, Covered
    <2>4. QED
      BY <2>1, <2>2, <2>3
  <1>4. QED
    BY <1>1, <1>2, <1>3, TypeInit, TypeStep, PTL DEF Spec

----------------------------------------------------------------------------
(***************************************************************************)
(* What is committed, in the term of the first leader.                     *)
(***************************************************************************)

\* Somebody won the term.
Elected(t) == \E n \in Server : <<t, n>> \in won

\* Every entry was made by a leader: in a log, above the sentinel, whose term a
\* snapshot may have read at the wrong position, and in a request.
EntriesElected ==
    /\ \A n \in Server : \A e \in EntrySet(log[n]) : Elected(e.term)
    /\ \A m \in late : m.type = "AppendEntries"
                           => \A j \in 1 .. Len(m.entries) : Elected(m.entries[j].term)

\* A second term has not been won yet.
OneTermWon == \A w, x \in won : w[1] = x[1]

LEMMA PendingElected ==
    ASSUME TypeIInv, EntriesElected, NEW m \in Pending, m.type = "AppendEntries"
    PROVE  \A j \in 1 .. Len(m.entries) : Elected(m.entries[j].term)
  <1>1. CASE m \in late
    BY <1>1 DEF EntriesElected
  <1>2. CASE \E n \in Server : Waiting(n) /\ m = Request(n)
    <2>1. PICK n \in Server : Waiting(n) /\ m = Request(n)
      BY <1>2
    <2> DEFINE p == Head(todo[n])
               next == nextIndex[n][p]
    <2>2. m = AppendEntries(n, p) /\ ~NeedsSnapshot(n, p)
      BY <2>1 DEF Request, RequestVote, InstallSnapshot
    <2>3. p \in Server
      BY <2>1, RequestGood, PendingGood, <2>2 DEF AppendEntries
    <2>4. /\ WellFormed(log[n]) /\ next \in Nat /\ log[n].snapshotIndex \in Nat
          /\ next > log[n].snapshotIndex
      BY <2>2, <2>3, LogParts DEF TypeIInv, LogTypes, LeaderTypes, NeedsSnapshot, Parts
    <2>5. m.entries = EntriesFrom(log[n], next)
      BY <2>2 DEF AppendEntries
    <2> HIDE DEF next
    <2>6. \A j \in 1 .. Len(m.entries) : m.entries[j] \in EntrySet(log[n])
      BY <2>4, <2>5, EntriesFromSet
    <2>7. QED
      BY <2>6 DEF EntriesElected
  <1>3. QED
    BY <1>1, <1>2 DEF Pending

\* Nothing new but what a leader made.
LEMMA ElectedKept ==
    ASSUME EntriesElected, won \subseteq won',
           \A n \in Server : \A e \in EntrySet(log'[n]) : \/ e \in EntrySet(log[n])
                                                        \/ Elected(e.term)
                                                        \/ Elected(e.term)',
           \A m \in late' : \/ m \in late
                           \/ m.type # "AppendEntries"
                           \/ \A j \in 1 .. Len(m.entries) : Elected(m.entries[j].term)
    PROVE  EntriesElected'
  <1>1. \A t : Elected(t) => Elected(t)'
    BY DEF Elected
  <1>2. ASSUME NEW n \in Server, NEW e \in EntrySet(log'[n]) PROVE Elected(e.term)'
    BY <1>1 DEF EntriesElected
  <1>3. ASSUME NEW m \in late', m.type = "AppendEntries", NEW j \in 1 .. Len(m.entries)
        PROVE  Elected(m.entries[j].term)'
    BY <1>1, <1>3 DEF EntriesElected
  <1>4. QED
    BY <1>2, <1>3 DEF EntriesElected

\* What a step does to one term's commits.
CommitsStay ==
    /\ won \subseteq won'
    /\ EntriesElected'
    /\ OneTermWon /\ CommittedIsApplied => CommittedIsApplied'

\* A step that commits nothing and takes nothing from a log.
LEMMA NothingCommitted ==
    ASSUME TypeIInv, EntriesElected, won \subseteq won', UNCHANGED <<commitIndex, lastApplied>>,
           \A n \in Server : /\ getLastIndex(log'[n]) >= getLastIndex(log[n])
                             /\ getLastIndex(log'[n]) \in Nat,
           EntriesElected'
    PROVE  CommitsStay
  <1>1. ASSUME CommittedIsApplied, NEW n \in Server
        PROVE  lastApplied'[n] = commitIndex'[n] /\ commitIndex'[n] <= getLastIndex(log'[n])
    <2>1. commitIndex[n] \in Nat /\ getLastIndex(log[n]) \in Nat
      BY LogLast DEF TypeIInv, LogTypes, StoreTypes
    <2>2. QED
      BY <1>1, <2>1 DEF CommittedIsApplied
  <1>2. CommittedIsApplied => CommittedIsApplied'
    BY <1>1 DEF CommittedIsApplied, getLastIndex, Size
  <1>3. QED
    BY <1>2 DEF CommitsStay

\* A node commits and applies up to k on a log that only grew.
LEMMA AppliesStay ==
    ASSUME TypeIInv, EntriesElected, NEW n \in Server, NEW lg, NEW k \in Nat, Applies(n, lg, k),
           won \subseteq won', EntriesElected',
           OneTermWon /\ CommittedIsApplied
               => /\ k >= commitIndex[n] /\ k <= getLastIndex(lg)
    PROVE  CommitsStay
  <1>1. ASSUME OneTermWon, CommittedIsApplied, NEW a \in Server
        PROVE  lastApplied'[a] = commitIndex'[a] /\ commitIndex'[a] <= getLastIndex(log'[a])
    <2>1. /\ lastApplied' = [lastApplied EXCEPT ![n] = AllApplied(n, k)]
          /\ commitIndex' = [commitIndex EXCEPT ![n] = k]
          /\ log' = [log EXCEPT ![n] = lg]
      BY AppliesWhat DEF Applies
    <2>2. /\ lastApplied \in [Server -> Nat] /\ commitIndex \in [Server -> Nat]
          /\ log \in [Server -> Log]
      BY DEF TypeIInv, StoreTypes, LogTypes
    <2>3. lastApplied[a] = commitIndex[a] /\ commitIndex[a] <= getLastIndex(log[a])
      BY <1>1 DEF CommittedIsApplied
    <2>4. CASE a = n
      <3>1. AllApplied(n, k) = k
        BY <1>1, <2>2, <2>3, <2>4 DEF AllApplied
      <3>2. lastApplied'[a] = k /\ commitIndex'[a] = k /\ log'[a] = lg
        BY <2>1, <2>2, <2>4, <3>1
      <3>3. QED
        BY <1>1, <3>2
    <2>5. CASE a # n
      <3>1. lastApplied'[a] = lastApplied[a] /\ commitIndex'[a] = commitIndex[a] /\ log'[a] = log[a]
        BY <2>1, <2>2, <2>5
      <3>2. QED
        BY <2>3, <3>1
    <2>6. QED
      BY <2>4, <2>5
  <1>2. OneTermWon /\ CommittedIsApplied => CommittedIsApplied'
    BY <1>1 DEF CommittedIsApplied, getLastIndex, Size
  <1>3. QED
    BY <1>2 DEF CommitsStay

LEMMA CommitsNode ==
    ASSUME NodeInv, EntriesElected, NEW n \in Server, NodeStep(n)
    PROVE  CommitsStay
  <1>0. /\ TypeIInv /\ LeadersWon
        /\ \A k \in Server : WellFormed(log[k]) /\ getLastIndex(log[k]) \in Nat
        /\ log \in [Server -> Log]
    BY LogLast DEF NodeInv, ElectionInv, Elections, TypeIInv, LogTypes
  <1>1. CASE AppendSucceeds(n)
    <2>1. /\ log' = log /\ won' = won /\ late' = late
      BY <1>1 DEF AppendSucceeds, PeerDone
    <2>2. EntriesElected'
      BY <2>1, ElectedKept
    <2>3. PICK k \in Nat : k >= commitIndex[n] /\ Applies(n, log[n], k)
      BY <1>0, <1>1, SuccessApplies
    <2>4. OneTermWon /\ CommittedIsApplied => k >= commitIndex[n] /\ k <= getLastIndex(log[n])
      <3>1. commitIndex[n] \in Nat /\ getLastIndex(log[n]) \in Nat
        BY <1>0 DEF TypeIInv, StoreTypes
      <3>2. k <= commitIndex[n] \/ k <= getLastIndex(log[n])
        BY <2>3 DEF Applies
      <3>3. QED
        BY <2>3, <3>1, <3>2 DEF CommittedIsApplied
    <2>5. QED
      BY <1>0, <2>1, <2>2, <2>3, <2>4, AppliesStay
  <1>2. CASE takeSnapshot(n)
    <2> DEFINE index == lastApplied[n]
               term  == getTerm(log[n], index)
               lg    == discardEntriesUpTo(log[n], index, term)
    <2>1. /\ log' = [log EXCEPT ![n] = lg]
          /\ won' = won /\ late' = late /\ UNCHANGED <<commitIndex, lastApplied>>
      BY <1>2 DEF takeSnapshot, SnapshotPoint, storeVars, historyVars
    <2>2. index \in Nat /\ term \in Nat
      BY <1>0, LogGetTerm DEF TypeIInv, StoreTypes
    <2> HIDE DEF index, term
    <2>3. /\ EntrySet(lg) \subseteq EntrySet(log[n])
          /\ getLastIndex(lg) >= getLastIndex(log[n]) /\ getLastIndex(lg) \in Nat
      BY <1>0, <2>2, DiscardEntrySet, DiscardWellFormed, LogLast
    <2> HIDE DEF lg
    <2>4. ASSUME NEW k \in Server
          PROVE  /\ EntrySet(log'[k]) \subseteq EntrySet(log[k])
                 /\ getLastIndex(log'[k]) >= getLastIndex(log[k]) /\ getLastIndex(log'[k]) \in Nat
      <3>1. CASE k = n
        <4>1. log'[k] = lg
          BY <1>0, <2>1, <3>1
        <4>2. QED
          BY <2>3, <3>1, <4>1
      <3>2. CASE k # n
        <4>1. log'[k] = log[k]
          BY <1>0, <2>1, <3>2
        <4>2. QED
          BY <1>0, <4>1
      <3>3. QED
        BY <3>1, <3>2
    <2>5. EntriesElected'
      BY <2>1, <2>4, ElectedKept
    <2>6. QED
      BY <1>0, <2>1, <2>4, <2>5, NothingCommitted
  <1>3. CASE \E c \in Command : handleClientRequest(n, c)
    <2>1. PICK c \in Command : handleClientRequest(n, c)
      BY <1>3
    <2> DEFINE e  == NewEntry(n, c)
               lg == append(log[n], e)
    <2>2. /\ log' = [log EXCEPT ![n] = lg] /\ role[n] = "LEADER"
          /\ won' = won /\ late' = late /\ UNCHANGED <<commitIndex, lastApplied>>
      BY <2>1 DEF handleClientRequest, storeVars
    <2>3. e \in Entry /\ CanAppend(log[n], e) /\ e.term = currentTerm[n]
      BY <1>0 DEF NewEntry, Entry, Payload, CanAppend, TypeIInv, ElectionTypes
    <2>4. Elected(e.term)
      BY <1>0, <2>2, <2>3 DEF LeadersWon, Elected
    <2> HIDE DEF e
    <2>5. /\ EntrySet(lg) \subseteq EntrySet(log[n]) \cup {e}
          /\ getLastIndex(lg) = getLastIndex(log[n]) + 1
      <3>1. WellFormed(lg) /\ lg.snapshotIndex = log[n].snapshotIndex
        BY <1>0, <2>3, AppendWellFormed
      <3>2. Size(lg) = Size(log[n]) + 1
        <4>1. log[n].Entries \in Seq(Entry) /\ lg.Entries = Append(log[n].Entries, e)
          BY <1>0, LogParts DEF Parts, append, WellFormed, Log
        <4>2. QED
          BY <2>3, <4>1 DEF Size
      <3>3. /\ getLastIndex(lg) = lg.snapshotIndex + Size(lg) - 1
            /\ getLastIndex(log[n]) = log[n].snapshotIndex + Size(log[n]) - 1
        BY <1>0, <3>1, LogLast
      <3>4. Size(log[n]) \in Nat /\ log[n].snapshotIndex \in Nat
        BY <1>0, LogParts DEF Parts
      <3>5. EntrySet(lg) \subseteq EntrySet(log[n]) \cup {e}
        BY <1>0, <2>3, AppendEntrySet
      <3> HIDE DEF lg
      <3>6. QED
        BY <3>1, <3>2, <3>3, <3>4, <3>5
    <2> HIDE DEF lg
    <2>6. ASSUME NEW k \in Server
          PROVE  /\ \A f \in EntrySet(log'[k]) : f \in EntrySet(log[k]) \/ Elected(f.term)
                 /\ getLastIndex(log'[k]) >= getLastIndex(log[k]) /\ getLastIndex(log'[k]) \in Nat
      <3>1. CASE k = n
        <4>1. log'[k] = lg
          BY <1>0, <2>2, <3>1
        <4>2. QED
          BY <1>0, <2>4, <2>5, <3>1, <4>1
      <3>2. CASE k # n
        <4>1. log'[k] = log[k]
          BY <1>0, <2>2, <3>2
        <4>2. QED
          BY <1>0, <4>1
      <3>3. QED
        BY <3>1, <3>2
    <2>7. EntriesElected'
      BY <2>2, <2>6, ElectedKept
    <2>8. QED
      BY <1>0, <2>2, <2>6, <2>7, NothingCommitted
  <1>4. CASE CallFails(n)
    <2>1. log' = log /\ won' = won /\ UNCHANGED <<commitIndex, lastApplied>>
      BY <1>4 DEF CallFails, storeVars, historyVars
    <2>2. \A m \in late' : m \in late \/ m \in Pending
      BY <1>4 DEF CallFails, Pending, Waiting
    <2>3. EntriesElected'
      BY <1>0, <2>1, <2>2, PendingElected, ElectedKept
    <2>4. \A k \in Server : /\ getLastIndex(log'[k]) >= getLastIndex(log[k])
                            /\ getLastIndex(log'[k]) \in Nat
      BY <1>0, <2>1
    <2>5. QED
      BY <1>0, <2>1, <2>3, <2>4, NothingCommitted
  <1>5. CASE \/ ElectionTimeout(n) \/ ElectionStepsDown(n) \/ CountVote(n) \/ WinElection(n)
             \/ LoseElection(n) \/ HeartbeatTick(n) \/ HeartbeatStepsDown(n)
             \/ SnapshotSent(n) \/ AppendRejected(n)
    <2>1. /\ UNCHANGED <<log, commitIndex, lastApplied, late>>
          /\ won \subseteq won'
      BY <1>5 DEF ElectionTimeout, ElectionStepsDown, CountVote, WinElection, LoseElection,
                  HeartbeatTick, HeartbeatStepsDown, SnapshotSent, AppendRejected, PeerDone,
                  storeVars, historyVars
    <2>2. EntriesElected'
      BY <2>1, ElectedKept
    <2>3. \A k \in Server : /\ getLastIndex(log'[k]) >= getLastIndex(log[k])
                            /\ getLastIndex(log'[k]) \in Nat
      BY <1>0, <2>1
    <2>4. QED
      BY <1>0, <2>1, <2>2, <2>3, NothingCommitted
  <1>6. QED
    BY <1>1, <1>2, <1>3, <1>4, <1>5 DEF NodeStep

\* With one term won all elected terms are one.
LEMMA OneTerm ==
    ASSUME OneTermWon
    PROVE  \E t : \A u : Elected(u) => u = t
  <1> DEFINE t == CHOOSE t : Elected(t)
  <1>1. ASSUME NEW u, Elected(u) PROVE u = t
    <2>1. Elected(t)
      BY <1>1
    <2> HIDE DEF t
    <2>2. PICK n \in Server : <<u, n>> \in won
      BY <1>1 DEF Elected
    <2>3. PICK k \in Server : <<t, k>> \in won
      BY <2>1 DEF Elected
    <2>4. <<u, n>>[1] = <<t, k>>[1]
      BY <2>2, <2>3 DEF OneTermWon
    <2>5. QED
      BY <2>4
  <1> HIDE DEF t
  <1>2. QED
    BY <1>1

LEMMA CommitsAccept ==
    ASSUME NodeInv, EntriesElected, NEW m \in Pending, AcceptAppendEntries(m), late' \subseteq late
    PROVE  CommitsStay
  <1> DEFINE n  == m.to
             lg == log[n]
  <1>1. /\ TypeIInv /\ n \in Server
        /\ WellFormed(lg) /\ getLastIndex(lg) \in Nat /\ commitIndex[n] \in Nat
        /\ log \in [Server -> Log]
    BY PendingGood, LogLast DEF NodeInv, TypeIInv, LogTypes, StoreTypes
  <1>2. /\ m.prevLogIndex \in Nat /\ m.entries \in Seq(Entry) /\ m.leaderCommit \in Nat
        /\ \A j \in 1 .. Len(m.entries) : m.entries[j].index = m.prevLogIndex + j
        /\ m.prevLogIndex <= getLastIndex(lg)
    BY <1>1, AcceptApplies
  <1>3. PICK k \in 1 .. Len(m.entries) + 1 :
           LET merged == Merge(lg, m.prevLogIndex, m.entries, k)
               commit == FollowerCommit(n, merged, m.leaderCommit)
           IN  /\ IsFirstConflict(lg, m.prevLogIndex, m.entries, k)
               /\ commit \in Nat
               /\ Applies(n, merged, commit)
    BY <1>1, AcceptApplies
  <1> DEFINE merged == Merge(lg, m.prevLogIndex, m.entries, k)
             commit == FollowerCommit(n, merged, m.leaderCommit)
  <1>4. IsFirstConflict(lg, m.prevLogIndex, m.entries, k) /\ commit \in Nat /\ Applies(n, merged, commit)
    BY <1>3
  <1>5. won' = won /\ m.type = "AppendEntries"
    BY DEF AcceptAppendEntries, AcceptLeader
  <1>6. \A j \in 1 .. Len(m.entries) : Elected(m.entries[j].term)
    BY <1>1, <1>5, PendingElected
  <1>7. /\ \A e \in EntrySet(merged) : \/ e \in EntrySet(lg)
                                       \/ \E j \in 1 .. Len(m.entries) : e = m.entries[j]
        /\ \A t : /\ \A e \in EntrySet(lg) : e.term = t
                  /\ \A j \in 1 .. Len(m.entries) : m.entries[j].term = t
                  => getLastIndex(merged) >= getLastIndex(lg)
    BY <1>1, <1>2, <1>4, MergeEntrySet
  <1>8. WellFormed(merged) /\ getLastIndex(merged) \in Nat /\ log' = [log EXCEPT ![n] = merged]
    BY <1>4, LogLast DEF Applies
  <1> HIDE DEF merged
  <1>9. ASSUME NEW a \in Server, NEW e \in EntrySet(log'[a])
        PROVE  e \in EntrySet(log[a]) \/ Elected(e.term)
    <2>1. CASE a = n
      <3>1. log'[a] = merged /\ log[a] = lg
        BY <1>1, <1>8, <2>1
      <3>2. QED
        BY <1>6, <1>7, <1>9, <3>1
    <2>2. CASE a # n
      <3>1. log'[a] = log[a]
        BY <1>1, <1>8, <2>2
      <3>2. QED
        BY <1>9, <3>1
    <2>3. QED
      BY <2>1, <2>2
  <1>10. EntriesElected'
    BY <1>5, <1>9, ElectedKept
  <1>11. ASSUME OneTermWon, CommittedIsApplied
         PROVE  commit >= commitIndex[n] /\ commit <= getLastIndex(merged)
    <2>1. PICK t : \A u : Elected(u) => u = t
      BY <1>11, OneTerm
    <2>2. \A e \in EntrySet(lg) : e.term = t
      BY <1>1, <2>1 DEF EntriesElected
    <2>3. \A j \in 1 .. Len(m.entries) : m.entries[j].term = t
      BY <1>6, <2>1
    <2>4. getLastIndex(merged) >= getLastIndex(lg)
      BY <1>7, <2>2, <2>3
    <2>5. commitIndex[n] <= getLastIndex(lg)
      BY <1>1, <1>11 DEF CommittedIsApplied
    <2> HIDE DEF lg, n
    <2>6. QED
      BY <1>1, <1>2, <1>8, <2>4, <2>5 DEF FollowerCommit
  <1> HIDE DEF commit, lg, n
  <1>12. QED
    BY <1>1, <1>4, <1>5, <1>10, <1>11, AppliesStay

LEMMA CommitsHandler ==
    ASSUME NodeInv, EntriesElected, NEW m \in Pending, Handle(m)
    PROVE  CommitsStay
  <1> DEFINE n == m.to
  <1>0. /\ TypeIInv /\ n \in Server /\ late' \subseteq late
        /\ \A k \in Server : WellFormed(log[k]) /\ getLastIndex(log[k]) \in Nat
        /\ log \in [Server -> Log]
    <2>1. TypeIInv
      BY DEF NodeInv
    <2>2. QED
      BY <2>1, HandlerReplies, PendingGood, LogLast DEF TypeIInv, LogTypes, Answer
  <1>1. CASE HandleStale(m) \/ handleRequestVote(m) \/ RejectAppendEntries(m)
    <2>1. UNCHANGED <<log, commitIndex, lastApplied, won>>
      BY <1>1 DEF HandleStale, handleRequestVote, RejectAppendEntries, AcceptLeader,
                  storeVars, historyVars
    <2>2. EntriesElected'
      BY <1>0, <2>1, ElectedKept
    <2>3. \A k \in Server : /\ getLastIndex(log'[k]) >= getLastIndex(log[k])
                            /\ getLastIndex(log'[k]) \in Nat
      BY <1>0, <2>1
    <2>4. QED
      BY <1>0, <2>1, <2>2, <2>3, NothingCommitted
  <1>2. CASE AcceptAppendEntries(m)
    BY <1>0, <1>2, CommitsAccept
  <1>3. CASE handleInstallSnapshot(m)
    <2> DEFINE index == m.lastIncludedIndex
               term  == m.lastIncludedTerm
               lg    == discardEntriesUpTo(log[n], index, term)
    <2>1. /\ log' = [log EXCEPT ![n] = lg] /\ won' = won
          /\ lastApplied' = [lastApplied EXCEPT ![n] = Raise(@, index)]
          /\ commitIndex' = [commitIndex EXCEPT ![n] = Raise(@, index)]
      BY <1>3 DEF handleInstallSnapshot, historyVars
    <2>2. index \in Nat /\ term \in Nat
      BY <1>0, <1>3, PendingGood
         DEF handleInstallSnapshot, GoodMessage, Message, InstallSnapshotArgs, RequestVoteArgs,
             AppendEntriesArgs
    <2>3. /\ EntrySet(lg) \subseteq EntrySet(log[n])
          /\ getLastIndex(lg) >= getLastIndex(log[n]) /\ getLastIndex(lg) >= index
          /\ getLastIndex(lg) \in Nat
      BY <1>0, <2>2, DiscardEntrySet, DiscardWellFormed, LogLast
    <2> HIDE DEF lg, index, term
    <2>4. ASSUME NEW k \in Server
          PROVE  /\ EntrySet(log'[k]) \subseteq EntrySet(log[k])
                 /\ CommittedIsApplied => /\ lastApplied'[k] = commitIndex'[k]
                                          /\ commitIndex'[k] <= getLastIndex(log'[k])
      <3>1. /\ commitIndex[k] \in Nat /\ lastApplied[k] \in Nat
            /\ lastApplied \in [Server -> Nat] /\ commitIndex \in [Server -> Nat]
        BY <1>0 DEF TypeIInv, StoreTypes
      <3>2. CommittedIsApplied => /\ lastApplied[k] = commitIndex[k]
                                  /\ commitIndex[k] <= getLastIndex(log[k])
        BY DEF CommittedIsApplied
      <3>3. CASE k = n
        <4>1. /\ log'[k] = lg
              /\ lastApplied'[k] = Raise(lastApplied[k], index)
              /\ commitIndex'[k] = Raise(commitIndex[k], index)
          BY <1>0, <2>1, <3>1, <3>3
        <4>2. getLastIndex(log[k]) \in Nat /\ getLastIndex(lg) >= getLastIndex(log[k])
          BY <1>0, <2>3, <3>3
        <4>3. Raise(commitIndex[k], index) \in {commitIndex[k], index}
          BY DEF Raise
        <4>4. EntrySet(log'[k]) \subseteq EntrySet(log[k])
          BY <2>3, <3>3, <4>1
        <4>5. QED
          BY <2>2, <2>3, <3>1, <3>2, <4>1, <4>2, <4>3, <4>4
      <3>4. CASE k # n
        <4>1. log'[k] = log[k] /\ lastApplied'[k] = lastApplied[k] /\ commitIndex'[k] = commitIndex[k]
          BY <1>0, <2>1, <3>1, <3>4
        <4>2. QED
          BY <3>2, <4>1
      <3>5. QED
        BY <3>3, <3>4
    <2>5. EntriesElected'
      BY <1>0, <2>1, <2>4, ElectedKept
    <2>6. CommittedIsApplied => CommittedIsApplied'
      BY <2>4 DEF CommittedIsApplied, getLastIndex, Size
    <2>7. QED
      BY <2>1, <2>5, <2>6 DEF CommitsStay
  <1>4. QED
    BY <1>1, <1>2, <1>3 DEF Handle

\* What a node has committed it has applied and still has, with deposed leaders
\* that send and logs that are compacted at different points, until a second
\* term has a leader: then terms are compared at the wrong position of a
\* compacted log, and a merge may cut what is committed (Log.cpp:39 and 97).
THEOREM FirstCommitsAreApplied == Spec => [](OneTermWon => CommittedIsApplied)
  <1> DEFINE Inv == EntriesElected /\ (OneTermWon => CommittedIsApplied)
  <1>1. Init => Inv
    <2>1. Init => EntriesElected
      <3>1. EntrySet(EmptyLog) = {}
        BY DEF EntrySet, EmptyLog, Size
      <3>2. QED
        BY <3>1 DEF Init, EntriesElected
    <2>2. getLastIndex(EmptyLog) = 0
      BY DEF EmptyLog, getLastIndex, Size, Sentinel
    <2>3. Init => CommittedIsApplied
      BY <2>2 DEF Init, CommittedIsApplied
    <2>4. QED
      BY <2>1, <2>3
  <1>2. NodeInv /\ Inv /\ [Next]_vars => Inv'
    <2> SUFFICES ASSUME NodeInv, Inv, [Next]_vars PROVE Inv'
      OBVIOUS
    <2>1. CommitsStay
      <3>1. CASE UNCHANGED vars
        <4>1. UNCHANGED <<log, won, late, commitIndex, lastApplied>>
          BY <3>1 DEF vars, storeVars, historyVars
        <4>2. EntriesElected'
          BY <4>1, ElectedKept
        <4>3. CommittedIsApplied => CommittedIsApplied'
          BY <4>1 DEF CommittedIsApplied
        <4>4. QED
          BY <4>1, <4>2, <4>3 DEF CommitsStay
      <3>2. QED
        BY <3>1, CommitsNode, CommitsHandler DEF Next
    <2>2. OneTermWon' => OneTermWon
      BY <2>1 DEF OneTermWon, CommitsStay
    <2>3. QED
      BY <2>1, <2>2 DEF CommitsStay
  <1>3. Inv => (OneTermWon => CommittedIsApplied)
    OBVIOUS
  <1> HIDE DEF Inv
  <1>4. QED
    BY <1>1, <1>2, <1>3, NodeInvariant, PTL DEF Spec
=============================================================================
