-------------------------- MODULE RaftSafetyProofs --------------------------
(***************************************************************************)
(* Why RaftNode's logs agree, for every number of nodes: the invariant of  *)
(* RaftSafety is inductive, in a cluster in which no deposed leader sends  *)
(* and no log is compacted.                                                *)
(*                                                                         *)
(* The facts of RaftStepProofs say what a step may do.  First two more of  *)
(* them: which entries a log may lose, and what a leader may come to count *)
(* for a follower.  With these, what is lost, chosen or committed stays so *)
(* whatever the step is, and so does what leaders, candidates and voters   *)
(* know of each other.  The parts of the invariant about one log are shown *)
(* from the few steps that change a log.                                   *)
(***************************************************************************)
EXTENDS RaftStepProofs

LEMMA LeaderLogsGrow ==
    ASSUME CoreStep
    PROVE  /\ \A t, e : e \in LeaderLog(t) => e \in LeaderLog(t)'
           /\ \A t : t \in WonTerms => t \in WonTerms'
           /\ \A n \in Server : /\ currentTerm[n] \in Nat /\ currentTerm'[n] \in Nat
                                /\ currentTerm'[n] >= currentTerm[n]
  <1>1. TypeIInv /\ HistoryTypes /\ HistoryTypes' /\ TypeIInv'
    BY CoreTypes DEF CoreStep, Core, NodeInv, TypeIInv
  <1>2. HistoryGrows /\ TermsRise
    BY <1>1, HistoriesGrow, TermsOnlyRise DEF CoreStep
  <1>3. \A t, e : e \in LeaderLog(t) => e \in LeaderLog(t)'
    BY <1>1, <1>2, InLeaderLog DEF HistoryGrows
  <1>4. \A t : t \in WonTerms => t \in WonTerms'
    BY <1>1, <1>2, InWonTerms DEF HistoryGrows
  <1>5. QED
    BY <1>1, <1>2, <1>3, <1>4 DEF TermsRise, TypeIInv, ElectionTypes

\* A term that gains a winner gains it by a win, of a term without a winner.
LEMMA NewWinner ==
    ASSUME CoreStep, NEW t \in WonTerms', t \notin WonTerms
    PROVE  \E c \in Server : WinElection(c) /\ t = currentTerm[c]
  <1>1. ASSUME won' = won PROVE FALSE
    BY <1>1 DEF WonTerms
  <1>2. ASSUME NEW n \in Server, WinElection(n) PROVE t = currentTerm[n]
    BY <1>2, WinFacts
  <1>3. ASSUME NEW n \in Server, AppendSucceeds(n) \/ \E c \in Command : handleClientRequest(n, c)
        PROVE  won' = won
    BY <1>3 DEF AppendSucceeds, handleClientRequest
  <1>4. ASSUME NEW m \in Pending, AcceptAppendEntries(m) PROVE won' = won
    BY <1>4, AcceptFacts
  <1>5. QED
    BY <1>1, <1>2, <1>3, <1>4, CoreStepKinds DEF Quiet

\* A log loses an entry only to a leader that does not have it.
LEMMA LogsKept ==
    ASSUME CoreStep, NEW p \in Server, NEW e \in Entries(p)
    PROVE  \/ e \in Entries(p)'
           \/ currentTerm'[p] \in WonTerms /\ e \notin LeaderLog(currentTerm'[p])
  <1>1. ASSUME log'[p] = log[p] PROVE e \in Entries(p)'
    BY <1>1 DEF Entries
  <1>2. ASSUME NEW n \in Server, WinElection(n) \/ AppendSucceeds(n) PROVE log'[p] = log[p]
    BY <1>2 DEF WinElection, AppendSucceeds
  <1>3. ASSUME NEW n \in Server, NEW c \in Command, handleClientRequest(n, c)
        PROVE  e \in Entries(p)'
    <2>1. CASE p = n
      BY <1>3, <2>1, ClientFacts
    <2>2. CASE p # n
      BY <1>1, <1>3, <2>2, ClientFacts
    <2>3. QED
      BY <2>1, <2>2
  <1>4. ASSUME NEW m \in Pending, AcceptAppendEntries(m)
        PROVE  \/ e \in Entries(p)'
               \/ currentTerm'[p] \in WonTerms /\ e \notin LeaderLog(currentTerm'[p])
    <2>1. CASE p = m.to
      <3>1. currentTerm'[p] = m.term
        BY <1>4, <2>1, AcceptFacts, CoreTypes DEF CoreStep, Core, TypeIInv, ElectionTypes
      <3>2. m.term \in WonTerms /\ (e \in LeaderLog(m.term) => e \in Entries(p)')
        BY <1>4, <2>1, AcceptFacts
      <3>3. QED
        BY <3>1, <3>2
    <2>2. CASE p # m.to
      BY <1>1, <1>4, <2>2, AcceptFacts
    <2>3. QED
      BY <2>1, <2>2
  <1>5. QED
    BY <1>1, <1>2, <1>3, <1>4, CoreStepKinds DEF Quiet

----------------------------------------------------------------------------
(***************************************************************************)
(* What a leader counts.                                                   *)
(***************************************************************************)

\* What Acked(n, p, i) depends on.
SameSender(n) ==
    /\ pc'[n] = pc[n] /\ todo'[n] = todo[n] /\ reply'[n] = reply[n] /\ log'[n] = log[n]
    /\ nextIndex'[n] = nextIndex[n] /\ matchIndex'[n] = matchIndex[n]

LEMMA SameAcks ==
    ASSUME NEW n \in Server, SameSender(n), NEW p, NEW i, Acked(n, p, i)'
    PROVE  Acked(n, p, i)
  BY DEF SameSender, Acked, HasReply, Matched

\* A leader without a reply counts what matchIndex says.
LEMMA NoReplyAcks ==
    ASSUME NEW n \in Server, ~HasReply(n)' \/ ~reply'[n].ok, NEW p, NEW i,
           matchIndex'[n][p] = matchIndex[n][p], Acked(n, p, i)'
    PROVE  Acked(n, p, i)
  BY DEF Acked

\* A handler leaves the log of a node that goes on leading alone.
LEMMA HandlersLeaveLeaders ==
    ASSUME CoreStep, NEW m \in Pending, Handle(m), NEW n \in Server, Leads(n)
    PROVE  log'[n] = log[n]
  <1>1. ASSUME AcceptAppendEntries(m) PROVE log'[n] = log[n]
    BY <1>1, AcceptFacts DEF Leads
  <1>2. ASSUME HandleStale(m) \/ handleRequestVote(m) \/ RejectAppendEntries(m)
        PROVE  log'[n] = log[n]
    BY <1>2 DEF HandleStale, handleRequestVote, RejectAppendEntries
  <1>3. QED
    BY <1>1, <1>2, NoSnapshotSteps DEF Handle, CoreStep

\* No step of the node itself makes it count more for a follower.
LEMMA NodeStepAcks ==
    ASSUME CoreStep, NEW n \in Server, Leads(n), NEW p \in Server, NEW i \in Nat,
           NodeStep(n), Acked(n, p, i)'
    PROVE  Acked(n, p, i)
  <1>1. TypeIInv /\ VoteInv /\ role[n] = "LEADER" /\ role'[n] = "LEADER"
    BY CoreTypes DEF CoreStep, Core, Leads
  <1>2. /\ pc \in [Server -> Pc] /\ todo \in [Server -> Seq(Server)]
        /\ reply \in [Server -> Reply \cup {Nil}] /\ role \in [Server -> Role]
        /\ matchIndex \in [Server -> [Server -> Nat]]
        /\ pc[n] = "idle" => reply[n] = Nil
    BY <1>1 DEF TypeIInv, ThreadTypes, ReplyTypes, ElectionTypes, LeaderTypes
  <1>3. pc[n] # "election"
    BY <1>1 DEF VoteInv, Campaigns
  <1>4. ASSUME \/ ElectionTimeout(n) \/ ElectionStepsDown(n) \/ CountVote(n) \/ WinElection(n)
               \/ LoseElection(n) \/ SnapshotSent(n) \/ takeSnapshot(n)
        PROVE  FALSE
    BY <1>1, <1>3, <1>4, CompactionStays, NoSnapshotSteps
       DEF CoreStep, ElectionTimeout, ElectionStepsDown, CountVote, WinElection, LoseElection
  <1>5. CASE HeartbeatStepsDown(n)
    BY <1>1, <1>2, <1>5 DEF HeartbeatStepsDown, becomeFollower
  <1>6. CASE HeartbeatTick(n) \/ \E c \in Command : handleClientRequest(n, c)
    <2>1. matchIndex' = matchIndex /\ reply'[n] = Nil
      BY <1>2, <1>6 DEF HeartbeatTick, handleClientRequest, leaderVars
    <2>2. QED
      BY <2>1, NoReplyAcks DEF HasReply
  <1>7. CASE AppendRejected(n)
    <2>1. matchIndex' = matchIndex /\ reply'[n] = Nil
      BY <1>2, <1>7 DEF AppendRejected, PeerDone
    <2>2. QED
      BY <2>1, NoReplyAcks DEF HasReply
  <1>8. CASE CallFails(n)
    <2>1. matchIndex' = matchIndex /\ ~reply'[n].ok
      BY <1>2, <1>8 DEF CallFails, leaderVars, FailedReply, Answered
    <2>2. QED
      BY <2>1, NoReplyAcks
  <1>9. CASE AppendSucceeds(n)
    <2> DEFINE q == Head(todo[n])
    <2>1. /\ HasReply(n) /\ reply[n].ok /\ reply'[n] = Nil
          /\ matchIndex' = [matchIndex EXCEPT ![n] = [matchIndex[n] EXCEPT ![q] = Matched(n, q)]]
      BY <1>2, <1>9 DEF AppendSucceeds, PeerDone
    <2>2. CASE p = q
      <3>1. matchIndex'[n][p] = Matched(n, p)
        BY <1>2, <2>1, <2>2
      <3>2. matchIndex'[n][p] >= i
        BY <2>1 DEF Acked, HasReply
      <3>3. QED
        BY <2>1, <2>2, <3>1, <3>2 DEF Acked
    <2>3. CASE p # q
      <3>1. matchIndex'[n][p] = matchIndex[n][p]
        BY <1>2, <2>1, <2>3
      <3>2. QED
        BY <2>1, <3>1, NoReplyAcks DEF HasReply
    <2>4. QED
      BY <2>2, <2>3
  <1>10. QED
    BY <1>4, <1>5, <1>6, <1>7, <1>8, <1>9 DEF NodeStep

\* A leader counts more for a follower only once that has, in the leader's term,
\* the leader's entries that it is counted for.
LEMMA NewAcks ==
    ASSUME CoreStep, NEW n \in Server, Leads(n), NEW p \in Server, NEW i \in Nat, Acked(n, p, i)'
    PROVE  \/ Acked(n, p, i)
           \/ currentTerm'[p] = currentTerm[n] /\ \A e \in Entries(n) : e \in Entries(p)'
  <1>1. TypeIInv /\ VoteInv /\ role[n] = "LEADER" /\ role'[n] = "LEADER" /\ Core
    BY CoreTypes DEF CoreStep, Core, Leads
  <1>2. CASE UNCHANGED vars
    <2>1. SameSender(n)
      BY <1>2 DEF vars, threadVars, leaderVars, SameSender
    <2>2. QED
      BY <2>1, SameAcks
  <1>3. ASSUME NEW k \in Server \ {n}, NodeStep(k) PROVE SameSender(n)
    <2>1. SameElection(n) /\ log'[n] = log[n]
      BY <1>1, <1>3, NodeStepLocal, NodeStepLog
    <2>2. nextIndex'[n] = nextIndex[n] /\ matchIndex'[n] = matchIndex[n]
      BY <1>1, <1>3 DEF NodeStep, ElectionTimeout, ElectionStepsDown, CountVote, WinElection,
         becomeLeader, LoseElection, HeartbeatTick, HeartbeatStepsDown, SnapshotSent,
         AppendSucceeds, AppendRejected, CallFails, takeSnapshot, handleClientRequest,
         leaderVars, TypeIInv, LeaderTypes
    <2>3. QED
      BY <2>1, <2>2 DEF SameElection, SameSender
  <1>4. ASSUME NEW m \in Pending, Handle(m)
        PROVE  \/ Acked(n, p, i)
               \/ currentTerm'[p] = currentTerm[n] /\ \A e \in Entries(n) : e \in Entries(p)'
    <2>1. UNCHANGED <<leaderVars, threadVars>> /\ log'[n] = log[n]
      BY <1>1, <1>4, HandlerReplies, HandlersLeaveLeaders
    <2>2. ASSUME NEW rep \in Reply, Answer(m, rep), ~rep.ok PROVE Acked(n, p, i)
      <3>1. CASE reply'[n] = reply[n]
        <4>1. SameSender(n)
          BY <2>1, <3>1 DEF SameSender, threadVars, leaderVars
        <4>2. QED
          BY <4>1, SameAcks
      <3>2. CASE reply'[n] = rep
        <4>1. matchIndex'[n][p] = matchIndex[n][p] /\ ~reply'[n].ok
          BY <2>1, <2>2, <3>2 DEF leaderVars
        <4>2. QED
          BY <4>1, NoReplyAcks
      <3>3. QED
        BY <1>1, <2>2, <3>1, <3>2, AnswerReply
    <2>3. CASE HandleStale(m) \/ RejectAppendEntries(m)
      <3>1. m.to \in Server /\ m.term \in Nat /\ currentTerm[m.to] \in Nat /\ getLastIndex(log[m.to]) \in Nat
        BY <1>1, PendingGood, EntriesOfNode DEF Core, TypeIInv, ElectionTypes
      <3>2. \E rep \in Reply : Answer(m, rep) /\ ~rep.ok
        <4>1. CASE HandleStale(m)
          <5>1. Answered(currentTerm[m.to], FALSE) \in Reply
            BY <3>1, AnsweredOk
          <5>2. QED
            BY <4>1, <5>1 DEF HandleStale, Answered
        <4>2. CASE RejectAppendEntries(m)
          <5>1. \E k \in Nat : Answer(m, [term |-> m.term, ok |-> FALSE, conflictIndex |-> k])
            <6>1. CASE Answer(m, [term |-> m.term, ok |-> FALSE,
                                  conflictIndex |-> getLastIndex(log[m.to]) + 1])
              <7>1. getLastIndex(log[m.to]) + 1 \in Nat
                BY <3>1
              <7>2. QED
                BY <6>1, <7>1
            <6>2. CASE \E k \in 1 .. m.prevLogIndex :
                          Answer(m, [term |-> m.term, ok |-> FALSE, conflictIndex |-> k])
              <7>1. PICK k \in 1 .. m.prevLogIndex :
                       Answer(m, [term |-> m.term, ok |-> FALSE, conflictIndex |-> k])
                BY <6>2
              <7>2. k \in Nat
                OBVIOUS
              <7>3. QED
                BY <7>1, <7>2
            <6>3. QED
              BY <4>2, <6>1, <6>2 DEF RejectAppendEntries
          <5>2. PICK k \in Nat : Answer(m, [term |-> m.term, ok |-> FALSE, conflictIndex |-> k])
            BY <5>1
          <5>3. [term |-> m.term, ok |-> FALSE, conflictIndex |-> k] \in Reply
            BY <3>1 DEF Reply
          <5>4. QED
            BY <5>2, <5>3
        <4>3. QED
          BY <2>3, <4>1, <4>2
      <3>3. QED
        BY <2>2, <3>2
    <2>4. CASE handleRequestVote(m)
      <3>1. m.type = "RequestVote" /\ m.term \in Nat
        BY <1>1, <2>4, PendingGood DEF handleRequestVote
      <3>2. \E ok \in BOOLEAN : Answer(m, Answered(m.term, ok))
        BY <2>4 DEF handleRequestVote, CanVote, isLogUpToDate
      <3>3. PICK rep \in Reply : Answer(m, rep)
        BY <3>1, <3>2, AnsweredOk
      <3>4. reply'[n] = reply[n]
        <4>1. ASSUME Waiting(n), m = Request(n) PROVE FALSE
          <5>1. pc[n] # "election"
            BY <1>1 DEF VoteInv, Campaigns
          <5>2. Request(n) = AppendEntries(n, Head(todo[n]))
            BY <1>1, <4>1, <5>1, RequestKind
          <5>3. QED
            BY <3>1, <4>1, <5>2 DEF AppendEntries
        <4>2. QED
          BY <1>1, <3>3, <4>1, AnswerReply
      <3>5. SameSender(n)
        BY <2>1, <3>4 DEF SameSender, threadVars, leaderVars
      <3>6. QED
        BY <3>5, SameAcks
    <2>5. CASE AcceptAppendEntries(m)
      <3>1. m.term \in Nat /\ Answered(m.term, TRUE) \in Reply /\ Answer(m, Answered(m.term, TRUE))
        BY <2>5, AcceptFacts, AnsweredOk
      <3>2. CASE reply'[n] = reply[n]
        <4>1. SameSender(n)
          BY <2>1, <3>2 DEF SameSender, threadVars, leaderVars
        <4>2. QED
          BY <4>1, SameAcks
      <3>3. CASE Waiting(n) /\ m = Request(n)
        <4>1. pc[n] # "election"
          BY <1>1 DEF VoteInv, Campaigns
        <4> DEFINE q == Head(todo[n])
        <4>2. q \in Server /\ pc[n] = "heartbeat" /\ m = AppendEntries(n, q)
          BY <1>1, <3>3, <4>1, RequestKind
        <4>3. CASE p # q
          <5>1. matchIndex'[n][p] >= i
            BY <2>1, <4>3 DEF Acked, threadVars
          <5>2. QED
            BY <2>1, <5>1 DEF Acked, leaderVars
        <4>4. CASE p = q
          <5>1. /\ m.to = p /\ m.term = currentTerm[n]
                /\ m.prevLogIndex + Len(m.entries) = nextIndex[n][p] - 1
                                             + Len(EntriesFrom(log[n], nextIndex[n][p]))
            BY <4>2, <4>4 DEF AppendEntries
          <5>2. nextIndex[n][p] + Len(EntriesFrom(log[n], nextIndex[n][p])) = getLastIndex(log[n]) + 1
            BY <1>1, <4>2, <4>4, AppendEntriesIsPiece
          <5>3. nextIndex[n][p] \in Nat \ {0} /\ getLastIndex(log[n]) \in Nat
            BY <1>1, LeaderFacts, EntriesOfNode DEF Core
          <5>4. Len(EntriesFrom(log[n], nextIndex[n][p])) \in Nat
            BY <1>1, <5>3, FlatEntriesFrom, EntriesOfNode DEF Core
          <5>5. m.prevLogIndex + Len(m.entries) = getLastIndex(log[n])
            <6> DEFINE len == Len(EntriesFrom(log[n], nextIndex[n][p]))
                       sum == m.prevLogIndex + Len(m.entries)
            <6> HIDE DEF len, sum
            <6>1. sum = nextIndex[n][p] - 1 + len /\ nextIndex[n][p] + len = getLastIndex(log[n]) + 1
              BY <5>1, <5>2 DEF len, sum
            <6>2. len \in Nat
              BY <5>4 DEF len
            <6>3. sum = getLastIndex(log[n])
              BY <5>3, <6>1, <6>2
            <6>4. QED
              BY <6>3 DEF sum
          <5>6. currentTerm'[p] = currentTerm[n]
            BY <1>1, <2>5, <5>1, AcceptFacts DEF TypeIInv, ElectionTypes
          <5>7. ASSUME NEW e \in Entries(n) PROVE e \in Entries(p)'
            <6>1. e \in LeaderLog(m.term) /\ e.index <= m.prevLogIndex + Len(m.entries)
              BY <1>1, <5>1, <5>5, LeaderFacts, EntryFacts
            <6>2. QED
              BY <2>5, <5>1, <6>1, AcceptFacts
          <5>8. QED
            BY <5>6, <5>7
        <4>5. QED
          BY <4>3, <4>4
      <3>4. QED
        BY <1>1, <3>1, <3>2, <3>3, AnswerReply
    <2>6. QED
      BY <1>1, <1>4, <2>3, <2>4, <2>5, NoSnapshotSteps DEF Handle
  <1>5. QED
    BY <1>2, <1>3, <1>4, NodeStepAcks, SameAcks DEF CoreStep, Next

\* The entries of a leader after a step: those it had as a leader, and others
\* that it counts for nobody yet, the one of a new command and, once it has won,
\* those of earlier terms.
LEMMA LeaderEntries ==
    ASSUME CoreStep, NEW n \in Server, role'[n] = "LEADER", NEW e \in Entries(n)'
    PROVE  /\ e.index \in Nat
           /\ \/ Leads(n) /\ e \in Entries(n)
              \/ /\ \A p \in Server : ~Acked(n, p, e.index)'
                 /\ \/ e.term # currentTerm'[n]
                    \/ Leads(n) /\ UNCHANGED <<currentTerm, granted>> /\ WonTerms' \subseteq WonTerms
  <1>1. Core /\ TypeIInv /\ getLastIndex(log[n]) \in Nat
    BY CoreTypes, EntriesOfNode DEF CoreStep, Core
  <1>2. CASE WinElection(n)
    <2>1. e \in Entries(n) /\ currentTerm'[n] = currentTerm[n] /\ currentTerm[n] \notin WonTerms
      BY <1>2, WinFacts DEF Entries
    <2>2. e.index \in Nat /\ e.index > 0 /\ e.term \in WonTerms
      BY <1>1, <2>1, EntryFacts
    <2>3. ASSUME NEW p \in Server, Acked(n, p, e.index)' PROVE FALSE
      <3>1. matchIndex'[n][p] = 0 /\ reply'[n] = Nil
        BY <1>2, WinFacts
      <3>2. QED
        BY <2>2, <2>3, <3>1 DEF Acked, HasReply
    <2>4. QED
      BY <2>1, <2>2, <2>3
  <1>3. CASE Leads(n) /\ log'[n] = log[n]
    <2>1. e \in Entries(n)
      BY <1>3 DEF Entries
    <2>2. QED
      BY <1>1, <1>3, <2>1, EntryFacts
  <1>4. ASSUME Leads(n), NEW c \in Command, handleClientRequest(n, c)
        PROVE  /\ e.index \in Nat
               /\ \/ Leads(n) /\ e \in Entries(n)
                  \/ /\ \A p \in Server : ~Acked(n, p, e.index)'
                     /\ Leads(n) /\ UNCHANGED <<currentTerm, granted>> /\ WonTerms' \subseteq WonTerms
    <2>1. CASE e \in Entries(n)
      BY <1>1, <1>4, <2>1, EntryFacts
    <2>2. CASE e \notin Entries(n)
      <3>1. e = NewEntry(n, c) /\ e.index = getLastIndex(log[n]) + 1
        BY <1>4, <2>2, ClientFacts
      <3>2. UNCHANGED <<currentTerm, granted, matchIndex, pc>> /\ pc[n] = "idle"
        BY <1>4, ClientFacts DEF electionVars, leaderVars, threadVars
      <3>3. \A s : s \in WonTerms' => s \in WonTerms
        BY <1>4, ClientFacts
      <3>4. ASSUME NEW p \in Server, Acked(n, p, e.index)' PROVE FALSE
        <4>1. matchIndex[n][p] \in Nat /\ matchIndex[n][p] <= getLastIndex(log[n])
          BY <1>1, <1>4, LeaderFacts DEF Leads
        <4>2. matchIndex[n][p] >= e.index
          BY <3>2, <3>4 DEF Acked, HasReply
        <4>3. QED
          BY <1>1, <3>1, <4>1, <4>2
      <3>5. QED
        BY <1>1, <1>4, <3>1, <3>2, <3>3, <3>4
    <2>3. QED
      BY <2>1, <2>2
  <1>5. QED
    BY <1>2, <1>3, <1>4, LeadersStay

----------------------------------------------------------------------------
(***************************************************************************)
(* What leaders, candidates and voters know of each other.                 *)
(***************************************************************************)

\* What a leader can no longer commit it can never commit.
LEMMA LostStays ==
    ASSUME CoreStep, NEW n \in Server, Leads(n), NEW i \in Nat, Lost(n, i)
    PROVE  Lost(n, i)'
  <1>1. PICK Q \in Majority : \A p \in Q : currentTerm[p] > currentTerm[n] /\ ~Acked(n, p, i)
    BY DEF Lost
  <1>2. ASSUME NEW p \in Q PROVE currentTerm'[p] > currentTerm'[n] /\ ~Acked(n, p, i)'
    <2>1. p \in Server /\ currentTerm[p] > currentTerm[n] /\ ~Acked(n, p, i)
      BY <1>1 DEF Majority
    <2>2. currentTerm'[n] = currentTerm[n]
      BY DEF Leads
    <2>3. currentTerm'[p] > currentTerm'[n]
      BY <2>1, <2>2, LeaderLogsGrow
    <2>4. QED
      BY <2>1, <2>2, <2>3, NewAcks, LeaderLogsGrow
  <1>3. QED
    BY <1>2 DEF Lost, Majority

\* The voters of a candidate and the candidate are a majority in its term, or later.
LEMMA VotersReached ==
    ASSUME VoteInv, NEW t \in Nat, NEW c \in Server, t <= currentTerm[c],
           \A n \in Server : currentTerm[n] \in Nat,
           IsMajority(c, Voters(t, c))
    PROVE  /\ Voters(t, c) \cup {c} \in Majority
           /\ \A p \in Voters(t, c) \cup {c} :
                 /\ p \in Server /\ currentTerm[p] >= t
                 /\ p = c \/ <<t, p, c>> \in granted
  <1>1. Voters(t, c) \subseteq PeerSet(c) /\ PeerSet(c) \subseteq Server
    BY PeersAssumption DEF Voters
  <1>2. Voters(t, c) \cup {c} \in Majority
    BY <1>1, QuorumOf
  <1>3. ASSUME NEW p \in Voters(t, c)
        PROVE  p \in Server /\ currentTerm[p] >= t /\ <<t, p, c>> \in granted
    BY <1>1, <1>3 DEF Voters, VoteInv, GrantsRemembered, GrantsRememberedBy
  <1>4. QED
    BY <1>2, <1>3

LEMMA AcksStayKept ==
    ASSUME CoreStep
    PROVE  AcksAreKept'
  <1>1. SUFFICES ASSUME NEW n \in Server, NEW p \in Server, role'[n] = "LEADER", p # n,
                        NEW e \in Entries(n)', Acked(n, p, e.index)'
                 PROVE  /\ currentTerm'[p] >= currentTerm'[n]
                        /\ currentTerm'[p] = currentTerm'[n] => e \in Entries(p)'
                        /\ e.term = currentTerm'[n] => e \in Entries(p)' \/ Lost(n, e.index)'
    BY DEF AcksAreKept
  <1>2. Leads(n) /\ e \in Entries(n) /\ e.index \in Nat
    BY <1>1, LeaderEntries
  <1>3. /\ currentTerm'[n] = currentTerm[n] /\ role[n] = "LEADER" /\ Core
        /\ currentTerm[n] \in Nat /\ currentTerm[p] \in Nat /\ currentTerm'[p] \in Nat
        /\ currentTerm'[p] >= currentTerm[p]
        /\ e \in LeaderLog(currentTerm[n])
    BY <1>2, LeaderLogsGrow, LeaderFacts DEF CoreStep, Leads
  <1>4. CASE currentTerm'[p] = currentTerm[n] /\ \A f \in Entries(n) : f \in Entries(p)'
    BY <1>2, <1>3, <1>4
  <1>5. CASE Acked(n, p, e.index)
    <2>1. /\ currentTerm[p] >= currentTerm[n]
          /\ currentTerm[p] = currentTerm[n] => e \in Entries(p)
          /\ e.term = currentTerm[n] => e \in Entries(p) \/ Lost(n, e.index)
      BY <1>1, <1>2, <1>3, <1>5 DEF Core, SafetyInv, AcksAreKept
    <2>2. currentTerm'[p] >= currentTerm'[n]
      BY <1>3, <2>1
    <2>3. ASSUME currentTerm'[p] = currentTerm[n] PROVE e \in Entries(p)'
      <3>1. e \in Entries(p)
        BY <1>3, <2>1, <2>3
      <3>2. QED
        BY <1>3, <2>3, <3>1, LogsKept
    <2>4. ASSUME e.term = currentTerm[n], currentTerm'[p] # currentTerm[n]
          PROVE  e \in Entries(p)' \/ Lost(n, e.index)
      <3>1. SUFFICES ASSUME e \in Entries(p), e \notin Entries(p)' PROVE Lost(n, e.index)
        BY <2>1, <2>4
      <3>2. currentTerm'[p] \in WonTerms /\ e \notin LeaderLog(currentTerm'[p])
        BY <3>1, LogsKept
      <3>3. currentTerm'[p] > currentTerm[n]
        BY <1>3, <2>1, <2>4
      <3>4. QED
        BY <1>2, <1>3, <2>4, <3>2, <3>3 DEF Core, SafetyInv, LeadersAreSafe, Own
    <2>5. QED
      BY <1>2, <1>3, <2>2, <2>3, <2>4, LostStays
  <1>6. QED
    BY <1>1, <1>2, <1>4, <1>5, NewAcks

\* Who wins a later term has what the leader of an earlier one may still commit.
LEMMA WinnerIsSafe ==
    ASSUME CoreStep, NEW n \in Server, role[n] = "LEADER", NEW e \in Own(n),
           NEW c \in Server, WinElection(c), currentTerm[c] > currentTerm[n]
    PROVE  e \in Entries(c) \/ Lost(n, e.index)
  <1> DEFINE t == currentTerm[c]
             Q == Voters(t, c) \cup {c}
  <1>1. /\ Core /\ VoteInv /\ \A k \in Server : currentTerm[k] \in Nat
        /\ AcksAreKept /\ CandidatesAreSafe
    BY CoreTypes DEF CoreStep, Core, SafetyInv
  <1>2. IsMajority(c, Voters(t, c)) /\ pc[c] = "election"
    BY WinFacts
  <1>3. /\ Q \in Majority
        /\ \A p \in Q : p \in Server /\ currentTerm[p] >= t /\ (p = c \/ <<t, p, c>> \in granted)
    BY <1>1, <1>2, VotersReached
  <1>4. e \in Entries(n) /\ e.term = currentTerm[n] /\ c # n
    BY <1>1 DEF Own
  <1>5. ASSUME NEW p \in Q, Acked(n, p, e.index) PROVE e \in Entries(c) \/ Lost(n, e.index)
    <2>1. CASE p = c
      BY <1>1, <1>4, <1>5, <2>1 DEF AcksAreKept
    <2>2. CASE <<t, p, c>> \in granted
      BY <1>1, <1>2, <1>3, <1>5, <2>2 DEF CandidatesAreSafe, Votes
    <2>3. QED
      BY <1>3, <2>1, <2>2
  <1>6. CASE \A p \in Q : ~Acked(n, p, e.index)
    <2>1. ASSUME NEW p \in Q PROVE currentTerm[p] > currentTerm[n]
      <3>1. p \in Server /\ currentTerm[p] >= currentTerm[c]
        BY <1>3
      <3>2. currentTerm[p] \in Nat /\ currentTerm[c] \in Nat /\ currentTerm[n] \in Nat
        BY <1>1, <3>1
      <3>3. QED
        BY <3>1, <3>2
    <2>2. QED
      BY <1>3, <1>6, <2>1 DEF Lost
  <1>7. QED
    BY <1>5, <1>6

LEMMA LeadersStaySafe ==
    ASSUME CoreStep
    PROVE  LeadersAreSafe'
  <1>1. SUFFICES ASSUME NEW n \in Server, role'[n] = "LEADER", NEW e \in Entries(n)',
                        e.term = currentTerm'[n], NEW t \in WonTerms', t > currentTerm'[n]
                 PROVE  e \in LeaderLog(t)' \/ Lost(n, e.index)'
    BY DEF LeadersAreSafe, Own
  <1>2. /\ Leads(n) /\ currentTerm'[n] = currentTerm[n] /\ role[n] = "LEADER" /\ Core
        /\ e.index \in Nat
        /\ \A k \in Server : currentTerm[k] \in Nat
    BY <1>1, LeaderEntries, LeaderLogsGrow DEF CoreStep, Leads
  <1>3. CASE e \in Entries(n)
    <2>1. e \in Own(n)
      BY <1>1, <1>2, <1>3 DEF Own
    <2>2. CASE t \in WonTerms
      <3>1. e \in LeaderLog(t) \/ Lost(n, e.index)
        BY <1>1, <1>2, <2>1, <2>2 DEF Core, SafetyInv, LeadersAreSafe
      <3>2. QED
        BY <1>2, <3>1, LostStays, LeaderLogsGrow
    <2>3. CASE t \notin WonTerms
      <3>1. PICK c \in Server : WinElection(c) /\ t = currentTerm[c]
        BY <2>3, NewWinner
      <3>2. e \in Entries(c) \/ Lost(n, e.index)
        BY <1>1, <1>2, <2>1, <3>1, WinnerIsSafe
      <3>3. e \in Entries(c) => e \in LeaderLog(t)'
        BY <3>1, WinFacts
      <3>4. QED
        BY <1>2, <3>2, <3>3, LostStays
    <2>4. QED
      BY <2>2, <2>3
  <1>4. CASE e \notin Entries(n)
    <2>1. /\ \A p \in Server : ~Acked(n, p, e.index)'
          /\ UNCHANGED <<currentTerm, granted>> /\ t \in WonTerms
      BY <1>1, <1>4, LeaderEntries
    <2>2. /\ HistoryTypes /\ VoteInv /\ ElectionInv /\ t \in Nat
      BY <1>2, <2>1, CoreTypes DEF Core
    <2>3. PICK c \in Server : <<t, c>> \in won
      BY <2>1, <2>2, InWonTerms
    <2>4. t <= currentTerm[c] /\ IsMajority(c, Voters(t, c))
      BY <2>2, <2>3 DEF ElectionInv, Elections, WinsRemembered, WinnersQuorum
    <2> DEFINE Q == Voters(t, c) \cup {c}
    <2>5. Q \in Majority /\ \A p \in Q : p \in Server /\ currentTerm[p] >= t
      BY <1>2, <2>2, <2>4, VotersReached
    <2> HIDE DEF Q
    <2>6. ASSUME NEW p \in Q PROVE currentTerm'[p] > currentTerm'[n] /\ ~Acked(n, p, e.index)'
      BY <1>1, <1>2, <2>1, <2>2, <2>5
    <2>7. QED
      BY <2>5, <2>6 DEF Lost, Majority
  <1>5. QED
    BY <1>3, <1>4

\* A vote for a campaign that goes on: the campaign is the same, and so is the
\* vote unless the voter just found the candidate's log up to date.
LEMMA VotesAfter ==
    ASSUME CoreStep, NEW v \in Server, NEW c \in Server, Votes(v, c)'
    PROVE  /\ Frozen(c) /\ currentTerm'[v] >= currentTerm[c]
           /\ Entries(c)' = Entries(c)
           /\ \/ Votes(v, c)
              \/ /\ log' = log
                 /\ isLogUpToDate(log[v], getLastIndex(log[c]), getLastTerm(log[c]))
  <1> DEFINE t == currentTerm'[c]
  <1>1. pc'[c] = "election" /\ <<t, v, c>> \in granted'
    BY DEF Votes
  <1>2. /\ NodeInv' /\ \A k \in Server : currentTerm[k] \in Nat /\ currentTerm'[k] \in Nat
    BY LeaderLogsGrow DEF CoreStep
  <1>3. t <= currentTerm[c]
    BY <1>1, <1>2, GrantsAreSound DEF NewGrants
  <1>4. Frozen(c)
    BY <1>1, <1>2, <1>3, ElectionsAreFrozen DEF ElectionsFrozen
  <1>5. t = currentTerm[c] /\ pc[c] = "election" /\ log'[c] = log[c]
    BY <1>4 DEF Frozen
  <1>6. currentTerm'[v] >= t
    BY <1>1, <1>2 DEF NodeInv, VoteInv, GrantsRemembered, GrantsRememberedBy
  <1>7. \/ <<t, v, c>> \in granted
        \/ /\ log' = log
           /\ isLogUpToDate(log[v], getLastIndex(log[c]), getLastTerm(log[c]))
    BY <1>1, <1>2, <1>5, GrantsAreSound DEF NewGrants
  <1>8. QED
    BY <1>4, <1>5, <1>6, <1>7 DEF Votes, Entries

LEMMA CandidatesStaySafe ==
    ASSUME CoreStep
    PROVE  CandidatesAreSafe'
  <1>1. SUFFICES ASSUME NEW n \in Server, role'[n] = "LEADER", NEW e \in Entries(n)',
                        e.term = currentTerm'[n], NEW v \in Server, NEW c \in Server,
                        Votes(v, c)', currentTerm'[c] > currentTerm'[n], Acked(n, v, e.index)'
                 PROVE  e \in Entries(c)' \/ Lost(n, e.index)'
    BY DEF CandidatesAreSafe, Own
  <1>2. Leads(n) /\ e \in Entries(n) /\ e.index \in Nat
    BY <1>1, LeaderEntries
  <1>3. /\ currentTerm'[n] = currentTerm[n] /\ role[n] = "LEADER" /\ Core
        /\ AcksAreKept /\ LeadersAreSafe /\ CandidatesAreSafe
        /\ \A k \in Server : currentTerm[k] \in Nat /\ currentTerm'[k] \in Nat
        /\ e \in Own(n)
    BY <1>1, <1>2, LeaderLogsGrow DEF CoreStep, Core, SafetyInv, Leads, Own
  <1>4. /\ currentTerm'[c] = currentTerm[c] /\ Entries(c)' = Entries(c)
        /\ currentTerm'[v] >= currentTerm[c]
        /\ \/ Votes(v, c)
           \/ /\ log' = log
              /\ isLogUpToDate(log[v], getLastIndex(log[c]), getLastTerm(log[c]))
    BY <1>1, VotesAfter DEF Frozen
  <1>5. currentTerm'[v] > currentTerm[n] /\ currentTerm[c] > currentTerm[n] /\ v # n
    BY <1>1, <1>3, <1>4
  <1>6. Acked(n, v, e.index)
    BY <1>1, <1>2, <1>3, <1>5, NewAcks
  <1>7. e \in Entries(c) \/ Lost(n, e.index)
    <2>1. CASE Votes(v, c)
      BY <1>3, <1>5, <1>6, <2>1 DEF CandidatesAreSafe
    <2>2. CASE isLogUpToDate(log[v], getLastIndex(log[c]), getLastTerm(log[c]))
      <3>1. e \in Entries(v) \/ Lost(n, e.index)
        BY <1>2, <1>3, <1>5, <1>6 DEF AcksAreKept, Own
      <3>2. CASE e \in Entries(v)
        <4>1. e \in Entries(c) \/ \E w \in WonTerms : w > e.term /\ e \notin LeaderLog(w)
          BY <1>3, <2>2, <3>2, UpToDate
        <4>2. QED
          BY <1>3, <4>1 DEF LeadersAreSafe, Own
      <3>3. QED
        BY <3>1, <3>2
    <2>3. QED
      BY <1>4, <2>1, <2>2
  <1>8. QED
    BY <1>2, <1>4, <1>7, LostStays

----------------------------------------------------------------------------
(***************************************************************************)
(* Commitment.                                                             *)
(***************************************************************************)
LEMMA ChosenStays ==
    ASSUME CoreStep, NEW e, Chosen(e)
    PROVE  Chosen(e)'
  <1>1. /\ Core /\ VoteInv /\ \A k \in Server : currentTerm[k] \in Nat /\ currentTerm'[k] \in Nat
        /\ \A k \in Server : currentTerm'[k] >= currentTerm[k]
    BY CoreTypes, LeaderLogsGrow DEF CoreStep, Core
  <1>2. e \in LeaderLog(e.term) /\ \A t \in WonTerms : t > e.term => e \in LeaderLog(t)
    BY DEF Chosen
  <1>3. e.term \in Nat
    BY <1>1, <1>2, LeaderLogFacts
  <1>4. PICK Q \in Majority : \A v \in Q :
           /\ e \in Entries(v)
           /\ \A c \in Server : Votes(v, c) /\ currentTerm[c] > e.term => e \in Entries(c)
    BY DEF Chosen
  <1>5. e \in LeaderLog(e.term)'
    BY <1>2, LeaderLogsGrow
  <1>6. ASSUME NEW t \in WonTerms', t > e.term PROVE e \in LeaderLog(t)'
    <2>1. CASE t \in WonTerms
      BY <1>2, <1>6, <2>1, LeaderLogsGrow
    <2>2. CASE t \notin WonTerms
      <3>1. PICK c \in Server : WinElection(c) /\ t = currentTerm[c]
        BY <2>2, NewWinner
      <3>2. /\ IsMajority(c, Voters(t, c)) /\ pc[c] = "election"
            /\ e \in Entries(c) => e \in LeaderLog(t)'
        BY <3>1, WinFacts
      <3>3. PICK p \in Q : p \in Voters(t, c) \cup {c}
        BY <3>2, QuorumMeets DEF Voters
      <3>4. CASE p = c
        BY <1>4, <3>2, <3>4
      <3>5. CASE <<t, p, c>> \in granted
        <4>1. Votes(p, c) /\ currentTerm[c] > e.term
          BY <1>6, <3>1, <3>2, <3>5 DEF Votes
        <4>2. QED
          BY <1>4, <3>2, <4>1
      <3>6. QED
        BY <3>3, <3>4, <3>5 DEF Voters
    <2>3. QED
      BY <2>1, <2>2
  <1>7. ASSUME NEW v \in Q PROVE e \in Entries(v)'
    <2>1. v \in Server /\ e \in Entries(v)
      BY <1>4 DEF Majority
    <2>2. e.term <= currentTerm[v]
      BY <1>1, <2>1, EntryFacts
    <2>3. currentTerm'[v] = e.term \/ currentTerm'[v] > e.term
      BY <1>1, <1>3, <2>1, <2>2
    <2>4. QED
      BY <1>2, <2>1, <2>3, LogsKept
  <1>8. ASSUME NEW v \in Q, NEW c \in Server, Votes(v, c)', currentTerm'[c] > e.term
        PROVE  e \in Entries(c)'
    <2>1. v \in Server /\ e \in Entries(v)
      BY <1>4 DEF Majority
    <2>2. /\ currentTerm'[c] = currentTerm[c] /\ Entries(c)' = Entries(c)
          /\ \/ Votes(v, c)
             \/ isLogUpToDate(log[v], getLastIndex(log[c]), getLastTerm(log[c]))
      BY <1>8, <2>1, VotesAfter DEF Frozen
    <2>3. CASE Votes(v, c)
      BY <1>4, <1>8, <2>2, <2>3
    <2>4. CASE isLogUpToDate(log[v], getLastIndex(log[c]), getLastTerm(log[c]))
      <3>1. e \in Entries(c) \/ \E w \in WonTerms : w > e.term /\ e \notin LeaderLog(w)
        BY <1>1, <2>1, <2>4, UpToDate
      <3>2. QED
        BY <1>2, <2>2, <3>1
    <2>5. QED
      BY <2>2, <2>3, <2>4
  <1>9. QED
    BY <1>5, <1>6, <1>7, <1>8 DEF Chosen, Majority

LEMMA CommittedStays ==
    ASSUME CoreStep, NEW s \in Nat, NEW t \in Nat, s <= t, NEW e, CommittedIn(s, e)
    PROVE  CommittedIn(t, e)'
  <1>1. PICK f \in {x[2] : x \in led} :
           f.term <= s /\ e.index <= f.index /\ e \in LeaderLog(f.term) /\ Chosen(f)
    BY DEF CommittedIn
  <1>2. Core /\ TypeIInv
    BY CoreTypes DEF CoreStep, Core
  <1>3. f.term \in Nat
    BY <1>1, <1>2, LeaderLogFacts DEF Chosen
  <1>4. f \in {x[2] : x \in led}'
    BY <1>2, HistoriesGrow DEF CoreStep, HistoryGrows
  <1>5. f.term <= t
    BY <1>1, <1>3
  <1>6. QED
    BY <1>1, <1>4, <1>5, ChosenStays, LeaderLogsGrow DEF CommittedIn

\* What a leader may commit with the reply it has, and all before it, is committed.
LEMMA LeaderMayCommit ==
    ASSUME Core, NEW n \in Server, HasReply(n), reply[n].ok, NEW k \in Nat,
           k > 0, k <= getLastIndex(log[n]),
           Committable(n, [matchIndex[n] EXCEPT ![Head(todo[n])] = Matched(n, Head(todo[n]))], k),
           NEW e \in Entries(n), e.index <= k
    PROVE  CommittedIn(currentTerm[n], e)
  <1> DEFINE p     == Head(todo[n])
             match == [matchIndex[n] EXCEPT ![p] = Matched(n, p)]
             A     == {q \in PeerSet(n) : match[q] >= k}
             t     == currentTerm[n]
  <1>1. /\ TypeIInv /\ VoteInv /\ HistoryTypes /\ \A q \in Server : currentTerm[q] \in Nat
        /\ AcksAreKept /\ LeadersAreSafe /\ CandidatesAreSafe
    BY CoreTypes DEF Core, SafetyInv
  <1>2. /\ role[n] = "LEADER" /\ getTerm(log[n], k) = t /\ IsMajority(n, A)
        /\ t \in WonTerms /\ Entries(n) = LeaderLog(t)
    BY HeartbeatLeads DEF Committable, HasReply
  <1>3. matchIndex[n] \in [Server -> Nat]
    BY <1>1 DEF TypeIInv, LeaderTypes
  <1>4. A \in SUBSET PeerSet(n) /\ PeerSet(n) = Server \ {n}
    BY PeersAssumption
  <1>5. ASSUME NEW q \in A PROVE q \in Server /\ q # n /\ Acked(n, q, k)
    <2>1. q \in Server /\ q # n /\ match[q] >= k
      BY <1>4
    <2>2. CASE q = p
      BY <1>3, <2>1, <2>2 DEF Acked
    <2>3. CASE q # p
      BY <1>3, <2>1, <2>3 DEF Acked
    <2>4. QED
      BY <2>1, <2>2, <2>3
  <1> HIDE DEF A, match
  <1>6. PICK f \in Entries(n) : f.index = k /\ f.term = t
    <2>1. k \in 1 .. getLastIndex(log[n])
      BY EntriesOfNode DEF Core
    <2>2. PICK f \in Entries(n) : f.index = k
      BY <2>1, EntriesOfNode DEF Core
    <2>3. f.term = t
      BY <1>2, <2>2, EntryFacts
    <2>4. QED
      BY <2>2, <2>3
  <1>7. f \in Own(n)
    BY <1>6 DEF Own
  <1>8. ~Lost(n, k)
    <2>1. SUFFICES ASSUME NEW Q \in Majority,
                          \A q \in Q : currentTerm[q] > currentTerm[n] /\ ~Acked(n, q, k)
                   PROVE  FALSE
      BY DEF Lost
    <2>2. PICK q \in Q : q \in A \cup {n}
      BY <1>2, <1>4, QuorumMeets
    <2>3. q # n
      BY <1>1, <2>1
    <2>4. QED
      BY <1>5, <2>1, <2>2, <2>3
  <1>9. Chosen(f)
    <2>1. f \in LeaderLog(f.term) /\ \A w \in WonTerms : w > f.term => f \in LeaderLog(w)
      BY <1>1, <1>2, <1>6, <1>7, <1>8 DEF LeadersAreSafe
    <2>2. A \cup {n} \in Majority
      BY <1>2, <1>4, QuorumOf
    <2>3. ASSUME NEW v \in A PROVE f \in Entries(v)
      BY <1>1, <1>2, <1>5, <1>6, <1>8 DEF AcksAreKept
    <2>4. ASSUME NEW v \in A, NEW c \in Server, Votes(v, c), currentTerm[c] > f.term
          PROVE  f \in Entries(c)
      BY <1>1, <1>2, <1>5, <1>6, <1>7, <1>8, <2>4 DEF CandidatesAreSafe
    <2>5. ASSUME NEW c \in Server, Votes(n, c), currentTerm[c] > f.term PROVE FALSE
      <3>1. currentTerm[c] <= currentTerm[n]
        BY <1>1, <2>5 DEF Votes, VoteInv, GrantsRemembered, GrantsRememberedBy
      <3>2. QED
        BY <1>1, <1>6, <2>5, <3>1
    <2>6. ASSUME NEW v \in A \cup {n}
          PROVE  /\ f \in Entries(v)
                 /\ \A c \in Server : Votes(v, c) /\ currentTerm[c] > f.term => f \in Entries(c)
      BY <2>3, <2>4, <2>5
    <2>7. QED
      BY <2>1, <2>2, <2>6 DEF Chosen
  <1>10. f \in {x[2] : x \in led}
    <2>1. <<t, f>> \in led /\ <<t, f>>[2] = f
      BY <1>1, <1>2, <1>6, InLeaderLog
    <2>2. QED
      BY <2>1
  <1>11. f.term <= t
    BY <1>1, <1>6
  <1>12. QED
    BY <1>2, <1>6, <1>9, <1>10, <1>11 DEF CommittedIn

\* A leader's log has an entry at the end of every piece of it that is not empty.
LEMMA PieceReaches ==
    ASSUME Core, NEW m \in Pending, m.type = "AppendEntries",
           NEW i \in Nat, i > 0, i <= m.prevLogIndex + Len(m.entries)
    PROVE  \E g \in LeaderLog(m.term) : g.index >= i
  <1> DEFINE prev == m.prevLogIndex
             es   == m.entries
  <1>1. m \in AppendEntriesArgs /\ Consecutive(m)
    BY CoreTypes, PendingGood DEF Core, GoodMessage, Message, RequestVoteArgs, AppendEntriesArgs,
                                  InstallSnapshotArgs
  <1>2. /\ prev \in Nat /\ es \in Seq(Entry) /\ Len(es) \in Nat /\ DOMAIN es = 1 .. Len(es)
        /\ \A j \in 1 .. Len(es) : es[j].index = prev + j
    BY <1>1 DEF AppendEntriesArgs, Consecutive
  <1>3. /\ prev > 0 => \E g \in LeaderLog(m.term) : g.index = prev
        /\ \A j \in DOMAIN es : es[j] \in LeaderLog(m.term)
    BY PendingIsSafe DEF PieceOfLeaderLog
  <1> HIDE DEF prev, es
  <1>4. CASE Len(es) > 0
    <2>1. Len(es) \in 1 .. Len(es)
      BY <1>2, <1>4
    <2>2. es[Len(es)] \in LeaderLog(m.term) /\ es[Len(es)].index = prev + Len(es)
      BY <1>2, <1>3, <2>1
    <2>3. prev + Len(es) >= i
      BY <1>2 DEF prev, es
    <2>4. QED
      BY <2>2, <2>3
  <1>5. CASE ~(Len(es) > 0)
    <2>1. prev > 0 /\ prev >= i
      BY <1>2, <1>5 DEF prev, es
    <2>2. QED
      BY <1>3, <2>1
  <1>6. QED
    BY <1>4, <1>5

\* Entries after a step, one for each index.
LEMMA EntriesAfter ==
    ASSUME CoreStep, NEW n \in Server
    PROVE  /\ Flat(log'[n]) /\ getLastIndex(log'[n]) \in Nat
           /\ \A e \in Entries(n)' : /\ e \in Entry /\ e.index \in Nat /\ e.term \in Nat
                                     /\ e.index > 0 /\ e.index <= getLastIndex(log'[n])
                                     /\ \A f \in Entries(n)' : f.index = e.index => f = e
  <1>1. Flat(log'[n])
    BY DEF CoreStep, NodeInv, TypeIInv, LogTypes, NothingCompacted, Flat
  <1>2. QED
    BY <1>1, FlatEntries DEF Entries, Entry

CommitsSafeAt(n) ==
    /\ lastApplied[n] = commitIndex[n]
    /\ commitIndex[n] <= getLastIndex(log[n])
    /\ \A e \in Entries(n) : e.index <= commitIndex[n] => CommittedIn(currentTerm[n], e)

LEMMA CommitTypes ==
    ASSUME CoreStep, NEW n \in Server
    PROVE  /\ CommitsSafeAt(n) /\ getLastIndex(log[n]) \in Nat /\ commitIndex[n] \in Nat
           /\ commitIndex \in [Server -> Nat] /\ lastApplied \in [Server -> Nat]
           /\ currentTerm \in [Server -> Nat]
           /\ currentTerm'[n] \in Nat /\ currentTerm[n] <= currentTerm'[n]
  BY EntriesOfNode, LeaderLogsGrow, CoreTypes
     DEF CoreStep, Core, SafetyInv, CommitsAreSafe, CommitsSafeAt, TypeIInv, StoreTypes,
         ElectionTypes

\* A node that commits nothing and keeps its log, or adds to it.
LEMMA CommitsKept ==
    ASSUME CoreStep, NEW n \in Server,
           lastApplied'[n] = lastApplied[n], commitIndex'[n] = commitIndex[n],
           \/ log'[n] = log[n]
           \/ /\ getLastIndex(log'[n]) = getLastIndex(log[n]) + 1
              /\ \A e \in Entries(n)' : e \in Entries(n) \/ e.index > commitIndex[n]
    PROVE  CommitsSafeAt(n)'
  <1>1. /\ CommitsSafeAt(n) /\ getLastIndex(log[n]) \in Nat /\ commitIndex[n] \in Nat
        /\ currentTerm[n] \in Nat /\ currentTerm'[n] \in Nat /\ currentTerm[n] <= currentTerm'[n]
    BY CommitTypes
  <1>2. lastApplied'[n] = commitIndex'[n] /\ commitIndex'[n] <= getLastIndex(log'[n])
    BY <1>1 DEF CommitsSafeAt
  <1>3. ASSUME NEW e \in Entries(n)', e.index <= commitIndex'[n]
        PROVE  CommittedIn(currentTerm[n], e)'
    <2>1. e \in Entries(n) \/ e.index > commitIndex[n]
      BY DEF Entries
    <2>2. e \in Entries(n)
      BY <1>1, <1>3, <2>1, EntriesAfter
    <2>3. CommittedIn(currentTerm[n], e)
      BY <1>1, <1>3, <2>2 DEF CommitsSafeAt
    <2>4. QED
      BY <1>1, <2>3, CommittedStays
  <1>4. QED
    BY <1>2, <1>3 DEF CommitsSafeAt

\* A leader commits, and applies, what it may.
LEMMA CommitsOfLeader ==
    ASSUME CoreStep, NEW n \in Server, AppendSucceeds(n)
    PROVE  CommitsSafeAt(n)'
  <1>1. Core /\ TypeIInv /\ UNCHANGED <<log, currentTerm>> /\ HasReply(n) /\ reply[n].ok
    BY CoreTypes, SuccessApplies DEF CoreStep, Core, AppendSucceeds
  <1>2. PICK k \in Nat :
           /\ IsNewCommitIndex(n, [matchIndex[n] EXCEPT ![Head(todo[n])] =
                                       Matched(n, Head(todo[n]))], k)
           /\ k >= commitIndex[n]
           /\ Applies(n, log[n], k)
    BY <1>1, SuccessApplies
  <1>3. /\ CommitsSafeAt(n) /\ getLastIndex(log[n]) \in Nat /\ commitIndex[n] \in Nat
        /\ commitIndex \in [Server -> Nat] /\ lastApplied \in [Server -> Nat]
        /\ currentTerm[n] \in Nat
    BY CommitTypes
  <1>4. commitIndex'[n] = k /\ k <= getLastIndex(log[n])
    BY <1>2, <1>3 DEF Applies, CommitsSafeAt
  <1>5. lastApplied'[n] = k
    <2>1. lastApplied'[n] = AllApplied(n, k) /\ lastApplied[n] = commitIndex[n]
      BY <1>1, <1>2, <1>3, AppliesWhat DEF CommitsSafeAt
    <2>2. QED
      BY <1>2, <1>3, <2>1 DEF AllApplied
  <1>6. ASSUME NEW e \in Entries(n), e.index <= k PROVE CommittedIn(currentTerm[n], e)
    <2>1. CASE k = commitIndex[n]
      BY <1>3, <1>6, <2>1 DEF CommitsSafeAt
    <2>2. CASE k # commitIndex[n]
      <3>1. k > 0
        BY <1>2, <1>3, <2>2
      <3>2. Committable(n, [matchIndex[n] EXCEPT ![Head(todo[n])] =
                                Matched(n, Head(todo[n]))], k)
        BY <1>2, <2>2 DEF IsNewCommitIndex
      <3>3. QED
        BY <1>1, <1>4, <1>6, <3>1, <3>2, LeaderMayCommit
    <2>3. QED
      BY <2>1, <2>2
  <1>7. ASSUME NEW e \in Entries(n)', e.index <= k PROVE CommittedIn(currentTerm[n], e)'
    <2>1. CommittedIn(currentTerm[n], e)
      BY <1>1, <1>6, <1>7 DEF Entries
    <2>2. QED
      BY <1>1, <1>3, <2>1, CommittedStays
  <1>8. QED
    BY <1>1, <1>4, <1>5, <1>7 DEF CommitsSafeAt

\* A follower commits, and applies, what its leader committed.
LEMMA CommitsOfFollower ==
    ASSUME CoreStep, NEW m \in Pending, AcceptAppendEntries(m)
    PROVE  CommitsSafeAt(m.to)'
  <1> DEFINE n    == m.to
             t    == m.term
             lg   == log'[n]
             old  == commitIndex[n]
             k    == commitIndex'[n]
             sent == m.prevLogIndex + Len(m.entries)
  <1>1. /\ Core /\ TypeIInv /\ n \in Server /\ t \in Nat /\ t \in WonTerms
        /\ t >= currentTerm[n] /\ PieceOfLeaderLog(m) /\ sent \in Nat /\ m.leaderCommit \in Nat
        /\ currentTerm' = [currentTerm EXCEPT ![n] = t]
        /\ getLastIndex(lg) \in Nat /\ getLastIndex(lg) >= sent
        /\ \A e \in Entries(n) : e \in LeaderLog(t) => e \in Entries(n)'
        /\ \A e \in LeaderLog(t) : e.index <= sent => e \in Entries(n)'
    BY AcceptFacts, CoreTypes DEF CoreStep, Core
  <1>2. PICK x : /\ Applies(n, x, FollowerCommit(n, x, m.leaderCommit))
                 /\ FollowerCommit(n, x, m.leaderCommit) \in Nat
                 /\ log'[n] = x
    BY AcceptFacts
  <1>3. /\ CommitsSafeAt(n) /\ getLastIndex(log[n]) \in Nat /\ old \in Nat
        /\ commitIndex \in [Server -> Nat] /\ lastApplied \in [Server -> Nat]
        /\ currentTerm[n] \in Nat /\ currentTerm'[n] = t
    BY <1>1, CommitTypes
  <1>4. k = FollowerCommit(n, lg, m.leaderCommit) /\ k \in Nat
    BY <1>1, <1>2, <1>3 DEF Applies
  <1>5. lastApplied'[n] = AllApplied(n, k)
    BY <1>1, <1>2, <1>3, <1>4, AppliesWhat
  \* PieceOfLeaderLog, unfolded.
  <1>6. /\ m.leaderCommit <= sent
        /\ \A e \in LeaderLog(t) : e.index <= m.leaderCommit => CommittedIn(t, e)
    BY <1>1 DEF PieceOfLeaderLog
  <1> HIDE DEF n, t, lg, old, k, sent
  <1>7. \/ k = old
        \/ k > old /\ k <= m.leaderCommit /\ k <= getLastIndex(lg)
    <2>1. k = IF m.leaderCommit <= old THEN old
              ELSE IF m.leaderCommit < getLastIndex(lg) THEN m.leaderCommit ELSE getLastIndex(lg)
      BY <1>4 DEF FollowerCommit, old
    <2>2. QED
      BY <1>1, <1>3, <1>6, <2>1
  <1>8. lastApplied'[n] = k
    <2>1. lastApplied[n] = old
      BY <1>3 DEF CommitsSafeAt, old
    <2>2. QED
      BY <1>3, <1>4, <1>5, <1>7, <2>1 DEF AllApplied
  \* What was committed before is in the leader's log, and stays.
  <1>9. ASSUME NEW e \in Entries(n), e.index <= old
        PROVE  CommittedIn(t, e)' /\ e \in Entries(n)'
    <2>1. CommittedIn(currentTerm[n], e)
      BY <1>3, <1>9 DEF CommitsSafeAt, old
    <2>2. e \in LeaderLog(t)
      BY <1>1, <1>3, <2>1, CommittedInLater
    <2>3. QED
      BY <1>1, <1>3, <2>1, <2>2, CommittedStays
  <1>10. ASSUME NEW i \in 1 .. old PROVE \E e \in Entries(n) : e.index = i
    <2>1. i \in 1 .. getLastIndex(log[n])
      BY <1>3 DEF CommitsSafeAt, old
    <2>2. QED
      BY <1>1, <2>1, EntriesOfNode DEF Core
  <1>11. k <= getLastIndex(lg)
    <2>1. CASE k = old /\ old > 0
      <3>1. old \in 1 .. old
        BY <1>3, <2>1
      <3>2. PICK e \in Entries(n) : e.index = old
        BY <1>10, <3>1
      <3>3. e \in Entries(n)'
        BY <1>3, <1>9, <3>2
      <3>4. QED
        BY <1>1, <2>1, <3>2, <3>3, EntriesAfter DEF lg
    <2>2. QED
      BY <1>1, <1>3, <1>4, <1>7, <2>1
  <1>12. ASSUME NEW e \in Entries(n)', e.index <= k PROVE CommittedIn(t, e)'
    <2>1. e.index \in Nat /\ e.index > 0
      BY <1>1, EntriesAfter
    <2>2. CASE e.index <= old
      <3>1. e.index \in 1 .. old
        BY <1>3, <2>1, <2>2
      <3>2. PICK f \in Entries(n) : f.index = e.index
        BY <1>10, <3>1
      <3>3. f \in Entries(n)' /\ CommittedIn(t, f)'
        BY <1>9, <2>2, <3>2
      <3>4. f = e
        BY <1>1, <3>2, <3>3, EntriesAfter
      <3>5. QED
        BY <3>3, <3>4
    <2>3. CASE ~(e.index <= old)
      <3>1. e.index <= m.leaderCommit /\ e.index <= sent
        BY <1>1, <1>3, <1>4, <1>6, <1>7, <1>12, <2>1, <2>3
      <3>2. PICK g \in LeaderLog(t) : g.index >= e.index
        BY <1>1, <2>1, <3>1, PieceReaches DEF t, sent, AcceptAppendEntries, AcceptLeader
      <3>3. e.index \in 1 .. g.index
        BY <1>1, <2>1, <3>2, LeaderLogFacts
      <3>4. PICK f \in LeaderLog(t) : f.index = e.index
        BY <1>1, <3>3, LeaderLogFacts
      <3>5. f \in Entries(n)' /\ CommittedIn(t, f)
        BY <1>1, <1>6, <3>1, <3>4
      <3>6. f = e
        BY <1>1, <3>4, <3>5, EntriesAfter
      <3>7. QED
        BY <1>1, <3>5, <3>6, CommittedStays
    <2>4. QED
      BY <2>2, <2>3
  <1>13. QED
    BY <1>3, <1>8, <1>11, <1>12 DEF CommitsSafeAt, n, lg, k

LEMMA CommitsStaySafe ==
    ASSUME CoreStep
    PROVE  CommitsAreSafe'
  <1>1. SUFFICES ASSUME NEW n \in Server PROVE CommitsSafeAt(n)'
    BY DEF CommitsAreSafe, CommitsSafeAt
  <1>2. CASE Quiet
    BY <1>2, CommitsKept DEF Quiet
  <1>3. ASSUME NEW k \in Server, WinElection(k) PROVE CommitsSafeAt(n)'
    <2>1. UNCHANGED <<log, commitIndex, lastApplied>>
      BY <1>3, WinFacts
    <2>2. QED
      BY <2>1, CommitsKept
  <1>4. ASSUME NEW k \in Server, AppendSucceeds(k) PROVE CommitsSafeAt(n)'
    <2>1. CASE n = k
      BY <1>4, <2>1, CommitsOfLeader
    <2>2. CASE n # k
      <3>1. TypeIInv
        BY CoreTypes DEF CoreStep, Core
      <3>2. PICK j \in Nat : j >= commitIndex[k] /\ Applies(k, log[k], j)
        BY <1>4, <3>1, SuccessApplies
      <3>3. /\ commitIndex' = [commitIndex EXCEPT ![k] = j]
            /\ lastApplied' = [lastApplied EXCEPT ![k] = AllApplied(k, j)]
            /\ log' = log
        <4>1. lastApplied' = [lastApplied EXCEPT ![k] = AllApplied(k, j)]
          BY <3>1, <3>2, AppliesWhat
        <4>2. QED
          BY <1>4, <3>2, <4>1 DEF Applies, AppendSucceeds
      <3>4. commitIndex'[n] = commitIndex[n] /\ lastApplied'[n] = lastApplied[n]
        BY <2>2, <3>3, CommitTypes
      <3>5. QED
        BY <3>3, <3>4, CommitsKept
    <2>3. QED
      BY <2>1, <2>2
  <1>5. ASSUME NEW k \in Server, NEW c \in Command, handleClientRequest(k, c)
        PROVE  CommitsSafeAt(n)'
    <2>1. commitIndex' = commitIndex /\ lastApplied' = lastApplied
      BY <1>5, ClientFacts
    <2>2. CASE n = k
      <3>1. getLastIndex(log'[n]) = getLastIndex(log[n]) + 1
        BY <1>5, <2>2, ClientFacts
      <3>2. commitIndex[n] <= getLastIndex(log[n]) /\ getLastIndex(log[n]) \in Nat /\ commitIndex[n] \in Nat
        BY CommitTypes DEF CommitsSafeAt
      <3>3. ASSUME NEW e \in Entries(n)', e \notin Entries(n) PROVE e.index > commitIndex[n]
        <4>1. e.index = getLastIndex(log[n]) + 1
          BY <1>5, <2>2, <3>3, ClientFacts
        <4>2. QED
          BY <3>2, <4>1
      <3>4. QED
        BY <2>1, <3>1, <3>3, CommitsKept
    <2>3. CASE n # k
      <3>1. log'[n] = log[n]
        BY <1>5, <2>3, ClientFacts
      <3>2. QED
        BY <2>1, <3>1, CommitsKept
    <2>4. QED
      BY <2>2, <2>3
  <1>6. ASSUME NEW m \in Pending, AcceptAppendEntries(m) PROVE CommitsSafeAt(n)'
    <2>1. CASE n = m.to
      BY <1>6, <2>1, CommitsOfFollower
    <2>2. CASE n # m.to
      <3>1. TypeIInv /\ m.to \in Server /\ log'[n] = log[n]
        BY <1>6, <2>2, CoreTypes, AcceptFacts DEF CoreStep, Core
      <3>2. PICK x : /\ Applies(m.to, x, FollowerCommit(m.to, x, m.leaderCommit))
                     /\ FollowerCommit(m.to, x, m.leaderCommit) \in Nat
        BY <1>6, AcceptFacts
      <3>3. PICK j \in Nat : j = FollowerCommit(m.to, x, m.leaderCommit)
        BY <3>2
      <3>4. /\ commitIndex' = [commitIndex EXCEPT ![m.to] = j]
            /\ lastApplied' = [lastApplied EXCEPT ![m.to] = AllApplied(m.to, j)]
        <4>1. Applies(m.to, x, j)
          BY <3>2, <3>3
        <4>2. lastApplied' = [lastApplied EXCEPT ![m.to] = AllApplied(m.to, j)]
          BY <3>1, <4>1, AppliesWhat
        <4>3. QED
          BY <4>1, <4>2 DEF Applies
      <3>5. commitIndex'[n] = commitIndex[n] /\ lastApplied'[n] = lastApplied[n]
        BY <2>2, <3>4, CommitTypes
      <3>6. QED
        BY <3>1, <3>5, CommitsKept
    <2>3. QED
      BY <2>1, <2>2
  <1>7. QED
    BY <1>2, <1>3, <1>4, <1>5, <1>6, CoreStepKinds

\* What a node applies in a step is committed.
LEMMA AppliesCommitted ==
    ASSUME CoreStep, NEW n \in Server, NEW lg, NEW k \in Nat, Applies(n, lg, k), log'[n] = lg,
           NEW r \in applied', r \notin applied
    PROVE  CommittedIn(r.term, r.entry)'
  <1>1. /\ TypeIInv /\ CommitsSafeAt(n)' /\ Flat(lg) /\ commitIndex'[n] = k /\ Entries(n)' = EntrySet(lg)
    <2>1. TypeIInv /\ commitIndex \in [Server -> Nat]
      BY CoreTypes, CommitTypes DEF CoreStep, Core
    <2>2. CommitsSafeAt(n)'
      BY CommitsStaySafe DEF CommitsAreSafe, CommitsSafeAt
    <2>3. QED
      BY <2>1, <2>2, EntriesAfter DEF Applies, Entries
  <1>2. PICK i \in lastApplied[n] + 1 .. AllApplied(n, k) : r = Record(n, getEntry(lg, i))
    BY <1>1, AppliesWhat
  <1>3. i \in Nat /\ i <= k /\ HasEntry(lg, i) /\ getEntry(lg, i).index = i
    BY <1>1, AppliesWhat
  <1>4. i \in 1 .. getLastIndex(lg)
    <2>1. lg.snapshotIndex = 0 /\ getLastIndex(lg) = Size(lg) - 1 /\ getLastIndex(lg) \in Nat
      BY <1>1, FlatParts DEF Flat
    <2>2. i > 0 /\ i - 0 < Size(lg)
      BY <1>3, <2>1 DEF HasEntry
    <2>3. Size(lg) = getLastIndex(lg) + 1
      BY <1>1, <2>1 DEF Flat, WellFormed, Log, Size
    <2> HIDE DEF Size
    <2>4. QED
      BY <1>3, <2>1, <2>2, <2>3
  <1>5. PICK e \in EntrySet(lg) : e.index = i
    BY <1>1, <1>4, FlatEntries
  <1>6. e = getEntry(lg, i)
    BY <1>1, <1>5, FlatEntries
  <1>7. CommittedIn(currentTerm[n], e)'
    BY <1>1, <1>3, <1>5 DEF CommitsSafeAt
  <1>8. r.term = currentTerm'[n] /\ r.entry = e
    BY <1>2, <1>6 DEF Record
  <1>9. QED
    BY <1>7, <1>8 DEF CommittedIn

LEMMA AppliedStaysSafe ==
    ASSUME CoreStep
    PROVE  AppliedIsSafe'
  <1>1. SUFFICES ASSUME NEW r \in applied' PROVE CommittedIn(r.term, r.entry)'
    BY DEF AppliedIsSafe
  <1>2. TypeIInv
    BY CoreTypes DEF CoreStep, Core
  <1>3. CASE r \in applied
    <2>1. r.term \in Nat /\ CommittedIn(r.term, r.entry)
      BY <1>2, <1>3 DEF CoreStep, Core, SafetyInv, AppliedIsSafe, TypeIInv, StoreTypes
    <2>2. QED
      BY <2>1, CommittedStays
  <1>4. ASSUME r \notin applied PROVE CommittedIn(r.term, r.entry)'
    <2>1. ASSUME NEW n \in Server, AppendSucceeds(n) PROVE CommittedIn(r.term, r.entry)'
      <3>1. PICK k \in Nat : Applies(n, log[n], k)
        BY <1>2, <2>1, SuccessApplies
      <3>2. log'[n] = log[n]
        BY <2>1 DEF AppendSucceeds
      <3>3. QED
        BY <1>4, <3>1, <3>2, AppliesCommitted
    <2>2. ASSUME NEW m \in Pending, AcceptAppendEntries(m) PROVE CommittedIn(r.term, r.entry)'
      <3>1. m.to \in Server
        BY <2>2, AcceptFacts
      <3>2. PICK x : /\ Applies(m.to, x, FollowerCommit(m.to, x, m.leaderCommit))
                     /\ FollowerCommit(m.to, x, m.leaderCommit) \in Nat
                     /\ log'[m.to] = x
        BY <2>2, AcceptFacts
      <3>3. QED
        BY <1>4, <3>1, <3>2, AppliesCommitted
    <2>3. ASSUME NEW n \in Server, WinElection(n) \/ \E c \in Command : handleClientRequest(n, c)
          PROVE  applied' = applied
      BY <2>3 DEF WinElection, handleClientRequest
    <2>4. QED
      BY <1>4, <2>1, <2>2, <2>3, CoreStepKinds DEF Quiet
  <1>5. QED
    BY <1>3, <1>4

----------------------------------------------------------------------------
(***************************************************************************)
(* Logs and the leaders' logs.                                             *)
(***************************************************************************)

\* Leaders' logs change only with a win and with a command.
LEMMA LeaderLogChange ==
    ASSUME CoreStep
    PROVE  \/ led' = led /\ won' = won
           \/ \E n \in Server : WinElection(n)
           \/ \E n \in Server, c \in Command : handleClientRequest(n, c)
  <1>1. ASSUME NEW n \in Server, AppendSucceeds(n) PROVE led' = led /\ won' = won
    BY <1>1 DEF AppendSucceeds
  <1>2. ASSUME NEW m \in Pending, AcceptAppendEntries(m) PROVE led' = led /\ won' = won
    BY <1>2, AcceptFacts
  <1>3. QED
    BY <1>1, <1>2, CoreStepKinds DEF Quiet

\* LeaderLogsMatch for one entry of the log of the leader of term t.
MatchedAt(t, e) ==
    /\ t \in WonTerms
    /\ e.index > 0 /\ e.term > 0 /\ e.term <= t
    /\ \A i \in 1 .. e.index : \E f \in LeaderLog(t) : f.index = i
    /\ \A f \in LeaderLog(t) : /\ f.index = e.index => f = e
                               /\ f.index <= e.index => f \in LeaderLog(e.term)

\* The log of the leader of t up to e stays what it was.
LEMMA MatchedStays ==
    ASSUME CoreStep, NEW t, NEW e, e \in LeaderLog(t),
           \A f \in LeaderLog(t)' : f \in LeaderLog(t) \/ (f.index > e.index /\ f.index \in Nat)
    PROVE  MatchedAt(t, e)'
  <1>0. /\ Core /\ HistoryTypes
        /\ \A s, f : f \in LeaderLog(s) => f \in LeaderLog(s)'
        /\ \A s : s \in WonTerms => s \in WonTerms'
    BY CoreTypes, LeaderLogsGrow DEF CoreStep, Core, NodeInv, TypeIInv
  <1>1. /\ t \in WonTerms /\ e.index \in Nat
        /\ e.index > 0 /\ e.term > 0 /\ e.term <= t
        /\ \A i \in 1 .. e.index : \E f \in LeaderLog(t) : f.index = i
        /\ \A f \in LeaderLog(t) : /\ f.index = e.index => f = e
                                   /\ f.index <= e.index => f \in LeaderLog(e.term)
    BY <1>0, LeaderLogFacts
  <1>2. ASSUME NEW f \in LeaderLog(t)'
        PROVE  /\ f.index = e.index => f = e
               /\ f.index <= e.index => f \in LeaderLog(e.term)'
    <2>1. CASE f \in LeaderLog(t)
      BY <1>0, <1>1, <2>1
    <2>2. CASE f.index > e.index /\ f.index \in Nat
      BY <1>1, <2>2
    <2>3. QED
      BY <1>2, <2>1, <2>2
  <1>3. QED
    BY <1>0, <1>1, <1>2 DEF MatchedAt

LEMMA LeaderLogsStayMatched ==
    ASSUME CoreStep
    PROVE  LeaderLogsMatch'
  <1>0. /\ Core /\ HistoryTypes /\ HistoryTypes'
        /\ \A t, e : e \in LeaderLog(t) => e \in LeaderLog(t)'
        /\ \A t : t \in WonTerms => t \in WonTerms'
    BY CoreTypes, LeaderLogsGrow DEF CoreStep, Core, NodeInv, TypeIInv
  <1>1. SUFFICES ASSUME NEW t, NEW e \in LeaderLog(t)' PROVE MatchedAt(t, e)'
    <2>1. \A x \in led' : x = <<x[1], x[2]>>
      BY <1>0 DEF HistoryTypes
    <2>2. ASSUME NEW x \in led' PROVE x[1] \in WonTerms'
      <3>1. x[2] \in LeaderLog(x[1])'
        BY <1>0, <2>1, InLeaderLog
      <3>2. QED
        BY <1>1, <3>1 DEF MatchedAt
    <2>3. QED
      BY <1>1, <2>2 DEF LeaderLogsMatch, MatchedAt
  <1>3. CASE led' = led /\ won' = won
    <2>1. \A f : f \in LeaderLog(t)' <=> f \in LeaderLog(t)
      BY <1>0, <1>3, InLeaderLog
    <2>2. e \in LeaderLog(t)
      BY <1>1, <2>1
    <2>3. \A f \in LeaderLog(t)' : f \in LeaderLog(t) \/ (f.index > e.index /\ f.index \in Nat)
      BY <2>1
    <2>4. QED
      BY <2>2, <2>3, MatchedStays
  <1>4. ASSUME NEW n \in Server, WinElection(n) PROVE MatchedAt(t, e)'
    <2>1. /\ currentTerm[n] \in Nat
          /\ \A s : s \in WonTerms' <=> s \in WonTerms \/ s = currentTerm[n]
          /\ \A s, f : f \in LeaderLog(s)' <=>
                          f \in LeaderLog(s) \/ (s = currentTerm[n] /\ f \in Entries(n))
          /\ \A f : f \notin LeaderLog(currentTerm[n])
      BY <1>4, WinFacts
    <2>2. CASE t # currentTerm[n]
      <3>1. e \in LeaderLog(t)
        BY <1>1, <2>1, <2>2
      <3>2. \A f \in LeaderLog(t)' : f \in LeaderLog(t) \/ (f.index > e.index /\ f.index \in Nat)
        BY <2>1, <2>2
      <3>3. QED
        BY <3>1, <3>2, MatchedStays
    <2>3. CASE t = currentTerm[n]
      <3>1. e \in Entries(n) /\ \A f : f \in LeaderLog(t)' <=> f \in Entries(n)
        BY <2>1, <2>3
      <3>2. QED
        BY <1>0, <2>1, <2>3, <3>1, EntryFacts DEF MatchedAt
    <2>4. QED
      BY <2>2, <2>3
  <1>5. ASSUME NEW n \in Server, NEW c \in Command, handleClientRequest(n, c) PROVE MatchedAt(t, e)'
    <2> DEFINE x    == NewEntry(n, c)
               last == getLastIndex(log[n])
    <2>1. /\ role[n] = "LEADER" /\ x \in Entry /\ x.index = last + 1 /\ x.term = currentTerm[n]
          /\ \A s, f : f \in LeaderLog(s)' <=> f \in LeaderLog(s) \/ (s = currentTerm[n] /\ f = x)
      BY <1>5, ClientFacts
    <2>2. /\ last \in Nat /\ currentTerm[n] \in Nat /\ currentTerm[n] > 0
          /\ currentTerm[n] \in WonTerms /\ Entries(n) = LeaderLog(currentTerm[n])
      BY <1>0, <2>1, LeaderFacts, EntriesOfNode, CoreTypes DEF Core
    <2> HIDE DEF x, last
    <2>3. CASE e \in LeaderLog(t)
      <3>1. ASSUME NEW f \in LeaderLog(t)', f \notin LeaderLog(t)
            PROVE  f.index > e.index /\ f.index \in Nat
        <4>1. f = x /\ t = currentTerm[n]
          BY <2>1, <3>1
        <4>2. e.index \in Nat /\ e.index <= last
          BY <1>0, <2>2, <2>3, <4>1, EntryFacts DEF last
        <4>3. QED
          BY <2>1, <2>2, <4>1, <4>2
      <3>2. \A f \in LeaderLog(t)' : f \in LeaderLog(t) \/ (f.index > e.index /\ f.index \in Nat)
        BY <3>1
      <3>3. QED
        BY <2>3, <3>2, MatchedStays
    <2>4. CASE e = x /\ t = currentTerm[n]
      <3>1. ASSUME NEW i \in 1 .. e.index PROVE \E f \in LeaderLog(t)' : f.index = i
        <4>1. CASE i = e.index
          BY <4>1
        <4>2. CASE i # e.index
          <5>1. i \in 1 .. last
            BY <2>1, <2>2, <2>4, <4>2
          <5>2. PICK f \in Entries(n) : f.index = i
            BY <1>0, <5>1, EntriesOfNode DEF Core, last
          <5>3. f \in LeaderLog(t)'
            BY <1>0, <2>2, <2>4, <5>2
          <5>4. QED
            BY <5>2, <5>3
        <4>3. QED
          BY <4>1, <4>2
      <3>2. ASSUME NEW f \in LeaderLog(t)'
            PROVE  /\ f.index = e.index => f = e
                   /\ f \in LeaderLog(e.term)'
        <4>1. CASE f = x
          BY <2>1, <2>4, <3>2, <4>1
        <4>2. CASE f \in LeaderLog(t)
          <5>1. f.index \in Nat /\ f.index <= last
            BY <1>0, <2>2, <2>4, <4>2, EntryFacts DEF last
          <5>2. QED
            BY <2>1, <2>2, <2>4, <3>2, <5>1
        <4>3. QED
          BY <2>1, <4>1, <4>2
      <3>3. e.index > 0 /\ e.term > 0 /\ e.term <= t
        BY <2>1, <2>2, <2>4
      <3>4. QED
        BY <1>0, <2>2, <2>4, <3>1, <3>2, <3>3 DEF MatchedAt
    <2>5. QED
      BY <2>1, <2>3, <2>4
  <1>6. QED
    BY <1>3, <1>4, <1>5, LeaderLogChange

LEMMA LogChange ==
    ASSUME CoreStep, NEW n \in Server
    PROVE  \/ log'[n] = log[n]
           \/ \E c \in Command : handleClientRequest(n, c)
           \/ \E m \in Pending : AcceptAppendEntries(m) /\ m.to = n
  <1>1. ASSUME NEW k \in Server, AppendSucceeds(k) \/ WinElection(k) PROVE log'[n] = log[n]
    BY <1>1 DEF AppendSucceeds, WinElection
  <1>2. ASSUME NEW k \in Server, NEW c \in Command, handleClientRequest(k, c), k # n
        PROVE  log'[n] = log[n]
    BY <1>2, ClientFacts
  <1>3. ASSUME NEW m \in Pending, AcceptAppendEntries(m), m.to # n PROVE log'[n] = log[n]
    BY <1>3, AcceptFacts
  <1>4. QED
    BY <1>1, <1>2, <1>3, CoreStepKinds DEF Quiet

LEMMA LogsStayMatched ==
    ASSUME CoreStep
    PROVE  LogsMatchLeaders'
  <1>0. /\ Core /\ NodeInv'
        /\ \A t, e : e \in LeaderLog(t) => e \in LeaderLog(t)'
        /\ \A k \in Server : /\ currentTerm[k] \in Nat /\ currentTerm'[k] \in Nat
                             /\ currentTerm'[k] >= currentTerm[k]
    BY LeaderLogsGrow DEF CoreStep
  <1>1. SUFFICES ASSUME NEW n \in Server, NEW e \in Entries(n)', NEW f \in Entries(n)'
                 PROVE  /\ e.term <= currentTerm'[n]
                        /\ f.index <= e.index => f \in LeaderLog(e.term)'
    BY DEF LogsMatchLeaders
  <1>2. CASE e \in Entries(n) /\ f \in Entries(n)
    <2>1. /\ e.term \in Nat /\ e.term <= currentTerm[n]
          /\ f.index <= e.index => f \in LeaderLog(e.term)
      BY <1>0, <1>2, EntryFacts
    <2>2. QED
      BY <1>0, <2>1
  <1>3. CASE log'[n] = log[n]
    BY <1>2, <1>3 DEF Entries
  <1>4. ASSUME NEW c \in Command, handleClientRequest(n, c)
        PROVE  /\ e.term <= currentTerm'[n]
               /\ f.index <= e.index => f \in LeaderLog(e.term)'
    <2> DEFINE x == NewEntry(n, c)
    <2>1. /\ role[n] = "LEADER" /\ x.term = currentTerm[n] /\ x.index = getLastIndex(log[n]) + 1
          /\ currentTerm' = currentTerm
          /\ \A g : g \in Entries(n)' <=> g \in Entries(n) \/ g = x
          /\ \A s, g : g \in LeaderLog(s)' <=> g \in LeaderLog(s) \/ (s = currentTerm[n] /\ g = x)
      BY <1>4, ClientFacts DEF electionVars
    <2> HIDE DEF x
    <2>2. Entries(n) = LeaderLog(currentTerm[n])
      BY <1>0, <2>1, LeaderFacts
    <2>3. CASE e = x
      <3>1. f \in LeaderLog(e.term)'
        BY <1>1, <2>1, <2>2, <2>3
      <3>2. QED
        BY <1>0, <2>1, <2>3, <3>1
    <2>4. CASE e \in Entries(n) /\ f = x
      <3>1. e.term <= currentTerm[n] /\ e.index \in Nat /\ e.index <= getLastIndex(log[n])
        BY <1>0, <2>4, EntryFacts
      <3>2. getLastIndex(log[n]) \in Nat
        BY <1>0, EntriesOfNode DEF Core
      <3>3. ~(f.index <= e.index)
        BY <2>1, <2>4, <3>1, <3>2
      <3>4. QED
        BY <2>1, <3>1, <3>3
    <2>5. QED
      BY <1>1, <1>2, <2>1, <2>3, <2>4
  <1>5. ASSUME NEW m \in Pending, AcceptAppendEntries(m), m.to = n
        PROVE  /\ e.term <= currentTerm'[n]
               /\ f.index <= e.index => f \in LeaderLog(e.term)'
    <2>1. /\ m.term \in Nat /\ currentTerm' = [currentTerm EXCEPT ![n] = m.term]
          /\ \/ \A g \in Entries(n)' : g \in LeaderLog(m.term)
             \/ \A g : g \in Entries(n)' <=> g \in Entries(n)
      BY <1>5, AcceptFacts
    <2>2. currentTerm'[n] = m.term
      BY <1>0, <2>1, CoreTypes DEF Core, TypeIInv, ElectionTypes
    <2>3. CASE e \in LeaderLog(m.term) /\ f \in LeaderLog(m.term)
      <3>1. e.term <= m.term /\ (f.index <= e.index => f \in LeaderLog(e.term))
        BY <1>0, <2>3, LeaderLogFacts
      <3>2. QED
        BY <1>0, <2>2, <3>1
    <2>4. QED
      BY <1>1, <1>2, <2>1, <2>3
  <1>6. QED
    BY <1>3, <1>4, <1>5, LogChange

LEMMA SentinelsAreKept ==
    ASSUME CoreStep
    PROVE  SentinelsStay'
  <1>1. ASSUME NEW n \in Server PROVE log'[n].Entries[1] = log[n].Entries[1]
    <2>1. ASSUME NEW c \in Command, handleClientRequest(n, c)
          PROVE  log'[n].Entries[1] = log[n].Entries[1]
      BY <2>1, ClientFacts
    <2>2. ASSUME NEW m \in Pending, AcceptAppendEntries(m), m.to = n
          PROVE  log'[n].Entries[1] = log[n].Entries[1]
      BY <2>2, AcceptFacts
    <2>3. QED
      BY <2>1, <2>2, LogChange
  <1>2. SentinelsStay
    BY DEF CoreStep, Core, SafetyInv
  <1>3. QED
    BY <1>1, <1>2 DEF SentinelsStay

----------------------------------------------------------------------------
(***************************************************************************)
(* Leaders and their own logs.                                             *)
(***************************************************************************)

\* Two leaders are of two terms.
LEMMA OneLeader ==
    ASSUME Core, NEW k \in Server, NEW n \in Server, role[k] = "LEADER", role[n] = "LEADER",
           currentTerm[k] = currentTerm[n]
    PROVE  k = n
  <1>1. ElectionInv /\ currentTerm[n] \in Nat /\ impostorTerms = {}
    BY CoreTypes DEF Core, NoImpostor
  <1>2. <<currentTerm[n], k>> \in won /\ <<currentTerm[n], n>> \in won
    BY <1>1 DEF ElectionInv, Elections, LeadersWon
  <1>3. QED
    BY <1>1, <1>2 DEF ElectionInv, Elections, OneWinner

LEMMA LeaderKeepsItsLog ==
    ASSUME CoreStep, NEW n \in Server, role'[n] = "LEADER", NEW s \in Nat, s = currentTerm'[n]
    PROVE  Entries(n)' = LeaderLog(s)'
  <1>0. Core /\ HistoryTypes /\ HistoryTypes'
    BY CoreTypes DEF CoreStep, Core, NodeInv, TypeIInv
  <1>1. SUFFICES ASSUME NEW e PROVE e \in Entries(n)' <=> e \in LeaderLog(s)'
    OBVIOUS
  <1>2. CASE WinElection(n)
    <2>1. /\ s = currentTerm[n] /\ Entries(n)' = Entries(n)
          /\ e \notin LeaderLog(currentTerm[n])
      BY <1>2, WinFacts DEF Entries
    <2>2. e \in LeaderLog(s)' <=> e \in LeaderLog(s) \/ (s = currentTerm[n] /\ e \in Entries(n))
      BY <1>2, WinFacts
    <2>3. QED
      BY <2>1, <2>2
  <1>3. ASSUME Leads(n), NEW c \in Command, handleClientRequest(n, c)
        PROVE  e \in Entries(n)' <=> e \in LeaderLog(s)'
    <2>1. s = currentTerm[n] /\ Entries(n) = LeaderLog(s)
      BY <1>0, <1>3, LeaderFacts DEF Leads
    <2>2. /\ e \in Entries(n)' <=> e \in Entries(n) \/ e = NewEntry(n, c)
          /\ e \in LeaderLog(s)' <=> e \in LeaderLog(s) \/ (s = currentTerm[n] /\ e = NewEntry(n, c))
      BY <1>3, ClientFacts
    <2>3. QED
      BY <2>1, <2>2
  <1>4. CASE Leads(n) /\ log'[n] = log[n]
    <2>1. s = currentTerm[n] /\ Entries(n) = LeaderLog(s) /\ s \in WonTerms /\ role[n] = "LEADER"
      BY <1>0, <1>4, LeaderFacts DEF Leads
    <2>2. Entries(n)' = Entries(n)
      BY <1>4 DEF Entries
    <2>3. CASE led' = led
      BY <1>0, <2>1, <2>2, <2>3, InLeaderLog
    <2>4. ASSUME NEW k \in Server, WinElection(k) PROVE e \in LeaderLog(s)' <=> e \in LeaderLog(s)
      <3>1. currentTerm[k] \notin WonTerms
        BY <2>4, WinFacts
      <3>2. e \in LeaderLog(s)' <=> e \in LeaderLog(s) \/ (s = currentTerm[k] /\ e \in Entries(k))
        BY <2>4, WinFacts
      <3>3. QED
        BY <2>1, <3>1, <3>2
    <2>5. ASSUME NEW k \in Server, NEW c \in Command, handleClientRequest(k, c)
          PROVE  e \in Entries(n)' <=> e \in LeaderLog(s)'
      <3>1. CASE k = n
        BY <1>3, <1>4, <2>5, <3>1
      <3>2. CASE k # n
        <4>1. role[k] = "LEADER"
          BY <2>5, ClientFacts
        <4>2. s # currentTerm[k]
          BY <1>0, <2>1, <3>2, <4>1, OneLeader
        <4>3. e \in LeaderLog(s)' <=> e \in LeaderLog(s) \/ (s = currentTerm[k] /\ e = NewEntry(k, c))
          BY <2>5, ClientFacts
        <4>4. QED
          BY <2>1, <2>2, <4>2, <4>3
      <3>3. QED
        BY <3>1, <3>2
    <2>6. QED
      BY <2>1, <2>2, <2>3, <2>4, <2>5, LeaderLogChange
  <1>5. QED
    BY <1>2, <1>3, <1>4, LeadersStay

LEMMA LeadersStillKeepTheirLog ==
    ASSUME CoreStep
    PROVE  LeadersKeepTheirLog'
  <1>1. \A k \in Server : currentTerm'[k] \in Nat
    BY LeaderLogsGrow
  <1>2. ASSUME NEW n \in Server, role'[n] = "LEADER"
        PROVE  Entries(n)' = LeaderLog(currentTerm[n])'
    <2>1. PICK s \in Nat : s = currentTerm'[n]
      BY <1>1
    <2>2. Entries(n)' = LeaderLog(s)'
      BY <1>2, <2>1, LeaderKeepsItsLog
    <2>3. QED
      BY <2>1, <2>2 DEF LeaderLog
  <1>3. QED
    BY <1>2 DEF LeadersKeepTheirLog

\* A leader counts and sends something else only with a reply.
LEMMA LeaderVarsChange ==
    ASSUME CoreStep, NEW n \in Server, Leads(n)
    PROVE  \/ nextIndex'[n] = nextIndex[n] /\ matchIndex'[n] = matchIndex[n]
           \/ AppendSucceeds(n)
           \/ AppendRejected(n)
  <1>1. TypeIInv /\ VoteInv /\ Core
    BY CoreTypes DEF CoreStep, Core
  <1>2. ASSUME NEW k \in Server, NodeStep(k)
        PROVE  \/ nextIndex'[n] = nextIndex[n] /\ matchIndex'[n] = matchIndex[n]
               \/ AppendSucceeds(n)
               \/ AppendRejected(n)
    <2>1. CASE k # n
      BY <1>1, <1>2, <2>1 DEF NodeStep, ElectionTimeout, ElectionStepsDown, CountVote, WinElection,
         becomeLeader, LoseElection, HeartbeatTick, HeartbeatStepsDown, SnapshotSent,
         AppendSucceeds, AppendRejected, CallFails, takeSnapshot, handleClientRequest,
         leaderVars, TypeIInv, LeaderTypes
    <2>2. CASE k = n
      <3>1. ~WinElection(n) /\ ~SnapshotSent(n)
        BY <1>1, NoSnapshotSteps DEF WinElection, VoteInv, Campaigns, Leads
      <3>2. QED
        BY <1>2, <2>2, <3>1 DEF NodeStep, ElectionTimeout, ElectionStepsDown, CountVote,
           LoseElection, HeartbeatTick, HeartbeatStepsDown, CallFails, takeSnapshot,
           handleClientRequest, leaderVars
    <2>3. QED
      BY <2>1, <2>2
  <1>3. ASSUME NEW m \in Pending, Handle(m)
        PROVE  nextIndex'[n] = nextIndex[n] /\ matchIndex'[n] = matchIndex[n]
    BY <1>1, <1>3, HandlerReplies DEF leaderVars
  <1>4. QED
    BY <1>2, <1>3 DEF CoreStep, Next, vars, leaderVars

LEMMA LeadersStillInLog ==
    ASSUME CoreStep
    PROVE  LeadersStayInLog'
  <1>0. Core /\ TypeIInv
    BY CoreTypes DEF CoreStep, Core
  <1>1. SUFFICES ASSUME NEW n \in Server, role'[n] = "LEADER", NEW p \in Server
                 PROVE  /\ nextIndex'[n][p] <= getLastIndex(log'[n]) + 1
                        /\ matchIndex'[n][p] <= getLastIndex(log'[n])
    BY DEF LeadersStayInLog
  <1> DEFINE last == getLastIndex(log[n])
  <1>2. last \in Nat /\ Flat(log[n])
    BY <1>0, EntriesOfNode DEF Core
  <1>3. CASE WinElection(n)
    <2>1. log'[n] = log[n] /\ nextIndex'[n][p] = last + 1 /\ matchIndex'[n][p] = 0
      BY <1>3, WinFacts
    <2>2. QED
      BY <1>2, <2>1
  <1>4. ASSUME Leads(n)
        PROVE  \A q \in Server : /\ nextIndex[n][q] \in Nat \ {0} /\ nextIndex[n][q] <= last + 1
                                 /\ matchIndex[n][q] \in Nat /\ matchIndex[n][q] <= last
    BY <1>0, <1>4, LeaderFacts DEF Leads
  <1>5. ASSUME Leads(n), NEW c \in Command, handleClientRequest(n, c)
        PROVE  /\ nextIndex'[n][p] <= getLastIndex(log'[n]) + 1
               /\ matchIndex'[n][p] <= getLastIndex(log'[n])
    <2>1. getLastIndex(log'[n]) = last + 1 /\ UNCHANGED leaderVars
      BY <1>5, ClientFacts
    <2>2. nextIndex'[n][p] = nextIndex[n][p] /\ matchIndex'[n][p] = matchIndex[n][p]
      BY <2>1 DEF leaderVars
    <2>3. QED
      BY <1>2, <1>4, <1>5, <2>1, <2>2
  <1>6. CASE Leads(n) /\ log'[n] = log[n]
    <2>1. CASE nextIndex'[n] = nextIndex[n] /\ matchIndex'[n] = matchIndex[n]
      BY <1>4, <1>6, <2>1
    <2> DEFINE q == Head(todo[n])
    <2>2. ASSUME HasReply(n) PROVE q \in Server /\ reply[n] \in Reply
      BY <1>0, <2>2, HeartbeatPeer DEF HasReply
    <2>3. CASE AppendRejected(n)
      <3>1. /\ HasReply(n) /\ matchIndex' = matchIndex
            /\ nextIndex' = [nextIndex EXCEPT ![n][q] = NextAfterRejection(n, q)]
        BY <2>3 DEF AppendRejected
      <3>2. reply[n].conflictIndex \in Nat /\ nextIndex \in [Server -> [Server -> Nat \ {0}]]
        BY <1>0, <2>2, <3>1 DEF Reply, TypeIInv, LeaderTypes
      <3>3. reply[n].conflictIndex = 0 \/ reply[n].conflictIndex < nextIndex[n][q]
        BY <1>0, <3>1 DEF Core, HintsAreBehind
      <3>4. NextAfterRejection(n, q) <= last + 1
        BY <1>2, <1>4, <1>6, <2>2, <3>1, <3>2, <3>3 DEF NextAfterRejection
      <3>5. nextIndex'[n][p] = IF p = q THEN NextAfterRejection(n, q) ELSE nextIndex[n][p]
        BY <2>2, <3>1, <3>2
      <3>6. QED
        BY <1>4, <1>6, <3>1, <3>4, <3>5
    <2>4. CASE AppendSucceeds(n)
      <3> DEFINE es == EntriesFrom(log[n], nextIndex[n][q])
      <3>1. /\ HasReply(n)
            /\ matchIndex' = [matchIndex EXCEPT ![n] = [matchIndex[n] EXCEPT ![q] = Matched(n, q)]]
            /\ nextIndex' = [nextIndex EXCEPT ![n][q] = IF EntriesFrom(log[n], @) = <<>>
                                                        THEN @ ELSE Matched(n, q) + 1]
        BY <2>4 DEF AppendSucceeds
      <3>2. /\ nextIndex \in [Server -> [Server -> Nat \ {0}]]
            /\ matchIndex \in [Server -> [Server -> Nat]]
        BY <1>0 DEF TypeIInv, LeaderTypes
      <3>3. nextIndex[n][q] \in Nat \ {0}
        BY <2>2, <3>1, <3>2
      <3>4. es # <<>> => es[Len(es)].index = last
        BY <1>2, <3>3, FlatEntriesFrom
      <3>5. Matched(n, q) = IF es = <<>> THEN matchIndex[n][q] ELSE last
        BY <3>4 DEF Matched
      <3>6. /\ nextIndex'[n][p] = IF p = q /\ es # <<>> THEN Matched(n, q) + 1 ELSE nextIndex[n][p]
            /\ matchIndex'[n][p] = IF p = q THEN Matched(n, q) ELSE matchIndex[n][p]
        BY <2>2, <3>1, <3>2
      <3>7. QED
        BY <1>2, <1>4, <1>6, <2>2, <3>1, <3>5, <3>6
    <2>5. QED
      BY <1>6, <2>1, <2>3, <2>4, LeaderVarsChange
  <1>7. QED
    BY <1>1, <1>3, <1>5, <1>6, LeadersStay

----------------------------------------------------------------------------
(***************************************************************************)
(* Requests and votes.                                                     *)
(***************************************************************************)

LEMMA TermsStaySound ==
    ASSUME CoreStep
    PROVE  TermsAreSound'
  <1>0. /\ Core /\ TypeIInv /\ HistoryTypes' /\ TermsAreSound
        /\ \A k \in Server : /\ currentTerm[k] \in Nat /\ currentTerm'[k] \in Nat
                             /\ currentTerm'[k] >= currentTerm[k]
    BY CoreTypes, LeaderLogsGrow DEF CoreStep, Core, NodeInv, TypeIInv, SafetyInv
  <1>1. ASSUME NEW t \in WonTerms' PROVE t > 0
    <2>1. CASE t \in WonTerms
      BY <1>0, <2>1 DEF TermsAreSound
    <2>2. CASE t \notin WonTerms
      <3>1. PICK c \in Server : WinElection(c) /\ t = currentTerm[c]
        BY <1>1, <2>2, NewWinner
      <3>2. QED
        BY <3>1, WinFacts
    <2>3. QED
      BY <2>1, <2>2
  <1>2. ASSUME NEW n \in Server, role'[n] # "FOLLOWER" PROVE currentTerm'[n] > 0
    <2>1. role[n] # "FOLLOWER" \/ currentTerm'[n] > currentTerm[n]
      <3>1. ASSUME UNCHANGED role PROVE role[n] # "FOLLOWER"
        BY <1>2, <3>1
      <3>2. ASSUME NEW k \in Server, NodeStep(k)
            PROVE  role[n] # "FOLLOWER" \/ currentTerm'[n] > currentTerm[n]
        <4>1. CASE ElectionTimeout(k)
          BY <1>0, <1>2, <4>1 DEF ElectionTimeout, becomeCandidate, TypeIInv, ElectionTypes
        <4>2. CASE ElectionStepsDown(k) \/ HeartbeatStepsDown(k)
          BY <1>0, <1>2, <4>2 DEF ElectionStepsDown, HeartbeatStepsDown, becomeFollower,
                                  TypeIInv, ElectionTypes
        <4>3. CASE WinElection(k)
          <5>1. role[k] # "FOLLOWER"
            BY <1>0, <4>3, CoreTypes DEF Core, VoteInv, Campaigns, WinElection
          <5>2. QED
            BY <1>2, <4>3, <5>1, WinFacts
        <4>4. QED
          BY <3>1, <3>2, <4>1, <4>2, <4>3
             DEF NodeStep, CountVote, LoseElection, HeartbeatTick, SnapshotSent, AppendSucceeds,
                 AppendRejected, CallFails, takeSnapshot, handleClientRequest, electionVars
      <3>3. ASSUME NEW m \in Pending, Handle(m) PROVE role[n] # "FOLLOWER"
        <4>1. role'[n] \in {role[n], "FOLLOWER"}
          <5>0. role \in [Server -> Role] /\ m.to \in Server /\ ~handleInstallSnapshot(m)
            BY <1>0, PendingGood, NoSnapshotSteps DEF TypeIInv, ElectionTypes
          <5>1. CASE HandleStale(m)
            BY <5>1 DEF HandleStale, electionVars
          <5>2. CASE handleRequestVote(m)
            BY <5>0, <5>2 DEF handleRequestVote
          <5>3. CASE RejectAppendEntries(m) \/ AcceptAppendEntries(m)
            <6>1. AcceptLeader(m)
              BY <5>3 DEF RejectAppendEntries, AcceptAppendEntries
            <6>2. QED
              BY <5>0, <6>1 DEF AcceptLeader
          <5>4. QED
            BY <3>3, <5>0, <5>1, <5>2, <5>3 DEF Handle
        <4>2. QED
          BY <1>2, <4>1
      <3>4. QED
        BY <3>1, <3>2, <3>3 DEF CoreStep, Next, vars, electionVars
    <2>2. QED
      BY <1>0, <2>1 DEF TermsAreSound
  <1>3. ASSUME NEW g \in granted' PROVE g[1] <= currentTerm'[g[3]]
    <2>1. g = <<g[1], g[2], g[3]>> /\ g[1] \in Nat /\ g[2] \in Server /\ g[3] \in Server
      BY <1>0, <1>3 DEF HistoryTypes
    <2>2. g[1] <= currentTerm[g[3]]
      BY <1>3, <2>1, GrantsAreSound DEF NewGrants
    <2>3. QED
      BY <1>0, <2>1, <2>2
  <1>4. QED
    BY <1>1, <1>2, <1>3 DEF TermsAreSound

LEMMA LateIsPending ==
    ASSUME CoreStep
    PROVE  late' \subseteq Pending
  <1>1. ASSUME NEW n \in Server, NodeStep(n) PROVE late' \subseteq Pending
    <2>1. CASE CallFails(n)
      BY <2>1 DEF CallFails, Pending, Waiting
    <2>2. CASE late' = late
      BY <2>2 DEF Pending
    <2>3. QED
      BY <1>1, <2>1, <2>2
         DEF NodeStep, ElectionTimeout, ElectionStepsDown, CountVote, WinElection, LoseElection,
             HeartbeatTick, HeartbeatStepsDown, SnapshotSent, AppendSucceeds, AppendRejected,
             PeerDone, takeSnapshot, handleClientRequest, SendTo
  <1>2. ASSUME NEW m \in Pending, Handle(m) PROVE late' \subseteq Pending
    <2>1. PICK rep \in Reply : Answer(m, rep)
      BY <1>2, CoreTypes, HandlerReplies DEF CoreStep, Core
    <2>2. QED
      BY <2>1 DEF Answer, Pending
  <1>3. QED
    BY <1>1, <1>2 DEF CoreStep, Next, vars, Pending

\* A request for entries stays a piece of its leader's log.
LEMMA PieceStays ==
    ASSUME CoreStep, NEW m \in Pending, m.type = "AppendEntries"
    PROVE  PieceOfLeaderLog(m)'
  <1> DEFINE t == m.term
  <1>0. /\ Core /\ t \in Nat /\ t \in WonTerms /\ PieceOfLeaderLog(m)
        /\ m \in AppendEntriesArgs
        /\ HistoryTypes /\ HistoryTypes'
        /\ \A s, f : f \in LeaderLog(s) => f \in LeaderLog(s)'
    <2>1. Core /\ HistoryTypes /\ HistoryTypes' /\ TypeIInv
      BY CoreTypes DEF CoreStep, Core, NodeInv, TypeIInv
    <2>2. m \in AppendEntriesArgs
      BY <2>1, PendingGood DEF GoodMessage, Message, RequestVoteArgs, AppendEntriesArgs,
                               InstallSnapshotArgs
    <2>3. QED
      BY <2>1, <2>2, PendingIsSafe, LeaderLogsGrow
  <1>1. m.leaderCommit \in Nat
    BY <1>0 DEF AppendEntriesArgs
  <1>2. ASSUME NEW e \in LeaderLog(t)', e.index <= m.leaderCommit PROVE CommittedIn(t, e)'
    <2>1. CASE e \in LeaderLog(t)
      <3>1. CommittedIn(t, e)
        BY <1>0, <1>2, <2>1 DEF PieceOfLeaderLog
      <3>2. QED
        BY <1>0, <3>1, CommittedStays
    <2>2. CASE e \notin LeaderLog(t)
      <3>1. ASSUME led' = led PROVE FALSE
        BY <1>0, <1>2, <2>2, <3>1, InLeaderLog
      <3>2. ASSUME NEW n \in Server, WinElection(n) PROVE FALSE
        <4>1. currentTerm[n] \notin WonTerms
          BY <3>2, WinFacts
        <4>2. e \in LeaderLog(t)' <=> e \in LeaderLog(t) \/ (t = currentTerm[n] /\ e \in Entries(n))
          BY <3>2, WinFacts
        <4>3. QED
          BY <1>0, <1>2, <2>2, <4>1, <4>2
      <3>3. ASSUME NEW n \in Server, NEW c \in Command, handleClientRequest(n, c) PROVE FALSE
        <4>1. /\ t = currentTerm[n] /\ e = NewEntry(n, c) /\ role[n] = "LEADER"
              /\ e.index = getLastIndex(log[n]) + 1
          <5>1. e \in LeaderLog(t)' <=> e \in LeaderLog(t) \/ (t = currentTerm[n] /\ e = NewEntry(n, c))
            BY <3>3, ClientFacts
          <5>2. role[n] = "LEADER" /\ NewEntry(n, c).index = getLastIndex(log[n]) + 1
            BY <3>3, ClientFacts
          <5>3. QED
            BY <1>2, <2>2, <5>1, <5>2
        <4>2. getLastIndex(log[n]) \in Nat /\ Entries(n) = LeaderLog(t)
          BY <1>0, <4>1, LeaderFacts, EntriesOfNode DEF Core
        <4>3. e.index \in Nat /\ e.index > 0
          BY <4>1, <4>2
        <4>4. e.index <= m.prevLogIndex + Len(m.entries)
          <5>1. m.leaderCommit <= m.prevLogIndex + Len(m.entries)
            BY <1>0 DEF PieceOfLeaderLog
          <5>2. m.prevLogIndex \in Nat /\ Len(m.entries) \in Nat
            BY <1>0 DEF AppendEntriesArgs
          <5>3. QED
            BY <1>1, <1>2, <4>3, <5>1, <5>2
        <4>5. PICK g \in LeaderLog(t) : g.index >= e.index
          BY <1>0, <4>3, <4>4, PieceReaches
        <4>6. g.index \in Nat /\ g.index <= getLastIndex(log[n])
          BY <1>0, <4>2, <4>5, EntryFacts
        <4>7. QED
          BY <4>1, <4>2, <4>3, <4>5, <4>6
      <3>4. QED
        BY <3>1, <3>2, <3>3, LeaderLogChange
    <2>3. QED
      BY <2>1, <2>2
  <1>3. /\ m.prevLogIndex > 0 =>
              \E g \in LeaderLog(t) : g.index = m.prevLogIndex /\ g.term = m.prevLogTerm
        /\ \A j \in DOMAIN m.entries : m.entries[j] \in LeaderLog(t)
        /\ m.leaderCommit <= m.prevLogIndex + Len(m.entries)
    BY <1>0 DEF PieceOfLeaderLog
  <1>4. /\ m.prevLogIndex > 0 =>
              \E g \in LeaderLog(t)' : g.index = m.prevLogIndex /\ g.term = m.prevLogTerm
        /\ \A j \in DOMAIN m.entries : m.entries[j] \in LeaderLog(t)'
    BY <1>0, <1>3
  <1>5. QED
    BY <1>2, <1>3, <1>4 DEF PieceOfLeaderLog

\* A request for a vote goes on describing its candidate.
LEMMA CandidateStays ==
    ASSUME CoreStep, NEW m \in Pending, m.type = "RequestVote"
    PROVE  DescribesCandidate(m)'
  <1>1. /\ m.from \in Server /\ m.term \in Nat /\ m.term <= currentTerm[m.from]
        /\ DescribesCandidate(m)
    BY PendingIsSafe DEF CoreStep
  <1>2. SUFFICES ASSUME pc'[m.from] = "election", currentTerm'[m.from] = m.term
                 PROVE  /\ m.lastLogIndex = getLastIndex(log'[m.from])
                        /\ m.lastLogTerm = getLastTerm(log'[m.from])
    BY DEF DescribesCandidate
  <1>3. currentTerm[m.from] \in Nat
    BY <1>1, LeaderLogsGrow
  <1>4. currentTerm'[m.from] > currentTerm[m.from] \/ Frozen(m.from)
    BY <1>1, <1>2, ElectionsAreFrozen DEF ElectionsFrozen
  <1>5. Frozen(m.from)
    BY <1>1, <1>2, <1>3, <1>4
  <1>6. QED
    BY <1>1, <1>2, <1>5 DEF Frozen, DescribesCandidate

LEMMA LateStaysSafe ==
    ASSUME CoreStep
    PROVE  LateIsSafe'
  <1>1. ASSUME NEW m \in late'
        PROVE  /\ m.term <= currentTerm'[m.from]
               /\ m.type # "InstallSnapshot"
               /\ m.type = "AppendEntries" => PieceOfLeaderLog(m)'
               /\ m.type = "RequestVote" => DescribesCandidate(m)'
    <2>1. m \in Pending
      BY <1>1, LateIsPending
    <2>2. /\ m.from \in Server /\ m.term \in Nat /\ m.term <= currentTerm[m.from]
          /\ m.type # "InstallSnapshot"
      BY <2>1, PendingIsSafe DEF CoreStep
    <2>3. /\ currentTerm[m.from] \in Nat /\ currentTerm'[m.from] \in Nat
          /\ currentTerm'[m.from] >= currentTerm[m.from]
      BY <2>2, LeaderLogsGrow
    <2>4. m.term <= currentTerm'[m.from]
      BY <2>2, <2>3
    <2>5. QED
      BY <2>1, <2>2, <2>4, PieceStays, CandidateStays
  <1>2. QED
    BY <1>1 DEF LateIsSafe

----------------------------------------------------------------------------
(***************************************************************************)
(* The invariant.                                                          *)
(***************************************************************************)

LEMMA SafetyStep ==
    ASSUME CoreStep
    PROVE  SafetyInv'
  BY LeaderLogsStayMatched, LogsStayMatched, SentinelsAreKept, LeadersStillKeepTheirLog,
     LeadersStillInLog, AcksStayKept, LeadersStaySafe, CandidatesStaySafe, CommitsStaySafe,
     AppliedStaysSafe, LateStaysSafe, TermsStaySound
     DEF SafetyInv

LEMMA SafetyInit == Init => LogsAreSafe
  <1> SUFFICES ASSUME Init, NothingCompacted PROVE SafetyInv
    BY DEF LogsAreSafe
  <1>1. NodeInv
    BY TypeInit, VoteInvInit, ElectionInvInit DEF NodeInv
  <1>2. led = {} /\ won = {} /\ granted = {} /\ late = {} /\ applied = {}
    BY DEF Init
  <1>3. \A n \in Server : /\ role[n] = "FOLLOWER" /\ log[n] = EmptyLog
                          /\ lastApplied[n] = 0 /\ commitIndex[n] = 0
    BY DEF Init
  <1>4. ASSUME NEW n \in Server
        PROVE  getLastIndex(log[n]) = 0 /\ Entries(n) = {}
    <2>1. Size(log[n]) = 1
      BY <1>3 DEF EmptyLog, Size
    <2>2. getLastIndex(log[n]) = 0
      BY <1>1, <2>1, EntriesOfNode, FlatParts
    <2>3. \A e \in Entries(n) : e.index \in Nat /\ e.index > 0 /\ e.index <= 0
      BY <1>1, <2>2, EntriesOfNode
    <2>4. ASSUME NEW e \in Entries(n) PROVE FALSE
      BY <2>3
    <2>5. QED
      BY <2>2, <2>4
  <1>5. WonTerms = {} /\ \A t : LeaderLog(t) = {}
    BY <1>2 DEF WonTerms, LeaderLog
  <1>6. LeaderLogsMatch /\ LogsMatchLeaders
    BY <1>2, <1>4, <1>5 DEF LeaderLogsMatch, LogsMatchLeaders
  <1>7. SentinelsStay
    BY <1>3 DEF SentinelsStay, EmptyLog
  <1>8. /\ LeadersKeepTheirLog /\ LeadersStayInLog /\ AcksAreKept /\ LeadersAreSafe
        /\ CandidatesAreSafe
    BY <1>3 DEF LeadersKeepTheirLog, LeadersStayInLog, AcksAreKept, LeadersAreSafe,
                CandidatesAreSafe
  <1>9. CommitsAreSafe
    BY <1>3, <1>4 DEF CommitsAreSafe
  <1>10. AppliedIsSafe /\ LateIsSafe /\ TermsAreSound
    BY <1>2, <1>3, <1>5 DEF AppliedIsSafe, LateIsSafe, TermsAreSound
  <1>11. QED
    BY <1>6, <1>7, <1>8, <1>9, <1>10 DEF SafetyInv

\* What holds in every state.
ClusterInv == NodeInv /\ HintsAreBehind /\ LogsAreSafe

LEMMA ClusterStep == ClusterInv /\ [Next]_vars => ClusterInv'
  <1> SUFFICES ASSUME ClusterInv, [Next]_vars PROVE ClusterInv'
    OBVIOUS
  <1>1. NodeInv /\ HintsAreBehind /\ LogsAreSafe /\ TypeIInv
    BY DEF ClusterInv, NodeInv
  <1>2. NodeInv' /\ HintsAreBehind'
    BY <1>1, NodeInvStep, HintsAreBehindStep
  <1>3. ASSUME NoImpostor', NothingCompacted' PROVE SafetyInv'
    <2>1. NoImpostor
      BY <1>1, <1>3, HistoriesGrow DEF HistoryGrows, NoImpostor
    <2>2. NothingCompacted
      BY <1>1, <1>3, CompactionStays
    <2>3. CoreStep
      BY <1>1, <1>2, <1>3, <2>1, <2>2 DEF CoreStep, Core, LogsAreSafe
    <2>4. QED
      BY <2>3, SafetyStep
  <1>4. QED
    BY <1>2, <1>3 DEF ClusterInv, LogsAreSafe

LEMMA ClusterInvariant == Spec => []ClusterInv
  <1>1. Init => ClusterInv
    BY TypeInit, VoteInvInit, ElectionInvInit, HintsAreBehindInit, SafetyInit
       DEF ClusterInv, NodeInv
  <1>2. QED
    BY <1>1, ClusterStep, PTL DEF Spec

----------------------------------------------------------------------------
(***************************************************************************)
(* What follows, of a cluster in which no deposed leader sends and no log  *)
(* is compacted.  Both conditions are needed: a deposed leader that goes   *)
(* on sending makes two leaders of a term possible (RaftNode.cpp:528-533,  *)
(* 637-640), and getTerm and truncate of a compacted log take an index for *)
(* a position (Log.cpp:39, 97).                                            *)
(***************************************************************************)

\* The logs are made of pieces of leaders' logs, what is committed is on a
\* majority and in the log of every later leader, and leaders, candidates and
\* requests are consistent with that: what startElection, replicateToFollower,
\* updateCommitIndex and the handlers of RaftNode.cpp keep up.
THEOREM LogsStaySafe == Spec => []LogsAreSafe
  <1>1. ClusterInv => LogsAreSafe
    BY DEF ClusterInv
  <1>2. QED
    BY <1>1, ClusterInvariant, PTL

\* The state of a cluster to which the conditions apply.
LEMMA CoreInv == ClusterInv /\ NoImpostor /\ NothingCompacted => Core
  BY DEF ClusterInv, LogsAreSafe, Core

\* The entry at an index that a log holds.
LEMMA EntryAt ==
    ASSUME NodeInv, NothingCompacted, NEW n \in Server, NEW i \in Nat, i > 0, HasEntry(log[n], i)
    PROVE  \E e \in Entries(n) : e.index = i /\ getEntry(log[n], i) = e
  <1>1. Flat(log[n]) /\ getLastIndex(log[n]) = Size(log[n]) - 1
    BY EntriesOfNode, FlatParts
  <1>2. Size(log[n]) \in Nat /\ log[n].snapshotIndex = 0
    BY <1>1, LogParts DEF Flat, Parts
  <1>3. i \in 1 .. getLastIndex(log[n])
    BY <1>1, <1>2 DEF HasEntry
  <1>4. PICK e \in Entries(n) : e.index = i
    BY <1>3, EntriesOfNode
  <1>5. QED
    BY <1>4, EntriesOfNode

\* Log Matching (README.md:289): the consistency check of handleAppendEntries
\* (RaftNode.cpp:148-172) and the merge (:175-199) keep two logs the same up to an entry
\* of the same index and term.
THEOREM LogsMatch == Spec => [](NoImpostor /\ NothingCompacted => LogMatching)
  <1>1. ASSUME Core PROVE LogMatching
    <2> SUFFICES ASSUME NEW a \in Server, NEW b \in Server, NEW e \in Entries(a), NEW f \in Entries(b),
                        f.index = e.index, f.term = e.term,
                        NEW j \in 1 .. e.index, HasEntry(log[a], j), HasEntry(log[b], j)
                 PROVE  getEntry(log[a], j) = getEntry(log[b], j)
      BY DEF LogMatching, SameUpTo, Entries
    <2>1. e \in LeaderLog(e.term) /\ e.index \in Nat /\ j \in Nat /\ j > 0 /\ j <= e.index
      BY <1>1, EntryFacts
    <2>2. PICK x \in Entries(a) : x.index = j /\ getEntry(log[a], j) = x
      BY <1>1, <2>1, EntryAt DEF Core
    <2>3. PICK y \in Entries(b) : y.index = j /\ getEntry(log[b], j) = y
      BY <1>1, <2>1, EntryAt DEF Core
    <2>4. x \in LeaderLog(e.term)
      BY <1>1, <2>1, <2>2, EntryFacts
    <2>5. x \in Entries(b)
      BY <1>1, <2>1, <2>2, <2>4, LogMeetsLeader
    <2>6. QED
      BY <1>1, <2>2, <2>3, <2>5, EntryFacts
  <1>2. ClusterInv => (NoImpostor /\ NothingCompacted => LogMatching)
    BY <1>1, CoreInv
  <1>3. QED
    BY <1>2, ClusterInvariant, PTL

\* Leader Completeness (README.md:290): what some node applied is in the log of
\* every later leader, because handleRequestVote grants no vote to a candidate
\* whose log is behind (RaftNode.cpp:104-114).
THEOREM LeadersAreComplete == Spec => [](NothingCompacted => LeaderCompletenessUnlessImpostor)
  <1>1. ASSUME Core PROVE LeaderCompleteness
    <2> SUFFICES ASSUME NEW r \in applied, NEW n \in Server, role[n] = "LEADER",
                        currentTerm[n] > r.term
                 PROVE  /\ HasEntry(log[n], r.entry.index)
                        /\ getEntry(log[n], r.entry.index) = r.entry
      BY DEF LeaderCompleteness
    <2>1. r.term \in Nat /\ currentTerm[n] \in Nat
      BY <1>1, CoreTypes DEF Core, TypeIInv, StoreTypes, ElectionTypes
    <2>2. currentTerm[n] \in WonTerms /\ Entries(n) = LeaderLog(currentTerm[n])
      BY <1>1, LeaderFacts
    <2>3. CommittedIn(r.term, r.entry)
      BY <1>1 DEF Core, SafetyInv, AppliedIsSafe
    <2>4. r.entry \in Entries(n)
      BY <1>1, <2>1, <2>2, <2>3, CommittedInLater
    <2>5. QED
      BY <1>1, <2>4, EntriesOfNode DEF Core
  <1>2. ClusterInv => (NothingCompacted => LeaderCompletenessUnlessImpostor)
    BY <1>1, CoreInv DEF LeaderCompletenessUnlessImpostor
  <1>3. QED
    BY <1>2, ClusterInvariant, PTL

\* Two entries that are committed at the same index are one.
LEMMA AppliedAgrees == Core => StateMachineSafety
  <1>1. ASSUME Core, NEW e, NEW f, NEW x, NEW y,
               Chosen(x), Chosen(y), x \in {z[2] : z \in led},
               x.term <= y.term, e.index <= x.index, f.index <= y.index,
               e \in LeaderLog(x.term), f \in LeaderLog(y.term), e.index = f.index
        PROVE  e = f
    <2>1. /\ x \in LeaderLog(x.term) /\ y \in LeaderLog(y.term)
          /\ x.term \in Nat /\ y.term \in WonTerms
      BY <1>1, LeaderLogFacts DEF Chosen
    <2>2. CommittedIn(x.term, e)
      BY <1>1, <2>1 DEF CommittedIn
    <2>3. e \in LeaderLog(y.term)
      BY <1>1, <2>1, <2>2, CommittedInLater
    <2>4. QED
      BY <1>1, <2>3, LeaderLogFacts
  <1>2. ASSUME Core PROVE StateMachineSafety
    <2> SUFFICES ASSUME NEW r \in applied, NEW s \in applied, r.entry.index = s.entry.index
                 PROVE  r.entry = s.entry
      BY DEF StateMachineSafety
    <2>1. CommittedIn(r.term, r.entry) /\ CommittedIn(s.term, s.entry)
      BY <1>2 DEF Core, SafetyInv, AppliedIsSafe
    <2>2. PICK x \in {z[2] : z \in led} :
             r.entry.index <= x.index /\ r.entry \in LeaderLog(x.term) /\ Chosen(x)
      BY <2>1 DEF CommittedIn
    <2>3. PICK y \in {z[2] : z \in led} :
             s.entry.index <= y.index /\ s.entry \in LeaderLog(y.term) /\ Chosen(y)
      BY <2>1 DEF CommittedIn
    <2>4. x.term \in Nat /\ y.term \in Nat
      BY <1>2, <2>2, <2>3, LeaderLogFacts DEF Chosen
    <2>5. CASE x.term <= y.term
      BY <1>1, <1>2, <2>2, <2>3, <2>5
    <2>6. CASE y.term <= x.term
      BY <1>1, <1>2, <2>2, <2>3, <2>6
    <2>7. QED
      BY <2>4, <2>5, <2>6
  <1>3. QED
    BY <1>2

\* State Machine Safety (README.md:291): applyCommittedEntries of no two nodes
\* (RaftNode.cpp:409-439) applies different entries at an index.
THEOREM StateMachinesAgree == Spec => [](NothingCompacted => StateMachineSafetyUnlessImpostor)
  <1>1. ClusterInv => (NothingCompacted => StateMachineSafetyUnlessImpostor)
    BY AppliedAgrees, CoreInv DEF StateMachineSafetyUnlessImpostor
  <1>2. QED
    BY <1>1, ClusterInvariant, PTL

\* matchIndex (RaftNode.hpp:176) never overstates what a follower in the leader's
\* term has: replicateToFollower counts what it sent with the request that was
\* accepted (RaftNode.cpp:642-647), although the request may be handled late.
THEOREM MatchIndexIsSound == Spec => [](NothingCompacted => MatchIndexSoundUnlessImpostor)
  <1>1. ASSUME Core PROVE MatchIndexSound
    <2> SUFFICES ASSUME NEW n \in Server, NEW p \in Server, role[n] = "LEADER", p # n,
                        currentTerm[p] = currentTerm[n], NEW i \in 1 .. matchIndex[n][p]
                 PROVE  /\ HasEntry(log[p], i)
                        /\ HasEntry(log[n], i) => getEntry(log[p], i) = getEntry(log[n], i)
      BY DEF MatchIndexSound
    <2>1. matchIndex[n][p] \in Nat /\ matchIndex[n][p] <= getLastIndex(log[n])
      BY <1>1, LeaderFacts
    <2>2. getLastIndex(log[n]) \in Nat
      BY <1>1, EntriesOfNode DEF Core
    <2>3. i \in 1 .. getLastIndex(log[n]) /\ matchIndex[n][p] >= i
      BY <2>1, <2>2
    <2>4. PICK e \in Entries(n) : e.index = i
      BY <1>1, <2>3, EntriesOfNode DEF Core
    <2>5. e \in Entries(p)
      BY <1>1, <2>3, <2>4 DEF Core, SafetyInv, AcksAreKept, Acked
    <2>6. QED
      BY <1>1, <2>4, <2>5, EntriesOfNode DEF Core
  <1>2. ClusterInv => (NothingCompacted => MatchIndexSoundUnlessImpostor)
    BY <1>1, CoreInv DEF MatchIndexSoundUnlessImpostor
  <1>3. QED
    BY <1>2, ClusterInvariant, PTL

\* What a node has committed it has applied, and its log still has it: no merge
\* of handleAppendEntries truncates below commitIndex (RaftNode.cpp:175-206).
THEOREM CommitsAreApplied == Spec => [](NothingCompacted => CommittedIsAppliedUnlessImpostor)
  <1>1. Core => CommittedIsApplied
    BY DEF Core, SafetyInv, CommitsAreSafe, CommittedIsApplied
  <1>2. ClusterInv => (NothingCompacted => CommittedIsAppliedUnlessImpostor)
    BY <1>1, CoreInv DEF CommittedIsAppliedUnlessImpostor
  <1>3. QED
    BY <1>2, ClusterInvariant, PTL

----------------------------------------------------------------------------
(***************************************************************************)
(* What a leader commits.  A deposed leader that goes on sending does no   *)
(* harm to it; a compacted log does (getTerm takes the index for a         *)
(* position), and so does a cluster of one node, whose leader gets no      *)
(* reply and never runs updateCommitIndex (RaftNode.cpp:647).              *)
(***************************************************************************)

\* What a leader counts lies within its log, and no entry of its own term above
\* commitIndex is counted for a majority.
CountsWell(n) ==
    /\ \A p \in Server : matchIndex[n][p] <= getLastIndex(log[n])
    /\ \A e \in Entries(n) :
          e.index > commitIndex[n] /\ e.term = currentTerm[n]
              => ~IsMajority(n, {p \in PeerSet(n) : matchIndex[n][p] >= e.index})

LeadersCountWell == NothingCompacted => \A n \in Server : role[n] = "LEADER" => CountsWell(n)

LEMMA NoMajorityOfNone ==
    ASSUME Cardinality(Server) > 1, NEW n \in Server
    PROVE  ~IsMajority(n, {})
  <1>1. Cardinality(Server) \in Nat /\ Len(Peers[n]) + 1 = Cardinality(Server)
    BY ServerAssumption, PeersAssumption, FS_CardinalityType
  <1>2. Cardinality({}) = 0
    BY FS_EmptySet
  <1>3. ASSUME NEW k \in Nat, k > 1 PROVE ~(0 + 1 >= k \div 2 + 1)
    BY <1>3
  <1>4. QED
    BY <1>1, <1>2, <1>3 DEF IsMajority

\* What CountsWell depends on.
SameCounts(n) ==
    /\ role[n] = "LEADER" /\ currentTerm'[n] = currentTerm[n] /\ log'[n] = log[n]
    /\ commitIndex'[n] = commitIndex[n] /\ matchIndex'[n] = matchIndex[n]

\* A snapshot that compacts nothing changes nothing that is counted.
LEMMA InstallCounts ==
    ASSUME NodeInv, NothingCompacted, NothingCompacted', NEW m \in Pending, handleInstallSnapshot(m),
           NEW n \in Server, role'[n] = "LEADER"
    PROVE  SameCounts(n)
  <1>1. /\ TypeIInv /\ m.to \in Server /\ m.lastIncludedIndex \in Nat /\ m.lastIncludedTerm \in Nat
        /\ log' = [log EXCEPT ![m.to] = discardEntriesUpTo(@, m.lastIncludedIndex, m.lastIncludedTerm)]
    BY SnapshotInstalls DEF NodeInv
  <1>2. /\ log \in [Server -> Log] /\ role \in [Server -> Role] /\ currentTerm \in [Server -> Nat]
        /\ commitIndex \in [Server -> Nat] /\ log[n].snapshotIndex = 0 /\ log'[n].snapshotIndex = 0
        /\ WellFormed(log[n])
    BY <1>1 DEF TypeIInv, LogTypes, ElectionTypes, StoreTypes, NothingCompacted
  <1>3. role[n] = "LEADER" /\ currentTerm'[n] = currentTerm[n] /\ matchIndex' = matchIndex
    <2>1. CASE m.term > currentTerm[m.to]
      BY <1>1, <1>2, <2>1 DEF handleInstallSnapshot, becomeFollower, leaderVars
    <2>2. CASE ~(m.term > currentTerm[m.to])
      BY <2>2 DEF handleInstallSnapshot, electionVars, leaderVars
    <2>3. QED
      BY <2>1, <2>2
  <1>4. CASE m.to # n
    BY <1>2, <1>3, <1>4 DEF handleInstallSnapshot, SameCounts
  <1>5. CASE m.to = n
    <2> DEFINE lg == discardEntriesUpTo(log[n], m.lastIncludedIndex, m.lastIncludedTerm)
    <2>1. lg.snapshotIndex = IF m.lastIncludedIndex <= log[n].snapshotIndex
                             THEN log[n].snapshotIndex ELSE m.lastIncludedIndex
      BY <1>1, <1>2, DiscardWellFormed
    <2>2. log'[n] = lg
      BY <1>1, <1>2, <1>5
    <2> HIDE DEF lg
    <2>3. m.lastIncludedIndex = 0
      BY <1>1, <1>2, <2>1, <2>2
    <2>4. log'[n] = log[n]
      BY <1>2, <2>2, <2>3 DEF lg, discardEntriesUpTo
    <2>5. commitIndex'[n] = commitIndex[n]
      BY <1>2, <1>5, <2>3 DEF handleInstallSnapshot, Raise
    <2>6. QED
      BY <1>3, <2>4, <2>5 DEF SameCounts
  <1>6. QED
    BY <1>4, <1>5

\* The steps that leave a leader a leader, or make one.
LEMMA LeaderCounts ==
    ASSUME NodeInv, [Next]_vars, NothingCompacted', NEW n \in Server, role'[n] = "LEADER"
    PROVE  \/ SameCounts(n)
           \/ WinElection(n)
           \/ role[n] = "LEADER" /\ AppendSucceeds(n)
           \/ role[n] = "LEADER" /\ \E c \in Command : handleClientRequest(n, c)
  <1>0. /\ TypeIInv /\ NothingCompacted /\ ~takeSnapshot(n)
        /\ role \in [Server -> Role] /\ currentTerm \in [Server -> Nat]
        /\ log \in [Server -> Log] /\ commitIndex \in [Server -> Nat]
        /\ matchIndex \in [Server -> [Server -> Nat]]
    BY CompactionStays DEF NodeInv, TypeIInv, ElectionTypes, LogTypes, StoreTypes, LeaderTypes
  <1>1. ASSUME UNCHANGED <<role, currentTerm, log, commitIndex, matchIndex>> PROVE SameCounts(n)
    BY <1>1 DEF SameCounts
  <1>2. ASSUME NEW k \in Server \ {n}, NodeStep(k) PROVE SameCounts(n)
    <2>1. currentTerm'[n] = currentTerm[n] /\ log'[n] = log[n]
      BY <1>0, <1>2, NodeStepLocal, NodeStepLog DEF SameElection
    <2>2. role'[n] = role[n] /\ commitIndex'[n] = commitIndex[n] /\ matchIndex'[n] = matchIndex[n]
      BY <1>0, <1>2 DEF NodeStep, ElectionTimeout, ElectionStepsDown, CountVote, WinElection,
         LoseElection, HeartbeatTick, HeartbeatStepsDown, SnapshotSent, AppendSucceeds,
         AppendRejected, CallFails, takeSnapshot, handleClientRequest, becomeCandidate,
         becomeFollower, becomeLeader, electionVars, leaderVars
    <2>3. QED
      BY <2>1, <2>2 DEF SameCounts
  <1>3. ASSUME NodeStep(n)
        PROVE  \/ SameCounts(n)
               \/ WinElection(n)
               \/ role[n] = "LEADER" /\ AppendSucceeds(n)
               \/ role[n] = "LEADER" /\ \E c \in Command : handleClientRequest(n, c)
    <2>1. CASE ElectionTimeout(n) \/ ElectionStepsDown(n) \/ HeartbeatStepsDown(n)
      <3>1. role'[n] # "LEADER"
        BY <1>0, <2>1 DEF ElectionTimeout, ElectionStepsDown, HeartbeatStepsDown, becomeCandidate,
                          becomeFollower
      <3>2. QED
        BY <3>1
    <2>2. CASE \/ CountVote(n) \/ LoseElection(n) \/ HeartbeatTick(n) \/ AppendRejected(n)
               \/ CallFails(n)
      <3>1. UNCHANGED <<role, currentTerm, log, commitIndex, matchIndex>>
        BY <2>2 DEF CountVote, LoseElection, HeartbeatTick, AppendRejected, CallFails, electionVars,
                    leaderVars
      <3>2. QED
        BY <1>1, <3>1
    <2>3. ~SnapshotSent(n)
      <3>1. ASSUME SnapshotSent(n) PROVE FALSE
        <4>1. HasReply(n) /\ NeedsSnapshot(n, Head(todo[n]))
          BY <3>1 DEF SnapshotSent
        <4>2. Head(todo[n]) \in Server
          BY <1>0, <4>1, HeartbeatPeer
        <4>3. nextIndex[n][Head(todo[n])] \in Nat \ {0} /\ log[n].snapshotIndex = 0
          BY <1>0, <4>2 DEF TypeIInv, LeaderTypes, NothingCompacted
        <4>4. QED
          BY <4>1, <4>3 DEF NeedsSnapshot
      <3>2. QED
        BY <3>1
    <2>4. CASE AppendSucceeds(n) \/ \E c \in Command : handleClientRequest(n, c)
      <3>1. role'[n] = role[n]
        BY <2>4 DEF AppendSucceeds, handleClientRequest, electionVars
      <3>2. QED
        BY <2>4, <3>1
    <2>5. QED
      BY <1>0, <1>3, <2>1, <2>2, <2>3, <2>4 DEF NodeStep
  <1>4. ASSUME NEW m \in Pending, Handle(m) PROVE SameCounts(n)
    <2>0. m.to \in Server /\ m.term \in Nat /\ matchIndex' = matchIndex
      BY <1>0, <1>4, PendingGood, HandlerReplies DEF leaderVars
    <2>1. CASE HandleStale(m)
      BY <1>1, <2>1 DEF HandleStale, electionVars, leaderVars
    <2>2. CASE handleRequestVote(m)
      <3>1. log' = log /\ commitIndex' = commitIndex /\ ~(m.term < currentTerm[m.to])
        BY <2>2 DEF handleRequestVote, Stale
      <3>2. role'[n] = IF n = m.to /\ m.term > currentTerm[n] THEN "FOLLOWER" ELSE role[n]
        BY <1>0, <2>2 DEF handleRequestVote
      <3>3. currentTerm'[n] = IF n = m.to THEN m.term ELSE currentTerm[n]
        BY <1>0, <2>2 DEF handleRequestVote
      <3>4. role[n] = "LEADER" /\ ~(n = m.to /\ m.term > currentTerm[n])
        BY <3>2
      <3>5. currentTerm'[n] = currentTerm[n]
        <4>1. CASE n = m.to
          <5>1. currentTerm[n] \in Nat /\ ~(m.term < currentTerm[n]) /\ ~(m.term > currentTerm[n])
            BY <1>0, <3>1, <3>4, <4>1
          <5>2. m.term = currentTerm[n]
            BY <2>0, <5>1
          <5>3. QED
            BY <3>3, <4>1, <5>2
        <4>2. CASE n # m.to
          BY <3>3, <4>2
        <4>3. QED
          BY <4>1, <4>2
      <3>6. QED
        BY <2>0, <3>1, <3>4, <3>5 DEF SameCounts
    <2>3. CASE RejectAppendEntries(m) \/ AcceptAppendEntries(m)
      <3>1. AcceptLeader(m)
        BY <2>3 DEF RejectAppendEntries, AcceptAppendEntries
      <3>2. CASE n = m.to
        <4>1. role'[n] = "FOLLOWER"
          BY <1>0, <3>1, <3>2, AcceptLeaderMoves, MovesAt
        <4>2. QED
          BY <4>1
      <3>3. CASE n # m.to
        <4>1. role'[n] = role[n] /\ currentTerm'[n] = currentTerm[n]
          BY <1>0, <3>1, <3>3 DEF AcceptLeader
        <4>2. log'[n] = log[n] /\ commitIndex'[n] = commitIndex[n]
          BY <1>0, <2>3, <3>3 DEF RejectAppendEntries, AcceptAppendEntries
        <4>3. QED
          BY <2>0, <4>1, <4>2 DEF SameCounts
      <3>4. QED
        BY <3>2, <3>3
    <2>4. CASE handleInstallSnapshot(m)
      BY <1>0, <2>4, InstallCounts
    <2>5. QED
      BY <1>4, <2>1, <2>2, <2>3, <2>4 DEF Handle
  <1>5. CASE UNCHANGED vars
    BY <1>1, <1>5 DEF vars, electionVars, leaderVars
  <1>6. QED
    BY <1>2, <1>3, <1>4, <1>5 DEF Next

LEMMA CountsStayWell ==
    ASSUME Cardinality(Server) > 1, NodeInv, NodeInv', LeadersCountWell, [Next]_vars
    PROVE  LeadersCountWell'
  <1>1. SUFFICES ASSUME NothingCompacted', NEW n \in Server, role'[n] = "LEADER"
                 PROVE  CountsWell(n)'
    BY DEF LeadersCountWell
  <1>2. TypeIInv /\ NothingCompacted
    BY <1>1, CompactionStays DEF NodeInv
  <1> DEFINE last == getLastIndex(log[n])
  <1>3. /\ last \in Nat /\ Flat(log[n]) /\ commitIndex[n] \in Nat
        /\ \A p \in Server : matchIndex[n][p] \in Nat
        /\ log \in [Server -> Log] /\ matchIndex \in [Server -> [Server -> Nat]]
        /\ commitIndex \in [Server -> Nat]
        /\ \A p \in PeerSet(n) : p \in Server
    <2>1. last \in Nat /\ Flat(log[n])
      BY <1>2, EntriesOfNode
    <2>2. PeerSet(n) = Server \ {n}
      BY PeersAssumption
    <2>3. QED
      BY <1>2, <2>1, <2>2 DEF TypeIInv, StoreTypes, LeaderTypes, LogTypes
  <1>4. \A e \in Entries(n) : e.index \in Nat /\ e.index > 0 /\ getTerm(log[n], e.index) = e.term
    BY <1>2, EntriesOfNode
  <1>5. role[n] = "LEADER" => CountsWell(n)
    BY <1>2 DEF LeadersCountWell
  <1>6. CASE SameCounts(n)
    BY <1>5, <1>6 DEF SameCounts, CountsWell, Entries
  <1>7. CASE WinElection(n)
    <2>1. log' = log /\ matchIndex'[n] = [p \in Server |-> 0]
      BY <1>3, <1>7 DEF WinElection, becomeLeader
    <2>2. ASSUME NEW e \in Entries(n)'
          PROVE  ~IsMajority(n, {p \in PeerSet(n) : matchIndex'[n][p] >= e.index})
      <3>1. e.index \in Nat /\ e.index > 0
        BY <1>4, <2>1, <2>2 DEF Entries
      <3>2. {p \in PeerSet(n) : matchIndex'[n][p] >= e.index} = {}
        BY <1>3, <2>1, <3>1
      <3>3. QED
        BY <3>2, NoMajorityOfNone
    <2>3. QED
      BY <1>3, <2>1, <2>2 DEF CountsWell
  <1>8. CASE role[n] = "LEADER" /\ AppendSucceeds(n)
    <2> DEFINE q     == Head(todo[n])
               match == [matchIndex[n] EXCEPT ![q] = Matched(n, q)]
    <2>1. /\ HasReply(n) /\ matchIndex' = [matchIndex EXCEPT ![n] = match]
          /\ log' = log /\ currentTerm' = currentTerm
      BY <1>8 DEF AppendSucceeds, electionVars
    <2>2. PICK k \in {commitIndex[n]} \cup (commitIndex[n] + 1 .. last) :
             IsNewCommitIndex(n, match, k) /\ commitIndex' = [commitIndex EXCEPT ![n] = k]
      BY <1>8 DEF AppendSucceeds
    <2>3. q \in Server
      BY <1>2, <2>1, HeartbeatPeer
    <2>4. matchIndex'[n] = match /\ commitIndex'[n] = k /\ k \in Nat /\ k >= commitIndex[n]
      BY <1>3, <2>1, <2>2
    <2>5. Matched(n, q) <= last
      <3>1. nextIndex[n][q] \in Nat \ {0} /\ matchIndex[n][q] <= last
        BY <1>2, <1>5, <1>8, <2>3 DEF TypeIInv, LeaderTypes, CountsWell
      <3>2. EntriesFrom(log[n], nextIndex[n][q]) # <<>> =>
              EntriesFrom(log[n], nextIndex[n][q])[Len(EntriesFrom(log[n], nextIndex[n][q]))].index = last
        BY <1>3, <3>1, FlatEntriesFrom
      <3>3. QED
        BY <1>3, <3>1, <3>2 DEF Matched
    <2>6. \A p \in Server : matchIndex'[n][p] <= last
      <3>1. \A p \in Server : matchIndex'[n][p] = IF p = q THEN Matched(n, q) ELSE matchIndex[n][p]
        BY <1>3, <2>3, <2>4
      <3>2. QED
        BY <1>5, <1>8, <2>5, <3>1 DEF CountsWell
    <2>7. ASSUME NEW e \in Entries(n), e.index > k, e.term = currentTerm[n]
          PROVE  ~IsMajority(n, {p \in PeerSet(n) : match[p] >= e.index})
      <3>1. e.index \in Nat /\ e.index <= last /\ getTerm(log[n], e.index) = currentTerm[n]
        BY <1>2, <2>7, EntriesOfNode
      <3>2. e.index \in commitIndex[n] + 1 .. last /\ ~(e.index <= k)
        BY <1>3, <2>4, <2>7, <3>1
      <3>3. ~Committable(n, match, e.index)
        BY <2>2, <3>2 DEF IsNewCommitIndex
      <3>4. QED
        BY <1>8, <3>1, <3>3 DEF Committable
    <2>8. QED
      BY <2>1, <2>4, <2>6, <2>7 DEF CountsWell, Entries
  <1>9. ASSUME NEW c \in Command, role[n] = "LEADER", handleClientRequest(n, c) PROVE CountsWell(n)'
    <2> DEFINE x == NewEntry(n, c)
    <2>1. /\ log' = [log EXCEPT ![n] = append(log[n], x)]
          /\ matchIndex' = matchIndex /\ commitIndex' = commitIndex /\ currentTerm' = currentTerm
      BY <1>9 DEF handleClientRequest, leaderVars, electionVars
    <2>2. currentTerm[n] \in Nat
      BY <1>2 DEF TypeIInv, ElectionTypes
    <2>3. x \in Entry /\ x.index = last + 1
      BY <1>3, <2>2 DEF NewEntry, Entry, Payload
    <2> HIDE DEF x
    <2>4. log'[n] = append(log[n], x)
      BY <1>3, <2>1
    <2>5. getLastIndex(log'[n]) = last + 1 /\ \A e \in Entries(n)' : e \in Entries(n) \/ e = x
      BY <1>3, <2>3, <2>4, FlatAppend DEF CanAppend, Entries
    <2>6. \A p \in Server : matchIndex[n][p] <= last
      BY <1>5, <1>9 DEF CountsWell
    <2>7. ~IsMajority(n, {p \in PeerSet(n) : matchIndex[n][p] >= x.index})
      <3>1. {p \in PeerSet(n) : matchIndex[n][p] >= x.index} = {}
        BY <1>3, <2>3, <2>6
      <3>2. QED
        BY <3>1, NoMajorityOfNone
    <2>8. \A e \in Entries(n) : e.index > commitIndex[n] /\ e.term = currentTerm[n]
              => ~IsMajority(n, {p \in PeerSet(n) : matchIndex[n][p] >= e.index})
      BY <1>5, <1>9 DEF CountsWell
    <2>9. \A p \in Server : matchIndex'[n][p] <= getLastIndex(log'[n])
      BY <1>3, <2>1, <2>5, <2>6
    <2>10. QED
      BY <2>1, <2>5, <2>7, <2>8, <2>9 DEF CountsWell
  <1>10. QED
    BY <1>1, <1>2, <1>6, <1>7, <1>8, <1>9, LeaderCounts

\* A leader commits what it may commit (RaftNode.cpp:387-403): updateCommitIndex
\* leaves no entry of the leader's term behind that a majority is known to have.
THEOREM CommitsKeepUp ==
    ASSUME Cardinality(Server) > 1
    PROVE  Spec => [](NothingCompacted => CommitKeepsUp)
  <1>1. Init => LeadersCountWell
    BY DEF Init, LeadersCountWell
  <1>2. NodeInv /\ LeadersCountWell /\ [Next]_vars => LeadersCountWell'
    BY NodeInvStep, CountsStayWell
  <1>3. NodeInv /\ LeadersCountWell => (NothingCompacted => CommitKeepsUp)
    <2> SUFFICES ASSUME NodeInv, LeadersCountWell, NothingCompacted,
                        NEW n \in Server, NEW i \in commitIndex[n] + 1 .. getLastIndex(log[n]),
                        role[n] = "LEADER", HasEntry(log[n], i), getEntry(log[n], i).term = currentTerm[n],
                        IsMajority(n, {p \in PeerSet(n) : matchIndex[n][p] >= i})
                 PROVE  FALSE
      BY DEF CommitKeepsUp
    <2>1. commitIndex[n] \in Nat /\ getLastIndex(log[n]) \in Nat
      BY EntriesOfNode DEF NodeInv, TypeIInv, StoreTypes
    <2>2. i \in Nat /\ i > 0 /\ i > commitIndex[n]
      BY <2>1
    <2>3. PICK e \in Entries(n) : e.index = i /\ getEntry(log[n], i) = e
      BY <2>2, EntryAt
    <2>4. CountsWell(n)
      BY DEF LeadersCountWell
    <2>5. QED
      BY <2>2, <2>3, <2>4 DEF CountsWell
  <1>4. QED
    BY <1>1, <1>2, <1>3, NodeInvariant, PTL DEF Spec

----------------------------------------------------------------------------
(***************************************************************************)
(* Nothing goes back.                                                      *)
(***************************************************************************)

LEMMA AppliedRises ==
    ASSUME TypeIInv, [Next]_vars, NEW n \in Server
    PROVE  lastApplied'[n] >= lastApplied[n]
  <1>0. lastApplied \in [Server -> Nat]
    BY DEF TypeIInv, StoreTypes
  <1>1. ASSUME UNCHANGED lastApplied PROVE lastApplied'[n] >= lastApplied[n]
    BY <1>0, <1>1
  <1>2. ASSUME NEW k \in Server, NEW upTo \in Nat,
               lastApplied' = [lastApplied EXCEPT ![k] = AllApplied(k, upTo)]
        PROVE  lastApplied'[n] >= lastApplied[n]
    BY <1>0, <1>2 DEF AllApplied
  <1>3. ASSUME NEW k \in Server, AppendSucceeds(k) PROVE lastApplied'[n] >= lastApplied[n]
    <2>1. PICK upTo \in Nat : Applies(k, log[k], upTo)
      BY <1>3, SuccessApplies
    <2>2. QED
      BY <1>2, <2>1 DEF Applies, applyCommittedEntries
  <1>4. ASSUME NEW m \in Pending, AcceptAppendEntries(m) PROVE lastApplied'[n] >= lastApplied[n]
    <2>1. PICK k \in 1 .. Len(m.entries) + 1 :
             LET merged == Merge(log[m.to], m.prevLogIndex, m.entries, k)
                 commit == FollowerCommit(m.to, merged, m.leaderCommit)
             IN  commit \in Nat /\ Applies(m.to, merged, commit)
      BY <1>4, AcceptApplies
    <2>2. m.to \in Server
      BY PendingGood
    <2>3. QED
      BY <1>2, <2>1, <2>2 DEF Applies, applyCommittedEntries
  <1>5. ASSUME NEW m \in Pending, handleInstallSnapshot(m) PROVE lastApplied'[n] >= lastApplied[n]
    <2>1. m.to \in Server /\ m.lastIncludedIndex \in Nat
      BY <1>5, SnapshotInstalls
    <2>2. lastApplied' = [lastApplied EXCEPT ![m.to] = Raise(@, m.lastIncludedIndex)]
      BY <1>5 DEF handleInstallSnapshot
    <2>3. QED
      BY <1>0, <2>1, <2>2 DEF Raise
  <1>6. ASSUME NEW k \in Server, \/ WinElection(k) \/ takeSnapshot(k)
                                 \/ \E c \in Command : handleClientRequest(k, c)
        PROVE  UNCHANGED lastApplied
    BY <1>6 DEF WinElection, takeSnapshot, handleClientRequest, storeVars
  <1>7. QED
    BY <1>1, <1>3, <1>4, <1>5, <1>6, StepKinds DEF Quiet

LEMMA CommitRises ==
    ASSUME CoreStep, NEW n \in Server
    PROVE  commitIndex'[n] >= commitIndex[n]
  <1>0. TypeIInv /\ commitIndex \in [Server -> Nat]
    BY CoreTypes DEF CoreStep, Core, TypeIInv, StoreTypes
  <1>1. ASSUME UNCHANGED commitIndex PROVE commitIndex'[n] >= commitIndex[n]
    BY <1>0, <1>1
  <1>2. ASSUME NEW k \in Server, AppendSucceeds(k) PROVE commitIndex'[n] >= commitIndex[n]
    <2>1. PICK upTo \in Nat : upTo >= commitIndex[k] /\ Applies(k, log[k], upTo)
      BY <1>0, <1>2, SuccessApplies
    <2>2. QED
      BY <1>0, <2>1 DEF Applies
  <1>3. ASSUME NEW m \in Pending, AcceptAppendEntries(m) PROVE commitIndex'[n] >= commitIndex[n]
    <2>1. /\ m.to \in Server /\ PieceOfLeaderLog(m) /\ m.leaderCommit \in Nat
          /\ m.prevLogIndex + Len(m.entries) \in Nat
          /\ getLastIndex(log'[m.to]) \in Nat
          /\ getLastIndex(log'[m.to]) >= m.prevLogIndex + Len(m.entries)
      BY <1>3, AcceptFacts
    <2>2. PICK x : /\ Applies(m.to, x, FollowerCommit(m.to, x, m.leaderCommit))
                   /\ log'[m.to] = x
      BY <1>3, AcceptFacts
    <2>3. m.leaderCommit <= getLastIndex(x)
      BY <2>1, <2>2 DEF PieceOfLeaderLog
    <2>4. commitIndex[m.to] \in Nat /\ getLastIndex(x) \in Nat
      BY <1>0, <2>1, <2>2
    <2>5. FollowerCommit(m.to, x, m.leaderCommit) >= commitIndex[m.to]
      BY <2>1, <2>3, <2>4 DEF FollowerCommit
    <2>6. commitIndex' = [commitIndex EXCEPT ![m.to] = FollowerCommit(m.to, x, m.leaderCommit)]
      BY <2>2 DEF Applies
    <2>7. CASE m.to = n
      BY <1>0, <2>1, <2>5, <2>6, <2>7
    <2>8. CASE m.to # n
      BY <1>0, <2>6, <2>8
    <2>9. QED
      BY <2>7, <2>8
  <1>4. ASSUME NEW k \in Server, WinElection(k) \/ \E c \in Command : handleClientRequest(k, c)
        PROVE  UNCHANGED commitIndex
    BY <1>4 DEF WinElection, handleClientRequest
  <1>5. QED
    BY <1>1, <1>2, <1>3, <1>4, CoreStepKinds DEF Quiet

\* A step that starts an impostor commits nothing.
LEMMA NewImpostor ==
    ASSUME [Next]_vars, NoImpostor, ~NoImpostor'
    PROVE  UNCHANGED commitIndex
  <1>1. ASSUME NEW n \in Server, NodeStep(n), ~HeartbeatStepsDown(n) PROVE UNCHANGED impostorTerms
    BY <1>1 DEF NodeStep, ElectionTimeout, ElectionStepsDown, CountVote, WinElection, LoseElection,
       HeartbeatTick, SnapshotSent, AppendSucceeds, AppendRejected, CallFails, takeSnapshot,
       handleClientRequest, historyVars
  <1>2. ASSUME NEW m \in Pending, Handle(m) PROVE UNCHANGED impostorTerms
    BY <1>2 DEF Handle, HandleStale, handleRequestVote, RejectAppendEntries, AcceptAppendEntries,
       AcceptLeader, handleInstallSnapshot, historyVars
  <1>3. PICK n \in Server : HeartbeatStepsDown(n)
    BY <1>1, <1>2 DEF Next, vars, historyVars, NoImpostor
  <1>4. QED
    BY <1>3 DEF HeartbeatStepsDown

\* Neither terms nor lastApplied nor commitIndex go back, whatever is received
\* twice, late or out of order: handleAppendEntries takes over leaderCommit only
\* up to entries that are the leader's (RaftNode.cpp:203-206).
THEOREM NothingEverGoesBack == Spec /\ []NothingCompacted => NothingGoesBack
  <1>1. ClusterInv /\ ClusterInv' /\ NothingCompacted /\ NothingCompacted' /\ [Next]_vars
          => [\A n \in Server : /\ currentTerm'[n] >= currentTerm[n]
                                /\ lastApplied'[n] >= lastApplied[n]
                                /\ NoImpostor => commitIndex'[n] >= commitIndex[n]]_vars
    <2> SUFFICES ASSUME ClusterInv, ClusterInv', NothingCompacted, NothingCompacted', [Next]_vars,
                        NEW n \in Server
                 PROVE  /\ currentTerm'[n] >= currentTerm[n]
                        /\ lastApplied'[n] >= lastApplied[n]
                        /\ NoImpostor => commitIndex'[n] >= commitIndex[n]
      OBVIOUS
    <2>1. TypeIInv /\ NodeInv' /\ commitIndex[n] \in Nat
      BY DEF ClusterInv, NodeInv, TypeIInv, StoreTypes
    <2>2. currentTerm'[n] >= currentTerm[n]
      BY <2>1, TermsOnlyRise DEF TermsRise
    <2>3. ASSUME NoImpostor PROVE commitIndex'[n] >= commitIndex[n]
      <3>1. CASE NoImpostor'
        <4>1. CoreStep
          BY <2>1, <2>3, <3>1, CoreInv DEF CoreStep
        <4>2. QED
          BY <4>1, CommitRises
      <3>2. CASE ~NoImpostor'
        BY <2>1, <2>3, <3>2, NewImpostor
      <3>3. QED
        BY <3>1, <3>2
    <2>4. QED
      BY <2>1, <2>2, <2>3, AppliedRises
  <1>2. QED
    BY <1>1, ClusterInvariant, PTL DEF Spec, NothingGoesBack

\* With snapshots of any age and deposed leaders that send: until a second term has
\* a leader, commitIndex goes back no more than lastApplied does, with which it
\* stays together (RaftNode.cpp:204-206 and 298-303).
THEOREM FirstCommitsStay == Spec /\ []OneTermWon => NothingGoesBack
  <1>1. NodeInv /\ NodeInv' /\ CommittedIsApplied /\ CommittedIsApplied' /\ [Next]_vars
          => [\A n \in Server : /\ currentTerm'[n] >= currentTerm[n]
                                /\ lastApplied'[n] >= lastApplied[n]
                                /\ NoImpostor => commitIndex'[n] >= commitIndex[n]]_vars
    <2> SUFFICES ASSUME NodeInv, NodeInv', CommittedIsApplied, CommittedIsApplied', [Next]_vars,
                        NEW n \in Server
                 PROVE  /\ currentTerm'[n] >= currentTerm[n]
                        /\ lastApplied'[n] >= lastApplied[n]
                        /\ commitIndex'[n] >= commitIndex[n]
      OBVIOUS
    <2>1. TypeIInv
      BY DEF NodeInv
    <2>2. currentTerm'[n] >= currentTerm[n]
      BY <2>1, TermsOnlyRise DEF TermsRise
    <2>3. lastApplied'[n] >= lastApplied[n]
      BY <2>1, AppliedRises
    <2>4. lastApplied[n] = commitIndex[n] /\ lastApplied'[n] = commitIndex'[n]
      BY DEF CommittedIsApplied
    <2>5. QED
      BY <2>2, <2>3, <2>4
  <1>2. QED
    BY <1>1, NodeInvariant, FirstCommitsAreApplied, PTL DEF Spec, NothingGoesBack

----------------------------------------------------------------------------
(***************************************************************************)
(* Two nodes: a deposed leader has nobody left to send to.                 *)
(***************************************************************************)

\* A loop has at most the peers to call that the node has.
TodoIsShort == \A n \in Server : Len(todo[n]) <= Len(Peers[n])

LEMMA TodoStaysShort == TypeIInv /\ TodoIsShort /\ [Next]_vars => TodoIsShort'
  <1> SUFFICES ASSUME TypeIInv, TodoIsShort, [Next]_vars, NEW k \in Server
               PROVE  Len(todo'[k]) <= Len(Peers[k])
    BY DEF TodoIsShort
  <1>0. /\ todo \in [Server -> Seq(Server)] /\ todo[k] \in Seq(Server)
        /\ Peers[k] \in Seq(Server \ {k})
        /\ Len(todo[k]) <= Len(Peers[k])
    BY PeersAssumption DEF TypeIInv, ThreadTypes, TodoIsShort
  <1>1. Len(todo[k]) \in Nat /\ Len(Peers[k]) \in Nat
    BY <1>0
  <1>2. ASSUME todo'[k] \in {todo[k], Peers[k], <<>>} \/ (todo[k] # <<>> /\ todo'[k] = Tail(todo[k]))
        PROVE  Len(todo'[k]) <= Len(Peers[k])
    <2>1. CASE todo[k] # <<>> /\ todo'[k] = Tail(todo[k])
      <3>1. Len(Tail(todo[k])) = Len(todo[k]) - 1
        BY <1>0, <2>1
      <3>2. QED
        BY <1>0, <1>1, <2>1, <3>1
    <2>2. CASE todo'[k] \in {todo[k], Peers[k], <<>>}
      <3>1. Len(<<>>) = 0
        OBVIOUS
      <3>2. QED
        BY <1>0, <1>1, <2>2, <3>1
    <2>3. QED
      BY <1>2, <2>1, <2>2
  <1>3. ASSUME NEW n \in Server, NodeStep(n) PROVE Len(todo'[k]) <= Len(Peers[k])
    <2>1. \/ todo' = todo
          \/ todo' = [todo EXCEPT ![n] = Peers[n]]
          \/ todo' = [todo EXCEPT ![n] = <<>>]
          \/ todo[n] # <<>> /\ todo' = [todo EXCEPT ![n] = Tail(todo[n])]
      <3>1. CASE \/ ElectionTimeout(n) \/ ElectionStepsDown(n) \/ WinElection(n) \/ LoseElection(n)
                 \/ HeartbeatTick(n) \/ CallFails(n) \/ takeSnapshot(n)
                 \/ \E c \in Command : handleClientRequest(n, c)
        BY <3>1 DEF ElectionTimeout, ElectionStepsDown, WinElection, LoseElection, HeartbeatTick,
                    CallFails, takeSnapshot, handleClientRequest, SendTo, threadVars
      <3>2. CASE CountVote(n)
        <4>1. todo[n] # <<>>
          BY <3>2 DEF CountVote, TypeIInv, ReplyTypes
        <4>2. QED
          BY <3>2, <4>1 DEF CountVote
      <3>3. CASE HeartbeatStepsDown(n) \/ SnapshotSent(n) \/ AppendSucceeds(n) \/ AppendRejected(n)
        <4>1. HasReply(n) /\ PeerDone(n)
          BY <3>3 DEF HeartbeatStepsDown, SnapshotSent, AppendSucceeds, AppendRejected
        <4>2. todo[n] # <<>>
          BY <4>1 DEF HasReply, TypeIInv, ThreadTypes
        <4>3. QED
          BY <4>1, <4>2 DEF PeerDone, SendTo
      <3>4. QED
        BY <1>3, <3>1, <3>2, <3>3 DEF NodeStep
    <2>2. CASE k = n
      BY <1>0, <1>2, <2>1, <2>2
    <2>3. CASE k # n
      BY <1>0, <1>2, <2>1, <2>3
    <2>4. QED
      BY <2>2, <2>3
  <1>4. ASSUME NEW m \in Pending, Handle(m) PROVE Len(todo'[k]) <= Len(Peers[k])
    BY <1>2, <1>4, HandlerReplies DEF threadVars
  <1>5. CASE UNCHANGED vars
    BY <1>2, <1>5 DEF vars, threadVars
  <1>6. QED
    BY <1>3, <1>4, <1>5 DEF Next

LEMMA TailOfOne ==
    ASSUME NEW S, NEW s \in Seq(S), s # <<>>, NEW R, NEW r \in Seq(R), Len(s) <= Len(r),
           Len(r) + 1 = 2
    PROVE  Tail(s) = <<>>
  <1>1. Len(r) \in Nat /\ Len(s) \in Nat
    OBVIOUS
  <1>2. Len(r) = 1
    BY <1>1
  <1>3. Len(s) = 1
    <2>1. Len(s) # 0
      OBVIOUS
    <2>2. QED
      BY <1>1, <1>2, <2>1
  <1>4. Len(Tail(s)) = 0 /\ Tail(s) \in Seq(S)
    BY <1>3
  <1>5. QED
    BY <1>4

\* HeartbeatStepsDown is the only step that makes an impostor.
LEMMA TwoNodesStayHonest ==
    ASSUME Cardinality(Server) = 2, TypeIInv, TodoIsShort, NoImpostor, [Next]_vars
    PROVE  NoImpostor'
  <1>1. ASSUME NEW n \in Server, HeartbeatStepsDown(n) PROVE Tail(todo[n]) = <<>>
    <2>1. todo[n] # <<>> /\ todo[n] \in Seq(Server)
      BY <1>1 DEF HeartbeatStepsDown, HasReply, TypeIInv, ThreadTypes
    <2>2. Len(todo[n]) <= Len(Peers[n]) /\ Len(Peers[n]) + 1 = 2 /\ Peers[n] \in Seq(Server \ {n})
      BY PeersAssumption DEF TodoIsShort
    <2> DEFINE rest == todo[n]
               all  == Peers[n]
    <2>3. rest \in Seq(Server) /\ rest # <<>> /\ Len(rest) <= Len(all) /\ Len(all) + 1 = 2
          /\ all \in Seq(Server \ {n})
      BY <2>1, <2>2
    <2> HIDE DEF rest, all
    <2>4. Tail(rest) = <<>>
      BY <2>3, TailOfOne
    <2>5. QED
      BY <2>4 DEF rest
  <1>2. ASSUME NEW n \in Server, NodeStep(n) PROVE impostorTerms' = impostorTerms
    <2>1. CASE HeartbeatStepsDown(n)
      BY <1>1, <2>1 DEF HeartbeatStepsDown
    <2>2. QED
      BY <1>2, <2>1
         DEF NodeStep, ElectionTimeout, ElectionStepsDown, CountVote, WinElection, LoseElection,
             HeartbeatTick, SnapshotSent, AppendSucceeds, AppendRejected, CallFails, takeSnapshot,
             handleClientRequest, historyVars
  <1>3. ASSUME NEW m \in Pending, Handle(m) PROVE impostorTerms' = impostorTerms
    BY <1>3 DEF Handle, HandleStale, handleRequestVote, RejectAppendEntries, AcceptAppendEntries,
                AcceptLeader, handleInstallSnapshot, historyVars
  <1>4. CASE UNCHANGED vars
    BY <1>4 DEF vars, historyVars, NoImpostor
  <1>5. QED
    BY <1>2, <1>3, <1>4 DEF Next, NoImpostor

LEMMA TwoNodesAreHonest ==
    ASSUME Cardinality(Server) = 2
    PROVE  Spec => []NoImpostor
  <1>1. Init => NoImpostor /\ TodoIsShort
    <2>1. ASSUME NEW n \in Server PROVE Len(<<>>) <= Len(Peers[n])
      <3>1. Peers[n] \in Seq(Server \ {n}) /\ Len(<<>>) = 0
        BY PeersAssumption
      <3>2. QED
        BY <3>1
    <2>2. QED
      BY <2>1 DEF Init, NoImpostor, TodoIsShort
  <1>2. NodeInv => TypeIInv
    BY DEF NodeInv
  <1>3. TypeIInv /\ TodoIsShort /\ NoImpostor /\ [Next]_vars => NoImpostor'
    BY TwoNodesStayHonest
  <1>4. QED
    BY <1>1, <1>2, <1>3, TodoStaysShort, NodeInvariant, PTL DEF Spec

\* In a cluster of two nodes matchIndex never overstates, without a condition
\* on deposed leaders: sendHeartbeats has no other peer to go on with after the
\* reply that deposes the leader (RaftNode.cpp:528-533).
THEOREM TwoNodesCountWell ==
    ASSUME Cardinality(Server) = 2
    PROVE  Spec => [](NothingCompacted => MatchIndexSound)
  <1>1. NoImpostor /\ (NothingCompacted => MatchIndexSoundUnlessImpostor)
            => (NothingCompacted => MatchIndexSound)
    BY DEF MatchIndexSoundUnlessImpostor
  <1>2. QED
    BY <1>1, MatchIndexIsSound, TwoNodesAreHonest, PTL

\* A term has one leader in a cluster of two nodes, unlike in one of five (run
\* two_leaders).
THEOREM TwoNodesElectOne ==
    ASSUME Cardinality(Server) = 2
    PROVE  Spec => []ElectionSafety
  <1>1. NoImpostor /\ ElectionSafetyUnlessImpostor => ElectionSafety
    BY DEF ElectionSafetyUnlessImpostor, ElectionSafety, NoImpostor
  <1>2. QED
    BY <1>1, ElectionSafetyHolds, TwoNodesAreHonest, PTL
=============================================================================
