----------------------------- MODULE RaftSafety -----------------------------
(***************************************************************************)
(* Why RaftNode's logs agree: the inductive invariant behind log matching, *)
(* leader completeness and state machine safety, of a cluster in which no  *)
(* deposed leader sends and no log is compacted.  RaftSafetyProofs proves  *)
(* it for every cluster; TLC checks it on small ones.                      *)
(***************************************************************************)
EXTENDS RaftProperties

\* No log was compacted: snapshotIndex of a log never falls.
NothingCompacted == \A n \in Server : log[n].snapshotIndex = 0

Majority == {Q \in SUBSET Server : 2 * Cardinality(Q) > Cardinality(Server)}

Entries(n) == EntrySet(log[n])

\* The entries that the leader of term t had so far.
LeaderLog(t) == {x[2] : x \in {y \in led : y[1] = t}}

WonTerms == {w[1] : w \in won}

----------------------------------------------------------------------------
(***************************************************************************)
(* Log matching: every log is made of pieces of leaders' logs.             *)
(***************************************************************************)

\* A leader's log has one entry per index and no gap; up to an entry it is the
\* log of the leader that made the entry.
LeaderLogsMatch ==
    /\ \A x \in led : x[1] \in WonTerms
    /\ \A t \in WonTerms : \A e \in LeaderLog(t) :
          /\ e.index > 0 /\ e.term > 0 /\ e.term <= t
          /\ \A i \in 1 .. e.index : \E f \in LeaderLog(t) : f.index = i
          /\ \A f \in LeaderLog(t) : /\ f.index = e.index => f = e
                                     /\ f.index <= e.index => f \in LeaderLog(e.term)

\* So is every log, and it holds no entry of a term that its node is not in yet.
LogsMatchLeaders ==
    \A n \in Server : \A e \in Entries(n) :
        /\ e.term <= currentTerm[n]
        /\ \A f \in Entries(n) : f.index <= e.index => f \in LeaderLog(e.term)

\* A log without entries has a last term of 0.
SentinelsStay == \A n \in Server : log[n].Entries[1] = Sentinel(0, 0)

\* A leader has no entries but the ones recorded as its own.
LeadersKeepTheirLog ==
    \A n \in Server : role[n] = "LEADER" => Entries(n) = LeaderLog(currentTerm[n])

----------------------------------------------------------------------------
(***************************************************************************)
(* Progress: what a leader of its own term may still commit.               *)
(***************************************************************************)

\* Leader n counts index i for p, or will do so with the reply that it has.
Acked(n, p, i) ==
    \/ matchIndex[n][p] >= i
    \/ HasReply(n) /\ reply[n].ok /\ Head(todo[n]) = p /\ Matched(n, p) >= i

\* The entries that leader n made in its term.
Own(n) == {e \in Entries(n) : e.term = currentTerm[n]}

\* Leader n can never commit index i: a majority is in a later term, and n does
\* not know that any of it has the entry.
Lost(n, i) ==
    \E Q \in Majority : \A p \in Q : currentTerm[p] > currentTerm[n] /\ ~Acked(n, p, i)

\* What a leader counts and sends lies within its log.
LeadersStayInLog ==
    \A n \in Server : role[n] = "LEADER" => \A p \in Server :
        /\ nextIndex[n][p] <= getLastIndex(log[n]) + 1
        /\ matchIndex[n][p] <= getLastIndex(log[n])

\* A follower that is counted has the leader's entries while it is in the
\* leader's term; later it still has the ones of that term, unless they are lost.
AcksAreKept ==
    \A n, p \in Server : role[n] = "LEADER" /\ p # n => \A e \in Entries(n) :
        Acked(n, p, e.index) =>
            /\ currentTerm[p] >= currentTerm[n]
            /\ currentTerm[p] = currentTerm[n] => e \in Entries(p)
            /\ e.term = currentTerm[n] => e \in Entries(p) \/ Lost(n, e.index)

\* Leaders of later terms have the entry, unless it is lost.
LeadersAreSafe ==
    \A n \in Server : role[n] = "LEADER" => \A e \in Own(n), t \in WonTerms :
        t > currentTerm[n] => e \in LeaderLog(t) \/ Lost(n, e.index)

\* Candidate c of a later term has a vote of v.
Votes(v, c) == pc[c] = "election" /\ <<currentTerm[c], v, c>> \in granted

\* A candidate of a later term has what its voters are counted for.
CandidatesAreSafe ==
    \A n \in Server : role[n] = "LEADER" => \A e \in Own(n), v, c \in Server :
        Votes(v, c) /\ currentTerm[c] > currentTerm[n] /\ Acked(n, v, e.index)
            => e \in Entries(c) \/ Lost(n, e.index)

----------------------------------------------------------------------------
(***************************************************************************)
(* Commitment: what is committed is in every later leader's log.           *)
(***************************************************************************)

\* A majority has the entry and every later leader does; whoever a member of
\* that majority votes for has it too.
Chosen(e) ==
    /\ e \in LeaderLog(e.term)
    /\ \A t \in WonTerms : t > e.term => e \in LeaderLog(t)
    /\ \E Q \in Majority : \A v \in Q :
          /\ e \in Entries(v)
          /\ \A c \in Server : Votes(v, c) /\ currentTerm[c] > e.term => e \in Entries(c)

\* e is committed as of term t: it is part of the log of an entry that is chosen.
CommittedIn(t, e) ==
    \E f \in {x[2] : x \in led} :
        f.term <= t /\ e.index <= f.index /\ e \in LeaderLog(f.term) /\ Chosen(f)

CommitsAreSafe ==
    \A n \in Server :
        /\ lastApplied[n] = commitIndex[n]
        /\ commitIndex[n] <= getLastIndex(log[n])
        /\ \A e \in Entries(n) : e.index <= commitIndex[n] => CommittedIn(currentTerm[n], e)

AppliedIsSafe == \A r \in applied : CommittedIn(r.term, r.entry)

----------------------------------------------------------------------------
(***************************************************************************)
(* Requests.                                                               *)
(***************************************************************************)

\* An AppendEntries request carries a piece of its leader's log up to the end
\* of what the leader had committed.
PieceOfLeaderLog(m) ==
    LET last == m.prevLogIndex + Len(m.entries)
    IN  /\ m.prevLogIndex > 0 =>
              \E g \in LeaderLog(m.term) : g.index = m.prevLogIndex /\ g.term = m.prevLogTerm
        /\ \A j \in DOMAIN m.entries : m.entries[j] \in LeaderLog(m.term)
        /\ m.leaderCommit <= last
        /\ \A e \in LeaderLog(m.term) : e.index <= m.leaderCommit => CommittedIn(m.term, e)

\* A late request for a vote describes the log of its candidate, as long as that
\* goes on with the election.
DescribesCandidate(m) ==
    pc[m.from] = "election" /\ currentTerm[m.from] = m.term
        => /\ m.lastLogIndex = getLastIndex(log[m.from])
           /\ m.lastLogTerm = getLastTerm(log[m.from])

LateIsSafe ==
    \A m \in late :
        /\ m.term <= currentTerm[m.from]
        /\ m.type # "InstallSnapshot"
        /\ m.type = "AppendEntries" => PieceOfLeaderLog(m)
        /\ m.type = "RequestVote" => DescribesCandidate(m)

\* Terms begin at 1, and nobody votes in a term its candidate is not in yet.
TermsAreSound ==
    /\ \A t \in WonTerms : t > 0
    /\ \A n \in Server : role[n] # "FOLLOWER" => currentTerm[n] > 0
    /\ \A g \in granted : g[1] <= currentTerm[g[3]]

SafetyInv ==
    /\ LeaderLogsMatch /\ LogsMatchLeaders /\ SentinelsStay /\ LeadersKeepTheirLog
    /\ LeadersStayInLog /\ AcksAreKept /\ LeadersAreSafe /\ CandidatesAreSafe
    /\ CommitsAreSafe /\ AppliedIsSafe
    /\ LateIsSafe /\ TermsAreSound

\* The logs are safe as long as no deposed leader sends and no log is compacted.
LogsAreSafe == NoImpostor /\ NothingCompacted => SafetyInv
=============================================================================
