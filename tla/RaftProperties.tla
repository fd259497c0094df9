--------------------------- MODULE RaftProperties ---------------------------
(***************************************************************************)
(* What RaftNode promises.  The five properties named in README.md:287-291 *)
(* are stated as the README words them; those that hold only as long as no *)
(* deposed leader goes on sending are stated with that condition as well.  *)
(***************************************************************************)
EXTENDS RaftNode

Role == {"FOLLOWER", "CANDIDATE", "LEADER"}

Pc == {"idle", "election", "heartbeat"}

\* Every variable holds values of its type, and every log is well formed, so
\* that neither append nor getEntry throws.
TypeInvariant ==
    /\ currentTerm \in [Server -> Nat]
    /\ votedFor \in [Server -> Server \cup {Nil}]
    /\ role \in [Server -> Role]
    /\ currentLeaderId \in [Server -> Server \cup {Nil}]
    /\ log \in [Server -> Log]
    /\ \A n \in Server : WellFormed(log[n])
    /\ commitIndex \in [Server -> Nat]
    /\ lastApplied \in [Server -> Nat]
    /\ kvStore \in [Server -> Store]
    /\ lastAppliedSeq \in [Server -> SUBSET Payload]
    /\ nextIndex \in [Server -> [Server -> Nat \ {0}]]
    /\ matchIndex \in [Server -> [Server -> Nat]]
    /\ snapshotIndex \in [Server -> Nat]
    /\ snapshotTerm \in [Server -> Nat]
    /\ snapshotData \in [Server -> Store]
    /\ pc \in [Server -> Pc]
    /\ todo \in [Server -> Seq(Server)]
    /\ \A n \in Server : todo[n] \in Seq(Server \ {n})
    /\ votesReceived \in [Server -> SUBSET Server]
    /\ reply \in [Server -> Reply \cup {Nil}]
    /\ late \in SUBSET Message
    /\ granted \in SUBSET (Nat \X Server \X Server)
    /\ won \in SUBSET (Nat \X Server)
    /\ impostorTerms \in SUBSET Nat
    /\ applied \in SUBSET [by : Server, term : Nat, entry : Entry]
    /\ led \in SUBSET (Nat \X Entry)

----------------------------------------------------------------------------
\* A node votes for at most one other node per term: a vote it gave is not
\* forgotten within the term, although handleAppendEntries clears votedFor when
\* it steps down in its own term.
OneVotePerTerm ==
    \A t \in {g[1] : g \in granted}, v, a, b \in Server :
        <<t, v, a>> \in granted /\ <<t, v, b>> \in granted => a = b

\* Election Safety (README.md:287): at most one leader per term.
ElectionSafety ==
    \A w, x \in won : w[1] = x[1] => w = x

\* Election Safety in every term in which no deposed leader goes on sending.
ElectionSafetyUnlessImpostor ==
    \A w, x \in won : w[1] = x[1] /\ w[1] \notin impostorTerms => w = x

\* A node that becomes leader was granted a majority of votes in its term,
\* none counted twice, made up for a failed call or given in another term.
WinnersHaveMajority ==
    \A w \in won : IsMajority(w[2], {v \in PeerSet(w[2]) : <<w[1], v, w[2]>> \in granted})

\* What a node tells clients about the leader is right for its term.
LeaderHintIsWinner ==
    \A n \in Server :
        \/ currentLeaderId[n] = Nil
        \/ <<currentTerm[n], currentLeaderId[n]>> \in won
        \/ currentTerm[n] \in impostorTerms

----------------------------------------------------------------------------
\* Two logs hold the same entries up to index i.
SameUpTo(a, b, i) ==
    \A j \in 1 .. i : HasEntry(log[a], j) /\ HasEntry(log[b], j)
                        => getEntry(log[a], j) = getEntry(log[b], j)

\* Log Matching (README.md:289): logs that agree on the index and term of an
\* entry agree on all entries up to it.
LogMatching ==
    \A a, b \in Server : \A e \in EntrySet(log[a]) :
        (\E f \in EntrySet(log[b]) : f.index = e.index /\ f.term = e.term)
            => SameUpTo(a, b, e.index)

\* Leader Completeness (README.md:290): an entry that some node applied is in
\* the log of every leader of a later term, or in its snapshot.
LeaderCompleteness ==
    \A r \in applied, n \in Server :
        role[n] = "LEADER" /\ currentTerm[n] > r.term
            => \/ r.entry.index <= log[n].snapshotIndex
               \/ HasEntry(log[n], r.entry.index) /\ getEntry(log[n], r.entry.index) = r.entry

\* State Machine Safety (README.md:291): no two nodes apply different entries
\* at the same index.
StateMachineSafety ==
    \A r, s \in applied : r.entry.index = s.entry.index => r.entry = s.entry

\* matchIndex never overstates (RaftNode.hpp:176: known to be replicated): a
\* follower in the leader's term has a log up to the matchIndex the leader
\* counts for it, with the leader's entries.
MatchIndexSound ==
    \A n, p \in Server :
        role[n] = "LEADER" /\ p # n /\ currentTerm[p] = currentTerm[n]
            => \A i \in 1 .. matchIndex[n][p] :
                  \/ i <= log[p].snapshotIndex
                  \/ /\ HasEntry(log[p], i)
                     /\ HasEntry(log[n], i) => getEntry(log[p], i) = getEntry(log[n], i)

\* What a node has committed it has applied before it releases stateMutex, and
\* still has.
CommittedIsApplied ==
    \A n \in Server : /\ lastApplied[n] = commitIndex[n]
                      /\ commitIndex[n] <= getLastIndex(log[n])

\* Nodes that applied up to the same index have the same key-value store.
SameStore ==
    \A a, b \in Server : lastApplied[a] = lastApplied[b] => kvStore[a] = kvStore[b]

\* A command is applied at most once, however often its client retries it
\* (README.md:299: metadata for deduplication).
AppliedOnce ==
    \A n \in Server : \A x, y \in kvStore[n] : x[2] = y[2] => x = y

\* A leader commits what it may commit: no entry of its own term above
\* commitIndex is on a majority (RaftNode.cpp:387-403).
CommitKeepsUp ==
    \A n \in Server : \A i \in commitIndex[n] + 1 .. getLastIndex(log[n]) :
        ~ /\ role[n] = "LEADER"
          /\ HasEntry(log[n], i) /\ getEntry(log[n], i).term = currentTerm[n]
          /\ IsMajority(n, {p \in PeerSet(n) : matchIndex[n][p] >= i})

\* The indices that some node applied.
AppliedIndices == {r.entry.index : r \in applied}

\* Compaction discards no entry that was not applied by some node, the ones
\* that an installed snapshot makes a follower skip included.
CompactedIsApplied ==
    \A n \in Server : /\ log[n].snapshotIndex <= lastApplied[n]
                      /\ 1 .. log[n].snapshotIndex \subseteq AppliedIndices

----------------------------------------------------------------------------
NoImpostor == impostorTerms = {}

\* A term never goes back, nor does lastApplied, whatever is received twice,
\* late or out of order; nor does commitIndex, unless a deposed leader sends.
NothingGoesBack ==
    [][\A n \in Server : /\ currentTerm'[n] >= currentTerm[n]
                         /\ lastApplied'[n] >= lastApplied[n]
                         /\ NoImpostor => commitIndex'[n] >= commitIndex[n]]_vars

\* Leader Append-Only (README.md:288): as long as a node leads it removes and
\* overwrites no entry of its log.
LeaderAppendOnly ==
    [][\A n \in Server :
          role[n] = "LEADER" /\ role'[n] = "LEADER"
              => \A i \in log'[n].snapshotIndex + 1 .. getLastIndex(log[n]) :
                    /\ HasEntry(log'[n], i)
                    /\ HasEntry(log[n], i) => getEntry(log'[n], i) = getEntry(log[n], i)]_vars

\* A rejection brings the leader closer to an entry the follower has: it moves
\* nextIndex back, unless all of the log is sent already.
RejectionBacktracks ==
    [][\A n \in Server :
          todo[n] # <<>> /\ AppendRejected(n)
              => \/ nextIndex'[n][Head(todo[n])] < nextIndex[n][Head(todo[n])]
                 \/ nextIndex'[n][Head(todo[n])] = 1]_vars

----------------------------------------------------------------------------
(***************************************************************************)
(* The properties that a deposed leader can break, as long as none goes on *)
(* sending (RaftNode.cpp:528-533 and 637-640).                             *)
(***************************************************************************)

\* Leader Completeness as long as no deposed leader sends.
LeaderCompletenessUnlessImpostor == NoImpostor => LeaderCompleteness

\* State Machine Safety as long as no deposed leader sends.
StateMachineSafetyUnlessImpostor == NoImpostor => StateMachineSafety

\* matchIndex never overstates as long as no deposed leader sends.
MatchIndexSoundUnlessImpostor == NoImpostor => MatchIndexSound

\* What is committed is applied and stays, as long as no deposed leader sends.
CommittedIsAppliedUnlessImpostor == NoImpostor => CommittedIsApplied

\* No command is applied twice as long as no deposed leader sends.
AppliedOnceUnlessImpostor == NoImpostor => AppliedOnce
=============================================================================
