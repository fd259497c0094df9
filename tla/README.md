# A verification of the Raft key-value store

TLA+ models of the repository's Raft implementation (`src/src/raft`) and
key-value store (`src/src/kvstore`), the TLC runs that check them on small
clusters, and TLAPS proofs for clusters of any size: of the type invariant; of the
election properties, over crashes and restarts too; for a cluster in which no
deposed leader sends and no log is compacted, of Raft's properties about logs and
of the refinement of an abstract replicated store; and that logs, commands and
stores of any size read back from their bytes.  Paths are relative to the directory that holds `src/`
and `tla/`.

## The system

| component | state | operations |
|---|---|---|
| `RaftLog` (Log.cpp) | the vector `Entries` with a sentinel first, `snapshotIndex`, `snapshotTerm` | `append`, `truncate`, `discardEntriesUpTo`, getters |
| `RaftNode` (RaftNode.cpp) | term, vote, role, leader hint; log, `commitIndex`, `lastApplied`; `lastAppliedSeq`; `nextIndex`, `matchIndex` per peer; the snapshot | handlers `handleRequestVote`, `handleAppendEntries`, `handleInstallSnapshot`, `handleClientRequest`; the election, heartbeat and snapshot threads; `triggerSnapshot` |
| `KVStore` | a map of strings | `Put`, `Get`, `Append`, `takeSnapshot`, `installSnapshot` |
| `Command` | none | `serialize`, `deserialize` |
| `RaftPersistence` | a state file and a snapshot file | `saveState`, `loadState`, `clear` |
| `GrpcRaftClient`, `GrpcRaftService` | stubs by peer | one synchronous call per request, with a deadline |
| `InMemoryRPC` | nodes by id, partitions | direct calls of the peer's handlers, under one global mutex |
| `raft_main`, `raft_client` | none | argument parsing, a signal handler that exits; the client sends nothing yet |

A node runs three threads: the election timer, the heartbeat timer and the
snapshot timer.  They and the handlers, which the transport calls, take
`stateMutex`.  The election thread keeps it while it asks every peer in turn for
its vote, and goes straight on to the first heartbeats when it wins
(RaftNode.cpp:535-583); the heartbeat thread keeps it while it calls every
peer in turn (528-533).  So the handlers of a node that waits for a peer are
blocked, and it is the deadline of the gRPC call that ends the wait.  A client
of the transport sees a failed call as a reply with its own term, no vote and no
success.

What is hard: votes, successes and step-downs between two calls of one loop;
requests that are handled after their caller gave up; made-up replies; a node
deposed in the middle of its heartbeats; logs that are compacted at different
points on different nodes; retried commands; stops between two saves of a
handler or in the middle of one; mutexes held across calls.  `PROJECT.json` lists
these hazards at their lines.

What makes each component correct:

* log: contiguous indices; merge stores what the leader sent; term and entry
  of an index fit;
* elections: one vote and one leader per term, a leader has a majority;
* replication: the five properties of README.md:287-291, `matchIndex` never
  overstates, a commit is applied and never goes back, everything a majority
  has is committed;
* compaction: only applied entries are discarded, the snapshot covers what the
  log lacks, the stores stay equal;
* deduplication: a retried command is applied once;
* all of these together: the cluster behaves like one sequence of commands that
  only grows, of which every node executes a prefix (`ReplicatedStore`);
* liveness: a mutex that is held across calls is released, a follower catches up;
* persistence: what a node answers for is on disk, a vote survives a restart, a
  file that is cut off is not taken for a whole one, a node that stops comes
  back, with a log that still matches its indices;
* encodings: commands, logs and stores read back as they were.

Two things about the commit that is modelled.  `AppendEntriesReply` has its
fields `conflictIndex` and `conflictTerm` commented out (RaftNode.hpp:54-56),
while RaftNode.cpp, gRPCRaftService.cpp and gRPCRaftClient.cpp set and read them
and the protocol buffer has them; the model follows the uses.  `raft_main`
passes the arguments of the `RaftNode` constructor in another order than
RaftNode.hpp declares (raft_main.cpp:62-69); the model follows the tests.

## The modules

| module | what it holds |
|---|---|
| `RaftLog` | `RaftLog` as operators on a record; the two loops of `handleAppendEntries` over the log (search for `conflictIndex`, merge) in closed form |
| `RaftLogLoops` | the same two loops iteration by iteration, and one node's log under everything that happens to it |
| `CommandCodec`, `KVStore`, `RaftPersistence` | pure operators: a command, a store's snapshot and a state file, each written and read back |
| `RaftStorage`, `MCRaftStorage` | `RaftLogLoops` with these three: what every reachable log looks like on disk and as a store |
| `RaftNode` | the cluster: one action per step of a loop and per outcome of a handler, over the gRPC transport |
| `RaftProperties` | the type invariant, safety invariants and action properties of `RaftNode` |
| `RaftSafety` | the inductive invariant behind the properties about logs, `LogsAreSafe` |
| `RaftLiveness` | the fairness of threads and calls, and what happens in the end |
| `ReplicatedStore` | the abstract specification: what the cluster owes its clients |
| `RaftRefinement` | the mapping that shows `RaftNode` to implement `ReplicatedStore` |
| `RaftRestart`, `MCRaftRestart` | `RaftNode` with state directories: saves, stops, crashes and the constructor's restore; uses `RaftPersistence` |
| `InMemoryRPC`, `MCInMemoryRPC` | `RaftNode` over the transport of the tests |
| `MCRaft`, `MCRaft2`, `MCRaft3`, `MCRaft5` | instances with two, three and five nodes |
| `RaftLogProofs` | lemmas about the operators of `RaftLog`, `CommandCodec` and `RaftPersistence` |
| `RaftNodeProofs` | what holds with deposed leaders, late requests and snapshots: types, unique votes, elected winners, one leader per term, the leader hint, append-only leaders, backtracking, compaction, the commits of the first leader |
| `RaftStepProofs` | what single steps do to logs, counts and stores: a win, an append, a merge, a commit |
| `RaftSafetyProofs` | `LogsAreSafe` and what follows from it; clusters of two nodes |
| `RaftRestartProofs` | votes, elections and the disk over crashes and restarts |
| `RaftStorageProofs` | the loops over the log and their closed forms; what is written reads back, and what is cut off does not |
| `RaftRefinementProofs` | `RaftNode` implements `ReplicatedStore`; commands applied once |
| `ReplicatedStoreProofs` | what `ReplicatedStore` implies |

### The log

Positions in `Entries` are 0-based in the code and 1-based in the model.
`getTerm` and `truncate` take the index for a position (Log.cpp:39 and 97) and
`getEntry` subtracts `snapshotIndex` (56); the model keeps both.  An operator
that throws in the code has its condition as an operator of its own
(`HasEntry`, `CanAppend`); `TypeInvariant` and `LogWellFormed` say that no
handler meets the case.

`handleAppendEntries` has two loops.  Their results are stated as
characterisations: `IsConflictIndex` (the first index of the run of equal terms)
and `Merge` at `IsFirstConflict` (cut at the first conflict, append what lies past
the end).  `RaftLogLoops` has the loops as recursive functions of the iteration; the run
`log_storage` compares the two and `RaftStorageProofs` proves them equal, on
compacted logs too, where the cut is at the wrong place in both.

### The cluster

A step of `RaftNode` is what a node does under its mutex between two calls.

| model | code |
|---|---|
| `pc[n]`, `todo[n]` | the loop that holds `stateMutex`, and the peers it still calls; the call to the head is in progress |
| `reply[n]` | what that call returned |
| `Request(n)` | the arguments of that call; nothing changes the caller while it waits |
| `late` | requests whose caller gave up and which the peer's server still handles |
| `kvStore[n]` | the set of writes applied, each with the index it was applied at |
| `lastAppliedSeq[n]` | the commands the table was updated with; the greatest number per client is the table's entry |
| `granted`, `won`, `impostorTerms`, `applied`, `led` | history, which no action reads: votes granted, elections won, terms in which a deposed leader sends, entries applied, entries of each term's leader |

* `ElectionTimeout`, `CountVote`, `ElectionStepsDown`, `WinElection`,
  `LoseElection`: `electionTimerLoop` and `startElection`.
* `HeartbeatTick`, `HeartbeatStepsDown`, `SnapshotSent`, `AppendSucceeds`,
  `AppendRejected`: `heartbeatTimerLoop`, `sendHeartbeats` and
  `replicateToFollower`.  `AppendSucceeds` contains `updateCommitIndex` and
  `applyCommittedEntries`.
* `HandleStale`, `handleRequestVote`, `RejectAppendEntries`,
  `AcceptAppendEntries`, `handleInstallSnapshot`: the handlers.  They are enabled
  when `pc` is "idle", that is when the mutex is free.
* `CallFails`: the call fails or passes its deadline, before or after the
  peer's handler ran; in the first case the request may stay in `late`.
* `handleClientRequest`: the branch that appends, where the answer is success at
  once.  The other branches, a duplicate and a node that does not lead, change
  nothing.
* `takeSnapshot`: one round of the snapshot thread.  `triggerSnapshot` is the
  same without the threshold.

`impostorTerms` marks the terms in which a deposed leader keeps sending: a
reply of a later term makes `replicateToFollower` return (RaftNode.cpp:637-640),
but the loop of `sendHeartbeats` goes on with the new term in the requests.  Much
of Raft's safety is lost then: two leaders in a term (run `two_leaders`), and a
committed entry that is overwritten.  To say what the rest of the code achieves,
`RaftProperties` also states these properties "unless impostor": in terms, or in
behaviours, where this did not happen.

Abstractions: time (a timeout, a heartbeat and a deadline may come at any
moment); contents of keys and values.  Nodes are built without a state
directory, where `persistState` and `restoreState` do nothing, and do not restart;
`RaftRestart` adds both.  gRPC neither duplicates a request nor loses an answer
without failing the call, so neither does the model.  `conflictTerm` is set and
never read, and is left out.

### Restarts

`RaftRestart` puts a save at each place where the code calls `persistState`
(`SavingStep`, `ClientStep`, `HandlerStep`; `VoteSaves` and `EntriesSave` say for
which requests a handler saves) and leaves the other steps as they are.  `life[n]`
is "up", "down" or "dead"; `disk[n]` holds the two files as `RaftPersistence`
writes them.  A node with a state directory (`Durable`) may stop

* in an orderly way (`Shutdown`): the destructor waits for the threads and saves;
* at any moment (`Crash`): killed, or by `exit(0)` in the signal handler of
  `raft_main`, which runs no destructor of the node;
* between two saves of one handler (`CrashInHandler`);
* in the middle of a save: the state file truncated and not written
  (`CrashInStateFile`), the snapshot file truncated (`CrashInSnapshotFile`), the new
  state file next to the old snapshot file, when a node takes a snapshot
  (`CrashBetweenFiles`) or installs one (`CrashInInstall`).

`Restore` is the constructor: both calls of `restoreState`, the second one on the
log that the first one filled.  When loading throws, the exception leaves the
constructor, and the next attempt meets the same file: `RestoreThrows`.  How much
of a cut-off state file is written makes no difference, because `loadState` refuses
every proper prefix (`TornFileIsRefused`); so one of them stands for all.

### Bytes

A file or buffer is a sequence with one element per integer and one per
character.  A read of an integer checks its whole width in the code, so a cut
inside an integer is the same as one before it.  `HasString` and `ReadEntry` are
the bounds checks, `IsComplete` is `loadState`'s.  The loops that write and read
entries and pairs are recursive functions of the number of rounds.  `CommandsFit`
says that what clients propose is made of numbers and sequences of numbers, as the
`uint64_t` and `std::string` members of a command are.  `RaftNode` keeps the set of
writes applied as its store; `KVStore!Replay` is the map that a sequence of commands
makes, and `RaftStorage` takes the commands of every log that `RaftLogLoops`
reaches.

### The in-memory transport

`InMemoryRPC` replaces `Next` of `RaftNode`: a call starts when its caller gets
`rpcMutex` and returns when the peer's handler has got the peer's `stateMutex`.
There is no `CallFails`, as the timeout argument is unused, and `late` stays empty.

### The abstract store

`ReplicatedStore` has no terms, logs or leaders: a sequence `decided` that only
grows; for each replica the length of the prefix it has executed, which never
shrinks; and its store, which is `Effects` of that prefix: the writes among the
commands, without those a command of the same client with the same or a greater
number precedes.  The mapping: a command is decided when the first node applies
its entry, `executed` is `lastApplied`, `store` is `kvStore`.  A step may decide and
execute several commands at once, as `applyCommittedEntries` does.  That nodes cut
the log into different batches makes no difference to their stores is part of
what the refinement shows.

## The runs

`MCSpec` adds a stutter in the states where the bound on terms stops the system
(`AtTermBound`, `AtBound`); every passing run checks that there is no other deadlock.
Bounds: `MaxTerm` (no election starts in a later term), `MaxIndex` (no proposal
beyond it), `MaxLate` (requests in `late`), `MaxStops` and `MaxCutSaves` (stops of
nodes, and how many of them cut a save off), `snapshotThreshold` (9 means never).

Runs that pass:

| run | bounds (term, index, late) | constraint | shows |
|---|---|---|---|
| `raft_elections` | 2, 1, 0 | | competing candidates, failed calls and deposed leaders that go on sending: `OneVotePerTerm`, `ElectionSafetyUnlessImpostor`, `WinnersHaveMajority`, `LeaderHintIsWinner`; `LogsAreSafe`; `LeaderAppendOnly`, `CommitKeepsUp`, `RejectionBacktracks`, `NothingGoesBack` |
| `raft_replication` | 2, 2, 0 | `InTurn`, `NoImpostor` | log matching, leader completeness, state machine safety, sound `matchIndex`, each command applied once, and `ImplementsReplicatedStore` |
| `raft_catch_up` | 3, 2, 1; two nodes | | an abandoned request that arrives after newer ones, of an earlier term too, harms nothing; `LogsAreSafe`; `CallsEnd` and `FollowersCatchUp` |
| `raft_snapshots` | 1, 3, 0 | | compaction on every node at different points: snapshots at any moment, older ones sent to nodes that are ahead |
| `log_storage` | 4, 5, - | | on every log of one node, compacted ones included: the closed forms equal the loops, entries stay in their positions, a merge into a log that is not compacted stores what was sent; state file, commands and snapshots read back, and no torn file or command does |
| `raft_restart` | 1, 1, 0; 2 stops, 1 cut save | `OnlyVoter` | two of three nodes stop and come back: `OneVotePerTerm`, `ElectionSafetyUnlessImpostor`, `DiskIsCurrent` |

Two terms are enough for a deposed leader, a conflicting suffix and a retried
command in the logs of two leaders; a suffix of two entries separates cutting at
the conflict from cutting elsewhere; three entries and two commands give a node
an older and a newer snapshot.  In `raft_restart` one term is enough to give a
vote twice, and two stops let a voter forget and a candidate repeat its own term.
`log_storage` gives each term a command of its own: a PUT, an APPEND whose value
reads as lengths, a PUT with an empty key, and a GET.  `InTurn` (n1 campaigns in
term 1, n2 in term 2, n3 never), `OnlyVoter` (n3 never campaigns) and `NoImpostor`
cut what is explored, not what a step does: every action still happens.
`NoImpostor` loses nothing for the properties "unless impostor", which hold
trivially beyond it; `LogMatching` and the refinement are checked under the same
restriction.  `raft_catch_up` needs no cut: with two nodes a deposed leader has
nobody left to send to, and the third term gives n1 a follower that lacks an entry
of its first one, so that the leader has to back up.  In the other runs no request
arrives late; the election properties are proved with any number of them.

Runs that end in a counterexample, each a disagreement of the code with what a
comment or the README says:

| run | property | what happens |
|---|---|---|
| `two_leaders` | `ElectionSafety` | five nodes: n5 wins term 2, the deposed n1 goes on sending in term 2, n5 steps down in its own term, forgets its vote and gives it to n2 |
| `snapshot_stops_commits` | `CommitKeepsUp` | `getTerm` returns 0 for entries behind a compacted prefix |
| `snapshot_rolls_back_store` | `SameStore` | an older snapshot replaces the store and the newer snapshot, while `lastApplied` stays |
| `restart_dies` | `NodesComeBack` | a node shut down with one entry in its log throws when it is built again: the second `restoreState` appends the entry once more |
| `restart_loses_commits` | `LeaderCompletenessUnlessImpostor` | a node whose log is all compacted comes back with an empty log and elects a candidate without the committed entry |
| `in_memory_calls` | `CallsReturn` | n1 holds `rpcMutex` and waits for n2's `stateMutex`, n2 holds that and waits for `rpcMutex` |

Every property of a passing run has a mutant: a definition next to the one it
replaces, marked `Mutant` in its comment, that a plausible slip in the code would
amount to and that the run must reject.

### Fairness

`raft_catch_up`: a thread that holds `stateMutex` goes on, and a call ends at its
deadline at the latest (`ThreadsRun`, weak fairness of `ThreadStep`, which
contains `CallFails`): gRPCRaftClient.cpp sets a deadline on every call.  A leader
repeats its calls with every heartbeat, and of the calls of n1 to its peer not
all fail for ever (`CallsGetThrough(n1)`, strong fairness: between two calls the
answer is disabled); this is the only assumption on the network.  Elections,
clients and the calls of n2 are not fair.  `FollowersCatchUp` is about what n1
answers with success as the leader of the last term: of an earlier one it may
lose it.  `CallsEnd` is about n2, whose calls may all fail: a peer that holds its
own mutex in a call to n2 delays it to the deadline and no longer.

`in_memory_calls`: `RpcFairness` gives every mutex to whoever waits for it again
and again (strong fairness), and lets every thread go on; nodes need not be
registered.  The counterexample is a deadlock of two nodes that are.

That a leader is elected in the end is stated nowhere: the code draws election
timeouts at random, so that rival candidates separate with probability one, which
no fairness condition expresses.

## The proofs

The proofs hold for any finite set of servers, any commands and any values of the
bounds.  Assumptions: `ServerAssumption`, `PeersAssumption` (every node's
`peerIds` lists every other node once), `CommandAssumption`, `BoundsAssumption`; TLC
evaluates them in every run of the cluster.  Those about restarts add
`RestartAssumption` and those about bytes `CommandsAssumption`: what tells a
missing file from one with contents, and `CommandsFit`.

* `RaftNodeProofs!TypeCorrect`: `Spec => []TypeInvariant`.  The part about logs
  is not local to a type: a log stays contiguous because a merge appends only
  entries that continue it, hence because every request, a late one too, carries
  consecutive entries from `prevLogIndex + 1` (`GoodMessage`); and `getEntry`
  meets no index that is compacted away because a node has applied all that its
  log no longer holds (`BaseApplied`).  `commitIndex <= lastApplied` is all
  that can be said of the two: `handleAppendEntries` sets `commitIndex` to the
  last index of a log that a deposed leader's request may have shortened.
  `TypeIInv` adds these facts, and which loops have peers left to call, to the
  type invariant and is inductive; the lemmas of `RaftLogProofs` say what each
  log operator preserves.
* `RaftNodeProofs!VotesAreUnique`: `Spec => []OneVotePerTerm`.
  `handleAppendEntries` clears `votedFor` in the node's own term, so `votedFor`
  could forget a vote.  `VoteInv` says why it forgets none for another node: who
  granted a vote in its current term is a follower and still has it in
  `votedFor`, and who is no follower has voted for itself, so that only a node's
  own vote is cleared.
* `RaftNodeProofs!WinnersAreElected` and `ElectionSafetyHolds`:
  `ElectionInv` adds that what a candidate counted, and a positive answer on its
  way to it, are votes granted in its term (`VotesCounted`); that a winner leads
  as long as it is in its term unless a deposed leader sends in it
  (`WinsRemembered`), and so gives its vote to nobody (`WinnersStand`); and that
  whoever sends as a leader won its term or is the deposed leader in question
  (`SendersWon`, `LateSendersWon`).  Two winners of one term have majorities that
  meet: in a voter, which would have voted twice, or in one of the two, which
  would have voted for the other.
* `RaftNodeProofs`, for every behaviour, with deposed leaders, late requests and
  snapshots: `LeaderHintsAreRight` from the history of wins; `LeadersOnlyAppend`;
  `RejectionsGoBack`, which needs that the `conflictIndex` of a reply lies below
  the `nextIndex` it answers (`HintsAreBehind`); `CompactionIsSafe`, from the fact that
  some node applied, entry by entry, all that a node counts as applied or a snapshot,
  a late one too, covers.
* `RaftNodeProofs!FirstCommitsAreApplied` and `RaftSafetyProofs!FirstCommitsStay`:
  until a second term has a winner, `CommittedIsApplied` and `NothingGoesBack` hold
  with snapshots and with deposed leaders that send.
  Every entry is of the one term that was won (`EntriesElected`), so a merge finds
  no conflict inside a log: `getTerm` at a wrong position gives this term, or 0 for
  an index past the end of the vector, and there `truncate` removes nothing.  With
  entries of a second term the wrong position may show that term, and a late request
  whose entries end before a committed one then cuts it off.

The theorems about logs have two conditions, and the code needs both.  No deposed
leader sends (`NoImpostor`): otherwise a term may have two leaders (run
`two_leaders`) and the properties fail.  No log is compacted (`NothingCompacted`):
`getTerm` and `truncate` take an index for a position, so that after compaction
logs are compared and cut at the wrong place (run `snapshot_stops_commits`), and a
failed `InstallSnapshot` call counts in `matchIndex`, so that `MatchIndexSound` is
false with snapshots in the very first term.  Both conditions
speak of the behaviour so far, so a property holds up to the first moment at which
one of them fails.  Requests may arrive late and calls may fail all the same.

* `RaftSafetyProofs!LogsStaySafe`: `Spec => []LogsAreSafe`.  `led` records the log
  of each term's leader.  Every log is made of pieces of leaders' logs
  (`LogsMatchLeaders`), and so is every request (`PieceOfLeaderLog`), late ones
  included; log matching is what this says of two logs.  Leader completeness
  needs more than that a majority has the entry, since between the appending and the
  commit followers move to later terms: while a leader may still commit an entry of
  its own term, whoever it counts has the entry (`AcksAreKept`), and so have later
  leaders (`LeadersAreSafe`) and the candidates its followers vote for
  (`CandidatesAreSafe`), or else a majority has left the term without being counted
  and the entry is `Lost`: the leader will never commit it.  At the commit
  nothing of that majority can be lost, and what remains is `Chosen`: a majority has
  the entry, and every later leader and candidate with a vote of that majority
  does.  `CommittedIn` carries this to the entries before it.  A failed call's made-up
  reply, and a request that is handled after its call failed, enter through `Acked`
  and `LateIsSafe`.
* From it `LogsMatch`, `LeadersAreComplete`, `StateMachinesAgree`, `MatchIndexIsSound`
  and `CommitsAreApplied` follow state by state, and `NothingEverGoesBack` step by
  step.  `CommitsKeepUp` needs no condition on deposed leaders, but more than one
  server: a node alone never runs `updateCommitIndex` (RaftNode.cpp:647), although it
  is a majority.
* `RaftRefinementProofs!ImplementsStore`: a behaviour of the cluster under the two
  conditions is one of `ReplicatedStore`.  The indices applied have no gap
  (`AppliedWithoutGap`), so with state machine safety `DecidedCommands` is a sequence that
  only grows; every store is the effects of a prefix of it, and `lastAppliedSeq`
  remembers that prefix (`Executed`, `Remembers`).  The heart of it is
  `BatchEffects`: the commands that `applyCommittedEntries` finds fresh in a batch are
  the ones that nothing before them in the whole sequence supersedes, so that
  it makes no difference how a node's log was cut into batches.
  `CommandsApplyOnce` and `StoresAgree` are what this means for the nodes' stores.
* `RaftSafetyProofs!TwoNodesCountWell` and `TwoNodesElectOne`: with two nodes the
  first condition holds by itself.  After the reply that deposes a leader
  `sendHeartbeats` has no other peer left (`TodoIsShort`), so no deposed leader ever
  sends: `matchIndex` is sound and every term has one leader, although with five
  nodes it may have two.
* `RaftRestartProofs`: over crashes at any moment and restarts, whatever a stop cut
  off, `VotesSurviveRestarts`, `ElectionSafetySurvivesRestarts`,
  `WinnersAreElectedOverRestarts` and `DiskStaysCurrent`.  The invariant is that of the
  elections for the nodes that are up (`VoteInvOf(Up)`, `WinsRememberedBy(Up)`), and of
  the others that their state file remembers the votes they gave (`DownNodes`),
  unless it is empty: such a file was cut off, and the node never comes back.
  `DiskIsCurrent` is part of the invariant, since it is what a crash turns the memory
  of a node into; a handler's first save and its second one are cases of their
  own, because between them a crash leaves the later term with no vote.
* `RaftStorageProofs`: `ConflictIndexLoopIsRight` and `MergeLoopIsRight` show the
  loops of `handleAppendEntries` equal to the closed forms, by induction over the
  iteration: the merge loop changes nothing before the first conflict, and after it
  the log ends just before the entry in hand.  `LogStaysWellFormed` and `MergeStores`
  follow for every sequence of proposals, requests and compactions.
  `SavedLogsReadBack`, `TornFilesAreRefused`, `TornCommandsAreRefused` and
  `SnapshotsReadBack` hold for logs, keys and values of any length: a file is cut into
  the pieces its rounds wrote (`HoldsPiece`, `IsPart`), and each round of the reader
  takes one piece and stops where the next one begins.  A snapshot is read
  back in whatever order the `unordered_map` had its keys.  For
  `GetsReturnTheLastWrites` a command is executed as it changes the list of writes to
  a key since the last PUT (`LastUpTo`): a PUT starts it anew, an APPEND adds itself
  at the end, and the store holds the values on the list joined in order (`HoldsLast`).
* `ReplicatedStoreProofs!StoresAgreeHolds` and `EffectOnceHolds`: in
  `ReplicatedStore` replicas that executed equally many commands hold the same
  writes, and no command takes effect twice.  `StoreInv` says that `decided` is a
  sequence of commands, each replica has executed a prefix of it, and its store is
  the effects of that prefix; it is inductive because later decisions leave the
  effects of a prefix alone (`EffectsOfPrefix`).

Only model-checked are liveness (`CallsEnd`, `FollowersCatchUp`) and that there is no
deadlock: fairness and ENABLED are beyond the prover.

The theorems about `RaftNode` do not carry over to the transport of the tests: a peer
that is not registered answers in `InMemoryRPC` with term 0, as no call of `RaftNode`
does.  It has the run `in_memory_calls` only.

## Not modelled

* The second `restoreState` runs without the mutex while the three threads run
  (RaftNode.cpp:52-58): a data race, whose outcomes the source does not fix.
  `RaftRestart` lets the constructor finish before a thread acts, as the threads'
  first sleep of 50 ms does when the constructor is not held up.
* A snapshot file of which a part is written: `installSnapshot` reads past its end
  (KVStore.cpp:72-94).  `RaftRestart` cuts it before the first byte, which `loadState`
  takes for no snapshot.
* Loss of what a process flushed, as in a power failure: the code calls no fsync,
  and nothing then bounds what is on disk.
* Objects that are destroyed while the transport still points to them, and the
  stub table and the server of the gRPC transport.
* `RaftPersistence::clear`, which nothing calls; argument parsing and the status
  loop of `raft_main`; `raft_client`, which sends nothing; generated protocol code
  and build files.
* Queries (`getCurrentRole` and the like) and the value in the reply to a GET, which
  change nothing.  A new GET is answered with success and no value; only when it is
  sent again, after it was applied, does the leader read its own store
  (RaftNode.cpp:232-241), without asking whether it still leads.

Known from the code, without a run of its own:

* a deposed leader's requests can overwrite a committed entry
  (RaftNode.cpp:528-533 and 637-640), as `two_leaders` shows for elections, and a
  log that they cut can take `commitIndex` back below `lastApplied` (204);
* a failed `InstallSnapshot` call counts as replicated (613-614), because its reply
  has no success flag: with the constants of `RaftSnapshots.cfg` TLC finds
  `MatchIndexSound` violated by a follower that has neither entry nor snapshot;
* a stop between the state file and the snapshot file (RaftPersistence.cpp:58-63)
  leaves the index of the new snapshot with the data of the old one.  `restoreState` sets
  `lastApplied` to that index (RaftNode.cpp:463), and the commands between are in no
  store and not applied again: with two commands and `MaxIndex` 2 TLC finds
  `SameStore` violated in `RaftRestart` by `CrashBetweenFiles` and `Restore`;
* a node that installed a snapshot, or came back, applies a retried command again:
  `lastAppliedSeq` is in no snapshot and in no file;
* a client is answered before its command is committed (257-258), and a change of
  leader can drop the command;
* a node without peers commits nothing (647), because `updateCommitIndex` runs only
  on a peer's success;
* the second snapshot of a node reads its term at the wrong position (680), as
  `truncate` cuts at the wrong one (Log.cpp:39);
* `setPartition` records partitions that no call consults.
