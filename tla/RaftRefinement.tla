--------------------------- MODULE RaftRefinement ---------------------------
(***************************************************************************)
(* RaftNode implements ReplicatedStore as long as no deposed leader sends  *)
(* and no log is compacted: a command is decided when the first node       *)
(* applies its entry.                                                      *)
(***************************************************************************)
EXTENDS RaftLiveness

\* The command applied first at every index; all indices below the last one that
\* some node applied are among AppliedIndices.
DecidedCommands ==
    [i \in 1 .. Cardinality(AppliedIndices) |->
        (CHOOSE r \in applied : r.entry.index = i).entry.command]

Abstract == INSTANCE ReplicatedStore WITH
    Replica        <- Server,
    DecidedCommand <- Command,
    decided        <- DecidedCommands,
    executed       <- lastApplied,
    store          <- kvStore

\* Every step of the cluster decides, executes or leaves the replicated store
\* alone: what is applied is never taken back or applied differently elsewhere
\* (State Machine Safety, README.md:291), stores differ only by how far their
\* nodes got, and a command that was retried took effect once (README.md:299).
ImplementsReplicatedStore == Abstract!StoreSpec
=============================================================================
