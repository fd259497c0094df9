-------------------------- MODULE ReplicatedStore --------------------------
(***************************************************************************)
(* What the cluster promises its users, without terms, logs or leaders:    *)
(* one sequence of commands is decided, command by command and for good;   *)
(* every replica executes a prefix of it and never goes back; and of the   *)
(* copies of a command that a client sends again only the first one takes  *)
(* effect.                                                                 *)
(***************************************************************************)
EXTENDS Naturals, Sequences

CONSTANTS Replica, DecidedCommand

VARIABLES
    decided,     \* the commands decided so far, in order
    executed,    \* how many of them each replica has executed
    store        \* the writes each replica holds: pairs of position and command

storeSpecVars == <<decided, executed, store>>

\* The command at position i repeats, or is overtaken by, an earlier one.
Superseded(cs, i) ==
    \E j \in 1 .. i - 1 : cs[j].client = cs[i].client /\ cs[j].seq >= cs[i].seq

\* What is left of the first k commands in a store.
Effects(cs, k) ==
    {<<i, cs[i]>> : i \in {j \in 1 .. k : cs[j].op # "GET" /\ ~Superseded(cs, j)}}

StoreInit ==
    /\ decided = <<>>
    /\ executed = [r \in Replica |-> 0]
    /\ store = [r \in Replica |-> {}]

\* Commands may be decided, and nothing that is decided changes.
Decide ==
    /\ decided' \in Seq(DecidedCommand)
    /\ Len(decided) <= Len(decided')
    /\ decided = SubSeq(decided', 1, Len(decided))

\* Replica r executes what is decided, up to position k.
Execute(r, k) ==
    /\ executed' = [executed EXCEPT ![r] = k]
    /\ store' = [store EXCEPT ![r] = Effects(decided', k)]

StoreNext ==
    /\ Decide
    /\ \E r \in Replica : \E k \in executed[r] .. Len(decided') : Execute(r, k)

StoreSpec == StoreInit /\ [][StoreNext]_storeSpecVars
=============================================================================
