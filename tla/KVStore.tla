------------------------------ MODULE KVStore ------------------------------
(***************************************************************************)
(* The key-value store of one node (class KVStore,                         *)
(* src/src/kvstore/KVStore.cpp): a map from keys to values, strings both,  *)
(* and its snapshot, a sequence with one element per integer and one per   *)
(* character.  RaftNode keeps the writes applied instead of the map: Replay *)
(* tells which map they make.                                              *)
(***************************************************************************)
EXTENDS Integers, Sequences, FiniteSets

CONSTANT NotFound      \* Get's nullopt

EmptyMap == [key \in {} |-> <<>>]

\* kvMap_[key] = value
Put(kvMap, key, value) ==
    [k \in DOMAIN kvMap \cup {key} |-> IF k = key THEN value ELSE kvMap[k]]

Get(kvMap, key) == IF key \in DOMAIN kvMap THEN kvMap[key] ELSE NotFound

\* Mutant: a key that is there is overwritten.
AppendOverwrites(kvMap, key, value) == Put(kvMap, key, value)

\* KVStore::Append; a key that is not there starts empty.
AppendTo(kvMap, key, value) ==
    Put(kvMap, key, IF key \in DOMAIN kvMap THEN kvMap[key] \o value ELSE value)

\* applyCommittedEntries' case distinction on the command.
Execute(kvMap, command) ==
    CASE command.op = "PUT"    -> Put(kvMap, command.key, command.value)
      [] command.op = "APPEND" -> AppendTo(kvMap, command.key, command.value)
      [] command.op = "GET"    -> kvMap

\* The map after the commands, in their order.
Replay(commands) ==
    LET kvMap[i \in 0 .. Len(commands)] ==
            IF i = 0 THEN EmptyMap ELSE Execute(kvMap[i - 1], commands[i])
    IN  kvMap[Len(commands)]

----------------------------------------------------------------------------
SizedString(str) == <<Len(str)>> \o str

SizedPair(key, value) == SizedString(key) \o SizedString(value)

\* takeSnapshot, when the unordered_map iterates over its keys in this order.
takeSnapshot(kvMap, order) ==
    LET data[i \in 0 .. Len(order)] ==
            IF i = 0 THEN <<Cardinality(DOMAIN kvMap)>>
                     ELSE data[i - 1] \o SizedPair(order[i], kvMap[order[i]])
    IN  data[Len(order)]

\* Mutant: the offset is not moved past the value.
ReadPairAgain(data, done) ==
    LET value == done.offset + data[done.offset] + 1
    IN  [offset |-> value,
         kvMap  |-> Put(done.kvMap, SubSeq(data, done.offset + 1, value - 1),
                                    SubSeq(data, value + 1, value + data[value]))]

\* One iteration of installSnapshot: a key, and the value that follows it.
ReadPair(data, done) ==
    LET value == done.offset + data[done.offset] + 1
    IN  [offset |-> value + data[value] + 1,
         kvMap  |-> Put(done.kvMap, SubSeq(data, done.offset + 1, value - 1),
                                    SubSeq(data, value + 1, value + data[value]))]

installSnapshot(data) ==
    LET done[i \in 0 .. data[1]] ==
            IF i = 0 THEN [offset |-> 2, kvMap |-> EmptyMap] ELSE ReadPair(data, done[i - 1])
    IN  done[data[1]].kvMap
=============================================================================
