------------------------ MODULE RaftRefinementProofs ------------------------
(***************************************************************************)
(* RaftNode implements ReplicatedStore, for every number of nodes, in a    *)
(* cluster in which no deposed leader sends and no log is compacted.       *)
(*                                                                         *)
(* First what applyCommittedEntries makes of a batch, about sequences of   *)
(* commands alone; then that the indices applied are those of one sequence *)
(* that only grows, and that every store holds the effects of a prefix of  *)
(* it, however the prefix was cut into batches; then the steps.            *)
(***************************************************************************)
EXTENDS RaftSafetyProofs, RaftRefinement, FiniteSetTheorems

----------------------------------------------------------------------------
(***************************************************************************)
(* Batches of commands.                                                    *)
(***************************************************************************)

\* The effects of the first a commands depend on these alone.
LEMMA EffectsOfSame ==
    ASSUME NEW cs, NEW ds, NEW a \in Nat, \A i \in 1 .. a : cs[i] = ds[i]
    PROVE  Abstract!Effects(ds, a) = Abstract!Effects(cs, a)
  <1>1. \A i \in 1 .. a : Abstract!Superseded(cs, i) <=> Abstract!Superseded(ds, i)
    BY DEF Abstract!Superseded
  <1>2. QED
    BY <1>1 DEF Abstract!Effects

\* D are the commands among the first a that a node remembers (lastAppliedSeq).
Remembers(D, cs, a) ==
    /\ \A d \in D : \E j \in 1 .. a : cs[j] = d
    /\ \A j \in 1 .. a : \E d \in D : d.client = cs[j].client /\ d.seq >= cs[j].seq

\* The entries batch hold the commands from a + 1 to k.
IsBatch(batch, cs, a, k) ==
    /\ \A e \in batch : e.index \in a + 1 .. k /\ e.command = cs[e.index]
    /\ \A i \in a + 1 .. k : \E e \in batch : e.index = i

\* What a node that remembers D takes from the batch, as Fresh says.
FreshOf(D, batch) ==
    {e \in batch :
        /\ ~ \E d \in D : d.client = e.command.client /\ d.seq >= e.command.seq
        /\ \A f \in batch : /\ f.index < e.index
                            /\ f.command.client = e.command.client
                            => f.command.seq < e.command.seq}

\* What the entries F add to the store.
Writes(F) == {<<e.index, e.command>> : e \in {f \in F : f.command.op # "GET"}}

\* The effects of the first k commands are those of the first a, and F's.
AddsWrites(cs, a, k, F) ==
    Abstract!Effects(cs, k) = Abstract!Effects(cs, a) \cup Writes(F)

\* The commands taken are the ones that nothing before them supersedes.
LEMMA FreshIsNew ==
    ASSUME NEW cs, NEW a \in Nat, NEW k \in Nat, a <= k,
           \A i \in 1 .. k : cs[i].seq \in Nat,
           NEW D, Remembers(D, cs, a), NEW batch, IsBatch(batch, cs, a, k),
           NEW e \in batch
    PROVE  e \in FreshOf(D, batch) <=> ~Abstract!Superseded(cs, e.index)
  <1>1. e.index \in a + 1 .. k /\ e.index \in 1 .. k /\ e.index \in Nat /\ e.command = cs[e.index]
    BY DEF IsBatch
  <1>2. ASSUME NEW d \in D, d.client = e.command.client, d.seq >= e.command.seq
        PROVE  Abstract!Superseded(cs, e.index)
    <2>1. PICK j \in 1 .. a : cs[j] = d
      BY DEF Remembers
    <2>2. j \in 1 .. e.index - 1
      BY <1>1, <2>1
    <2>3. QED
      BY <1>1, <1>2, <2>1, <2>2 DEF Abstract!Superseded
  <1>3. ASSUME NEW f \in batch, f.index < e.index, f.command.client = e.command.client,
               ~(f.command.seq < e.command.seq)
        PROVE  Abstract!Superseded(cs, e.index)
    <2>1. f.index \in a + 1 .. k /\ f.index \in 1 .. k /\ f.command = cs[f.index]
      BY DEF IsBatch
    <2>2. f.index \in 1 .. e.index - 1
      BY <1>1, <1>3, <2>1
    <2>3. cs[f.index].seq >= cs[e.index].seq
      BY <1>1, <1>3, <2>1
    <2>4. QED
      BY <1>1, <1>3, <2>1, <2>2, <2>3 DEF Abstract!Superseded
  <1>4. ASSUME NEW j \in 1 .. e.index - 1, cs[j].client = cs[e.index].client,
               cs[j].seq >= cs[e.index].seq
        PROVE  e \notin FreshOf(D, batch)
    <2>1. j \in 1 .. k /\ cs[j].seq \in Nat /\ cs[e.index].seq \in Nat
      BY <1>1
    <2>2. CASE j <= a
      <3>1. PICK d \in D : d.client = cs[j].client /\ d.seq >= cs[j].seq
        BY <2>2 DEF Remembers
      <3>2. PICK i \in 1 .. a : cs[i] = d
        BY DEF Remembers
      <3>3. d.seq \in Nat
        BY <3>2
      <3>4. d.seq >= cs[e.index].seq
        BY <1>4, <2>1, <3>1, <3>3
      <3>5. QED
        BY <1>1, <1>4, <3>1, <3>4 DEF FreshOf
    <2>3. CASE ~(j <= a)
      <3>1. j \in a + 1 .. k
        BY <2>1, <2>3
      <3>2. PICK f \in batch : f.index = j
        BY <3>1 DEF IsBatch
      <3>3. f.command = cs[j] /\ f.index < e.index
        BY <1>1, <3>2 DEF IsBatch
      <3>4. ~(cs[j].seq < cs[e.index].seq)
        BY <1>4, <2>1
      <3>5. QED
        BY <1>1, <1>4, <3>3, <3>4 DEF FreshOf
    <2>4. QED
      BY <2>2, <2>3
  <1>5. ASSUME Abstract!Superseded(cs, e.index) PROVE e \notin FreshOf(D, batch)
    BY <1>4, <1>5 DEF Abstract!Superseded
  <1>6. ASSUME e \notin FreshOf(D, batch) PROVE Abstract!Superseded(cs, e.index)
    BY <1>2, <1>3, <1>6 DEF FreshOf
  <1>7. QED
    BY <1>5, <1>6

\* A batch adds the effects of its commands.
LEMMA BatchEffects ==
    ASSUME NEW cs, NEW a \in Nat, NEW k \in Nat, a <= k,
           \A i \in 1 .. k : cs[i].seq \in Nat,
           NEW D, Remembers(D, cs, a), NEW batch, IsBatch(batch, cs, a, k)
    PROVE  AddsWrites(cs, a, k, FreshOf(D, batch))
  <1> DEFINE new == {<<e.index, e.command>> : e \in {f \in FreshOf(D, batch) : f.command.op # "GET"}}
  <1>1. ASSUME NEW i \in 1 .. k, cs[i].op # "GET", ~Abstract!Superseded(cs, i)
        PROVE  <<i, cs[i]>> \in Abstract!Effects(cs, a) \cup new
    <2>1. CASE i <= a
      BY <1>1, <2>1 DEF Abstract!Effects
    <2>2. CASE ~(i <= a)
      <3>1. i \in a + 1 .. k
        BY <2>2
      <3>2. PICK e \in batch : e.index = i
        BY <3>1 DEF IsBatch
      <3>3. e.command = cs[i]
        BY <3>2 DEF IsBatch
      <3>4. e \in FreshOf(D, batch)
        BY <1>1, <3>2, FreshIsNew
      <3>5. QED
        BY <1>1, <3>2, <3>3, <3>4
    <2>3. QED
      BY <2>1, <2>2
  <1>2. ASSUME NEW e \in FreshOf(D, batch), e.command.op # "GET"
        PROVE  <<e.index, e.command>> \in Abstract!Effects(cs, k)
    <2>1. e \in batch
      BY DEF FreshOf
    <2>2. ~Abstract!Superseded(cs, e.index)
      BY <2>1, FreshIsNew
    <2>3. e.index \in 1 .. k /\ e.command = cs[e.index]
      BY <2>1 DEF IsBatch
    <2>4. QED
      BY <1>2, <2>2, <2>3 DEF Abstract!Effects
  <1>3. Abstract!Effects(cs, a) \subseteq Abstract!Effects(cs, k)
    <2>1. 1 .. a \subseteq 1 .. k
      OBVIOUS
    <2>2. QED
      BY <2>1 DEF Abstract!Effects
  <1>4. Abstract!Effects(cs, k) \subseteq Abstract!Effects(cs, a) \cup new
    <2> HIDE DEF new
    <2>1. QED
      BY <1>1 DEF Abstract!Effects
  <1>5. QED
    BY <1>2, <1>3, <1>4 DEF AddsWrites, Writes

\* What the node remembers with the batch: of the commands of one client, one
\* with the greatest number; the first of them is taken.
LEMMA BatchRemembered ==
    ASSUME NEW cs, NEW a \in Nat, NEW k \in Nat, a <= k,
           \A i \in 1 .. k : cs[i].seq \in Nat,
           NEW D, Remembers(D, cs, a), NEW batch, IsBatch(batch, cs, a, k)
    PROVE  Remembers(D \cup {e.command : e \in FreshOf(D, batch)}, cs, k)
  <1> DEFINE M == D \cup {e.command : e \in FreshOf(D, batch)}
  <1>1. ASSUME NEW d \in M PROVE \E j \in 1 .. k : cs[j] = d
    <2>1. CASE d \in D
      <3>1. PICK j \in 1 .. a : cs[j] = d
        BY <2>1 DEF Remembers
      <3>2. j \in 1 .. k
        OBVIOUS
      <3>3. QED
        BY <3>1, <3>2
    <2>2. CASE d \notin D
      <3>1. PICK e \in FreshOf(D, batch) : d = e.command
        BY <2>2
      <3>2. e \in batch
        BY DEF FreshOf
      <3>3. e.index \in 1 .. k /\ e.command = cs[e.index]
        BY <3>2 DEF IsBatch
      <3>4. QED
        BY <3>1, <3>3
    <2>3. QED
      BY <2>1, <2>2
  <1>2. ASSUME NEW j \in 1 .. k
        PROVE  \E d \in M : d.client = cs[j].client /\ d.seq >= cs[j].seq
    <2> DEFINE T == {i \in 1 .. k : cs[i].client = cs[j].client /\ cs[i].seq >= cs[j].seq}
    <2>1. T \in SUBSET Nat /\ T # {}
      BY j \in T
    <2>2. PICK i \in T : \A y \in T : i <= y
      <3> HIDE DEF T
      <3>1. QED
        BY <2>1, LeastOf
    <2>3. i \in 1 .. k /\ cs[i].client = cs[j].client /\ cs[i].seq >= cs[j].seq
      OBVIOUS
    <2>4. cs[i].seq \in Nat /\ cs[j].seq \in Nat
      BY <2>3
    <2>5. ~Abstract!Superseded(cs, i)
      <3>1. ASSUME NEW y \in 1 .. i - 1, cs[y].client = cs[i].client, cs[y].seq >= cs[i].seq
            PROVE  FALSE
        <4>1. y \in 1 .. k /\ cs[y].seq \in Nat /\ y < i
          BY <2>3
        <4>2. cs[y].seq >= cs[j].seq
          BY <2>3, <2>4, <3>1, <4>1
        <4>3. y \in T
          BY <2>3, <3>1, <4>1, <4>2
        <4>4. i <= y
          BY <2>2, <4>3
        <4>5. QED
          BY <2>3, <4>1, <4>4
      <3>2. QED
        BY <3>1 DEF Abstract!Superseded
    <2> HIDE DEF T
    <2>6. CASE i <= a
      <3>1. PICK d \in D : d.client = cs[i].client /\ d.seq >= cs[i].seq
        BY <2>3, <2>6 DEF Remembers
      <3>2. PICK l \in 1 .. a : cs[l] = d
        BY DEF Remembers
      <3>3. d.seq \in Nat
        BY <3>2
      <3>4. d.seq >= cs[j].seq
        BY <2>3, <2>4, <3>1, <3>3
      <3>5. QED
        BY <2>3, <3>1, <3>4
    <2>7. CASE ~(i <= a)
      <3>1. i \in a + 1 .. k
        BY <2>3, <2>7
      <3>2. PICK e \in batch : e.index = i
        BY <3>1 DEF IsBatch
      <3>3. e.command = cs[i]
        BY <3>2 DEF IsBatch
      <3>4. e \in FreshOf(D, batch)
        BY <2>5, <3>2, FreshIsNew
      <3>5. cs[i] \in M
        BY <3>3, <3>4
      <3>6. QED
        BY <2>3, <3>5
    <2>8. QED
      BY <2>6, <2>7
  <1> HIDE DEF M
  <1>3. Remembers(M, cs, k)
    BY <1>1, <1>2 DEF Remembers
  <1>4. QED
    BY <1>3 DEF M

----------------------------------------------------------------------------
(***************************************************************************)
(* The sequence of the commands that are applied.                          *)
(***************************************************************************)

\* Logs hold commands of clients only, the sentinel's payload aside.
LedCommands == \A x \in led : x[2].command \in Command

\* What is applied has no gap, and no node has applied more.
AppliedWithoutGap ==
    \E N \in Nat : AppliedIndices = 1 .. N /\ \A n \in Server : lastApplied[n] <= N

\* DecidedCommands is a sequence of commands, every record in applied is one of
\* its elements, and every element is in a record.
DecidedOk ==
    /\ DecidedCommands \in Seq(Command)
    /\ \A r \in applied : /\ r.entry.index \in 1 .. Len(DecidedCommands)
                          /\ DecidedCommands[r.entry.index] = r.entry.command
    /\ \A i \in 1 .. Len(DecidedCommands) : \E r \in applied : r.entry.index = i
    /\ \A n \in Server : lastApplied[n] <= Len(DecidedCommands)

LEMMA DecidedFacts == Core /\ LedCommands /\ AppliedWithoutGap => DecidedOk
  <1> SUFFICES ASSUME Core, LedCommands, AppliedWithoutGap PROVE DecidedOk
    OBVIOUS
  <1>1. PICK N \in Nat : AppliedIndices = 1 .. N /\ \A n \in Server : lastApplied[n] <= N
    BY DEF AppliedWithoutGap
  <1>2. Cardinality(AppliedIndices) = N
    BY <1>1, FS_Interval
  <1>3. ASSUME NEW r \in applied PROVE r.entry.command \in Command
    <2>1. CommittedIn(r.term, r.entry)
      BY DEF Core, SafetyInv, AppliedIsSafe
    <2>2. PICK f : r.entry \in LeaderLog(f.term)
      BY <2>1 DEF CommittedIn
    <2>3. <<f.term, r.entry>> \in led
      BY <2>2, InLeaderLog, CoreTypes DEF Core
    <2>4. <<f.term, r.entry>>[2].command \in Command
      BY <2>3 DEF LedCommands
    <2>5. QED
      BY <2>4
  <1>4. ASSUME NEW i \in 1 .. N
        PROVE  LET c == CHOOSE r \in applied : r.entry.index = i
               IN  c \in applied /\ c.entry.index = i
    <2>1. \E r \in applied : r.entry.index = i
      BY <1>1 DEF AppliedIndices
    <2>2. QED
      BY <2>1
  <1>5. DecidedCommands = [i \in 1 .. N |-> (CHOOSE r \in applied : r.entry.index = i).entry.command]
    BY <1>2 DEF DecidedCommands
  <1>6. DecidedCommands \in [1 .. N -> Command]
    BY <1>3, <1>4, <1>5
  <1>7. DecidedCommands \in Seq(Command) /\ Len(DecidedCommands) = N
    BY <1>6
  <1>8. ASSUME NEW r \in applied
        PROVE  r.entry.index \in 1 .. N /\ DecidedCommands[r.entry.index] = r.entry.command
    <2>1. r.entry.index \in 1 .. N
      BY <1>1 DEF AppliedIndices
    <2>2. PICK c \in applied : /\ c.entry.index = r.entry.index
                               /\ DecidedCommands[r.entry.index] = c.entry.command
      BY <1>4, <1>5, <2>1
    <2>3. c.entry = r.entry
      BY <2>2, AppliedAgrees DEF StateMachineSafety
    <2>4. QED
      BY <2>1, <2>2, <2>3
  <1>9. QED
    BY <1>1, <1>4, <1>7, <1>8 DEF DecidedOk

LEMMA DecidedFactsAfter == Core' /\ LedCommands' /\ AppliedWithoutGap' => DecidedOk'
  BY DecidedFacts, PTL

\* What was decided stays.
LEMMA DecidedGrows ==
    ASSUME DecidedOk, DecidedOk', applied \subseteq applied'
    PROVE  /\ Abstract!Decide
           /\ \A i \in 1 .. Len(DecidedCommands) : DecidedCommands'[i] = DecidedCommands[i]
  <1> DEFINE cs == DecidedCommands
             ds == DecidedCommands'
  <1>1. /\ cs \in Seq(Command) /\ ds \in Seq(Command)
        /\ \A r \in applied : r.entry.index \in 1 .. Len(cs) /\ cs[r.entry.index] = r.entry.command
        /\ \A r \in applied' : r.entry.index \in 1 .. Len(ds) /\ ds[r.entry.index] = r.entry.command
        /\ \A i \in 1 .. Len(cs) : \E r \in applied : r.entry.index = i
    BY DEF DecidedOk
  <1> HIDE DEF cs, ds
  <1>2. ASSUME NEW i \in 1 .. Len(cs) PROVE i \in 1 .. Len(ds) /\ ds[i] = cs[i]
    BY <1>1
  <1>3. Len(cs) \in Nat /\ Len(ds) \in Nat
    BY <1>1
  <1>4. Len(cs) <= Len(ds)
    <2>1. CASE Len(cs) = 0
      BY <1>3, <2>1
    <2>2. CASE Len(cs) # 0
      <3>1. Len(cs) \in 1 .. Len(cs)
        BY <1>3, <2>2
      <3>2. QED
        BY <1>2, <1>3, <3>1
    <2>3. QED
      BY <2>1, <2>2
  <1>5. cs = SubSeq(ds, 1, Len(cs))
    BY <1>1, <1>2, <1>3, <1>4
  <1>6. QED
    BY <1>1, <1>2, <1>4, <1>5 DEF Abstract!Decide, cs, ds

\* Node n holds the effects of what it executed, and remembers its clients.
Executed(n) ==
    /\ kvStore[n] = Abstract!Effects(DecidedCommands, lastApplied[n])
    /\ Remembers(lastAppliedSeq[n], DecidedCommands, lastApplied[n])

\* Later decisions leave alone what a node has executed.
LEMMA ExecutedStays ==
    ASSUME TypeIInv, DecidedOk, DecidedOk', applied \subseteq applied',
           NEW m \in Server, Executed(m), lastApplied'[m] = lastApplied[m],
           kvStore'[m] = kvStore[m], lastAppliedSeq'[m] = lastAppliedSeq[m]
    PROVE  Executed(m)'
  <1>1. lastApplied[m] \in Nat /\ lastApplied[m] <= Len(DecidedCommands)
        /\ Len(DecidedCommands) \in Nat
    BY DEF TypeIInv, StoreTypes, DecidedOk
  <1>2. \A i \in 1 .. lastApplied[m] : DecidedCommands'[i] = DecidedCommands[i]
    BY <1>1, DecidedGrows
  <1>3. Abstract!Effects(DecidedCommands', lastApplied[m])
          = Abstract!Effects(DecidedCommands, lastApplied[m])
    BY <1>1, <1>2, EffectsOfSame
  <1>4. Remembers(lastAppliedSeq[m], DecidedCommands', lastApplied[m])
    BY <1>2 DEF Executed, Remembers
  <1>5. QED
    BY <1>3, <1>4 DEF Executed

\* A node that applies executes the commands decided up to its new lastApplied.
LEMMA AppliesExecutes ==
    ASSUME TypeIInv, DecidedOk, DecidedOk', \A m \in Server : Executed(m),
           NEW n \in Server, NEW lg, NEW k \in Nat, Applies(n, lg, k)
    PROVE  /\ \A m \in Server : Executed(m)'
           /\ \E j \in lastApplied[n] .. Len(DecidedCommands') : Abstract!Execute(n, j)
  <1> DEFINE a     == lastApplied[n]
             done  == AllApplied(n, k)
             ds    == DecidedCommands'
             D     == lastAppliedSeq[n]
             batch == {getEntry(lg, i) : i \in a + 1 .. done}
             fresh == FreshOf(D, batch)
  <1>1. /\ done \in Nat /\ done >= a /\ a \in Nat
        /\ lastApplied' = [lastApplied EXCEPT ![n] = done]
        /\ \A i \in a + 1 .. done : /\ getEntry(lg, i).index = i
                                    /\ Record(n, getEntry(lg, i)) \in applied'
        /\ applied \subseteq applied'
    BY AppliesWhat DEF TypeIInv, StoreTypes
  <1>2. fresh = Fresh(n, batch)
    BY DEF Fresh, FreshOf, IsDuplicate
  <1>3. /\ kvStore' = [kvStore EXCEPT ![n] = @ \cup Writes(fresh)]
        /\ lastAppliedSeq' = [lastAppliedSeq EXCEPT ![n] = @ \cup {e.command : e \in fresh}]
    <2> HIDE DEF fresh
    <2>1. QED
      BY <1>2 DEF Applies, applyCommittedEntries, Writes
  <1>4. /\ kvStore \in [Server -> Store] /\ lastAppliedSeq \in [Server -> SUBSET Payload]
        /\ lastApplied \in [Server -> Nat]
    BY DEF TypeIInv, StoreTypes
  <1>5. /\ ds \in Seq(Command) /\ Len(ds) \in Nat /\ lastApplied'[n] <= Len(ds)
        /\ \A r \in applied' : ds[r.entry.index] = r.entry.command
    BY DEF DecidedOk
  <1>6. done <= Len(ds)
    BY <1>1, <1>4, <1>5
  <1>7. \A i \in 1 .. done : ds[i].seq \in Nat
    <2>1. \A i \in 1 .. done : ds[i] \in Command
      BY <1>1, <1>5, <1>6
    <2>2. QED
      BY <2>1, CommandAssumption
  <1>8. IsBatch(batch, ds, a, done)
    <2>1. ASSUME NEW i \in a + 1 .. done
          PROVE  getEntry(lg, i).index = i /\ getEntry(lg, i).command = ds[i]
      <3>1. Record(n, getEntry(lg, i)).entry = getEntry(lg, i)
        BY DEF Record
      <3>2. QED
        BY <1>1, <1>5, <3>1
    <2>2. QED
      BY <2>1 DEF IsBatch
  <1>9. /\ kvStore[n] = Abstract!Effects(ds, a)
        /\ Remembers(D, ds, a)
    <2>1. a <= Len(DecidedCommands) /\ Len(DecidedCommands) \in Nat
      BY DEF DecidedOk
    <2>2. \A i \in 1 .. a : ds[i] = DecidedCommands[i]
      BY <1>1, <2>1, DecidedGrows
    <2>3. Abstract!Effects(ds, a) = Abstract!Effects(DecidedCommands, a)
      BY <1>1, <2>2, EffectsOfSame
    <2>4. QED
      BY <2>2, <2>3 DEF Executed, Remembers
  <1> HIDE DEF batch, ds, a, done, D
  <1>10. fresh = FreshOf(D, batch)
    OBVIOUS
  <1> HIDE DEF fresh
  <1>11. done \in Nat /\ a \in Nat /\ a <= done /\ Remembers(D, ds, a)
    BY <1>1, <1>9
  <1>12. AddsWrites(ds, a, done, FreshOf(D, batch))
    BY <1>7, <1>8, <1>11, BatchEffects
  <1>13. Remembers(D \cup {e.command : e \in FreshOf(D, batch)}, ds, done)
    BY <1>7, <1>8, <1>11, BatchRemembered
  <1>14. /\ kvStore'[n] = Abstract!Effects(ds, done)
         /\ lastAppliedSeq'[n] = D \cup {e.command : e \in fresh}
         /\ lastApplied'[n] = done
    BY <1>1, <1>3, <1>4, <1>9, <1>10, <1>12 DEF AddsWrites, D
  <1>15. Executed(n)'
    BY <1>10, <1>13, <1>14 DEF Executed, ds
  <1>16. ASSUME NEW m \in Server, m # n PROVE Executed(m)'
    BY <1>1, <1>3, <1>4, <1>16, ExecutedStays
  <1>17. Abstract!Execute(n, done)
    BY <1>1, <1>3, <1>9, <1>10, <1>12 DEF Abstract!Execute, AddsWrites, ds
  <1>18. done \in a .. Len(ds)
    BY <1>1, <1>5, <1>6
  <1>19. QED
    BY <1>15, <1>16, <1>17, <1>18 DEF a, ds

----------------------------------------------------------------------------
(***************************************************************************)
(* Steps.                                                                  *)
(***************************************************************************)

StoreSafe == LedCommands /\ AppliedWithoutGap /\ \A n \in Server : Executed(n)

\* What every state of the cluster keeps of the replicated store.
StoresAreSafe == NoImpostor /\ NothingCompacted => StoreSafe

LEMMA LedCommandsStep ==
    ASSUME CoreStep, LedCommands
    PROVE  LedCommands'
  <1>1. CASE led' = led
    BY <1>1 DEF LedCommands
  <1>2. ASSUME NEW n \in Server, WinElection(n) PROVE LedCommands'
    <2>1. ASSUME NEW e \in Entries(n) PROVE e.command \in Command
      <3>1. e \in LeaderLog(e.term)
        BY EntryFacts DEF CoreStep
      <3>2. <<e.term, e>> \in led
        BY <3>1, InLeaderLog, CoreTypes DEF CoreStep, Core
      <3>3. <<e.term, e>>[2].command \in Command
        BY <3>2 DEF LedCommands
      <3>4. QED
        BY <3>3
    <2>2. led' = led \cup {<<currentTerm[n], e>> : e \in Entries(n)}
      BY <1>2 DEF WinElection, Entries
    <2>3. QED
      BY <2>1, <2>2 DEF LedCommands
  <1>3. ASSUME NEW n \in Server, NEW c \in Command, handleClientRequest(n, c) PROVE LedCommands'
    BY <1>3 DEF handleClientRequest, NewEntry, LedCommands
  <1>4. QED
    BY <1>1, <1>2, <1>3, LeaderLogChange

LEMMA AppliedWithoutGapStep ==
    ASSUME TypeIInv, AppliedWithoutGap, NEW n \in Server, NEW lg, NEW k \in Nat, Applies(n, lg, k)
    PROVE  AppliedWithoutGap' /\ applied \subseteq applied'
  <1>1. PICK N \in Nat : AppliedIndices = 1 .. N /\ \A m \in Server : lastApplied[m] <= N
    BY DEF AppliedWithoutGap
  <1> DEFINE a    == lastApplied[n]
             done == AllApplied(n, k)
             top  == IF done > N THEN done ELSE N
  <1>2. /\ done \in Nat /\ done >= a /\ a \in Nat /\ a <= N
        /\ lastApplied' = [lastApplied EXCEPT ![n] = done]
        /\ \A i \in a + 1 .. done : /\ getEntry(lg, i).index = i
                                    /\ Record(n, getEntry(lg, i)) \in applied'
        /\ applied \subseteq applied'
        /\ \A r \in applied' : r \notin applied
              => \E i \in a + 1 .. done : r = Record(n, getEntry(lg, i))
    BY <1>1, AppliesWhat DEF TypeIInv, StoreTypes
  <1>3. lastApplied \in [Server -> Nat]
    BY DEF TypeIInv, StoreTypes
  <1> HIDE DEF a, done
  <1>4. top \in Nat /\ top >= N /\ top >= done /\ 1 .. top = 1 .. N \cup a + 1 .. done
    BY <1>1, <1>2
  <1>5. \A i \in a + 1 .. done : Record(n, getEntry(lg, i)).entry.index = i
    BY <1>2 DEF Record
  <1>6. ASSUME NEW i \in 1 .. N PROVE i \in AppliedIndices'
    BY <1>1, <1>2 DEF AppliedIndices
  <1>7. ASSUME NEW i \in a + 1 .. done PROVE i \in AppliedIndices'
    BY <1>2, <1>5 DEF AppliedIndices
  <1>8. ASSUME NEW r \in applied' PROVE r.entry.index \in 1 .. N \cup a + 1 .. done
    <2>1. CASE r \in applied
      BY <1>1, <2>1 DEF AppliedIndices
    <2>2. CASE r \notin applied
      BY <1>2, <1>5, <2>2
    <2>3. QED
      BY <2>1, <2>2
  <1>9. AppliedIndices' = 1 .. top
    BY <1>4, <1>6, <1>7, <1>8 DEF AppliedIndices
  <1>10. \A m \in Server : lastApplied'[m] <= top
    BY <1>1, <1>2, <1>3, <1>4
  <1> HIDE DEF top
  <1>11. AppliedWithoutGap'
    BY <1>4, <1>9, <1>10 DEF AppliedWithoutGap
  <1>12. QED
    BY <1>2, <1>11

\* A step decides what it applies first, and one node executes; or neither.
StoreStep == Abstract!StoreNext \/ UNCHANGED Abstract!storeSpecVars

LEMMA StoreSafeStep ==
    ASSUME CoreStep, StoreSafe
    PROVE  StoreSafe' /\ StoreStep
  <1>1. TypeIInv /\ LedCommands' /\ Core /\ Core' /\ DecidedOk
    <2>1. Core
      BY DEF CoreStep
    <2>2. TypeIInv
      BY <2>1 DEF Core, NodeInv
    <2>3. LedCommands'
      BY LedCommandsStep DEF StoreSafe
    <2>4. HintsAreBehind'
      BY <2>1, <2>2, HintsAreBehindStep DEF CoreStep, Core
    <2>5. Core'
      BY <2>4, SafetyStep DEF CoreStep, Core
    <2>6. DecidedOk
      BY <2>1, DecidedFacts DEF StoreSafe
    <2>7. QED
      BY <2>1, <2>2, <2>3, <2>5, <2>6
  <1>2. ASSUME UNCHANGED <<lastApplied, kvStore, lastAppliedSeq, applied>>
        PROVE  StoreSafe' /\ StoreStep
    <2>1. AppliedIndices' = AppliedIndices /\ DecidedCommands' = DecidedCommands
      BY <1>2 DEF AppliedIndices, DecidedCommands
    <2>2. AppliedWithoutGap'
      BY <1>2, <2>1 DEF StoreSafe, AppliedWithoutGap
    <2>3. \A n \in Server : Executed(n)'
      BY <1>2, <2>1 DEF StoreSafe, Executed
    <2>4. UNCHANGED Abstract!storeSpecVars
      BY <1>2, <2>1 DEF Abstract!storeSpecVars
    <2>5. QED
      BY <1>1, <2>2, <2>3, <2>4 DEF StoreSafe, StoreStep
  <1>3. ASSUME NEW n \in Server, NEW lg, NEW k \in Nat, Applies(n, lg, k)
        PROVE  StoreSafe' /\ StoreStep
    <2>1. AppliedWithoutGap' /\ applied \subseteq applied'
      BY <1>1, <1>3, AppliedWithoutGapStep DEF StoreSafe
    <2>2. DecidedOk'
      BY <1>1, <2>1, DecidedFactsAfter
    <2>3. /\ \A m \in Server : Executed(m)'
          /\ \E j \in lastApplied[n] .. Len(DecidedCommands') : Abstract!Execute(n, j)
      BY <1>1, <1>3, <2>2, AppliesExecutes DEF StoreSafe
    <2>4. Abstract!Decide
      BY <1>1, <2>1, <2>2, DecidedGrows
    <2>5. QED
      BY <1>1, <2>1, <2>3, <2>4 DEF StoreSafe, StoreStep, Abstract!StoreNext
  <1>4. ASSUME NEW n \in Server, AppendSucceeds(n) PROVE StoreSafe' /\ StoreStep
    <2>1. PICK k \in Nat : Applies(n, log[n], k)
      BY <1>1, <1>4, SuccessApplies
    <2>2. QED
      BY <1>3, <2>1
  <1>5. ASSUME NEW m \in Pending, AcceptAppendEntries(m) PROVE StoreSafe' /\ StoreStep
    <2>1. m.to \in Server
      BY <1>5, AcceptFacts
    <2>2. PICK x : /\ Applies(m.to, x, FollowerCommit(m.to, x, m.leaderCommit))
                   /\ FollowerCommit(m.to, x, m.leaderCommit) \in Nat
      BY <1>5, AcceptFacts
    <2>3. QED
      BY <1>3, <2>1, <2>2
  <1>6. ASSUME NEW n \in Server, WinElection(n) \/ \E c \in Command : handleClientRequest(n, c)
        PROVE  UNCHANGED <<lastApplied, kvStore, lastAppliedSeq, applied>>
    BY <1>6 DEF WinElection, handleClientRequest, storeVars
  <1>7. QED
    BY <1>2, <1>4, <1>5, <1>6, CoreStepKinds DEF Quiet

----------------------------------------------------------------------------
(***************************************************************************)
(* The store as an invariant, and the refinement.                          *)
(***************************************************************************)

LEMMA NothingDecidedYet == Init => StoreSafe /\ Abstract!StoreInit
  <1> SUFFICES ASSUME Init PROVE StoreSafe /\ Abstract!StoreInit
    OBVIOUS
  <1>1. /\ led = {} /\ applied = {}
        /\ lastApplied = [n \in Server |-> 0] /\ kvStore = [n \in Server |-> {}]
        /\ lastAppliedSeq = [n \in Server |-> {}]
    BY DEF Init
  <1>2. AppliedIndices = {}
    BY <1>1 DEF AppliedIndices
  <1>3. DecidedCommands = <<>>
    <2>1. Cardinality(AppliedIndices) = 0
      BY <1>2, FS_EmptySet
    <2>2. QED
      BY <2>1 DEF DecidedCommands
  <1>4. LedCommands /\ AppliedWithoutGap
    <2>1. AppliedIndices = 1 .. 0
      BY <1>2
    <2>2. QED
      BY <1>1, <2>1 DEF LedCommands, AppliedWithoutGap
  <1>5. ASSUME NEW n \in Server PROVE Executed(n)
    BY <1>1 DEF Executed, Remembers, Abstract!Effects
  <1>6. QED
    BY <1>1, <1>3, <1>4, <1>5 DEF StoreSafe, Abstract!StoreInit

\* The invariant of the cluster with that of its stores.
RefinementInv == ClusterInv /\ StoresAreSafe

LEMMA RefinementStep == RefinementInv /\ [Next]_vars => RefinementInv'
  <1> SUFFICES ASSUME RefinementInv, [Next]_vars PROVE RefinementInv'
    OBVIOUS
  <1>1. ClusterInv /\ StoresAreSafe /\ ClusterInv'
    BY ClusterStep DEF RefinementInv
  <1>2. NodeInv /\ NodeInv' /\ TypeIInv
    BY <1>1 DEF ClusterInv, NodeInv
  <1>3. ASSUME NoImpostor', NothingCompacted' PROVE StoreSafe'
    <2>1. NoImpostor
      BY <1>2, <1>3, HistoriesGrow DEF HistoryGrows, NoImpostor
    <2>2. NothingCompacted
      BY <1>2, <1>3, CompactionStays
    <2>3. CoreStep
      BY <1>1, <1>2, <1>3, <2>1, <2>2, CoreInv DEF CoreStep
    <2>4. QED
      BY <1>1, <2>1, <2>2, <2>3, StoreSafeStep DEF StoresAreSafe
  <1>4. QED
    BY <1>1, <1>3 DEF RefinementInv, StoresAreSafe

LEMMA RefinementInvariant == Spec => []RefinementInv
  <1>1. Init => RefinementInv
    BY NothingDecidedYet, TypeInit, VoteInvInit, ElectionInvInit, HintsAreBehindInit, SafetyInit
       DEF RefinementInv, ClusterInv, NodeInv, StoresAreSafe
  <1>2. QED
    BY <1>1, RefinementStep, PTL DEF Spec

\* Every store holds the effects of a prefix of one sequence of commands, and
\* lastAppliedSeq remembers that prefix: whatever batches applyCommittedEntries
\* (RaftNode.cpp:409-439) cut the log into on a node, and whoever led it there.
THEOREM StoresStaySafe == Spec => []StoresAreSafe
  <1>1. RefinementInv => StoresAreSafe
    BY DEF RefinementInv
  <1>2. QED
    BY <1>1, RefinementInvariant, PTL

\* A cluster in which no deposed leader sends and no log is compacted implements
\* the replicated store: each call of applyCommittedEntries (RaftNode.cpp:409-439)
\* decides, if anything, commands after those that are decided, and executes one
\* node's share of them; every other step of RaftNode leaves all stores alone.
THEOREM ImplementsStore == Spec /\ [](NoImpostor /\ NothingCompacted) => ImplementsReplicatedStore
  <1>1. Init => Abstract!StoreInit
    BY NothingDecidedYet
  <1>2. ASSUME RefinementInv, RefinementInv', [Next]_vars, NoImpostor, NothingCompacted,
               NoImpostor', NothingCompacted'
        PROVE  [Abstract!StoreNext]_Abstract!storeSpecVars
    <2>1. ClusterInv /\ ClusterInv' /\ StoreSafe
      BY <1>2 DEF RefinementInv, StoresAreSafe
    <2>2. CoreStep
      BY <1>2, <2>1, CoreInv DEF CoreStep, ClusterInv
    <2>3. StoreStep
      BY <2>1, <2>2, StoreSafeStep
    <2>4. CASE Abstract!StoreNext
      BY <2>4
    <2>5. CASE UNCHANGED Abstract!storeSpecVars
      BY <2>5
    <2>6. QED
      BY <2>3, <2>4, <2>5 DEF StoreStep
  <1>3. QED
    BY <1>1, <1>2, RefinementInvariant, PTL
       DEF Spec, ImplementsReplicatedStore, Abstract!StoreSpec

\* A command that its client retries takes effect once (README.md:299): of its
\* copies in the log, the first one applied is recorded in lastAppliedSeq, and
\* applyCommittedEntries passes over the others (RaftNode.cpp:420-431).
THEOREM CommandsApplyOnce == Spec => [](NothingCompacted => AppliedOnceUnlessImpostor)
  <1>1. ASSUME NEW cs, NEW k \in Nat, \A i \in 1 .. k : cs[i].seq \in Nat,
               NEW i \in 1 .. k, NEW j \in 1 .. k, cs[i] = cs[j], i < j
        PROVE  Abstract!Superseded(cs, j)
    <2>1. i \in 1 .. j - 1 /\ cs[i].client = cs[j].client /\ cs[i].seq >= cs[j].seq
      BY <1>1
    <2>2. QED
      BY <2>1 DEF Abstract!Superseded
  <1>2. ASSUME NEW cs, NEW k \in Nat, \A i \in 1 .. k : cs[i].seq \in Nat,
               NEW x \in Abstract!Effects(cs, k), NEW y \in Abstract!Effects(cs, k), x[2] = y[2]
        PROVE  x = y
    <2>1. PICK i \in 1 .. k : x = <<i, cs[i]>> /\ ~Abstract!Superseded(cs, i)
      BY DEF Abstract!Effects
    <2>2. PICK j \in 1 .. k : y = <<j, cs[j]>> /\ ~Abstract!Superseded(cs, j)
      BY DEF Abstract!Effects
    <2>3. cs[i] = cs[j]
      BY <1>2, <2>1, <2>2
    <2>4. ~(i < j) /\ ~(j < i)
      BY <1>1, <1>2, <2>1, <2>2, <2>3
    <2>5. QED
      BY <2>1, <2>2, <2>4
  <1>3. ASSUME Core, StoreSafe PROVE AppliedOnce
    <2> SUFFICES ASSUME NEW n \in Server, NEW x \in kvStore[n], NEW y \in kvStore[n], x[2] = y[2]
                 PROVE  x = y
      BY DEF AppliedOnce
    <2> DEFINE k == lastApplied[n]
    <2>1. /\ DecidedCommands \in Seq(Command) /\ k <= Len(DecidedCommands)
          /\ kvStore[n] = Abstract!Effects(DecidedCommands, k)
      BY <1>3, DecidedFacts DEF StoreSafe, DecidedOk, Executed
    <2>2. k \in Nat
      BY <1>3, CoreTypes DEF Core, TypeIInv, StoreTypes
    <2>3. \A i \in 1 .. k : DecidedCommands[i].seq \in Nat
      <3>1. \A i \in 1 .. k : DecidedCommands[i] \in Command
        BY <2>1, <2>2
      <3>2. QED
        BY <3>1, CommandAssumption
    <2> HIDE DEF k
    <2>4. QED
      BY <1>2, <2>1, <2>2, <2>3
  <1>4. RefinementInv => (NothingCompacted => AppliedOnceUnlessImpostor)
    BY <1>3, CoreInv DEF RefinementInv, StoresAreSafe, AppliedOnceUnlessImpostor
  <1>5. QED
    BY <1>4, RefinementInvariant, PTL

\* Nodes that applied up to the same index hold the same store, although they may
\* have applied it in different batches (RaftNode.cpp:409-439): where no snapshot
\* discards the log and no deposed leader sends, lastAppliedSeq and the store that
\* it guards never part.
THEOREM StoresAgree == Spec => [](NoImpostor /\ NothingCompacted => SameStore)
  <1>1. RefinementInv => (NoImpostor /\ NothingCompacted => SameStore)
    BY DEF RefinementInv, StoresAreSafe, StoreSafe, Executed, SameStore
  <1>2. QED
    BY <1>1, RefinementInvariant, PTL
=============================================================================
