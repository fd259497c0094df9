----------------------- MODULE ReplicatedStoreProofs -----------------------
(***************************************************************************)
(* What users may rely on once the cluster implements ReplicatedStore, for *)
(* any number of replicas and commands.                                    *)
(***************************************************************************)
EXTENDS ReplicatedStore, TLAPS

\* The inductive invariant: a store holds what is left of the decided commands
\* up to the position that its replica has executed.
StoreInv ==
    /\ decided \in Seq(DecidedCommand)
    /\ executed \in [Replica -> Nat]
    /\ DOMAIN store = Replica
    /\ \A r \in Replica : /\ executed[r] <= Len(decided)
                          /\ store[r] = Effects(decided, executed[r])

\* Replicas that executed equally far hold the same store.
StoresAgree ==
    \A r, s \in Replica : executed[r] = executed[s] => store[r] = store[s]

\* No command takes effect twice in a store, however often it is decided.
EffectOnce ==
    \A r \in Replica : \A x, y \in store[r] : x[2] = y[2] => x = y

\* Commands that are decided later leave the effects of the first k alone.
LEMMA EffectsOfPrefix ==
    ASSUME NEW cs \in Seq(DecidedCommand), NEW ds \in Seq(DecidedCommand),
           Len(cs) <= Len(ds), cs = SubSeq(ds, 1, Len(cs)),
           NEW k \in 0 .. Len(cs)
    PROVE  Effects(ds, k) = Effects(cs, k)
<1>1. \A i \in 1 .. k : cs[i] = ds[i]
    OBVIOUS
<1>2. \A i \in 1 .. k : Superseded(cs, i) <=> Superseded(ds, i)
    BY <1>1 DEF Superseded
<1>. QED
    BY <1>1, <1>2 DEF Effects

\* Initially nothing is decided or executed.
LEMMA InitStoreInv == StoreInit => StoreInv
<1>. SUFFICES ASSUME StoreInit
              PROVE  StoreInv
    OBVIOUS
<1>1. Effects(<<>>, 0) = {}
    BY DEF Effects
<1>. QED
    BY <1>1 DEF StoreInit, StoreInv

\* A replica executes what is decided; the stores of the others stay what they are.
LEMMA NextStoreInv == StoreInv /\ [StoreNext]_storeSpecVars => StoreInv'
<1>. SUFFICES ASSUME StoreInv, [StoreNext]_storeSpecVars
              PROVE  StoreInv'
    OBVIOUS
<1>1. CASE UNCHANGED storeSpecVars
    BY <1>1 DEF storeSpecVars, StoreInv
<1>2. CASE StoreNext
    <2>1. PICK r \in Replica : \E k \in executed[r] .. Len(decided') : Execute(r, k)
        BY <1>2 DEF StoreNext
    <2>2. PICK k \in executed[r] .. Len(decided') : Execute(r, k)
        BY <2>1
    <2>3. /\ decided' \in Seq(DecidedCommand)
          /\ Len(decided) <= Len(decided')
          /\ decided = SubSeq(decided', 1, Len(decided))
        BY <1>2 DEF StoreNext, Decide
    <2>4. k \in Nat /\ k <= Len(decided')
        BY <2>3 DEF StoreInv
    <2>5. executed' \in [Replica -> Nat] /\ DOMAIN store' = Replica
        BY <2>2, <2>4 DEF Execute, StoreInv
    <2>6. ASSUME NEW s \in Replica
          PROVE  executed'[s] <= Len(decided') /\ store'[s] = Effects(decided', executed'[s])
        <3>1. CASE s = r
            BY <2>2, <2>4, <3>1 DEF Execute, StoreInv
        <3>2. CASE s # r
            <4>1. executed'[s] = executed[s] /\ store'[s] = store[s]
                BY <2>2, <3>2 DEF Execute, StoreInv
            <4>2. executed[s] \in 0 .. Len(decided)
                BY DEF StoreInv
            <4>3. Effects(decided', executed[s]) = Effects(decided, executed[s])
                BY <2>3, <4>2, EffectsOfPrefix DEF StoreInv
            <4>. QED
                BY <2>3, <4>1, <4>2, <4>3 DEF StoreInv
        <3>. QED
            BY <3>1, <3>2
    <2>. QED
        BY <2>3, <2>5, <2>6 DEF StoreInv
<1>. QED
    BY <1>1, <1>2

\* The inductive invariant holds in every behaviour.
LEMMA StoreInvHolds == StoreSpec => []StoreInv
<1>. QED
    BY InitStoreInv, NextStoreInv, PTL DEF StoreSpec

\* Replicas that executed the same number of commands hold the same store.
THEOREM StoresAgreeHolds == StoreSpec => []StoresAgree
<1>1. StoreInv => StoresAgree
    BY DEF StoreInv, StoresAgree
<1>. QED
    BY <1>1, StoreInvHolds, PTL

\* A command that is decided twice takes effect once: of two copies the later
\* one repeats the earlier one.
THEOREM EffectOnceHolds ==
    ASSUME \A c \in DecidedCommand : c.seq \in Nat
    PROVE  StoreSpec => []EffectOnce
<1>1. ASSUME NEW cs \in Seq(DecidedCommand), NEW k \in 0 .. Len(cs),
             NEW i \in 1 .. k, NEW j \in 1 .. k,
             cs[i] = cs[j], i < j
      PROVE  Superseded(cs, j)
    <2>1. cs[i] \in DecidedCommand /\ i \in 1 .. j - 1
        BY <1>1
    <2>. QED
        BY <1>1, <2>1 DEF Superseded
<1>2. ASSUME NEW cs \in Seq(DecidedCommand), NEW k \in 0 .. Len(cs),
             NEW x \in Effects(cs, k), NEW y \in Effects(cs, k),
             x[2] = y[2]
      PROVE  x = y
    <2>1. PICK i \in 1 .. k : x = <<i, cs[i]>> /\ ~Superseded(cs, i)
        BY DEF Effects
    <2>2. PICK j \in 1 .. k : y = <<j, cs[j]>> /\ ~Superseded(cs, j)
        BY DEF Effects
    <2>3. cs[i] = cs[j]
        BY <1>2, <2>1, <2>2
    <2>4. ~(i < j) /\ ~(j < i)
        BY <1>1, <2>1, <2>2, <2>3
    <2>. QED
        BY <2>1, <2>2, <2>4
<1>3. StoreInv => EffectOnce
    <2>. SUFFICES ASSUME StoreInv, NEW r \in Replica
                  PROVE  \A x, y \in store[r] : x[2] = y[2] => x = y
        BY DEF EffectOnce
    <2>1. /\ decided \in Seq(DecidedCommand)
          /\ executed[r] \in 0 .. Len(decided)
          /\ store[r] = Effects(decided, executed[r])
        BY DEF StoreInv
    <2>. QED
        BY <1>2, <2>1
<1>. QED
    BY <1>3, StoreInvHolds, PTL
=============================================================================
