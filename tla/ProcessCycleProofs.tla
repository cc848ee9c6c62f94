------------------------- MODULE ProcessCycleProofs -------------------------
(***************************************************************************)
(* Proofs about ProcessCycle, for every ProcessNum, every set of pids and  *)
(* every bound on the environment.                                         *)
(***************************************************************************)
EXTENDS ProcessCycle, FiniteSetTheorems, SequenceTheorems, TLAPS

USE DEF External, Signals, Spawning, Chances

-----------------------------------------------------------------------------
(* Type correctness                                                        *)

LEMMA InitType == Init => TypeOK
BY ProcessNumAssumption, PidsAssumption, SwitchAssumption, BoundAssumption
   DEF Init, TypeOK

LEMMA SpendType ==
    ASSUME TypeOK, NEW what \in Chances,
           Spend(what)
    PROVE  budget' \in [Chances -> Nat]
<1>1. budget \in [Chances -> Nat]
  BY DEF TypeOK
<1>2. budget[what] > 0 /\ budget' = [budget EXCEPT ![what] = @ - 1]
  BY DEF Spend
<1> QED
  BY <1>1, <1>2

LEMMA SignalsFinite == IsFiniteSet(Signals)
<1>1. IsFiniteSet({})
  BY FS_EmptySet
<1>2. IsFiniteSet({"INT"})
  BY <1>1, FS_AddElement, {"INT"} = {} \cup {"INT"}
<1>3. IsFiniteSet({"INT", "QUIT"})
  BY <1>2, FS_AddElement, {"INT", "QUIT"} = {"INT"} \cup {"QUIT"}
<1>4. IsFiniteSet({"INT", "QUIT", "OTHER"})
  BY <1>3, FS_AddElement, {"INT", "QUIT", "OTHER"} = {"INT", "QUIT"} \cup {"OTHER"}
<1> QED
  BY <1>4, FS_AddElement

LEMMA DiesType ==
    ASSUME TypeOK, NEW p \in Pids, Dies(p)
    PROVE  /\ wpc' \in [Pids -> {"none", "forked", "loop", "deaf", "stray", "zombie"}]
           /\ holds' \in [Pids -> SUBSET Pids]
           /\ pending' \subseteq Signals
BY DEF TypeOK, Dies

LEMMA StepType == TypeOK /\ [Next]_vars => TypeOK'
<1> SUFFICES ASSUME TypeOK, [Next]_vars PROVE TypeOK'
  OBVIOUS
<1> USE ProcessNumAssumption, PidsAssumption, BoundAssumption
<1>1. ASSUME NEW s \in Signals, Deliver(s) PROVE TypeOK'
  <2>1. depth' \in [Signals -> Nat]
    <3>2. IsFiniteSet({t \in Signals : at[t] # "idle"})
      BY SignalsFinite, FS_Subset
    <3>3. Cardinality({t \in Signals : at[t] # "idle"}) \in Nat
      BY <3>2, FS_CardinalityType
    <3>4. depth \in [Signals -> Nat]
      BY DEF TypeOK
    <3>5. depth' = [depth EXCEPT ![s] = 1 + Cardinality({t \in Signals : at[t] # "idle"})]
      BY <1>1 DEF Deliver
    <3> QED  BY <3>3, <3>4, <3>5
  <2>2. at' \in [Signals -> {"idle", "tell", "sleep1", "sleep2", "wait", "done"}]
    BY <1>1 DEF TypeOK, Deliver, FirstStep, Interrupted
  <2>3. idx' \in [Signals -> Nat \ {0}]
    <3>1. idx \in [Signals -> Nat \ {0}] /\ idx' = [idx EXCEPT ![s] = 1]
      BY <1>1 DEF TypeOK, Deliver
    <3> QED  BY <3>1
  <2>4. raised' \subseteq Signals \ {"OTHER"} /\ pending' \subseteq Signals
    BY <1>1 DEF TypeOK, Deliver
  <2>5. UNCHANGED <<master, workers, budget, reloads>>
    BY <1>1 DEF Deliver
  <2>6. failed' \subseteq {"spawn", "init", "early"}
    BY <1>1 DEF TypeOK, Deliver
  <2> QED  BY <2>1, <2>2, <2>3, <2>4, <2>5, <2>6 DEF TypeOK, master, workers
<1>2. ASSUME NEW s \in Signals, TellChild(s) PROVE TypeOK'
  <2>1. CASE idx[s] <= Len(slots)
    <3>1. idx' = [idx EXCEPT ![s] = @ + 1] /\ UNCHANGED at
      BY <1>2, <2>1 DEF TellChild
    <3>2. idx' \in [Signals -> Nat \ {0}]
      <4>1. idx \in [Signals -> Nat \ {0}]
        BY DEF TypeOK
      <4> QED  BY <3>1, <4>1
    <3>3. slots[idx[s]] \in Pids \cup {NoPid}
      BY <2>1 DEF TypeOK
    <3>4. told' \subseteq Pids
      BY <1>2, <2>1, <3>3 DEF TypeOK, TellChild
    <3> QED  BY <1>2, <3>1, <3>2, <3>4 DEF TypeOK, TellChild, master
  <2>2. CASE ~(idx[s] <= Len(slots))
    BY <1>2, <2>2 DEF TypeOK, TellChild, master
  <2> QED  BY <2>1, <2>2
<1>3. ASSUME NEW s \in Signals, HandlerReturns(s) PROVE TypeOK'
  BY <1>3 DEF TypeOK, HandlerReturns, workers
<1>4. CASE SleepElapses
  BY <1>4 DEF TypeOK, SleepElapses, master, workers
<1>5. CASE ReapDone
  BY <1>5 DEF TypeOK, ReapDone, master, workers
<1>6. ASSUME NEW p \in Pids, ReapChild(p) PROVE TypeOK'
  <2>1. slots' \in Seq(Pids \cup {NoPid})
    <3>1. \A i \in 1 .. Len(slots) : slots'[i] \in Pids \cup {NoPid}
      BY <1>6 DEF TypeOK, ReapChild
    <3>2. slots' = [i \in 1 .. Len(slots) |-> slots'[i]]
      BY <1>6 DEF TypeOK, ReapChild
    <3>3. Len(slots) \in Nat
      BY DEF TypeOK
    <3> QED  BY <3>1, <3>2, <3>3
  <2> QED  BY <1>6, <2>1 DEF TypeOK, ReapChild, handler
<1>7. ASSUME NEW p \in Pids, Spawn(p) PROVE TypeOK'
  <2>1. slots' \in Seq(Pids \cup {NoPid})
    <3>1. CASE slots' = Append(slots, p)
      BY <3>1 DEF TypeOK
    <3>2. ASSUME NEW i \in DOMAIN slots, slots' = [slots EXCEPT ![i] = p]
          PROVE  slots' \in Seq(Pids \cup {NoPid})
      <4>0. slots \in Seq(Pids \cup {NoPid})
        BY DEF TypeOK
      <4>1. DOMAIN slots = 1 .. Len(slots)
        BY <4>0
      <4>2. [slots EXCEPT ![i] = p] \in Seq(Pids \cup {NoPid})
        BY <4>0, <4>1, ExceptSeq
      <4> QED  BY <3>2, <4>2
    <3> QED  BY <1>7, <3>1, <3>2 DEF Spawn, Occupy
  <2> QED  BY <1>7, <2>1 DEF TypeOK, Spawn, Children, handler
<1>8. CASE BlockSignals
  BY <1>8 DEF TypeOK, BlockSignals, handler, workers
<1>9. CASE SpawnFails
  <2>1. budget' \in [Chances -> Nat]
    BY <1>9, SpendType DEF TypeOK, SpawnFails, Chances
  <2>2. left' \in 0 .. ProcessNum
    BY <1>9 DEF TypeOK, SpawnFails
  <2>3. failed' = failed \cup {"spawn"} /\ UNCHANGED <<handler, mpc, slots, workers, reloads>>
    BY <1>9 DEF SpawnFails
  <2> QED  BY <2>1, <2>2, <2>3 DEF TypeOK, handler, workers
<1>10. CASE SpawningDone
  BY <1>10 DEF TypeOK, SpawningDone, workers
<1>11. CASE Wake
  <2>1. CASE MasterExits /\ UNCHANGED budget
    BY <2>1 DEF TypeOK, MasterExits, handler
  <2>2. CASE /\ mpc' = "reload" /\ left' = ProcessNum /\ reloads' = reloads + 1
             /\ UNCHANGED <<handler, slots, workers, budget, failed>>
    BY <2>2 DEF TypeOK, handler, workers
  <2>3. CASE /\ mpc' = "recheck"
             /\ UNCHANGED <<handler, left, slots, workers, budget, failed, reloads>>
    BY <2>3 DEF TypeOK, handler, workers
  <2> QED  BY <1>11, <2>1, <2>2, <2>3 DEF Wake
<1>12. CASE Recheck
  <2>1. IsFiniteSet(Occupied)
    <3>1. Len(slots) \in Nat /\ DOMAIN slots = 1 .. Len(slots)
      BY DEF TypeOK
    <3>2. IsFiniteSet(DOMAIN slots)
      BY <3>1, FS_Interval
    <3> QED  BY <3>2, FS_Subset DEF Occupied
  <2>2. Cardinality(Occupied) \in Nat
    BY <2>1, FS_CardinalityType
  <2>3. left' \in 0 .. ProcessNum
    <3> DEFINE n == Cardinality(Occupied)
    <3>1. left' = left \/ left' = 0 \/ (n < ProcessNum /\ left' = ProcessNum - n)
      BY <1>12 DEF Recheck
    <3>2. n \in Nat /\ left \in 0 .. ProcessNum
      BY <2>2 DEF TypeOK
    <3> HIDE DEF n
    <3> QED  BY <3>1, <3>2
  <2>4. mpc' \in {"respawn", "suspend"}
    BY <1>12 DEF Recheck
  <2> QED  BY <1>12, <2>3, <2>4 DEF TypeOK, Recheck, handler, workers
<1>13. ASSUME NEW p \in Pids, WorkerStep(p) PROVE TypeOK'
  <2>1. CASE WorkerInit(p)
    <3>1. CASE Dies(p)
      BY <2>1, <3>1, DiesType DEF TypeOK, WorkerInit, Dies, master
    <3>2. CASE /\ wpc' = [wpc EXCEPT ![p] = "loop"]
               /\ holds' = [holds EXCEPT ![p] = {}]
               /\ UNCHANGED <<handler, master, told, reloads>>
      <4>1. UNCHANGED <<budget, failed>>
        BY <2>1 DEF WorkerInit
      <4> QED  BY <3>2, <4>1 DEF TypeOK, handler, master
    <3> QED  BY <2>1, <3>1, <3>2 DEF WorkerInit
  <2>2. CASE WorkerInitFails(p)
    BY <2>2, SpendType DEF TypeOK, WorkerInitFails, handler, master
  <2>3. CASE WorkerQuits(p)
    BY <2>3, DiesType DEF TypeOK, WorkerQuits, Dies, handler, master
  <2>4. CASE WorkerHup(p)
    BY <2>4 DEF TypeOK, WorkerHup, handler, master
  <2> QED  BY <1>13, <2>1, <2>2, <2>3, <2>4 DEF WorkerStep
<1>14. CASE Environment
  <2>1. ASSUME NEW s \in External, SendSignal(s) PROVE TypeOK'
    BY <2>1, SpendType DEF TypeOK, SendSignal, master, workers
  <2>2. ASSUME NEW p \in Pids, WorkerCrashes(p) PROVE TypeOK'
    BY <2>2, DiesType, SpendType DEF TypeOK, WorkerCrashes, Dies, handler, master
  <2>3. CASE MasterKilled
    BY <2>3, SpendType DEF TypeOK, MasterKilled, MasterExits, handler, workers
  <2> QED  BY <1>14, <2>1, <2>2, <2>3 DEF Environment
<1>15. CASE UNCHANGED vars
  BY <1>15 DEF TypeOK, vars, handler, master, workers
<1> QED
  BY <1>1, <1>2, <1>3, <1>4, <1>5, <1>6, <1>7, <1>8, <1>9, <1>10, <1>11,
     <1>12, <1>13, <1>14, <1>15 DEF Next, MasterStep

(* Every variable keeps its type (the state of the whole process tree).    *)
THEOREM TypeCorrect == Spec => []TypeOK
BY InitType, StepType, PTL DEF Spec

-----------------------------------------------------------------------------
(* What the operations do to the set of children                           *)

LEMMA SlotsDomain ==
    ASSUME TypeOK
    PROVE  /\ slots \in Seq(Pids \cup {NoPid})
           /\ Len(slots) \in Nat
           /\ DOMAIN slots = 1 .. Len(slots)
           /\ \A i \in DOMAIN slots : slots[i] \in Pids \cup {NoPid}
BY SMTT(20) DEF TypeOK

LEMMA ChildrenFinite ==
    /\ IsFiniteSet(Children) /\ Cardinality(Children) \in Nat
    /\ IsFiniteSet(Untold) /\ Cardinality(Untold) \in Nat
    /\ Cardinality(Untold) <= Cardinality(Children)
<1>1. IsFiniteSet(Children)
  BY PidsAssumption, FS_Subset DEF Children
<1>2. Untold \subseteq Children
  BY DEF Untold
<1> QED
  BY <1>1, <1>2, FS_Subset, FS_CardinalityType

(* A spawn adds its pid to one slot and changes no other.                  *)
LEMMA SpawnSlots ==
    ASSUME TypeOK, NEW p \in Pids, Occupy(p)
    PROVE  \E k \in DOMAIN slots' :
              /\ slots'[k] = p
              /\ k \in DOMAIN slots => slots[k] = NoPid
              /\ DOMAIN slots' = DOMAIN slots \cup {k}
              /\ \A i \in DOMAIN slots \ {k} : slots'[i] = slots[i]
<1>1. CASE slots' = Append(slots, p)
  <2>1. /\ Len(slots') = Len(slots) + 1
        /\ DOMAIN slots' = 1 .. Len(slots) + 1
        /\ slots'[Len(slots) + 1] = p
        /\ \A i \in DOMAIN slots : slots'[i] = slots[i]
    BY <1>1, SlotsDomain
  <2> QED  BY <2>1, SlotsDomain
<1>2. CASE \E i \in DOMAIN slots : slots[i] = NoPid /\ slots' = [slots EXCEPT ![i] = p]
  <2>1. PICK i \in DOMAIN slots : slots[i] = NoPid /\ slots' = [slots EXCEPT ![i] = p]
    BY <1>2
  <2>2. /\ slots'[i] = p
        /\ DOMAIN slots' = DOMAIN slots
        /\ \A j \in DOMAIN slots \ {i} : slots'[j] = slots[j]
    BY <2>1, SlotsDomain
  <2>3. i \in DOMAIN slots' /\ DOMAIN slots' = DOMAIN slots \cup {i}
    BY <2>2
  <2> QED  BY <2>1, <2>2, <2>3
<1>3. \/ slots' = Append(slots, p)
      \/ \E i \in DOMAIN slots : slots[i] = NoPid /\ slots' = [slots EXCEPT ![i] = p]
  BY DEF Occupy
<1> QED
  BY <1>1, <1>2, <1>3

LEMMA SpawnChildren ==
    ASSUME TypeOK, NEW p \in Pids, Occupy(p)
    PROVE  Children' = Children \cup {p}
<1>1. PICK k \in DOMAIN slots' :
              /\ slots'[k] = p
              /\ k \in DOMAIN slots => slots[k] = NoPid
              /\ DOMAIN slots' = DOMAIN slots \cup {k}
              /\ \A i \in DOMAIN slots \ {k} : slots'[i] = slots[i]
  BY SpawnSlots
<1>2. ASSUME NEW q \in Children PROVE q \in Children'
  <2>1. PICK i \in DOMAIN slots : slots[i] = q
    BY DEF Children
  <2>2. i # k
    BY <1>1, <2>1, PidsAssumption DEF Children
  <2> QED  BY <1>1, <2>1, <2>2 DEF Children
<1>3. ASSUME NEW q \in Children' PROVE q \in Children \cup {p}
  BY <1>1 DEF Children
<1> QED
  BY <1>1, <1>2, <1>3 DEF Children

LEMMA ReapChildren ==
    ASSUME TypeOK, NEW p \in Pids, ReapChild(p)
    PROVE  /\ DOMAIN slots' = DOMAIN slots
           /\ \A i \in DOMAIN slots : slots'[i] = IF slots[i] = p THEN NoPid ELSE slots[i]
           /\ Children' = Children \ {p}
<1>1. /\ DOMAIN slots' = DOMAIN slots
      /\ \A i \in DOMAIN slots : slots'[i] = IF slots[i] = p THEN NoPid ELSE slots[i]
  BY DEF ReapChild
<1> QED
  BY <1>1, PidsAssumption DEF Children

-----------------------------------------------------------------------------
(* The inductive invariant                                                 *)

LEMMA InitInv == ~StartWindow /\ Init => PoolInv
<1> SUFFICES ASSUME ~StartWindow, Init PROVE PoolInv
  OBVIOUS
<1>1. Children = {} /\ Untold = {}
  BY DEF Init, Children, Untold
<1>2. Cardinality(Untold) = 0
  BY <1>1, FS_EmptySet
<1>3. MainLine
  BY DEF Init, MainLine, Idle
<1>4. TellLoops /\ ExitTold
  BY <1>1 DEF Init, TellLoops, ExitTold
<1>5. Room
  BY <1>2, ProcessNumAssumption DEF Init, Room
<1>6. SlotsMatchChildren
  BY <1>1 DEF Init, SlotsMatchChildren
<1> QED
  BY <1>1, <1>3, <1>4, <1>5, <1>6 DEF Init, PoolInv

(* A step that leaves the master's table and its handlers alone.           *)
LEMMA QuietStep ==
    ASSUME PoolInv,
           UNCHANGED <<mpc, left, slots, told, raised, at, idx>>,
           Alive => \A p \in Pids : wpc[p] = "none" <=> wpc'[p] = "none"
    PROVE  PoolInv'
<1>1. Children' = Children /\ Untold' = Untold /\ (Alive <=> Alive')
  BY DEF Children, Untold, Alive
<1>2. MainLine'
  BY DEF PoolInv, MainLine, Idle
<1>3. TellLoops' /\ ExitTold'
  BY <1>1 DEF PoolInv, TellLoops, ExitTold
<1>4. Room'
  BY <1>1 DEF PoolInv, Room
<1>5. SlotsMatchChildren'
  BY <1>1 DEF PoolInv, SlotsMatchChildren
<1> QED
  BY <1>1, <1>2, <1>3, <1>4, <1>5 DEF PoolInv

(* A step of a handler that leaves the table and what was told alone.      *)
LEMMA HandlerStep ==
    ASSUME PoolInv, UNCHANGED <<left, slots, told, wpc>>,
           (Alive <=> Alive'), mpc' \in Spawning => mpc \in Spawning,
           MainLine', TellLoops', ExitTold'
    PROVE  PoolInv'
<1>1. Children' = Children /\ Untold' = Untold
  BY DEF Children, Untold
<1>2. Room'
  BY <1>1 DEF PoolInv, Room
<1>3. SlotsMatchChildren'
  BY <1>1 DEF PoolInv, SlotsMatchChildren
<1> QED
  BY <1>1, <1>2, <1>3 DEF PoolInv

LEMMA DiesQuiet ==
    ASSUME TypeOK, PoolInv, NEW p \in Pids, Dies(p), wpc[p] # "none"
    PROVE  PoolInv'
<1>1. UNCHANGED <<mpc, left, slots, told, raised, at, idx>>
  BY DEF Dies, master
<1>2. Alive => \A q \in Pids : wpc[q] = "none" <=> wpc'[q] = "none"
  BY DEF Dies, TypeOK
<1> QED
  BY <1>1, <1>2, QuietStep

LEMMA DeliverInv ==
    ASSUME TypeOK, PoolInv, NEW s \in Signals, Deliver(s)
    PROVE  PoolInv'
<1>1. UNCHANGED <<mpc, left, slots, told, wpc>> /\ mpc \in {"boot", "suspend"}
  BY DEF Deliver, master, workers
<1>2. Untold' = Untold
  BY <1>1 DEF Children, Untold
<1>3. MainLine'
  BY <1>1 DEF PoolInv, MainLine
<1>4. ASSUME NEW t \in {"INT", "QUIT"}
      PROVE  /\ at'[t] = "tell" => \A j \in DOMAIN slots' :
                    j < idx'[t] /\ slots'[j] # NoPid => slots'[j] \in told'
             /\ at'[t] \in {"sleep1", "sleep2", "done"} => Untold' = {}
             /\ t \in raised' /\ at'[t] = "idle" /\ mpc' \in {"suspend", "woken"}
                    => Untold' = {}
  <2>1. CASE t = s
    <3>1. at'[t] = "tell" /\ idx'[t] = 1
      BY <2>1 DEF Deliver, FirstStep, TypeOK
    <3> QED  BY <1>1, <3>1, SlotsDomain
  <2>2. CASE t # s
    <3>1. /\ \/ at'[t] = at[t]
             \/ at[t] \in {"sleep1", "sleep2"} /\ at'[t] \in {"sleep2", "done"}
          /\ idx'[t] = idx[t] /\ (t \in raised' <=> t \in raised)
      <4>1. at'[t] = Interrupted(t)
        BY <2>2 DEF Deliver
      <4>2. idx'[t] = idx[t] /\ (t \in raised' <=> t \in raised)
        BY <2>2 DEF Deliver, TypeOK
      <4>3. \/ Interrupted(t) = at[t]
            \/ at[t] \in {"sleep1", "sleep2"} /\ Interrupted(t) \in {"sleep2", "done"}
        BY Zenon DEF Interrupted
      <4> QED  BY <4>1, <4>2, <4>3
    <3> QED  BY <1>1, <1>2, <3>1 DEF PoolInv, TellLoops
  <2> QED  BY <2>1, <2>2
<1>5. TellLoops'
  BY <1>4 DEF TellLoops
<1>6. ExitTold'
  BY <1>1 DEF ExitTold
<1> QED
  BY <1>1, <1>3, <1>5, <1>6, HandlerStep DEF Alive

LEMMA TellChildInv ==
    ASSUME TypeOK, PoolInv, NEW s \in Signals, TellChild(s)
    PROVE  PoolInv'
<1>1. UNCHANGED <<mpc, left, slots, wpc, raised>> /\ Children' = Children
  BY DEF TellChild, master, Children
<1>2. at[s] = "tell" /\ ~Idle /\ mpc \in {"suspend"}
  BY DEF TellChild, PoolInv, MainLine, Idle, Alive, TypeOK
<1>3. CASE idx[s] <= Len(slots)
  <2>1. /\ idx' = [idx EXCEPT ![s] = @ + 1] /\ at' = at
        /\ told' = IF slots[idx[s]] # NoPid THEN told \cup {slots[idx[s]]} ELSE told
    BY <1>3 DEF TellChild
  <2>2. Untold' \subseteq Untold /\ told \subseteq told'
    BY <1>1, <2>1 DEF Untold
  <2>3. told' \subseteq Children'
    <3>1. idx[s] \in DOMAIN slots
      BY <1>3, SlotsDomain DEF TypeOK
    <3> QED  BY <1>1, <2>1, <3>1, SlotsDomain DEF PoolInv, Children
  <2>4. Cardinality(Untold') <= Cardinality(Untold) /\ Cardinality(Untold') \in Nat
    BY <2>2, ChildrenFinite, FS_Subset, FS_CardinalityType
  <2>5. Room'
    BY <1>1, <1>2, <2>4, ChildrenFinite, ProcessNumAssumption DEF PoolInv, Room
  <2>6. MainLine'
    BY <1>1, <2>1 DEF PoolInv, MainLine, Idle
  <2>7. TellLoops'
    <3>1. ASSUME NEW t \in {"INT", "QUIT"}, at[t] = "tell", NEW j \in DOMAIN slots,
                 j < idx'[t], slots[j] # NoPid
          PROVE  slots[j] \in told'
      <4>1. j < idx[t] \/ (t = s /\ j = idx[s])
        <5>1. idx \in [Signals -> Nat \ {0}] /\ s \in Signals /\ t \in Signals
          BY DEF TypeOK, Signals, External
        <5>2. idx[t] \in Nat /\ idx[s] \in Nat /\ j \in Nat
          BY <5>1, SlotsDomain
        <5>3. idx'[t] = IF t = s THEN idx[s] + 1 ELSE idx[t]
          BY <2>1, <5>1
        <5> QED  BY <3>1, <5>2, <5>3
      <4> QED  BY <2>1, <2>2, <3>1, <4>1 DEF PoolInv, TellLoops
    <3> QED  BY <1>1, <2>1, <2>2, <3>1 DEF PoolInv, TellLoops
  <2>8. ExitTold'
    BY <1>1, <1>2 DEF ExitTold
  <2>9. SlotsMatchChildren'
    BY <1>1 DEF PoolInv, SlotsMatchChildren, Alive
  <2> QED  BY <2>3, <2>5, <2>6, <2>7, <2>8, <2>9 DEF PoolInv
<1>4. CASE ~(idx[s] <= Len(slots))
  <2>1. /\ at' = [at EXCEPT ![s] = IF s = "QUIT" THEN "sleep1" ELSE "done"]
        /\ UNCHANGED <<told, idx>>
    BY <1>4 DEF TellChild
  <2>2. Untold' = Untold
    BY <1>1, <2>1 DEF Untold
  <2>3. s \in {"INT", "QUIT"} => Untold = {}
    <3> SUFFICES ASSUME s \in {"INT", "QUIT"}, NEW p \in Children PROVE p \in told
      BY DEF Untold
    <3>1. PICK j \in DOMAIN slots : slots[j] = p
      BY DEF Children
    <3>2. j < idx[s] /\ slots[j] # NoPid
      BY <1>4, <3>1, SlotsDomain, PidsAssumption, SMTT(20) DEF TypeOK, Children
    <3> QED  BY <1>2, <3>1, <3>2 DEF PoolInv, TellLoops
  <2>4. MainLine'
    BY <1>1, <1>2 DEF PoolInv, MainLine
  <2>5. TellLoops'
    <3>1. ASSUME NEW t \in {"INT", "QUIT"}
          PROVE  at'[t] = at[t] \/ (Untold' = {} /\ at'[t] \in {"sleep1", "done"})
      <4>1. CASE t = s
        BY <2>1, <2>2, <2>3, <4>1 DEF TypeOK
      <4>2. CASE t # s
        <5>1. t \in DOMAIN at
          BY DEF TypeOK
        <5> QED  BY <2>1, <4>2, <5>1, Zenon
      <4> QED  BY <4>1, <4>2
    <3> QED  BY <1>1, <2>1, <2>2, <3>1 DEF PoolInv, TellLoops
  <2>6. ExitTold'
    BY <1>1, <1>2 DEF ExitTold
  <2> QED  BY <1>1, <2>1, <2>4, <2>5, <2>6, HandlerStep DEF Alive
<1> QED
  BY <1>3, <1>4

LEMMA SleepElapsesInv ==
    ASSUME TypeOK, PoolInv, SleepElapses
    PROVE  PoolInv'
<1>1. UNCHANGED <<mpc, left, slots, told, wpc, raised, idx>> /\ Untold' = Untold
  BY DEF SleepElapses, master, workers, Children, Untold
<1>2. at["QUIT"] \in {"sleep1", "sleep2"} /\ mpc = "suspend"
  BY DEF SleepElapses, PoolInv, MainLine, Idle, Alive, TypeOK
<1>3. at' = [at EXCEPT !["QUIT"] = IF @ = "sleep1" THEN "sleep2" ELSE "done"]
  BY DEF SleepElapses
<1>4. at'["QUIT"] \in {"sleep2", "done"} /\ at'["INT"] = at["INT"]
  BY <1>3 DEF TypeOK
<1>5. Untold = {}
  BY <1>2 DEF PoolInv, TellLoops
<1>6. MainLine'
  BY <1>1, <1>2 DEF PoolInv, MainLine
<1>7. TellLoops' /\ ExitTold'
  BY <1>1, <1>2, <1>4, <1>5 DEF PoolInv, TellLoops, ExitTold
<1> QED
  BY <1>1, <1>2, <1>6, <1>7, HandlerStep DEF Alive

LEMMA ReapChildInv ==
    ASSUME TypeOK, PoolInv, NEW p \in Pids, ReapChild(p)
    PROVE  PoolInv'
<1>1. UNCHANGED <<mpc, left, raised, at, idx>> /\ told' = told \ {p}
  BY DEF ReapChild, handler
<1>2. mpc = "suspend"
  BY DEF ReapChild, PoolInv, MainLine, Idle, Alive, TypeOK
<1>3. /\ DOMAIN slots' = DOMAIN slots
      /\ \A i \in DOMAIN slots : slots'[i] = IF slots[i] = p THEN NoPid ELSE slots[i]
      /\ Children' = Children \ {p}
  BY ReapChildren
<1>4. Untold' \subseteq Untold
  BY <1>1, <1>3 DEF Untold
<1>5. Cardinality(Untold') <= Cardinality(Untold) /\ Cardinality(Untold') \in Nat
  BY <1>4, ChildrenFinite, FS_Subset, FS_CardinalityType
<1>6. Room'
  BY <1>1, <1>2, <1>5, ChildrenFinite, ProcessNumAssumption DEF PoolInv, Room
<1>7. MainLine'
  BY <1>1 DEF PoolInv, MainLine, Idle
<1>8. TellLoops' /\ ExitTold'
  BY <1>1, <1>2, <1>3, <1>4 DEF PoolInv, TellLoops, ExitTold
<1>9. SlotsMatchChildren'
  <2>1. \A i, j \in DOMAIN slots' : slots'[i] = slots'[j] /\ slots'[i] # NoPid => i = j
    BY <1>3 DEF PoolInv, SlotsMatchChildren
  <2>2. \A q \in Pids : wpc'[q] # "none" <=> q \in Children'
    <3>1. wpc' = [wpc EXCEPT ![p] = "none"] /\ Alive
      BY DEF ReapChild
    <3> QED  BY <1>3, <3>1 DEF PoolInv, SlotsMatchChildren, TypeOK
  <2> QED  BY <2>1, <2>2 DEF SlotsMatchChildren
<1> QED
  BY <1>1, <1>3, <1>6, <1>7, <1>8, <1>9 DEF PoolInv

LEMMA HandlerReturnsInv ==
    ASSUME TypeOK, PoolInv, NEW s \in Signals, HandlerReturns(s)
    PROVE  PoolInv'
<1>1. UNCHANGED <<left, slots, told, wpc, raised, idx>> /\ Untold' = Untold
  BY DEF HandlerReturns, workers, Children, Untold
<1>2. mpc = "suspend" /\ at[s] = "done" /\ at' = [at EXCEPT ![s] = "idle"]
  BY DEF HandlerReturns, PoolInv, MainLine, Idle, Alive, TypeOK
<1>3. mpc' = IF \A t \in Signals \ {s} : at[t] = "idle" THEN "woken" ELSE "suspend"
  BY <1>2 DEF HandlerReturns
<1>4. mpc' \in {"suspend", "woken"}
  BY <1>3
<1>5. MainLine'
  <2>1. mpc' = "woken" => Idle'
    BY <1>2, <1>3 DEF Idle, TypeOK
  <2> QED  BY <1>4, <2>1 DEF MainLine
<1>6. TellLoops'
  BY <1>1, <1>2, <1>4 DEF PoolInv, TellLoops, TypeOK
<1>7. ExitTold'
  BY <1>4 DEF ExitTold
<1> QED
  BY <1>1, <1>2, <1>4, <1>5, <1>6, <1>7, HandlerStep DEF Alive

LEMMA ReapDoneInv ==
    ASSUME TypeOK, PoolInv, ReapDone
    PROVE  PoolInv'
<1>1. UNCHANGED <<mpc, left, slots, told, wpc, raised, idx>>
  BY DEF ReapDone, master, workers
<1>2. mpc = "suspend" /\ at'["QUIT"] = at["QUIT"] /\ at'["INT"] = at["INT"]
  BY DEF ReapDone, PoolInv, MainLine, Idle, Alive, TypeOK
<1>3. Untold' = Untold
  BY <1>1 DEF Children, Untold
<1>4. MainLine'
  BY <1>1, <1>2 DEF PoolInv, MainLine
<1>5. TellLoops' /\ ExitTold'
  BY <1>1, <1>2, <1>3 DEF PoolInv, TellLoops, ExitTold
<1> QED
  BY <1>1, <1>2, <1>4, <1>5, HandlerStep DEF Alive

LEMMA SpawnInv ==
    ASSUME TypeOK, PoolInv, NEW p \in Pids, Spawn(p)
    PROVE  PoolInv'
<1>1. /\ UNCHANGED <<mpc, told, raised, at, idx>> /\ Occupy(p)
      /\ left' = left - 1 /\ left > 0 /\ wpc[p] = "none"
      /\ wpc' = [wpc EXCEPT ![p] = "forked"]
  BY DEF Spawn, handler
<1>2. mpc \in Spawning /\ Idle /\ Alive
  BY DEF Spawn, PoolInv, MainLine, Alive
<1>3. PICK k \in DOMAIN slots' :
              /\ slots'[k] = p
              /\ k \in DOMAIN slots => slots[k] = NoPid
              /\ DOMAIN slots' = DOMAIN slots \cup {k}
              /\ \A i \in DOMAIN slots \ {k} : slots'[i] = slots[i]
  BY <1>1, SpawnSlots
<1>4. Children' = Children \cup {p} /\ p \notin Children
  BY <1>1, <1>2, SpawnChildren DEF PoolInv, SlotsMatchChildren
<1>5. Untold' \subseteq Untold \cup {p}
  BY <1>1, <1>4 DEF Untold
<1>6. Cardinality(Untold') <= Cardinality(Untold) + 1 /\ Cardinality(Untold') \in Nat
  <2>1. IsFiniteSet(Untold \cup {p}) /\ Cardinality(Untold \cup {p}) <= Cardinality(Untold) + 1
    <3>1. /\ IsFiniteSet(Untold \cup {p})
          /\ Cardinality(Untold \cup {p}) =
                IF p \in Untold THEN Cardinality(Untold) ELSE Cardinality(Untold) + 1
      BY ChildrenFinite, FS_AddElement
    <3> HIDE DEF Untold
    <3> QED  BY <3>1, ChildrenFinite
  <2>2. Cardinality(Untold \cup {p}) \in Nat
    BY <2>1, FS_CardinalityType
  <2>3. IsFiniteSet(Untold') /\ Cardinality(Untold') <= Cardinality(Untold \cup {p})
    BY <1>5, <2>1, FS_Subset
  <2>4. Cardinality(Untold') \in Nat
    BY <2>3, FS_CardinalityType
  <2> QED  BY <2>1, <2>2, <2>3, <2>4, ChildrenFinite
<1>7. Room'
  <2>1. left \in Nat /\ ProcessNum \in Nat
    BY ProcessNumAssumption DEF TypeOK
  <2>2. Cardinality(Untold) + left <= ProcessNum
    BY <1>2 DEF PoolInv, Room
  <2> QED  BY <1>1, <1>6, <2>1, <2>2, ChildrenFinite DEF Room
<1>8. MainLine'
  BY <1>1 DEF PoolInv, MainLine, Idle
<1>9. TellLoops' /\ ExitTold'
  BY <1>1, <1>2 DEF TellLoops, ExitTold, Idle
<1>10. SlotsMatchChildren'
  <2>1. ASSUME NEW i \in DOMAIN slots', NEW j \in DOMAIN slots',
               slots'[i] = slots'[j], slots'[i] # NoPid
        PROVE  i = j
    <3>1. \A m \in DOMAIN slots : slots[m] # p
      BY <1>4 DEF Children
    <3> QED  BY <1>3, <2>1, <3>1 DEF PoolInv, SlotsMatchChildren
  <2>2. \A q \in Pids : wpc'[q] # "none" <=> q \in Children'
    BY <1>1, <1>2, <1>4 DEF PoolInv, SlotsMatchChildren, TypeOK
  <2> QED  BY <2>1, <2>2 DEF SlotsMatchChildren
<1>11. told' \subseteq Children'
  BY <1>1, <1>4 DEF PoolInv
<1> QED
  BY <1>7, <1>8, <1>9, <1>10, <1>11 DEF PoolInv

(* A step of the main line that forks nothing.                             *)
LEMMA MainLineStep ==
    ASSUME PoolInv, UNCHANGED <<slots, told, at, idx>>, Alive,
           Alive' => \A p \in Pids : wpc[p] = "none" <=> wpc'[p] = "none",
           Idle, MainLine', ExitTold',
           \A s \in {"INT", "QUIT"} :
               s \in raised' /\ mpc' \in {"suspend", "woken"} => Untold = {},
           mpc' \in Spawning => Cardinality(Untold) + left' <= ProcessNum
    PROVE  PoolInv'
<1>1. Children' = Children /\ Untold' = Untold
  BY DEF Children, Untold
<1>2. TellLoops'
  BY <1>1 DEF TellLoops, Idle
<1>3. Room'
  BY <1>1 DEF PoolInv, Room
<1>4. SlotsMatchChildren'
  BY <1>1 DEF PoolInv, SlotsMatchChildren, Alive
<1> QED
  BY <1>1, <1>2, <1>3, <1>4 DEF PoolInv

LEMMA SpawnFailsInv ==
    ASSUME TypeOK, PoolInv, SpawnFails
    PROVE  PoolInv'
<1>1. UNCHANGED <<mpc, slots, told, at, idx, raised, wpc>>
  BY DEF SpawnFails, handler, workers
<1>2. mpc \in Spawning /\ Alive /\ Idle
  BY DEF SpawnFails, PoolInv, MainLine, Alive
<1>3. left' \in Nat /\ left' <= left /\ left \in Nat
  BY DEF SpawnFails, TypeOK
<1>4. Cardinality(Untold) + left' <= ProcessNum
  <2>1. Cardinality(Untold) + left <= ProcessNum
    BY <1>2 DEF PoolInv, Room
  <2> QED  BY <1>3, <2>1, ChildrenFinite, ProcessNumAssumption
<1>5. MainLine'
  BY <1>1 DEF PoolInv, MainLine, Idle
<1>6. ExitTold'
  BY <1>1, <1>2 DEF ExitTold
<1> QED
  BY <1>1, <1>2, <1>4, <1>5, <1>6, MainLineStep

LEMMA SpawningDoneInv ==
    ASSUME TypeOK, PoolInv, SpawningDone
    PROVE  PoolInv'
<1>1. UNCHANGED <<slots, told, at, idx, wpc>>
  BY DEF SpawningDone, workers
<1>2. mpc \in Spawning /\ Alive /\ Idle /\ "QUIT" \notin raised
  BY DEF SpawningDone, PoolInv, MainLine, Alive
<1>3. mpc' = (IF mpc = "reload" THEN "recheck" ELSE "suspend")
  BY DEF SpawningDone
<1>4. raised' \subseteq raised /\ "INT" \notin raised'
  <2>1. CASE mpc = "start"
    BY <2>1 DEF SpawningDone, PoolInv, MainLine
  <2>2. CASE mpc = "reload"
    BY <2>2 DEF SpawningDone
  <2>3. CASE mpc = "respawn"
    BY <2>3 DEF SpawningDone, PoolInv, MainLine
  <2> QED  BY <1>2, <2>1, <2>2, <2>3
<1>5. MainLine'
  BY <1>1, <1>2, <1>3, <1>4 DEF MainLine, Idle
<1>6. ExitTold'
  BY <1>3 DEF ExitTold
<1> QED
  BY <1>1, <1>2, <1>3, <1>4, <1>5, <1>6, MainLineStep

LEMMA WakeInv ==
    ASSUME TypeOK, PoolInv, Wake
    PROVE  PoolInv'
<1>1. UNCHANGED <<slots, told, at, idx, raised>> /\ mpc = "woken" /\ Alive
  BY DEF Wake, MasterExits, handler, workers, Alive
<1>2. Idle /\ \A s \in {"INT", "QUIT"} : s \in raised => Untold = {}
  BY <1>1 DEF PoolInv, MainLine, TellLoops, Idle
<1>3. CASE MasterExits
  <2>1. mpc' = "exited"
    BY <1>3 DEF MasterExits
  <2>2. ExitTold' /\ MainLine'
    BY <1>1, <1>2, <2>1 DEF ExitTold, MainLine, Children, Untold
  <2> QED  BY <1>1, <1>2, <2>1, <2>2, MainLineStep DEF Alive
<1>4. CASE /\ "QUIT" \notin raised /\ "INT" \in raised
           /\ mpc' = "reload" /\ left' = ProcessNum /\ UNCHANGED workers
  <2>1. Cardinality(Untold) = 0
    BY <1>2, <1>4, FS_EmptySet
  <2>2. Cardinality(Untold) + left' <= ProcessNum
    BY <1>4, <2>1, ProcessNumAssumption
  <2>3. MainLine' /\ ExitTold'
    BY <1>1, <1>2, <1>4 DEF MainLine, ExitTold, Idle
  <2> QED  BY <1>1, <1>2, <1>4, <2>2, <2>3, MainLineStep DEF workers
<1>5. CASE /\ raised \cap {"INT", "QUIT"} = {}
           /\ mpc' = "recheck" /\ UNCHANGED workers
  <2>1. MainLine' /\ ExitTold'
    BY <1>1, <1>2, <1>5 DEF MainLine, ExitTold, Idle
  <2> QED  BY <1>1, <1>2, <1>5, <2>1, MainLineStep DEF workers
<1> QED
  BY <1>3, <1>4, <1>5 DEF Wake

(* At least as many slots are occupied as there are children.              *)
LEMMA OccupiedSlots ==
    ASSUME TypeOK
    PROVE  LET n == Cardinality(Occupied)
           IN  n \in Nat /\ Cardinality(Children) <= n
<1> DEFINE f == [i \in Occupied |-> slots[i]]
<1>1. IsFiniteSet(Occupied)
  <2>1. IsFiniteSet(DOMAIN slots)
    BY SlotsDomain, FS_Interval
  <2> QED  BY <2>1, FS_Subset DEF Occupied
<1>2. f \in Surjection(Occupied, Children)
  <2>1. f \in [Occupied -> Children]
    BY SlotsDomain DEF Children, Occupied
  <2>2. \A q \in Children : \E i \in Occupied : f[i] = q
    BY PidsAssumption DEF Children, Occupied
  <2> QED  BY <2>1, <2>2 DEF Surjection
<1>3. Cardinality(Children) <= Cardinality(Occupied)
  BY <1>1, <1>2, FS_Surjection
<1> QED
  BY <1>1, <1>3, FS_CardinalityType

LEMMA RecheckInv ==
    ASSUME TypeOK, PoolInv, Recheck
    PROVE  PoolInv'
<1> DEFINE n == Cardinality(Occupied)
<1>1. UNCHANGED <<slots, told, at, idx, raised, wpc>> /\ mpc = "recheck"
  BY DEF Recheck, handler, workers
<1>2. Idle /\ Alive /\ raised \cap {"INT", "QUIT"} = {}
  BY <1>1 DEF PoolInv, MainLine, Alive
<1>3. \/ mpc' = "suspend"
      \/ mpc' = "respawn" /\ left' = (IF n < ProcessNum THEN ProcessNum - n ELSE 0)
  BY DEF Recheck
<1>4. n \in Nat /\ Cardinality(Children) <= n
  BY OccupiedSlots
<1>5. Cardinality(Untold) <= ProcessNum
  BY DEF PoolInv, Room
<1>6. mpc' \in Spawning => Cardinality(Untold) + left' <= ProcessNum
  <2> HIDE DEF n
  <2> QED  BY <1>3, <1>4, <1>5, ChildrenFinite, ProcessNumAssumption
<1>7. MainLine' /\ ExitTold'
  BY <1>1, <1>2, <1>3 DEF MainLine, ExitTold, Idle
<1> QED
  BY <1>1, <1>2, <1>6, <1>7, MainLineStep

LEMMA MasterKilledInv ==
    ASSUME TypeOK, PoolInv, MasterKilled
    PROVE  PoolInv'
<1>1. UNCHANGED <<left, slots, told, at, idx, raised>> /\ mpc' = "exited"
  BY DEF MasterKilled, MasterExits, handler
<1>2. Children' = Children /\ Untold' = Untold /\ Alive /\ ~Alive'
  BY <1>1 DEF MasterKilled, Children, Untold, Alive
<1>3. MainLine'
  BY <1>1 DEF MainLine
<1>4. ExitTold'
  BY <1>1, <1>2 DEF PoolInv, MainLine, TellLoops, ExitTold, Alive, TypeOK
<1>5. TellLoops'
  BY <1>1, <1>2 DEF PoolInv, TellLoops
<1>6. Room'
  BY <1>1, <1>2 DEF PoolInv, Room
<1>7. SlotsMatchChildren'
  BY <1>1, <1>2 DEF PoolInv, SlotsMatchChildren
<1> QED
  BY <1>1, <1>2, <1>3, <1>4, <1>5, <1>6, <1>7 DEF PoolInv

LEMMA StepInv == TypeOK /\ PoolInv /\ [Next]_vars => PoolInv'
<1> SUFFICES ASSUME TypeOK, PoolInv, [Next]_vars PROVE PoolInv'
  OBVIOUS
<1>1. CASE MasterStep
  <2>1. CASE BlockSignals
    BY <2>1 DEF BlockSignals, PoolInv, MainLine
  <2> QED
    BY <1>1, <2>1, DeliverInv, TellChildInv, HandlerReturnsInv, SleepElapsesInv,
       ReapDoneInv, ReapChildInv, SpawnInv, SpawnFailsInv, SpawningDoneInv,
       WakeInv, RecheckInv DEF MasterStep
<1>2. ASSUME NEW p \in Pids, WorkerStep(p) PROVE PoolInv'
  <2>1. CASE WorkerInit(p)
    <3>1. CASE Dies(p)
      BY <2>1, <3>1, DiesQuiet DEF WorkerInit
    <3>2. CASE ~Dies(p)
      BY <2>1, <3>2, QuietStep DEF WorkerInit, handler, master, TypeOK
    <3> QED  BY <3>1, <3>2
  <2>2. CASE WorkerInitFails(p)
    BY <2>2, QuietStep DEF WorkerInitFails, handler, master, TypeOK
  <2>3. CASE WorkerQuits(p)
    BY <2>3, DiesQuiet DEF WorkerQuits
  <2>4. CASE WorkerHup(p)
    BY <2>4, QuietStep DEF WorkerHup, handler, master, TypeOK
  <2> QED  BY <1>2, <2>1, <2>2, <2>3, <2>4 DEF WorkerStep
<1>3. CASE Environment
  <2>1. ASSUME NEW s \in External, SendSignal(s) PROVE PoolInv'
    BY <2>1, QuietStep DEF SendSignal, master, workers
  <2>2. ASSUME NEW p \in Pids, WorkerCrashes(p) PROVE PoolInv'
    BY <2>2, DiesQuiet DEF WorkerCrashes
  <2> QED  BY <1>3, <2>1, <2>2, MasterKilledInv DEF Environment
<1>4. CASE UNCHANGED vars
  BY <1>4, QuietStep DEF vars, handler, master, workers
<1> QED
  BY <1>1, <1>2, <1>3, <1>4 DEF Next

(***************************************************************************)
(* The table, the handlers' loops and the main line stay consistent: the   *)
(* inductive invariant holds, provided signals are blocked from the start. *)
(***************************************************************************)
THEOREM PoolInvariant == ~StartWindow /\ Spec => []PoolInv
<1>1. ~StartWindow /\ Init => TypeOK /\ PoolInv
  BY InitType, InitInv
<1>2. TypeOK /\ PoolInv /\ [Next]_vars => TypeOK' /\ PoolInv'
  BY StepType, StepInv
<1>3. ~StartWindow /\ Spec => [](TypeOK /\ PoolInv)
  BY <1>1, <1>2, PTL DEF Spec
<1> QED
  BY <1>3, PTL

(***************************************************************************)
(* The master never has more than process_num children that it has not     *)
(* told to quit, however handlers, spawns and deaths interleave.           *)
(***************************************************************************)
THEOREM NotOverstaffed == ~StartWindow /\ Spec => []NeverOverstaffed
<1>1. PoolInv => NeverOverstaffed
  BY DEF PoolInv, Room, NeverOverstaffed
<1> QED
  BY <1>1, PoolInvariant, PTL

(***************************************************************************)
(* SIGQUIT reaches everyone: while its handler sleeps and when the master  *)
(* exits because of it, no child is left untold.                           *)
(***************************************************************************)
THEOREM QuitReachesEveryone == ~StartWindow /\ Spec => []QuitToldEveryone
<1>1. PoolInv => QuitToldEveryone
  BY DEF PoolInv, TellLoops, ExitTold, QuitToldEveryone, Idle
<1> QED
  BY <1>1, PoolInvariant, PTL

(* A reload starts a new generation only when the old one has been told.   *)
THEOREM ReloadIsReplacement == ~StartWindow /\ Spec => ReloadReplaces
<1>1. TypeOK /\ PoolInv /\ [Next]_vars
        => [mpc = "woken" /\ mpc' = "reload" => Untold = {}]_vars
  <2> SUFFICES ASSUME TypeOK, PoolInv, [Next]_vars,
                      mpc = "woken", mpc' = "reload"
               PROVE  Untold = {}
    OBVIOUS
  <2>1. Idle /\ ("INT" \in raised => Untold = {})
    BY DEF PoolInv, MainLine, TellLoops, Idle
  <2>2. Wake
    BY DEF Next, MasterStep, WorkerStep, Environment, vars, handler, master, workers,
           Deliver, TellChild, HandlerReturns, SleepElapses, ReapDone, ReapChild,
           Spawn, BlockSignals, SpawnFails, SpawningDone, Recheck, WorkerInit,
           WorkerInitFails, WorkerQuits, WorkerHup, Dies, SendSignal, WorkerCrashes,
           MasterKilled, MasterExits
  <2> QED  BY <2>1, <2>2 DEF Wake, MasterExits
<1> QED
  BY <1>1, TypeCorrect, PoolInvariant, PTL DEF Spec, ReloadReplaces

-----------------------------------------------------------------------------
(* The implementation of WorkerPool                                        *)

LEMMA PoolStutter ==
    ASSUME UNCHANGED <<slots, told>>
    PROVE  UNCHANGED Pool!vars
BY DEF Pool!vars, Untold, Children

(* One iteration of the handler's loop dismisses a worker or nobody.       *)
LEMMA TellDismisses ==
    ASSUME TypeOK, PoolInv, NEW s \in Signals, TellChild(s)
    PROVE  [Pool!Next]_(Pool!vars)
<1>1. UNCHANGED slots /\ Children' = Children
  BY DEF TellChild, master, Children
<1>2. CASE told' = told
  BY <1>1, <1>2, PoolStutter
<1>3. CASE told' # told
  <2> DEFINE p == slots[idx[s]]
  <2>1. told' = told \cup {p} /\ p # NoPid /\ idx[s] <= Len(slots)
    BY <1>3 DEF TellChild
  <2>2. idx[s] \in DOMAIN slots
    BY <2>1, SlotsDomain DEF TypeOK
  <2>3. p \in Children /\ p \in Pids /\ p \notin told
    BY <1>3, <2>1, <2>2, SlotsDomain DEF Children
  <2> HIDE DEF p
  <2>4. Pool!Dismiss(p)
    BY <1>1, <2>1, <2>3 DEF Pool!Dismiss, Untold
  <2> QED  BY <2>3, <2>4 DEF Pool!Next
<1> QED
  BY <1>2, <1>3

LEMMA ReapRemoves ==
    ASSUME TypeOK, PoolInv, NEW p \in Pids, ReapChild(p)
    PROVE  Pool!Next
<1>1. Children' = Children \ {p} /\ told' = told \ {p}
  BY ReapChildren DEF ReapChild
<1>2. p \in Children
  BY DEF ReapChild, PoolInv, SlotsMatchChildren, TypeOK
<1>3. Pool!Leave(p)
  BY <1>1, <1>2 DEF Pool!Leave, Untold
<1> QED
  BY <1>3 DEF Pool!Next

LEMMA SpawnHires ==
    ASSUME TypeOK, PoolInv, NEW p \in Pids, Spawn(p)
    PROVE  Pool!Next
<1>1. Occupy(p) /\ told' = told /\ mpc \in Spawning /\ left > 0 /\ wpc[p] = "none"
  BY DEF Spawn
<1>2. Children' = Children \cup {p} /\ p \notin Children
  BY <1>1, SpawnChildren DEF PoolInv, SlotsMatchChildren, Alive
<1>3. p \notin told
  BY <1>2 DEF PoolInv
<1>4. Cardinality(Untold) < ProcessNum
  <2>1. Cardinality(Untold) + left <= ProcessNum /\ left \in Nat
    BY <1>1 DEF PoolInv, Room, TypeOK
  <2> QED  BY <1>1, <2>1, ChildrenFinite, ProcessNumAssumption
<1>5. Untold' = Untold \cup {p} /\ (Children \cap told)' = Children \cap told
  BY <1>1, <1>2, <1>3 DEF Untold
<1>6. p \notin Untold \cup (Children \cap told)
  BY <1>2 DEF Untold
<1>7. Pool!Hire(p)
  <2>1. p \in Pids \ (Untold \cup (Children \cap told))
    BY <1>6
  <2>2. Pool!Cardinality(Untold) = Cardinality(Untold)
    BY DEF Cardinality, Pool!Cardinality
  <2> QED  BY <1>4, <1>5, <2>1, <2>2, Zenon DEF Pool!Hire
<1> QED
  BY <1>7 DEF Pool!Next

LEMMA StepRefines ==
    ASSUME TypeOK, PoolInv, [Next]_vars
    PROVE  [Pool!Next]_(Pool!vars)
<1>1. CASE \E s \in Signals : TellChild(s)
  BY <1>1, TellDismisses
<1>2. CASE \E p \in Pids : ReapChild(p)
  BY <1>2, ReapRemoves
<1>3. CASE \E p \in Pids : Spawn(p)
  BY <1>3, SpawnHires
<1>4. CASE UNCHANGED <<slots, told>>
  BY <1>4, PoolStutter
<1>5. \/ \E s \in Signals : TellChild(s)
      \/ \E p \in Pids : ReapChild(p) \/ Spawn(p)
      \/ UNCHANGED <<slots, told>>
  BY DEF Next, MasterStep, WorkerStep, Environment, vars, handler, master, workers,
         Deliver, HandlerReturns, SleepElapses, ReapDone,
         BlockSignals, SpawnFails, SpawningDone, Wake, Recheck, WorkerInit,
         WorkerInitFails, WorkerQuits, WorkerHup, Dies, SendSignal, WorkerCrashes,
         MasterKilled, MasterExits
<1> QED
  BY <1>1, <1>2, <1>3, <1>4, <1>5

(***************************************************************************)
(* Seen through its untold and told children, the master is the pool of    *)
(* WorkerPool: it hires only into a vacancy and never takes back a worker  *)
(* it has told to quit.                                                    *)
(***************************************************************************)
THEOREM MasterImplementsPool == ~StartWindow /\ Spec => ImplementsPool
<1>1. Init => Pool!Init
  BY DEF Init, Pool!Init, Untold, Children
<1>2. TypeOK /\ PoolInv /\ [Next]_vars => [Pool!Next]_(Pool!vars)
  BY StepRefines
<1> QED
  BY <1>1, <1>2, TypeCorrect, PoolInvariant, PTL DEF Spec, ImplementsPool, Pool!Spec
=============================================================================
