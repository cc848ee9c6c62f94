------------------------- MODULE ProcessTableProofs -------------------------
(***************************************************************************)
(* The master's table of children and its staffing, for every ProcessNum,  *)
(* every set of pids and every bound, and also when a signal arrives       *)
(* before the master blocks them or the master is killed.                  *)
(***************************************************************************)
EXTENDS ProcessCycleProofs

USE DEF External, Signals, Spawning, Chances

(* Only a spawn and a waitpid() change the table.                          *)
LEMMA TableSteps ==
    ASSUME TypeOK, [Next]_vars
    PROVE  \/ \E p \in Pids : ReapChild(p)
           \/ \E p \in Pids : Spawn(p)
           \/ /\ UNCHANGED slots
              /\ Alive' => Alive /\ \A p \in Pids : wpc[p] = "none" <=> wpc'[p] = "none"
<1> USE DEF Alive, handler, master, workers
<1>1. CASE MasterStep
  <2>1. CASE \E s \in Signals : Deliver(s) \/ TellChild(s) \/ HandlerReturns(s)
    BY <2>1 DEF Deliver, TellChild, HandlerReturns
  <2>2. CASE SleepElapses \/ ReapDone
    BY <2>2 DEF SleepElapses, ReapDone
  <2>3. CASE BlockSignals \/ Recheck
    BY <2>3 DEF BlockSignals, Recheck
  <2>4. CASE SpawnFails \/ SpawningDone
    BY <2>4 DEF SpawnFails, SpawningDone
  <2>5. CASE Wake
    BY <2>5 DEF Wake, MasterExits
  <2> QED  BY <1>1, <2>1, <2>2, <2>3, <2>4, <2>5 DEF MasterStep
<1>2. ASSUME NEW q \in Pids, WorkerStep(q) \/ WorkerCrashes(q)
      PROVE  /\ UNCHANGED slots
             /\ Alive' => Alive /\ \A p \in Pids : wpc[p] = "none" <=> wpc'[p] = "none"
  BY <1>2, SMTT(30) DEF WorkerStep, WorkerInit, WorkerInitFails, WorkerQuits, WorkerHup,
              WorkerCrashes, Dies, TypeOK
<1>3. CASE (\E s \in External : SendSignal(s)) \/ MasterKilled
  BY <1>3 DEF SendSignal, MasterKilled, MasterExits
<1>4. CASE UNCHANGED vars
  BY <1>4 DEF vars
<1> QED
  BY <1>1, <1>2, <1>3, <1>4 DEF Next, Environment

LEMMA SlotsStep ==
    ASSUME TypeOK, SlotsMatchChildren, [Next]_vars
    PROVE  SlotsMatchChildren'
<1>1. ASSUME NEW p \in Pids, ReapChild(p) PROVE SlotsMatchChildren'
  <2>1. /\ DOMAIN slots' = DOMAIN slots
        /\ \A i \in DOMAIN slots : slots'[i] = IF slots[i] = p THEN NoPid ELSE slots[i]
        /\ Children' = Children \ {p}
    BY <1>1, ReapChildren
  <2>2. \A i, j \in DOMAIN slots' : slots'[i] = slots'[j] /\ slots'[i] # NoPid => i = j
    BY <2>1 DEF SlotsMatchChildren
  <2>3. wpc' = [wpc EXCEPT ![p] = "none"] /\ Alive
    BY <1>1 DEF ReapChild
  <2>4. \A q \in Pids : wpc'[q] # "none" <=> q \in Children'
    BY <2>1, <2>3 DEF SlotsMatchChildren, TypeOK
  <2> QED  BY <2>2, <2>4 DEF SlotsMatchChildren
<1>2. ASSUME NEW p \in Pids, Spawn(p) PROVE SlotsMatchChildren'
  <2>1. Occupy(p) /\ Alive /\ wpc[p] = "none" /\ wpc' = [wpc EXCEPT ![p] = "forked"]
    BY <1>2 DEF Spawn, Alive
  <2>2. PICK k \in DOMAIN slots' :
              /\ slots'[k] = p
              /\ k \in DOMAIN slots => slots[k] = NoPid
              /\ DOMAIN slots' = DOMAIN slots \cup {k}
              /\ \A i \in DOMAIN slots \ {k} : slots'[i] = slots[i]
    BY <2>1, SpawnSlots
  <2>3. Children' = Children \cup {p} /\ p \notin Children
    BY <2>1, SpawnChildren DEF SlotsMatchChildren
  <2>4. ASSUME NEW i \in DOMAIN slots', NEW j \in DOMAIN slots',
               slots'[i] = slots'[j], slots'[i] # NoPid
        PROVE  i = j
    <3>1. \A m \in DOMAIN slots : slots[m] # p
      BY <2>3 DEF Children
    <3> QED  BY <2>2, <2>4, <3>1 DEF SlotsMatchChildren
  <2>5. \A q \in Pids : wpc'[q] # "none" <=> q \in Children'
    BY <2>1, <2>3 DEF SlotsMatchChildren, TypeOK
  <2> QED  BY <2>4, <2>5 DEF SlotsMatchChildren
<1>3. CASE /\ UNCHANGED slots
           /\ Alive' => Alive /\ \A p \in Pids : wpc[p] = "none" <=> wpc'[p] = "none"
  BY <1>3 DEF SlotsMatchChildren, Children
<1> QED
  BY <1>1, <1>2, <1>3, TableSteps

LEMMA DeathStep ==
    ASSUME TypeOK, DeadChildNoticed, [Next]_vars
    PROVE  DeadChildNoticed'
<1> USE DEF DeadChildNoticed, handler, master, workers
<1>1. ASSUME NEW s \in Signals, Deliver(s) PROVE DeadChildNoticed'
  <2>1. CASE s = "CHLD"
    BY <1>1, <2>1 DEF Deliver, FirstStep
  <2>2. CASE s # "CHLD"
    BY <1>1, <2>2 DEF Deliver, Interrupted, TypeOK
  <2> QED  BY <2>1, <2>2
<1>2. ASSUME NEW s \in Signals, TellChild(s) PROVE DeadChildNoticed'
  BY <1>2 DEF TellChild, TypeOK
<1>3. ASSUME NEW s \in Signals, HandlerReturns(s) PROVE DeadChildNoticed'
  BY <1>3 DEF HandlerReturns, TypeOK
<1>4. CASE SleepElapses
  BY <1>4 DEF SleepElapses, TypeOK
<1>5. CASE ReapDone
  BY <1>5 DEF ReapDone, TypeOK
<1>6. ASSUME NEW p \in Pids, ReapChild(p) \/ Spawn(p) PROVE DeadChildNoticed'
  BY <1>6 DEF ReapChild, Spawn, TypeOK
<1>7. CASE BlockSignals \/ SpawnFails \/ SpawningDone \/ Recheck
  BY <1>7 DEF BlockSignals, SpawnFails, SpawningDone, Recheck
<1>8. CASE Wake \/ MasterKilled
  BY <1>8 DEF Wake, MasterKilled, MasterExits, TypeOK
<1>9. ASSUME NEW p \in Pids, WorkerStep(p) \/ WorkerCrashes(p) PROVE DeadChildNoticed'
  BY <1>9, SMTT(30) DEF WorkerStep, WorkerInit, WorkerInitFails, WorkerQuits, WorkerHup,
              WorkerCrashes, Dies, TypeOK
<1>10. CASE (\E s \in External : SendSignal(s)) \/ UNCHANGED vars
  BY <1>10 DEF SendSignal, vars
<1> QED
  BY <1>1, <1>2, <1>3, <1>4, <1>5, <1>6, <1>7, <1>8, <1>9, <1>10
     DEF Next, MasterStep, Environment

LEMMA IdleStep ==
    ASSUME TypeOK, IdleOutside, [Next]_vars
    PROVE  IdleOutside'
<1> USE DEF IdleOutside, Idle, handler, master, workers
<1>1. ASSUME NEW s \in Signals, Deliver(s) PROVE IdleOutside'
  BY <1>1 DEF Deliver
<1>2. ASSUME NEW s \in Signals, TellChild(s) PROVE IdleOutside'
  BY <1>2 DEF TellChild, Alive, TypeOK
<1>3. ASSUME NEW s \in Signals, HandlerReturns(s) PROVE IdleOutside'
  BY <1>3 DEF HandlerReturns, Alive, TypeOK
<1>4. CASE SleepElapses \/ ReapDone
  BY <1>4 DEF SleepElapses, ReapDone, Alive, TypeOK
<1>5. ASSUME NEW p \in Pids, ReapChild(p) \/ Spawn(p) PROVE IdleOutside'
  BY <1>5 DEF ReapChild, Spawn
<1>6. CASE BlockSignals \/ SpawnFails \/ SpawningDone \/ Recheck
  BY <1>6 DEF BlockSignals, SpawnFails, SpawningDone, Recheck
<1>7. CASE Wake \/ MasterKilled
  BY <1>7 DEF Wake, MasterKilled, MasterExits
<1>8. ASSUME NEW p \in Pids, WorkerStep(p) \/ WorkerCrashes(p) PROVE IdleOutside'
  BY <1>8 DEF WorkerStep, WorkerInit, WorkerInitFails, WorkerQuits, WorkerHup,
              WorkerCrashes, Dies
<1>9. CASE (\E s \in External : SendSignal(s)) \/ UNCHANGED vars
  BY <1>9 DEF SendSignal, vars
<1> QED
  BY <1>1, <1>2, <1>3, <1>4, <1>5, <1>6, <1>7, <1>8, <1>9 DEF Next, MasterStep, Environment

(* What a spawn does to the number of slots and to the occupied ones.      *)
LEMMA SpawnCounts ==
    ASSUME TypeOK, NEW p \in Pids, Occupy(p)
    PROVE  /\ Cardinality(Occupied) \in Nat
           /\ Cardinality(Occupied') <= Cardinality(Occupied) + 1
           /\ Cardinality(Occupied') \in Nat
           /\ \/ Len(slots') = Len(slots)
              \/ Len(slots') = Len(slots) + 1 /\ Cardinality(Occupied) = Len(slots)
<1>1. PICK k \in DOMAIN slots' :
              /\ slots'[k] = p
              /\ k \in DOMAIN slots => slots[k] = NoPid
              /\ DOMAIN slots' = DOMAIN slots \cup {k}
              /\ \A i \in DOMAIN slots \ {k} : slots'[i] = slots[i]
  BY SpawnSlots
<1>2. Occupied' = Occupied \cup {k}
  BY <1>1, PidsAssumption DEF Occupied
<1>3. IsFiniteSet(DOMAIN slots) /\ Cardinality(DOMAIN slots) = Len(slots)
  <2>1. /\ IsFiniteSet(1 .. Len(slots))
        /\ Cardinality(1 .. Len(slots)) = IF 1 > Len(slots) THEN 0 ELSE Len(slots) - 1 + 1
    BY SlotsDomain, FS_Interval
  <2> QED  BY <2>1, SlotsDomain
<1>4. IsFiniteSet(Occupied) /\ Cardinality(Occupied) \in Nat
  BY <1>3, FS_Subset, FS_CardinalityType DEF Occupied
<1>5. /\ IsFiniteSet(Occupied \cup {k})
      /\ Cardinality(Occupied \cup {k}) =
            IF k \in Occupied THEN Cardinality(Occupied) ELSE Cardinality(Occupied) + 1
  BY <1>4, FS_AddElement
<1>6. Cardinality(Occupied') <= Cardinality(Occupied) + 1 /\ Cardinality(Occupied') \in Nat
  <2> HIDE DEF Occupied
  <2> QED  BY <1>2, <1>4, <1>5
<1>7. CASE (\A i \in DOMAIN slots : slots[i] # NoPid) /\ slots' = Append(slots, p)
  <2>1. Occupied = DOMAIN slots
    BY <1>7 DEF Occupied
  <2>2. Len(slots') = Len(slots) + 1
    BY <1>7, SlotsDomain
  <2> QED  BY <1>3, <1>4, <1>6, <2>1, <2>2
<1>8. CASE \E i \in DOMAIN slots : slots' = [slots EXCEPT ![i] = p]
  <2>1. Len(slots') = Len(slots)
    <3>1. PICK i \in DOMAIN slots : slots' = [slots EXCEPT ![i] = p]
      BY <1>8
    <3> QED  BY <3>1, SlotsDomain
  <2> QED  BY <1>4, <1>6, <2>1
<1> QED
  BY <1>7, <1>8 DEF Occupy

LEMMA Product ==
    ASSUME NEW n \in Nat, NEW r \in Nat
    PROVE  /\ n * (1 + r) \in Nat
           /\ n <= n * (1 + r)
           /\ n * (1 + (r + 1)) = n * (1 + r) + n
<1>1. n * r \in Nat /\ n * (1 + r) = n + n * r /\ n * (1 + (r + 1)) = n + n * r + n
  BY SMT
<1> QED
  BY <1>1

LEMMA RoomStep ==
    ASSUME TypeOK, IdleOutside, TableRoom, [Next]_vars
    PROVE  TableRoom'
<1> DEFINE b == ProcessNum * (1 + reloads)
<1>1. /\ b \in Nat /\ ProcessNum <= b /\ ProcessNum \in Nat
      /\ ProcessNum * (1 + (reloads + 1)) = b + ProcessNum
  BY Product, ProcessNumAssumption DEF TypeOK
<1>2. left \in Nat /\ left <= ProcessNum /\ Len(slots) \in Nat
  BY ProcessNumAssumption, SlotsDomain DEF TypeOK
<1>3. /\ Len(slots) <= b
      /\ mpc \in {"boot", "start", "reload"} => Len(slots) + left <= b
      /\ mpc = "respawn" /\ left > 0 => Cardinality(Occupied) + left <= ProcessNum
  BY DEF TableRoom, SlotTableBounded
<1>4. ASSUME NEW c, ProcessNum * (1 + reloads') = c, Len(slots') <= c,
             mpc' \in {"boot", "start", "reload"} => Len(slots') + left' <= c,
             mpc' = "respawn" /\ left' > 0 => Cardinality(Occupied') + left' <= ProcessNum
      PROVE  TableRoom'
  BY <1>4 DEF TableRoom, SlotTableBounded
<1>5. reloads' = reloads => ProcessNum * (1 + reloads') = b
  OBVIOUS
<1>6. reloads' = reloads + 1 => ProcessNum * (1 + reloads') = b + ProcessNum
  BY <1>1
<1> HIDE DEF b
<1>7. ASSUME UNCHANGED <<slots, reloads>>,
             \/ mpc' = mpc /\ left' = left
             \/ mpc' = mpc /\ left' \in Nat /\ left' <= left
             \/ mpc = "boot" /\ mpc' = "start" /\ left' = left
             \/ mpc' \notin {"boot", "start", "reload", "respawn"}
      PROVE  TableRoom'
  <2>1. Cardinality(Occupied') = Cardinality(Occupied) /\ Cardinality(Occupied) \in Nat
    BY <1>7, OccupiedSlots DEF Occupied
  <2>2. mpc' \in {"boot", "start", "reload"} => Len(slots') + left' <= b
    <3> SUFFICES ASSUME mpc' \in {"boot", "start", "reload"}
                 PROVE  Len(slots') + left' <= b
      OBVIOUS
    <3>1. left' \in Nat /\ left' <= left
      BY <1>2, <1>7
    <3>2. mpc \in {"boot", "start", "reload"}
      BY <1>7
    <3> QED  BY <1>1, <1>2, <1>3, <1>7, <3>1, <3>2
  <2>3. mpc' = "respawn" /\ left' > 0 => Cardinality(Occupied') + left' <= ProcessNum
    BY <1>1, <1>2, <1>3, <1>7, <2>1
  <2> QED  BY <1>3, <1>4, <1>5, <1>7, <2>2, <2>3
<1>8. ASSUME NEW p \in Pids, ReapChild(p) PROVE TableRoom'
  <2>1. UNCHANGED <<mpc, left, reloads>> /\ mpc # "respawn"
    BY <1>8 DEF ReapChild, IdleOutside, Idle
  <2>2. Len(slots') = Len(slots)
    BY <1>8, SlotsDomain DEF ReapChild
  <2> QED  BY <1>3, <1>4, <1>5, <2>1, <2>2
<1>9. ASSUME NEW p \in Pids, Spawn(p) PROVE TableRoom'
  <2>1. /\ UNCHANGED <<mpc, reloads>> /\ left > 0 /\ left' = left - 1 /\ mpc \in Spawning
        /\ Occupy(p)
    BY <1>9 DEF Spawn
  <2>2. /\ Cardinality(Occupied) \in Nat /\ Cardinality(Occupied') \in Nat
        /\ Cardinality(Occupied') <= Cardinality(Occupied) + 1
        /\ \/ Len(slots') = Len(slots)
           \/ Len(slots') = Len(slots) + 1 /\ Cardinality(Occupied) = Len(slots)
    BY <2>1, SpawnCounts
  <2>3. Len(slots') <= b
    BY <1>1, <1>2, <1>3, <2>1, <2>2
  <2>4. mpc' \in {"boot", "start", "reload"} => Len(slots') + left' <= b
    BY <1>1, <1>2, <1>3, <2>1, <2>2
  <2>5. mpc' = "respawn" => Cardinality(Occupied') + left' <= ProcessNum
    BY <1>1, <1>2, <1>3, <2>1, <2>2
  <2> QED  BY <1>4, <1>5, <2>1, <2>3, <2>4, <2>5
<1>10. CASE SpawnFails
  <2>1. UNCHANGED <<slots, reloads, mpc>> /\ left' \in Nat /\ left' <= left
    BY <1>2, <1>10 DEF SpawnFails
  <2> QED  BY <1>7, <2>1
<1>11. CASE Wake
  <2>1. CASE MasterExits
    BY <1>7, <1>11, <2>1 DEF MasterExits, Wake
  <2>2. CASE /\ mpc' = "reload" /\ left' = ProcessNum /\ reloads' = reloads + 1
             /\ UNCHANGED slots
    BY <1>1, <1>2, <1>3, <1>4, <1>6, <2>2
  <2>3. CASE mpc' = "recheck" /\ UNCHANGED <<slots, reloads>>
    BY <1>7, <2>3
  <2> QED  BY <1>11, <2>1, <2>2, <2>3 DEF Wake
<1>12. CASE Recheck
  <2>1. UNCHANGED <<slots, reloads>> /\ Occupied' = Occupied
    BY <1>12 DEF Recheck, Occupied
  <2>2. CASE mpc' = "suspend"
    BY <1>7, <2>1, <2>2
  <2>3. CASE /\ mpc' = "respawn"
             /\ left' = (IF Cardinality(Occupied) < ProcessNum
                         THEN ProcessNum - Cardinality(Occupied) ELSE 0)
    <3>1. Cardinality(Occupied) \in Nat
      BY OccupiedSlots
    <3>2. left' > 0 => Cardinality(Occupied') + left' <= ProcessNum
      BY <1>1, <2>1, <2>3, <3>1
    <3> QED  BY <1>3, <1>4, <1>5, <2>1, <2>3, <3>2
  <2> QED  BY <1>12, <2>2, <2>3 DEF Recheck
<1>13. CASE BlockSignals \/ SpawningDone
  BY <1>7, <1>13 DEF BlockSignals, SpawningDone
<1>14. CASE MasterKilled
  BY <1>7, <1>14 DEF MasterKilled, MasterExits
<1>15. ASSUME NEW s \in Signals, Deliver(s) \/ TellChild(s) PROVE TableRoom'
  BY <1>7, <1>15 DEF Deliver, TellChild, master
<1>16. ASSUME NEW s \in Signals, HandlerReturns(s) PROVE TableRoom'
  BY <1>7, <1>16 DEF HandlerReturns
<1>17. CASE SleepElapses \/ ReapDone
  BY <1>7, <1>17 DEF SleepElapses, ReapDone, master
<1>18. ASSUME NEW p \in Pids, WorkerStep(p) PROVE TableRoom'
  BY <1>7, <1>18 DEF WorkerStep, WorkerInit, WorkerInitFails, WorkerQuits, WorkerHup,
                     Dies, master
<1>19. ASSUME NEW p \in Pids, WorkerCrashes(p) PROVE TableRoom'
  BY <1>7, <1>19 DEF WorkerCrashes, Dies, master
<1>20. CASE (\E s \in External : SendSignal(s)) \/ UNCHANGED vars
  BY <1>7, <1>20 DEF SendSignal, vars, master
<1> QED
  BY <1>8, <1>9, <1>10, <1>11, <1>12, <1>13, <1>14, <1>15, <1>16, <1>17, <1>18,
     <1>19, <1>20 DEF Next, MasterStep, Environment

(***************************************************************************)
(* The master's table is right at every moment: each child that has not    *)
(* been waited for sits in exactly one slot, no death is forgotten and the *)
(* table does not outgrow one generation per reload.                       *)
(***************************************************************************)
THEOREM TableInvariant == Spec => [](TypeOK /\ TableInv)
<1>1. Init => TypeOK /\ TableInv
  <2> SUFFICES ASSUME Init PROVE TableInv
    BY InitType
  <2>1. SlotsMatchChildren /\ DeadChildNoticed /\ IdleOutside
    BY DEF Init, SlotsMatchChildren, DeadChildNoticed, IdleOutside, Idle, Children
  <2>2. ProcessNum \in Nat /\ Len(slots) = 0 /\ left = ProcessNum /\ reloads = 0
    BY ProcessNumAssumption DEF Init
  <2>3. ProcessNum * (1 + reloads) = ProcessNum
    BY <2>2
  <2>4. TableRoom
    BY <2>2, <2>3 DEF Init, TableRoom, SlotTableBounded
  <2> QED  BY <2>1, <2>4 DEF TableInv
<1>2. TypeOK /\ TableInv /\ [Next]_vars => TypeOK' /\ TableInv'
  BY StepType, SlotsStep, DeathStep, IdleStep, RoomStep DEF TableInv
<1> QED
  BY <1>1, <1>2, PTL DEF Spec

THEOREM ChildTableRight == Spec => []ChildTable
<1>1. TypeOK /\ TableInv => ChildTable
  BY DEF TableInv, TableRoom, ChildTable
<1> QED
  BY <1>1, TableInvariant, PTL

-----------------------------------------------------------------------------
(* Staffing                                                                *)

(* No child sits in two slots: there are as many children as taken slots.  *)
LEMMA ChildrenAreOccupied ==
    ASSUME TypeOK, SlotsMatchChildren
    PROVE  Cardinality(Occupied) <= Cardinality(Children)
<1> DEFINE f == [i \in Occupied |-> slots[i]]
<1>1. f \in [Occupied -> Children]
  BY SlotsDomain DEF Children, Occupied
<1>2. \A i, j \in Occupied : f[i] = f[j] => i = j
  BY DEF Occupied, SlotsMatchChildren
<1>3. f \in Injection(Occupied, Children)
  BY <1>1, <1>2 DEF Injection, IsInjective
<1> HIDE DEF f
<1> QED
  BY <1>3, ChildrenFinite, FS_Injection

LEMMA FlagStep ==
    ASSUME TypeOK, IdleOutside, at["CHLD"] # "idle" => "CHLD" \in raised, [Next]_vars
    PROVE  at'["CHLD"] # "idle" => "CHLD" \in raised'
<1> USE DEF handler, master, workers
<1>1. ASSUME NEW s \in Signals, Deliver(s) PROVE at'["CHLD"] # "idle" => "CHLD" \in raised'
  <2>1. CASE s = "CHLD"
    BY <1>1, <2>1 DEF Deliver
  <2>2. CASE s # "CHLD"
    <3>1. at'["CHLD"] = Interrupted("CHLD") /\ raised \subseteq Signals \ {"OTHER"}
      BY <1>1, <2>2 DEF Deliver, TypeOK
    <3>2. at["CHLD"] # "idle" \/ at'["CHLD"] = "idle"
      BY <3>1 DEF Interrupted
    <3> QED  BY <1>1, <3>1, <3>2 DEF Deliver
  <2> QED  BY <2>1, <2>2
<1>2. ASSUME NEW s \in Signals, TellChild(s) \/ HandlerReturns(s)
      PROVE  at'["CHLD"] # "idle" => "CHLD" \in raised'
  BY <1>2 DEF TellChild, HandlerReturns, TypeOK
<1>3. CASE SleepElapses \/ ReapDone
  BY <1>3 DEF SleepElapses, ReapDone, TypeOK
<1>4. CASE SpawningDone
  BY <1>4 DEF SpawningDone, IdleOutside, Idle
<1>5. UNCHANGED <<at, raised>> \/ SleepElapses \/ ReapDone \/ SpawningDone
      \/ \E s \in Signals : Deliver(s) \/ TellChild(s) \/ HandlerReturns(s)
  BY DEF Next, MasterStep, WorkerStep, Environment, vars, ReapChild, Spawn,
         BlockSignals, SpawnFails, Wake, Recheck, WorkerInit,
         WorkerInitFails, WorkerQuits, WorkerHup, Dies, SendSignal, WorkerCrashes,
         MasterKilled, MasterExits
<1> QED
  BY <1>1, <1>2, <1>3, <1>4, <1>5

(* The part of StaffInv about runs in which nothing has failed.            *)
LEMMA StaffStep ==
    ASSUME TypeOK, SlotsMatchChildren, IdleOutside, StaffInv, [Next]_vars, failed' = {}
    PROVE  /\ mpc' \in {"boot", "start"} => Idle' /\ raised' = {}
           /\ mpc' = "suspend" /\ Idle' => "CHLD" \notin raised'
           /\ mpc' \in {"boot"} \cup Spawning => Cardinality(Children') + left' >= ProcessNum
           /\ mpc' \in {"suspend", "woken", "recheck"} =>
                 Cardinality(Children') >= ProcessNum \/ "CHLD" \in raised'
<1> DEFINE Staffed ==
             /\ mpc' \in {"boot", "start"} => Idle' /\ raised' = {}
             /\ mpc' = "suspend" /\ Idle' => "CHLD" \notin raised'
             /\ mpc' \in {"boot"} \cup Spawning => Cardinality(Children') + left' >= ProcessNum
             /\ mpc' \in {"suspend", "woken", "recheck"} =>
                   Cardinality(Children') >= ProcessNum \/ "CHLD" \in raised'
<1> SUFFICES Staffed
  OBVIOUS
<1>1. failed = {}
  BY DEF Next, MasterStep, WorkerStep, Environment, vars, Deliver, TellChild,
         HandlerReturns, SleepElapses, ReapDone, ReapChild, Spawn, SpawningDone,
         BlockSignals, SpawnFails, Wake, Recheck, WorkerInit,
         WorkerInitFails, WorkerQuits, WorkerHup, Dies, SendSignal, WorkerCrashes,
         MasterKilled, MasterExits
<1>2. /\ mpc \in {"boot", "start"} => Idle /\ raised = {}
      /\ mpc = "suspend" /\ Idle => "CHLD" \notin raised
      /\ mpc \in {"boot"} \cup Spawning => Cardinality(Children) + left >= ProcessNum
      /\ mpc \in {"suspend", "woken", "recheck"} =>
            Cardinality(Children) >= ProcessNum \/ "CHLD" \in raised
      /\ at["CHLD"] # "idle" => "CHLD" \in raised
  BY <1>1 DEF StaffInv
<1>3. left \in Nat /\ ProcessNum \in Nat /\ Cardinality(Children) \in Nat
  BY ProcessNumAssumption, ChildrenFinite DEF TypeOK
<1>4. UNCHANGED slots => Children' = Children
  BY DEF Children
<1>5. ASSUME UNCHANGED <<slots, mpc, left, at, raised>> PROVE Staffed
  BY <1>2, <1>4, <1>5 DEF Idle
<1>6. ASSUME mpc' = "exited" PROVE Staffed
  BY <1>6
<1>7. ASSUME NEW s \in Signals, Deliver(s) PROVE Staffed
  <2>1. mpc' = "suspend" /\ mpc = "suspend" /\ Children' = Children
    BY <1>4, <1>7 DEF Deliver, master
  <2>2. at'[s] # "idle"
    BY <1>7 DEF Deliver, FirstStep
  <2>3. raised \subseteq raised'
    BY <1>7 DEF Deliver, TypeOK
  <2> QED  BY <1>2, <2>1, <2>2, <2>3 DEF Idle
<1>8. ASSUME NEW s \in Signals, TellChild(s) PROVE Staffed
  <2>1. UNCHANGED <<mpc, left, raised>> /\ Children' = Children /\ at[s] = "tell" /\ Alive
    BY <1>4, <1>8 DEF TellChild, master
  <2>2. at'[s] # "idle"
    BY <1>8, SMTT(30) DEF TellChild, TypeOK
  <2>3. mpc \notin {"boot", "start"} /\ ~Idle'
    BY <1>2, <2>1, <2>2 DEF Idle
  <2> QED  BY <1>2, <2>1, <2>3
<1>9. ASSUME NEW s \in Signals, HandlerReturns(s) PROVE Staffed
  <2>1. UNCHANGED <<left, raised>> /\ Children' = Children /\ at[s] = "done" /\ ~Idle /\ Alive
    BY <1>4, <1>9 DEF HandlerReturns, Idle
  <2>2. mpc = "suspend"
    BY <1>2, <2>1 DEF IdleOutside, Alive, TypeOK
  <2>3. mpc' = IF \A t \in Signals \ {s} : at[t] = "idle" THEN "woken" ELSE "suspend"
    BY <1>9, <2>2 DEF HandlerReturns
  <2>4. mpc' = "suspend" => ~Idle'
    BY <1>9, <2>3 DEF HandlerReturns, Idle, TypeOK
  <2> QED  BY <1>2, <2>1, <2>2, <2>3, <2>4
<1>10. CASE SleepElapses \/ ReapDone
  <2>1. UNCHANGED <<mpc, left, raised>> /\ Children' = Children /\ ~Idle /\ ~Idle'
    BY <1>4, <1>10 DEF SleepElapses, ReapDone, master, Idle, TypeOK
  <2> QED  BY <1>2, <2>1
<1>11. ASSUME NEW p \in Pids, ReapChild(p) PROVE Staffed
  <2>1. UNCHANGED <<mpc, left, raised, at>> /\ at["CHLD"] = "wait" /\ Alive
    BY <1>11 DEF ReapChild, handler
  <2>2. mpc = "suspend" /\ ~Idle'
    BY <1>2, <2>1 DEF IdleOutside, Idle, Alive, TypeOK
  <2> QED  BY <1>2, <2>1, <2>2
<1>12. ASSUME NEW p \in Pids, Spawn(p) PROVE Staffed
  <2>1. /\ UNCHANGED <<mpc, raised, at>> /\ left > 0 /\ left' = left - 1 /\ mpc \in Spawning
        /\ Occupy(p) /\ wpc[p] = "none"
    BY <1>12 DEF Spawn, handler
  <2>2. Children' = Children \cup {p} /\ p \notin Children
    BY <2>1, SpawnChildren DEF SlotsMatchChildren, Alive
  <2>3. Cardinality(Children \cup {p}) = Cardinality(Children) + 1
    BY <2>2, ChildrenFinite, FS_AddElement
  <2>4. Cardinality(Children') + left' >= ProcessNum
    <3>1. Cardinality(Children') = Cardinality(Children) + 1
      BY <2>2, <2>3
    <3>2. Cardinality(Children) + left >= ProcessNum
      BY <1>2, <2>1
    <3> QED  BY <1>3, <2>1, <3>1, <3>2
  <2> QED  BY <1>2, <2>1, <2>4 DEF Idle
<1>13. CASE SpawnFails
  BY <1>13 DEF SpawnFails
<1>14. CASE BlockSignals
  <2>1. UNCHANGED <<left, raised, at>> /\ Children' = Children /\ mpc = "boot" /\ mpc' = "start"
    BY <1>4, <1>14 DEF BlockSignals, handler
  <2> QED  BY <1>2, <2>1 DEF Idle
<1>15. CASE SpawningDone
  <2>1. Children' = Children /\ UNCHANGED at /\ left = 0 /\ mpc \in Spawning
    BY <1>4, <1>15 DEF SpawningDone
  <2>2. Cardinality(Children) >= ProcessNum
    BY <1>2, <1>3, <2>1
  <2>3. mpc' \in {"suspend", "recheck"}
    BY <1>15 DEF SpawningDone
  <2>4. mpc' = "suspend" => "CHLD" \notin raised'
    BY <1>2, <1>15 DEF SpawningDone
  <2> QED  BY <2>1, <2>2, <2>3, <2>4
<1>16. CASE Wake
  <2>1. CASE MasterExits
    BY <1>6, <2>1 DEF MasterExits
  <2>2. CASE mpc' = "reload" /\ left' = ProcessNum /\ UNCHANGED slots
    BY <1>3, <1>4, <2>2
  <2>3. CASE mpc' = "recheck" /\ UNCHANGED <<handler, slots>>
    BY <1>2, <1>4, <1>16, <2>3 DEF handler, Wake
  <2> QED  BY <1>16, <2>1, <2>2, <2>3 DEF Wake
<1>17. CASE Recheck
  <2>1. UNCHANGED <<slots, at, raised>> /\ Children' = Children /\ mpc = "recheck"
    BY <1>4, <1>17 DEF Recheck, handler
  <2>2. CASE "CHLD" \notin raised /\ mpc' = "suspend"
    BY <1>2, <2>1, <2>2
  <2>3. CASE /\ mpc' = "respawn"
             /\ left' = (IF Cardinality(Occupied) < ProcessNum
                         THEN ProcessNum - Cardinality(Occupied) ELSE 0)
    <3>1. Cardinality(Occupied) \in Nat /\ Cardinality(Occupied) <= Cardinality(Children)
      BY OccupiedSlots, ChildrenAreOccupied
    <3>2. Cardinality(Children') + left' >= ProcessNum
      BY <1>3, <2>1, <2>3, <3>1
    <3> QED  BY <2>3, <3>2
  <2> QED  BY <1>17, <2>2, <2>3 DEF Recheck
<1>18. CASE MasterKilled
  BY <1>6, <1>18 DEF MasterKilled, MasterExits
<1>19. ASSUME NEW p \in Pids, WorkerStep(p) \/ WorkerCrashes(p) PROVE Staffed
  <2>1. UNCHANGED <<slots, mpc, left, at, raised>>
    BY <1>19 DEF WorkerStep, WorkerInit, WorkerInitFails, WorkerQuits, WorkerHup,
                 WorkerCrashes, Dies, handler, master
  <2> QED  BY <1>5, <2>1
<1>20. CASE (\E s \in External : SendSignal(s)) \/ UNCHANGED vars
  <2>1. UNCHANGED <<slots, mpc, left, at, raised>>
    BY <1>20 DEF SendSignal, vars, handler, master
  <2> QED  BY <1>5, <2>1
<1> QED
  BY <1>7, <1>8, <1>9, <1>10, <1>11, <1>12, <1>13, <1>14, <1>15, <1>16, <1>17,
     <1>18, <1>19, <1>20 DEF Next, MasterStep, Environment

(***************************************************************************)
(* The master never sleeps short of workers: suspended with no signal left *)
(* to handle and nothing failed, it has process_num children.              *)
(***************************************************************************)
THEOREM StaffedAsleep == Spec => []StaffedWhenSuspended
<1>1. Init => StaffInv
  <2> SUFFICES ASSUME Init PROVE StaffInv
    OBVIOUS
  <2>1. Cardinality(Children) \in Nat /\ left = ProcessNum /\ ProcessNum \in Nat
    BY ChildrenFinite, ProcessNumAssumption DEF Init
  <2>2. Cardinality(Children) + left >= ProcessNum
    BY <2>1
  <2> QED  BY <2>2 DEF Init, StaffInv, Idle
<1>2. TypeOK /\ TableInv /\ StaffInv /\ [Next]_vars => StaffInv'
  <2> SUFFICES ASSUME TypeOK, TableInv, StaffInv, [Next]_vars PROVE StaffInv'
    OBVIOUS
  <2>1. SlotsMatchChildren /\ IdleOutside
    BY DEF TableInv
  <2>2. at'["CHLD"] # "idle" => "CHLD" \in raised'
    BY <2>1, FlagStep DEF StaffInv
  <2>3. failed' = {} =>
           /\ mpc' \in {"boot", "start"} => Idle' /\ raised' = {}
           /\ mpc' = "suspend" /\ Idle' => "CHLD" \notin raised'
           /\ mpc' \in {"boot"} \cup Spawning => Cardinality(Children') + left' >= ProcessNum
           /\ mpc' \in {"suspend", "woken", "recheck"} =>
                 Cardinality(Children') >= ProcessNum \/ "CHLD" \in raised'
    BY <2>1, StaffStep
  <2> QED  BY <2>2, <2>3 DEF StaffInv
<1>3. StaffInv => StaffedWhenSuspended
  BY DEF StaffInv, StaffedWhenSuspended
<1> QED
  BY <1>1, <1>2, <1>3, TableInvariant, PTL DEF Spec
=============================================================================
