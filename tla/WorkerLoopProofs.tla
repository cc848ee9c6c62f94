-------------------------- MODULE WorkerLoopProofs --------------------------
(***************************************************************************)
(* Proofs about WorkerLoop: the inductive invariant that ties the flags a  *)
(* worker keeps in a connection to the timer tree, to epoll and to the     *)
(* batch of events it is working through.                                  *)
(***************************************************************************)
EXTENDS WorkerLoop, TLAPS

(* The connection in the hands of a read handler exists, and its events    *)
(* are off the batch even when it has been freed; outside the batch loop   *)
(* there is no batch.                                                      *)
BatchInOrder ==
    /\ pc \in {"handle", "read"} => conn \in alloc
    /\ pc \in {"handle", "read", "write", "cleaned"} => conn \in Conns /\ batch[conn] = {}
    /\ pc \in {"time", "timers", "wait", "expired"} =>
          lbatch = 0 /\ \A c \in Conns : batch[c] = {}

(* The inductive invariant.                                                *)
LoopInv ==
    /\ TypeOK
    /\ NothingDangling
    /\ FlagsTrue
    /\ BatchInOrder
    /\ BacklogHasEdge
    /\ NothingOverdue

-----------------------------------------------------------------------------
(* A second that is stored in an int is one of its values.                 *)
LEMMA Wrapped ==
  ASSUME NEW t \in Int, 0 <= t, t <= MaxClock + TIMEOUTS
  PROVE  Wrap(t) \in -IntMax .. IntMax - 1
BY TimeAssumption DEF Wrap

(* What clients, other workers and the clock do touches neither flags nor  *)
(* registrations, and a client that waits for accept() brings an edge.     *)
LEMMA EnvironmentKeeps ==
  ASSUME LoopInv, Environment PROVE LoopInv'
<1> USE DEF LoopInv, TypeOK, NothingDangling, FlagsTrue, BatchInOrder, BacklogHasEdge, NothingOverdue,
            Outside, loop, conns, regs, timers
<1>1. CASE ClientConnects  BY <1>1 DEF ClientConnects
<1>2. CASE OtherWorkerAccepts  BY <1>2 DEF OtherWorkerAccepts
<1>3. CASE ClockTicks  BY <1>3, TimeAssumption DEF ClockTicks
<1>4. CASE ClockSetBack  BY <1>4, TimeAssumption DEF ClockSetBack
<1>5. ASSUME NEW c \in Conns, SocketReady(c) PROVE LoopInv'
  BY <1>5 DEF SocketReady, Events
<1>6. ASSUME NEW c \in Conns, PeerGone(c) PROVE LoopInv'
  BY <1>6 DEF PeerGone
<1> QED  BY <1>1, <1>2, <1>3, <1>4, <1>5, <1>6 DEF Environment

(* The steps of the loop between handlers: they move events from epoll to  *)
(* the batch and from the batch to a handler.                              *)
LEMMA RoundsKeep ==
  ASSUME LoopInv,
         \/ UpdateTime \/ TimersDone \/ EpollWait \/ EventsDone \/ Notify
         \/ TakeListen \/ \E c \in Conns : TakeReady(c)
  PROVE  LoopInv'
<1> USE DEF LoopInv, TypeOK, NothingDangling, FlagsTrue, BatchInOrder, BacklogHasEdge, NothingOverdue,
            conns, regs, timers, kernel
<1>1. CASE UpdateTime  BY <1>1 DEF UpdateTime
<1>2. CASE TimersDone
  <2>1. CASE \A c \in Conns : linked[c] = 0
    BY <1>2, <2>1 DEF TimersDone
  <2>2. ASSUME NEW c \in Conns, First(c), TimeLeft(c) > 0 PROVE LoopInv'
    <3>1. key[c] > cur /\ key[c] \in Int /\ cur \in Nat
      BY <2>2, TimeAssumption DEF TimeLeft
    <3>2. Due(key[c]) = key[c]  BY <3>1 DEF Due
    <3>3. \A d \in Conns : Due(key[d]) \in Int
      BY TimeAssumption DEF Due
    <3>4. \A d \in Conns : linked[d] > 0 => Due(key[d]) > cur
      BY <2>2, <3>1, <3>2, <3>3 DEF First
    <3> QED  BY <1>2, <3>4 DEF TimersDone
  <2> QED  BY <1>2, <2>1, <2>2 DEF TimersDone
<1>3. CASE EpollWait  BY <1>3, SMTT(30) DEF EpollWait, Reported, Events
<1>4. CASE EventsDone  BY <1>4 DEF EventsDone
<1>5. CASE Notify  BY <1>5 DEF Notify
<1>6. CASE TakeListen  BY <1>6 DEF TakeListen
<1>7. ASSUME NEW c \in Conns, TakeReady(c) PROVE LoopInv'
  BY <1>7 DEF TakeReady, Events
<1> QED  BY <1>1, <1>2, <1>3, <1>4, <1>5, <1>6, <1>7

(* Freeing a connection: its timer is unlinked exactly when it is linked,  *)
(* and no event of the batch names it, because the handler took its own.   *)
LEMMA CleaningKeeps ==
  ASSUME LoopInv,
         \/ ReadCleans
         \/ \E c \in Conns : TimerCleans(c) \/ TakeError(c)
  PROVE  LoopInv'
<1> USE DEF LoopInv, TypeOK, NothingDangling, FlagsTrue, BatchInOrder, BacklogHasEdge, NothingOverdue,
            Clean, kernel
<1>1. CASE ReadCleans  BY <1>1, TimeAssumption DEF ReadCleans
<1>2. ASSUME NEW c \in Conns, TimerCleans(c) PROVE LoopInv'
  BY <1>2, TimeAssumption DEF TimerCleans, Expired, First, Unlinked
<1>3. ASSUME NEW c \in Conns, TakeError(c) PROVE LoopInv'
  BY <1>3, TimeAssumption DEF TakeError
<1> QED  BY <1>1, <1>2, <1>3

(* Whatever the business leaves to be sent: registrations keep their type, *)
(* only those of existing connections change, and wev and epoll agree as   *)
(* before unless an epoll_ctl() fails, which is remembered.                *)
RegsKept ==
    /\ budget' \in [{"back", "failures"} -> Nat] /\ failed' \subseteq {"accept", "epoll_ctl"}
    /\ active' \in [Conns -> SUBSET {"IN", "OUT"}] /\ mask' \in [Conns -> SUBSET {"IN", "OUT"}]
    /\ failed \subseteq failed'
    /\ \A d \in Conns \ alloc : active'[d] = active[d] /\ mask'[d] = mask[d]
    /\ "epoll_ctl" \notin failed' => \A d \in Conns : mask[d] = active[d] => mask'[d] = active'[d]

LEMMA AddWriteEventKeeps ==
  ASSUME TypeOK, NEW c \in alloc, AddWriteEvent(c)
  PROVE  RegsKept
<1>1. c \in Conns /\ active' = [active EXCEPT ![c] = @ \cup {"OUT"}]
  BY DEF TypeOK, AddWriteEvent
<1>2. active' \in [Conns -> SUBSET {"IN", "OUT"}] /\ active'[c] = active[c] \cup {"OUT"}
      /\ \A d \in Conns \ {c} : active'[d] = active[d]
  BY <1>1 DEF TypeOK
<1>3. CASE mask' = [mask EXCEPT ![c] = IF @ = {} /\ active[c] # {} THEN {} ELSE active'[c]]
           /\ UNCHANGED <<budget, failed>>
  <2>1. mask' \in [Conns -> SUBSET {"IN", "OUT"}] /\ \A d \in Conns \ {c} : mask'[d] = mask[d]
    BY <1>2, <1>3 DEF TypeOK
  <2>2. mask'[c] = IF mask[c] = {} /\ active[c] # {} THEN {} ELSE active'[c]
    BY <1>1, <1>3 DEF TypeOK
  <2> QED  BY <1>2, <1>3, <2>1, <2>2 DEF RegsKept, TypeOK
<1>4. CASE EpollCtlFails({"epoll_ctl"})
  <2>1. budget' \in [{"back", "failures"} -> Nat]
    BY <1>4 DEF EpollCtlFails, TypeOK
  <2> QED  BY <1>1, <1>2, <1>4, <2>1 DEF RegsKept, EpollCtlFails, TypeOK
<1> QED  BY <1>3, <1>4 DEF AddWriteEvent

LEMMA BusinessKeepsRegs ==
  ASSUME TypeOK, NEW flags, NEW links, NEW at, BusinessRuns(flags, links, at)
  PROVE  RegsKept
<1>1. CASE UNCHANGED <<regs, budget, failed>>
  BY <1>1 DEF regs, RegsKept, TypeOK
<1> QED  BY <1>1, AddWriteEventKeeps DEF BusinessRuns

(* Handlers that keep their connection: each timer they add replaces the   *)
(* one is_set_timeout announces, and EPOLLOUT comes and goes in rev, wev   *)
(* and epoll together.                                                     *)
LEMMA HandlersKeep ==
  ASSUME LoopInv,
         \/ ReadHandler \/ ReadReturns \/ WriteHandler
         \/ \E c \in Conns : TimerFires(c) \/ Connects(c)
  PROVE  LoopInv'
<1> USE DEF LoopInv, TypeOK, NothingDangling, FlagsTrue, BatchInOrder, BacklogHasEdge, NothingOverdue,
            kernel, regs
<1>1. CASE ReadHandler
  <2>0. RegsKept
    <3> DEFINE flags == armed \cup {conn}
               links == Relink({conn}, linked, armed)
               at    == [key EXCEPT ![conn] = Wrap(cur + TIMEOUTS)]
    <3>1. BusinessRuns(flags, links, at) \/ UNCHANGED <<regs, budget, failed>>
      BY <1>1 DEF ReadHandler
    <3> HIDE DEF flags, links, at
    <3>2. CASE UNCHANGED <<regs, budget, failed>>
      BY <3>2 DEF RegsKept
    <3> QED  BY <3>1, <3>2, BusinessKeepsRegs
  <2> USE <1>1, <2>0 DEF ReadHandler, BusinessRuns, Relink, RegsKept
  <2>1. TypeOK'
    <3>1. key' \in [Conns -> -IntMax .. IntMax - 1] /\ linked' \in [Conns -> Int]
      BY TimeAssumption, Wrapped
    <3> QED  BY <2>0, <3>1
  <2>2. FlagsTrue'  OBVIOUS
  <2>4. NothingDangling'  OBVIOUS
  <2>5. BatchInOrder' /\ BacklogHasEdge' /\ NothingOverdue'  OBVIOUS
  <2> QED  BY <2>1, <2>2, <2>4, <2>5
<1>2. CASE ReadReturns  BY <1>2 DEF ReadReturns, conns, timers
<1>3. CASE WriteHandler  BY <1>3 DEF WriteHandler, timers
<1>4. ASSUME NEW c \in Conns, TimerFires(c) PROVE LoopInv'
  <2>0. RegsKept
    BY <1>4, BusinessKeepsRegs DEF TimerFires
  <2> USE <1>4, <2>0 DEF TimerFires, Expired, First, BusinessRuns, Relink, Unlinked, RegsKept, loop
  <2>1. TypeOK'
    <3>1. key' \in [Conns -> -IntMax .. IntMax - 1] /\ linked' \in [Conns -> Int]
      BY TimeAssumption, Wrapped
    <3> QED  BY <2>0, <3>1
  <2>2. FlagsTrue'  OBVIOUS
  <2>4. NothingDangling'  OBVIOUS
  <2>5. BatchInOrder' /\ BacklogHasEdge' /\ NothingOverdue'  OBVIOUS
  <2> QED  BY <2>1, <2>2, <2>4, <2>5
<1>5. ASSUME NEW c \in Conns, Connects(c) PROVE LoopInv'
  <2> USE <1>5 DEF Connects, loop, timers
  <2>1. TypeOK'  OBVIOUS
  <2>2. NothingDangling' /\ FlagsTrue'  OBVIOUS
  <2>3. BatchInOrder' /\ BacklogHasEdge' /\ NothingOverdue'  OBVIOUS
  <2> QED  BY <2>1, <2>2, <2>3
<1> QED  BY <1>1, <1>2, <1>3, <1>4, <1>5

(* A new connection starts with a timer, and registered unless epoll_ctl() *)
(* fails; the loop is left early only on a failure.                        *)
LEMMA AcceptKeeps ==
  ASSUME LoopInv,
         \/ AcceptAgain \/ AcceptFails
         \/ \E c \in Conns : Accept(c)
  PROVE  LoopInv'
<1> USE DEF LoopInv, TypeOK, NothingDangling, FlagsTrue, BatchInOrder, BacklogHasEdge, NothingOverdue
<1>1. CASE AcceptAgain  BY <1>1 DEF AcceptAgain, conns, regs, timers, kernel
<1>2. CASE AcceptFails  BY <1>2 DEF AcceptFails, conns, regs, timers, kernel
<1>3. ASSUME NEW c \in Conns, Accept(c) PROVE LoopInv'
  <2>1. CASE mask' = [mask EXCEPT ![c] = {"IN"}] /\ UNCHANGED <<pc, budget, failed>>
    <3> USE <1>3, <2>1 DEF Accept, Relink
    <3>1. TypeOK'  BY TimeAssumption, Wrapped
    <3>2. FlagsTrue'  OBVIOUS
    <3> QED  BY <3>1, <3>2
  <2>2. CASE EpollCtlFails({"accept", "epoll_ctl"}) /\ pc' = "events"
    <3> USE <1>3, <2>2 DEF Accept, Relink, EpollCtlFails
    <3>1. TypeOK'  BY TimeAssumption, Wrapped
    <3>2. FlagsTrue'  OBVIOUS
    <3> QED  BY <3>1, <3>2
  <2> QED  BY <1>3, <2>1, <2>2 DEF Accept
<1> QED  BY <1>1, <1>2, <1>3

-----------------------------------------------------------------------------
(* LoopInv holds in every reachable state, for every set of addresses,     *)
(* every timeout, however often the clock is set back and whatever fails.  *)
THEOREM LoopInvariant == Spec => []LoopInv
<1>1. Init => LoopInv
  BY TimeAssumption, BoundAssumption
  DEF Init, LoopInv, TypeOK, NothingDangling, FlagsTrue, BatchInOrder, BacklogHasEdge, NothingOverdue
<1>2. LoopInv /\ [Next]_vars => LoopInv'
  <2> SUFFICES ASSUME LoopInv, [Next]_vars PROVE LoopInv'  OBVIOUS
  <2>1. CASE Environment  BY <2>1, EnvironmentKeeps
  <2>2. CASE Worker
    BY <2>2, RoundsKeep, CleaningKeeps, HandlersKeep, AcceptKeeps DEF Worker
  <2>3. CASE UNCHANGED vars
    BY <2>3 DEF vars, loop, conns, regs, timers, kernel, LoopInv, TypeOK,
       NothingDangling, FlagsTrue, BatchInOrder, BacklogHasEdge, NothingOverdue
  <2> QED  BY <2>1, <2>2, <2>3 DEF Next
<1> QED  BY <1>1, <1>2, PTL DEF Spec

(* The worker's state stays within its type: in particular the key of a    *)
(* timer fits an int.                                                      *)
THEOREM TypeCorrect == Spec => []TypeOK
<1>1. LoopInv => TypeOK  BY DEF LoopInv
<1> QED  BY <1>1, LoopInvariant, PTL

(* A freed connection is nowhere the worker could find it: timer tree,     *)
(* epoll, batch.                                                           *)
THEOREM FreedMeansGone == Spec => []NothingDangling
<1>1. LoopInv => NothingDangling  BY DEF LoopInv
<1> QED  BY <1>1, LoopInvariant, PTL

(* is_set_timeout is true exactly for the nodes that are linked once, and  *)
(* for every connection that is being closed; rev and wev say what epoll   *)
(* has registered unless epoll_ctl() failed.                               *)
THEOREM FlagsTellTruth == Spec => []FlagsTrue
<1>1. LoopInv => FlagsTrue  BY DEF LoopInv
<1> QED  BY <1>1, LoopInvariant, PTL

(* The worker waits for events only when no timer is due, although keys    *)
(* wrap around.                                                            *)
THEOREM NoneOverdue == Spec => []NothingOverdue
<1>1. LoopInv => NothingOverdue  BY DEF LoopInv
<1> QED  BY <1>1, LoopInvariant, PTL

(* Connections wait for accept() only with an event to come, unless an     *)
(* accept() or the epoll_ctl() of an accepted one failed.                  *)
THEOREM BacklogNoticed == Spec => []BacklogHasEdge
<1>1. LoopInv => BacklogHasEdge  BY DEF LoopInv
<1> QED  BY <1>1, LoopInvariant, PTL
=============================================================================
