---------------------------- MODULE ProcessCycle ----------------------------
(***************************************************************************)
(* The master process, its workers and the channel between them:           *)
(* src/os/vs_process_cycle.c, src/os/vs_process.c, src/os/vs_signal.c and  *)
(* src/net/vs_net_channel.c.                                               *)
(*                                                                         *)
(* The master blocks every signal except inside sigsuspend(), forks        *)
(* ProcessNum workers and sleeps.  A signal handler runs on top of         *)
(* whatever handler it interrupts (sa_mask is empty, so only its own       *)
(* signal is blocked while it runs), sets a flag, and SIGINT and SIGQUIT   *)
(* write a quit message to the channel of every worker in the table.       *)
(***************************************************************************)
EXTENDS Integers, Sequences, FiniteSets

CONSTANTS
    Pids,           \* the process ids fork() can return
    NoPid,          \* -1: the pid of a free slot
    ProcessNum,     \* process_num
    StartWindow,    \* can a signal arrive before sigprocmask() blocks it?
    PromptWorkers,  \* does a worker always read its quit within one sleep()?
    MaxSignals,     \* bound: SIGINT, SIGQUIT and other signals sent
    MaxCrashes,     \* bound: children that die by themselves
    MaxFailures,    \* bound: failed socketpair/fork/worker initialisations
    MaxKills        \* bound: the master is killed outright (0 or 1)

ASSUME ProcessNumAssumption == ProcessNum \in Nat \ {0}
ASSUME PidsAssumption == IsFiniteSet(Pids) /\ NoPid \notin Pids
ASSUME SwitchAssumption == StartWindow \in BOOLEAN /\ PromptWorkers \in BOOLEAN
ASSUME BoundAssumption ==
    /\ MaxSignals \in Nat /\ MaxCrashes \in Nat
    /\ MaxFailures \in Nat /\ MaxKills \in Nat

VARIABLES
    mpc,             \* where the master is
    left,            \* iterations left of the spawning loop it is in
    raised,          \* the flags that are 1, each named by the signal that sets it:
                     \* INT vs_child_quit, QUIT vs_all_quit, CHLD have_child_quit
    slots,           \* vs_processes[0 .. vs_last_process-1].pid
    pending,         \* signals pending for the master
    at,              \* per signal: where its handler is, "idle" if not running
    depth,           \* per signal: its handler's height on the signal stack
    idx,             \* per signal: i of the handler's loop over the slots
    wpc,             \* per pid: what that process is doing
    told,            \* the pids whose channel carries an unread quit message
    holds,           \* per pid: the pids whose channel[0] it has a copy of
    budget,          \* what the environment may still do
    failed,          \* history: what went wrong, a "spawn", an "init", or
                     \* "early": a signal handled before sigprocmask() blocked it
    reloads          \* history: how often SIGINT led to a new generation

handler == <<raised, pending, at, depth, idx>>
master  == <<mpc, left, slots>>
workers == <<wpc, told, holds>>
vars    == <<handler, master, workers, budget, failed, reloads>>

(***************************************************************************)
(* OTHER stands for SIGHUP, SIGTERM, SIGALRM and SIGIO: their handlers do  *)
(* nothing, but they end a sleep() and a sigsuspend() like the others.     *)
(***************************************************************************)
External == {"INT", "QUIT", "OTHER"}
Signals  == External \cup {"CHLD"}
Chances  == {"signals", "crashes", "failures", "kills"}
Spawning == {"start", "reload", "respawn"}

TypeOK ==
    /\ mpc \in {"boot", "suspend", "woken", "recheck", "exited"} \cup Spawning
    /\ left \in 0 .. ProcessNum
    /\ raised \subseteq Signals \ {"OTHER"}
    /\ slots \in Seq(Pids \cup {NoPid})
    /\ pending \subseteq Signals
    /\ at \in [Signals -> {"idle", "tell", "sleep1", "sleep2", "wait", "done"}]
    /\ depth \in [Signals -> Nat]
    /\ idx \in [Signals -> Nat \ {0}]
    /\ wpc \in [Pids -> {"none", "forked", "loop", "deaf", "stray", "zombie"}]
    /\ told \subseteq Pids
    /\ holds \in [Pids -> SUBSET Pids]
    /\ budget \in [Chances -> Nat]
    /\ failed \subseteq {"spawn", "init", "early"}
    /\ reloads \in Nat

(***************************************************************************)
(* The occupied slots, the children in them, the children the master has   *)
(* not told to quit, and whether every copy of channel[0] of child p is    *)
(* closed (EPOLLHUP at p).                                                 *)
(***************************************************************************)
Occupied == {i \in DOMAIN slots : slots[i] # NoPid}
Children == {p \in Pids : \E i \in DOMAIN slots : slots[i] = p}
Untold   == Children \ told
Alive    == mpc # "exited"
MasterEnds == IF Alive THEN Children ELSE {}
Hup(p)   == p \notin MasterEnds /\ \A q \in Pids : p \notin holds[q]

Idle == \A s \in Signals : at[s] = "idle"
Running(s) == at[s] # "idle" /\ \A t \in Signals : depth[t] <= depth[s]

Init ==
    /\ mpc = IF StartWindow THEN "boot" ELSE "start"
    /\ left = ProcessNum
    /\ raised = {}
    /\ slots = <<>>
    /\ pending = {}
    /\ at = [s \in Signals |-> "idle"]
    /\ depth = [s \in Signals |-> 0]
    /\ idx = [s \in Signals |-> 1]
    /\ wpc = [p \in Pids |-> "none"]
    /\ told = {}
    /\ holds = [p \in Pids |-> {}]
    /\ budget = [c \in Chances |-> CASE c = "signals"  -> MaxSignals
                                     [] c = "crashes"  -> MaxCrashes
                                     [] c = "failures" -> MaxFailures
                                     [] c = "kills"    -> MaxKills]
    /\ failed = {}
    /\ reloads = 0

Spend(what) == budget[what] > 0 /\ budget' = [budget EXCEPT ![what] = @ - 1]

-----------------------------------------------------------------------------
(* Signals and their handlers (vs_signal.c)                                *)

SendSignal(s) ==
    /\ Alive
    /\ Spend("signals")
    /\ pending' = pending \cup {s}
    /\ UNCHANGED <<raised, at, depth, idx,
                   master, workers, failed, reloads>>

FirstStep(s) == CASE s \in {"INT", "QUIT"} -> "tell"
                  [] s = "CHLD"            -> "wait"
                  [] s = "OTHER"           -> "done"

(***************************************************************************)
(* A signal is delivered while it is unblocked: before sigprocmask(), or   *)
(* while the master is in sigsuspend(), which returns when every handler   *)
(* has.  The handler starts by setting its flag.  If the SIGQUIT handler   *)
(* was the one running and was in sleep(), that sleep() returns early.     *)
(***************************************************************************)
Interrupted(s) ==
    IF at[s] \in {"sleep1", "sleep2"} /\ Running(s)
    THEN IF at[s] = "sleep1" THEN "sleep2" ELSE "done"
    ELSE at[s]

Deliver(s) ==
    /\ mpc \in {"boot", "suspend"}
    /\ s \in pending
    /\ at[s] = "idle"
    /\ pending' = pending \ {s}
    /\ at' = [t \in Signals |-> IF t = s THEN FirstStep(s) ELSE Interrupted(t)]
    /\ depth' = [depth EXCEPT ![s] = 1 + Cardinality({t \in Signals : at[t] # "idle"})]
    /\ idx' = [idx EXCEPT ![s] = 1]
    /\ raised' = (raised \cup {s}) \ {"OTHER"}
    /\ failed' = IF mpc = "boot" THEN failed \cup {"early"} ELSE failed
    /\ UNCHANGED <<master, workers, budget, reloads>>

(* Mutant: the loop leaves out the last slot.                              *)
TellChild_Short(s) ==
    /\ Running(s) /\ at[s] = "tell" /\ Alive
    /\ IF idx[s] < Len(slots)
       THEN /\ told' = told \cup ({slots[idx[s]]} \ {NoPid})
            /\ idx' = [idx EXCEPT ![s] = @ + 1]
            /\ UNCHANGED at
       ELSE /\ at' = [at EXCEPT ![s] = IF s = "QUIT" THEN "sleep1" ELSE "done"]
            /\ UNCHANGED <<told, idx>>
    /\ UNCHANGED <<raised, pending, depth,
                   master, wpc, holds, budget, failed, reloads>>

(* Mutant: the loop ends at the first free slot.                           *)
TellChild_StopsAtHole(s) ==
    /\ Running(s) /\ at[s] = "tell" /\ Alive
    /\ IF idx[s] <= Len(slots) /\ slots[idx[s]] # NoPid
       THEN /\ told' = told \cup {slots[idx[s]]}
            /\ idx' = [idx EXCEPT ![s] = @ + 1]
            /\ UNCHANGED at
       ELSE /\ at' = [at EXCEPT ![s] = IF s = "QUIT" THEN "sleep1" ELSE "done"]
            /\ UNCHANGED <<told, idx>>
    /\ UNCHANGED <<raised, pending, depth,
                   master, wpc, holds, budget, failed, reloads>>

(* One iteration of vs_net_tell_child_quit(), or the end of its loop.      *)
TellChild(s) ==
    /\ Running(s) /\ at[s] = "tell" /\ Alive
    /\ IF idx[s] <= Len(slots)
       THEN /\ told' = IF slots[idx[s]] # NoPid
                       THEN told \cup {slots[idx[s]]} ELSE told
            /\ idx' = [idx EXCEPT ![s] = @ + 1]
            /\ UNCHANGED at
       ELSE /\ at' = [at EXCEPT ![s] = IF s = "QUIT" THEN "sleep1" ELSE "done"]
            /\ UNCHANGED <<told, idx>>
    /\ UNCHANGED <<raised, pending, depth,
                   master, wpc, holds, budget, failed, reloads>>

(* sleep(1) of the SIGQUIT handler runs its full second.                   *)
SleepElapses ==
    /\ Alive /\ Running("QUIT") /\ at["QUIT"] \in {"sleep1", "sleep2"}
    /\ PromptWorkers => \A p \in told : wpc[p] \notin {"forked", "loop"}
    /\ at' = [at EXCEPT !["QUIT"] = IF @ = "sleep1" THEN "sleep2" ELSE "done"]
    /\ UNCHANGED <<raised, pending, depth,
                   idx, master, workers, budget, failed, reloads>>

(* Mutant: one waitpid() per SIGCHLD.                                      *)
ReapChild_Once(p) ==
    /\ Alive /\ Running("CHLD") /\ at["CHLD"] = "wait"
    /\ wpc[p] = "zombie"
    /\ wpc' = [wpc EXCEPT ![p] = "none"]
    /\ slots' = [i \in DOMAIN slots |-> IF slots[i] = p THEN NoPid ELSE slots[i]]
    /\ told' = told \ {p}
    /\ holds' = [q \in Pids |-> holds[q] \ {p}]
    /\ at' = [at EXCEPT !["CHLD"] = "done"]
    /\ UNCHANGED <<raised, pending, depth, idx, mpc, left, budget, failed, reloads>>

(* One waitpid() of vs_process_get_status() that finds a dead child.       *)
ReapChild(p) ==
    /\ Alive /\ Running("CHLD") /\ at["CHLD"] = "wait"
    /\ wpc[p] = "zombie"
    /\ wpc' = [wpc EXCEPT ![p] = "none"]
    /\ slots' = [i \in DOMAIN slots |-> IF slots[i] = p THEN NoPid ELSE slots[i]]
    /\ told' = told \ {p}
    /\ holds' = [q \in Pids |-> holds[q] \ {p}]
    /\ UNCHANGED <<handler, mpc, left, budget, failed, reloads>>

(* waitpid() returns 0 or -1: no dead child is left.                       *)
ReapDone ==
    /\ Alive /\ Running("CHLD") /\ at["CHLD"] = "wait"
    /\ \A p \in Pids : wpc[p] # "zombie"
    /\ at' = [at EXCEPT !["CHLD"] = "done"]
    /\ UNCHANGED <<raised, pending, depth,
                   idx, master, workers, budget, failed, reloads>>

(* A handler returns; when the last one does, sigsuspend() returns too.    *)
HandlerReturns(s) ==
    /\ Alive /\ Running(s) /\ at[s] = "done"
    /\ at' = [at EXCEPT ![s] = "idle"]
    /\ depth' = [depth EXCEPT ![s] = 0]
    /\ mpc' = IF mpc = "suspend" /\ \A t \in Signals \ {s} : at[t] = "idle"
              THEN "woken" ELSE mpc
    /\ UNCHANGED <<raised, pending, idx,
                   left, slots, workers, budget, failed, reloads>>

-----------------------------------------------------------------------------
(* The master's main line (vs_process_cycle.c, vs_process.c)               *)

(* sigprocmask(SIG_BLOCK): from here signals are delivered in sigsuspend().*)
BlockSignals ==
    /\ mpc = "boot" /\ Idle
    /\ mpc' = "start"
    /\ UNCHANGED <<handler, left, slots, workers, budget, failed, reloads>>

(* Mutant: the search does not test whether the slot is free.              *)
Occupy_First(p) ==
    slots' = IF slots = <<>> THEN <<p>> ELSE [slots EXCEPT ![1] = p]

(* The slot vs_spawn_process() picks: the first free one, or a new one.    *)
Occupy(p) ==
    \/ /\ \A i \in DOMAIN slots : slots[i] # NoPid
       /\ slots' = Append(slots, p)
    \/ \E i \in DOMAIN slots :
          /\ slots[i] = NoPid
          /\ \A j \in 1 .. i - 1 : slots[j] # NoPid
          /\ slots' = [slots EXCEPT ![i] = p]

(* The child inherits channel[0] of every open slot, its own included.     *)
Spawn(p) ==
    /\ mpc \in Spawning /\ left > 0
    /\ wpc[p] = "none"
    /\ Occupy(p)
    /\ wpc' = [wpc EXCEPT ![p] = "forked"]
    /\ holds' = [holds EXCEPT ![p] = Children \cup {p}]
    /\ left' = left - 1
    /\ UNCHANGED <<handler, mpc, told, budget, failed, reloads>>

(* socketpair() or fork() fails.  vs_start_worker_processes() gives up,    *)
(* the respawning loop goes on with its next iteration.                    *)
SpawnFails ==
    /\ mpc \in Spawning /\ left > 0
    /\ \/ Spend("failures")
       \/ (\A p \in Pids : wpc[p] # "none") /\ UNCHANGED budget
    /\ failed' = failed \cup {"spawn"}
    /\ left' = IF mpc = "respawn" THEN left - 1 ELSE 0
    /\ UNCHANGED <<handler, mpc, slots, workers, reloads>>

(* The spawning loop ends and its flag is cleared.                         *)
SpawningDone ==
    /\ mpc \in Spawning /\ left = 0
    /\ mpc' = IF mpc = "reload" THEN "recheck" ELSE "suspend"
    /\ raised' = CASE mpc = "start"   -> raised
                   [] mpc = "reload"  -> raised \ {"INT"}
                   [] mpc = "respawn" -> raised \ {"CHLD"}
    /\ UNCHANGED <<pending, at, depth, idx, left, slots, workers,
                   budget, failed, reloads>>

(* exit(): the channels close, dead children have nobody to wait for them. *)
MasterExits ==
    /\ mpc' = "exited"
    /\ wpc' = [p \in Pids |-> IF wpc[p] = "zombie" THEN "none" ELSE wpc[p]]
    /\ UNCHANGED <<handler, left, slots, told, holds, failed, reloads>>

(* Mutant: the flag of a reload is tested before the one of the exit.      *)
Wake_ReloadFirst ==
    /\ mpc = "woken"
    /\ \/ /\ "QUIT" \in raised /\ "INT" \notin raised
          /\ MasterExits
          /\ UNCHANGED budget
       \/ /\ "INT" \in raised
          /\ mpc' = "reload"
          /\ left' = ProcessNum
          /\ reloads' = reloads + 1
          /\ UNCHANGED <<handler, slots, workers, budget, failed>>
       \/ /\ raised \cap {"INT", "QUIT"} = {}
          /\ mpc' = "recheck"
          /\ UNCHANGED <<handler, left, slots, workers, budget, failed, reloads>>

(* sigsuspend() has returned: the tests of the two quit flags.             *)
Wake ==
    /\ mpc = "woken"
    /\ \/ /\ "QUIT" \in raised
          /\ MasterExits
          /\ UNCHANGED budget
       \/ /\ "QUIT" \notin raised /\ "INT" \in raised
          /\ mpc' = "reload"
          /\ left' = ProcessNum
          /\ reloads' = reloads + 1
          /\ UNCHANGED <<handler, slots, workers, budget, failed>>
       \/ /\ raised \cap {"INT", "QUIT"} = {}
          /\ mpc' = "recheck"
          /\ UNCHANGED <<handler, left, slots, workers, budget, failed, reloads>>

(* Mutants of the respawning loop: it starts n children for o occupied     *)
(* slots, without a lower limit or one too few.                            *)
RecheckWith(n(_)) ==
    /\ mpc = "recheck"
    /\ IF "CHLD" \in raised
       THEN /\ mpc' = "respawn"
            /\ left' = n(Cardinality(Occupied))
       ELSE mpc' = "suspend" /\ UNCHANGED left
    /\ UNCHANGED <<handler, slots, workers, budget, failed, reloads>>

Recheck_Unclamped == LET n(o) == ProcessNum - o IN RecheckWith(n)
Recheck_OneShort ==
    LET n(o) == IF o + 1 < ProcessNum THEN ProcessNum - o - 1 ELSE 0
    IN  RecheckWith(n)

(* The test of have_child_quit, and the count of the occupied slots.       *)
Recheck ==
    /\ mpc = "recheck"
    /\ IF "CHLD" \in raised
       THEN LET start_nums == Cardinality(Occupied)
            IN  /\ mpc' = "respawn"
                /\ left' = IF start_nums < ProcessNum THEN ProcessNum - start_nums ELSE 0
       ELSE mpc' = "suspend" /\ UNCHANGED left
    /\ UNCHANGED <<handler, slots, workers, budget, failed, reloads>>

-----------------------------------------------------------------------------
(* The workers (vs_worker_process_cycle and its channel handler)           *)

Dies(p) ==
    /\ wpc' = [wpc EXCEPT ![p] = IF Alive THEN "zombie" ELSE "none"]
    /\ holds' = [holds EXCEPT ![p] = {}]
    /\ pending' = IF Alive THEN pending \cup {"CHLD"} ELSE pending
    /\ UNCHANGED <<raised, at, depth, idx,
                   master, told, reloads>>

(***************************************************************************)
(* vs_worker_process_init(): the channel is drained before it is           *)
(* registered, so a quit sent since the fork ends the worker here;         *)
(* otherwise it closes every inherited channel[0] and enters its loop.     *)
(***************************************************************************)
WorkerInit(p) ==
    /\ wpc[p] = "forked"
    /\ \/ p \in told /\ Dies(p)
       \/ /\ p \notin told
          /\ wpc' = [wpc EXCEPT ![p] = "loop"]
          /\ holds' = [holds EXCEPT ![p] = {}]
          /\ UNCHANGED <<handler, master, told, reloads>>
    /\ UNCHANGED <<budget, failed>>

(***************************************************************************)
(* The initialisation fails before the channel is read (epoll_create) or   *)
(* after the inherited ends are closed (ko_busi_init).  proc() returns and *)
(* the child falls into the master's code: it closes channel[1] and goes   *)
(* on spawning and suspending as a second master.  What it does there is   *)
(* not followed, only that it exists.                                      *)
(***************************************************************************)
WorkerInitFails(p) ==
    /\ wpc[p] = "forked"
    /\ Spend("failures")
    /\ failed' = failed \cup {"init"}
    /\ wpc' = [wpc EXCEPT ![p] = "stray"]
    /\ \/ UNCHANGED holds
       \/ p \notin told /\ holds' = [holds EXCEPT ![p] = {}]
    /\ UNCHANGED <<handler, master, told, reloads>>

(* EPOLLIN without EPOLLHUP: the quit message is read, exit(0).            *)
WorkerQuits(p) ==
    /\ wpc[p] = "loop" /\ p \in told /\ ~Hup(p)
    /\ Dies(p)
    /\ UNCHANGED <<budget, failed>>

(* EPOLLHUP is looked at before EPOLLIN: the channel is closed unread.     *)
WorkerHup(p) ==
    /\ wpc[p] = "loop" /\ Hup(p)
    /\ wpc' = [wpc EXCEPT ![p] = "deaf"]
    /\ UNCHANGED <<handler, master, told, holds, budget, failed, reloads>>

WorkerCrashes(p) ==
    /\ wpc[p] \in {"forked", "loop", "deaf", "stray"}
    /\ Spend("crashes")
    /\ Dies(p)
    /\ UNCHANGED failed

MasterKilled == Alive /\ Spend("kills") /\ MasterExits

-----------------------------------------------------------------------------
MasterStep ==
    \/ \E s \in Signals : Deliver(s) \/ TellChild(s) \/ HandlerReturns(s)
    \/ SleepElapses \/ ReapDone \/ (\E p \in Pids : ReapChild(p) \/ Spawn(p))
    \/ BlockSignals \/ SpawnFails \/ SpawningDone \/ Wake \/ Recheck

WorkerStep(p) == WorkerInit(p) \/ WorkerInitFails(p) \/ WorkerQuits(p) \/ WorkerHup(p)

Environment ==
    \/ \E s \in External : SendSignal(s)
    \/ \E p \in Pids : WorkerCrashes(p)
    \/ MasterKilled

Next == MasterStep \/ (\E p \in Pids : WorkerStep(p)) \/ Environment

Spec == Init /\ [][Next]_vars

(***************************************************************************)
(* The kernel schedules the master and every worker: each is eventually    *)
(* run while it has something to do.  Nothing forces a signal, a crash, a  *)
(* failure or a kill.                                                      *)
(***************************************************************************)
FairSpec ==
    /\ Spec
    /\ WF_vars(MasterStep)
    /\ \A p \in Pids : WF_vars(WorkerInit(p) \/ WorkerQuits(p) \/ WorkerHup(p))

-----------------------------------------------------------------------------
(* Safety                                                                  *)

(***************************************************************************)
(* The table the master works from agrees with the processes it has: every *)
(* child that has not been waited for sits in exactly one slot, and no     *)
(* slot names a process that is gone (vs_spawn_process fills the slots,    *)
(* the SIGCHLD handler frees them, from interleaved contexts).             *)
(***************************************************************************)
SlotsMatchChildren ==
    /\ Alive => \A p \in Pids : wpc[p] # "none" <=> p \in Children
    /\ \A i, j \in DOMAIN slots : slots[i] = slots[j] /\ slots[i] # NoPid => i = j

(***************************************************************************)
(* No death goes unnoticed although SIGCHLD does not queue: while a dead   *)
(* child is in the table, SIGCHLD is pending or its handler is still going *)
(* to call waitpid().                                                      *)
(***************************************************************************)
DeadChildNoticed ==
    (\E p \in Pids : wpc[p] = "zombie") => "CHLD" \in pending \/ at["CHLD"] = "wait"

(***************************************************************************)
(* However reloads, crashes and respawns interleave, the master never has  *)
(* more than process_num children it has not told to quit.  (Only when no  *)
(* signal can arrive before the master blocks them.)                       *)
(***************************************************************************)
NeverOverstaffed == Cardinality(Untold) <= ProcessNum

(***************************************************************************)
(* The master does not fall asleep short of workers: suspended with no     *)
(* signal to handle and no failed spawn behind it, it has process_num      *)
(* children in its table (the count and the flag of the respawning loop).  *)
(***************************************************************************)
StaffedWhenSuspended ==
    mpc = "suspend" /\ Idle /\ "CHLD" \notin pending /\ failed = {}
        => Cardinality(Children) >= ProcessNum

(***************************************************************************)
(* vs_processes has room for VS_MAX_PROCESSES entries and nothing checks   *)
(* it.  The table grows by one generation per reload, never by respawning, *)
(* because a slot is reused as soon as its child is reaped.                *)
(***************************************************************************)
SlotTableBounded == Len(slots) <= ProcessNum * (1 + reloads)

(***************************************************************************)
(* When the SIGQUIT handler goes to sleep, and when the master exits       *)
(* because of SIGQUIT, every child it has was sent the quit message: no    *)
(* nested SIGCHLD or SIGINT handler makes the loop skip a slot.            *)
(***************************************************************************)
QuitToldEveryone ==
    at["QUIT"] \in {"sleep1", "sleep2", "done"} \/ (mpc = "exited" /\ "QUIT" \in raised /\ Idle)
        => Untold = {}

(***************************************************************************)
(* The master's table of children is right at every moment, also while     *)
(* handlers are nested, before the signals are blocked and after a kill:   *)
(* it holds every child once, forgets no death and stays within its bound. *)
(***************************************************************************)
ChildTable == SlotsMatchChildren /\ DeadChildNoticed /\ SlotTableBounded

(***************************************************************************)
(* A reload replaces workers, it does not add to them: when the main line  *)
(* starts a new generation, every child of the table has been told to quit *)
(* (the flag set by the SIGINT handler is read long after its loop).       *)
(***************************************************************************)
ReloadReplaces ==
    [][mpc = "woken" /\ mpc' = "reload" => Untold = {}]_vars

(***************************************************************************)
(* The master implements the pool of WorkerPool: its untold children serve,*)
(* the told ones are leaving.  A spawn fills a vacancy, a handler's send   *)
(* dismisses one worker, waitpid() removes one.                            *)
(***************************************************************************)
Pool == INSTANCE WorkerPool WITH serving <- Untold, leaving <- Children \cap told
ImplementsPool == Pool!Spec

(***************************************************************************)
(* The inductive invariant behind NeverOverstaffed, QuitToldEveryone and   *)
(* ImplementsPool when no signal can arrive before the master blocks them. *)
(* A handler runs only in sigsuspend(); its loop has told every slot it    *)
(* has passed; a raised quit flag whose handler has returned means that    *)
(* all were told; and each spawning loop has room for what is left of it.  *)
(***************************************************************************)
MainLine ==
    /\ mpc # "boot"
    /\ mpc \notin {"suspend", "exited"} => Idle
    /\ mpc \in Spawning \cup {"recheck"} => "QUIT" \notin raised
    /\ mpc \in {"start", "respawn", "recheck"} => "INT" \notin raised

TellLoops ==
    \A s \in {"INT", "QUIT"} :
        /\ at[s] = "tell" => \A j \in DOMAIN slots :
              j < idx[s] /\ slots[j] # NoPid => slots[j] \in told
        /\ at[s] \in {"sleep1", "sleep2", "done"} => Untold = {}
        /\ s \in raised /\ at[s] = "idle" /\ mpc \in {"suspend", "woken"} => Untold = {}

ExitTold == mpc = "exited" /\ "QUIT" \in raised /\ at["QUIT"] = "idle" => Untold = {}

Room ==
    /\ Cardinality(Untold) <= ProcessNum
    /\ mpc \in Spawning => Cardinality(Untold) + left <= ProcessNum

PoolInv ==
    MainLine /\ TellLoops /\ ExitTold /\ Room /\ SlotsMatchChildren /\ told \subseteq Children

(***************************************************************************)
(* The inductive invariant behind ChildTable, whenever signals arrive:     *)
(* what the spawning loop still has to start fits the bound of the table,  *)
(* and a respawning loop finds a free slot for every child it starts,      *)
(* since no handler runs outside boot and sigsuspend().                    *)
(***************************************************************************)
IdleOutside == mpc \notin {"boot", "suspend", "exited"} => Idle

TableRoom ==
    /\ SlotTableBounded
    /\ mpc \in {"boot", "start", "reload"} => Len(slots) + left <= ProcessNum * (1 + reloads)
    /\ mpc = "respawn" /\ left > 0 => Cardinality(Occupied) + left <= ProcessNum

TableInv == SlotsMatchChildren /\ DeadChildNoticed /\ IdleOutside /\ TableRoom

(***************************************************************************)
(* The inductive invariant behind StaffedWhenSuspended: a spawning loop    *)
(* ends with process_num children, and when there are fewer, the flag of   *)
(* SIGCHLD is up and the master is not asleep on it.                       *)
(***************************************************************************)
StaffInv ==
    /\ at["CHLD"] # "idle" => "CHLD" \in raised
    /\ failed = {} =>
        /\ mpc \in {"boot", "start"} => Idle /\ raised = {}
        /\ mpc = "suspend" /\ Idle => "CHLD" \notin raised
        /\ mpc \in {"boot"} \cup Spawning => Cardinality(Children) + left >= ProcessNum
        /\ mpc \in {"suspend", "woken", "recheck"} =>
              Cardinality(Children) >= ProcessNum \/ "CHLD" \in raised

(***************************************************************************)
(* README.md:10: ctrl+\ closes all processes.  Once the master has exited  *)
(* on SIGQUIT, no worker has dropped its channel with the quit unread.     *)
(***************************************************************************)
QuitClosesAll == mpc = "exited" /\ "QUIT" \in raised => \A p \in Pids : wpc[p] # "deaf"

(***************************************************************************)
(* README.md:20: one master process and several workers: no forked worker  *)
(* ever runs the master's code.                                            *)
(***************************************************************************)
OneMaster == \A p \in Pids : wpc[p] # "stray"

-----------------------------------------------------------------------------
(* Liveness                                                                *)

Serving == {p \in Pids : wpc[p] = "loop" /\ p \notin told}

(***************************************************************************)
(* Whatever signals, crashes and reloads happened, the system settles with *)
(* exactly process_num serving workers and no other child, or the master   *)
(* has exited (or a spawn failed, which the code does not retry).          *)
(***************************************************************************)
SettlesFullyStaffed ==
    <>[](\/ mpc = "exited" \/ failed # {}
         \/ Cardinality(Serving) = ProcessNum /\ Children = Serving)

(***************************************************************************)
(* SIGQUIT is obeyed: the master exits, whatever handlers SIGQUIT is       *)
(* nested with (unless it came before sigprocmask(): then the flag is only *)
(* looked at after the next signal); and a worker that was sent the quit   *)
(* message stops serving: it exits, or it finds the channel closed, or its *)
(* initialisation fails.                                                   *)
(***************************************************************************)
QuitIsObeyed ==
    /\ "QUIT" \in pending ~> mpc = "exited" \/ "early" \in failed
    /\ \A p \in Pids : (p \in told /\ wpc[p] \in {"forked", "loop"})
                            ~> (wpc[p] \notin {"forked", "loop"})
=============================================================================
