# A verification model of the `master_work` server

`master_work` is a Linux TCP/UDP server in C: one master process forks
`process_num` workers, tells them to quit over a socket pair each, and replaces
them on signals; every worker runs an edge-triggered epoll loop with timers in a
red-black tree, a receive buffer per connection that is cut into frames
(`size,flag,data`), and a send chain per connection.  This directory holds TLA+
modules translated from that code, TLC configurations that check them, and
TLAPS proofs about them.

    tlc -workers 2 -config <run>.cfg <module>.tla      # a run of the table below
    tlapm <Component>Proofs.tla                        # the proofs of a component

Sections: [inventory](#1-inventory), [modules](#2-modules-and-how-they-correspond-to-the-code),
[runs](#3-runs), [fairness](#4-fairness), [proofs](#5-proofs),
[findings](#6-findings), [not modelled](#7-not-modelled-and-why),
[plan](#8-plan).


## 1. Inventory

| Component | State | Operations | Hard behaviour | What makes it correct |
|---|---|---|---|---|
| Master and signals `os/vs_process_cycle.c`, `os/vs_process.c`, `os/vs_signal.c` | `vs_processes[]`, `vs_last_process`, the flags `vs_child_quit`, `vs_all_quit`, `have_child_quit`, blocked signals | spawn, reload, respawn, exit; a handler per signal | handlers nest in any order and interrupt `sigsuspend()` and `sleep()`; SIGCHLD does not queue; flags are read long after they are set; a spawn fails | the pool is staffed, never overstaffed; a reload replaces; SIGQUIT reaches everyone and ends the master; the table agrees with the children |
| Channel `net/vs_net_channel.c` | one socket pair per child; copies of its ends in processes forked later | write the quit message, read it, hang up | a message before the worker has registered the channel; EPOLLHUP racing the message | a told worker leaves; hang-up only without a master |
| Worker loop `event/vs_event.c`, `net/vs_net.c` | the batch of an `epoll_wait()`, `rev`/`wev` of a connection, epoll's registrations | dispatch, add and delete registrations, clean a connection | the batch names connections by address, which may be freed and reused; edge-triggered accept from a socket all workers share; `epoll_ctl()` or `accept()` fails | nothing freed is found; flags equal timers and registrations; waiting clients have an event to come |
| Timers `event/vs_event_timer.c` | `is_set_timeout` and `timer_node` of a connection | add, delete, expire | closing relies on a timer of 0 s; a node is embedded in what is freed; the wall clock is set back; keys are computed as `int`, ordered as unsigned, compared as signed | linked at most once; a closing connection is timed, and released; nothing due is left behind |
| Red-black tree `core/vs_rbtree.c` | links, colours, sentinel | insert, delete, minimum, rotations | mirrored cases; the sentinel has a parent while it is being rebalanced | links agree, red-black rules, order and stability, loops end |
| Receive path `conn/vs_conn_recv.c`, `net/vs_net.c` | `recv_pre_size`, `recv_size`, `recv_back_size`, `client_error`, `client_shutdown`, `server_shutdown` | receive, compact, cut frames, hand over, close | any fragmentation; the buffer fills exactly; a short read ends an edge-triggered loop; a handler closes the connection | frames are handed over complete, in order, once; none is left; unread data has an event; a client that has closed is let go |
| Send path `conn/vs_conn_send.c`, `conn/vs_conn.c`, `net/vs_net.c` | `send_chain`, `send_spare_chain`, two counters, `wev` | send directly, queue, drain, reuse nodes | partial sends; a full socket buffer; reuse of nodes by size; registration consumed and set again | every accepted byte is accounted for, by number and order; bounded chain and memory; no lost wake-up |
| TCP accept `conn/vs_conn_accept.c` | the listening socket's queue | accept until EAGAIN | see worker loop | see worker loop |
| UDP `conn/vs_conn_accept.c`, `busi/vs_busi.c` | the socket's queue, shared by all workers; a datagram buffer of 1024 bytes | receive until EAGAIN, log | an empty datagram ends the loop; an epoll per worker on one socket; a datagram that fills the buffer | each message is taken once; a queued datagram is known to every worker |
| Log `core/vs_log.c` | a descriptor and a size counter per worker, both inherited | write a line, turn to a new file | one file for all; counters that know only their own lines; names that repeat within a second; a failing `open()` | no line is overwritten or lost; the length of a file is bounded |
| Memory pool `core/vs_mem.c` | blocks, `current`, failure counts, cells of large requests and their count | create, allocate small and large, free, reset, destroy | headers of two sizes; blocks that are passed over; cells used again; a failing `malloc()` half-way | areas never overlap; every large request is in one cell; a search is bounded |
| Outbound connections `conn/vs_conn_connect.c` | as accepted ones, without timer and read event | connect | epoll does not know it until something is left to send | see worker loop |
| Business `busi/*` | none of its own | one handler per frame, timeout, close | may send to and close any connection it knows | as the code calls it: any sequence of sends and closes |
| Time, configuration, listening sockets, daemon, start-up, test client | see `PROJECT.json` | | | left out or reduced to what the others see |

**Interaction.**  The master and its workers share only the channels, inherited
descriptors and signals.  Inside a worker there is one thread: epoll and the
timers call handlers through function pointers (`rev->handle`, `wev->handle`,
`error_handle`, `timeout_handle`), handlers call the business, and the business
calls back into `vs_net_send_tcp()`, `vs_net_set_conn_close()` and
`vs_net_tcp_connect()`, for the connection it was called for or for another.  What interleaves with a worker is
the kernel: data, peers, other workers accepting, receiving or
logging, the clock.

`PROJECT.json` lists each hazard at its line with the properties that watch it.


## 2. Modules and how they correspond to the code

| Module | Models | Abstraction it implements |
|---|---|---|
| `ProcessCycle` | master, signal handlers, workers as the master sees them, channel | `WorkerPool` |
| `WorkerLoop` | rounds of the worker's loop and the life of its connections | |
| `RecvBuffer` | the receive path of one connection | `FrameDelivery` |
| `SendChain` | the send path of one connection | |
| `RBTree` | the timer tree, one rebalancing round per step | `TimerQueue` |
| `MemPool` | the pool connections and the cycle allocate from | |
| `UdpLog` | the UDP socket of all workers and the application log they write to | |
| `ProcessCycleProofs`, `ProcessTableProofs`, `WorkerLoopProofs`, `RecvBufferProofs`, `SendChainProofs`, `MemPoolProofs`, `UdpLogProofs`, `RBTreeProofs` | theorems | |
| `MC...` | values and symmetry for TLC, one module per component | |

A definition whose name has the form `Name_Variant` stands before `Name` and is
a plausible mistake in it (a dropped guard, a missing reset, an off-by-one).  It
is used nowhere: `PROJECT.json` "mutants" pairs each property with the variant
that breaks it, which shows that the property depends on the code.

**ProcessCycle.**  `mpc` is where the main line of the master is (`suspend` is
inside `sigsuspend()`), `left` what remains of its spawning loop.  Signals are
blocked outside `sigsuspend()`; inside, `Deliver` starts a handler on top of
whatever handler runs (`depth` is the stack of signal frames), because `sa_mask`
is empty and only the handler's own signal is blocked.  `TellChild` is one turn
of the loop that writes to the channels, `SleepElapses` one `sleep(1)`, which any
other handler ends early (`Interrupted`), `ReapChild` one `waitpid()` that
returns a child.  `Wake` and `Recheck` are the tests after `sigsuspend()`, in
order.  `Spawn` and `Occupy` are `vs_spawn_process()` with its search for a free
slot.  A worker is `forked` until its initialisation has read and registered the
channel, `loop` in its event loop, `deaf` once it has closed the channel on
EPOLLHUP, `stray` when a failed initialisation made it return into the master's
code.  `holds` are the copies of `channel[0]` it inherited: they delay the
hang-up (`Hup`).  `StartWindow` opens the gap between installing handlers and
blocking signals; `PromptWorkers` restricts behaviours to those where every
running worker reads its message within one uninterrupted `sleep(1)`.  `failed`
remembers what went wrong, a signal that came before it was blocked among it.

**WorkerLoop.**  A connection is its address, so addresses are reused.  `batch`
is what `epoll_wait()` returned and is not looked at yet.  `active` are the two
`active` flags, `mask` epoll's own registration, so that a failed `epoll_ctl()`
makes them differ.  `linked` counts how often a node is in the tree, `armed` is
`is_set_timeout`.  `Wrap` is the `int` a key is computed in, `Due` the unsigned
number the tree orders by, `TimeLeft` the signed difference of the expiry.
`BusinessRuns` is a call into the business: it may close any set of connections
and may leave data to send; `AddWriteEvent` is the registration for EPOLLOUT this
needs, which sets `wev->active` also when `epoll_ctl()` fails (`vs_event.c:138`);
`Connects` is its `vs_net_tcp_connect()`.  `Clean` is `vs_net_clean()` up
to the free, `Notify` the rest (the code tells the business and closes the
descriptor after freeing).  A read of a block that was freed by the handler
before (`vs_event.c:78`) reads it as it was left, which is what `free()` does not
promise: `NothingDangling` says that `wev` is inactive there, so that no handler
runs, and no more.

**RecvBuffer.**  Bytes are counted, not stored: the byte at the start of the
middle area is number `rcvd - recv_size` of the stream, and the client's stream
is cut at `ends`.  Each `recv()` call is a step, with any number of bytes the
kernel may return, and the client is a thread of `clientTest/client.cpp`: it sends
in pieces, closes or breaks; `Top` is the test of the loop, `HandleFrame` and `NotEnough`
one turn of `vs_net_recv_check()`.  A header may announce less than its own size
(`vs_net.c:180-186` accept 0 and negative numbers): `rest` are the bytes from the
first such header on, `Malformed` says that it is next, and `Unframed` is where the
connection is followed no further.  The registration is edge-triggered: `edge`
is raised by an arrival and consumed by a report.  `SafeMemcpy = FALSE` adds the
undefined outcome of the overlapping `memcpy()` in the compaction.

**SendChain.**  Bytes are numbered by their position in the stream of accepted
messages; a node has the position of its first byte and of its end, its
remaining `size` and its `allsize`.  `ChainCovers` accounts for them by number and
order: the last `size` bytes of each node are what it still owes, and the nodes
follow one another.  Which bytes the socket is given for them is a question of its
own, `StreamInOrder`, and finding 3 is its answer.  Here `epoll_ctl()` succeeds; that
it may fail is part of `WorkerLoop`.  `Direct`, `Queue`, `DealNode`, `Enqueue`
follow `vs_net_send_tcp()` and `vs_net_deal_send_chain()`.  `nospace` and `edge`
are the kernel's side of EPOLLOUT: after a send that did not fit, the next free
space of at least `LowWater` bytes raises one event.

**RBTree.**  `Insert` and `Delete` link or unlink a node, and each round of the
rebalancing loops is a step of its own, so the invariants are also checked in the
middle.  Code that exists twice, for left and right, has the side as a parameter.
Stale parents of the root and of the sentinel are `NULL`: following one is an
error of the model.

**MemPool.**  A block is where its `last` is and how often it `failed`; addresses
are offsets, and `areas` is what has been cut from the blocks, the cells for large
requests among it.  `CutFrom` and `CutFromNew` are the two ways a small request is
served, `NewCell` and `Reuse` the two ways a large one is remembered.  A call that
fails half-way leaves what it leaves (`LargeFails`).  The two headers have
different sizes, as in the code.  `large_nums` counts modulo `SizeMod`, as a
`size_t`.  Callers are arbitrary: any order of requests, frees and resets, although the
program itself has no caller of `vs_pfree()` and `vs_reset_pool()` yet.

**UdpLog.**  `queue` is the receive queue of the one socket, `edge` whether the
epoll of a worker will report it.  A worker receives (`Recv`, `RecvAgain`,
`RecvEmpty`), writes a line (`Log`), and turns over when its own counter says so
(`LogTurn`, `LogTurnFails`).  Lines have the size 1.  A file is named by the cached
second, so two workers may turn to the same file.  A worker that dies is replaced
(`Respawn`) with the descriptor the master has had since `main()`.  Where that
points is left open: `main.c:31` compiles `vs_log_set_path_for_printf()` and not
`vs_daemon()`, so as built lines go to the terminal and nothing is turned over;
with the other branch they go to the file of the start, or to the one in /tmp if
that could not be opened.


## 3. Runs

| Run | Instance | Shows |
|---|---|---|
| `process_safety` | 2 workers, 4 pids, 2 signals, 1 crash, 1 failed spawn or initialisation | `StaffedWhenSuspended`, `QuitToldEveryone`, `ReloadReplaces`; `ImplementsPool` |
| `process_liveness` | 1 worker, 4 pids, 2 signals, 1 crash, with `StartWindow` and a master that may be killed | `ChildTable`; `SettlesFullyStaffed`, `QuitIsObeyed` |
| `process_quit_closes_all` | 3 workers, 3 pids, 1 signal, prompt workers | violation, finding 1 |
| `process_one_master` | as `process_safety` | violation, finding 2 |
| `recv` | buffer of 5, header of 2, streams of up to 3 frames of 2, 3, 5 or 6 bytes, each also with 3 bytes behind them that begin with a header announcing less than itself | `Aligned`, `UnreadDataHasEdge`, `ShutdownMeansClosed`; `ImplementsDelivery`; `FramesHandled`, `CloseReleases` |
| `send` | chain limit 2, socket buffer of 3, messages of 1 and 4 bytes, 5 sends | `ChainCovers`, `ListsBounded`, `FitsAllocation`, `WakeupComes`; `ChainDrains` |
| `send_stream_in_order` | the same | violation, finding 3 |
| `loop_safety` | 2 addresses, clock 0..2 with an `int` of -2..1, 1 failing call (`accept()`, `malloc()` or an `epoll_ctl()`) | `NothingDangling`, `FlagsTrue`, `BacklogHasEdge`, `NothingOverdue` |
| `loop_liveness` | 1 address, clock 0..3 set back twice | `Released` |
| `tree` | 8 timers, two pairs with equal keys, every order of insertions and deletions | `PointersSound`, `RedBlack`, `RoundsClimb`; `ImplementsQueue` |
| `pool` | blocks of 6, headers of 3 and 2, requests of 2 and 3, up to 5 blocks, 3 cells, 2 reused, 1 failing `malloc()` | `AreasDisjoint`, `HeapAccounted`, `ScanBounded` |
| `log` | 2 workers, 4 messages, 1 empty datagram, limit of 1 line, clock 0..1, 1 death, 1 failing `open()` | `LinesKept`, `DatagramsKnown`, `FileBounded` |

Every passing run but the two liveness ones also checks the type invariant of its
module.

**Bounds.**  `MaxSignals`, `MaxCrashes`, `MaxFailures`, `MaxKills`, `MaxSends`,
`MaxClock`, `MaxBack`, `MaxDeaths`, `MaxBlocks`, `MaxCells`, `MaxReused` and `Count`
bound what the environment or the callers do, never what the code does.  They are chosen so that the interesting cases happen:

* Two signals and a crash give a reload during an exit, a second reload before
  the first is noticed, and SIGCHLD nested in both.  Two workers with four pids
  give a generation being replaced while the old one still leaves.
* In a buffer of 5 a frame of 6 does not fit (`buf_error`), one of 5 fills it
  exactly, and a frame of 2 in front of a longer one leaves a handled part that
  must be compacted while a frame is half received.
* With a socket buffer of 3 a message of 4 is always sent partially and one of 1
  sometimes fits; with a limit of 2 three sends without a drain meet the limit,
  and five sends reuse nodes of both sizes.
* Two addresses are enough for a handler that closes another connection of the
  same batch, and for an address that is accepted again while its old timer or
  event could still exist.  With an `int` of -2..1 the second 2 is beyond it: keys
  wrap while others have not, which the code meets in 2038.
* Eight timers reach every case of the two rebalancing loops, both sides, with
  the sentinel as `temp`.
* In a pool whose blocks may fail once (`FailedMax = 0`) the fourth block makes the
  search pass over the first, and the fifth over the second; requests of 2 and 3 leave
  rests of every size, and three cells are more than the one that is looked at for
  reuse.  Counting modulo 4 lets `large_nums` wrap.
* With a limit of 1 line the second one turns a file over; four messages let both
  workers do so in the same second, fail once and be replaced in between.

Pids, addresses, workers and messages are symmetric in the safety runs; runs with a
liveness property use no symmetry.  `CHECK_DEADLOCK FALSE` stands where the system
really may stop: the master has exited or a connection is freed.  The other runs
check deadlock.


## 4. Fairness

* `ProcessCycle!FairSpec`: the master is scheduled, and so is every worker
  (initialise, read the quit message, notice a hang-up).  That is the kernel's
  scheduler and nothing more: no signal, crash, failure or kill is forced.
  `WorkerInitFails` is outside it, so it is never relied on.
* `RecvBuffer!FairSpec`: the worker goes on with its handler and comes back to a
  connection with an event; the client is not forced to send.
* `SendChain!FairSpec`: the same, and the peer goes on reading as long as there
  is something to read.  A peer that stops reading forever stops the chain, and
  the code promises nothing then.
* `WorkerLoop!FairSpec`: the worker is scheduled and the clock goes on.  It may be
  set back `MaxBack` times, after which time passes again.  The accept loop
  cannot starve the rest because at most one client per address waits.
* `MemPool` and `UdpLog` state no liveness: a pool runs only when it is called, and a
  datagram behind an empty one really may wait for ever.


## 5. Proofs

Every theorem holds for all values of the constants that satisfy the named
assumptions of its module.  The assumptions are those of the types
(`IsFiniteSet(Pids)`, `HeaderSize <= BufSize`, ...).  `LayoutAssumption` says what a
frame is: its size counts the header, which `vs_interface.h` declares as the first
member of every message.  It does not say that clients send frames only, for a
stream may go on with any bytes after them (`Rests`), up to whose header it is
followed.

**ProcessCycleProofs.**  `TypeCorrect`; then, for a master that no signal reaches
before it blocks them (`~StartWindow`), `PoolInvariant`, and from it
`NotOverstaffed`, `QuitReachesEveryone`, `ReloadIsReplacement` and
`MasterImplementsPool`.  The bound on the workers is not inductive: to know that
a reload has room for `process_num` workers one has to know that everyone was
told when the flag is read, and the flag is read after other handlers have run.
`PoolInv` therefore says what a telling loop has done so far (`TellLoops`: every
slot it has passed is told, free, or freed by a nested SIGCHLD), what a raised
flag means once its handler has returned, where the flags are down (`MainLine`),
and how many workers the running spawning loop may still add (`Room`).  Handlers
cannot add children, so a nested handler only removes what a loop has yet to
tell.  With `StartWindow` the statement is false: a SIGINT that arrives before
the first worker exists leaves its flag set over an empty table, and the first
wake-up starts a second generation without telling the first.  This is why
`process_liveness`, which has the window, does not list `ImplementsPool`.

**ProcessTableProofs.**  For any `StartWindow`, kills included: `TableInvariant`,
and from it `ChildTableRight`; and `StaffedAsleep`.  `ChildTable` is not inductive
because the table may be at its bound when a loop goes on to spawn: `TableRoom`
says that a respawning loop finds a free slot for every child it has still to
start (it counted the free slots and nothing has changed since, no handler runs
outside `boot` and `sigsuspend()`), and that a generation has its own slots of the
bound.  For `StaffedAsleep`, `StaffInv` ties the number of children to the flag of
SIGCHLD: they are complete, or a loop is still counting up to them, or the flag is
raised and the master awake.

**RecvBufferProofs.**  `TypeCorrect`: the three counters are natural numbers that
fit the buffer, for every stream as long as no header that announces less than
itself has been handed over (behind a negative one `recv_pre_size` becomes negative,
and the model ends in `Unframed` before that).  `RecvInvariant`, and from it `FramingKept`,
`NoFrameLeft`, `NoStarvedData`, `ShutdownExplained` and `RecvImplementsDelivery`.  `RecvInv` adds to
the framing what the local `res` of the read handler says about the socket: after
AGAIN, or a short read, everything that had arrived was read or an event is to
come, bar the end of the stream behind data (`Quiet`, `Drained`); after a full buffer that is so only unless nothing can be
compacted.  Without it, that the handler returns only when it is safe to wait
would not follow from where it is.

**SendChainProofs.**  `TypeCorrect`, `SendInvariant`, and from it `ChainAccounts`
(the chain accounts for every byte by number and order, not for what is sent in its
place),
`ChainLimited`, `PoolUseLimited`, `CopiesFit` and `NoLostWakeup`.  `SendInv` strengthens
`WakeupComes` to `WakeupKept`, which also covers the middle of a call: the event
is there, or will be raised, except while the write handler is consuming it.
For `PoolUseLimited` the bound is proved for every size, used or not
(`SizesBounded`): a new node is allocated only when no spare one of its size is
left, so that all of them are pending, and the pending chain is below its limit.

**WorkerLoopProofs.**  `LoopInvariant`, and from it `TypeCorrect`,
`FreedMeansGone`, `FlagsTellTruth`, `BacklogNoticed` and `NoneOverdue`.  `LoopInv`
adds that the connection in a handler's hands exists and its events are off the
batch (`BatchInOrder`: handlers free only their own connection, which is what makes
a batch of addresses safe).  `NoneOverdue` needs that `MaxClock + TIMEOUTS` is
less than twice the range of an `int` (`TimeAssumption`), the year 2106.

**MemPoolProofs.**  `PoolInvariant`, and from it `TypeCorrect`, `NothingOverlaps`,
`LargeAccounted` and `SearchIsShort`, for all sizes for which the first block has
room for a cell.  `ScanBounded` is not inductive: `FailuresCounted` says how often
each block that is still looked at has failed, once for every block added behind it
since the last reset, so that a block is passed over after a known number of them.
`PoolInv` also says that `last` stays between the header and the end of a block.

**UdpLogProofs.**  `LogInvariant`, and from it `TypeCorrect` and `QueueIsKnown`;
`LinesNeverLost` (`LinesKept`); and `FilesAreBounded` (`FileBounded`), for any number
of workers and messages, none of which is the value that stands for an empty
`recv_data` (`DatagramAssumption`).
`LinesKept` counts places, which no step can be shown to keep; `PlaceInv` names them
instead: every message is unsent, lost, at one index of the queue, with one worker or
at one line of one file, and at none of the others.  It needs `HandsFree`, that a
worker has logged what it held before it reads the next datagram.
`FileBounded` would, as an invariant, sum up what each worker may still write to a
file.  `RoomInv` avoids the sum: each time a worker begins to write to a file it books
`LIMIT + 1` numbered lines; there is a set of used lines, at least as large as the
file is long, and the rest of each worker's own booking is free (`Booked`).  A line
takes one from there, and the bound is the size of the whole set of bookings.

**RBTreeProofs.**  `TreeInvariant`, and from it `TypeCorrect`, `PointersStaySound`,
`ColoursBalanced`, `TreeImplementsQueue` and `LoopsClimb`, for any number of timers and
any keys.  Nothing in `TreeInv` is recursive: a binary tree is described from
outside.  `Shape` says that there is a sequence `s` of the linked nodes, with `at[x]`
the place of `x`, such that the nodes below `x` are exactly the places
`lo[x] .. hi[x]`, the left branch those before `at[x]`, the right one those behind it.
From this follows all that a rotation or an exchange of nodes has to know about links
(`Apart`: nodes that are linked are different ones), and with it the order is a
fact about `s` alone: rotations keep `s` (`RotateKeepsPlaced`), painting too, hanging
up a leaf inserts into it (`AttachKeepsPlaced`), and a deletion takes one node out of
it, also when the successor takes the place of the deleted node
(`SpliceKeepsPlaced`).  Colours are described by a black height `h` per node that its
two branches agree on, except that while a deletion is being rebalanced one is short
by one on one side of one node (`Even`), and that two red nodes hang together only at
the node of the running loop (`Clean`); each case of the two loops is a lemma
(`RecoloursBalance` and `RecolourShort` for recolouring; `OuterTurn`, `InnerTurn`,
`SiblingTurns`, `NearTurn` and `LastTurn` for rotations).
The model's walks are recursive functions, and these need induction over the tree.
The theorem of induction takes an operator and cannot be used with the installed
provers; a set of numbers that holds 0 and each successor is everything by the
pigeonhole theorem instead (`NumbersFromZero`), and a set of nodes that holds each node
whose children it holds is everything by the width of the intervals
(`NodesFromBelow`).  Induction over numbers also shows that the functions exist at all
(`LayersExist`, `SearchEnds`, `DescentEnds`), which TLA+ does not promise of a recursive definition: a loop that
follows links ends because the interval becomes smaller.  With that the walk of the
model is `s` (`WalkFinds`), and each step of the tree is a step of `TimerQueue` or none.
Links are followed only as long as they lead to nodes, so that the definitions mean
something for every value of `tree`.

**Only model-checked.**  Every invariant, action property and refinement that a
passing run checks is stated by a theorem.  The liveness properties
(`SettlesFullyStaffed`, `QuitIsObeyed`, `FramesHandled`, `CloseReleases`, `ChainDrains`,
`Released`) stay with TLC: they rest on weak fairness, which is about ENABLED, and
the provers here have no means to reduce ENABLED of a step to a condition on the state.
`LoopsClimb` is the part of termination of the tree's loops that is safety: a
number that becomes smaller with every round.
The three properties of section 6 are false and have a counterexample each.


## 6. Findings

Each has a run that ends in a counterexample.

1. `process_quit_closes_all`.  `README.md:10` says that ctrl+\ closes all
   processes.  With three workers and that one signal, the SIGCHLD handler of the first child that
   quits ends the first `sleep(1)` of the SIGQUIT handler, that of the second child
   the other one; the master exits while the third has not read its message, EPOLLHUP is looked at before EPOLLIN (`vs_event.c:66`), and
   that child drops the channel unread and serves on without a master.
2. `process_one_master`.  A worker whose initialisation fails returns from
   `proc()` into `vs_spawn_process()` (`vs_process.c:48`) and goes on as a second
   master.
3. `send_stream_in_order`.  After a partial send of a node `size` shrinks but `data`
   stays (`vs_net.c:224`): the first bytes are sent again, the last never.

Observed while modelling, without a run of their own:

* With a full buffer `recv()` is called for 0 bytes; its 0 is taken for the end of
  the stream (`vs_conn_recv.c:23`), so that a client that sends faster than it is
  read is disconnected.  `ShutdownMeansClosed` states that this is the only case.
* A FIN that arrives behind part of a frame is not seen after a short read; the
  timeout has to end it (`UnreadDataHasEdge`, `Drained`).
* The compaction uses `memcpy()` on areas that may overlap (`vs_conn_recv.c:33`).
* `vs_net_clean()` frees the connection before it notifies the business, the reverse
  of the comment at `vs_net.c:193-196`; `vs_event.c:78` reads `c->wev` of a
  connection the read handler may have freed.
* `vs_rbtree.c:130-135` says that the comparison takes the overflow of keys into
  account; it does not.  Beyond the range of `int` keys sort behind all others and
  are due at once: timers expire early, none is missed (`NothingOverdue`).
* An empty datagram ends the receive loop (`vs_conn_accept.c:63`); one of 1024 bytes
  gets its terminator behind the buffer (`vs_busi.c:52`).
* Counters are meant to follow sizes, but `vs_net.c:180-186` test no lower bound: a
  header that announces 0 is handed over again and again, and one that announces
  less moves `recv_pre_size` back (`Unframed`).
* `large_nums` would fall behind, and below 0, once a cell is used again
  (`vs_mem.c:206`), which needs a caller of `vs_pfree()`; and `vs_mem.h:57-58` declares two variables nobody defines.
* Each worker counts its own lines only, so a log file may become as long as the
  limit times the workers that wrote to it (`FileBounded`).
* A blocking `connect()` stops all connections of a worker
  (`vs_conn_connect.c:24`) and its descriptor stays open when it fails.
* `vs_init_cycle()` ends without a `return` although `main()` tests its result;
  `cycle->listener` and the length given to `accept()` are read uninitialised.


## 7. Not modelled, and why

* `SendChain` and `RecvBuffer` take one connection each; `WorkerLoop` takes all of
  them and leaves open what a handler receives and sends, which is more than the
  two do.  They are not composed in one module: what each needs of the others
  (events that come again, a handler that cleans up, a timer) is a step of its own
  environment.
* Allocation failures the code does not test for (a NULL from `vs_alloc()` is
  used) would end every behaviour in a crash.
* Partial writes of the 4-byte channel message: the code ignores the result of
  `send()`, and a fresh socket pair has room for it.
* Configuration (nothing reads its values), daemon (compiled out), the opening of the
  listening sockets (a straight line), the statistics of the test client, the system
  log (the code of the application log on other variables), and functions nobody
  calls (`vs_rbtree_get()`, `vs_rbtree_max()`, `vs_net_send_udp_simple()`,
  `vs_palloc_just_large()`).  Nobody calls `vs_pfree()` and `vs_reset_pool()` either;
  `MemPool` has them, as they belong to what a pool offers.
* What the loop makes of a stream behind a header that announces less than itself:
  there are no frames any more, and no property to state of them.
* The capacity of the table, 64 (`VS_MAX_PROCESSES`): `ChildTable` bounds the slots
  in use by `process_num` per generation and does not compare that with 64.
* Contents of messages, formatting, logging.


## 8. Plan

Done: all components of the table of section 1 but those under section 7, with
three abstract specifications, and proofs of every safety property of all of them.

What would add most next:

1. **SendChain**: an abstract byte stream (what the peer receives is a prefix of what
   was accepted), which the code refines only with finding 3 repaired.
2. **Composition** of `RecvBuffer` and `SendChain` for one connection whose handler
   answers, with the timeout that ends a connection behind part of a frame.
3. **WorkerLoop and RBTree**: the timers of `WorkerLoop` as a `TimerQueue`, so that the
   order in which equal timers expire is a statement about connections.
4. **Liveness**: the safety part of each liveness property as a theorem of its own,
   such as a measure that the steps of a fair action decrease, like `LoopsClimb`.
