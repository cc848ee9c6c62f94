------------------------------ MODULE WorkerLoop -----------------------------
(***************************************************************************)
(* The loop of a worker and the life of its TCP connections:               *)
(* vs_worker_process_cycle() of src/os/vs_process_cycle.c,                 *)
(* vs_process_events() and the registrations of src/event/vs_event.c,      *)
(* the timers of src/event/vs_event_timer.c, vs_conn_tcp_accept() of       *)
(* src/conn/vs_conn_accept.c and the handlers of src/net/vs_net.c.         *)
(*                                                                         *)
(* Each round updates the cached time, expires timers, and handles one     *)
(* batch of epoll events.  What a handler receives, sends and decides is   *)
(* left open here (RecvBuffer and SendChain say what it does): it keeps    *)
(* the connection or cleans it up, leaves data to send or not, may close   *)
(* other connections the business holds and open connections of its own    *)
(* (vs_conn_tcp_connect() of src/conn/vs_conn_connect.c).                  *)
(***************************************************************************)
EXTENDS Integers, FiniteSets

CONSTANTS
    Conns,         \* the addresses vs_alloc() can return for a vs_conn_t
    NoConn,
    TIMEOUTS,      \* seconds of silence before the timeout handler runs
    IntMax,        \* an int holds -IntMax .. IntMax - 1 (2^31)
    MaxClock,      \* bound: the last second of the clock
    MaxBack,       \* bound: how often the clock is set back
    MaxFailures    \* bound: failing accept() and epoll_ctl() calls

ASSUME ConnsAssumption == IsFiniteSet(Conns) /\ NoConn \notin Conns
ASSUME TimeAssumption ==
    /\ TIMEOUTS \in Nat /\ MaxClock \in Nat /\ IntMax \in Nat
    /\ MaxClock + TIMEOUTS < 2 * IntMax
ASSUME BoundAssumption == MaxBack \in Nat /\ MaxFailures \in Nat

VARIABLES
    pc,         \* where the worker is
    conn,       \* the connection it is working on
    todo,       \* the events reported for that connection
    batch,      \* per connection: the events of this epoll_wait() not looked at yet
    lbatch,     \* 1 while the listening socket's event is among them
    cur,        \* vs_current_sec
    alloc,      \* the connections that exist
    closing,    \* those with server_shutdown = 1
    active,     \* per connection: which of rev (IN) and wev (OUT) are active
    mask,       \* per connection: the events registered with epoll, {} if none
    armed,      \* those with is_set_timeout = 1
    linked,     \* per connection: how often it is in vs_event_timer_rbtree
    key,        \* per connection: timer_node.key.v
    clock,      \* the system's clock
    queue,      \* how many connections wait for accept()
    ledge,      \* 1 when an event of the listening socket is ready
    ready,      \* per connection: the events that are ready
    peer,       \* per connection: "open" or "gone"
    budget,     \* what may still go wrong
    failed      \* history: "epoll_ctl" once one failed, "accept" once its loop was left

loop   == <<pc, conn, todo, batch, lbatch, cur>>
regs   == <<active, mask>>
timers == <<armed, linked, key>>
conns  == <<alloc, closing, regs, timers>>
kernel == <<clock, queue, ledge, ready, peer>>
vars   == <<loop, conns, kernel, budget, failed>>

Events == {"IN", "OUT", "ERR"}

TypeOK ==
    /\ pc \in {"time", "timers", "wait", "events", "listen",
              "handle", "read", "write", "expired", "cleaned"}
    /\ conn \in Conns \cup {NoConn} /\ todo \subseteq Events
    /\ batch \in [Conns -> SUBSET Events] /\ lbatch \in {0, 1}
    /\ cur \in 0 .. MaxClock /\ clock \in 0 .. MaxClock
    /\ alloc \subseteq Conns /\ closing \subseteq Conns
    /\ active \in [Conns -> SUBSET {"IN", "OUT"}]
    /\ mask \in [Conns -> SUBSET {"IN", "OUT"}]
    /\ armed \subseteq Conns
    /\ linked \in [Conns -> Int] /\ key \in [Conns -> -IntMax .. IntMax - 1]
    /\ queue \in Nat /\ ledge \in {0, 1}
    /\ ready \in [Conns -> SUBSET Events]
    /\ peer \in [Conns -> {"open", "gone"}]
    /\ budget \in [{"back", "failures"} -> Nat]
    /\ failed \subseteq {"accept", "epoll_ctl"}

(* The worker enters its loop: vs_worker_process_init() has registered the *)
(* listening sockets and the channel.                                      *)
Init ==
    /\ pc = "time" /\ conn = NoConn /\ todo = {}
    /\ batch = [c \in Conns |-> {}] /\ lbatch = 0
    /\ cur = 0 /\ alloc = {} /\ closing = {}
    /\ active = [c \in Conns |-> {}] /\ mask = [c \in Conns |-> {}]
    /\ armed = {} /\ linked = [c \in Conns |-> 0] /\ key = [c \in Conns |-> 0]
    /\ clock = 0 /\ queue = 0 /\ ledge = 0
    /\ ready = [c \in Conns |-> {}] /\ peer = [c \in Conns |-> "open"]
    /\ budget = [b \in {"back", "failures"} |->
                    IF b = "back" THEN MaxBack ELSE MaxFailures]
    /\ failed = {}

-----------------------------------------------------------------------------
(* The clients, the other workers, the clock                               *)

Outside == UNCHANGED <<loop, conns, failed>>

(* (Bound: no more clients at a time than there are addresses.)            *)
ClientConnects ==
    /\ Cardinality(alloc) + queue < Cardinality(Conns)
    /\ queue' = queue + 1 /\ ledge' = 1
    /\ Outside /\ UNCHANGED <<clock, ready, peer, budget>>

(* The listening socket is shared: another worker accepts the connection.  *)
OtherWorkerAccepts ==
    /\ queue > 0
    /\ queue' = queue - 1
    /\ Outside /\ UNCHANGED <<clock, ledge, ready, peer, budget>>

(* An event of a socket that is not registered for it is reported when it  *)
(* is: it might as well become ready then.                                 *)
SocketReady(c) ==
    /\ c \in alloc /\ peer[c] = "open"
    /\ \E e \in mask[c] : ready' = [ready EXCEPT ![c] = @ \cup {e}]
    /\ Outside /\ UNCHANGED <<clock, queue, ledge, peer, budget>>

PeerGone(c) ==
    /\ c \in alloc /\ peer[c] = "open"
    /\ peer' = [peer EXCEPT ![c] = "gone"]
    /\ ready' = [ready EXCEPT ![c] = Events]
    /\ Outside /\ UNCHANGED <<clock, queue, ledge, budget>>

ClockTicks ==
    /\ clock < MaxClock
    /\ clock' = clock + 1
    /\ Outside /\ UNCHANGED <<queue, ledge, ready, peer, budget>>

ClockSetBack ==
    /\ clock > 0 /\ budget["back"] > 0
    /\ clock' = clock - 1
    /\ budget' = [budget EXCEPT !["back"] = @ - 1]
    /\ Outside /\ UNCHANGED <<queue, ledge, ready, peer>>

-----------------------------------------------------------------------------
(* What handlers do to connections                                         *)

(* timeout += vs_current_sec is an int, and wraps in 2038.                 *)
Wrap(t) == IF t < IntMax THEN t ELSE t - 2 * IntMax
Due(k)  == IF k < 0 THEN k + 2 * IntMax ELSE k

(* Mutant: a node that is linked already is linked once more.              *)
Relink_Twice(S, links, flags) ==
    [c \in Conns |-> IF c \in S THEN links[c] + 1 ELSE links[c]]

(***************************************************************************)
(* Timers are added to the set S of connections: vs_event_timer_add()      *)
(* unlinks the node first when is_set_timeout says that it is linked.      *)
(***************************************************************************)
Relink(S, links, flags) ==
    [c \in Conns |-> IF c \in S
                     THEN (IF c \in flags THEN links[c] - 1 ELSE links[c]) + 1
                     ELSE links[c]]

(* epoll_ctl() fails: nobody looks at what vs_event_add_conn() returns but *)
(* the accept loop.                                                        *)
EpollCtlFails(what) ==
    /\ budget["failures"] > 0
    /\ budget' = [budget EXCEPT !["failures"] = @ - 1]
    /\ failed' = failed \cup what
    /\ UNCHANGED mask

(***************************************************************************)
(* vs_event_add_conn() for EPOLLOUT, by ADD if rev is inactive, else by    *)
(* MOD, which epoll refuses for what it does not know.  wev is active from *)
(* then on, whether or not the call succeeds.                              *)
(***************************************************************************)
AddWriteEvent(c) ==
    /\ "OUT" \notin active[c]
    /\ active' = [active EXCEPT ![c] = @ \cup {"OUT"}]
    /\ \/ /\ mask' = [mask EXCEPT ![c] = IF @ = {} /\ active[c] # {} THEN {} ELSE active'[c]]
          /\ UNCHANGED <<budget, failed>>
       \/ EpollCtlFails({"epoll_ctl"})

(***************************************************************************)
(* The business runs, after the timers have become (flags, links, at).     *)
(* It may close connections, each of which gets a timer of 0 seconds       *)
(* (vs_net_set_conn_close), and it may leave data in the send chain of one *)
(* that is not closing.                                                    *)
(***************************************************************************)
BusinessRuns(flags, links, at) ==
    /\ \E S \in SUBSET alloc :
          /\ closing' = closing \cup S
          /\ armed' = flags \cup S
          /\ linked' = Relink(S, links, flags)
          /\ key' = [d \in Conns |-> IF d \in S THEN Wrap(cur) ELSE at[d]]
    /\ \/ UNCHANGED <<regs, budget, failed>>
       \/ \E c \in alloc \ closing : AddWriteEvent(c)

(* Mutant: the timer of a freed connection stays in the tree.              *)
Clean_KeepsTimer(c, flags, links) ==
    /\ active' = [active EXCEPT ![c] = {}]
    /\ mask' = [mask EXCEPT ![c] = {}]
    /\ armed' = flags /\ linked' = links
    /\ alloc' = alloc \ {c}
    /\ closing' = closing \ {c}
    /\ conn' = c
    /\ UNCHANGED <<key, lbatch, cur, kernel, budget, failed>>

(***************************************************************************)
(* vs_net_clean(c) up to vs_conn_free(), when the timers are (flags,       *)
(* links): both registrations, the timer, the memory.  The business is     *)
(* told, and the socket closed, afterwards.                                *)
(***************************************************************************)
Clean(c, flags, links) ==
    /\ active' = [active EXCEPT ![c] = {}]
    /\ mask' = [mask EXCEPT ![c] = {}]
    /\ armed' = flags \ {c}
    /\ linked' = [links EXCEPT ![c] = IF c \in flags THEN @ - 1 ELSE @]
    /\ alloc' = alloc \ {c}
    /\ closing' = closing \ {c}
    /\ key' = [key EXCEPT ![c] = 0]
    /\ conn' = c
    /\ UNCHANGED <<lbatch, cur, kernel, budget, failed>>

(* ko_busi_conn_close_handle(fd) and close(fd), back to where it was: the  *)
(* batch loop goes on to read c->wev of the freed connection.              *)
Notify ==
    /\ \/ pc = "expired" /\ pc' = "timers" /\ conn' = NoConn
       \/ pc = "cleaned" /\ pc' = "write" /\ UNCHANGED conn
    /\ ready' = [ready EXCEPT ![conn] = {}]
    /\ peer' = [peer EXCEPT ![conn] = "open"]
    /\ UNCHANGED <<todo, batch, lbatch, cur, conns, clock, queue, ledge, budget, failed>>

-----------------------------------------------------------------------------
(* The loop                                                                *)

UpdateTime ==
    /\ pc = "time"
    /\ cur' = clock
    /\ pc' = "timers"
    /\ UNCHANGED <<conn, todo, batch, lbatch, conns, kernel, budget, failed>>

(* vs_event_timer_expire() looks at the first node of the tree, by the     *)
(* unsigned order of the keys; what is left of its time is signed.         *)
First(c) ==
    /\ pc = "timers" /\ linked[c] > 0
    /\ \A d \in Conns : linked[d] > 0 => Due(key[c]) <= Due(key[d])

(* Mutant: the difference is compared as an unsigned number.               *)
TimeLeft_Unsigned(c) == IF key[c] < 0 THEN Due(key[c]) ELSE key[c] - cur

TimeLeft(c) == key[c] - cur

Expired(c) == First(c) /\ TimeLeft(c) <= 0

TimersDone ==
    /\ pc = "timers"
    /\ \/ \A c \in Conns : linked[c] = 0
       \/ \E c \in Conns : First(c) /\ TimeLeft(c) > 0
    /\ pc' = "wait"
    /\ UNCHANGED <<conn, todo, batch, lbatch, cur, conns, kernel, budget, failed>>

Unlinked(c) == [linked EXCEPT ![c] = @ - 1]

(* It takes it out, and its handler cleans up a closing connection ...     *)
TimerCleans(c) ==
    /\ Expired(c) /\ c \in closing
    /\ Clean(c, armed \ {c}, Unlinked(c))
    /\ pc' = "expired"
    /\ UNCHANGED <<todo, batch>>

(* ... or tells the business.  The timer is not set again.                 *)
TimerFires(c) ==
    /\ Expired(c) /\ c \notin closing
    /\ BusinessRuns(armed \ {c}, Unlinked(c), [key EXCEPT ![c] = 0])
    /\ UNCHANGED <<loop, alloc, kernel>>

(* epoll_wait() and vs_time_update(): every ready registered event, once.  *)
Reported(c) == IF mask[c] = {} THEN {} ELSE ready[c] \cap (mask[c] \cup {"ERR"})

EpollWait ==
    /\ pc = "wait"
    /\ batch' = [c \in Conns |-> Reported(c)]
    /\ lbatch' = ledge
    /\ ready' = [c \in Conns |-> IF mask[c] = {} THEN ready[c] ELSE {}]
    /\ ledge' = 0
    /\ cur' = clock
    /\ pc' = "events"
    /\ UNCHANGED <<conn, todo, conns, clock, queue, peer, budget, failed>>

EventsDone ==
    /\ pc = "events" /\ lbatch = 0 /\ \A c \in Conns : batch[c] = {}
    /\ pc' = "time"
    /\ UNCHANGED <<conn, todo, batch, lbatch, cur, conns, kernel, budget, failed>>

(* The next event of the batch, in any order: the listening socket, ...    *)
TakeListen ==
    /\ pc = "events" /\ lbatch = 1
    /\ lbatch' = 0
    /\ pc' = "listen"
    /\ UNCHANGED <<conn, todo, batch, cur, conns, kernel, budget, failed>>

(* Mutant: EPOLLERR is logged and nothing else.                            *)
TakeError_Ignored(c) ==
    /\ pc = "events" /\ "ERR" \in batch[c]
    /\ batch' = [batch EXCEPT ![c] = {}]
    /\ UNCHANGED <<pc, conn, todo, lbatch, cur, conns, kernel, budget, failed>>

(* ... a connection in error: vs_net_error_handle(), ...                   *)
TakeError(c) ==
    /\ pc = "events" /\ "ERR" \in batch[c]
    /\ batch' = [batch EXCEPT ![c] = {}]
    /\ Clean(c, armed, linked)
    /\ pc' = "cleaned" /\ todo' = {}

(* ... or one to read from or to write to.                                 *)
TakeReady(c) ==
    /\ pc = "events" /\ batch[c] # {} /\ "ERR" \notin batch[c]
    /\ batch' = [batch EXCEPT ![c] = {}]
    /\ conn' = c /\ todo' = batch[c]
    /\ pc' = IF "IN" \in batch[c] \cap active[c] THEN "handle" ELSE "write"
    /\ UNCHANGED <<lbatch, cur, conns, kernel, budget, failed>>

(* vs_net_read_handle(): the timer is set anew; then, unless a connection  *)
(* that is closing is to be cleaned up, frames go to the business.         *)
ReadHandler ==
    /\ pc = "handle"
    /\ LET flags == armed \cup {conn}
           links == Relink({conn}, linked, armed)
           at    == [key EXCEPT ![conn] = Wrap(cur + TIMEOUTS)]
       IN  \/ /\ conn \notin closing
              /\ BusinessRuns(flags, links, at)
           \/ /\ conn \in closing
              /\ armed' = flags /\ linked' = links /\ key' = at
              /\ UNCHANGED <<closing, regs, budget, failed>>
    /\ pc' = "read"
    /\ UNCHANGED <<conn, todo, batch, lbatch, cur, alloc, kernel>>

(* It cleans up a closing connection, one its client has left or broken.   *)
ReadCleans ==
    /\ pc = "read"
    /\ Clean(conn, armed, linked)
    /\ pc' = "cleaned"
    /\ UNCHANGED <<todo, batch>>

(* The business opens a connection (vs_net_tcp_connect): it has no timer,  *)
(* nothing reads from it, and epoll does not know it until data is left to *)
(* send.  (Bound: addresses are kept for the clients that wait.)           *)
Connects(c) ==
    /\ pc = "read" /\ conn \notin closing
    /\ c \notin alloc /\ Cardinality(alloc) + queue < Cardinality(Conns)
    /\ alloc' = alloc \cup {c}
    /\ UNCHANGED <<loop, closing, regs, timers, kernel, budget, failed>>

ReadReturns ==
    /\ pc = "read" /\ conn \notin closing
    /\ pc' = "write"
    /\ UNCHANGED <<conn, todo, batch, lbatch, cur, conns, kernel, budget, failed>>

(* vs_net_send_handle(): EPOLLOUT goes when the send chain is empty.  The  *)
(* handler runs if wev is active, be the connection freed or not.          *)
WriteHandler ==
    /\ pc = "write"
    /\ \/ UNCHANGED regs
       \/ /\ {"OUT"} \subseteq todo \cap active[conn]
          /\ active' = [active EXCEPT ![conn] = @ \ {"OUT"}]
          /\ mask' = [mask EXCEPT ![conn] = active'[conn]]
    /\ pc' = "events" /\ conn' = NoConn /\ todo' = {}
    /\ UNCHANGED <<batch, lbatch, cur, alloc, closing, timers, kernel, budget,
                   failed>>

(* Mutants of the accept loop: it ends after one connection, or it does    *)
(* not test whether accept() has returned one.                             *)
AcceptWith(c, guard, next) ==
    /\ pc = "listen" /\ guard /\ c \notin alloc
    /\ queue' = queue - 1
    /\ alloc' = alloc \cup {c}
    /\ armed' = armed \cup {c}
    /\ linked' = Relink({c}, linked, armed)
    /\ key' = [key EXCEPT ![c] = Wrap(cur + TIMEOUTS)]
    /\ active' = [active EXCEPT ![c] = {"IN"}]
    /\ mask' = [mask EXCEPT ![c] = {"IN"}]
    /\ pc' = next
    /\ UNCHANGED <<conn, todo, batch, lbatch, cur, closing, clock, ledge, ready, peer,
                   budget, failed>>
Accept_One(c)    == AcceptWith(c, queue > 0, "events")
Accept_Untested(c) == AcceptWith(c, TRUE, "listen")

(***************************************************************************)
(* vs_conn_tcp_accept() accepts until EAGAIN; vs_net_accept_handle() sets  *)
(* the timer and registers the connection for EPOLLIN.  rev is active      *)
(* whether or not epoll_ctl() succeeds; if not, the function returns.      *)
(***************************************************************************)
Accept(c) ==
    /\ pc = "listen" /\ queue > 0 /\ c \notin alloc
    /\ queue' = queue - 1
    /\ alloc' = alloc \cup {c}
    /\ armed' = armed \cup {c}
    /\ linked' = Relink({c}, linked, armed)
    /\ key' = [key EXCEPT ![c] = Wrap(cur + TIMEOUTS)]
    /\ active' = [active EXCEPT ![c] = {"IN"}]
    /\ \/ /\ mask' = [mask EXCEPT ![c] = {"IN"}]
          /\ UNCHANGED <<pc, budget, failed>>
       \/ EpollCtlFails({"accept", "epoll_ctl"}) /\ pc' = "events"
    /\ UNCHANGED <<conn, todo, batch, lbatch, cur, closing, clock, ledge, ready, peer>>

AcceptAgain ==
    /\ pc = "listen" /\ queue = 0
    /\ pc' = "events"
    /\ UNCHANGED <<conn, todo, batch, lbatch, cur, conns, kernel, budget, failed>>

(* accept() or vs_conn_get() fails (EMFILE, no memory): the rest waits.    *)
AcceptFails ==
    /\ pc = "listen" /\ queue > 0 /\ budget["failures"] > 0
    /\ budget' = [budget EXCEPT !["failures"] = @ - 1]
    /\ failed' = failed \cup {"accept"}
    /\ pc' = "events"
    /\ UNCHANGED <<conn, todo, batch, lbatch, cur, conns, kernel>>

-----------------------------------------------------------------------------
Worker ==
    \/ UpdateTime \/ TimersDone \/ EpollWait \/ EventsDone \/ Notify
    \/ \E c \in Conns : TimerCleans(c) \/ TimerFires(c) \/ Accept(c) \/ Connects(c)
    \/ TakeListen \/ (\E c \in Conns : TakeError(c) \/ TakeReady(c))
    \/ ReadHandler \/ ReadCleans \/ ReadReturns \/ WriteHandler
    \/ AcceptAgain \/ AcceptFails

Environment ==
    \/ ClientConnects \/ OtherWorkerAccepts \/ ClockTicks \/ ClockSetBack
    \/ \E c \in Conns : SocketReady(c) \/ PeerGone(c)

Next == Worker \/ Environment

Spec == Init /\ [][Next]_vars

(* The worker is scheduled, and time passes.                               *)
FairSpec == Spec /\ WF_vars(Worker) /\ WF_vars(ClockTicks)

-----------------------------------------------------------------------------
(* Safety                                                                  *)

(***************************************************************************)
(* A connection that has been freed is nowhere the worker could find it:   *)
(* not in the timer tree, not registered with epoll, not in the rest of    *)
(* the batch, and its address does not look closing.  (Nothing marks the   *)
(* events of a batch stale: it relies on handlers freeing only their own.) *)
(* Nor does its wev look active, which vs_process_events() reads after the *)
(* read handler may have freed it: no handler runs for a freed connection. *)
(***************************************************************************)
NothingDangling ==
    \A c \in Conns \ alloc :
        /\ linked[c] = 0 /\ c \notin armed /\ c \notin closing
        /\ mask[c] = {} /\ active[c] = {} /\ batch[c] = {}

(***************************************************************************)
(* The flags of a connection tell the truth, by whatever handler: a timer  *)
(* is linked into the tree exactly once while is_set_timeout is 1, and not *)
(* at all otherwise; a closing connection has one, so somebody will clean  *)
(* it up; and epoll has registered what rev and wev say, unless            *)
(* epoll_ctl() failed (vs_event_add_conn sets them before it and leaves    *)
(* them set).                                                              *)
(***************************************************************************)
FlagsTrue ==
    /\ \A c \in Conns : linked[c] = IF c \in armed THEN 1 ELSE 0
    /\ closing \subseteq armed
    /\ "epoll_ctl" \notin failed => \A c \in Conns : mask[c] = active[c]

(***************************************************************************)
(* Edge-triggered accept: connections waiting in the queue have an event   *)
(* to come or the worker is at it, unless the loop was left early because  *)
(* accept() failed, or the epoll_ctl() of what it had accepted.            *)
(***************************************************************************)
BacklogHasEdge ==
    queue > 0 /\ "accept" \notin failed => ledge = 1 \/ lbatch = 1 \/ pc = "listen"

(***************************************************************************)
(* vs_event_timer_expire() leaves nothing behind that is due, although     *)
(* keys are truncated to int, ordered as unsigned and compared as signed   *)
(* numbers.  (Past the range of int it expires timers early instead.)      *)
(***************************************************************************)
NothingOverdue ==
    pc = "wait" => \A c \in Conns : linked[c] > 0 => Due(key[c]) > cur

-----------------------------------------------------------------------------
(* Liveness                                                                *)

(***************************************************************************)
(* A connection that somebody has closed is released, wherever the loop is *)
(* and although the clock may be set back; so is one that is read from     *)
(* once its peer is gone.                                                  *)
(***************************************************************************)
Released ==
    \A c \in Conns :
        /\ (c \in closing) ~> (c \notin closing)
        /\ (c \in alloc /\ peer[c] = "gone" /\ "IN" \in mask[c]) ~> (c \notin alloc)
=============================================================================
