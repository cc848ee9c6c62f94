------------------------------- MODULE UdpLog -------------------------------
(***************************************************************************)
(* The UDP service: datagrams of one socket, which the master opens and    *)
(* every worker inherits and watches edge-triggered in an epoll of its     *)
(* own, become lines of the application log, whose descriptor and counter  *)
(* every worker inherits too and turns over on its own.                    *)
(* src/conn/vs_conn_accept.c, src/busi/vs_busi.c, src/core/vs_log.c        *)
(*                                                                         *)
(* Where the log goes at the start is one of three things: main() ends     *)
(* with vs_log_set_path_for_printf() as built and with the files of        *)
(* ../log in the other branch of its #if, or with those of /tmp when ../log*)
(* cannot be opened.  A line has the size 1.                               *)
(***************************************************************************)
EXTENDS Integers, Sequences, FiniteSets

CONSTANTS
    Workers,       \* the workers' places
    Messages,      \* datagrams with contents
    Empties,       \* datagrams without
    LIMIT,         \* VS_LOG_SIZE_LIMIT, in lines
    MaxClock,      \* bound: the last second of the clock
    MaxDeaths,     \* bound: workers that die
    MaxFailures    \* bound: failing calls of open()

None == "none"      \* no message in recv_data

ASSUME DatagramAssumption == Messages \cap Empties = {} /\ None \notin Messages
ASSUME BoundAssumption == {LIMIT, MaxClock, MaxDeaths, MaxFailures} \subseteq Nat

VARIABLES
    clock, unsent,    \* the system's second; datagrams nobody has sent yet
    queue,            \* the socket's receive queue
    edge,             \* epoll of this worker will report the socket
    pc, held, cur,    \* a worker: where it is, the message in recv_data, its cached second
    fd, size,         \* vs_log_app_fd, vs_log_app_size of a worker
    base,             \* vs_log_app_fd of the master
    files,            \* the lines of each file, and of the terminal
    budget,           \* what may still go wrong
    lost,             \* history: messages the network or a dead worker has lost
    ended,            \* history: an empty datagram has ended the loop since the last arrival
    begun, kept       \* history: workers that began to write to a file; failed turns in it

input   == <<clock, unsent>>
worker  == <<pc, held, cur>>
log     == <<fd, size, files, begun, kept>>
vars    == <<clock, unsent, queue, edge, pc, held, cur, fd, size, base, files, budget,
             lost, ended, begun, kept>>

Printf   == <<"printf", 0>>
Tmp      == <<"tmp", 0>>
File(s)  == <<"log", s>>                      \* the name get_time_str() gives in second s
Names    == {Printf, Tmp} \cup {File(s) : s \in 0 .. MaxClock}
Datagrams == Messages \cup Empties

TypeOK ==
    /\ clock \in 0 .. MaxClock /\ unsent \subseteq Datagrams
    /\ queue \in Seq(Datagrams)
    /\ edge \in [Workers -> BOOLEAN]
    /\ pc \in [Workers -> {"wait", "recv", "log", "dead"}]
    /\ held \in [Workers -> Messages \cup {None}]
    /\ cur \in [Workers -> 0 .. MaxClock]
    /\ fd \in [Workers -> Names] /\ size \in [Workers -> Nat] /\ base \in Names
    /\ files \in [Names -> Seq(Messages)]
    /\ budget \in [{"die", "open"} -> Nat]
    /\ lost \subseteq Messages /\ ended \in [Workers -> BOOLEAN]
    /\ begun \in [Names -> Nat] /\ kept \in [Names -> Nat]

(* main() has opened the log and the listener, and the workers, forked one *)
(* after the other, have registered the socket.                            *)
Init ==
    /\ clock = 0 /\ unsent = Datagrams /\ queue = <<>>
    /\ edge = [w \in Workers |-> FALSE]
    /\ pc = [w \in Workers |-> "wait"]
    /\ held = [w \in Workers |-> None]
    /\ cur = [w \in Workers |-> 0]
    /\ base \in {Printf, Tmp, File(0)}
    /\ fd = [w \in Workers |-> base] /\ size = [w \in Workers |-> 0]
    /\ files = [f \in Names |-> <<>>]
    /\ budget = [die |-> MaxDeaths, open |-> MaxFailures]
    /\ lost = {} /\ ended = [w \in Workers |-> FALSE]
    /\ begun = [f \in Names |-> 0] /\ kept = [f \in Names |-> 0]

-----------------------------------------------------------------------------
(* Datagrams arrive in any order; every epoll that watches is told.        *)
Arrive(d) ==
    /\ d \in unsent
    /\ unsent' = unsent \ {d}
    /\ queue' = Append(queue, d)
    /\ edge' = [w \in Workers |-> pc[w] # "dead"]
    /\ ended' = [w \in Workers |-> FALSE]
    /\ UNCHANGED <<clock, worker, log, base, budget, lost>>

(* The network loses one.                                                  *)
Vanish(d) ==
    /\ d \in unsent
    /\ unsent' = unsent \ {d}
    /\ lost' = lost \cup ({d} \cap Messages)
    /\ UNCHANGED <<clock, queue, edge, worker, log, base, budget, ended>>

ClockTicks ==
    /\ clock < MaxClock
    /\ clock' = clock + 1
    /\ UNCHANGED <<unsent, queue, edge, worker, log, base, budget, lost, ended>>

(* epoll_wait() returns, for the socket or for something else, and the     *)
(* second is cached; epoll looks again whether there is anything to read.  *)
Wake(w) ==
    /\ pc[w] = "wait"
    /\ cur' = [cur EXCEPT ![w] = clock]
    /\ edge' = [edge EXCEPT ![w] = FALSE]
    /\ pc' = [pc EXCEPT ![w] = IF edge[w] /\ queue # <<>> THEN "recv" ELSE "wait"]
    /\ UNCHANGED <<input, queue, held, log, base, budget, lost, ended>>

(* recvfrom() of vs_conn_tcp_accept_udp(): a message is handled ...        *)
Recv(w) ==
    /\ pc[w] = "recv"
    /\ queue # <<>> /\ Head(queue) \in Messages
    /\ queue' = Tail(queue)
    /\ held' = [held EXCEPT ![w] = Head(queue)]
    /\ pc' = [pc EXCEPT ![w] = "log"]
    /\ UNCHANGED <<input, edge, cur, log, base, budget, lost, ended>>

(* ... nothing left ends the loop ...                                      *)
RecvAgain(w) ==
    /\ pc[w] = "recv" /\ queue = <<>>
    /\ pc' = [pc EXCEPT ![w] = "wait"]
    /\ UNCHANGED <<input, queue, edge, held, cur, log, base, budget, lost, ended>>

(* ... and so does a datagram of no bytes, whatever is queued behind it.   *)
RecvEmpty(w) ==
    /\ pc[w] = "recv"
    /\ queue # <<>> /\ Head(queue) \in Empties
    /\ queue' = Tail(queue)
    /\ pc' = [pc EXCEPT ![w] = "wait"]
    /\ ended' = [ended EXCEPT ![w] = TRUE]
    /\ UNCHANGED <<input, edge, held, cur, log, base, budget, lost>>

-----------------------------------------------------------------------------
(* Mutant: written where this worker's counter is (no O_APPEND).           *)
WriteLine_AtCounter(w) ==
    /\ pc[w] = "log"
    /\ files' = [files EXCEPT ![fd[w]] = IF size[w] < Len(@)
                                          THEN [@ EXCEPT ![size[w] + 1] = held[w]]
                                          ELSE Append(@, held[w])]
    /\ begun' = [begun EXCEPT ![fd[w]] = IF size[w] = 0 THEN @ + 1 ELSE @]
    /\ held' = [held EXCEPT ![w] = None]
    /\ pc' = [pc EXCEPT ![w] = "recv"]
    /\ UNCHANGED <<input, queue, edge, cur, base, lost, ended>>

(* Mutant: one datagram per event.                                         *)
WriteLine_Once(w) ==
    /\ pc[w] = "log"
    /\ files' = [files EXCEPT ![fd[w]] = Append(@, held[w])]
    /\ begun' = [begun EXCEPT ![fd[w]] = IF size[w] = 0 THEN @ + 1 ELSE @]
    /\ held' = [held EXCEPT ![w] = None]
    /\ pc' = [pc EXCEPT ![w] = "wait"]
    /\ UNCHANGED <<input, queue, edge, cur, base, lost, ended>>

(* vs_log_info(): one line at the end of the file (O_APPEND) or on the     *)
(* terminal.                                                               *)
WriteLine(w) ==
    /\ pc[w] = "log"
    /\ files' = [files EXCEPT ![fd[w]] = Append(@, held[w])]
    /\ begun' = [begun EXCEPT ![fd[w]] = IF size[w] = 0 THEN @ + 1 ELSE @]
    /\ held' = [held EXCEPT ![w] = None]
    /\ pc' = [pc EXCEPT ![w] = "recv"]
    /\ UNCHANGED <<input, queue, edge, cur, base, lost, ended>>

(* Mutant: the line just written is not counted yet.                       *)
Full_Late(w) == fd[w] # Printf /\ size[w] > LIMIT

Full(w) == fd[w] # Printf /\ size[w] + 1 > LIMIT

(* The file has room, or it is the terminal, whose lines are not counted.  *)
Log(w) ==
    /\ WriteLine(w) /\ ~Full(w)
    /\ size' = [size EXCEPT ![w] = IF fd[w] = Printf THEN @ ELSE @ + 1]
    /\ UNCHANGED <<fd, kept, budget>>

(* vs_log_turn_app(): the file of the cached second, new or not.           *)
LogTurn(w) ==
    /\ WriteLine(w) /\ Full(w)
    /\ fd' = [fd EXCEPT ![w] = File(cur[w])]
    /\ size' = [size EXCEPT ![w] = 0]
    /\ UNCHANGED <<kept, budget>>

(* Mutant: the result of open() is stored before it is looked at.          *)
LogTurnFails_Untested(w) ==
    /\ WriteLine(w) /\ Full(w)
    /\ budget["open"] > 0 /\ budget' = [budget EXCEPT !["open"] = @ - 1]
    /\ fd' = [fd EXCEPT ![w] = <<"closed", 0>>]
    /\ size' = [size EXCEPT ![w] = 0]
    /\ UNCHANGED kept

(* It cannot be opened: the old one goes on, and the next line tries again.*)
LogTurnFails(w) ==
    /\ WriteLine(w) /\ Full(w)
    /\ budget["open"] > 0 /\ budget' = [budget EXCEPT !["open"] = @ - 1]
    /\ size' = [size EXCEPT ![w] = @ + 1]
    /\ kept' = [kept EXCEPT ![fd[w]] = @ + 1]
    /\ UNCHANGED fd

-----------------------------------------------------------------------------
(* A worker dies, with the message it holds.                               *)
Die(w) ==
    /\ pc[w] # "dead" /\ budget["die"] > 0
    /\ budget' = [budget EXCEPT !["die"] = @ - 1]
    /\ pc' = [pc EXCEPT ![w] = "dead"]
    /\ lost' = lost \cup ({held[w]} \cap Messages)
    /\ held' = [held EXCEPT ![w] = None]
    /\ edge' = [edge EXCEPT ![w] = FALSE]
    /\ UNCHANGED <<input, queue, cur, log, base, ended>>

(* The master forks another one: with the log as main() left it, and a     *)
(* registration that reports what is queued.                               *)
Respawn(w) ==
    /\ pc[w] = "dead"
    /\ pc' = [pc EXCEPT ![w] = "wait"]
    /\ edge' = [edge EXCEPT ![w] = queue # <<>>]
    /\ ended' = [ended EXCEPT ![w] = FALSE]
    /\ cur' = [cur EXCEPT ![w] = 0]
    /\ fd' = [fd EXCEPT ![w] = base]
    /\ size' = [size EXCEPT ![w] = 0]
    /\ UNCHANGED <<input, queue, held, base, files, begun, kept, budget, lost>>

-----------------------------------------------------------------------------
Next ==
    \/ \E d \in Datagrams : Arrive(d) \/ Vanish(d)
    \/ ClockTicks
    \/ \E w \in Workers :
          \/ Wake(w) \/ Recv(w) \/ RecvAgain(w) \/ RecvEmpty(w)
          \/ Log(w) \/ LogTurn(w) \/ LogTurnFails(w)
          \/ Die(w) \/ Respawn(w)

Spec == Init /\ [][Next]_vars

-----------------------------------------------------------------------------
(* Safety                                                                  *)

Places(d) ==
    {<<"unsent">> : x \in {d} \cap unsent} \cup {<<"lost">> : x \in {d} \cap lost}
    \cup {<<"queue", i>> : i \in {i \in DOMAIN queue : queue[i] = d}}
    \cup {<<"held", w>> : w \in {w \in Workers : held[w] = d}}
    \cup UNION {{<<"file", f, i>> : i \in {i \in DOMAIN files[f] : files[f][i] = d}} : f \in Names}

(***************************************************************************)
(* A message is in one place: the workers share queue and files, but no    *)
(* message is taken or logged twice, and no line is overwritten by that of *)
(* another worker, whatever files they turn to.  Only a worker that dies   *)
(* takes one with it.                                                      *)
(***************************************************************************)
LinesKept == \A d \in Messages : Cardinality(Places(d)) = 1

(***************************************************************************)
(* Edge-triggered epolls report a datagram once.  While any is queued,     *)
(* every worker alive will be told or is reading, except one whose loop    *)
(* was ended by an empty datagram, until the next one arrives.             *)
(***************************************************************************)
DatagramsKnown ==
    queue # <<>> => \A w \in Workers :
        pc[w] = "dead" \/ edge[w] \/ pc[w] \in {"recv", "log"} \/ ended[w]

(***************************************************************************)
(* A file is as long as LIMIT lets each worker make it that has begun to   *)
(* write to it (inherited from the master, before or after a restart, or   *)
(* turned to in the same second: each counts only its own lines), and by   *)
(* the lines written when no other file could be opened.                   *)
(***************************************************************************)
FileBounded ==
    \A f \in Names \ {Printf} : Len(files[f]) <= begun[f] * (LIMIT + 1) + kept[f]
=============================================================================
