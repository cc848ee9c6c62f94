----------------------------- MODULE RecvBuffer -----------------------------
(***************************************************************************)
(* The receive path of one TCP connection: vs_net_read_handle() and        *)
(* vs_net_recv_check() of src/net/vs_net.c, vs_conn_recv() of              *)
(* src/conn/vs_conn_recv.c, and the events epoll reports for it            *)
(* (src/event/vs_event.c).                                                 *)
(*                                                                         *)
(* The buffer is three adjacent areas, recv_pre_size bytes already handled,*)
(* recv_size bytes received, recv_back_size bytes free.  Bytes are counted,*)
(* not stored: the byte at the start of the middle area is number          *)
(* rcvd - recv_size of the client's stream, and the stream is cut into     *)
(* frames at the positions ends[1] < ends[2] < ...  Behind the frames there*)
(* may be a header that announces less than its own size, which            *)
(* vs_net_recv_check() accepts: a connection is followed up to the first   *)
(* one it meets.  The registration is edge-triggered: an event is reported *)
(* once per arrival, not while data is unread.                             *)
(***************************************************************************)
EXTENDS Integers, Sequences

CONSTANTS
    BufSize,      \* VS_CONN_RECV_BUF_SIZE
    HeaderSize,   \* HEADER_SIZE
    Layouts,      \* the frames a client may send, as sequences of their ends
    Rests,        \* how many bytes it may send behind them
    SafeMemcpy    \* does memcpy() of this build move overlapping areas intact?

ASSUME SizeAssumption ==
    HeaderSize \in Nat \ {0} /\ BufSize \in Nat /\ HeaderSize <= BufSize
ASSUME LayoutAssumption ==
    \A e \in Layouts :
        /\ e \in Seq(Nat)
        /\ \A k \in DOMAIN e : e[k] >= HeaderSize
        /\ \A j, k \in DOMAIN e : j < k => e[k] >= e[j] + HeaderSize
ASSUME RestAssumption == Rests \subseteq Nat
ASSUME MemcpyAssumption == SafeMemcpy \in BOOLEAN

VARIABLES
    ends,      \* where the client's frames end
    rest,      \* bytes behind the last of them, from such a header on
    closer,    \* the frame whose handler closes the connection, 0 if none
    sent,      \* bytes that have arrived in the socket
    client,    \* "open", "fin" (closed) or "rst" (reset)
    edge,      \* 1 when an event is ready to be reported
    rcvd,      \* bytes read from the socket
    pre, size, back,     \* recv_pre_size, recv_size, recv_back_size
    done,      \* frames handed to ko_busi_handle()
    flags,     \* which of client_error, client_shutdown, server_shutdown are 1
    pc,        \* where vs_net_read_handle() is
    res        \* its local res

stream == <<ends, rest, closer>>
socket == <<sent, client, edge>>
buffer == <<rcvd, pre, size, back>>
vars   == <<stream, socket, buffer, done, flags, pc, res>>

Flags == {"client_error", "client_shutdown", "server_shutdown"}

TypeOK ==
    /\ ends \in Layouts /\ rest \in Rests
    /\ closer \in 0 .. Len(ends)
    /\ sent \in Nat
    /\ client \in {"open", "fin", "rst"}
    /\ edge \in {0, 1}
    /\ rcvd \in Nat
    /\ pre \in Nat /\ size \in Nat /\ back \in Nat
    /\ done \in Nat
    /\ flags \subseteq Flags
    /\ pc \in {"idle", "top", "recv", "check", "freed", "unframed", "undefined"}
    /\ res \in {"OK", "FULL", "AGAIN", "CLOSE", "ERROR"}

Start(k) == IF k = 1 THEN 0 ELSE ends[k - 1]
Total    == Start(Len(ends) + 1) + rest

Init ==
    /\ ends \in Layouts /\ rest \in Rests
    /\ closer \in 0 .. Len(ends)
    /\ sent = 0 /\ client = "open" /\ edge = 0
    /\ rcvd = 0 /\ pre = 0 /\ size = 0 /\ back = BufSize
    /\ done = 0 /\ flags = {} /\ pc = "idle" /\ res = "OK"

-----------------------------------------------------------------------------
(* The client (a thread of src/clientTest/client.cpp sends its messages in *)
(* pieces and closes, wherever it is when a send fails) and the kernel     *)

Arrives ==
    /\ pc # "freed" /\ client = "open"
    /\ edge' = 1
    /\ UNCHANGED <<stream, buffer, done, flags, pc, res>>

ClientSends(n) ==
    /\ Arrives
    /\ sent + n <= Total
    /\ sent' = sent + n
    /\ UNCHANGED client

ClientCloses == Arrives /\ client' = "fin" /\ UNCHANGED sent
ClientResets == Arrives /\ client' = "rst" /\ UNCHANGED sent

-----------------------------------------------------------------------------
(* The worker                                                              *)

(* vs_process_events(): EPOLLERR and EPOLLHUP are looked at before EPOLLIN.*)
ErrorEvent ==
    /\ pc = "idle" /\ edge = 1 /\ client = "rst"
    /\ edge' = 0
    /\ flags' = flags \cup {"server_shutdown"}
    /\ pc' = "freed"
    /\ UNCHANGED <<stream, sent, client, buffer, done, res>>

ReadEvent ==
    /\ pc = "idle" /\ edge = 1 /\ client # "rst"
    /\ edge' = 0
    /\ pc' = "top" /\ res' = "OK"
    /\ UNCHANGED <<stream, sent, client, buffer, done, flags>>

(* Mutant: a handler's close does not end the loop.                        *)
Top_IgnoresClose ==
    /\ pc = "top"
    /\ pc' = IF res \in {"OK", "FULL"} THEN "recv" ELSE "check"
    /\ UNCHANGED <<stream, socket, buffer, done, flags, res>>

(* The head of the loop: clean up, or receive only if the last one got all.*)
Top ==
    /\ pc = "top"
    /\ pc' = IF "server_shutdown" \in flags THEN "freed"
             ELSE IF res \in {"OK", "FULL"} THEN "recv" ELSE "check"
    /\ UNCHANGED <<stream, socket, buffer, done, flags, res>>

Unread == sent - rcvd

(* Mutant: recv_pre_size is not reset when the received area is moved.     *)
RecvData_KeepsPre ==
    /\ pc = "recv" /\ Unread > 0 /\ back > 0
    /\ LET n == IF Unread < back THEN Unread ELSE back
       IN  /\ rcvd' = rcvd + n
           /\ size' = size + n
           /\ IF n = back /\ pre > 0
              THEN back' = pre /\ pc' = "recv" /\ UNCHANGED res
              ELSE back' = back - n /\ res' = "FULL" /\ pc' = "check"
    /\ UNCHANGED <<stream, socket, pre, done, flags>>

(* Mutant: recv() is not called again after the received area is moved.    *)
RecvData_Stops ==
    /\ pc = "recv" /\ Unread > 0 /\ back > 0
    /\ LET n == IF Unread < back THEN Unread ELSE back
       IN  /\ rcvd' = rcvd + n
           /\ size' = size + n
           /\ IF n = back /\ pre > 0
              THEN back' = pre /\ pre' = 0 /\ res' = "AGAIN"
              ELSE back' = back - n /\ res' = "FULL" /\ UNCHANGED pre
    /\ pc' = "check"
    /\ UNCHANGED <<stream, socket, done, flags>>

(***************************************************************************)
(* recv() with room and data: it takes all there is room for.  When that   *)
(* fills the buffer and there is a handled area in front, the received     *)
(* area is moved down with memcpy() and recv() is called again; memcpy()   *)
(* of overlapping areas (recv_pre_size < recv_size) is undefined.          *)
(***************************************************************************)
RecvData ==
    /\ pc = "recv" /\ Unread > 0 /\ back > 0
    /\ LET n == IF Unread < back THEN Unread ELSE back
       IN  /\ rcvd' = rcvd + n
           /\ size' = size + n
           /\ IF n = back /\ pre > 0
              THEN /\ back' = pre
                   /\ pre' = 0
                   /\ pc' \in IF SafeMemcpy \/ size + n <= pre
                              THEN {"recv"} ELSE {"recv", "undefined"}
                   /\ UNCHANGED res
              ELSE /\ back' = back - n
                   /\ res' = "FULL" /\ pc' = "check"
                   /\ UNCHANGED pre
    /\ UNCHANGED <<stream, socket, done, flags>>

(* Mutant: EAGAIN is taken for the end of the stream.                      *)
RecvZero_Eager ==
    /\ pc = "recv"
    /\ \/ Unread = 0 /\ client # "rst"
       \/ Unread > 0 /\ back = 0
    /\ flags' = flags \cup {"client_shutdown"}
    /\ res' = "CLOSE" /\ pc' = "check"
    /\ UNCHANGED <<stream, socket, buffer, done>>

(***************************************************************************)
(* recv() returns 0: the client has closed and everything is read, or the  *)
(* call asked for 0 bytes (recv_back_size = 0) while something is unread.  *)
(***************************************************************************)
RecvZero ==
    /\ pc = "recv"
    /\ \/ Unread = 0 /\ client = "fin"
       \/ Unread > 0 /\ back = 0
    /\ flags' = flags \cup {"client_shutdown"}
    /\ res' = "CLOSE" /\ pc' = "check"
    /\ UNCHANGED <<stream, socket, buffer, done>>

RecvError ==
    /\ pc = "recv" /\ Unread = 0 /\ client = "rst"
    /\ flags' = flags \cup {"client_error"}
    /\ res' = "ERROR" /\ pc' = "check"
    /\ UNCHANGED <<stream, socket, buffer, done>>

RecvAgain ==
    /\ pc = "recv" /\ Unread = 0 /\ client = "open"
    /\ res' = "AGAIN" /\ pc' = "check"
    /\ UNCHANGED <<stream, socket, buffer, done, flags>>

(***************************************************************************)
(* vs_net_recv_check() reads the size of the next frame from its header,   *)
(* which is in the buffer once HeaderSize bytes of the frame are.  It may  *)
(* be the header of the frame k, or the one behind all of them.            *)
(***************************************************************************)
Position == rcvd - size
HeaderAt(k) == Position = Start(k) /\ size >= HeaderSize
HeaderOf(k) == k \in DOMAIN ends /\ HeaderAt(k)
MsgSize(k)  == ends[k] - Start(k)
Malformed   == HeaderAt(Len(ends) + 1)

(***************************************************************************)
(* A size of less than the header passes both tests.  What is handed over  *)
(* then is no frame, and the areas do not move to the next one (the loop   *)
(* hands over nothing again and again, or the middle area moves back, or   *)
(* forward into the header): the connection is followed no further.        *)
(***************************************************************************)
Unframed ==
    /\ pc = "check" /\ Malformed
    /\ pc' = "unframed"
    /\ UNCHANGED <<stream, socket, buffer, done, flags, res>>

TooBig ==
    /\ pc = "check"
    /\ \E k \in DOMAIN ends : HeaderOf(k) /\ MsgSize(k) > BufSize
    /\ flags' = flags \cup {"server_shutdown"}
    /\ pc' = "top"
    /\ UNCHANGED <<stream, socket, buffer, done, res>>

(* Mutant: the test that the whole frame has been received is missing.     *)
HandleFrame_Early(k) ==
    /\ pc = "check"
    /\ HeaderOf(k) /\ MsgSize(k) <= BufSize
    /\ done' = done + 1
    /\ flags' = IF k = closer THEN flags \cup {"server_shutdown"} ELSE flags
    /\ pre' = pre + MsgSize(k)
    /\ size' = size - MsgSize(k)
    /\ pc' = "top"
    /\ UNCHANGED <<stream, socket, rcvd, back, res>>

(* Mutant: one frame per event.                                            *)
HandleFrame_Once(k) ==
    /\ pc = "check"
    /\ HeaderOf(k) /\ MsgSize(k) <= BufSize /\ size >= MsgSize(k)
    /\ done' = done + 1
    /\ flags' = IF k = closer THEN flags \cup {"server_shutdown"} ELSE flags
    /\ pre' = pre + MsgSize(k)
    /\ size' = size - MsgSize(k)
    /\ pc' = "idle"
    /\ UNCHANGED <<stream, socket, rcvd, back, res>>

(* A whole frame: ko_busi_handle(), then the frame joins the handled area. *)
HandleFrame(k) ==
    /\ pc = "check"
    /\ HeaderOf(k) /\ MsgSize(k) <= BufSize /\ size >= MsgSize(k)
    /\ done' = done + 1
    /\ flags' = IF k = closer THEN flags \cup {"server_shutdown"} ELSE flags
    /\ pre' = pre + MsgSize(k)
    /\ size' = size - MsgSize(k)
    /\ pc' = "top"
    /\ UNCHANGED <<stream, socket, rcvd, back, res>>

(* Mutant: with part of a frame in the buffer the handler waits for more.  *)
NotEnough_Waits ==
    /\ pc = "check" /\ ~Malformed
    /\ \A k \in DOMAIN ends :
          HeaderOf(k) => MsgSize(k) <= BufSize /\ size < MsgSize(k)
    /\ IF "client_error" \in flags
       THEN flags' = flags \cup {"server_shutdown"} /\ pc' = "top"
       ELSE pc' = "idle" /\ UNCHANGED flags
    /\ UNCHANGED <<stream, socket, buffer, done, res>>

(* No whole frame: close if the client is gone, else wait for more.        *)
NotEnough ==
    /\ pc = "check" /\ ~Malformed
    /\ \A k \in DOMAIN ends :
          HeaderOf(k) => MsgSize(k) <= BufSize /\ size < MsgSize(k)
    /\ IF flags \cap {"client_error", "client_shutdown"} # {}
       THEN flags' = flags \cup {"server_shutdown"} /\ pc' = "top"
       ELSE pc' = "idle" /\ UNCHANGED flags
    /\ UNCHANGED <<stream, socket, buffer, done, res>>

-----------------------------------------------------------------------------
Worker ==
    \/ ErrorEvent \/ ReadEvent \/ Top
    \/ RecvData \/ RecvZero \/ RecvError \/ RecvAgain
    \/ TooBig \/ Unframed \/ NotEnough \/ \E k \in DOMAIN ends : HandleFrame(k)

Client == ClientCloses \/ ClientResets \/ \E n \in 1 .. Total : ClientSends(n)

Next == Worker \/ Client

Spec == Init /\ [][Next]_vars

(* The event loop comes back to a ready connection, and its handler runs.  *)
FairSpec == Spec /\ WF_vars(Worker)

-----------------------------------------------------------------------------
(* Safety                                                                  *)

(***************************************************************************)
(* The three areas always tile the buffer, and the middle one starts at    *)
(* the first byte of the next frame to handle: no reception, compaction or *)
(* hand-over loses a byte or shifts the framing.                           *)
(***************************************************************************)
Aligned ==
    /\ pre + size + back = BufSize
    /\ rcvd <= sent
    /\ done <= Len(ends) /\ Position = Start(done + 1)

(***************************************************************************)
(* The handler does not return with a whole frame in the buffer: nothing   *)
(* would wake it up for that frame again.                                  *)
(***************************************************************************)
NothingLeftBehind ==
    pc = "idle" /\ done < Len(ends) => rcvd < ends[done + 1]

(***************************************************************************)
(* Edge-triggered: data left unread in the socket always has an event      *)
(* still to come, although the loop may stop without having seen EAGAIN.   *)
(* So has a reset; the end of the stream may go unseen, but only behind    *)
(* part of a frame: then the timeout is all that is left to notice it.     *)
(***************************************************************************)
UnreadDataHasEdge ==
    pc = "idle" /\ (Unread > 0 \/ client = "rst" \/ (client = "fin" /\ size = 0))
        => edge = 1

(***************************************************************************)
(* vs_conn.h:61 calls client_shutdown "the client has closed".  It is set  *)
(* for a client that has not closed in one case only: recv() was asked for *)
(* 0 bytes, the buffer being full, and returned 0 with data left behind.   *)
(***************************************************************************)
ShutdownMeansClosed ==
    "client_shutdown" \in flags => client = "fin" \/ (back = 0 /\ Unread > 0)

(***************************************************************************)
(* The inductive invariant behind these properties: the handler has seen   *)
(* everything that had arrived when it last received, but for the end of   *)
(* the stream behind data and for what a full buffer left in the socket.   *)
(***************************************************************************)
Quiet   == edge = 1 \/ (Unread = 0 /\ client = "open")
Drained == Quiet \/ (Unread = 0 /\ client = "fin" /\ size > 0)

Knows ==
    /\ client = "rst" => edge = 1 \/ pc = "freed"
    /\ pc \in {"idle", "recv", "check"} => "server_shutdown" \notin flags
    /\ "client_shutdown" \in flags =>
          pc \in {"freed", "unframed"} \/ (pc \in {"top", "check"} /\ res = "CLOSE")
    /\ pc = "idle" => Drained
    /\ pc \in {"top", "check"} =>
          /\ res = "AGAIN" => Quiet
          /\ res = "CLOSE" => "client_shutdown" \in flags
          /\ res = "ERROR" => "client_error" \in flags
    /\ pc = "check" => res # "OK" /\ (res = "FULL" => Drained \/ (back = 0 /\ pre = 0))

RecvInv ==
    /\ Aligned
    /\ sent <= Total
    /\ NothingLeftBehind
    /\ ShutdownMeansClosed
    /\ Knows

(***************************************************************************)
(* The receive path implements FrameDelivery, whatever the fragmentation   *)
(* of the stream and the position of the frames in the buffer.             *)
(***************************************************************************)
Delivery == INSTANCE FrameDelivery WITH
    arrived   <- {k \in DOMAIN ends : ends[k] <= sent},
    delivered <- done,
    state     <- IF "server_shutdown" \in flags THEN "closed" ELSE "open"
ImplementsDelivery == Delivery!Spec

-----------------------------------------------------------------------------
(* Liveness                                                                *)

(***************************************************************************)
(* A frame that has arrived completely is handled, unless the connection   *)
(* is closed before.                                                       *)
(***************************************************************************)
FramesHandled ==
    \A k \in 1 .. 3 : (k <= Len(ends) /\ ends[k] <= sent) ~> (done >= k \/ pc = "freed")

(***************************************************************************)
(* A client that closes after its last whole frame is not kept waiting for *)
(* the timeout: its connection is released.                                *)
(***************************************************************************)
CloseReleases ==
    (client = "fin" /\ sent \in {0} \cup {ends[k] : k \in DOMAIN ends}) ~> (pc = "freed")
=============================================================================
