-------------------------- MODULE RecvBufferProofs --------------------------
(***************************************************************************)
(* Proofs about RecvBuffer, for every buffer and header size and every     *)
(* stream of frames, up to the first header that announces less than       *)
(* itself if one follows them.                                             *)
(***************************************************************************)
EXTENDS RecvBuffer, TLAPS

USE DEF Flags

-----------------------------------------------------------------------------
(* Type correctness                                                        *)

LEMMA LayoutFacts ==
    ASSUME TypeOK
    PROVE  /\ ends \in Seq(Nat) /\ Len(ends) \in Nat /\ DOMAIN ends = 1 .. Len(ends)
           /\ \A k \in DOMAIN ends : ends[k] \in Nat /\ ends[k] >= HeaderSize
           /\ \A j, k \in DOMAIN ends : j < k => ends[k] >= ends[j] + HeaderSize
           /\ Start(Len(ends) + 1) \in Nat /\ Total \in Nat
<1>1. ends \in Seq(Nat) /\ Len(ends) \in Nat /\ DOMAIN ends = 1 .. Len(ends)
  BY LayoutAssumption DEF TypeOK
<1>2. /\ \A k \in DOMAIN ends : ends[k] \in Nat /\ ends[k] >= HeaderSize
      /\ \A j, k \in DOMAIN ends : j < k => ends[k] >= ends[j] + HeaderSize
  BY <1>1, LayoutAssumption DEF TypeOK
<1>3. Start(Len(ends) + 1) \in Nat
  BY <1>1, <1>2 DEF Start
<1>4. rest \in Nat
  BY RestAssumption DEF TypeOK
<1> QED
  BY <1>1, <1>2, <1>3, <1>4 DEF Total

(* The size in a frame's header is at least that of the header.            *)
LEMMA FrameFacts ==
    ASSUME TypeOK, NEW k \in DOMAIN ends
    PROVE  /\ Start(k) \in Nat /\ MsgSize(k) \in Nat
           /\ ends[k] = Start(k) + MsgSize(k) /\ MsgSize(k) >= HeaderSize
           /\ Start(k + 1) = ends[k]
<1>1. k \in Nat \ {0} /\ (k # 1 => k - 1 \in DOMAIN ends)
  BY LayoutFacts
<1>2. Start(k) \in Nat /\ ends[k] >= Start(k) + HeaderSize
  BY <1>1, LayoutFacts, SizeAssumption DEF Start
<1>3. Start(k + 1) = ends[k]
  BY <1>1, LayoutFacts DEF Start
<1> QED
  BY <1>2, <1>3, LayoutFacts, SizeAssumption DEF MsgSize

LEMMA InitType == Init => TypeOK
<1> SUFFICES ASSUME Init PROVE TypeOK
  OBVIOUS
<1>1. ends \in Seq(Nat) /\ Len(ends) \in Nat
  BY LayoutAssumption DEF Init
<1> QED
  BY <1>1, SizeAssumption DEF Init, TypeOK

LEMMA ClientType ==
    ASSUME TypeOK, Client
    PROVE  TypeOK'
<1>1. Arrives /\ sent' \in Nat /\ client' \in {"open", "fin", "rst"}
  BY LayoutFacts DEF TypeOK, Client, ClientSends, ClientCloses, ClientResets
<1> QED
  BY <1>1 DEF TypeOK, Arrives, stream, buffer

LEMMA RecvDataType ==
    ASSUME TypeOK, RecvData
    PROVE  TypeOK'
<1> DEFINE n == IF Unread < back THEN Unread ELSE back
<1>1. n \in Nat
  BY DEF TypeOK, RecvData, Unread
<1>2. rcvd' = rcvd + n /\ size' = size + n
  BY DEF RecvData
<1>3. \/ back' = pre /\ pre' = 0 /\ pc' \in {"recv", "undefined"} /\ res' = res
      \/ back' = back - n /\ pre' = pre /\ pc' = "check" /\ res' = "FULL"
  BY DEF RecvData
<1>4. n <= back
  BY DEF TypeOK, RecvData, Unread
<1>5. rcvd' \in Nat /\ size' \in Nat /\ back' \in Nat /\ pre' \in Nat
  <2> HIDE DEF n
  <2> QED  BY <1>1, <1>2, <1>3, <1>4 DEF TypeOK
<1>6. UNCHANGED <<stream, socket, done, flags>>
  BY DEF RecvData
<1> QED
  BY <1>3, <1>5, <1>6 DEF TypeOK, stream, socket

LEMMA StepType == TypeOK /\ [Next]_vars => TypeOK'
<1> SUFFICES ASSUME TypeOK, [Next]_vars PROVE TypeOK'
  OBVIOUS
<1>1. CASE ErrorEvent
  BY <1>1 DEF TypeOK, ErrorEvent, stream, buffer
<1>2. CASE ReadEvent
  BY <1>2 DEF TypeOK, ReadEvent, stream, buffer
<1>3. CASE Top
  BY <1>3 DEF TypeOK, Top, stream, socket, buffer
<1>4. CASE RecvZero
  BY <1>4 DEF TypeOK, RecvZero, stream, socket, buffer
<1>5. CASE RecvError
  BY <1>5 DEF TypeOK, RecvError, stream, socket, buffer
<1>6. CASE RecvAgain
  BY <1>6 DEF TypeOK, RecvAgain, stream, socket, buffer
<1>7. CASE TooBig
  BY <1>7 DEF TypeOK, TooBig, stream, socket, buffer
<1>8. CASE NotEnough
  BY <1>8 DEF TypeOK, NotEnough, stream, socket, buffer
<1>9. ASSUME NEW k \in DOMAIN ends, HandleFrame(k) PROVE TypeOK'
  <2>1. pre' \in Nat /\ size' \in Nat
    <3>1. pre' = pre + MsgSize(k) /\ size' = size - MsgSize(k) /\ size >= MsgSize(k)
      BY <1>9 DEF HandleFrame
    <3>2. pre \in Nat /\ size \in Nat
      BY DEF TypeOK
    <3> QED  BY <3>1, <3>2, FrameFacts
  <2> QED  BY <1>9, <2>1 DEF TypeOK, HandleFrame, stream, socket
<1>10. CASE Unframed
  BY <1>10 DEF TypeOK, Unframed, stream, socket, buffer
<1>11. CASE UNCHANGED vars
  BY <1>11 DEF TypeOK, vars, stream, socket, buffer
<1> QED
  BY <1>1, <1>2, <1>3, <1>4, <1>5, <1>6, <1>7, <1>8, <1>9, <1>10, <1>11,
     ClientType, RecvDataType DEF Next, Worker

(***************************************************************************)
(* Every variable keeps its type: the three counters of the buffer never   *)
(* become negative before a header that announces less than itself, which  *)
(* vs_net_recv_check() accepts, has been read; there the module stops.     *)
(***************************************************************************)
THEOREM TypeCorrect == Spec => []TypeOK
BY InitType, StepType, PTL DEF Spec

-----------------------------------------------------------------------------
(* The inductive invariant                                                 *)

LEMMA StartInjective ==
    ASSUME TypeOK, NEW j \in 1 .. Len(ends) + 1, NEW k \in 1 .. Len(ends) + 1,
           Start(j) = Start(k)
    PROVE  j = k
<1>1. ASSUME NEW a \in 1 .. Len(ends) + 1, NEW b \in 1 .. Len(ends) + 1, a < b
      PROVE  Start(a) < Start(b)
  <2>1. b - 1 \in DOMAIN ends /\ Start(b) = ends[b - 1]
    BY <1>1, LayoutFacts DEF Start
  <2>2. CASE a = 1
    <3>1. Start(a) = 0
      BY <2>2 DEF Start
    <3>2. ends[b - 1] >= HeaderSize /\ ends[b - 1] \in Nat
      BY <2>1, LayoutFacts
    <3> QED  BY <2>1, <3>1, <3>2, SizeAssumption
  <2>3. CASE a # 1
    <3>1. a - 1 \in DOMAIN ends /\ Start(a) = ends[a - 1] /\ a - 1 < b - 1
      BY <1>1, <2>3, LayoutFacts DEF Start
    <3>2. ends[b - 1] >= ends[a - 1] + HeaderSize
      BY <2>1, <3>1, LayoutFacts
    <3>3. ends[b - 1] \in Nat /\ ends[a - 1] \in Nat
      BY <2>1, <3>1, LayoutFacts
    <3> QED  BY <2>1, <3>1, <3>2, <3>3, SizeAssumption
  <2> QED  BY <2>2, <2>3
<1>2. Start(j) \in Nat /\ Start(k) \in Nat
  BY LayoutFacts DEF Start
<1> QED
  BY <1>1, <1>2, LayoutFacts

LEMMA InitInv == Init => RecvInv
<1> SUFFICES ASSUME Init PROVE RecvInv
  OBVIOUS
<1>0. TypeOK
  BY InitType
<1>1. Aligned
  BY <1>0, LayoutFacts, SizeAssumption DEF Init, Aligned, Position, Start
<1>2. sent <= Total
  BY <1>0, LayoutFacts DEF Init
<1>3. NothingLeftBehind
  <2>1. ASSUME done < Len(ends) PROVE rcvd < ends[done + 1]
    BY <1>0, <2>1, LayoutFacts, SizeAssumption DEF Init
  <2> QED  BY <2>1 DEF NothingLeftBehind
<1> QED
  BY <1>1, <1>2, <1>3 DEF Init, RecvInv, Knows, ShutdownMeansClosed, Drained, Quiet, Unread

LEMMA MoreUnread ==
    ASSUME NEW a \in Nat, NEW b \in Nat, NEW c \in Nat, a >= b
    PROVE  a - c >= b - c
OBVIOUS

(* The client's steps only add to what is to be seen, and raise the edge.  *)
LEMMA ClientInv ==
    ASSUME TypeOK, RecvInv, Client
    PROVE  RecvInv'
<1>1. /\ Arrives /\ sent' \in Nat /\ sent' >= sent /\ sent' <= Total
  BY LayoutFacts DEF Client, ClientSends, ClientCloses, ClientResets, RecvInv, TypeOK
<1>2. /\ UNCHANGED <<ends, rest, rcvd, pre, size, back, done, flags, pc, res>>
      /\ edge' = 1 /\ client = "open"
  BY <1>1 DEF Arrives, stream, buffer
<1>3. Aligned'
  BY <1>1, <1>2 DEF RecvInv, Aligned, Position, Start, TypeOK
<1>4. sent' <= Total'
  BY <1>1, <1>2 DEF Total, Start
<1>5. NothingLeftBehind'
  BY <1>2 DEF RecvInv, NothingLeftBehind
<1>6. Drained' /\ Quiet'
  BY <1>2 DEF Drained, Quiet
<1>7. ShutdownMeansClosed'
  <2>1. rcvd \in Nat /\ sent \in Nat
    BY DEF TypeOK
  <2>2. Unread > 0 => Unread' > 0
    <3>1. sent' - rcvd >= sent - rcvd
      BY <1>1, <2>1, MoreUnread
    <3>2. Unread' = sent' - rcvd
      BY <1>2 DEF Unread
    <3>3. sent' - rcvd \in Int /\ sent - rcvd \in Int
      BY <1>1, <2>1
    <3> QED  BY <3>1, <3>2, <3>3 DEF Unread
  <2> QED  BY <1>2, <2>2 DEF RecvInv, ShutdownMeansClosed
<1>8. Knows'
  BY <1>2, <1>6 DEF RecvInv, Knows, TypeOK
<1> QED
  BY <1>3, <1>4, <1>5, <1>7, <1>8 DEF RecvInv

(* A step that moves no byte and hands over no frame.                      *)
LEMMA SameBuffer ==
    ASSUME TypeOK, RecvInv, UNCHANGED <<stream, sent, buffer, done>>,
           pc' = "idle" => NothingLeftBehind',
           ShutdownMeansClosed', Knows'
    PROVE  RecvInv'
<1>1. Aligned' /\ sent' <= Total'
  BY DEF RecvInv, Aligned, Position, Start, Total, stream, buffer
<1>2. NothingLeftBehind'
  BY DEF NothingLeftBehind
<1> QED
  BY <1>1, <1>2 DEF RecvInv

(* A step that leaves the socket and the buffer alone.                     *)
LEMMA SameSocket ==
    ASSUME UNCHANGED <<socket, buffer>>
    PROVE  (Drained' <=> Drained) /\ (Quiet' <=> Quiet)
BY DEF Drained, Quiet, Unread, socket, buffer

LEMMA RecvDataInv ==
    ASSUME TypeOK, RecvInv, RecvData
    PROVE  RecvInv'
<1> DEFINE n == IF Unread < back THEN Unread ELSE back
<1>1. n \in Nat /\ n <= back /\ n <= Unread /\ (n = Unread \/ n = back)
  BY DEF TypeOK, RecvData, Unread
<1>2. rcvd' = rcvd + n /\ size' = size + n /\ UNCHANGED <<ends, rest, sent, edge, done, flags>>
  BY DEF RecvData, stream, socket
<1>3. \/ /\ n = back /\ pre > 0 /\ back' = pre /\ pre' = 0
         /\ pc' \in {"recv", "undefined"}
      \/ /\ ~(n = back /\ pre > 0)
         /\ back' = back - n /\ pre' = pre /\ pc' = "check" /\ res' = "FULL"
  BY DEF RecvData
<1>4. Aligned /\ sent <= Total /\ "server_shutdown" \notin flags
  BY DEF RecvInv, Knows, RecvData
<1> HIDE DEF n
<1>5. Aligned'
  <2>1. pre + size + back = BufSize /\ rcvd <= sent /\ done <= Len(ends)
    BY <1>4 DEF Aligned
  <2>2. pre' + size' + back' = BufSize
    BY <1>1, <1>2, <1>3, <2>1 DEF TypeOK
  <2>3. rcvd' <= sent'
    BY <1>1, <1>2, <2>1 DEF Unread, TypeOK
  <2>4. Position' = Position
    BY <1>1, <1>2 DEF Position, TypeOK
  <2>5. Start(done + 1)' = Start(done + 1)
    BY <1>2 DEF Start
  <2> QED  BY <1>2, <1>4, <2>1, <2>2, <2>3, <2>4, <2>5 DEF Aligned
<1>6. sent' <= Total'
  BY <1>2, <1>4 DEF Total, Start
<1>7. pc' = "check" => res' = "FULL" /\ (Drained' \/ (back' = 0 /\ pre' = 0))
  <2>1. /\ rcvd \in Nat /\ sent \in Nat /\ size \in Nat /\ back \in Nat /\ pre \in Nat
        /\ client \in {"open", "fin", "rst"} /\ Unread > 0 /\ back > 0
    BY DEF TypeOK, RecvData
  <2>2. client = "rst" => edge' = 1
    BY <1>2 DEF RecvInv, Knows, RecvData
  <2>3. client' = client
    BY DEF RecvData, socket
  <2>4. CASE n = Unread
    <3>1. Unread' = 0 /\ size' > 0
      BY <1>1, <1>2, <2>1, <2>4 DEF Unread
    <3> QED  BY <1>3, <2>1, <2>2, <2>3, <3>1 DEF Drained, Quiet
  <2>5. CASE n = back
    BY <1>1, <1>3, <2>1, <2>5
  <2> QED  BY <1>1, <2>4, <2>5
<1>8. "client_shutdown" \notin flags' /\ client' = client
  BY <1>2 DEF RecvInv, Knows, RecvData, socket
<1>9. client = "rst" => edge' = 1
  BY <1>2 DEF RecvInv, Knows, RecvData
<1>10. Knows'
  BY <1>2, <1>3, <1>4, <1>7, <1>8, <1>9 DEF Knows
<1> QED
  BY <1>2, <1>3, <1>5, <1>6, <1>8, <1>10
  DEF RecvInv, NothingLeftBehind, ShutdownMeansClosed

LEMMA HandleFrameInv ==
    ASSUME TypeOK, RecvInv, NEW k \in DOMAIN ends, HandleFrame(k)
    PROVE  RecvInv' /\ k = done + 1 /\ ends[k] <= sent
<1>1. k = done + 1
  <2>1. done + 1 \in 1 .. Len(ends) + 1 /\ k \in 1 .. Len(ends) + 1
    <3>1. Len(ends) \in Nat /\ DOMAIN ends = 1 .. Len(ends)
      BY LayoutFacts
    <3>2. done \in Nat /\ done <= Len(ends)
      BY DEF RecvInv, Aligned, TypeOK
    <3> QED  BY <3>1, <3>2
  <2>2. Start(k) = Start(done + 1)
    BY DEF HandleFrame, HeaderOf, HeaderAt, RecvInv, Aligned
  <2> QED  BY <2>1, <2>2, StartInjective
<1>2. /\ UNCHANGED <<ends, rest, sent, client, edge, rcvd, back, res>> /\ pc' = "top" /\ pc = "check"
      /\ done' = done + 1 /\ flags \subseteq flags'
      /\ pre' = pre + MsgSize(k) /\ size' = size - MsgSize(k) /\ size >= MsgSize(k)
  BY DEF HandleFrame, stream, socket
<1>3. Aligned'
  <2>1. Start(done + 1)' = ends[k] /\ done' <= Len(ends)
    <3>1. done' = k /\ k \in Nat \ {0} /\ k <= Len(ends)
      BY <1>1, <1>2, LayoutFacts
    <3> QED  BY <1>2, <3>1 DEF Start
  <2>2. Position' = Start(k) + MsgSize(k)
    <3>1. rcvd - size = Start(k)
      BY DEF HandleFrame, HeaderOf, HeaderAt, Position
    <3>2. rcvd \in Nat /\ size \in Nat
      BY DEF TypeOK
    <3> QED  BY <1>2, <3>1, <3>2, FrameFacts DEF Position
  <2>3. pre' + size' + back' = BufSize /\ rcvd' <= sent'
    <3>1. pre \in Nat /\ size \in Nat /\ back \in Nat /\ MsgSize(k) \in Nat
      BY FrameFacts DEF TypeOK
    <3>2. pre + size + back = BufSize /\ rcvd <= sent
      BY DEF RecvInv, Aligned
    <3> QED  BY <1>2, <3>1, <3>2
  <2>4. ends[k] = Start(k) + MsgSize(k)
    BY FrameFacts
  <2> QED  BY <1>2, <2>1, <2>2, <2>3, <2>4 DEF Aligned
<1>4. ends[k] <= sent
  <2>1. rcvd - size = Start(k) /\ rcvd <= sent
    BY DEF HandleFrame, HeaderOf, HeaderAt, Position, RecvInv, Aligned
  <2>2. rcvd \in Nat /\ size \in Nat /\ sent \in Nat
    BY DEF TypeOK
  <2> QED  BY <1>2, <2>1, <2>2, FrameFacts
<1>5. sent' <= Total'
  BY <1>2 DEF RecvInv, Total, Start
<1>6. "client_shutdown" \in flags' <=> "client_shutdown" \in flags
  BY DEF HandleFrame
<1>7. ShutdownMeansClosed'
  BY <1>2, <1>6 DEF RecvInv, ShutdownMeansClosed, Unread
<1>8. Quiet => Quiet'
  BY <1>2 DEF Quiet, Unread
<1>9. Knows'
  <2>1. /\ client = "rst" => edge' = 1
        /\ "client_shutdown" \in flags' => res = "CLOSE"
    BY <1>2, <1>6 DEF RecvInv, Knows
  <2>2. CASE res = "AGAIN"
    BY <1>2, <1>8, <2>1, <2>2 DEF RecvInv, Knows
  <2>3. CASE res \in {"CLOSE", "ERROR", "FULL", "OK"}
    BY <1>2, <2>1, <2>3 DEF RecvInv, Knows
  <2> QED  BY <2>2, <2>3 DEF TypeOK
<1> QED
  BY <1>1, <1>2, <1>3, <1>4, <1>5, <1>7, <1>9 DEF RecvInv, NothingLeftBehind

(* With no whole frame in the buffer the next one is not received yet, and *)
(* a full buffer always holds a whole frame or the head of one too big.    *)
LEMMA NotEnoughFacts ==
    ASSUME TypeOK, RecvInv, NotEnough
    PROVE  /\ done < Len(ends) => rcvd < ends[done + 1]
           /\ ~(back = 0 /\ pre = 0)
<1>1. /\ done \in Nat /\ size \in Nat /\ rcvd \in Nat /\ sent \in Nat /\ rcvd <= sent
      /\ Len(ends) \in Nat /\ DOMAIN ends = 1 .. Len(ends) /\ done <= Len(ends)
      /\ rcvd - size = Start(done + 1) /\ sent <= Total
      /\ pre + size + back = BufSize
  BY LayoutFacts DEF TypeOK, RecvInv, Aligned, Position
<1>2. CASE done < Len(ends)
  <2> DEFINE k == done + 1
  <2>1. k \in DOMAIN ends
    BY <1>1, <1>2
  <2>2. HeaderOf(k) <=> size >= HeaderSize
    BY <1>1, <2>1 DEF HeaderOf, HeaderAt, Position
  <2>3. size >= HeaderSize => MsgSize(k) <= BufSize /\ size < MsgSize(k)
    BY <2>1, <2>2 DEF NotEnough
  <2>4. MsgSize(k) \in Nat /\ ends[k] = Start(k) + MsgSize(k) /\ MsgSize(k) >= HeaderSize
    BY <2>1, FrameFacts
  <2> HIDE DEF k
  <2>5. size < MsgSize(k)
    BY <1>1, <2>3, <2>4, SizeAssumption
  <2>6. Start(k) \in Nat /\ ends[k] \in Nat
    BY <2>1, FrameFacts, LayoutFacts
  <2>7. rcvd < ends[k]
    BY <1>1, <2>4, <2>5, <2>6 DEF k
  <2>8. ~(back = 0 /\ pre = 0)
    BY <1>1, <2>3, <2>4, SizeAssumption
  <2> QED  BY <2>7, <2>8 DEF k
<1>3. CASE ~(done < Len(ends))
  <2>1. done = Len(ends)
    <3>1. done \in Nat /\ Len(ends) \in Nat /\ done <= Len(ends)
      BY <1>1
    <3> HIDE <1>1
    <3> QED  BY <3>1, <1>3
  <2>2. size < HeaderSize
    BY <1>1, <2>1, SizeAssumption DEF NotEnough, Malformed, HeaderAt, Position
  <2>3. size < BufSize
    BY <1>1, <2>2, SizeAssumption
  <2>4. ~(back = 0 /\ pre = 0)
    BY <1>1, <2>3
  <2> QED  BY <1>3, <2>4
<1> QED
  BY <1>2, <1>3

LEMMA NotEnoughInv ==
    ASSUME TypeOK, RecvInv, NotEnough
    PROVE  RecvInv'
<1>1. UNCHANGED <<stream, socket, buffer, done, res>> /\ pc = "check"
  BY DEF NotEnough
<1>2. ShutdownMeansClosed'
  BY <1>1 DEF NotEnough, RecvInv, ShutdownMeansClosed, Unread, socket, buffer
<1>3. CASE flags \cap {"client_error", "client_shutdown"} # {}
  <2>1. pc' = "top" /\ flags' = flags \cup {"server_shutdown"}
    BY <1>3 DEF NotEnough
  <2>2. Knows'
    <3>1. CASE res = "AGAIN"
      BY <1>1, <2>1, <3>1, SameSocket DEF RecvInv, Knows, socket
    <3>2. CASE res \in {"CLOSE", "ERROR", "FULL", "OK"}
      BY <1>1, <2>1, <3>2 DEF RecvInv, Knows, socket
    <3> QED  BY <3>1, <3>2 DEF TypeOK
  <2> QED  BY <1>1, <1>2, <2>1, <2>2, SameBuffer DEF socket
<1>4. CASE flags \cap {"client_error", "client_shutdown"} = {}
  <2>1. pc' = "idle" /\ flags' = flags
    BY <1>4 DEF NotEnough
  <2>2. NothingLeftBehind'
    BY <1>1, NotEnoughFacts DEF NothingLeftBehind, stream, buffer
  <2>3. Drained
    <3>1. CASE res = "AGAIN"
      BY <1>1, <3>1 DEF RecvInv, Knows, Drained
    <3>2. CASE res = "FULL"
      BY <1>1, <3>2, NotEnoughFacts DEF RecvInv, Knows
    <3>3. CASE res \in {"CLOSE", "ERROR", "OK"}
      BY <1>1, <1>4, <3>3 DEF RecvInv, Knows
    <3> QED  BY <3>1, <3>2, <3>3 DEF TypeOK
  <2>4. Knows'
    BY <1>1, <1>4, <2>1, <2>3, SameSocket DEF RecvInv, Knows, socket
  <2> QED  BY <1>1, <1>2, <2>1, <2>2, <2>4, SameBuffer DEF socket
<1> QED
  BY <1>3, <1>4

LEMMA StepInv == TypeOK /\ RecvInv /\ [Next]_vars => RecvInv'
<1> SUFFICES ASSUME TypeOK, RecvInv, [Next]_vars PROVE RecvInv'
  OBVIOUS
<1> USE DEF ShutdownMeansClosed, Unread
<1>1. CASE ErrorEvent
  BY <1>1, SameBuffer DEF ErrorEvent, Knows, RecvInv, buffer
<1>2. CASE ReadEvent
  BY <1>2, SameBuffer DEF ReadEvent, Knows, RecvInv, buffer
<1>3. CASE Top
  <2>1. UNCHANGED <<stream, socket, buffer, done, flags, res>> /\ pc = "top"
    BY <1>3 DEF Top
  <2>2. CASE pc' \in {"freed", "recv"}
    <3>1. "client_shutdown" \in flags => pc' = "freed" \/ res = "CLOSE"
      BY <2>1 DEF RecvInv, Knows
    <3>2. Knows'
      BY <1>3, <2>1, <2>2, <3>1 DEF Top, RecvInv, Knows, socket
    <3> QED  BY <2>1, <2>2, <3>2, SameBuffer DEF RecvInv, socket, buffer
  <2>3. CASE pc' = "check"
    <3>1. res \in {"AGAIN", "CLOSE", "ERROR"} /\ "server_shutdown" \notin flags
      BY <1>3, <2>3 DEF Top, TypeOK
    <3>2. Knows'
      <4>1. CASE res = "AGAIN"
        BY <2>1, <2>3, <3>1, <4>1, SameSocket DEF RecvInv, Knows, socket
      <4>2. CASE res \in {"CLOSE", "ERROR"}
        BY <2>1, <2>3, <3>1, <4>2 DEF RecvInv, Knows, socket
      <4> QED  BY <3>1, <4>1, <4>2
    <3> QED  BY <2>1, <2>3, <3>2, SameBuffer DEF RecvInv, socket, buffer
  <2> QED  BY <1>3, <2>2, <2>3 DEF Top
<1>4. CASE RecvZero
  <2>1. UNCHANGED <<stream, socket, buffer, done>> /\ pc = "recv" /\ pc' = "check"
        /\ res' = "CLOSE" /\ flags' = flags \cup {"client_shutdown"}
    BY <1>4 DEF RecvZero
  <2>2. client = "fin" \/ (back = 0 /\ Unread > 0)
    BY <1>4 DEF RecvZero
  <2>3. ShutdownMeansClosed'
    BY <2>1, <2>2 DEF socket, buffer
  <2>4. Knows'
    BY <2>1 DEF RecvInv, Knows, socket
  <2> QED  BY <2>1, <2>3, <2>4, SameBuffer DEF socket
<1>5. CASE RecvError
  <2>1. Knows'
    BY <1>5 DEF RecvError, RecvInv, Knows, socket
  <2> QED  BY <1>5, <2>1, SameBuffer DEF RecvError, RecvInv, Knows, socket, buffer
<1>6. CASE RecvAgain
  <2>1. Quiet'
    BY <1>6 DEF RecvAgain, Quiet, socket, buffer
  <2>2. Knows'
    BY <1>6, <2>1 DEF RecvAgain, RecvInv, Knows, socket
  <2> QED  BY <1>6, <2>2, SameBuffer DEF RecvAgain, RecvInv, socket, buffer
<1>7. CASE TooBig
  <2>1. UNCHANGED <<stream, socket, buffer, done, res>> /\ pc = "check" /\ pc' = "top"
        /\ flags' = flags \cup {"server_shutdown"}
    BY <1>7 DEF TooBig
  <2>2. Knows'
    <3>1. CASE res = "AGAIN"
      BY <2>1, <3>1, SameSocket DEF RecvInv, Knows, socket
    <3>2. CASE res \in {"CLOSE", "ERROR", "FULL", "OK"}
      BY <2>1, <3>2 DEF RecvInv, Knows, socket
    <3> QED  BY <3>1, <3>2 DEF TypeOK
  <2> QED  BY <2>1, <2>2, SameBuffer DEF RecvInv, socket, buffer
<1>8. CASE NotEnough
  BY <1>8, NotEnoughInv
<1>9. CASE Unframed
  <2>1. Knows'
    BY <1>9 DEF Unframed, RecvInv, Knows, socket
  <2> QED  BY <1>9, <2>1, SameBuffer DEF Unframed, RecvInv, socket, buffer
<1>10. CASE UNCHANGED vars
  <2>1. Knows'
    <3>1. (Drained' <=> Drained) /\ (Quiet' <=> Quiet)
      BY <1>10, SameSocket DEF vars
    <3>2. UNCHANGED <<client, edge, back, pre, flags, pc, res>>
      BY <1>10 DEF vars, socket, buffer
    <3> QED  BY <3>1, <3>2 DEF RecvInv, Knows
  <2>2. NothingLeftBehind'
    BY <1>10 DEF vars, NothingLeftBehind, RecvInv, stream, buffer
  <2> QED  BY <1>10, <2>1, <2>2, SameBuffer DEF vars, RecvInv, socket, buffer
<1> QED
  BY <1>1, <1>2, <1>3, <1>4, <1>5, <1>6, <1>7, <1>8, <1>9, <1>10,
     ClientInv, RecvDataInv, HandleFrameInv DEF Next, Worker

(* The receive path's inductive invariant.                                 *)
THEOREM RecvInvariant == Spec => []RecvInv
<1>1. Init => TypeOK /\ RecvInv
  BY InitType, InitInv
<1>2. TypeOK /\ RecvInv /\ [Next]_vars => TypeOK' /\ RecvInv'
  BY StepType, StepInv
<1>3. Spec => [](TypeOK /\ RecvInv)
  BY <1>1, <1>2, PTL DEF Spec
<1> QED
  BY <1>3, PTL

(***************************************************************************)
(* No byte is lost and the framing never shifts, for every fragmentation   *)
(* of the stream and every sequence of frame sizes.                        *)
(***************************************************************************)
THEOREM FramingKept == Spec => []Aligned
<1>1. RecvInv => Aligned
  BY DEF RecvInv
<1> QED
  BY <1>1, RecvInvariant, PTL

(* The handler returns only when no whole frame is left in the buffer.     *)
THEOREM NoFrameLeft == Spec => []NothingLeftBehind
<1>1. RecvInv => NothingLeftBehind
  BY DEF RecvInv
<1> QED
  BY <1>1, RecvInvariant, PTL

(***************************************************************************)
(* Under edge-triggered epoll unread data, a reset, and the end of the     *)
(* stream after whole frames are always going to be reported.              *)
(***************************************************************************)
THEOREM NoStarvedData == Spec => []UnreadDataHasEdge
<1>1. TypeOK /\ RecvInv => UnreadDataHasEdge
  BY DEF RecvInv, Knows, Drained, Quiet, UnreadDataHasEdge, TypeOK, Unread
<1> QED
  BY <1>1, TypeCorrect, RecvInvariant, PTL

(***************************************************************************)
(* client_shutdown without a close means a full buffer and unread data.    *)
(***************************************************************************)
THEOREM ShutdownExplained == Spec => []ShutdownMeansClosed
<1>1. RecvInv => ShutdownMeansClosed
  BY DEF RecvInv
<1> QED
  BY <1>1, RecvInvariant, PTL

-----------------------------------------------------------------------------
(* The implementation of FrameDelivery                                     *)

LEMMA HandleFrameDelivers ==
    ASSUME TypeOK, RecvInv, NEW k \in DOMAIN ends, HandleFrame(k)
    PROVE  Delivery!Next
<1>1. k = done + 1 /\ ends[k] <= sent
  BY HandleFrameInv
<1>2. "server_shutdown" \notin flags
  BY DEF HandleFrame, RecvInv, Knows
<1>3. UNCHANGED <<ends, closer, sent>> /\ done' = done + 1
  BY DEF HandleFrame, stream, socket
<1>4. "server_shutdown" \in flags' <=> k = closer
  BY <1>2 DEF HandleFrame
<1>5. Delivery!Deliver
  BY <1>1, <1>2, <1>3, <1>4 DEF Delivery!Deliver
<1> QED
  BY <1>5 DEF Delivery!Next

LEMMA ClientArrives ==
    ASSUME TypeOK, Client
    PROVE  Delivery!Next
<1>1. UNCHANGED <<ends, closer, done, flags>>
  BY DEF Client, ClientSends, ClientCloses, ClientResets, Arrives, stream
<1>2. sent' \in Nat /\ sent' >= sent
  BY LayoutFacts DEF Client, ClientSends, ClientCloses, ClientResets, TypeOK
<1>3. {k \in DOMAIN ends : ends[k] <= sent} \subseteq {k \in DOMAIN ends : ends[k] <= sent'}
  BY <1>2, LayoutFacts DEF TypeOK
<1>4. Delivery!Arrive
  BY <1>1, <1>3 DEF Delivery!Arrive
<1> QED
  BY <1>4 DEF Delivery!Next

LEMMA StepRefines ==
    ASSUME TypeOK, RecvInv, [Next]_vars
    PROVE  [Delivery!Next]_(Delivery!vars)
<1>1. CASE Client
  BY <1>1, ClientArrives
<1>2. CASE \E k \in DOMAIN ends : HandleFrame(k)
  BY <1>2, HandleFrameDelivers
<1>3. CASE UNCHANGED <<stream, sent, done>> /\ flags' = flags \cup {"server_shutdown"}
  BY <1>3 DEF Delivery!Next, Delivery!Close, stream
<1>4. CASE /\ UNCHANGED <<stream, sent, done>>
           /\ "server_shutdown" \in flags' <=> "server_shutdown" \in flags
  BY <1>4 DEF Delivery!vars, stream
<1>5. \/ Client
      \/ \E k \in DOMAIN ends : HandleFrame(k)
      \/ UNCHANGED <<stream, sent, done>> /\ flags' = flags \cup {"server_shutdown"}
      \/ /\ UNCHANGED <<stream, sent, done>>
         /\ "server_shutdown" \in flags' <=> "server_shutdown" \in flags
  BY DEF Next, Worker, ErrorEvent, ReadEvent, Top, RecvData, RecvZero, RecvError,
         RecvAgain, TooBig, Unframed, NotEnough, vars, socket
<1> QED
  BY <1>1, <1>2, <1>3, <1>4, <1>5

LEMMA InitRefines == Init => Delivery!Init
<1> SUFFICES ASSUME Init PROVE Delivery!Init
  OBVIOUS
<1>1. {k \in DOMAIN ends : ends[k] <= sent} = {}
  BY InitType, LayoutFacts, SizeAssumption DEF Init
<1>2. closer \in Nat
  BY InitType, LayoutFacts DEF TypeOK
<1> QED
  BY <1>1, <1>2 DEF Init, Delivery!Init

(***************************************************************************)
(* The receive path hands over each frame once, in order, only when it has *)
(* arrived completely, and none after the connection was closed.           *)
(***************************************************************************)
THEOREM RecvImplementsDelivery == Spec => ImplementsDelivery
<1>1. TypeOK /\ RecvInv /\ [Next]_vars => [Delivery!Next]_(Delivery!vars)
  BY StepRefines
<1> QED
  BY <1>1, InitRefines, TypeCorrect, RecvInvariant, PTL
     DEF Spec, ImplementsDelivery, Delivery!Spec
=============================================================================
