------------------------------ MODULE SendChain ------------------------------
(***************************************************************************)
(* The send path of one accepted TCP connection: vs_net_send_tcp(),        *)
(* vs_net_deal_send_chain() and vs_net_send_handle() of src/net/vs_net.c,  *)
(* the chains of src/conn/vs_conn.c, vs_conn_send() of                     *)
(* src/conn/vs_conn_send.c, and the registration for EPOLLOUT              *)
(* (src/event/vs_event.c).                                                 *)
(*                                                                         *)
(* What cannot be sent at once waits in nodes of the send chain; a node    *)
(* that is empty again goes to the spare chain for a later message.  Bytes *)
(* are numbered by their position in the stream of accepted messages.      *)
(***************************************************************************)
EXTENDS Integers, Sequences, SequencesExt, FiniteSets

CONSTANTS
    Sizes,       \* the sizes of the messages sent
    ChainMax,    \* the 10 of vs_net_send_tcp()
    SockBuf,     \* the socket's send buffer, in bytes
    LowWater,    \* the free space at which the kernel reports it writable
    MaxSends     \* bound: calls of vs_net_send_tcp()

ASSUME SizesAssumption == Sizes \subseteq Nat \ {0}
ASSUME ChainAssumption == ChainMax \in Nat \ {0}
ASSUME SocketAssumption ==
    SockBuf \in Nat \ {0} /\ LowWater \in 1 .. SockBuf
ASSUME BoundAssumption == MaxSends \in Nat

VARIABLES
    chain,       \* send_chain: nodes, first the one to send next
    nums,        \* send_chain_nums
    spare,       \* send_spare_chain: the allsize of each node
    spareNums,   \* send_spare_nums
    wev,         \* wev->active
    room,        \* free bytes in the socket's send buffer
    nospace,     \* 1 when the kernel will report the next free space
    edge,        \* 1 when an EPOLLOUT event is ready to be reported
    peer,        \* "open" or "gone" (reset)
    closing,     \* 1 when one of the connection's three close flags is set
    pc,          \* where the worker is
    msg,         \* the size of the message vs_net_send_tcp() was called with
    accepted,    \* history: bytes vs_net_send_tcp() has answered VS_OK for
    wire,        \* history: bytes handed to the socket
    sends        \* history: calls of vs_net_send_tcp()

chains == <<chain, nums, spare, spareNums>>
socket == <<room, nospace, edge, peer>>
vars   == <<chains, wev, socket, closing, pc, msg, accepted, wire, sends>>

(***************************************************************************)
(* A node: the stream position of data[0], the position after the last     *)
(* byte copied into it, and the C fields size and allsize.                 *)
(***************************************************************************)
Node == [first : Nat, end : Nat, size : Nat, allsize : Nat]

TypeOK ==
    /\ chain \in Seq(Node) /\ nums \in Int
    /\ spare \in Seq(Nat) /\ spareNums \in Int
    /\ wev \in {0, 1}
    /\ room \in 0 .. SockBuf /\ nospace \in {0, 1} /\ edge \in {0, 1}
    /\ peer \in {"open", "gone"}
    /\ closing \in {0, 1}
    /\ pc \in {"idle", "deal", "choose", "event", "freed"}
    /\ msg \in Nat
    /\ accepted \in Nat /\ wire \in Nat /\ sends \in Nat

(* vs_conn_get() and vs_net_accept_handle(): a fresh, writable connection. *)
Init ==
    /\ chain = <<>> /\ nums = 0 /\ spare = <<>> /\ spareNums = 0
    /\ wev = 0
    /\ room = SockBuf /\ nospace = 0 /\ edge = 0 /\ peer = "open"
    /\ closing = 0 /\ pc = "idle" /\ msg = 0
    /\ accepted = 0 /\ wire = 0 /\ sends = 0

-----------------------------------------------------------------------------
(* The peer and the kernel                                                 *)

(* The peer takes n bytes; free space is reported if somebody missed it.   *)
PeerReads(n) ==
    /\ pc # "freed" /\ peer = "open"
    /\ room + n <= SockBuf
    /\ room' = room + n
    /\ IF nospace = 1 /\ room' >= LowWater
       THEN nospace' = 0 /\ edge' = wev
       ELSE UNCHANGED <<nospace, edge>>
    /\ UNCHANGED <<chains, wev, peer, closing, pc, msg, accepted, wire, sends>>

(* Data arrives: the event is reported with EPOLLOUT while writable.       *)
PeerSends ==
    /\ pc # "freed" /\ peer = "open" /\ wev = 1 /\ room >= LowWater
    /\ edge' = 1
    /\ UNCHANGED <<chains, wev, room, nospace, peer, closing, pc, msg, accepted, wire, sends>>

PeerResets ==
    /\ pc # "freed" /\ peer = "open"
    /\ peer' = "gone"
    /\ UNCHANGED <<chains, wev, room, nospace, edge, closing, pc, msg, accepted, wire, sends>>

-----------------------------------------------------------------------------
(* The connection                                                          *)

(* Mutant: what was asked for is counted, not what was sent.               *)
Fits_All(n) == n

(***************************************************************************)
(* vs_conn_send() of n bytes: all that fits.  If not everything does, its  *)
(* last send() has failed with EAGAIN and the kernel remembers that.       *)
(***************************************************************************)
Fits(n) == IF n <= room THEN n ELSE room

Transmit(n) ==
    /\ peer = "open"
    /\ room' = room - Fits(n)
    /\ wire' = wire + Fits(n)
    /\ nospace' = IF n <= room THEN nospace ELSE 1
    /\ UNCHANGED <<edge, peer>>

(* A handler calls vs_net_send_tcp(): VS_CONN_HAVE_CLOSE, or it goes on.    *)
SendTcp(n) ==
    /\ pc = "idle" /\ sends < MaxSends
    /\ sends' = sends + 1
    /\ msg' = n
    /\ pc' = IF closing = 1 THEN "idle" ELSE IF chain = <<>> THEN "choose" ELSE "deal"
    /\ UNCHANGED <<chains, wev, socket, closing, accepted, wire>>

(* vs_process_events() reports EPOLLOUT: vs_net_send_handle().             *)
WriteEvent ==
    /\ pc = "idle" /\ edge = 1 /\ peer = "open" /\ wev = 1
    /\ edge' = 0
    /\ pc' = "event"
    /\ UNCHANGED <<chains, wev, room, nospace, peer, closing, msg, accepted, wire, sends>>

(* Mutant: one node per event or call.                                     *)
DealNode_Once ==
    /\ pc \in {"deal", "event"} /\ chain # <<>>
    /\ Transmit(Head(chain).size)
    /\ IF Head(chain).size <= room
       THEN /\ chain' = Tail(chain)
            /\ nums' = nums - 1
            /\ spare' = <<Head(chain).allsize>> \o spare
            /\ spareNums' = spareNums + 1
       ELSE /\ chain' = [chain EXCEPT ![1].size = @ - room]
            /\ UNCHANGED <<nums, spare, spareNums>>
    /\ pc' = IF pc = "deal" THEN "choose" ELSE "idle"
    /\ UNCHANGED <<wev, closing, msg, accepted, sends>>

(***************************************************************************)
(* One iteration of vs_net_deal_send_chain(): the first node is sent from  *)
(* the start of its data.  Emptied, it goes to the front of the spare      *)
(* chain; otherwise only its size is reduced, and the loop ends.           *)
(***************************************************************************)
DealNode ==
    /\ pc \in {"deal", "event"} /\ chain # <<>>
    /\ Transmit(Head(chain).size)
    /\ IF Head(chain).size <= room
       THEN /\ chain' = Tail(chain)
            /\ nums' = nums - 1
            /\ spare' = <<Head(chain).allsize>> \o spare
            /\ spareNums' = spareNums + 1
            /\ UNCHANGED pc
       ELSE /\ chain' = [chain EXCEPT ![1].size = @ - room]
            /\ pc' = IF pc = "deal" THEN "choose" ELSE "idle"
            /\ UNCHANGED <<nums, spare, spareNums>>
    /\ UNCHANGED <<wev, closing, msg, accepted, sends>>

DealDone ==
    /\ pc = "deal" /\ chain = <<>>
    /\ pc' = "choose"
    /\ UNCHANGED <<chains, wev, socket, closing, msg, accepted, wire, sends>>

(* send() fails: both callers return with the chain as it is.              *)
DealError ==
    /\ pc \in {"deal", "event"} /\ chain # <<>> /\ peer = "gone"
    /\ pc' = "idle"
    /\ UNCHANGED <<chains, wev, socket, closing, msg, accepted, wire, sends>>

(* The handler found the chain empty: EPOLL_CTL_MOD without EPOLLOUT.      *)
StopWriting ==
    /\ pc = "event" /\ chain = <<>>
    /\ wev' = 0 /\ edge' = 0
    /\ pc' = "idle"
    /\ UNCHANGED <<chains, room, nospace, peer, closing, msg, accepted, wire, sends>>

(* Mutant: a node is pushed to the front of the chain.                     *)
Enqueue_Front(p, n) ==
    /\ nums' = nums + 1
    /\ chain' = <<[first |-> p, end |-> p + n, size |-> n, allsize |-> n]>> \o chain
    /\ UNCHANGED <<spare, spareNums>>

(* Mutant: the first spare node is taken whatever its size.                *)
Enqueue_AnySpare(p, n) ==
    /\ nums' = nums + 1
    /\ \/ /\ spare = <<>>
          /\ chain' = Append(chain, [first |-> p, end |-> p + n, size |-> n, allsize |-> n])
          /\ UNCHANGED <<spare, spareNums>>
       \/ /\ spare # <<>>
          /\ chain' = Append(chain, [first |-> p, end |-> p + n, size |-> n,
                                     allsize |-> Head(spare)])
          /\ spare' = Tail(spare)
          /\ spareNums' = spareNums - 1

(* Mutant: spare nodes are never reused.                                   *)
Enqueue_Fresh(p, n) ==
    /\ nums' = nums + 1
    /\ chain' = Append(chain, [first |-> p, end |-> p + n, size |-> n, allsize |-> n])
    /\ UNCHANGED <<spare, spareNums>>

(***************************************************************************)
(* vs_conn_send_chain_get() and vs_conn_send_chain_push() of the n bytes   *)
(* from stream position p: the first spare node large enough is taken out  *)
(* of the spare chain, or a new one allocated, and goes to the tail.       *)
(***************************************************************************)
Enqueue(p, n) ==
    /\ nums' = nums + 1
    /\ \/ /\ \A i \in DOMAIN spare : spare[i] < n
          /\ chain' = Append(chain, [first |-> p, end |-> p + n, size |-> n, allsize |-> n])
          /\ UNCHANGED <<spare, spareNums>>
       \/ \E i \in DOMAIN spare :
             /\ spare[i] >= n
             /\ \A j \in 1 .. i - 1 : spare[j] < n
             /\ chain' = Append(chain, [first |-> p, end |-> p + n, size |-> n,
                                        allsize |-> spare[i]])
             /\ spare' = RemoveAt(spare, i)
             /\ spareNums' = spareNums - 1

(***************************************************************************)
(* vs_event_add_conn() for EPOLLOUT after n bytes of room were left: it    *)
(* returns early when the event is active; EPOLL_CTL_MOD looks at the      *)
(* socket again, and either reports it or arms the kernel's notification.  *)
(***************************************************************************)
AddWriteEvent ==
    /\ wev' = 1
    /\ IF wev = 1
       THEN UNCHANGED <<nospace, edge>>
       ELSE IF room >= LowWater THEN edge' = 1 /\ UNCHANGED nospace
                                ELSE nospace' = 1 /\ UNCHANGED edge

TooMuch ==
    /\ pc = "choose" /\ chain # <<>> /\ nums >= ChainMax
    /\ pc' = "idle"
    /\ UNCHANGED <<chains, wev, socket, closing, msg, accepted, wire, sends>>

Queue ==
    /\ pc = "choose" /\ chain # <<>> /\ nums < ChainMax
    /\ Enqueue(accepted, msg)
    /\ AddWriteEvent
    /\ accepted' = accepted + msg
    /\ pc' = "idle"
    /\ UNCHANGED <<room, peer, closing, msg, wire, sends>>

(* Mutant: the rest of a direct send is queued, EPOLLOUT not registered.   *)
Direct_Unregistered ==
    /\ pc = "choose" /\ chain = <<>>
    /\ Transmit(msg)
    /\ IF msg <= room THEN UNCHANGED chains
                      ELSE Enqueue(accepted + room, msg - room)
    /\ accepted' = accepted + msg
    /\ pc' = "idle"
    /\ UNCHANGED <<wev, closing, msg, sends>>

(***************************************************************************)
(* No chain: the message is sent directly and only the rest is queued.     *)
(* (room is 0 then: EPOLL_CTL_MOD after EAGAIN finds it not writable       *)
(* unless the peer reads in between, which a later PeerReads stands for.)  *)
(***************************************************************************)
Direct ==
    /\ pc = "choose" /\ chain = <<>>
    /\ Transmit(msg)
    /\ IF msg <= room
       THEN UNCHANGED <<chains, wev>>
       ELSE Enqueue(accepted + room, msg - room) /\ wev' = 1
    /\ accepted' = accepted + msg
    /\ pc' = "idle"
    /\ UNCHANGED <<closing, msg, sends>>

DirectError ==
    /\ pc = "choose" /\ chain = <<>> /\ peer = "gone"
    /\ pc' = "idle"
    /\ UNCHANGED <<chains, wev, socket, closing, msg, accepted, wire, sends>>

(* The receive path, the business or a timer sets one of the close flags.  *)
CloseConn ==
    /\ pc = "idle"
    /\ closing' = 1
    /\ UNCHANGED <<chains, wev, socket, pc, msg, accepted, wire, sends>>

(* EPOLLERR, EPOLLHUP or a flag: vs_net_clean().  The pool goes with the   *)
(* chains, whatever they still hold.                                       *)
Clean ==
    /\ pc = "idle"
    /\ peer = "gone" \/ closing = 1
    /\ closing' = 1
    /\ pc' = "freed"
    /\ UNCHANGED <<chains, wev, socket, msg, accepted, wire, sends>>

-----------------------------------------------------------------------------
Worker ==
    \/ WriteEvent \/ DealNode \/ DealDone \/ DealError \/ StopWriting
    \/ TooMuch \/ Queue \/ Direct \/ DirectError \/ Clean

Peer == PeerSends \/ PeerResets \/ \E n \in 1 .. SockBuf : PeerReads(n)

Next == Worker \/ Peer \/ CloseConn \/ \E n \in Sizes : SendTcp(n)

Spec == Init /\ [][Next]_vars

(***************************************************************************)
(* The event loop comes back to a reported connection and finishes what a  *)
(* handler began; the peer goes on reading.                                *)
(***************************************************************************)
FairSpec ==
    /\ Spec
    /\ WF_vars(Worker)
    /\ WF_vars(\E n \in 1 .. SockBuf : PeerReads(n))

-----------------------------------------------------------------------------
(* Safety                                                                  *)

(* By its size, the node at index i still owes the bytes of its end, from  *)
(* here on.  (The next send() starts at its data all the same, which is    *)
(* the byte `first`: finding 3 of the README, StreamInOrder.)              *)
Due(i) == chain[i].end - chain[i].size

(***************************************************************************)
(* The chain accounts for every message once, in the order of acceptance:  *)
(* its sizes add up to what was accepted and not handed to the socket, and *)
(* behind the head, which alone may have been sent partially, each node    *)
(* holds just the bytes that follow those of the node before it.  Which    *)
(* bytes of the head a send() takes is another matter: StreamInOrder.      *)
(***************************************************************************)
ChainCovers ==
    /\ chain = <<>> => accepted = wire
    /\ chain # <<>> => Due(1) = wire /\ Last(chain).end = accepted
    /\ \A i \in 1 .. Len(chain) - 1 :
          Due(i + 1) = chain[i].end /\ chain[i + 1].first = chain[i].end

(***************************************************************************)
(* The two counters agree with the two lists they count; the limit of the  *)
(* pending chain is tested on the counter only.                            *)
(***************************************************************************)
CountersMatch == nums = Len(chain) /\ spareNums = Len(spare)

ChainBounded == Len(chain) <= ChainMax

(***************************************************************************)
(* A node never holds more than was allocated for it, although nodes are   *)
(* reused for messages of other sizes.                                     *)
(***************************************************************************)
FitsAllocation ==
    \A i \in DOMAIN chain :
        /\ chain[i].size <= chain[i].end - chain[i].first
        /\ chain[i].end - chain[i].first <= chain[i].allsize

(***************************************************************************)
(* The pool of a connection is only freed with it, but what it queues is   *)
(* bounded: the pending chain by the limit, which is tested on a counter,  *)
(* and all the nodes ever taken from the pool, because emptied ones are    *)
(* reused: never more than ChainMax of any one allsize.                    *)
(***************************************************************************)
NodesOf(n) ==
    Cardinality({i \in DOMAIN chain : chain[i].allsize = n})
        + Cardinality({i \in DOMAIN spare : spare[i] = n})
NodesBounded ==
    \A n \in {chain[i].allsize : i \in DOMAIN chain} \cup Range(spare) : NodesOf(n) <= ChainMax

ListsBounded == ChainBounded /\ NodesBounded

(***************************************************************************)
(* No lost wake-up: while something is queued, the worker is registered    *)
(* for EPOLLOUT and the event is there or the kernel will raise it, even   *)
(* where vs_event_add_conn() returns early because it was registered.      *)
(***************************************************************************)
WakeupComes ==
    pc = "idle" /\ chain # <<>> /\ peer = "open"
        => wev = 1 /\ (edge = 1 \/ nospace = 1)

(***************************************************************************)
(* The inductive invariant behind these: the wake-up is also there during  *)
(* a call, except while vs_net_send_handle() is consuming it.              *)
(***************************************************************************)
WakeupKept ==
    peer = "open" /\ chain # <<>> /\ pc # "freed"
        => wev = 1 /\ (pc = "event" \/ edge = 1 \/ nospace = 1)

SendInv == ChainCovers /\ CountersMatch /\ ChainBounded /\ FitsAllocation /\ WakeupKept

(***************************************************************************)
(* README.md:60: send_chain holds what is still to be sent.  What the next *)
(* send() hands to the socket is the byte the peer expects next.           *)
(***************************************************************************)
NextByte == IF chain = <<>> THEN accepted ELSE Head(chain).first
StreamInOrder == [][wire' # wire => NextByte = wire]_vars

-----------------------------------------------------------------------------
(* Liveness                                                                *)

(* What is queued is sent, as long as the peer reads and stays.            *)
ChainDrains == (chain # <<>>) ~> (chain = <<>> \/ pc = "freed")
=============================================================================
