--------------------------- MODULE SendChainProofs ---------------------------
(***************************************************************************)
(* Proofs about SendChain, for every set of message sizes, every limit of  *)
(* the pending chain and every size of the socket's buffer.                *)
(***************************************************************************)
EXTENDS SendChain, FiniteSetTheorems, TLAPS

-----------------------------------------------------------------------------
(* What the two operations on the lists do                                 *)

(* RemoveAt() takes one element out and keeps the others.                  *)
LEMMA RemoveAtFacts ==
    ASSUME NEW s \in Seq(Nat), NEW i \in DOMAIN s
    PROVE  RemoveAt(s, i) \in Seq(Nat) /\ Len(RemoveAt(s, i)) = Len(s) - 1
<1>1. Len(s) \in Nat /\ i \in 1 .. Len(s)
  OBVIOUS
<1>2. SubSeq(s, 1, i - 1) \in Seq(Nat) /\ Len(SubSeq(s, 1, i - 1)) = i - 1
  <2>1. \A k \in 1 .. i - 1 : s[k] \in Nat
    BY <1>1
  <2> QED  BY <1>1, <2>1, SMTT(30)
<1>3. SubSeq(s, i + 1, Len(s)) \in Seq(Nat) /\ Len(SubSeq(s, i + 1, Len(s))) = Len(s) - i
  <2>1. \A k \in i + 1 .. Len(s) : s[k] \in Nat
    BY <1>1
  <2> QED  BY <1>1, <2>1, SMTT(30)
<1> DEFINE a == SubSeq(s, 1, i - 1)
           b == SubSeq(s, i + 1, Len(s))
<1>4. a \in Seq(Nat) /\ b \in Seq(Nat) /\ Len(a) + Len(b) = Len(s) - 1
  <2>1. a \in Seq(Nat) /\ b \in Seq(Nat)
    BY <1>2, <1>3
  <2>2. Len(a) = i - 1 /\ Len(b) = Len(s) - i
    BY <1>2, <1>3
  <2> HIDE DEF a, b
  <2> QED  BY <1>1, <2>1, <2>2
<1>5. RemoveAt(s, i) = a \o b
  BY DEF RemoveAt
<1> HIDE DEF a, b
<1>6. a \o b \in Seq(Nat) /\ Len(a \o b) = Len(a) + Len(b)
  BY <1>4
<1> QED
  BY <1>4, <1>5, <1>6

(* vs_conn_send_chain_get() and _push(): one node more, at the tail.       *)
LEMMA EnqueueFacts ==
    ASSUME TypeOK, NEW p \in Nat, NEW n \in Nat, Enqueue(p, n)
    PROVE  /\ chain' \in Seq(Node) /\ Len(chain') = Len(chain) + 1
           /\ \A i \in 1 .. Len(chain) : chain'[i] = chain[i]
           /\ LET new == chain'[Len(chain) + 1]
              IN  /\ new.first = p /\ new.end = p + n /\ new.size = n
                  /\ new.allsize \in Nat /\ new.allsize >= n
           /\ nums' = nums + 1
           /\ spare' \in Seq(Nat)
           /\ spareNums' - Len(spare') = spareNums - Len(spare)
           /\ spareNums' \in Int
<1>1. chain \in Seq(Node) /\ spare \in Seq(Nat) /\ spareNums \in Int
  BY DEF TypeOK
<1>2. PICK a \in Nat :
        /\ a >= n
        /\ chain' = Append(chain, [first |-> p, end |-> p + n, size |-> n, allsize |-> a])
        /\ spare' \in Seq(Nat)
        /\ spareNums' - Len(spare') = spareNums - Len(spare)
        /\ spareNums' \in Int
  <2>1. CASE UNCHANGED <<spare, spareNums>>
             /\ chain' = Append(chain, [first |-> p, end |-> p + n, size |-> n, allsize |-> n])
    <3>1. n \in Nat /\ n >= n
      OBVIOUS
    <3>2. spare' \in Seq(Nat) /\ spareNums' \in Int
          /\ spareNums' - Len(spare') = spareNums - Len(spare)
      BY <1>1, <2>1
    <3> QED  BY <2>1, <3>1, <3>2
  <2>2. CASE \E i \in DOMAIN spare :
                /\ spare[i] >= n
                /\ chain' = Append(chain, [first |-> p, end |-> p + n, size |-> n,
                                           allsize |-> spare[i]])
                /\ spare' = RemoveAt(spare, i)
                /\ spareNums' = spareNums - 1
    <3>1. PICK i \in DOMAIN spare :
                /\ spare[i] >= n
                /\ chain' = Append(chain, [first |-> p, end |-> p + n, size |-> n,
                                           allsize |-> spare[i]])
                /\ spare' = RemoveAt(spare, i)
                /\ spareNums' = spareNums - 1
      BY <2>2
    <3>2. spare[i] \in Nat
      BY <1>1
    <3>3. spare' \in Seq(Nat) /\ Len(spare') = Len(spare) - 1
      BY <1>1, <3>1, RemoveAtFacts
    <3>4. spareNums' - Len(spare') = spareNums - Len(spare) /\ spareNums' \in Int
      <4>1. Len(spare) \in Nat
        BY <1>1
      <4> QED  BY <1>1, <3>1, <3>3, <4>1
    <3> QED  BY <3>1, <3>2, <3>3, <3>4
  <2> QED  BY <2>1, <2>2 DEF Enqueue
<1> DEFINE new == [first |-> p, end |-> p + n, size |-> n, allsize |-> a]
<1>3. new \in Node
  BY <1>2 DEF Node
<1>4. chain' \in Seq(Node) /\ Len(chain') = Len(chain) + 1
      /\ (\A i \in 1 .. Len(chain) : chain'[i] = chain[i])
      /\ chain'[Len(chain) + 1] = new
  <2> HIDE DEF new
  <2>1. chain' = Append(chain, new)
    BY <1>2 DEF new
  <2> QED  BY <1>1, <1>3, <2>1
<1>5. nums' = nums + 1
  BY DEF Enqueue
<1> QED
  BY <1>2, <1>4, <1>5

(* One iteration of vs_net_deal_send_chain(): the node goes or shrinks.    *)
LEMMA DealFacts ==
    ASSUME TypeOK, DealNode
    PROVE  /\ peer = "open" /\ Len(chain) \in Nat /\ Len(chain) > 0
           /\ chain' \in Seq(Node)
           /\ \/ /\ chain[1].size <= room
                 /\ room' = room - chain[1].size /\ wire' = wire + chain[1].size
                 /\ nospace' = nospace /\ pc' = pc
                 /\ chain' = Tail(chain) /\ Len(chain') = Len(chain) - 1
                 /\ \A i \in 1 .. Len(chain) - 1 : chain'[i] = chain[i + 1]
                 /\ nums' = nums - 1
                 /\ spare' \in Seq(Nat) /\ Len(spare') = Len(spare) + 1
                 /\ spareNums' = spareNums + 1
              \/ /\ chain[1].size > room
                 /\ room' = 0 /\ wire' = wire + room
                 /\ nospace' = 1 /\ pc' \in {"choose", "idle"}
                 /\ Len(chain') = Len(chain)
                 /\ chain'[1] = [chain[1] EXCEPT !.size = @ - room]
                 /\ \A i \in 2 .. Len(chain) : chain'[i] = chain[i]
                 /\ UNCHANGED <<nums, spare, spareNums>>
<1>1. chain \in Seq(Node) /\ spare \in Seq(Nat) /\ chain # <<>> /\ room \in Nat /\ wire \in Nat
  BY SocketAssumption DEF TypeOK, DealNode
<1>2. Len(chain) \in Nat /\ Len(chain) > 0 /\ Head(chain) = chain[1] /\ chain[1] \in Node
  BY <1>1
<1>3. chain[1].size \in Nat /\ chain[1].allsize \in Nat
  BY <1>2 DEF Node
<1>4. peer = "open"
  BY DEF DealNode, Transmit
<1>5. CASE chain[1].size <= room
  <2>1. room' = room - chain[1].size /\ wire' = wire + chain[1].size /\ nospace' = nospace
    BY <1>2, <1>5 DEF DealNode, Transmit, Fits
  <2>2. chain' = Tail(chain) /\ nums' = nums - 1 /\ spareNums' = spareNums + 1 /\ pc' = pc
        /\ spare' = <<chain[1].allsize>> \o spare
    BY <1>2, <1>5 DEF DealNode
  <2>3. chain' \in Seq(Node) /\ Len(chain') = Len(chain) - 1
        /\ \A i \in 1 .. Len(chain) - 1 : chain'[i] = chain[i + 1]
    BY <1>1, <1>2, <2>2
  <2>4. spare' \in Seq(Nat) /\ Len(spare') = Len(spare) + 1
    BY <1>1, <1>3, <2>2
  <2> QED  BY <1>2, <1>4, <1>5, <2>1, <2>2, <2>3, <2>4
<1>6. CASE ~(chain[1].size <= room)
  <2>1. room' = 0 /\ wire' = wire + room /\ nospace' = 1
    BY <1>1, <1>2, <1>6 DEF DealNode, Transmit, Fits
  <2>2. chain' = [chain EXCEPT ![1].size = @ - room] /\ UNCHANGED <<nums, spare, spareNums>>
        /\ pc' \in {"choose", "idle"}
    BY <1>2, <1>6 DEF DealNode
  <2>3. [chain[1] EXCEPT !.size = @ - room] \in Node
    <3> DEFINE rest == chain[1].size - room
    <3>1. rest \in Nat
      BY <1>1, <1>3, <1>6
    <3> HIDE DEF rest
    <3>2. [chain[1] EXCEPT !.size = rest] \in Node
      BY <1>2, <3>1 DEF Node
    <3> QED  BY <3>2 DEF rest
  <2>4. chain' = [chain EXCEPT ![1] = [chain[1] EXCEPT !.size = @ - room]]
    BY <1>1, <1>2, <2>2
  <2>5. chain' \in Seq(Node) /\ Len(chain') = Len(chain)
        /\ chain'[1] = [chain[1] EXCEPT !.size = @ - room]
        /\ \A i \in 2 .. Len(chain) : chain'[i] = chain[i]
    <3> DEFINE new == [chain[1] EXCEPT !.size = @ - room]
    <3>1. new \in Node /\ chain' = [chain EXCEPT ![1] = new]
      BY <2>3, <2>4
    <3> HIDE DEF new
    <3>2. chain' \in Seq(Node) /\ Len(chain') = Len(chain) /\ chain'[1] = new
          /\ \A i \in 2 .. Len(chain) : chain'[i] = chain[i]
      BY <1>1, <1>2, <3>1
    <3> QED  BY <3>2 DEF new
  <2>6. chain[1].size > room
    BY <1>1, <1>3, <1>6
  <2> QED  BY <1>2, <1>4, <2>1, <2>2, <2>5, <2>6
<1> QED
  BY <1>5, <1>6
-----------------------------------------------------------------------------
(* Type correctness                                                        *)

LEMMA InitType == Init => TypeOK
  BY SocketAssumption DEF Init, TypeOK

LEMMA DirectFacts ==
    ASSUME TypeOK, Direct
    PROVE  /\ peer = "open" /\ chain = <<>> /\ accepted' = accepted + msg
           /\ \/ /\ msg <= room /\ UNCHANGED <<chains, wev, nospace>>
                 /\ wire' = wire + msg /\ room' = room - msg
              \/ /\ msg > room /\ Enqueue(accepted + room, msg - room)
                 /\ wev' = 1 /\ nospace' = 1 /\ wire' = wire + room /\ room' = 0
<1>1. room \in Nat /\ msg \in Nat /\ wire \in Nat
  BY SocketAssumption DEF TypeOK
<1>2. CASE msg <= room
  BY <1>1, <1>2 DEF Direct, Transmit, Fits
<1>3. CASE ~(msg <= room)
  <2>1. msg > room
    BY <1>1, <1>3
  <2>2. Fits(msg) = room
    BY <1>3 DEF Fits
  <2>3. room' = 0 /\ wire' = wire + room
    BY <1>1, <2>2 DEF Direct, Transmit
  <2> QED  BY <1>3, <2>1, <2>3 DEF Direct, Transmit
<1> QED
  BY <1>2, <1>3

LEMMA DealNodeType ==
    ASSUME TypeOK, DealNode
    PROVE  TypeOK'
<1>1. room \in 0 .. SockBuf /\ wire \in Nat /\ nums \in Int /\ spareNums \in Int
      /\ SockBuf \in Nat
  BY SocketAssumption DEF TypeOK
<1>2. chain[1].size \in Nat
  <2>1. chain \in Seq(Node) /\ Len(chain) \in Nat /\ Len(chain) > 0
    BY DealFacts DEF TypeOK
  <2>2. chain[1] \in Node
    BY <2>1
  <2> QED  BY <2>2 DEF Node
<1>3. room' \in 0 .. SockBuf /\ wire' \in Nat /\ nums' \in Int /\ spareNums' \in Int
  <2>1. \/ /\ chain[1].size <= room
           /\ room' = room - chain[1].size /\ wire' = wire + chain[1].size
           /\ nums' = nums - 1 /\ spareNums' = spareNums + 1
        \/ room' = 0 /\ wire' = wire + room /\ nums' = nums /\ spareNums' = spareNums
    BY DealFacts
  <2> QED  BY <1>1, <1>2, <2>1
<1>4. chain' \in Seq(Node) /\ spare' \in Seq(Nat) /\ nospace' \in {0, 1}
      /\ pc' \in {"idle", "deal", "choose", "event", "freed"}
  BY DealFacts DEF TypeOK
<1>5. UNCHANGED <<wev, edge, peer, closing, msg, accepted, sends>>
  BY DEF DealNode, Transmit
<1> QED
  BY <1>3, <1>4, <1>5 DEF TypeOK

LEMMA QueueType ==
    ASSUME TypeOK, Queue
    PROVE  TypeOK'
<1>1. accepted \in Nat /\ msg \in Nat /\ nums \in Int
  BY DEF TypeOK
<1>2. Enqueue(accepted, msg)
  BY DEF Queue
<1>3. chain' \in Seq(Node) /\ spare' \in Seq(Nat) /\ nums' \in Int /\ spareNums' \in Int
  BY <1>1, <1>2, EnqueueFacts
<1>4. wev' \in {0, 1} /\ nospace' \in {0, 1} /\ edge' \in {0, 1}
  BY DEF Queue, AddWriteEvent, TypeOK
<1>5. accepted' \in Nat /\ pc' = "idle" /\ UNCHANGED <<room, peer, closing, msg, wire, sends>>
  BY <1>1 DEF Queue
<1> QED
  BY <1>3, <1>4, <1>5 DEF TypeOK

LEMMA DirectType ==
    ASSUME TypeOK, Direct
    PROVE  TypeOK'
<1>1. accepted \in Nat /\ msg \in Nat /\ nums \in Int /\ wire \in Nat
      /\ room \in 0 .. SockBuf /\ SockBuf \in Nat
  BY SocketAssumption DEF TypeOK
<1>2. UNCHANGED <<edge, peer, closing, msg, sends>> /\ pc' = "idle" /\ accepted' \in Nat
  BY <1>1 DEF Direct, Transmit
<1>3. CASE msg <= room /\ UNCHANGED <<chains, wev, nospace>>
           /\ wire' = wire + msg /\ room' = room - msg
  <2>1. wire' \in Nat /\ room' \in 0 .. SockBuf
    BY <1>1, <1>3
  <2> QED  BY <1>2, <1>3, <2>1 DEF TypeOK, chains
<1>4. CASE msg > room /\ Enqueue(accepted + room, msg - room)
           /\ wev' = 1 /\ nospace' = 1 /\ wire' = wire + room /\ room' = 0
  <2>1. accepted + room \in Nat /\ msg - room \in Nat
    BY <1>1, <1>4
  <2>2. chain' \in Seq(Node) /\ spare' \in Seq(Nat) /\ nums' \in Int /\ spareNums' \in Int
    BY <1>1, <1>4, <2>1, EnqueueFacts
  <2>3. wire' \in Nat /\ room' \in 0 .. SockBuf
    BY <1>1, <1>4
  <2> QED  BY <1>2, <1>4, <2>2, <2>3 DEF TypeOK
<1> QED
  BY <1>3, <1>4, DirectFacts

(* The steps that leave the two lists and the byte counts alone.           *)
Quiet ==
    \/ Peer \/ CloseConn \/ (\E n \in Sizes : SendTcp(n))
    \/ WriteEvent \/ DealDone \/ DealError \/ StopWriting
    \/ TooMuch \/ DirectError \/ Clean

LEMMA Steps == Next => Quiet \/ DealNode \/ Queue \/ Direct
  BY DEF Next, Worker, Quiet

LEMMA QuietType ==
    ASSUME TypeOK, Quiet
    PROVE  TypeOK' /\ UNCHANGED <<chains, accepted, wire>>
<1>1. CASE \E n \in 1 .. SockBuf : PeerReads(n)
  <2>1. PICK n \in 1 .. SockBuf : PeerReads(n)
    BY <1>1
  <2>2. room' \in 0 .. SockBuf
    BY <2>1, SocketAssumption DEF PeerReads, TypeOK
  <2>3. nospace' \in {0, 1} /\ edge' \in {0, 1}
    BY <2>1 DEF PeerReads, TypeOK
  <2> QED  BY <2>1, <2>2, <2>3 DEF PeerReads, TypeOK, chains
<1>2. CASE PeerSends \/ PeerResets \/ CloseConn
  BY <1>2 DEF PeerSends, PeerResets, CloseConn, TypeOK, chains, socket
<1>3. CASE \E n \in Sizes : SendTcp(n)
  <2>1. PICK n \in Sizes : SendTcp(n)
    BY <1>3
  <2>2. n \in Nat
    BY SizesAssumption
  <2>3. sends' \in Nat /\ pc' \in {"idle", "deal", "choose"} /\ msg' \in Nat
    BY <2>1, <2>2 DEF SendTcp, TypeOK
  <2>4. UNCHANGED <<chains, wev, socket, closing, accepted, wire>>
    BY <2>1 DEF SendTcp
  <2> QED  BY <2>3, <2>4 DEF TypeOK, chains, socket
<1>4. CASE WriteEvent \/ DealDone \/ DealError \/ StopWriting
  BY <1>4 DEF WriteEvent, DealDone, DealError, StopWriting, TypeOK, chains, socket
<1>5. CASE TooMuch \/ DirectError \/ Clean
  BY <1>5 DEF TooMuch, DirectError, Clean, TypeOK, chains, socket
<1> QED
  BY <1>1, <1>2, <1>3, <1>4, <1>5 DEF Quiet, Peer

LEMMA NextType == TypeOK /\ [Next]_vars => TypeOK'
<1> SUFFICES ASSUME TypeOK, [Next]_vars PROVE TypeOK'
  OBVIOUS
<1>1. CASE UNCHANGED vars
  BY <1>1 DEF TypeOK, vars, chains, socket
<1> QED
  BY <1>1, Steps, QuietType, DealNodeType, QueueType, DirectType

(* Every variable of the send path stays of its type.                      *)
THEOREM TypeCorrect == Spec => []TypeOK
<1>1. Init => TypeOK
  BY InitType
<1>2. TypeOK /\ [Next]_vars => TypeOK'
  BY NextType
<1> QED
  BY <1>1, <1>2, PTL DEF Spec
-----------------------------------------------------------------------------
(* The inductive invariant                                                 *)

LEMMA NodeSeq ==
    ASSUME NEW c \in Seq(Node)
    PROVE  /\ Len(c) \in Nat /\ DOMAIN c = 1 .. Len(c)
           /\ (c = <<>> <=> Len(c) = 0)
           /\ \A i \in 1 .. Len(c) :
                 /\ c[i].first \in Nat /\ c[i].end \in Nat
                 /\ c[i].size \in Nat /\ c[i].allsize \in Nat
           /\ Last(c) = c[Len(c)]
<1>1. \A i \in 1 .. Len(c) : c[i] \in Node
  OBVIOUS
<1>2. Last(c) = c[Len(c)]
  BY DEF Last
<1> QED
  BY <1>1, <1>2, SMTT(20) DEF Node

(* The two ends of the chain, and the elements of the two lists.           *)
LEMMA ChainFacts ==
    ASSUME TypeOK
    PROVE  /\ Len(chain) \in Nat /\ DOMAIN chain = 1 .. Len(chain)
           /\ (chain = <<>> <=> Len(chain) = 0)
           /\ \A i \in 1 .. Len(chain) :
                 /\ chain[i].first \in Nat /\ chain[i].end \in Nat
                 /\ chain[i].size \in Nat /\ chain[i].allsize \in Nat
           /\ Last(chain) = chain[Len(chain)]
           /\ Len(spare) \in Nat
<1>1. chain \in Seq(Node) /\ spare \in Seq(Nat)
  BY DEF TypeOK
<1> QED
  BY <1>1, NodeSeq

LEMMA InitInv == Init => SendInv
  BY ChainAssumption DEF Init, SendInv, ChainCovers, CountersMatch, ChainBounded,
     FitsAllocation, WakeupKept

LEMMA QuietInv ==
    ASSUME TypeOK, SendInv, Quiet
    PROVE  SendInv'
<1>1. UNCHANGED <<chains, accepted, wire>>
  BY QuietType
<1>2. ChainCovers' /\ CountersMatch' /\ ChainBounded' /\ FitsAllocation'
  BY <1>1 DEF SendInv, ChainCovers, CountersMatch, ChainBounded, FitsAllocation, Due, chains
<1>3. WakeupKept'
  <2>1. WakeupKept /\ chain' = chain
    BY <1>1 DEF SendInv, chains
  <2>2. CASE \E n \in 1 .. SockBuf : PeerReads(n)
    BY <2>1, <2>2 DEF PeerReads, WakeupKept
  <2>3. CASE PeerSends \/ PeerResets \/ CloseConn
    BY <2>1, <2>3 DEF PeerSends, PeerResets, CloseConn, WakeupKept, socket
  <2>4. CASE \E n \in Sizes : SendTcp(n)
    BY <2>1, <2>4 DEF SendTcp, WakeupKept, socket
  <2>5. CASE WriteEvent \/ DealDone \/ DealError \/ StopWriting
    BY <2>1, <2>5 DEF WriteEvent, DealDone, DealError, StopWriting, WakeupKept, socket
  <2>6. CASE TooMuch \/ DirectError \/ Clean
    BY <2>1, <2>6 DEF TooMuch, DirectError, Clean, WakeupKept, socket
  <2> QED  BY <2>2, <2>3, <2>4, <2>5, <2>6 DEF Quiet, Peer
<1> QED
  BY <1>2, <1>3 DEF SendInv

(* A node that is emptied leaves the next one at the head, due next.       *)
LEMMA DealNodeInv ==
    ASSUME TypeOK, SendInv, DealNode
    PROVE  SendInv'
<1> DEFINE l == Len(chain)
<1>1. chain' \in Seq(Node) /\ Len(chain') \in Nat /\ DOMAIN chain' = 1 .. Len(chain')
      /\ (chain' = <<>> <=> Len(chain') = 0) /\ Last(chain') = chain'[Len(chain')]
  <2>1. chain' \in Seq(Node)
    BY DealFacts
  <2> QED  BY <2>1, NodeSeq
<1>2. /\ l \in Nat /\ l > 0
      /\ \A i \in 1 .. l : /\ chain[i].first \in Nat /\ chain[i].end \in Nat
                          /\ chain[i].size \in Nat /\ chain[i].allsize \in Nat
      /\ room \in Nat /\ wire \in Nat
  BY ChainFacts, DealFacts, SocketAssumption DEF TypeOK
<1>3. /\ Due(1) = wire /\ chain[l].end = accepted
      /\ \A i \in 1 .. l - 1 : Due(i + 1) = chain[i].end /\ chain[i + 1].first = chain[i].end
  BY <1>2, ChainFacts DEF SendInv, ChainCovers
<1>4. nums = l /\ spareNums = Len(spare) /\ l <= ChainMax /\ accepted' = accepted
  BY DEF SendInv, CountersMatch, ChainBounded, DealNode
<1>5. \A i \in 1 .. l : /\ chain[i].size <= chain[i].end - chain[i].first
                       /\ chain[i].end - chain[i].first <= chain[i].allsize
  BY ChainFacts DEF SendInv, FitsAllocation
<1>6. CASE /\ wire' = wire + chain[1].size /\ nospace' = nospace /\ pc' = pc
           /\ Len(chain') = l - 1
           /\ \A i \in 1 .. l - 1 : chain'[i] = chain[i + 1]
           /\ nums' = nums - 1
           /\ Len(spare') = Len(spare) + 1 /\ spareNums' = spareNums + 1
  <2>1. ChainCovers'
    <3>1. chain' = <<>> => accepted' = wire'
      <4>1. chain' = <<>> => l = 1
        BY <1>1, <1>2, <1>6
      <4> HIDE DEF l
      <4> QED  BY <1>2, <1>3, <1>4, <1>6, <4>1 DEF Due
    <3>2. chain' # <<>> => Due(1)' = wire' /\ Last(chain').end = accepted'
      <4>1. chain' # <<>> => l > 1 /\ Last(chain') = chain'[l - 1]
        BY <1>1, <1>2, <1>6
      <4> HIDE DEF l
      <4>2. ASSUME l > 1
            PROVE  chain'[1].end - chain'[1].size = wire' /\ chain'[l - 1].end = accepted'
        <5>1. chain'[1] = chain[2] /\ chain'[l - 1] = chain[l]
          BY <1>2, <1>6, <4>2
        <5>2. Due(2) = chain[1].end /\ chain[1].end = wire + chain[1].size
          BY <1>2, <1>3, <4>2 DEF Due
        <5> QED  BY <1>3, <1>4, <1>6, <5>1, <5>2 DEF Due
      <4> QED  BY <4>1, <4>2 DEF Due
    <3>3. \A i \in 1 .. Len(chain') - 1 :
             Due(i + 1)' = chain'[i].end /\ chain'[i + 1].first = chain'[i].end
      <4> HIDE DEF l
      <4> SUFFICES ASSUME NEW i \in 1 .. l - 2
                   PROVE  /\ chain'[i + 1].end - chain'[i + 1].size = chain'[i].end
                          /\ chain'[i + 1].first = chain'[i].end
        BY <1>2, <1>6, SMTT(30) DEF Due
      <4>1. chain'[i + 1] = chain[i + 2] /\ chain'[i] = chain[i + 1]
        BY <1>2, <1>6
      <4>2. Due(i + 2) = chain[i + 1].end /\ chain[i + 2].first = chain[i + 1].end
        <5>1. i + 1 \in 1 .. l - 1 /\ (i + 1) + 1 = i + 2
          BY <1>2
        <5> QED  BY <1>3, <5>1
      <4> QED  BY <4>1, <4>2 DEF Due
    <3> QED  BY <3>1, <3>2, <3>3 DEF ChainCovers
  <2>2. CountersMatch' /\ ChainBounded'
    <3> HIDE DEF l
    <3>1. Len(spare) \in Nat /\ ChainMax \in Nat
      BY ChainFacts, ChainAssumption
    <3> QED  BY <1>2, <1>4, <1>6, <3>1 DEF CountersMatch, ChainBounded
  <2>3. FitsAllocation'
    <3> HIDE DEF l
    <3>1. DOMAIN chain' = 1 .. l - 1
      BY <1>1, <1>6
    <3> QED  BY <1>2, <1>5, <1>6, <3>1, SMTT(30) DEF FitsAllocation
  <2>4. WakeupKept'
    BY <1>6 DEF SendInv, WakeupKept, DealNode, Transmit
  <2> QED  BY <2>1, <2>2, <2>3, <2>4 DEF SendInv
<1>7. CASE /\ chain[1].size > room
           /\ wire' = wire + room
           /\ nospace' = 1 /\ pc' \in {"choose", "idle"}
           /\ Len(chain') = l
           /\ chain'[1] = [chain[1] EXCEPT !.size = @ - room]
           /\ \A i \in 2 .. l : chain'[i] = chain[i]
           /\ UNCHANGED <<nums, spare, spareNums>>
  <2>1. /\ chain'[1].end = chain[1].end /\ chain'[1].size = chain[1].size - room
        /\ chain'[1].first = chain[1].first /\ chain'[1].allsize = chain[1].allsize
    <3>1. chain[1] \in Node
      BY <1>2 DEF TypeOK
    <3> QED  BY <1>7, <3>1 DEF Node
  <2>2. \A i \in 1 .. l : /\ chain'[i].end = chain[i].end /\ chain'[i].first = chain[i].first
                         /\ chain'[i].allsize = chain[i].allsize
                         /\ chain'[i].size \in Nat /\ chain'[i].size <= chain[i].size
    <3> HIDE DEF l
    <3> TAKE i \in 1 .. l
    <3>1. CASE i = 1
      <4>1. chain[1].size \in Nat /\ room \in Nat /\ chain[1].size > room
        BY <1>2, <1>7
      <4> QED  BY <2>1, <3>1, <4>1
    <3>2. CASE i # 1
      BY <1>2, <1>7, <3>2, SMTT(30)
    <3> QED  BY <3>1, <3>2
  <2>3. ChainCovers'
    <3>1. chain' # <<>> /\ Last(chain') = chain'[l]
      BY <1>1, <1>2, <1>7
    <3>2. Due(1)' = wire'
      <4>1. wire = chain[1].end - chain[1].size
        BY <1>3 DEF Due
      <4> HIDE DEF l
      <4>2. chain[1].end \in Nat /\ chain[1].size \in Nat
        BY <1>2
      <4> QED  BY <1>2, <1>7, <2>1, <4>1, <4>2, SMTT(20) DEF Due
    <3>3. Last(chain').end = accepted'
      BY <1>2, <1>3, <1>4, <2>2, <3>1
    <3>4. \A i \in 1 .. Len(chain') - 1 :
             Due(i + 1)' = chain'[i].end /\ chain'[i + 1].first = chain'[i].end
      <4> HIDE DEF l
      <4> SUFFICES ASSUME NEW i \in 1 .. l - 1
                   PROVE  /\ chain'[i + 1].end - chain'[i + 1].size = chain'[i].end
                          /\ chain'[i + 1].first = chain'[i].end
        BY <1>2, <1>7 DEF Due
      <4>1. chain'[i + 1] = chain[i + 1] /\ chain'[i].end = chain[i].end
        BY <1>2, <1>7, <2>2
      <4>2. Due(i + 1) = chain[i].end /\ chain[i + 1].first = chain[i].end
        BY <1>3
      <4> QED  BY <4>1, <4>2 DEF Due
    <3> QED  BY <3>1, <3>2, <3>3, <3>4 DEF ChainCovers
  <2>4. CountersMatch' /\ ChainBounded'
    BY <1>4, <1>7 DEF CountersMatch, ChainBounded
  <2>5. FitsAllocation'
    <3>1. DOMAIN chain' = 1 .. l
      BY <1>1, <1>7
    <3> HIDE DEF l
    <3> SUFFICES ASSUME NEW i \in 1 .. l
                 PROVE  /\ chain'[i].size <= chain'[i].end - chain'[i].first
                        /\ chain'[i].end - chain'[i].first <= chain'[i].allsize
      BY <3>1 DEF FitsAllocation
    <3> QED  BY <1>2, <1>5, <2>2
  <2>6. WakeupKept'
    BY <1>2, <1>7 DEF SendInv, WakeupKept, DealNode, Transmit
  <2> QED  BY <2>3, <2>4, <2>5, <2>6 DEF SendInv
<1> QED
  BY <1>6, <1>7, DealFacts
(***************************************************************************)
(* A node put at the tail continues the chain when it starts where the     *)
(* chain ends, or where the socket has got to if there is none.            *)
(***************************************************************************)
LEMMA EnqueueInv ==
    ASSUME TypeOK, ChainCovers, CountersMatch, ChainBounded, FitsAllocation,
           NEW p \in Nat, NEW n \in Nat, Enqueue(p, n),
           accepted' = p + n, nums < ChainMax,
           \/ chain # <<>> /\ p = accepted /\ wire' = wire
           \/ chain = <<>> /\ wire' = p
    PROVE  ChainCovers' /\ CountersMatch' /\ ChainBounded' /\ FitsAllocation'
<1> DEFINE l == Len(chain)
<1>1. /\ chain' \in Seq(Node) /\ Len(chain') = l + 1
      /\ \A i \in 1 .. l : chain'[i] = chain[i]
      /\ chain'[l + 1].first = p /\ chain'[l + 1].end = p + n
      /\ chain'[l + 1].size = n
      /\ chain'[l + 1].allsize \in Nat /\ chain'[l + 1].allsize >= n
      /\ nums' = nums + 1
      /\ spareNums' - Len(spare') = spareNums - Len(spare)
      /\ Len(spare') \in Nat /\ spareNums' \in Int
  <2>1. spare' \in Seq(Nat)
    BY EnqueueFacts
  <2> QED  BY <2>1, EnqueueFacts
<1>2. /\ chain' # <<>> /\ Last(chain') = chain'[l + 1]
      /\ DOMAIN chain' = 1 .. l + 1 /\ l \in Nat
      /\ (chain = <<>> <=> l = 0) /\ DOMAIN chain = 1 .. l
      /\ \A i \in 1 .. l : chain[i].end \in Nat /\ chain[i].size \in Nat
      /\ Len(spare) \in Nat
  <2>1. l \in Nat
    BY ChainFacts
  <2>2. chain' # <<>> /\ Last(chain') = chain'[l + 1] /\ DOMAIN chain' = 1 .. l + 1
    BY <1>1, <2>1, NodeSeq
  <2> QED  BY <2>1, <2>2, ChainFacts
<1>3. ChainCovers'
  <2>1. Due(1)' = wire'
    <3>1. CASE chain = <<>> /\ wire' = p
      <4>1. chain'[1].end = p + n /\ chain'[1].size = n
        BY <1>1, <1>2, <3>1
      <4> QED  BY <3>1, <4>1 DEF Due
    <3>2. CASE chain # <<>> /\ wire' = wire
      <4>1. chain'[1] = chain[1] /\ chain[1].end - chain[1].size = wire
        BY <1>1, <1>2, <3>2 DEF ChainCovers, Due
      <4> QED  BY <3>2, <4>1 DEF Due
    <3> QED  BY <3>1, <3>2
  <2>2. Last(chain').end = accepted'
    BY <1>1, <1>2
  <2>3. \A i \in 1 .. l : /\ chain'[i + 1].end - chain'[i + 1].size = chain'[i].end
                         /\ chain'[i + 1].first = chain'[i].end
    <3> HIDE DEF l
    <3> TAKE i \in 1 .. l
    <3>1. CASE i < l
      <4>1. chain'[i + 1] = chain[i + 1] /\ chain'[i] = chain[i]
        BY <1>1, <1>2, <3>1
      <4>2. Due(i + 1) = chain[i].end /\ chain[i + 1].first = chain[i].end
        BY <1>2, <3>1 DEF ChainCovers, l
      <4> QED  BY <4>1, <4>2 DEF Due
    <3>2. CASE ~(i < l)
      <4>1. i = l /\ chain # <<>>
        BY <1>2, <3>2
      <4>2. /\ chain'[i] = chain[l] /\ chain'[i + 1].first = p
            /\ chain'[i + 1].end = p + n /\ chain'[i + 1].size = n
        BY <1>1, <4>1
      <4>3. p = accepted /\ chain[l].end = accepted
        BY <4>1, ChainFacts DEF ChainCovers, l
      <4> QED  BY <4>2, <4>3
    <3> QED  BY <3>1, <3>2
  <2> QED  BY <1>1, <1>2, <2>1, <2>2, <2>3 DEF ChainCovers, Due
<1>4. CountersMatch' /\ ChainBounded'
  <2>1. nums = l /\ spareNums = Len(spare)
    BY DEF CountersMatch
  <2> HIDE DEF l
  <2>2. nums' = Len(chain') /\ spareNums' = Len(spare')
    BY <1>1, <1>2, <2>1
  <2>3. Len(chain') <= ChainMax
    BY <1>1, <1>2, <2>1, ChainAssumption
  <2> QED  BY <2>2, <2>3 DEF CountersMatch, ChainBounded
<1>5. FitsAllocation'
  <2> SUFFICES ASSUME NEW i \in 1 .. l + 1
               PROVE  /\ chain'[i].size <= chain'[i].end - chain'[i].first
                      /\ chain'[i].end - chain'[i].first <= chain'[i].allsize
    BY <1>2 DEF FitsAllocation
  <2>1. CASE i \in 1 .. l
    BY <1>1, <1>2, <2>1 DEF FitsAllocation
  <2>2. CASE i \notin 1 .. l
    <3>1. i = l + 1
      <4> HIDE DEF l
      <4> QED  BY <1>2, <2>2
    <3> QED  BY <1>1, <3>1
  <2> QED  BY <2>1, <2>2
<1> QED
  BY <1>3, <1>4, <1>5

LEMMA QueueInv ==
    ASSUME TypeOK, SendInv, Queue
    PROVE  SendInv'
<1>1. accepted \in Nat /\ msg \in Nat
  BY DEF TypeOK
<1>2. /\ Enqueue(accepted, msg) /\ accepted' = accepted + msg /\ nums < ChainMax
      /\ chain # <<>> /\ wire' = wire /\ peer' = peer
      /\ pc = "choose" /\ pc' = "idle"
  BY DEF Queue
<1>3. ChainCovers' /\ CountersMatch' /\ ChainBounded' /\ FitsAllocation'
  BY <1>1, <1>2, EnqueueInv DEF SendInv
<1>4. WakeupKept'
  BY <1>2 DEF SendInv, WakeupKept, Queue, AddWriteEvent
<1> QED
  BY <1>3, <1>4 DEF SendInv

(* Direct sending queues a remainder only after EAGAIN.                    *)
LEMMA DirectInv ==
    ASSUME TypeOK, SendInv, Direct
    PROVE  SendInv'
<1>1. accepted \in Nat /\ msg \in Nat /\ room \in Nat /\ chain = <<>>
      /\ accepted' = accepted + msg /\ accepted = wire
  BY DirectFacts, SocketAssumption DEF TypeOK, SendInv, ChainCovers
<1>2. CASE UNCHANGED <<chains, wev, nospace>> /\ wire' = wire + msg
  <2>1. chain' = <<>> /\ UNCHANGED <<nums, spare, spareNums>>
    BY <1>1, <1>2 DEF chains
  <2>2. DOMAIN chain' = {} /\ Len(chain') = 0
    BY <2>1
  <2>3. ChainCovers'
    BY <1>1, <1>2, <2>1, <2>2 DEF ChainCovers
  <2>4. CountersMatch' /\ ChainBounded' /\ FitsAllocation' /\ WakeupKept'
    BY <1>1, <2>1, <2>2 DEF SendInv, CountersMatch, ChainBounded, FitsAllocation, WakeupKept
  <2> QED  BY <2>3, <2>4 DEF SendInv
<1>3. CASE msg > room /\ Enqueue(accepted + room, msg - room)
           /\ wev' = 1 /\ nospace' = 1 /\ wire' = wire + room
  <2>1. accepted + room \in Nat /\ msg - room \in Nat
        /\ accepted' = (accepted + room) + (msg - room) /\ wire' = accepted + room
    BY <1>1, <1>3
  <2>2. nums < ChainMax
    BY <1>1, ChainAssumption DEF SendInv, CountersMatch
  <2>3. ChainCovers' /\ CountersMatch' /\ ChainBounded' /\ FitsAllocation'
    BY <1>1, <1>3, <2>1, <2>2, EnqueueInv DEF SendInv
  <2>4. WakeupKept'
    BY <1>3 DEF WakeupKept
  <2> QED  BY <2>3, <2>4 DEF SendInv
<1> QED
  BY <1>2, <1>3, DirectFacts

LEMMA NextInv == TypeOK /\ SendInv /\ [Next]_vars => SendInv'
<1> SUFFICES ASSUME TypeOK, SendInv, [Next]_vars PROVE SendInv'
  OBVIOUS
<1>1. CASE UNCHANGED vars
  BY <1>1 DEF SendInv, ChainCovers, CountersMatch, ChainBounded, FitsAllocation,
     WakeupKept, Due, vars, chains, socket
<1> QED
  BY <1>1, Steps, QuietInv, DealNodeInv, QueueInv, DirectInv

-----------------------------------------------------------------------------
(* The invariants                                                          *)

THEOREM SendInvariant == Spec => []SendInv
<1>1. Init => SendInv
  BY InitInv
<1>2. TypeOK /\ SendInv /\ [Next]_vars => SendInv'
  BY NextInv
<1> QED
  BY <1>1, <1>2, TypeCorrect, PTL DEF Spec

(***************************************************************************)
(* The sizes in the chain add up to what was accepted and the socket has   *)
(* not taken, and its nodes are in the order of acceptance.  (By length:   *)
(* which bytes of its head are sent next is not part of this.)             *)
(***************************************************************************)
THEOREM ChainAccounts == Spec => []ChainCovers
<1>1. SendInv => ChainCovers
  BY DEF SendInv
<1> QED
  BY <1>1, SendInvariant, PTL

(* The counter the limit is tested on is right, and the limit holds.       *)
THEOREM ChainLimited == Spec => [](CountersMatch /\ ChainBounded)
<1>1. SendInv => CountersMatch /\ ChainBounded
  BY DEF SendInv
<1> QED
  BY <1>1, SendInvariant, PTL

(* No message is copied into a node too small for it.                      *)
THEOREM CopiesFit == Spec => []FitsAllocation
<1>1. SendInv => FitsAllocation
  BY DEF SendInv
<1> QED
  BY <1>1, SendInvariant, PTL

(* While data is queued, an EPOLLOUT event is there or still to come.      *)
THEOREM NoLostWakeup == Spec => []WakeupComes
<1>1. SendInv => WakeupComes
  BY DEF SendInv, WakeupKept, WakeupComes
<1> QED
  BY <1>1, SendInvariant, PTL

-----------------------------------------------------------------------------
(* The nodes taken from the pool                                           *)

(* How many elements of s are in A.                                        *)
Count(s, A) == Cardinality({i \in DOMAIN s : s[i] \in A})

LEMMA CountType ==
    ASSUME NEW V, NEW s \in Seq(V), NEW A
    PROVE  /\ IsFiniteSet({i \in DOMAIN s : s[i] \in A})
           /\ Count(s, A) \in Nat /\ Count(s, A) <= Len(s)
<1>1. Len(s) \in Nat /\ DOMAIN s = 1 .. Len(s)
  OBVIOUS
<1>2. IsFiniteSet(1 .. Len(s)) /\ Cardinality(1 .. Len(s)) = Len(s)
  <2>1. /\ IsFiniteSet(1 .. Len(s))
        /\ Cardinality(1 .. Len(s)) = IF 1 > Len(s) THEN 0 ELSE Len(s) - 1 + 1
    BY <1>1, FS_Interval
  <2> QED  BY <1>1, <2>1
<1>3. {i \in DOMAIN s : s[i] \in A} \subseteq 1 .. Len(s)
  BY <1>1
<1> QED
  BY <1>2, <1>3, FS_Subset, FS_CardinalityType DEF Count

(* t is s without its element at k.                                        *)
Without(t, s, k) ==
    /\ k \in 1 .. Len(s) /\ Len(t) = Len(s) - 1
    /\ \A j \in 1 .. Len(t) : t[j] = IF j < k THEN s[j] ELSE s[j + 1]

LEMMA CountWithout ==
    ASSUME NEW V, NEW s \in Seq(V), NEW t \in Seq(V), NEW k, NEW A, Without(t, s, k)
    PROVE  Count(s, A) = IF s[k] \in A THEN Count(t, A) + 1 ELSE Count(t, A)
<1> DEFINE S == {i \in DOMAIN s : s[i] \in A}
           T == {j \in DOMAIN t : t[j] \in A}
           g == [j \in T |-> IF j < k THEN j ELSE j + 1]
<1>1. /\ Len(s) \in Nat /\ DOMAIN s = 1 .. Len(s) /\ Len(t) \in Nat /\ DOMAIN t = 1 .. Len(t)
      /\ k \in Nat /\ k \in 1 .. Len(s) /\ Len(t) = Len(s) - 1
      /\ \A j \in 1 .. Len(t) : t[j] = IF j < k THEN s[j] ELSE s[j + 1]
  <2>1. /\ k \in 1 .. Len(s) /\ Len(t) = Len(s) - 1
        /\ \A j \in 1 .. Len(t) : t[j] = IF j < k THEN s[j] ELSE s[j + 1]
    BY DEF Without
  <2> QED  BY <2>1
<1>2. IsFiniteSet(S) /\ IsFiniteSet(T)
  BY CountType
<1>3. g \in [T -> S \ {k}]
  <2> SUFFICES ASSUME NEW j \in T PROVE (IF j < k THEN j ELSE j + 1) \in S \ {k}
    OBVIOUS
  <2>1. j \in 1 .. Len(t) /\ t[j] \in A
    BY <1>1
  <2>2. t[j] = IF j < k THEN s[j] ELSE s[j + 1]
    BY <1>1, <2>1
  <2> QED  BY <1>1, <2>1, <2>2
<1>4. \A i, j \in T : g[i] = g[j] => i = j
  BY <1>1
<1>5. \A i \in S \ {k} : \E j \in T : g[j] = i
  <2> SUFFICES ASSUME NEW i \in S \ {k} PROVE \E j \in T : g[j] = i
    OBVIOUS
  <2>1. i \in 1 .. Len(s) /\ s[i] \in A /\ i # k
    BY <1>1
  <2>2. CASE i < k
    <3>1. i \in 1 .. Len(t) /\ t[i] = s[i]
      BY <1>1, <2>1, <2>2
    <3>2. i \in T /\ g[i] = i
      BY <1>1, <2>1, <2>2, <3>1
    <3> QED  BY <3>2
  <2>3. CASE ~(i < k)
    <3> DEFINE j == i - 1
    <3>1. j \in 1 .. Len(t) /\ ~(j < k) /\ j + 1 = i
      BY <1>1, <2>1, <2>3
    <3> HIDE DEF j
    <3>2. t[j] = s[i]
      BY <1>1, <3>1
    <3>3. j \in T /\ g[j] = i
      BY <1>1, <2>1, <3>1, <3>2
    <3> QED  BY <3>3
  <2> QED  BY <2>2, <2>3
<1>6. Cardinality(S \ {k}) = Cardinality(T)
  <2> HIDE DEF g, S, T
  <2>1. g \in Bijection(T, S \ {k})
    BY <1>3, <1>4, <1>5 DEF Bijection, Injection, Surjection, IsInjective
  <2> QED  BY <1>2, <2>1, FS_Bijection DEF ExistsBijection
<1>7. Cardinality(S \ {k}) = IF k \in S THEN Cardinality(S) - 1 ELSE Cardinality(S)
  <2> HIDE DEF S
  <2> QED  BY <1>2, FS_RemoveElement
<1>8. k \in S <=> s[k] \in A
  BY <1>1
<1>9. Cardinality(S) \in Nat /\ Cardinality(T) \in Nat
  BY <1>2, FS_CardinalityType
<1> HIDE DEF S, T
<1>10. Count(s, A) = Cardinality(S) /\ Count(t, A) = Cardinality(T)
  BY DEF Count, S, T
<1> QED
  BY <1>6, <1>7, <1>8, <1>9, <1>10

LEMMA RemoveAtElements ==
    ASSUME NEW s \in Seq(Nat), NEW i \in DOMAIN s
    PROVE  \A j \in 1 .. Len(RemoveAt(s, i)) :
              RemoveAt(s, i)[j] = IF j < i THEN s[j] ELSE s[j + 1]
<1> DEFINE a == SubSeq(s, 1, i - 1)
           b == SubSeq(s, i + 1, Len(s))
<1>1. Len(s) \in Nat /\ i \in 1 .. Len(s) /\ i \in Nat
  OBVIOUS
<1>2. Len(a) = i - 1 /\ \A j \in 1 .. i - 1 : a[j] = s[j]
  BY <1>1
<1>3. Len(b) = Len(s) - i /\ \A j \in 1 .. Len(s) - i : b[j] = s[j + i]
  BY <1>1, SMTT(30)
<1>4. a \in Seq(Nat) /\ b \in Seq(Nat)
  <2>1. \A j \in 1 .. i - 1 : s[j] \in Nat
    BY <1>1
  <2>2. \A j \in i + 1 .. Len(s) : s[j] \in Nat
    BY <1>1
  <2> QED  BY <1>1, <2>1, <2>2, SMTT(30)
<1>5. RemoveAt(s, i) = a \o b
  BY DEF RemoveAt
<1> HIDE DEF a, b
<1>6. Len(a \o b) = Len(s) - 1
  BY <1>1, <1>2, <1>3, <1>4
<1>7. ASSUME NEW j \in 1 .. Len(s) - 1
      PROVE  (a \o b)[j] = IF j < i THEN s[j] ELSE s[j + 1]
  <2>1. CASE j < i
    <3>1. (a \o b)[j] = a[j]
      <4>1. Len(a) \in Nat /\ Len(b) \in Nat
        BY <1>4
      <4>2. j \in Nat /\ 1 <= j /\ j <= Len(a)
        BY <1>1, <1>2, <2>1
      <4> QED  BY <1>4, <4>1, <4>2, SMTT(30)
    <3>2. a[j] = s[j]
      BY <1>1, <1>2, <2>1
    <3> QED  BY <2>1, <3>1, <3>2
  <2>2. CASE ~(j < i)
    <3>1. (a \o b)[j] = b[j - Len(a)]
      <4>1. Len(a) \in Nat /\ Len(b) \in Nat
        BY <1>4
      <4>2. j \in Nat /\ j > Len(a) /\ j <= Len(a) + Len(b)
        BY <1>1, <1>2, <1>3, <2>2
      <4> QED  BY <1>4, <4>1, <4>2, SMTT(30)
    <3> DEFINE m == j - Len(a)
    <3>2. m \in 1 .. Len(s) - i /\ m + i = j + 1
      <4>1. Len(a) = i - 1 /\ j \in Int /\ j <= Len(s) - 1 /\ j >= i
        BY <1>1, <1>2, <2>2
      <4> QED  BY <1>1, <4>1, SMTT(30)
    <3> HIDE DEF m
    <3>3. b[m] = s[j + 1]
      BY <1>3, <3>2
    <3> QED  BY <2>2, <3>1, <3>3 DEF m
  <2> QED  BY <2>1, <2>2
<1> QED
  BY <1>5, <1>6, <1>7

NodesSized(n) == {x \in Node : x.allsize = n}

LEMMA NodesCounted ==
    ASSUME NEW n, TypeOK
    PROVE  NodesOf(n) = Count(chain, NodesSized(n)) + Count(spare, {n})
<1>1. {i \in DOMAIN chain : chain[i].allsize = n}
          = {i \in DOMAIN chain : chain[i] \in NodesSized(n)}
  BY DEF TypeOK, NodesSized
<1>2. {i \in DOMAIN spare : spare[i] = n} = {i \in DOMAIN spare : spare[i] \in {n}}
  OBVIOUS
<1> QED
  BY <1>1, <1>2 DEF NodesOf, Count

(* A node goes to the spare chain, or stays with the size it has.          *)
LEMMA DealKeepsNodes ==
    ASSUME TypeOK, TypeOK', DealNode, NEW n
    PROVE  NodesOf(n)' = NodesOf(n)
<1> DEFINE A == NodesSized(n)
<1>1. chain \in Seq(Node) /\ chain' \in Seq(Node) /\ spare \in Seq(Nat) /\ spare' \in Seq(Nat)
      /\ Len(chain) \in Nat /\ Len(chain) > 0 /\ Len(spare) \in Nat
      /\ Count(chain', A) \in Nat /\ Count(spare, {n}) \in Nat
  <2>1. chain \in Seq(Node) /\ chain' \in Seq(Node) /\ spare \in Seq(Nat) /\ spare' \in Seq(Nat)
    BY DEF TypeOK
  <2>2. Count(chain', A) \in Nat /\ Count(spare, {n}) \in Nat
    BY <2>1, CountType
  <2>3. Len(chain) \in Nat /\ Len(chain) > 0 /\ Len(spare) \in Nat
    BY <2>1, DealFacts
  <2> QED  BY <2>1, <2>2, <2>3
<1>2. NodesOf(n) = Count(chain, A) + Count(spare, {n})
  BY NodesCounted
<1>3. NodesOf(n)' = Count(chain', A) + Count(spare', {n})
  <2>1. {i \in DOMAIN chain' : chain'[i].allsize = n}
          = {i \in DOMAIN chain' : chain'[i] \in A}
    BY <1>1 DEF NodesSized
  <2>2. {i \in DOMAIN spare' : spare'[i] = n} = {i \in DOMAIN spare' : spare'[i] \in {n}}
    OBVIOUS
  <2> QED  BY <2>1, <2>2 DEF NodesOf, Count
<1>4. CASE /\ chain' = Tail(chain) /\ Len(chain') = Len(chain) - 1
           /\ \A i \in 1 .. Len(chain) - 1 : chain'[i] = chain[i + 1]
           /\ Len(spare') = Len(spare) + 1
           /\ chain[1].size <= room
  <2>1. spare' = <<chain[1].allsize>> \o spare /\ chain[1] \in Node
    <3>1. Head(chain) = chain[1] /\ chain[1] \in Node
      BY <1>1
    <3> QED  BY <1>4, <3>1 DEF DealNode
  <2>2. spare'[1] = chain[1].allsize /\ \A j \in 1 .. Len(spare) : spare[j] = spare'[j + 1]
    <3>1. chain[1].allsize \in Nat
      BY <2>1 DEF Node
    <3> QED  BY <1>1, <2>1, <3>1, SMTT(30)
  <2>3. Count(chain, A) = IF chain[1] \in A THEN Count(chain', A) + 1 ELSE Count(chain', A)
    <3>1. 1 \in 1 .. Len(chain)
      BY <1>1
    <3>2. \A j \in 1 .. Len(chain') : chain'[j] = IF j < 1 THEN chain[j] ELSE chain[j + 1]
      BY <1>1, <1>4
    <3>3. Without(chain', chain, 1)
      BY <1>4, <3>1, <3>2 DEF Without
    <3> HIDE DEF A
    <3> QED  BY <1>1, <3>3, CountWithout
  <2>4. Count(spare', {n}) = IF spare'[1] \in {n} THEN Count(spare, {n}) + 1 ELSE Count(spare, {n})
    <3>1. 1 \in 1 .. Len(spare') /\ Len(spare) = Len(spare') - 1
      BY <1>1, <1>4
    <3>2. \A j \in 1 .. Len(spare) : spare[j] = IF j < 1 THEN spare'[j] ELSE spare'[j + 1]
      BY <1>1, <2>2
    <3>3. Without(spare, spare', 1)
      BY <3>1, <3>2 DEF Without
    <3> DEFINE B == {n}
    <3> HIDE DEF B
    <3>4. Count(spare', B) = IF spare'[1] \in B THEN Count(spare, B) + 1 ELSE Count(spare, B)
      BY <1>1, <3>3, CountWithout
    <3> QED  BY <3>4 DEF B
  <2>5. chain[1] \in A <=> spare'[1] \in {n}
    BY <2>1, <2>2 DEF NodesSized
  <2> HIDE DEF A
  <2> QED  BY <1>1, <1>2, <1>3, <2>3, <2>4, <2>5
<1>5. CASE /\ Len(chain') = Len(chain)
           /\ chain'[1] = [chain[1] EXCEPT !.size = @ - room]
           /\ \A i \in 2 .. Len(chain) : chain'[i] = chain[i]
           /\ UNCHANGED spare
  <2>1. chain'[1].allsize = chain[1].allsize
    <3>1. chain[1] \in Node
      BY <1>1
    <3> QED  BY <1>5, <3>1 DEF Node
  <2>2. \A i \in 1 .. Len(chain) : chain'[i].allsize = chain[i].allsize
    <3> SUFFICES ASSUME NEW i \in 1 .. Len(chain) PROVE chain'[i].allsize = chain[i].allsize
      OBVIOUS
    <3>1. i = 1 \/ i \in 2 .. Len(chain)
      BY <1>1
    <3> QED  BY <1>5, <2>1, <3>1
  <2>3. DOMAIN chain' = 1 .. Len(chain) /\ DOMAIN chain = 1 .. Len(chain)
    BY <1>1, <1>5
  <2>4. {i \in DOMAIN chain' : chain'[i].allsize = n} = {i \in DOMAIN chain : chain[i].allsize = n}
    BY <2>2, <2>3
  <2> QED  BY <1>5, <2>4 DEF NodesOf
<1> QED
  BY <1>4, <1>5, DealFacts

(* Only when no spare node is large enough does a size gain a node.        *)
LEMMA EnqueueKeepsNodes ==
    ASSUME TypeOK, TypeOK', NEW p \in Nat, NEW q \in Nat, Enqueue(p, q),
           Len(chain) < ChainMax, NEW n, NodesOf(n) <= ChainMax
    PROVE  NodesOf(n)' <= ChainMax
<1> DEFINE A == NodesSized(n)
           l == Len(chain)
<1>1. chain \in Seq(Node) /\ chain' \in Seq(Node) /\ spare \in Seq(Nat) /\ spare' \in Seq(Nat)
  BY DEF TypeOK
<1>2. /\ l \in Nat /\ Len(spare) \in Nat /\ ChainMax \in Nat
      /\ Count(chain, A) \in Nat /\ Count(chain, A) <= l
      /\ Count(spare, {n}) \in Nat /\ Count(spare', {n}) \in Nat
  <2>1. Count(chain, A) \in Nat /\ Count(chain, A) <= Len(chain)
    BY <1>1, CountType
  <2>2. Count(spare, {n}) \in Nat /\ Count(spare', {n}) \in Nat
    BY <1>1, CountType
  <2> QED  BY <1>1, <2>1, <2>2, ChainAssumption
<1>3. NodesOf(n) = Count(chain, A) + Count(spare, {n})
  BY NodesCounted
<1>4. NodesOf(n)' = Count(chain', A) + Count(spare', {n})
  <2>1. {i \in DOMAIN chain' : chain'[i].allsize = n}
          = {i \in DOMAIN chain' : chain'[i] \in A}
    BY <1>1 DEF NodesSized
  <2>2. {i \in DOMAIN spare' : spare'[i] = n} = {i \in DOMAIN spare' : spare'[i] \in {n}}
    OBVIOUS
  <2> QED  BY <2>1, <2>2 DEF NodesOf, Count
<1>5. PICK k : k = l + 1
  OBVIOUS
<1>6. Count(chain', A) = IF chain'[k] \in A THEN Count(chain, A) + 1 ELSE Count(chain, A)
  <2>1. /\ Len(chain') = l + 1 /\ \A i \in 1 .. l : chain'[i] = chain[i]
    BY EnqueueFacts
  <2>2. k \in 1 .. Len(chain') /\ Len(chain) = Len(chain') - 1
    BY <1>2, <1>5, <2>1
  <2>3. \A j \in 1 .. Len(chain) : chain[j] = IF j < k THEN chain'[j] ELSE chain'[j + 1]
    BY <1>2, <1>5, <2>1
  <2>4. Without(chain, chain', k)
    BY <2>2, <2>3 DEF Without
  <2> HIDE DEF A, l
  <2> QED  BY <1>1, <2>4, CountWithout
<1>7. chain'[k] \in Node /\ (chain'[k] \in A <=> chain'[k].allsize = n)
  <2>1. k \in 1 .. Len(chain')
    BY <1>2, <1>5, EnqueueFacts
  <2> QED  BY <1>1, <2>1 DEF NodesSized
<1>8. CASE /\ \A i \in DOMAIN spare : spare[i] < q
           /\ chain' = Append(chain, [first |-> p, end |-> p + q, size |-> q, allsize |-> q])
           /\ UNCHANGED spare
  <2>1. chain'[k].allsize = q
    BY <1>1, <1>2, <1>5, <1>8
  <2>2. CASE n # q
    <3> HIDE DEF A, l
    <3> QED  BY <1>2, <1>3, <1>4, <1>6, <1>7, <1>8, <2>1, <2>2
  <2>3. CASE n = q
    <3>1. {i \in DOMAIN spare : spare[i] \in {n}} = {}
      BY <1>1, <1>8, <2>3
    <3>2. Count(spare, {n}) = 0
      BY <3>1, FS_EmptySet DEF Count
    <3> HIDE DEF A
    <3> QED  BY <1>2, <1>4, <1>6, <1>7, <1>8, <3>2
  <2> QED  BY <2>2, <2>3
<1>9. CASE \E i \in DOMAIN spare :
              /\ chain' = Append(chain, [first |-> p, end |-> p + q, size |-> q,
                                         allsize |-> spare[i]])
              /\ spare' = RemoveAt(spare, i)
  <2>1. PICK i \in DOMAIN spare :
              /\ chain' = Append(chain, [first |-> p, end |-> p + q, size |-> q,
                                         allsize |-> spare[i]])
              /\ spare' = RemoveAt(spare, i)
    BY <1>9
  <2>2. chain'[k].allsize = spare[i]
    BY <1>1, <1>2, <1>5, <2>1
  <2>3. Count(spare, {n}) = IF spare[i] \in {n} THEN Count(spare', {n}) + 1 ELSE Count(spare', {n})
    <3>1. i \in 1 .. Len(spare) /\ Len(spare') = Len(spare) - 1
      BY <1>1, <2>1, RemoveAtFacts
    <3>2. \A j \in 1 .. Len(spare') : spare'[j] = IF j < i THEN spare[j] ELSE spare[j + 1]
      BY <1>1, <2>1, RemoveAtElements
    <3>3. Without(spare', spare, i)
      BY <3>1, <3>2 DEF Without
    <3> DEFINE B == {n}
    <3> HIDE DEF B
    <3>4. Count(spare, B) = IF spare[i] \in B THEN Count(spare', B) + 1 ELSE Count(spare', B)
      BY <1>1, <3>3, CountWithout
    <3> QED  BY <3>4 DEF B
  <2> HIDE DEF A, l
  <2> QED  BY <1>2, <1>3, <1>4, <1>6, <1>7, <2>2, <2>3
<1> QED
  BY <1>8, <1>9 DEF Enqueue

SizesBounded == \A n : NodesOf(n) <= ChainMax

LEMMA NodesStep ==
    ASSUME TypeOK, TypeOK', SendInv, [Next]_vars, NEW n, NodesOf(n) <= ChainMax
    PROVE  NodesOf(n)' <= ChainMax
<1>1. CASE UNCHANGED <<chain, spare>>
  BY <1>1 DEF NodesOf
<1>2. CASE DealNode
  BY <1>2, DealKeepsNodes
<1>3. ASSUME NEW p \in Nat, NEW q \in Nat, Enqueue(p, q), nums < ChainMax
      PROVE  NodesOf(n)' <= ChainMax
  <2>1. Len(chain) < ChainMax
    BY <1>3 DEF SendInv, CountersMatch
  <2> QED  BY <1>3, <2>1, EnqueueKeepsNodes
<1>4. CASE Queue
  BY <1>3, <1>4 DEF Queue, TypeOK
<1>5. CASE Direct
  <2>1. CASE UNCHANGED chains
    BY <1>1, <2>1 DEF chains
  <2>2. CASE msg > room /\ Enqueue(accepted + room, msg - room)
    <3>1. accepted \in Nat /\ msg \in Nat /\ room \in Nat
      BY SocketAssumption DEF TypeOK
    <3>2. accepted + room \in Nat /\ msg - room \in Nat
      BY <2>2, <3>1
    <3>3. nums < ChainMax
      BY <1>5, ChainAssumption DEF Direct, SendInv, CountersMatch
    <3> QED  BY <1>3, <2>2, <3>2, <3>3
  <2> QED  BY <1>5, <2>1, <2>2, DirectFacts
<1>6. CASE Quiet
  BY <1>1, <1>6, QuietType DEF chains
<1> QED
  BY <1>1, <1>2, <1>4, <1>5, <1>6, Steps DEF vars, chains

(***************************************************************************)
(* However messages of different sizes come, the pending chain keeps its   *)
(* limit and the connection's pool is never asked for more than ChainMax   *)
(* nodes of one size.                                                      *)
(***************************************************************************)
THEOREM PoolUseLimited == Spec => []ListsBounded
<1>1. Init => SizesBounded
  <2> SUFFICES ASSUME Init, NEW n PROVE NodesOf(n) <= ChainMax
    BY DEF SizesBounded
  <2>1. {i \in DOMAIN chain : chain[i].allsize = n} = {} /\ {i \in DOMAIN spare : spare[i] = n} = {}
    BY DEF Init
  <2>2. NodesOf(n) = 0
    BY <2>1, FS_EmptySet DEF NodesOf
  <2> QED  BY <2>2, ChainAssumption
<1>2. TypeOK /\ TypeOK' /\ SendInv /\ SizesBounded /\ [Next]_vars => SizesBounded'
  BY NodesStep DEF SizesBounded
<1>3. SendInv /\ SizesBounded => ListsBounded
  BY DEF SendInv, SizesBounded, ListsBounded, NodesBounded
<1> QED
  BY <1>1, <1>2, <1>3, TypeCorrect, SendInvariant, PTL DEF Spec
=============================================================================
