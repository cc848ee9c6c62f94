----------------------------- MODULE TimerQueue -----------------------------
(***************************************************************************)
(* What the timer tree promises: a queue of nodes in the order of their    *)
(* keys, nodes with the same key in the order in which they were added.    *)
(***************************************************************************)
EXTENDS Naturals, Sequences

CONSTANTS
    Nodes,
    KeysOf      \* the keys a node may be added with

VARIABLE queue  \* the nodes waiting, each a record [node, key]

Waiting == {queue[i].node : i \in DOMAIN queue}

Init == queue = <<>>

Add(n, k) ==
    /\ n \in Nodes \ Waiting
    /\ \E g \in 0 .. Len(queue) :
          /\ \A i \in 1 .. g : queue[i].key <= k
          /\ \A i \in g + 1 .. Len(queue) : queue[i].key > k
          /\ queue' = SubSeq(queue, 1, g) \o <<[node |-> n, key |-> k]>>
                         \o SubSeq(queue, g + 1, Len(queue))

Remove(n) ==
    \E i \in 1 .. Len(queue) :
        /\ queue[i].node = n
        /\ queue' = SubSeq(queue, 1, i - 1) \o SubSeq(queue, i + 1, Len(queue))

Next == \E n \in Nodes : Remove(n) \/ \E k \in KeysOf[n] : Add(n, k)

Spec == Init /\ [][Next]_queue
=============================================================================
