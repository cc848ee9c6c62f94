------------------------------- MODULE RBTree -------------------------------
(***************************************************************************)
(* The red-black tree of src/core/vs_rbtree.c, which holds the timers of   *)
(* all connections.                                                        *)
(*                                                                         *)
(* Linking or unlinking a node is one step, and so is each round of the    *)
(* loops that rebalance the tree afterwards.  The code has every case      *)
(* twice, for left and for right; here the side is a parameter.            *)
(*                                                                         *)
(* The code leaves in the parent of a new root, and in the parent of the   *)
(* sentinel, whatever was last in them, possibly a node that is freed.     *)
(* Such a value is NULL here, like that of a cleared field: a step that    *)
(* follows it goes nowhere, and LinksAgree notices.  key.v2 is 0.          *)
(***************************************************************************)
EXTENDS Integers, Sequences, FiniteSets

CONSTANTS
    Nodes,      \* the timer nodes of all connections
    NIL,        \* the sentinel
    NULL,
    KeysOf      \* per node: the keys it may be added with (bound)

ASSUME NodesAssumption ==
    /\ IsFiniteSet(Nodes) /\ NIL \notin Nodes /\ NULL \notin Nodes /\ NIL # NULL
    /\ KeysOf \in [Nodes -> SUBSET (Nat \ {0})]

VARIABLES
    tree,       \* root, the links of the nodes and the sentinel, the red ones
    key,        \* per node: key.v
    linked,     \* history: the nodes in the tree
    pc,         \* "idle", or the loop that is rebalancing the tree
    cur         \* that loop's node (insert) or temp (delete)

vars == <<tree, key, linked, pc, cur>>

Places == Nodes \cup {NIL}
Sides  == {"left", "right"}

TypeOK ==
    /\ tree \in [root : Places, left : [Places -> Places \cup {NULL}],
                 right : [Places -> Places \cup {NULL}],
                 parent : [Places -> Places \cup {NULL}], red : SUBSET Nodes]
    /\ key \in [Nodes -> Nat] /\ linked \subseteq Nodes
    /\ pc \in {"idle", "insert", "delete"} /\ cur \in Places

Init ==
    /\ tree = [root |-> NIL, left |-> [x \in Places |-> NULL],
               right |-> [x \in Places |-> NULL],
               parent |-> [x \in Places |-> NULL], red |-> {}]
    /\ key = [n \in Nodes |-> 0] /\ linked = {}
    /\ pc = "idle" /\ cur = NIL

-----------------------------------------------------------------------------
(* Trees                                                                   *)

Other(d) == IF d = "left" THEN "right" ELSE "left"

(* The side on which x hangs under its parent.                             *)
Side(t, x) == IF t.left[t.parent[x]] = x THEN "left" ELSE "right"

Sibling(t, x) == t[Other(Side(t, x))][t.parent[x]]

(* new takes the place of old under old's parent, or as the root.          *)
Under(t, old, new) ==
    IF old = t.root THEN [t EXCEPT !.root = new]
                    ELSE [t EXCEPT ![Side(t, old)][t.parent[old]] = new]

(* x hangs under y on side d.                                              *)
Hang(t, d, y, x) ==
    LET u == [t EXCEPT ![d][y] = x]
    IN  IF x = NIL THEN u ELSE [u EXCEPT !.parent[x] = y]

(* Mutant: the child that changes sides keeps its parent.                  *)
Rotate_KeepsParent(t, d, n) ==
    LET up == t[Other(d)][n]
        u  == [Under(t, n, up) EXCEPT !.parent[up] = t.parent[n],
                                      ![Other(d)][n] = t[d][up]]
    IN  Hang(u, d, up, n)

(* vs_rbtree_left_rotate() and vs_rbtree_right_rotate(): n goes down on    *)
(* side d, and its child of the other side comes up.                       *)
Rotate(t, d, n) ==
    LET up == t[Other(d)][n]
        u  == [Under(t, n, up) EXCEPT !.parent[up] = t.parent[n]]
    IN  Hang(Hang(u, Other(d), n, t[d][up]), d, up, n)

Paint(t, reds, blacks) == [t EXCEPT !.red = (@ \cup reds) \ blacks]

(* vs_rbtree_min()                                                         *)
Leftmost(t, x) ==
    LET down[y \in Nodes] == IF t.left[y] \in Nodes THEN down[t.left[y]] ELSE y
    IN  down[x]

(* Mutant: a node goes before others with the same key.                    *)
Position_Before(t, k) ==
    LET side(y) == IF k <= key[y] THEN "left" ELSE "right"
        down[y \in Nodes] ==
            IF t[side(y)][y] \in Nodes THEN down[t[side(y)][y]]
                                       ELSE [node |-> y, side |-> side(y)]
    IN  down[t.root]

(* vs_rbtree_insert_timer_value(): where a node with key k is hung up.     *)
Position(t, k) ==
    LET side(y) == IF k < key[y] THEN "left" ELSE "right"
        down[y \in Nodes] ==
            IF t[side(y)][y] \in Nodes THEN down[t[side(y)][y]]
                                       ELSE [node |-> y, side |-> side(y)]
    IN  down[t.root]

-----------------------------------------------------------------------------
(* vs_rbtree_insert()                                                      *)

Leaf(t, n, p) ==
    [t EXCEPT !.left[n] = NIL, !.right[n] = NIL, !.parent[n] = p]

Insert(n, k) ==
    /\ pc = "idle" /\ n \notin linked
    /\ key' = [key EXCEPT ![n] = k]
    /\ linked' = linked \cup {n}
    /\ \/ /\ tree.root = NIL
          /\ tree' = [Paint(Leaf(tree, n, NULL), {}, {n}) EXCEPT !.root = n]
          /\ UNCHANGED <<pc, cur>>
       \/ /\ tree.root # NIL
          /\ LET p == Position(tree, k)
             IN  tree' = [Paint(Leaf(tree, n, p.node), {n}, {})
                             EXCEPT ![p.side][p.node] = n]
          /\ pc' = "insert" /\ cur' = n

RedRed == cur # tree.root /\ tree.parent[cur] \in tree.red

Parent == tree.parent[cur]
Grand  == tree.parent[Parent]
Uncle  == Sibling(tree, Parent)

InsertRecolours ==
    /\ pc = "insert" /\ RedRed /\ Uncle \in tree.red
    /\ tree' = Paint(tree, {Grand}, {Parent, Uncle})
    /\ cur' = Grand
    /\ UNCHANGED <<key, linked, pc>>

(* An inner node is first rotated to the outside.                          *)
InsertRotates ==
    /\ pc = "insert" /\ RedRed /\ Uncle \notin tree.red
    /\ LET d     == Side(tree, Parent)
           inner == Side(tree, cur) # d
           t     == IF inner THEN Rotate(tree, d, Parent) ELSE tree
           low   == IF inner THEN Parent ELSE cur
           top   == t.parent[low]
       IN  /\ tree' = Rotate(Paint(t, {t.parent[top]}, {top}), Other(d), t.parent[top])
           /\ cur' = low
    /\ UNCHANGED <<key, linked, pc>>

InsertDone ==
    /\ pc = "insert" /\ ~RedRed
    /\ tree' = Paint(tree, {}, {tree.root})
    /\ pc' = "idle" /\ cur' = NIL
    /\ UNCHANGED <<key, linked>>

-----------------------------------------------------------------------------
(* vs_rbtree_delete()                                                      *)

(* The node taken out of its place for n, and its only child.              *)
Subst(n) == IF tree.left[n] = NIL \/ tree.right[n] = NIL
            THEN n ELSE Leftmost(tree, tree.right[n])
Temp(n) == LET s == Subst(n)
           IN  IF tree.left[s] = NIL THEN tree.right[s] ELSE tree.left[s]

(* Mutant: subst keeps its own colour.                                     *)
Replace_KeepsColour(t, n, s) ==
    LET u == Under([t EXCEPT !.left[s] = t.left[n], !.right[s] = t.right[n],
                             !.parent[s] = t.parent[n]], n, s)
    IN  [u EXCEPT !.parent = [x \in Places |->
            IF x \in {t.left[n], t.right[n]} \ {NIL} THEN s ELSE u.parent[x]]]

(* s takes the place, the children and the colour of n.                    *)
Replace(t, n, s) ==
    LET u == Under([t EXCEPT !.left[s] = t.left[n], !.right[s] = t.right[n],
                             !.parent[s] = t.parent[n],
                             !.red = IF n \in @ THEN @ \cup {s} ELSE @ \ {s}],
                   n, s)
    IN  [u EXCEPT !.parent = [x \in Places |->
            IF x \in {t.left[n], t.right[n]} \ {NIL} THEN s ELSE u.parent[x]]]

Unlink(n) ==
    LET s == Subst(n)
        x == Temp(n)
        up == IF s # n /\ tree.parent[s] = n THEN s ELSE tree.parent[s]
        t == [Under(tree, s, x) EXCEPT !.parent[x] = up]
    IN  IF s = n THEN t ELSE Replace(t, n, s)

(* The fields of a node that has left the tree are cleared.                *)
Cleared(t, n) ==
    [t EXCEPT !.left[n] = NULL, !.right[n] = NULL, !.parent[n] = NULL]

(* No longer meant to be followed.                                         *)
Stale(t, x) == [t EXCEPT !.parent[x] = NULL]

Delete(n) ==
    /\ pc = "idle" /\ n \in linked
    /\ key' = [key EXCEPT ![n] = 0]
    /\ linked' = linked \ {n}
    /\ \/ /\ Subst(n) = tree.root
          /\ tree' = Stale(Cleared(Paint([tree EXCEPT !.root = Temp(n)],
                                          {}, {Temp(n)}), n), Temp(n))
          /\ UNCHANGED <<pc, cur>>
       \/ /\ Subst(n) # tree.root
          /\ LET t == Cleared(Unlink(n), n)
             IN  \/ /\ Subst(n) \in tree.red
                    /\ tree' = Stale(t, NIL)
                    /\ UNCHANGED <<pc, cur>>
                 \/ /\ Subst(n) \notin tree.red
                    /\ tree' = t
                    /\ pc' = "delete" /\ cur' = Temp(n)

(* A red sibling is rotated up first, so that w becomes a black one.       *)
BlackSibling(d) ==
    IF Sibling(tree, cur) \in tree.red
    THEN Rotate(Paint(tree, {Parent}, {Sibling(tree, cur)}), d, Parent)
    ELSE tree

ShortBranch == cur # tree.root /\ cur \notin tree.red

(* Mutant: the child of w turns red instead of w.                          *)
DeleteRecolours_Child ==
    /\ pc = "delete" /\ ShortBranch
    /\ LET t == BlackSibling(Side(tree, cur))
           w == t[Other(Side(tree, cur))][Parent]
       IN  /\ {t.left[w], t.right[w]} \cap t.red = {}
           /\ tree' = Paint(t, {t.left[w]}, {})
    /\ cur' = Parent
    /\ UNCHANGED <<key, linked, pc>>

(* Mutant: the loop does not climb to the parent.                          *)
DeleteRecolours_Stays ==
    /\ pc = "delete" /\ ShortBranch
    /\ LET t == BlackSibling(Side(tree, cur))
           w == t[Other(Side(tree, cur))][Parent]
       IN  /\ {t.left[w], t.right[w]} \cap t.red = {}
           /\ tree' = Paint(t, {w}, {})
    /\ UNCHANGED <<key, linked, pc, cur>>

(* w has no red child: it turns red, and the parent's branch is short.     *)
DeleteRecolours ==
    /\ pc = "delete" /\ ShortBranch
    /\ LET t == BlackSibling(Side(tree, cur))
           w == t[Other(Side(tree, cur))][Parent]
       IN  /\ {t.left[w], t.right[w]} \cap t.red = {}
           /\ tree' = Paint(t, {w}, {})
    /\ cur' = Parent
    /\ UNCHANGED <<key, linked, pc>>

(* w has one: it is rotated to the far side, and w up over the parent.     *)
DeleteRotates ==
    /\ pc = "delete" /\ ShortBranch
    /\ LET d == Side(tree, cur)
           far == Other(d)
           t == BlackSibling(d)
           w == t[far][Parent]
           near == t[far][w] \notin t.red
           u == IF near THEN Rotate(Paint(t, {w}, {t[d][w]}), far, w) ELSE t
           v == u[far][Parent]
           c == IF Parent \in u.red THEN {v} ELSE {}
       IN  /\ {t.left[w], t.right[w]} \cap t.red # {}
           /\ tree' = Rotate(Paint(Paint(u, c, {v} \ c), {}, {Parent, u[far][v]}), d, Parent)
           /\ cur' = tree'.root
    /\ UNCHANGED <<key, linked, pc>>

DeleteDone ==
    /\ pc = "delete" /\ ~ShortBranch
    /\ tree' = Stale(Paint(tree, {}, {cur}), NIL)
    /\ pc' = "idle" /\ cur' = NIL
    /\ UNCHANGED <<key, linked>>

-----------------------------------------------------------------------------
Rebalance ==
    \/ InsertRecolours \/ InsertRotates \/ InsertDone
    \/ DeleteRecolours \/ DeleteRotates \/ DeleteDone

Caller ==
    \E n \in Nodes : Delete(n) \/ \E k \in KeysOf[n] : Insert(n, k)

Next == Rebalance \/ Caller

Spec == Init /\ [][Next]_vars

-----------------------------------------------------------------------------
(* Safety                                                                  *)

(* The nodes from left to right, as long as the links lead to nodes.       *)
InOrder ==
    LET walk[depth \in 0 .. Cardinality(Nodes)] ==
            [x \in Places |-> IF x \in linked /\ depth # 0
                              THEN walk[depth - 1][tree.left[x]] \o <<x>>
                                      \o walk[depth - 1][tree.right[x]]
                              ELSE <<>>]
    IN  walk[Cardinality(Nodes)][tree.root]

(***************************************************************************)
(* The links agree: a child's parent is the node it hangs under, only      *)
(* linked nodes are reachable, and the node whose branch is short knows    *)
(* its parent even if it is the sentinel.  Rotations and the exchange of   *)
(* subst and node rewrite up to eight links each.                          *)
(***************************************************************************)
LinksAgree ==
    /\ tree.root = NIL <=> linked = {}
    /\ tree.root \in linked \cup {NIL}
    /\ \A x \in linked : \A d \in Sides :
          tree[d][x] \in linked \cup {NIL}
          /\ (tree[d][x] # NIL => tree.parent[tree[d][x]] = x)
    /\ pc = "delete" /\ cur # tree.root =>
          Parent \in linked /\ cur \in {tree.left[Parent], tree.right[Parent]}

(* No branch is ever reordered: every operation ends with a red-black      *)
(* tree, so vs_rbtree_min() and an insertion take logarithmic time.        *)
BlackHeights ==
    LET heights[depth \in 0 .. Cardinality(Nodes)] ==
            [x \in Places |-> IF x \in linked /\ depth # 0
                              THEN {h + (IF x \in tree.red THEN 0 ELSE 1) :
                                       h \in heights[depth - 1][tree.left[x]]
                                               \cup heights[depth - 1][tree.right[x]]}
                              ELSE {1}]
    IN  heights[Cardinality(Nodes)][tree.root]

RedBlack ==
    pc = "idle" =>
        /\ tree.root \notin tree.red
        /\ \A x \in linked \cap tree.red :
              tree.left[x] \notin tree.red /\ tree.right[x] \notin tree.red
        /\ Cardinality(BlackHeights) = 1

(***************************************************************************)
(* The loops follow no link that is not there: a red parent has a parent,  *)
(* and a branch that is short has a sibling, and a red sibling two         *)
(* children, none of which is the sentinel (whose own links are NULL).     *)
(***************************************************************************)
LoopsStayInTree ==
    /\ pc = "insert" /\ RedRed => Parent # tree.root /\ Grand \in linked
    /\ pc = "delete" /\ ShortBranch =>
          LET w == Sibling(tree, cur)
          IN  /\ w \in linked
              /\ w \in tree.red => {tree.left[w], tree.right[w]} \subseteq linked

PointersSound == LinksAgree /\ LoopsStayInTree

(***************************************************************************)
(* The tree implements the queue of TimerQueue: whatever is rotated, nodes *)
(* stay in the order of their keys, and of their insertion where the keys  *)
(* are the same; only Insert and Delete change it, by one node.            *)
(***************************************************************************)
waiting == [i \in DOMAIN InOrder |-> [node |-> InOrder[i], key |-> key[InOrder[i]]]]

Queue == INSTANCE TimerQueue WITH queue <- waiting
ImplementsQueue == Queue!Spec

(***************************************************************************)
(* Rebalancing ends after at most as many rounds as the tree is high: each *)
(* round that is not the last works closer to the root than the one        *)
(* before, although a rotation may move the node down.                     *)
(***************************************************************************)
Depth(t, x) ==
    LET up[k \in 0 .. Cardinality(Nodes)] ==
            [y \in Places \cup {NULL} |-> IF y \in {t.root, NULL} \/ k = 0
                                         THEN 0 ELSE 1 + up[k - 1][t.parent[y]]]
    IN  up[Cardinality(Nodes)][x]

GoesOn == (pc = "insert" /\ RedRed) \/ (pc = "delete" /\ ShortBranch)
RoundsClimb == [][GoesOn /\ GoesOn' => Depth(tree', cur') < Depth(tree, cur)]_vars
=============================================================================
