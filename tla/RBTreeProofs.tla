---------------------------- MODULE RBTreeProofs ----------------------------
(***************************************************************************)
(* Proofs about RBTree, for any number of timers and any keys.             *)
(***************************************************************************)
EXTENDS RBTree, FiniteSetTheorems, SequenceTheorems, TLAPS

Trees == [root : Places, left : [Places -> Places \cup {NULL}],
          right : [Places -> Places \cup {NULL}],
          parent : [Places -> Places \cup {NULL}], red : SUBSET Nodes]

-----------------------------------------------------------------------------
(* The shape of a tree t whose nodes are L: the links agree, ...           *)
Links(t, L) ==
    /\ IF L = {} THEN t.root = NIL ELSE t.root \in L
    /\ \A x \in L : \A d \in Sides :
          t[d][x] \in L \cup {NIL} /\ (t[d][x] # NIL => t.parent[t[d][x]] = x)
    /\ \A x \in L \ {t.root} :
          t.parent[x] \in L /\ \E d \in Sides : t[d][t.parent[x]] = x

(* ... s lists the nodes, x at the place at[x], ...                        *)
Listed(L, s, at) ==
    /\ s \in Seq(L) /\ at \in [Nodes -> Int]
    /\ \A x \in L : at[x] \in 1 .. Len(s) /\ s[at[x]] = x
    /\ \A i \in 1 .. Len(s) : at[s[i]] = i

(* ... and the nodes below x are those from lo[x] to hi[x].                *)
Spans(t, L, at, lo, hi) ==
    /\ lo \in [Nodes -> Int] /\ hi \in [Nodes -> Int]
    /\ \A x \in L :
          /\ lo[x] <= at[x] /\ at[x] <= hi[x]
          /\ t.left[x] = NIL => lo[x] = at[x]
          /\ t.left[x] # NIL => lo[t.left[x]] = lo[x] /\ hi[t.left[x]] = at[x] - 1
          /\ t.right[x] = NIL => hi[x] = at[x]
          /\ t.right[x] # NIL => lo[t.right[x]] = at[x] + 1 /\ hi[t.right[x]] = hi[x]

Shape(t, L, s, at, lo, hi) ==
    /\ t \in Trees /\ L \subseteq Nodes
    /\ Links(t, L) /\ Listed(L, s, at) /\ Spans(t, L, at, lo, hi)
    /\ L # {} => lo[t.root] = 1 /\ hi[t.root] = Len(s)

Formed(t, L) == \E s, at, lo, hi : Shape(t, L, s, at, lo, hi)

(***************************************************************************)
(* The colours: all branches below a node, but the nodes of M, have the    *)
(* same number of black nodes, h, except that on side e of p one is        *)
(* missing (no node if p is the sentinel); and of two red nodes one above  *)
(* the other one is c, as is a red root.                                   *)
(***************************************************************************)
Weight(t, x) == IF x \in t.red THEN 0 ELSE 1

EvenBut(t, L, M, h, p, e) ==
    /\ h \in [Places -> Nat] /\ h[NIL] = 0
    /\ \A x \in L \ M : \A d \in Sides :
          /\ ~(x = p /\ d = e) => h[x] = h[t[d][x]] + Weight(t, x)
          /\ x = p /\ d = e => h[x] = h[t[d][x]] + Weight(t, x) + 1

Even(t, L, h, p, e) == EvenBut(t, L, {}, h, p, e)

Clean(t, L, c) ==
    /\ \A x \in L : \A d \in Sides :
          x \in t.red /\ t[d][x] \in t.red => c \in {x, t[d][x]}
    /\ t.root \in t.red => t.root = c

(* Nodes that are linked differ.                                           *)
LEMMA Apart ==
  ASSUME NEW t, NEW L, Formed(t, L),
         NEW x \in L, NEW d \in Sides, t[d][x] # NIL
  PROVE  /\ t[d][x] \in L /\ t[d][x] # x /\ t[d][x] # t.root /\ t[d][x] # t[Other(d)][x]
         /\ x # t.root => t.parent[x] # x /\ t[d][x] # t.parent[x]
         /\ \A e \in Sides : t[e][t[d][x]] # x /\ t[e][t[d][x]] # t[d][x]
<1> PICK s, at, lo, hi : Shape(t, L, s, at, lo, hi)  BY DEF Formed
<1>1. t[d][x] \in L /\ t.parent[t[d][x]] = x  BY DEF Shape, Links
<1>0. L \subseteq Nodes /\ NIL \notin Nodes  BY NodesAssumption DEF Shape
<1>2. ASSUME NEW y \in L, NEW e \in Sides, t[e][y] # NIL
      PROVE  /\ t[e][y] \in L
             /\ hi[t[e][y]] - lo[t[e][y]] < hi[y] - lo[y]
             /\ lo[y] \in Int /\ hi[y] \in Int
             /\ at[y] < lo[t[e][y]] \/ hi[t[e][y]] < at[y]
             /\ e = "left" <=> hi[t[e][y]] < at[y]
  <2>1. t[e][y] \in L  BY <1>2 DEF Shape, Links
  <2>2. /\ lo[y] \in Int /\ hi[y] \in Int /\ at[y] \in Int /\ lo[y] <= at[y] /\ at[y] <= hi[y]
        /\ lo[t[e][y]] \in Int /\ hi[t[e][y]] \in Int
    BY <1>0, <2>1 DEF Shape, Spans, Listed
  <2>3. CASE e = "left"
    <3>1. lo[t[e][y]] = lo[y] /\ hi[t[e][y]] = at[y] - 1  BY <1>2, <2>3 DEF Shape, Spans
    <3> QED  BY <2>1, <2>2, <2>3, <3>1
  <2>4. CASE e = "right"
    <3>1. lo[t[e][y]] = at[y] + 1 /\ hi[t[e][y]] = hi[y]  BY <1>2, <2>4 DEF Shape, Spans
    <3>2. at[y] <= hi[t[e][y]]  BY <2>2, <3>1
    <3> QED  BY <2>1, <2>2, <2>4, <3>1, <3>2
  <2> QED  BY <2>3, <2>4 DEF Sides
<1>3. t[d][x] # x /\ \A e \in Sides : t[e][t[d][x]] # x /\ t[e][t[d][x]] # t[d][x]
  BY <1>0, <1>1, <1>2
<1>4. t[d][x] # t.root
  <2>1. /\ lo[t.root] = 1 /\ hi[t.root] = Len(s) /\ at[x] \in 1 .. Len(s)
    BY DEF Shape, Listed
  <2> QED  BY <1>1, <1>2, <2>1
<1>5. t[d][x] # t[Other(d)][x]
  <2>1. Other(d) \in Sides /\ Other(d) # d  BY DEF Sides, Other
  <2> QED  BY <1>2, <2>1 DEF Sides
<1>6. x # t.root => t.parent[x] # x /\ t[d][x] # t.parent[x]
  <2> SUFFICES ASSUME x # t.root PROVE t.parent[x] # x /\ t[d][x] # t.parent[x]  OBVIOUS
  <2>1. PICK e \in Sides : t.parent[x] \in L /\ t[e][t.parent[x]] = x  BY DEF Shape, Links
  <2> QED  BY <1>0, <1>1, <1>2, <2>1
<1> QED  BY <1>1, <1>3, <1>4, <1>5, <1>6

LEMMA HangChildren ==
  ASSUME NEW t \in Trees, NEW d \in Sides, NEW y \in Places, NEW x \in Places \cup {NULL},
         NEW u, u = Hang(t, d, y, x)
  PROVE  \A z \in Places : \A e \in Sides :
            u[e][z] = IF e = d /\ z = y THEN x ELSE t[e][z]
<1> DEFINE v == [t EXCEPT ![d][y] = x]
<1>1. u = IF x = NIL THEN v ELSE [v EXCEPT !.parent[x] = y]  BY DEF Hang
<1>2. /\ v \in Trees /\ v.red = t.red /\ v.root = t.root /\ v.parent = t.parent
      /\ \A z \in Places : \A e \in Sides : v[e][z] = IF e = d /\ z = y THEN x ELSE t[e][z]
  BY DEF Trees, Places, Sides
<1> HIDE DEF v
<1>3. u \in Trees /\ u.red = t.red /\ u.root = t.root /\ u.left = v.left /\ u.right = v.right
  BY <1>1, <1>2 DEF Trees, Places
<1>4. \A z \in Places : \A e \in Sides : u[e][z] = v[e][z]  BY <1>3 DEF Sides
<1> QED  BY <1>2, <1>4

LEMMA HangParents ==
  ASSUME NEW t \in Trees, NEW d \in Sides, NEW y \in Places, NEW x \in Places \cup {NULL},
         NEW u, u = Hang(t, d, y, x)
  PROVE  \A z \in Places : u.parent[z] = IF z = x /\ x # NIL THEN y ELSE t.parent[z]
<1> DEFINE v == [t EXCEPT ![d][y] = x]
<1>1. u = IF x = NIL THEN v ELSE [v EXCEPT !.parent[x] = y]  BY DEF Hang
<1>2. v \in Trees /\ v.parent = t.parent /\ v.root = t.root /\ v.red = t.red
  BY DEF Trees, Places, Sides
<1> HIDE DEF v
<1> QED  BY <1>1, <1>2 DEF Trees, Places

LEMMA HangType ==
  ASSUME NEW t \in Trees, NEW d \in Sides, NEW y \in Places, NEW x \in Places \cup {NULL},
         NEW u, u = Hang(t, d, y, x)
  PROVE  u \in Trees /\ u.red = t.red /\ u.root = t.root
<1> DEFINE v == [t EXCEPT ![d][y] = x]
<1>1. u = IF x = NIL THEN v ELSE [v EXCEPT !.parent[x] = y]  BY DEF Hang
<1>2. v \in Trees /\ v.parent = t.parent /\ v.root = t.root /\ v.red = t.red
  BY DEF Trees, Places, Sides
<1> HIDE DEF v
<1> QED  BY <1>1, <1>2 DEF Trees, Places

LEMMA RotateLinks ==
  ASSUME NEW t \in Trees, NEW d \in Sides, NEW n \in Nodes,
         NEW up \in Nodes, up = t[Other(d)][n], up # n, t[d][up] # up, t[d][up] # n,
         n # t.root => t.parent[n] \in Nodes \ {n, up}, NEW r, r = Rotate(t, d, n)
  PROVE  /\ r \in Trees /\ r.red = t.red
         /\ r.root = IF n = t.root THEN up ELSE t.root
         /\ r[d][n] = t[d][n] /\ r[Other(d)][n] = t[d][up]
         /\ r[d][up] = n /\ r[Other(d)][up] = t[Other(d)][up]
         /\ \A x \in Places \ {n, up} : \A e \in Sides :
               r[e][x] = IF n # t.root /\ x = t.parent[n] /\ e = Side(t, n)
                         THEN up ELSE t[e][x]
         /\ \A x \in Places :
               r.parent[x] = IF x = up THEN t.parent[n]
                             ELSE IF x = n THEN up
                             ELSE IF x = t[d][up] /\ x # NIL THEN n
                             ELSE t.parent[x]
<1> DEFINE o == Other(d)
           p == t.parent[n]
           q == Side(t, n)
           inner == t[d][up]
           u == Under(t, n, up)
           v == [u EXCEPT !.parent[up] = p]
           w == Hang(v, o, n, inner)
<1>1. r = Hang(w, d, up, n)  BY DEF Rotate
<1>2. o \in Sides /\ q \in Sides /\ d # o  BY DEF Sides, Other, Side
<1>3. /\ u \in Trees /\ u.red = t.red /\ u.parent = t.parent
      /\ u.root = IF n = t.root THEN up ELSE t.root
      /\ \A x \in Places : \A e \in Sides :
            u[e][x] = IF n # t.root /\ x = p /\ e = q THEN up ELSE t[e][x]
  BY <1>2, NodesAssumption DEF Trees, Places, Under, Sides
<1>4. p \in Places \cup {NULL} /\ inner \in Places \cup {NULL}
  BY <1>2 DEF Trees, Places, Sides
<1> HIDE DEF inner, p, q, o, u
<1>5. /\ v \in Trees /\ v.red = u.red /\ v.root = u.root /\ v.left = u.left /\ v.right = u.right
      /\ \A x \in Places : v.parent[x] = IF x = up THEN p ELSE u.parent[x]
  BY <1>3, <1>4 DEF Trees, Places
<1> HIDE DEF v
<1>6. /\ w \in Trees /\ w.red = v.red /\ w.root = v.root
      /\ \A z \in Places : \A e \in Sides :
            w[e][z] = IF e = o /\ z = n THEN inner ELSE v[e][z]
      /\ \A z \in Places :
            w.parent[z] = IF z = inner /\ inner # NIL THEN n ELSE v.parent[z]
  <2>1. w = Hang(v, o, n, inner)  BY DEF w
  <2>2. n \in Places /\ inner \in Places \cup {NULL}  BY <1>4 DEF Places
  <2>3. \A z \in Places : \A e \in Sides :
           w[e][z] = IF e = o /\ z = n THEN inner ELSE v[e][z]
    BY <1>2, <1>5, <2>1, <2>2, HangChildren
  <2>4. \A z \in Places : w.parent[z] = IF z = inner /\ inner # NIL THEN n ELSE v.parent[z]
    BY <1>2, <1>5, <2>1, <2>2, HangParents
  <2>5. w \in Trees /\ w.red = v.red /\ w.root = v.root
    BY <1>2, <1>5, <2>1, <2>2, HangType
  <2> QED  BY <2>3, <2>4, <2>5
<1> HIDE DEF w
<1>7. /\ r \in Trees /\ r.red = w.red /\ r.root = w.root
      /\ \A z \in Places : \A e \in Sides :
            r[e][z] = IF e = d /\ z = up THEN n ELSE w[e][z]
      /\ \A z \in Places : r.parent[z] = IF z = n THEN up ELSE w.parent[z]
  <2>1. n \in Places /\ up \in Places /\ n # NIL  BY NodesAssumption DEF Places
  <2>2. \A z \in Places : \A e \in Sides :
           r[e][z] = IF e = d /\ z = up THEN n ELSE w[e][z]
    BY <1>1, <1>6, <2>1, HangChildren
  <2>3. \A z \in Places : r.parent[z] = IF z = n /\ n # NIL THEN up ELSE w.parent[z]
    BY <1>1, <1>6, <2>1, HangParents
  <2>4. r \in Trees /\ r.red = w.red /\ r.root = w.root  BY <1>1, <1>6, <2>1, HangType
  <2> QED  BY <2>1, <2>2, <2>3, <2>4
<1>8. \A z \in Places : \A e \in Sides :
         r[e][z] = IF e = d /\ z = up THEN n ELSE IF e = o /\ z = n THEN inner ELSE u[e][z]
  BY <1>5, <1>6, <1>7 DEF Sides
<1>9. /\ r[d][n] = t[d][n] /\ r[o][n] = inner /\ r[d][up] = n /\ r[o][up] = t[o][up]
      /\ \A x \in Places \ {n, up} : \A e \in Sides :
            r[e][x] = IF n # t.root /\ x = p /\ e = q THEN up ELSE t[e][x]
  BY <1>2, <1>3, <1>8 DEF Places, p
<1>10. \A x \in Places : r.parent[x] = IF x = up THEN p ELSE IF x = n THEN up
                                 ELSE IF x = inner /\ x # NIL THEN n ELSE t.parent[x]
  BY <1>3, <1>5, <1>6, <1>7 DEF inner
<1>11. r \in Trees /\ r.red = t.red /\ r.root = IF n = t.root THEN up ELSE t.root
  BY <1>3, <1>5, <1>6, <1>7
<1> QED  BY <1>9, <1>10, <1>11 DEF p, q, o, inner

(* Which links change when n goes down on side d, and up comes up.         *)
Turned(t, L, d, n, up, r) ==
    /\ up \in L /\ up # n /\ up # t.root /\ t[d][up] # n /\ t[d][up] # up
    /\ n # t.root => /\ t.parent[n] \in L /\ t.parent[n] # n /\ t.parent[n] # up
                     /\ \A e \in Sides : t[e][t.parent[n]] = n <=> e = Side(t, n)
    /\ r \in Trees /\ r.red = t.red
    /\ r.root = IF n = t.root THEN up ELSE t.root
    /\ r[d][n] = t[d][n] /\ r[Other(d)][n] = t[d][up]
    /\ r[d][up] = n /\ r[Other(d)][up] = t[Other(d)][up]
    /\ \A x \in L \ {n, up} : \A e \in Sides :
          r[e][x] = IF n # t.root /\ x = t.parent[n] /\ e = Side(t, n)
                    THEN up ELSE t[e][x]
    /\ \A x \in L : r.parent[x] = IF x = up THEN t.parent[n]
                                  ELSE IF x = n THEN up
                                  ELSE IF x = t[d][up] THEN n ELSE t.parent[x]
    /\ r.parent[NIL] = t.parent[NIL]

LEMMA RotateMoves ==
  ASSUME NEW t, NEW L, Formed(t, L),
         NEW d \in Sides, NEW n \in L, NEW up, up = t[Other(d)][n], up # NIL,
         NEW r, r = Rotate(t, d, n)
  PROVE  Turned(t, L, d, n, up, r)
<1> DEFINE o == Other(d)
           p == t.parent[n]
           q == Side(t, n)
           inner == t[d][up]
<1>1. o \in Sides /\ q \in Sides /\ o # d /\ Other(o) = d /\ \A e \in Sides : e = d \/ e = o
  BY DEF Sides, Side, Other
<1>2. L \subseteq Nodes /\ t \in Trees /\ Links(t, L) /\ n \in Nodes /\ NIL \notin L
  BY NodesAssumption DEF Formed, Shape
<1>3. \A x \in L : \A e \in Sides :
         t[e][x] \in L \cup {NIL} /\ (t[e][x] # NIL => t.parent[t[e][x]] = x)
  BY <1>2 DEF Links
<1>4. \A x \in L \ {t.root} : t.parent[x] \in L /\ \E e \in Sides : t[e][t.parent[x]] = x
  BY <1>2 DEF Links
<1>5. /\ up \in L /\ up # n /\ up # t.root /\ inner # n /\ inner # up
      /\ n # t.root => p \in L /\ p # n /\ p # up
  <2>1. up \in L /\ up # n /\ up # t.root /\ inner # n /\ inner # up /\ (n # t.root => p # n /\ p # up)
    BY <1>1, Apart
  <2>2. n # t.root => p \in L  BY <1>4
  <2> QED  BY <2>1, <2>2
<1>6. n # t.root => \A e \in Sides : t[e][p] = n <=> e = q
  <2> SUFFICES ASSUME n # t.root PROVE \A e \in Sides : t[e][p] = n <=> e = q
    OBVIOUS
  <2>1. PICK e \in Sides : t[e][p] = n  BY <1>4
  <2>2. \A x \in L : t.left[x] # NIL => t.left[x] # t.right[x]
    <3> SUFFICES ASSUME NEW x \in L, t["left"][x] # NIL PROVE t["left"][x] # t[Other("left")][x]
      BY DEF Other
    <3>1. "left" \in Sides  BY DEF Sides
    <3> QED  BY <3>1, Apart
  <2>3. t.left[p] = n => t.right[p] # n  BY <1>2, <1>5, <2>2
  <2> QED  BY <2>1, <2>3 DEF Side, Sides
<1>7. up \in Nodes /\ (n # t.root => p \in Nodes \ {n, up})  BY <1>2, <1>5
<1>8. /\ r \in Trees /\ r.red = t.red
      /\ r.root = IF n = t.root THEN up ELSE t.root
      /\ r[d][n] = t[d][n] /\ r[o][n] = inner
      /\ r[d][up] = n /\ r[o][up] = t[o][up]
      /\ \A x \in Places \ {n, up} : \A e \in Sides :
            r[e][x] = IF n # t.root /\ x = p /\ e = q THEN up ELSE t[e][x]
      /\ \A x \in Places :
            r.parent[x] = IF x = up THEN p
                          ELSE IF x = n THEN up
                          ELSE IF x = inner /\ x # NIL THEN n
                          ELSE t.parent[x]
  BY <1>2, <1>5, <1>7, RotateLinks
<1>9. /\ \A x \in L \ {n, up} : \A e \in Sides :
            r[e][x] = IF n # t.root /\ x = p /\ e = q THEN up ELSE t[e][x]
      /\ \A x \in L :
            r.parent[x] = IF x = up THEN p ELSE IF x = n THEN up
                          ELSE IF x = inner THEN n ELSE t.parent[x]
  <2> HIDE DEF o, p, q, inner
  <2> QED  BY <1>2, <1>8 DEF Places
<1>10. r.parent[NIL] = t.parent[NIL]  BY <1>2, <1>5, <1>8 DEF Places
<1> QED  BY <1>5, <1>6, <1>8, <1>9, <1>10 DEF Turned

(* A rotation keeps the links in agreement.                                *)
LEMMA RotateKeepsLinks ==
  ASSUME NEW t, NEW L, Formed(t, L),
         NEW d \in Sides, NEW n \in L, NEW up, up = t[Other(d)][n], up # NIL,
         NEW r, r = Rotate(t, d, n)
  PROVE  r \in Trees /\ Links(r, L)
<1> DEFINE o == Other(d)
           p == t.parent[n]
           q == Side(t, n)
           inner == t[d][up]
<1>0. Turned(t, L, d, n, up, r)  BY RotateMoves
<1>1. o \in Sides /\ q \in Sides /\ o # d /\ Other(o) = d /\ \A e \in Sides : e = d \/ e = o
  BY DEF Sides, Side, Other
<1>2. L \subseteq Nodes /\ t \in Trees /\ Links(t, L) /\ n \in Nodes /\ NIL \notin L
  BY NodesAssumption DEF Formed, Shape
<1>3. \A x \in L : \A e \in Sides :
         t[e][x] \in L \cup {NIL} /\ (t[e][x] # NIL => t.parent[t[e][x]] = x)
  BY <1>2 DEF Links
<1>4. \A x \in L \ {t.root} : t.parent[x] \in L /\ \E e \in Sides : t[e][t.parent[x]] = x
  BY <1>2 DEF Links
<1>5. up \in L /\ up # n /\ up # t.root /\ inner # n /\ inner # up  BY <1>0 DEF Turned
<1>6. n # t.root => p \in L /\ p # n /\ p # up /\ \A e \in Sides : t[e][p] = n <=> e = q
  BY <1>0 DEF Turned
<1>7. inner # NIL => inner \in L /\ t.parent[inner] = up  BY <1>3, <1>5
<1>8. t[o][up] # NIL => t[o][up] # inner /\ t[o][up] # n /\ t[o][up] # up
  <2> SUFFICES ASSUME t[o][up] # NIL PROVE t[o][up] # inner /\ t[o][up] # n /\ t[o][up] # up
    OBVIOUS
  <2>1. t[o][up] # t[Other(o)][up] /\ t[o][up] # up  BY <1>1, <1>5, Apart
  <2>2. t[o][t[o][n]] # n  BY <1>1, <1>5, Apart
  <2> QED  BY <1>1, <2>1, <2>2
<1>9. t[d][n] # NIL => t[d][n] # inner /\ t[d][n] # n /\ t[d][n] # up
  <2> SUFFICES ASSUME t[d][n] # NIL PROVE t[d][n] # inner /\ t[d][n] # n /\ t[d][n] # up
    OBVIOUS
  <2>1. t[d][n] # t[Other(d)][n] /\ t[d][n] # n  BY Apart
  <2> QED  BY <1>3, <1>5, <1>7, <2>1
<1>10. /\ r \in Trees
       /\ r.root = IF n = t.root THEN up ELSE t.root
       /\ r[d][n] = t[d][n] /\ r[o][n] = inner
       /\ r[d][up] = n /\ r[o][up] = t[o][up]
  BY <1>0 DEF Turned
<1>11. /\ \A x \in L \ {n, up} : \A e \in Sides :
             r[e][x] = IF n # t.root /\ x = p /\ e = q THEN up ELSE t[e][x]
       /\ \A x \in L :
             r.parent[x] = IF x = up THEN p ELSE IF x = n THEN up
                           ELSE IF x = inner THEN n ELSE t.parent[x]
  BY <1>0 DEF Turned
<1> HIDE DEF o, p, q, inner
<1>12. ASSUME NEW x \in L, NEW e \in Sides
       PROVE  r[e][x] \in L \cup {NIL} /\ (r[e][x] # NIL => r.parent[r[e][x]] = x)
  <2>1. CASE x = n /\ e = d
    BY <1>3, <1>9, <1>10, <1>11, <2>1
  <2>2. CASE x = n /\ e = o
    BY <1>1, <1>5, <1>7, <1>10, <1>11, <2>2
  <2>3. CASE x = up /\ e = d
    BY <1>1, <1>5, <1>10, <1>11, <2>3
  <2>4. CASE x = up /\ e = o
    BY <1>1, <1>3, <1>5, <1>8, <1>10, <1>11, <2>4
  <2>5. CASE x \notin {n, up} /\ n # t.root /\ x = p /\ e = q
    BY <1>5, <1>11, <2>5
  <2>6. CASE x \notin {n, up} /\ ~(n # t.root /\ x = p /\ e = q)
    <3>1. r[e][x] = t[e][x]  BY <1>11, <2>6
    <3>2. t[e][x] # NIL => t[e][x] \in L /\ t.parent[t[e][x]] = x /\ t[e][x] # t.root
      BY <1>3, Apart
    <3>3. t.parent[up] = n  BY <1>1, <1>2, <1>3, <1>5 DEF o
    <3>4. t[e][x] # NIL => t[e][x] # up /\ t[e][x] # n /\ t[e][x] # inner
      BY <1>6, <1>7, <2>6, <3>2, <3>3 DEF p
    <3> QED  BY <1>3, <1>11, <3>1, <3>2, <3>4
  <2> QED  BY <1>1, <2>1, <2>2, <2>3, <2>4, <2>5, <2>6
<1>13. ASSUME NEW x \in L \ {r.root}
       PROVE  r.parent[x] \in L /\ \E e \in Sides : r[e][r.parent[x]] = x
  <2>1. CASE x = up
    BY <1>1, <1>5, <1>6, <1>10, <1>11, <2>1
  <2>2. CASE x = n
    BY <1>1, <1>5, <1>10, <1>11, <2>2
  <2>3. CASE x = inner
    BY <1>1, <1>2, <1>5, <1>10, <1>11, <2>3
  <2>4. CASE x \notin {n, up, inner}
    <3>1. x # t.root  BY <1>10, <2>4
    <3>2. PICK e \in Sides : t[e][t.parent[x]] = x  BY <1>4, <3>1
    <3>3. r.parent[x] = t.parent[x] /\ t.parent[x] \in L  BY <1>4, <1>11, <2>4, <3>1
    <3>4. r[e][t.parent[x]] = x
      <4>1. CASE t.parent[x] = n
        BY <1>1, <1>10, <2>4, <3>2, <4>1 DEF o
      <4>2. CASE t.parent[x] = up
        BY <1>1, <1>10, <2>4, <3>2, <4>2 DEF inner
      <4>3. CASE t.parent[x] \notin {n, up}
        BY <1>6, <1>11, <2>4, <3>2, <3>3, <4>3
      <4> QED  BY <4>1, <4>2, <4>3
    <3> QED  BY <3>3, <3>4
  <2> QED  BY <2>1, <2>2, <2>3, <2>4
<1>14. L # {} /\ r.root \in L  BY <1>2, <1>5, <1>10 DEF Links
<1> QED  BY <1>10, <1>12, <1>13, <1>14 DEF Links

(* A rotation changes no node's place in the order.                        *)
LEMMA RotateKeepsShape ==
  ASSUME NEW t, NEW L, NEW s, NEW at, NEW lo, NEW hi, Shape(t, L, s, at, lo, hi),
         NEW d \in Sides, NEW n \in L, NEW up, up = t[Other(d)][n], up # NIL,
         NEW r, r = Rotate(t, d, n)
  PROVE  \E lo2, hi2 : Shape(r, L, s, at, lo2, hi2)
<1> DEFINE o == Other(d)
           p == t.parent[n]
           q == Side(t, n)
           inner == t[d][up]
           lo2 == [x \in Nodes |-> IF x = up THEN lo[n]
                                   ELSE IF x = n /\ d = "right" THEN at[up] + 1 ELSE lo[x]]
           hi2 == [x \in Nodes |-> IF x = up THEN hi[n]
                                   ELSE IF x = n /\ d = "left" THEN at[up] - 1 ELSE hi[x]]
<1> Formed(t, L)  BY DEF Formed
<1>0. Turned(t, L, d, n, up, r)  BY RotateMoves
<1>1. L \subseteq Nodes /\ L # {} /\ Links(t, L) /\ Listed(L, s, at) /\ Spans(t, L, at, lo, hi)
  BY DEF Shape
<1>2. r \in Trees /\ Links(r, L)  BY RotateKeepsLinks
<1>3. /\ up \in L /\ up # n /\ up # t.root /\ inner # n /\ inner # up
      /\ r.root = IF n = t.root THEN up ELSE t.root
      /\ r[d][n] = t[d][n] /\ r[o][n] = inner
      /\ r[d][up] = n /\ r[o][up] = t[o][up]
  BY <1>0 DEF Turned
<1>4. /\ n # t.root => \A e \in Sides : t[e][p] = n <=> e = q
      /\ \A x \in L \ {n, up} : \A e \in Sides :
            r[e][x] = IF n # t.root /\ x = p /\ e = q THEN up ELSE t[e][x]
  BY <1>0 DEF Turned
<1>5. /\ lo \in [Nodes -> Int] /\ hi \in [Nodes -> Int] /\ at \in [Nodes -> Int]
      /\ \A x \in L : lo[x] <= at[x] /\ at[x] <= hi[x]
      /\ \A x \in L :
            /\ t.left[x] = NIL => lo[x] = at[x]
            /\ t.left[x] # NIL => lo[t.left[x]] = lo[x] /\ hi[t.left[x]] = at[x] - 1
            /\ t.right[x] = NIL => hi[x] = at[x]
            /\ t.right[x] # NIL => lo[t.right[x]] = at[x] + 1 /\ hi[t.right[x]] = hi[x]
  BY <1>1 DEF Spans, Listed
<1>6. /\ lo2 \in [Nodes -> Int] /\ hi2 \in [Nodes -> Int]
      /\ lo2[up] = lo[n] /\ hi2[up] = hi[n]
      /\ d = "left" => lo2[n] = lo[n] /\ hi2[n] = at[up] - 1
      /\ d = "right" => lo2[n] = at[up] + 1 /\ hi2[n] = hi[n]
      /\ \A x \in L \ {n, up} : lo2[x] = lo[x] /\ hi2[x] = hi[x]
  <2>1. n \in Nodes /\ up \in Nodes /\ L \subseteq Nodes  BY <1>1, <1>3
  <2>2. lo2 \in [Nodes -> Int]
    <3>1. ASSUME NEW x \in Nodes
          PROVE  (IF x = up THEN lo[n] ELSE IF x = n /\ d = "right" THEN at[up] + 1 ELSE lo[x]) \in Int
      BY <1>5, <2>1
    <3> QED  BY <3>1
  <2>3. hi2 \in [Nodes -> Int]
    <3>1. ASSUME NEW x \in Nodes
          PROVE  (IF x = up THEN hi[n] ELSE IF x = n /\ d = "left" THEN at[up] - 1 ELSE hi[x]) \in Int
      BY <1>5, <2>1
    <3> QED  BY <3>1
  <2>4. lo2[up] = lo[n] /\ hi2[up] = hi[n]  BY <2>1
  <2>5. d = "left" => lo2[n] = lo[n] /\ hi2[n] = at[up] - 1  BY <1>3, <2>1
  <2>6. d = "right" => lo2[n] = at[up] + 1 /\ hi2[n] = hi[n]  BY <1>3, <2>1
  <2>7. \A x \in L \ {n, up} : lo2[x] = lo[x] /\ hi2[x] = hi[x]  BY <2>1
  <2> QED  BY <2>2, <2>3, <2>4, <2>5, <2>6, <2>7
<1>7. \A x \in L : \A e \in Sides :
         t[e][x] \in L \cup {NIL} /\ (t[e][x] # NIL => t.parent[t[e][x]] = x)
  BY <1>1 DEF Links
<1> HIDE DEF lo2, hi2, q, p, inner
<1>8. ASSUME NEW x \in L \ {n, up}, NEW e \in Sides
      PROVE  /\ r[e][x] = NIL <=> t[e][x] = NIL
             /\ t[e][x] # NIL => /\ lo2[r[e][x]] = lo[t[e][x]]
                                 /\ hi2[r[e][x]] = hi[t[e][x]]
  <2>0. up # NIL /\ n # NIL  BY <1>1, NodesAssumption
  <2>1. CASE n # t.root /\ x = p /\ e = q
    BY <1>3, <1>4, <1>6, <2>0, <2>1
  <2>2. CASE ~(n # t.root /\ x = p /\ e = q)
    <3>1. r[e][x] = t[e][x]  BY <1>4, <2>2
    <3>2. t[e][x] # NIL => t[e][x] \in L /\ t.parent[t[e][x]] = x /\ t[e][x] # t.root
      BY <1>7, Apart
    <3>3. t.parent[up] = n  BY <1>7, <2>0 DEF Other, Sides
    <3>4. t[e][x] # NIL => t[e][x] # up /\ t[e][x] # n
      BY <1>4, <2>2, <3>2, <3>3 DEF p
    <3> QED  BY <1>6, <3>1, <3>2, <3>4
  <2> QED  BY <2>1, <2>2
<1>9. ASSUME NEW x \in L \ {n, up}
      PROVE  /\ lo2[x] <= at[x] /\ at[x] <= hi2[x]
             /\ r.left[x] = NIL => lo2[x] = at[x]
             /\ r.left[x] # NIL => lo2[r.left[x]] = lo2[x] /\ hi2[r.left[x]] = at[x] - 1
             /\ r.right[x] = NIL => hi2[x] = at[x]
             /\ r.right[x] # NIL => lo2[r.right[x]] = at[x] + 1 /\ hi2[r.right[x]] = hi2[x]
  <2>0. "left" \in Sides /\ "right" \in Sides  BY DEF Sides
  <2>1. lo2[x] = lo[x] /\ hi2[x] = hi[x]  BY <1>6
  <2>2. /\ r.left[x] = NIL <=> t.left[x] = NIL
        /\ t.left[x] # NIL => lo2[r.left[x]] = lo[t.left[x]] /\ hi2[r.left[x]] = hi[t.left[x]]
    BY <1>8, <2>0
  <2>3. /\ r.right[x] = NIL <=> t.right[x] = NIL
        /\ t.right[x] # NIL => lo2[r.right[x]] = lo[t.right[x]] /\ hi2[r.right[x]] = hi[t.right[x]]
    BY <1>8, <2>0
  <2>4. lo2[x] <= at[x] /\ at[x] <= hi2[x]  BY <1>5, <2>1
  <2>5. r.left[x] = NIL => lo2[x] = at[x]  BY <1>5, <2>1, <2>2
  <2>6. r.right[x] = NIL => hi2[x] = at[x]  BY <1>5, <2>1, <2>3
  <2>7. r.left[x] # NIL => lo2[r.left[x]] = lo2[x] /\ hi2[r.left[x]] = at[x] - 1
    BY <1>5, <2>1, <2>2
  <2>8. r.right[x] # NIL => lo2[r.right[x]] = at[x] + 1 /\ hi2[r.right[x]] = hi2[x]
    BY <1>5, <2>1, <2>3
  <2> QED  BY <2>4, <2>5, <2>6, <2>7, <2>8
<1>10. /\ inner # NIL => inner \in L \ {n, up}
       /\ t[d][n] # NIL => t[d][n] \in L \ {n, up}
       /\ t[o][up] # NIL => t[o][up] \in L \ {n, up}
       /\ up # NIL /\ n # NIL
  <2>1. d \in Sides /\ o \in Sides /\ n # NIL  BY <1>1, NodesAssumption DEF Sides, Other
  <2>2. inner # NIL => inner \in L \ {n, up}  BY <1>3, <1>7, <2>1 DEF inner
  <2>3. t[d][n] # NIL => t[d][n] \in L \ {n, up}  BY <1>7, <2>1, Apart
  <2>4. t[o][up] # NIL => t[o][up] \in L \ {n, up}
    <3>1. t[o][up] # NIL => t[o][up] \in L /\ t[o][up] # up  BY <1>3, <2>1, Apart
    <3>2. t[o][t[o][n]] # n  BY <1>3, <2>1, Apart
    <3> QED  BY <3>1, <3>2
  <2> QED  BY <2>1, <2>2, <2>3, <2>4
<1>11. ASSUME d = "left", NEW x \in {n, up}
       PROVE  /\ lo2[x] <= at[x] /\ at[x] <= hi2[x]
              /\ r.left[x] = NIL => lo2[x] = at[x]
              /\ r.left[x] # NIL => lo2[r.left[x]] = lo2[x] /\ hi2[r.left[x]] = at[x] - 1
              /\ r.right[x] = NIL => hi2[x] = at[x]
              /\ r.right[x] # NIL => lo2[r.right[x]] = at[x] + 1 /\ hi2[r.right[x]] = hi2[x]
  <2>1. o = "right" /\ up = t.right[n] /\ inner = t.left[up]  BY <1>11 DEF Other, inner
  <2>2. /\ r.left[n] = t.left[n] /\ r.right[n] = inner /\ r.left[up] = n
        /\ r.right[up] = t.right[up]
    BY <1>3, <1>11, <2>1
  <2>3. /\ lo[up] = at[n] + 1 /\ hi[up] = hi[n] /\ lo[n] <= at[n] /\ at[up] <= hi[up]
        /\ lo[up] <= at[up]
    BY <1>3, <1>5, <1>10, <2>1
  <2>4. /\ at[n] \in Int /\ at[up] \in Int /\ lo[n] \in Int /\ hi[n] \in Int
    BY <1>1, <1>3, <1>5
  <2>5. CASE x = n
    <3>1. lo2[n] = lo[n] /\ hi2[n] = at[up] - 1  BY <1>6, <1>11
    <3>2. lo2[n] <= at[n] /\ at[n] <= hi2[n]  BY <2>3, <2>4, <3>1
    <3>3. t.left[n] = NIL => lo2[n] = at[n]  BY <1>5, <3>1
    <3>4. t.left[n] # NIL => lo2[t.left[n]] = lo2[n] /\ hi2[t.left[n]] = at[n] - 1
      BY <1>5, <1>6, <1>10, <1>11, <3>1
    <3>5. inner = NIL => hi2[n] = at[n]  BY <1>3, <1>5, <2>1, <2>3, <2>4, <3>1
    <3>6. inner # NIL => lo2[inner] = at[n] + 1 /\ hi2[inner] = hi2[n]
      BY <1>3, <1>5, <1>6, <1>10, <2>1, <2>3, <3>1
    <3> QED  BY <2>2, <2>5, <3>2, <3>3, <3>4, <3>5, <3>6
  <2>6. CASE x = up
    <3>1. lo2[up] = lo[n] /\ hi2[up] = hi[n]  BY <1>6
    <3>2. lo2[up] <= at[up] /\ at[up] <= hi2[up]  BY <2>3, <2>4, <3>1
    <3>3. lo2[n] = lo2[up] /\ hi2[n] = at[up] - 1  BY <1>6, <1>11
    <3>4. t.right[up] = NIL => hi2[up] = at[up]  BY <1>3, <1>5, <2>3, <3>1
    <3>5. t.right[up] # NIL => lo2[t.right[up]] = at[up] + 1 /\ hi2[t.right[up]] = hi2[up]
      BY <1>3, <1>5, <1>6, <1>10, <2>1, <2>3, <3>1
    <3> QED  BY <1>10, <2>2, <2>6, <3>2, <3>3, <3>4, <3>5
  <2> QED  BY <2>5, <2>6
<1>12. ASSUME d = "right", NEW x \in {n, up}
       PROVE  /\ lo2[x] <= at[x] /\ at[x] <= hi2[x]
              /\ r.left[x] = NIL => lo2[x] = at[x]
              /\ r.left[x] # NIL => lo2[r.left[x]] = lo2[x] /\ hi2[r.left[x]] = at[x] - 1
              /\ r.right[x] = NIL => hi2[x] = at[x]
              /\ r.right[x] # NIL => lo2[r.right[x]] = at[x] + 1 /\ hi2[r.right[x]] = hi2[x]
  <2>1. o = "left" /\ up = t.left[n] /\ inner = t.right[up]  BY <1>12 DEF Other, inner
  <2>2. /\ r.right[n] = t.right[n] /\ r.left[n] = inner /\ r.right[up] = n
        /\ r.left[up] = t.left[up]
    BY <1>3, <1>12, <2>1
  <2>3. /\ lo[up] = lo[n] /\ hi[up] = at[n] - 1 /\ at[n] <= hi[n] /\ at[up] <= hi[up]
        /\ lo[up] <= at[up]
    BY <1>3, <1>5, <1>10, <2>1
  <2>4. /\ at[n] \in Int /\ at[up] \in Int /\ lo[n] \in Int /\ hi[n] \in Int
    BY <1>1, <1>3, <1>5
  <2>5. CASE x = n
    <3>1. lo2[n] = at[up] + 1 /\ hi2[n] = hi[n]  BY <1>6, <1>12
    <3>2. lo2[n] <= at[n] /\ at[n] <= hi2[n]  BY <2>3, <2>4, <3>1
    <3>3. t.right[n] = NIL => hi2[n] = at[n]  BY <1>5, <3>1
    <3>4. t.right[n] # NIL => lo2[t.right[n]] = at[n] + 1 /\ hi2[t.right[n]] = hi2[n]
      BY <1>5, <1>6, <1>10, <1>12, <3>1
    <3>5. inner = NIL => lo2[n] = at[n]  BY <1>3, <1>5, <2>1, <2>3, <2>4, <3>1
    <3>6. inner # NIL => lo2[inner] = lo2[n] /\ hi2[inner] = at[n] - 1
      BY <1>3, <1>5, <1>6, <1>10, <2>1, <2>3, <3>1
    <3> QED  BY <2>2, <2>5, <3>2, <3>3, <3>4, <3>5, <3>6
  <2>6. CASE x = up
    <3>1. lo2[up] = lo[n] /\ hi2[up] = hi[n]  BY <1>6
    <3>2. lo2[up] <= at[up] /\ at[up] <= hi2[up]  BY <2>3, <2>4, <3>1
    <3>3. lo2[n] = at[up] + 1 /\ hi2[n] = hi2[up]  BY <1>6, <1>12
    <3>4. t.left[up] = NIL => lo2[up] = at[up]  BY <1>3, <1>5, <2>3, <3>1
    <3>5. t.left[up] # NIL => lo2[t.left[up]] = lo2[up] /\ hi2[t.left[up]] = at[up] - 1
      BY <1>3, <1>5, <1>6, <1>10, <2>1, <2>3, <3>1
    <3> QED  BY <1>10, <2>2, <2>6, <3>2, <3>3, <3>4, <3>5
  <2> QED  BY <2>5, <2>6
<1>13. Spans(r, L, at, lo2, hi2)
  <2>1. ASSUME NEW x \in L
        PROVE  /\ lo2[x] <= at[x] /\ at[x] <= hi2[x]
               /\ r.left[x] = NIL => lo2[x] = at[x]
               /\ r.left[x] # NIL => lo2[r.left[x]] = lo2[x] /\ hi2[r.left[x]] = at[x] - 1
               /\ r.right[x] = NIL => hi2[x] = at[x]
               /\ r.right[x] # NIL => lo2[r.right[x]] = at[x] + 1 /\ hi2[r.right[x]] = hi2[x]
    <3>1. CASE x \notin {n, up}  BY <1>9, <3>1
    <3>2. CASE x \in {n, up} /\ d = "left"  BY <1>11, <3>2
    <3>3. CASE x \in {n, up} /\ d = "right"  BY <1>12, <3>3
    <3> QED  BY <3>1, <3>2, <3>3 DEF Sides
  <2> QED  BY <1>6, <2>1 DEF Spans
<1>14. lo2[r.root] = 1 /\ hi2[r.root] = Len(s)
  <2>1. lo[t.root] = 1 /\ hi[t.root] = Len(s) /\ t.root \in L  BY <1>1 DEF Shape, Links
  <2> QED  BY <1>3, <1>6, <2>1
<1> QED  BY <1>1, <1>2, <1>13, <1>14 DEF Shape

-----------------------------------------------------------------------------
LEMMA PaintLinks ==
  ASSUME NEW t \in Trees, NEW a \in SUBSET Nodes, NEW b, NEW r, r = Paint(t, a, b)
  PROVE  /\ r \in Trees /\ r.root = t.root /\ r.left = t.left /\ r.right = t.right
         /\ r.parent = t.parent /\ r.red = (t.red \cup a) \ b
         /\ \A d \in Sides : r[d] = t[d]
BY DEF Trees, Paint, Sides

LEMMA PaintKeepsShape ==
  ASSUME NEW t, NEW L, NEW s, NEW at, NEW lo, NEW hi, Shape(t, L, s, at, lo, hi),
         NEW a \in SUBSET Nodes, NEW b, NEW r, r = Paint(t, a, b)
  PROVE  Shape(r, L, s, at, lo, hi)
<1>1. t \in Trees  BY DEF Shape
<1>2. /\ r \in Trees /\ r.root = t.root /\ r.left = t.left /\ r.right = t.right
      /\ r.parent = t.parent /\ \A d \in Sides : r[d] = t[d]
  BY <1>1 DEF Trees, Paint, Sides
<1>3. Links(r, L) <=> Links(t, L)  BY <1>2 DEF Links
<1>4. Spans(r, L, at, lo, hi) <=> Spans(t, L, at, lo, hi)  BY <1>2 DEF Spans
<1> QED  BY <1>2, <1>3, <1>4 DEF Shape

LEMMA PaintKeepsFormed ==
  ASSUME NEW t, NEW L, Formed(t, L), NEW a \in SUBSET Nodes, NEW b, NEW r, r = Paint(t, a, b)
  PROVE  Formed(r, L)
<1>1. PICK s, at, lo, hi : Shape(t, L, s, at, lo, hi)  BY DEF Formed
<1>2. Shape(r, L, s, at, lo, hi)  BY <1>1, PaintKeepsShape
<1> QED  BY <1>2 DEF Formed

TurnsEven(t, d, n, up, h, k, p, e) ==
    /\ k \in [Places -> Nat] /\ \A x \in Places \ {n, up} : k[x] = h[x]
    /\ k[up] = h[n] /\ p # up /\ ~(n = p /\ e = Other(d))
    /\ ~(n = p /\ d = e) => k[n] = h[t[d][n]] + Weight(t, n)
    /\ n = p /\ d = e => k[n] = h[t[d][n]] + Weight(t, n) + 1
    /\ k[n] = h[t[d][up]] + Weight(t, n)
    /\ k[up] = k[n] + Weight(t, up)
    /\ k[up] = h[t[Other(d)][up]] + Weight(t, up)

(* What must hold where a rotation is made for the branches to be even.    *)
LEMMA RotateEven ==
  ASSUME NEW t, NEW L, Formed(t, L),
         NEW d \in Sides, NEW n \in L, NEW up, up = t[Other(d)][n], up # NIL,
         NEW r, r = Rotate(t, d, n),
         NEW h, NEW k, NEW p, NEW e, EvenBut(t, L, {n, up}, h, p, e),
         TurnsEven(t, d, n, up, h, k, p, e)
  PROVE  Even(r, L, k, p, e)
<1> DEFINE o == Other(d)
           pn == t.parent[n]
           q == Side(t, n)
           inner == t[d][up]
<1>0. Turned(t, L, d, n, up, r)  BY RotateMoves
<1>1. o \in Sides /\ o # d /\ \A f \in Sides : f = d \/ f = o  BY DEF Sides, Other
<1>2. /\ up \in L /\ up # n /\ inner # n /\ inner # up
      /\ r.red = t.red /\ r[d][n] = t[d][n] /\ r[o][n] = inner
      /\ r[d][up] = n /\ r[o][up] = t[o][up]
  BY <1>0 DEF Turned
<1>3. /\ n # t.root => \A f \in Sides : t[f][pn] = n <=> f = q
      /\ \A x \in L \ {n, up} : \A f \in Sides :
            r[f][x] = IF n # t.root /\ x = pn /\ f = q THEN up ELSE t[f][x]
  BY <1>0 DEF Turned
<1>4. L \subseteq Nodes /\ NIL \notin L /\ n # NIL /\ up # NIL
  BY <1>2, NodesAssumption DEF Formed, Shape
<1>5. \A x \in L : \A f \in Sides :
         t[f][x] \in L \cup {NIL} /\ (t[f][x] # NIL => t.parent[t[f][x]] = x)
  BY DEF Formed, Shape, Links
<1>6. /\ inner \in Places \ {n, up} /\ t[d][n] \in Places \ {n, up}
      /\ t[o][up] \in Places \ {n, up}
  <2>1. t[d][n] # NIL => t[d][n] # n /\ t[d][n] # t[Other(d)][n]  BY Apart
  <2>2. t[o][up] # NIL => t[o][up] # up  BY <1>1, <1>2, Apart
  <2>3. t[o][t[o][n]] # n  BY <1>1, <1>2, Apart
  <2> QED  BY <1>1, <1>2, <1>4, <1>5, <2>1, <2>2, <2>3 DEF Places
<1>k. k \in [Places -> Nat] /\ \A x \in Places \ {n, up} : k[x] = h[x]  BY DEF TurnsEven
<1>7. k[inner] = h[inner] /\ k[t[d][n]] = h[t[d][n]] /\ k[t[o][up]] = h[t[o][up]] /\ k[NIL] = 0
  BY <1>k, <1>4, <1>6 DEF Places, EvenBut
<1>8. Weight(r, n) = Weight(t, n) /\ Weight(r, up) = Weight(t, up) /\ \A x \in L : Weight(r, x) = Weight(t, x)
  BY <1>2 DEF Weight
<1> HIDE DEF inner, pn, q, o
<1>9. ASSUME NEW x \in L \ {n, up}, NEW f \in Sides
      PROVE  k[x] = h[x] /\ k[r[f][x]] = h[t[f][x]]
  <2>1. k[x] = h[x]  BY <1>k, <1>4 DEF Places, Formed, Shape
  <2>2. CASE n # t.root /\ x = pn /\ f = q
    BY <1>3, <2>1, <2>2 DEF TurnsEven
  <2>3. CASE ~(n # t.root /\ x = pn /\ f = q)
    <3>1. r[f][x] = t[f][x]  BY <1>3, <2>3
    <3>2. t[f][x] # NIL => t[f][x] \in L /\ t.parent[t[f][x]] = x /\ t[f][x] # t.root
      BY <1>5, Apart
    <3>3. t.parent[up] = n  BY <1>1, <1>4, <1>5 DEF o
    <3>4. t[f][x] # up /\ t[f][x] # n
      BY <1>3, <1>4, <2>3, <3>2, <3>3 DEF pn
    <3>5. t[f][x] \in Places  BY <1>4, <1>5 DEF Places
    <3> QED  BY <1>k, <2>1, <3>1, <3>4, <3>5
  <2> QED  BY <2>2, <2>3
<1>10. ASSUME NEW x \in L, NEW f \in Sides
       PROVE  /\ ~(x = p /\ f = e) => k[x] = k[r[f][x]] + Weight(r, x)
              /\ x = p /\ f = e => k[x] = k[r[f][x]] + Weight(r, x) + 1
  <2>1. CASE x = n /\ f = d
    BY <1>2, <1>7, <1>8, <2>1 DEF TurnsEven
  <2>2. CASE x = n /\ f = o
    BY <1>1, <1>2, <1>7, <1>8, <2>2 DEF o, inner, TurnsEven
  <2>3. CASE x = up /\ f = d
    BY <1>2, <1>8, <2>3 DEF TurnsEven
  <2>4. CASE x = up /\ f = o
    BY <1>2, <1>7, <1>8, <2>4 DEF o, TurnsEven
  <2>5. CASE x \notin {n, up}
    <3>1. /\ ~(x = p /\ f = e) => h[x] = h[t[f][x]] + Weight(t, x)
          /\ x = p /\ f = e => h[x] = h[t[f][x]] + Weight(t, x) + 1
      BY <2>5 DEF EvenBut
    <3> QED  BY <1>8, <1>9, <2>5, <3>1
  <2> QED  BY <1>1, <2>1, <2>2, <2>3, <2>4, <2>5
<1> QED  BY <1>k, <1>7, <1>10 DEF Even, EvenBut

-----------------------------------------------------------------------------
(* What a rebalancing insertion works on: c is red, and only its parent,   *)
(* or the root in its place, may be red too.                               *)
InsertBalance(t, L, h, c) ==
    /\ c \in L /\ c \in t.red /\ \A d \in Sides : t[d][c] \notin t.red
    /\ Even(t, L, h, NIL, "left") /\ Clean(t, L, c)

(* The side on which a node hangs.                                         *)
LEMMA HangsOn ==
  ASSUME NEW t, NEW L, Formed(t, L), NEW x \in L, x # t.root
  PROVE  /\ t.parent[x] \in L /\ t.parent[x] # x /\ Side(t, x) \in Sides
         /\ t[Side(t, x)][t.parent[x]] = x /\ t[Other(Side(t, x))][t.parent[x]] # x
<1> DEFINE p == t.parent[x]
<1>1. p \in L /\ \E e \in Sides : t[e][p] = x  BY DEF Formed, Shape, Links
<1>2. x # NIL  BY NodesAssumption DEF Formed, Shape
<1>3. PICK e \in Sides : t[e][p] = x  BY <1>1
<1>4. t[e][p] # t[Other(e)][p] /\ t[e][p] # p  BY <1>1, <1>2, <1>3, Apart
<1>5. e = Side(t, x)  BY <1>3, <1>4 DEF Side, Other, Sides
<1> QED  BY <1>1, <1>3, <1>4, <1>5

(* A red parent p has a black parent g, and only one red child.            *)
RedPair(t, L, c, p, g, u, d) ==
    /\ p = t.parent[c] /\ g = t.parent[p] /\ d = Side(t, p) /\ p \in t.red /\ c # t.root
    /\ p \in L /\ p # t.root /\ p # c /\ g \in L /\ g \notin t.red /\ g # p /\ g # c
    /\ d \in Sides /\ t[d][g] = p /\ u = t[Other(d)][g] /\ u # p /\ u \in L \cup {NIL}
    /\ \A f \in Sides : t[f][p] \in t.red => t[f][p] = c

LEMMA RedParent ==
  ASSUME NEW t, NEW L, Formed(t, L), NEW h, NEW c, InsertBalance(t, L, h, c),
         c # t.root, NEW p, p = t.parent[c], p \in t.red,
         NEW g, g = t.parent[p], NEW u, u = Sibling(t, p), NEW d, d = Side(t, p)
  PROVE  RedPair(t, L, c, p, g, u, d)
<1>1. p \in L /\ p # c /\ Side(t, c) \in Sides /\ t[Side(t, c)][p] = c
  BY HangsOn DEF InsertBalance
<1>2. p # t.root  BY <1>1 DEF InsertBalance, Clean
<1>3. g \in L /\ g # p /\ d \in Sides /\ t[d][g] = p /\ t[Other(d)][g] # p  BY <1>1, <1>2, HangsOn
<1>4. u = t[Other(d)][g]  BY DEF Sibling
<1>5. Other(d) \in Sides  BY DEF Other, Sides
<1>6. u \in L \cup {NIL}  BY <1>3, <1>4, <1>5 DEF Formed, Shape, Links
<1>7. p # NIL /\ c # NIL  BY <1>1, NodesAssumption DEF Formed, Shape, InsertBalance
<1>8. g # c
  <2>1. t[Side(t, c)][t[d][g]] # g  BY <1>1, <1>3, <1>7, Apart
  <2> QED  BY <1>1, <1>3, <2>1
<1>9. g \notin t.red  BY <1>1, <1>3, <1>8 DEF InsertBalance, Clean
<1>10. \A f \in Sides : t[f][p] \in t.red => t[f][p] = c  BY <1>1 DEF InsertBalance, Clean
<1> QED  BY <1>1, <1>2, <1>3, <1>4, <1>6, <1>8, <1>9, <1>10 DEF RedPair

LEMMA RecoloursBalance ==
  ASSUME NEW t, NEW L, Formed(t, L), NEW h, NEW c, InsertBalance(t, L, h, c),
         NEW p, NEW g, NEW u, NEW d, RedPair(t, L, c, p, g, u, d), u \in t.red,
         NEW r, r = Paint(t, {g}, {p, u})
  PROVE  \E k : InsertBalance(r, L, k, g)
<1> DEFINE k == [x \in Places |-> IF x \in {p, u} THEN h[x] + 1 ELSE h[x]]
<1>1. /\ p \in L /\ p # t.root /\ p # c /\ g \in L /\ g \notin t.red /\ g # p /\ g # c
      /\ d \in Sides /\ t[d][g] = p /\ u = t[Other(d)][g] /\ u # p /\ u \in L \cup {NIL}
  BY DEF RedPair
<1>p. p = t.parent[c] /\ g = t.parent[p] /\ d = Side(t, p) /\ p \in t.red /\ c # t.root
  BY DEF RedPair
<1>2. t \in Trees /\ L \subseteq Nodes /\ NIL \notin Nodes  BY NodesAssumption DEF Formed, Shape
<1>3. u \in L /\ u # NIL /\ p # NIL  BY <1>1, <1>2 DEF Trees
<1>4. /\ r.root = t.root /\ r.red = (t.red \cup {g}) \ {p, u} /\ \A e \in Sides : r[e] = t[e]
  BY <1>1, <1>2 DEF Trees, Paint, Sides
<1>5. /\ h \in [Places -> Nat] /\ h[NIL] = 0
      /\ \A x \in L : \A e \in Sides : h[x] = h[t[e][x]] + Weight(t, x)
  BY <1>2 DEF InsertBalance, Even, EvenBut
<1>6. /\ k \in [Places -> Nat] /\ k[NIL] = 0
      /\ k[p] = h[p] + 1 /\ k[u] = h[u] + 1
      /\ \A x \in (L \cup {NIL}) \ {p, u} : k[x] = h[x]
  <2>1. \A x \in L \cup {NIL} : x \in Places  BY <1>2 DEF Places
  <2>2. k \in [Places -> Nat]  BY <1>5
  <2>3. k[p] = h[p] + 1 /\ k[u] = h[u] + 1  BY <1>1, <1>3, <2>1
  <2>4. \A x \in (L \cup {NIL}) \ {p, u} : k[x] = h[x]  BY <2>1
  <2>5. k[NIL] = 0  BY <1>3, <1>5, <2>4
  <2> QED  BY <2>2, <2>3, <2>4, <2>5
<1>7. \A x \in L : \A e \in Sides :
         t[e][x] \in L \cup {NIL} /\ (t[e][x] # NIL => t.parent[t[e][x]] = x)
  BY DEF Formed, Shape, Links
<1>8. Other(d) \in Sides /\ \A e \in Sides : e = d \/ e = Other(d)  BY <1>1 DEF Other, Sides
<1>9. t.parent[u] = g /\ u # g /\ u # t.root
  <2>1. t.parent[u] = g  BY <1>1, <1>3, <1>7, <1>8
  <2>2. u # g /\ u # t.root  BY <1>1, <1>3, <1>8, Apart
  <2> QED  BY <2>1, <2>2
<1>10. u # c
  BY <1>p, <1>1, <1>9
<1> HIDE DEF k
<1>11. ASSUME NEW x \in L, NEW e \in Sides
       PROVE  k[x] = k[r[e][x]] + Weight(r, x)
  <2>1. r[e][x] = t[e][x] /\ h[x] = h[t[e][x]] + Weight(t, x)  BY <1>4, <1>5
  <2>2. CASE x = g
    <3>1. Weight(r, x) = 0 /\ Weight(t, x) = 1  BY <1>1, <1>4, <1>9, <2>2 DEF Weight
    <3>2. t[e][x] \in {p, u}  BY <1>1, <1>8, <2>2
    <3>3. k[x] = h[x] /\ k[t[e][x]] = h[t[e][x]] + 1  BY <1>1, <1>6, <1>9, <2>2, <3>2
    <3>4. h[t[e][x]] \in Nat  BY <1>1, <1>2, <1>3, <1>5, <3>2 DEF Places
    <3> QED  BY <2>1, <3>1, <3>3, <3>4
  <2>3. CASE x # g
    <3>1. t[e][x] \notin {p, u} /\ t[e][x] \in L \cup {NIL}  BY <1>1, <1>3, <1>7, <1>9, <2>3
    <3>2. k[t[e][x]] = h[t[e][x]] /\ h[t[e][x]] \in Nat  BY <1>2, <1>5, <1>6, <3>1 DEF Places
    <3>3. CASE x \in {p, u}
      <4>1. Weight(r, x) = 1 /\ Weight(t, x) = 0 /\ k[x] = h[x] + 1
        BY <1>p, <1>4, <1>6, <3>3 DEF Weight
      <4> QED  BY <2>1, <3>2, <4>1
    <3>4. CASE x \notin {p, u}
      <4>1. Weight(r, x) = Weight(t, x) /\ k[x] = h[x]  BY <1>4, <1>6, <2>3, <3>4 DEF Weight
      <4> QED  BY <2>1, <3>2, <4>1
    <3> QED  BY <3>3, <3>4
  <2> QED  BY <2>2, <2>3
<1>12. Even(r, L, k, NIL, "left")  BY <1>2, <1>6, <1>11 DEF Even, EvenBut
<1>13. ASSUME NEW x \in L, NEW e \in Sides, x \in r.red, r[e][x] \in r.red
       PROVE  g \in {x, r[e][x]}
  <2>1. SUFFICES ASSUME x \in t.red, t[e][x] \in t.red PROVE FALSE  BY <1>4, <1>13
  <2>2. c \in {x, t[e][x]}  BY <2>1 DEF InsertBalance, Clean
  <2>3. t[e][x] = c  BY <2>1, <2>2 DEF InsertBalance
  <2>4. x = p  BY <1>p, <1>2, <1>7, <2>3 DEF InsertBalance
  <2> QED  BY <1>4, <1>13, <2>4
<1>14. r.root \in r.red => r.root = g  BY <1>p, <1>1, <1>4 DEF InsertBalance, Clean
<1>15. g \in r.red /\ \A e \in Sides : r[e][g] \notin r.red  BY <1>1, <1>4, <1>8, <1>9
<1> QED  BY <1>1, <1>12, <1>13, <1>14, <1>15 DEF InsertBalance, Clean

(* The first rotation, if c is an inner node: c and its parent change      *)
(* roles.                                                                  *)
LEMMA InnerTurnBalances ==
  ASSUME NEW t, NEW L, Formed(t, L), NEW h, NEW c, InsertBalance(t, L, h, c),
         NEW p, NEW g, NEW u, NEW d, RedPair(t, L, c, p, g, u, d), c = t[Other(d)][p],
         NEW r, r = Rotate(t, d, p)
  PROVE  /\ InsertBalance(r, L, h, p) /\ p # r.root
         /\ r.parent[p] = c /\ c \in r.red /\ r.parent[c] = g
         /\ r[d][g] = c /\ r[d][c] = p /\ r[Other(d)][g] = t[Other(d)][g]
<1> DEFINE o == Other(d)
<1>1. /\ p \in L /\ p # t.root /\ p # c /\ g \in L /\ g \notin t.red /\ g # p /\ g # c
      /\ d \in Sides /\ t[d][g] = p /\ u = t[Other(d)][g] /\ u # p /\ u \in L \cup {NIL}
      /\ \A f \in Sides : t[f][p] \in t.red => t[f][p] = c
  BY DEF RedPair
<1>p. p = t.parent[c] /\ g = t.parent[p] /\ d = Side(t, p) /\ p \in t.red /\ c # t.root
  BY DEF RedPair
<1>2. o \in Sides /\ o # d /\ \A f \in Sides : f = d \/ f = o  BY <1>1 DEF Other, Sides
<1>3. c # NIL /\ c \in L /\ NIL \notin L  BY NodesAssumption DEF Formed, Shape, InsertBalance
<1>0. Turned(t, L, d, p, c, r)  BY <1>1, <1>3, RotateMoves
<1>4. /\ r.red = t.red /\ r.root = t.root
      /\ r[d][p] = t[d][p] /\ r[o][p] = t[d][c] /\ r[d][c] = p /\ r[o][c] = t[o][c]
  BY <1>p, <1>1, <1>3, <1>0 DEF Turned
<1>5. /\ \A x \in L \ {p, c} : \A f \in Sides :
            r[f][x] = IF p # t.root /\ x = g /\ f = d THEN c ELSE t[f][x]
      /\ \A x \in L : r.parent[x] = IF x = c THEN g ELSE IF x = p THEN c
                                    ELSE IF x = t[d][c] THEN p ELSE t.parent[x]
  <2>1. /\ \A x \in L \ {p, c} : \A f \in Sides :
              r[f][x] = IF p # t.root /\ x = t.parent[p] /\ f = Side(t, p) THEN c ELSE t[f][x]
        /\ \A x \in L : r.parent[x] = IF x = c THEN t.parent[p] ELSE IF x = p THEN c
                                      ELSE IF x = t[d][c] THEN p ELSE t.parent[x]
    BY <1>0 DEF Turned
  <2>2. t.parent[p] = g /\ Side(t, p) = d  BY <1>p
  <2> QED  BY <2>1, <2>2
<1>6. /\ h \in [Places -> Nat] /\ h[NIL] = 0
      /\ \A x \in L : \A f \in Sides : h[x] = h[t[f][x]] + Weight(t, x)
  BY <1>3 DEF InsertBalance, Even, EvenBut
<1>7. Even(r, L, h, NIL, "left")
  <2>1. EvenBut(t, L, {p, c}, h, NIL, "left")  BY DEF InsertBalance, Even, EvenBut
  <2>2. Weight(t, p) = 0 /\ Weight(t, c) = 0  BY <1>p DEF Weight, InsertBalance
  <2>3. /\ h[p] = h[c] + Weight(t, p) /\ h[p] = h[t[d][p]] + Weight(t, p)
        /\ h[c] = h[t[d][c]] + Weight(t, c) /\ h[c] = h[t[o][c]] + Weight(t, c)
    BY <1>1, <1>2, <1>3, <1>6
  <2>4. h[p] \in Nat /\ h[c] \in Nat /\ h[t[d][p]] \in Nat /\ h[t[d][c]] \in Nat /\ h[t[o][c]] \in Nat
    <3>1. \A x \in L : x \in Places /\ t[d][x] \in Places /\ t[o][x] \in Places
      BY <1>1, <1>2 DEF Formed, Shape, Links, Places
    <3> QED  BY <1>1, <1>3, <1>6, <3>1
  <2>5. TurnsEven(t, d, p, c, h, h, NIL, "left")
    <3>1. h[c] = h[p] /\ c # NIL /\ p # NIL  BY <1>1, <1>3, <2>2, <2>3, <2>4
    <3>2. /\ h[p] = h[t[d][p]] + Weight(t, p) /\ h[p] = h[t[d][c]] + Weight(t, p)
          /\ h[c] = h[p] + Weight(t, c) /\ h[c] = h[t[o][c]] + Weight(t, c)
      BY <2>2, <2>3, <2>4
    <3> QED  BY <1>6, <3>1, <3>2 DEF TurnsEven
  <2> QED  BY <1>1, <1>3, <2>1, <2>5, RotateEven
<1>8. p \in r.red /\ \A f \in Sides : r[f][p] \notin r.red
  <2>1. t[d][p] # c
    <3>1. t[o][p] # t[Other(o)][p]  BY <1>1, <1>2, <1>3, Apart
    <3>2. Other(o) = d  BY <1>1 DEF Other, Sides
    <3> QED  BY <3>1, <3>2
  <2>2. t[d][p] \notin t.red  BY <1>1, <2>1
  <2>3. t[d][c] \notin t.red  BY <1>1 DEF InsertBalance
  <2> QED  BY <1>p, <1>2, <1>4, <2>2, <2>3
<1>9. ASSUME NEW x \in L, NEW f \in Sides, x \in r.red, r[f][x] \in r.red
      PROVE  p \in {x, r[f][x]}
  <2> SUFFICES ASSUME x # p, r[f][x] # p PROVE FALSE  OBVIOUS
  <2>1. CASE x = c
    <3>1. f = o  BY <1>2, <1>4, <2>1
    <3> QED  BY <1>2, <1>4, <1>9, <2>1, <3>1 DEF InsertBalance
  <2>2. CASE x # c
    <3>1. x # g  BY <1>1, <1>4, <1>9
    <3>2. r[f][x] = t[f][x]  BY <1>5, <2>2, <3>1
    <3>3. c \in {x, t[f][x]}  BY <1>4, <1>9, <3>2 DEF InsertBalance, Clean
    <3>4. t[f][x] = c  BY <2>2, <3>3
    <3>5. t.parent[c] = x  BY <1>3, <3>4 DEF Formed, Shape, Links
    <3> QED  BY <1>p, <2>2, <3>5
  <2> QED  BY <2>1, <2>2
<1>10. r.root \notin r.red
  <2>1. t.root \in t.red => t.root = c  BY DEF InsertBalance, Clean
  <2> QED  BY <1>p, <1>4, <2>1
<1>11. InsertBalance(r, L, h, p)  BY <1>1, <1>7, <1>8, <1>9, <1>10 DEF InsertBalance, Clean
<1>12. r.parent[p] = c /\ r.parent[c] = g  BY <1>1, <1>3, <1>5
<1>13. r[d][g] = c /\ r[o][g] = t[o][g]  BY <1>1, <1>2, <1>5
<1> QED  BY <1>1, <1>4, <1>11, <1>12, <1>13 DEF InsertBalance

(* The rotation that ends the loop.                                        *)
Settled(r, L, c, p, d) ==
    (\E k : InsertBalance(r, L, k, c)) /\ r[d][p] = c /\ p \notin r.red

LEMMA OuterTurnBalances ==
  ASSUME NEW t, NEW L, Formed(t, L), NEW h, NEW c, InsertBalance(t, L, h, c),
         NEW p, NEW g, NEW u, NEW d, RedPair(t, L, c, p, g, u, d), c = t[d][p],
         u \notin t.red,
         NEW r, r = Rotate(Paint(t, {g}, {p}), Other(d), g)
  PROVE  Settled(r, L, c, p, d)
<1> DEFINE o == Other(d)
           v == Paint(t, {g}, {p})
           k == [x \in Places |-> IF x = p THEN h[g] ELSE IF x = g THEN h[p] ELSE h[x]]
<1>1. /\ p \in L /\ p # t.root /\ p # c /\ g \in L /\ g \notin t.red /\ g # p /\ g # c
      /\ d \in Sides /\ t[d][g] = p /\ u = t[Other(d)][g] /\ u # p /\ u \in L \cup {NIL}
      /\ \A f \in Sides : t[f][p] \in t.red => t[f][p] = c
  BY DEF RedPair
<1>p. p = t.parent[c] /\ g = t.parent[p] /\ d = Side(t, p) /\ p \in t.red /\ c # t.root
  BY DEF RedPair
<1>2. o \in Sides /\ o # d /\ Other(o) = d /\ \A f \in Sides : f = d \/ f = o
  BY <1>1 DEF Other, Sides
<1>3. c # NIL /\ c \in L /\ NIL \notin L /\ p # NIL /\ t \in Trees /\ L \subseteq Nodes
  BY <1>1, NodesAssumption DEF Formed, Shape, InsertBalance
<1>4. /\ v.root = t.root /\ v.red = (t.red \cup {g}) \ {p} /\ \A f \in Sides : v[f] = t[f]
  BY <1>1, <1>3 DEF Trees, Paint, Sides
<1>5. Formed(v, L)
  <2>1. {g} \in SUBSET Nodes  BY <1>1, <1>3
  <2>2. PICK s, at, lo, hi : Shape(t, L, s, at, lo, hi)  BY DEF Formed
  <2>3. Shape(v, L, s, at, lo, hi)  BY <2>1, <2>2, PaintKeepsShape
  <2> QED  BY <2>3 DEF Formed
<1>6. r = Rotate(v, o, g) /\ p = v[Other(o)][g]  BY <1>1, <1>2, <1>4
<1> HIDE DEF v, k
<1>0. Turned(v, L, o, g, p, r)  BY <1>1, <1>2, <1>3, <1>5, <1>6, RotateMoves
<1>7. /\ r.red = v.red /\ r.root = IF g = v.root THEN p ELSE v.root
      /\ r[o][g] = v[o][g] /\ r[Other(o)][g] = v[o][p] /\ r[o][p] = g /\ r[Other(o)][p] = v[Other(o)][p]
  BY <1>1, <1>2, <1>3, <1>5, <1>6, <1>0 DEF Turned
<1>8. \A x \in L \ {g, p} : \A f \in Sides :
         r[f][x] = IF g # v.root /\ x = v.parent[g] /\ f = Side(v, g) THEN p ELSE v[f][x]
  BY <1>1, <1>2, <1>3, <1>5, <1>6, <1>0 DEF Turned
<1>9. /\ h \in [Places -> Nat] /\ h[NIL] = 0
      /\ \A x \in L : \A f \in Sides : h[x] = h[t[f][x]] + Weight(t, x)
  BY <1>3 DEF InsertBalance, Even, EvenBut
<1>10. /\ k \in [Places -> Nat] /\ k[p] = h[g] /\ k[g] = h[p]
       /\ \A x \in Places \ {g, p} : k[x] = h[x]
  <2>1. \A x \in L \cup {NIL} : x \in Places  BY <1>3 DEF Places
  <2>2. k \in [Places -> Nat]  BY <1>1, <1>9, <2>1 DEF k
  <2> QED  BY <1>1, <2>1, <2>2 DEF k
<1>11. /\ h[g] = h[p] + 1 /\ h[g] = h[u] + 1 /\ h[p] = h[c] /\ h[p] = h[t[o][p]]
       /\ h[p] \in Nat /\ h[g] \in Nat /\ h[u] \in Nat /\ h[c] \in Nat /\ h[t[o][p]] \in Nat
  <2>1. \A x \in L : x \in Places /\ t[o][x] \in Places
    BY <1>2 DEF Formed, Shape, Links, Places
  <2>2. h[p] \in Nat /\ h[g] \in Nat /\ h[u] \in Nat /\ h[c] \in Nat /\ h[t[o][p]] \in Nat
    BY <1>1, <1>3, <1>9, <2>1
  <2>3. Weight(t, g) = 1 /\ Weight(t, p) = 0  BY <1>p, <1>1 DEF Weight
  <2>4. h[g] = h[p] + Weight(t, g) /\ h[g] = h[u] + Weight(t, g)
    BY <1>1, <1>2, <1>9
  <2>5. h[p] = h[c] + Weight(t, p) /\ h[p] = h[t[o][p]] + Weight(t, p)
    BY <1>1, <1>2, <1>9
  <2> QED  BY <2>2, <2>3, <2>4, <2>5
<1>12. Even(r, L, k, NIL, "left")
  <2>1. EvenBut(v, L, {g, p}, h, NIL, "left")
    <3>1. ASSUME NEW x \in L \ {g, p}, NEW f \in Sides
          PROVE  v[f] = t[f] /\ Weight(v, x) = Weight(t, x)
      BY <1>4 DEF Weight
    <3> QED  BY <1>3, <1>9, <3>1 DEF EvenBut
  <2>2. Weight(v, g) = 0 /\ Weight(v, p) = 1  BY <1>1, <1>4 DEF Weight
  <2>3. v[o][g] = u /\ v[o][p] = t[o][p] /\ v[Other(o)][p] = c  BY <1>1, <1>2, <1>4
  <2>4. TurnsEven(v, o, g, p, h, k, NIL, "left")
    <3>1. NIL # p /\ NIL # g  BY <1>1, <1>3
    <3>2. k[p] = h[g] /\ k[g] = h[p]  BY <1>10
    <3>3. k[g] = h[v[o][g]] + Weight(v, g) /\ k[g] = h[v[o][p]] + Weight(v, g)
      BY <1>11, <2>2, <2>3, <3>2
    <3>4. k[p] = k[g] + Weight(v, p) /\ k[p] = h[v[Other(o)][p]] + Weight(v, p)
      BY <1>11, <2>2, <2>3, <3>2
    <3> QED  BY <1>10, <3>1, <3>2, <3>3, <3>4 DEF TurnsEven
  <2> QED  BY <1>1, <1>2, <1>3, <1>5, <1>6, <2>1, <2>4, RotateEven
<1>13. c \in r.red /\ \A f \in Sides : r[f][c] \notin r.red
  <2>1. c \in t.red /\ \A f \in Sides : t[f][c] \notin t.red  BY DEF InsertBalance
  <2>2. Weight(t, c) = 0  BY <2>1 DEF Weight
  <2>3. ASSUME NEW f \in Sides PROVE t[f][c] # g
    <3> SUFFICES ASSUME t[f][c] = g PROVE FALSE  OBVIOUS
    <3>1. h[c] = h[t[f][c]] + Weight(t, c)  BY <1>3, <1>9
    <3>2. h[c] = h[g] + 0  BY <2>2, <3>1
    <3> QED  BY <1>11, <3>2
  <2>4. c \in r.red  BY <1>1, <1>4, <1>7, <2>1
  <2>5. ASSUME NEW f \in Sides PROVE r[f][c] \notin r.red
    <3>1. r[f][c] = p \/ r[f][c] = t[f][c]
      <4>1. c \in L \ {g, p}  BY <1>1, <1>3
      <4>2. r[f][c] = p \/ r[f][c] = v[f][c]  BY <1>8, <4>1
      <4> QED  BY <1>4, <4>2
    <3> QED  BY <1>4, <1>7, <2>1, <2>3, <3>1
  <2> QED  BY <2>4, <2>5
<1>14. ASSUME NEW x \in L, NEW f \in Sides, x \in r.red, r[f][x] \in r.red
       PROVE  c \in {x, r[f][x]}
  <2>1. CASE x = g
    <3>1. r[o][g] = u /\ r[d][g] = t[o][p]
      <4>1. v[o] = t[o]  BY <1>2, <1>4
      <4> QED  BY <1>1, <1>2, <1>7, <4>1
    <3>2. u # g /\ t[o][p] # g  BY <1>11
    <3>3. t[o][p] \notin t.red
      <4>1. t[d][p] # t[Other(d)][p]  BY <1>1, <1>3, Apart
      <4> QED  BY <1>1, <1>2, <4>1
    <3> QED  BY <1>2, <1>4, <1>7, <1>14, <2>1, <3>1, <3>2, <3>3
  <2>2. CASE x # g
    <3>1. x # p /\ r[f][x] # p  BY <1>4, <1>7, <1>14
    <3>2. r[f][x] = t[f][x]  BY <1>4, <1>8, <2>2, <3>1
    <3>3. t[f][x] # g
      <4> SUFFICES ASSUME t[f][x] = g PROVE FALSE  OBVIOUS
      <4>1. g # NIL  BY <1>1, <1>3
      <4>2. g # t.root  BY <4>1, Apart
      <4>3. v.parent = t.parent /\ t.parent[g] = x
        <5>1. v.parent = t.parent  BY <1>1, <1>3 DEF v, Trees, Paint
        <5>2. t.parent[g] = x  BY <4>1 DEF Formed, Shape, Links
        <5> QED  BY <5>1, <5>2
      <4>4. \A e \in Sides : v[e][x] = g <=> e = Side(v, g)
        BY <1>0, <1>4, <4>2, <4>3 DEF Turned
      <4> QED  
        <5>1. v[f][x] = g  BY <1>4
        <5>2. x = v.parent[g] /\ f = Side(v, g) /\ g # v.root  BY <1>4, <4>2, <4>3, <4>4, <5>1
        <5>3. r[f][x] = p  BY <1>8, <2>2, <3>1, <5>2
        <5> QED  BY <3>1, <5>3
    <3>4. x \in t.red /\ t[f][x] \in t.red  BY <1>4, <1>7, <1>14, <2>2, <3>1, <3>2, <3>3
    <3> QED  BY <3>2, <3>4 DEF InsertBalance, Clean
  <2> QED  BY <2>1, <2>2
<1>15. r.root \in r.red => r.root = c  BY <1>4, <1>7 DEF InsertBalance, Clean
<1>16. InsertBalance(r, L, k, c)  BY <1>3, <1>12, <1>13, <1>14, <1>15 DEF InsertBalance, Clean
<1>17. r[d][p] = c /\ p \notin r.red  BY <1>1, <1>2, <1>4, <1>7
<1> QED  BY <1>16, <1>17 DEF Settled

-----------------------------------------------------------------------------
(* What must hold where a rotation is made for no red node to be above     *)
(* another.                                                                *)
TurnsClean(t, L, d, n, up) ==
    /\ \A x \in L \ {n, up} : \A f \in Sides : x \in t.red =>
          (t[f][x] # n => t[f][x] \notin t.red) /\ (t[f][x] = n => up \notin t.red)
    /\ n \in t.red => t[d][n] \notin t.red /\ t[d][up] \notin t.red
    /\ up \in t.red => n \notin t.red /\ t[Other(d)][up] \notin t.red
    /\ t.root # n => t.root \notin t.red
    /\ t.root = n => up \notin t.red

LEMMA RotateClean ==
  ASSUME NEW t, NEW L, Formed(t, L),
         NEW d \in Sides, NEW n \in L, NEW up, up = t[Other(d)][n], up # NIL,
         NEW r, r = Rotate(t, d, n), TurnsClean(t, L, d, n, up)
  PROVE  Clean(r, L, NULL)
<1> DEFINE o == Other(d)
           p == t.parent[n]
           q == Side(t, n)
<1>1. Turned(t, L, d, n, up, r)  BY RotateMoves
<1>2. /\ r.red = t.red /\ r.root = IF n = t.root THEN up ELSE t.root
      /\ r[d][n] = t[d][n] /\ r[o][n] = t[d][up] /\ r[d][up] = n /\ r[o][up] = t[o][up]
  BY <1>1 DEF Turned
<1>3. /\ n # t.root => \A e \in Sides : t[e][p] = n <=> e = q
      /\ \A x \in L \ {n, up} : \A e \in Sides :
            r[e][x] = IF n # t.root /\ x = p /\ e = q THEN up ELSE t[e][x]
  BY <1>1 DEF Turned
<1>4. \A f \in Sides : f = d \/ f = o  BY DEF Other, Sides
<1>5. n # NIL  BY NodesAssumption DEF Formed, Shape
<1> HIDE DEF o, p, q
<1>6. ASSUME NEW x \in L, NEW f \in Sides, x \in r.red, r[f][x] \in r.red
      PROVE  FALSE
  <2>1. CASE x = n
    BY <1>2, <1>4, <1>6, <2>1 DEF TurnsClean
  <2>2. CASE x = up
    BY <1>2, <1>4, <1>6, <2>2 DEF TurnsClean, o
  <2>3. CASE x \notin {n, up} /\ t[f][x] = n
    <3>1. n # t.root  BY <1>5, <2>3, Apart
    <3>2. p = x  BY <1>5, <2>3 DEF Formed, Shape, Links, p
    <3>3. r[f][x] = up  BY <1>3, <2>3, <3>1, <3>2
    <3> QED  BY <1>2, <1>6, <2>3, <3>3 DEF TurnsClean
  <2>4. CASE x \notin {n, up} /\ t[f][x] # n
    <3>1. r[f][x] = t[f][x]  BY <1>3, <2>4
    <3> QED  BY <1>2, <1>6, <2>4, <3>1 DEF TurnsClean
  <2> QED  BY <2>1, <2>2, <2>3, <2>4
<1>7. r.root \notin r.red  BY <1>2 DEF TurnsClean
<1> QED  BY <1>6, <1>7 DEF Clean

(* What a rebalancing deletion works on: the branch of c is short.         *)
DeleteBalance(t, L, h, c) ==
    /\ c \in L \cup {NIL} /\ Clean(t, L, c)
    /\ c = t.root => Even(t, L, h, NIL, "left")
    /\ c # t.root => \E d \in Sides : /\ t.parent[c] \in L /\ t[d][t.parent[c]] = c
                                     /\ Even(t, L, h, t.parent[c], d)

(* A short branch that cannot be made longer by painting c black: it has a *)
(* parent and a sibling, and elsewhere the tree is a red-black tree.       *)
Short(t, L, h, c, p, w, d) ==
    /\ p \in L /\ d \in Sides /\ t[d][p] = c /\ t.parent[c] = p
    /\ w = t[Other(d)][p] /\ w \in L /\ w # c /\ w # p /\ w # t.root
    /\ c \in L \cup {NIL} /\ c \notin t.red /\ c # p
    /\ Even(t, L, h, p, d) /\ Clean(t, L, NULL)

LEMMA ShortSide ==
  ASSUME NEW t, NEW L, Formed(t, L), NEW h, NEW c, DeleteBalance(t, L, h, c),
         c # t.root, c \notin t.red, NEW p, p = t.parent[c], NEW d, d = Side(t, c),
         NEW w, w = Sibling(t, c)
  PROVE  Short(t, L, h, c, p, w, d)
<1>1. PICK e \in Sides : p \in L /\ t[e][p] = c /\ Even(t, L, h, p, e)
  BY DEF DeleteBalance
<1>2. L \subseteq Nodes /\ NIL \notin L /\ t.red \subseteq Nodes /\ NULL \notin Nodes
  BY NodesAssumption DEF Formed, Shape, Trees
<1>3. Other(e) \in Sides /\ Other(e) # e  BY DEF Other, Sides
<1>4. \A x \in L : \A f \in Sides : t[f][x] \in L \cup {NIL}
  BY DEF Formed, Shape, Links
<1>5. h[p] = h[c] + Weight(t, p) + 1 /\ h[p] = h[t[Other(e)][p]] + Weight(t, p)
  BY <1>1, <1>2, <1>3 DEF Even, EvenBut
<1>6. /\ h \in [Places -> Nat] /\ h[NIL] = 0
      /\ h[c] \in Nat /\ h[t[Other(e)][p]] \in Nat /\ Weight(t, p) \in Nat
  <2>1. h \in [Places -> Nat] /\ h[NIL] = 0  BY <1>1 DEF Even, EvenBut
  <2>2. c \in Places /\ t[Other(e)][p] \in Places  BY <1>1, <1>2, <1>3, <1>4 DEF Places
  <2> QED  BY <2>1, <2>2 DEF Weight
<1>7. h[t[Other(e)][p]] = h[c] + 1  BY <1>5, <1>6
<1>8. t[Other(e)][p] # NIL /\ t[Other(e)][p] \in L  BY <1>1, <1>3, <1>4, <1>6, <1>7
<1>9. t[Other(e)][p] # c  BY <1>6, <1>7
<1>10. d = e
  <2>1. t.left[p] = c <=> e = "left"  BY <1>1, <1>9 DEF Other, Sides
  <2> QED  BY <2>1 DEF Side, Sides
<1>11. w = t[Other(e)][p]  BY <1>10 DEF Sibling
<1>12. w # p /\ w # t.root  BY <1>1, <1>3, <1>8, <1>11, Apart
<1>13. c # p
  <2>1. CASE c = NIL  BY <1>1, <1>2, <2>1
  <2>2. CASE c # NIL  BY <1>1, <2>2, Apart
  <2> QED  BY <2>1, <2>2
<1>14. Clean(t, L, NULL)
  <2>1. ASSUME NEW x \in L, NEW f \in Sides, x \in t.red, t[f][x] \in t.red PROVE FALSE
    BY <2>1 DEF DeleteBalance, Clean
  <2>2. t.root \notin t.red  BY DEF DeleteBalance, Clean
  <2> QED  BY <2>1, <2>2 DEF Clean
<1>15. c \in L \cup {NIL}  BY DEF DeleteBalance
<1> QED  BY <1>1, <1>8, <1>9, <1>10, <1>11, <1>12, <1>13, <1>14, <1>15 DEF Short

(* What Short says of the numbers of black nodes.                          *)
LEMMA ShortHeights ==
  ASSUME NEW t, NEW L, Formed(t, L), NEW h, NEW c, NEW p, NEW w, NEW d,
         Short(t, L, h, c, p, w, d)
  PROVE  /\ h \in [Places -> Nat] /\ h[NIL] = 0 /\ NIL \notin L /\ L \subseteq Places
         /\ \A x \in L : \A f \in Sides : x # p \/ f # d => h[x] = h[t[f][x]] + Weight(t, x)
         /\ \A x \in L : \A f \in Sides : /\ t[f][x] \in L \cup {NIL}
                                          /\ t[f][x] # NIL => t.parent[t[f][x]] = x
         /\ \A x \in L : \A f \in Sides : t[f][x] \in Places /\ h[t[f][x]] \in Nat
         /\ \A x \in L : h[x] \in Nat
         /\ h[c] \in Nat /\ h[p] = h[c] + 1 + Weight(t, p) /\ h[w] = h[c] + 1
<1>1. /\ h \in [Places -> Nat] /\ h[NIL] = 0
      /\ \A x \in L : \A f \in Sides : x # p \/ f # d => h[x] = h[t[f][x]] + Weight(t, x)
  BY DEF Short, Even, EvenBut
<1>2. NIL \notin L /\ L \subseteq Places  BY NodesAssumption DEF Formed, Shape, Places
<1>3. \A x \in L : \A f \in Sides : /\ t[f][x] \in L \cup {NIL}
                                    /\ t[f][x] # NIL => t.parent[t[f][x]] = x
  BY DEF Formed, Shape, Links
<1>4. \A x \in L : \A f \in Sides : t[f][x] \in Places /\ h[t[f][x]] \in Nat
  <2> SUFFICES ASSUME NEW x \in L, NEW f \in Sides PROVE t[f][x] \in Places /\ h[t[f][x]] \in Nat
    OBVIOUS
  <2>1. t[f][x] \in L \cup {NIL}  BY <1>3
  <2>2. t[f][x] \in Places  BY <1>2, <2>1 DEF Places
  <2> QED  BY <1>1, <2>2
<1>5. \A x \in L : h[x] \in Nat  BY <1>1, <1>2
<1>6. p \in L /\ d \in Sides /\ t[d][p] = c /\ w = t[Other(d)][p]  BY DEF Short
<1>7. h[p] = h[c] + Weight(t, p) + 1  BY <1>6 DEF Short, Even, EvenBut
<1>8. Other(d) \in Sides /\ Other(d) # d  BY <1>6 DEF Other, Sides
<1>9. h[p] = h[w] + Weight(t, p)  BY <1>1, <1>6, <1>8
<1>10. h[c] \in Nat /\ h[w] \in Nat /\ Weight(t, p) \in Nat  BY <1>4, <1>6, <1>8 DEF Weight
<1>11. h[p] = h[c] + 1 + Weight(t, p) /\ h[w] = h[c] + 1  BY <1>7, <1>9, <1>10
<1> QED  BY <1>1, <1>2, <1>3, <1>4, <1>5, <1>10, <1>11

(* A red sibling comes up, and its inner child is the new sibling.         *)
LEMMA SiblingTurns ==
  ASSUME NEW t, NEW L, Formed(t, L), NEW h, NEW c, NEW p, NEW w, NEW d,
         Short(t, L, h, c, p, w, d), w \in t.red,
         NEW v, v = Paint(t, {p}, {w}), NEW r, r = Rotate(v, d, p)
  PROVE  /\ \E k : Short(r, L, k, c, p, t[d][w], d)
         /\ p \in r.red /\ t[d][w] \notin r.red /\ w \in L /\ {t.left[w], t.right[w]} \subseteq L
<1> DEFINE o == Other(d)
           z == t[d][w]
           k == [x \in Places |-> IF x = w THEN h[p] ELSE IF x = p THEN h[w] ELSE h[x]]
<1>1. /\ p \in L /\ d \in Sides /\ t[d][p] = c /\ t.parent[c] = p
      /\ w = t[o][p] /\ w \in L /\ w # c /\ w # p /\ w # t.root
      /\ c \in L \cup {NIL} /\ c \notin t.red /\ c # p
  BY DEF Short
<1>2. /\ h \in [Places -> Nat] /\ h[NIL] = 0 /\ NIL \notin L /\ L \subseteq Places
      /\ \A x \in L : \A f \in Sides : x # p \/ f # d => h[x] = h[t[f][x]] + Weight(t, x)
      /\ \A x \in L : \A f \in Sides : /\ t[f][x] \in L \cup {NIL}
                                       /\ t[f][x] # NIL => t.parent[t[f][x]] = x
      /\ \A x \in L : \A f \in Sides : t[f][x] \in Places /\ h[t[f][x]] \in Nat
      /\ \A x \in L : h[x] \in Nat
      /\ h[c] \in Nat /\ h[p] = h[c] + 1 + Weight(t, p) /\ h[w] = h[c] + 1
  BY ShortHeights
<1>3. o \in Sides /\ o # d /\ \A f \in Sides : f = d \/ f = o  BY <1>1 DEF Other, Sides
<1>4. \A x \in L : \A f \in Sides : ~(x \in t.red /\ t[f][x] \in t.red)
  BY NodesAssumption DEF Short, Clean, Formed, Shape, Trees
<1>5. p \notin t.red /\ Weight(t, p) = 1 /\ Weight(t, w) = 0
  BY <1>1, <1>3, <1>4 DEF Weight
<1>6. /\ z \in L /\ z \notin t.red /\ h[z] = h[c] + 1 /\ t[o][w] \in L /\ t[o][w] \notin t.red
      /\ h[t[o][w]] = h[c] + 1
  <2>1. h[w] = h[z] + Weight(t, w) /\ h[w] = h[t[o][w]] + Weight(t, w)  BY <1>1, <1>2, <1>3
  <2>2. h[z] = h[c] + 1 /\ h[t[o][w]] = h[c] + 1  BY <1>1, <1>2, <1>3, <1>5, <2>1
  <2>3. z # NIL /\ t[o][w] # NIL  BY <1>2, <2>2
  <2>4. z \in L /\ t[o][w] \in L
    <3>1. z \in L \cup {NIL} /\ t[o][w] \in L \cup {NIL}  BY <1>1, <1>2, <1>3
    <3> QED  BY <2>3, <3>1
  <2>5. z \notin t.red /\ t[o][w] \notin t.red  BY <1>1, <1>3, <1>4
  <2> QED  BY <2>2, <2>4, <2>5
<1>7. t \in Trees /\ L \subseteq Nodes  BY DEF Formed, Shape
<1>8. /\ v.root = t.root /\ v.red = (t.red \cup {p}) \ {w} /\ v.parent = t.parent
      /\ \A f \in Sides : v[f] = t[f]
  BY <1>1, <1>7 DEF Trees, Paint, Sides
<1>9. Formed(v, L)
  <2>1. {p} \in SUBSET Nodes  BY <1>1, <1>7
  <2>2. PICK s, at, lo, hi : Shape(t, L, s, at, lo, hi)  BY DEF Formed
  <2>3. Shape(v, L, s, at, lo, hi)  BY <2>1, <2>2, PaintKeepsShape
  <2> QED  BY <2>3 DEF Formed
<1>10. w = v[Other(d)][p] /\ w # NIL  BY <1>1, <1>2, <1>3, <1>8
<1>11. Turned(v, L, d, p, w, r)  BY <1>1, <1>9, <1>10, RotateMoves
<1> HIDE DEF k
<1>12. /\ k \in [Places -> Nat] /\ k[w] = h[p] /\ k[p] = h[w]
       /\ \A x \in Places \ {p, w} : k[x] = h[x]
  <2>1. p \in Places /\ w \in Places /\ h[p] \in Nat /\ h[w] \in Nat  BY <1>1, <1>2
  <2>2. k \in [Places -> Nat]  BY <1>2, <2>1 DEF k
  <2> QED  BY <1>1, <2>1, <2>2 DEF k
<1>13. Weight(v, p) = 0 /\ Weight(v, w) = 1 /\ \A x \in L \ {p, w} : Weight(v, x) = Weight(t, x)
  BY <1>1, <1>8 DEF Weight
<1>14. Even(r, L, k, p, d)
  <2>1. EvenBut(v, L, {p, w}, h, p, d)
    <3>1. ASSUME NEW x \in L \ {p, w}, NEW f \in Sides
          PROVE  h[x] = h[v[f][x]] + Weight(v, x)
      BY <1>2, <1>8, <1>13
    <3> QED  BY <1>2, <3>1 DEF EvenBut
  <2>2. v[d][p] = c /\ v[d][w] = z /\ v[o][w] = t[o][w]  BY <1>1, <1>3, <1>8
  <2>3. TurnsEven(v, d, p, w, h, k, p, d)
    <3>1. k[w] = h[p] /\ p # w /\ d # o  BY <1>1, <1>3, <1>12
    <3>0. h[p] = h[c] + 2 /\ h[w] = h[c] + 1 /\ h[c] \in Nat  BY <1>2, <1>5
    <3>a. k[p] = h[c] + 1 /\ k[w] = h[c] + 2  BY <1>12, <3>0
    <3>b. h[z] = h[c] + 1 /\ h[t[o][w]] = h[c] + 1  BY <1>6
    <3>c. Weight(v, p) = 0 /\ Weight(v, w) = 1  BY <1>13
    <3>2. k[p] = h[c] + Weight(v, p) + 1 /\ k[p] = h[z] + Weight(v, p)
      BY <3>0, <3>a, <3>b, <3>c
    <3>3. k[w] = k[p] + Weight(v, w) /\ k[w] = h[t[o][w]] + Weight(v, w)
      BY <3>0, <3>a, <3>b, <3>c
    <3> QED  BY <1>12, <2>2, <3>1, <3>2, <3>3 DEF TurnsEven
  <2> QED  BY <1>1, <1>9, <1>10, <2>1, <2>3, RotateEven
<1>15. Clean(r, L, NULL)
  <2>1. TurnsClean(v, L, d, p, w)
    <3>1. ASSUME NEW x \in L \ {p, w}, NEW f \in Sides, x \in v.red, v[f][x] # p
          PROVE  v[f][x] \notin v.red
      BY <1>4, <1>8, <3>1
    <3>2. w \notin v.red /\ v[d][p] \notin v.red /\ v[d][w] \notin v.red
      <4>1. v[d] = t[d]  BY <1>1, <1>8
      <4>2. z # p  BY <1>5, <1>6, <1>2
      <4> QED  BY <1>1, <1>6, <1>8, <4>1, <4>2
    <3>3. v.root # p => v.root \notin v.red
      <4>1. t.root \notin t.red
        BY <1>7, NodesAssumption DEF Short, Clean, Trees, Places
      <4> QED  BY <1>8, <4>1
    <3> QED  BY <3>1, <3>2, <3>3 DEF TurnsClean
  <2> QED  BY <1>1, <1>9, <1>10, <2>1, RotateClean
<1>16. r[d][p] = c /\ r[o][p] = z /\ r.red = v.red /\ r.root = IF p = t.root THEN w ELSE t.root
  <2>1. /\ r[d][p] = v[d][p] /\ r[o][p] = v[d][w] /\ r.red = v.red
        /\ r.root = IF p = v.root THEN w ELSE v.root
    BY <1>11 DEF Turned
  <2>2. v[d] = t[d] /\ v.root = t.root  BY <1>1, <1>8
  <2> QED  BY <1>1, <2>1, <2>2
<1>17. r.parent[c] = p
  <2>1. c # z
    <3>1. t.parent[z] = w  BY <1>1, <1>2, <1>6
    <3> QED  BY <1>1, <3>1
  <2>0. /\ r.parent[NIL] = v.parent[NIL]
        /\ \A x \in L : r.parent[x] = IF x = w THEN v.parent[p] ELSE IF x = p THEN w
                                      ELSE IF x = v[d][w] THEN p ELSE v.parent[x]
    BY <1>11 DEF Turned
  <2>2. CASE c = NIL  BY <1>1, <1>8, <2>0, <2>2
  <2>3. CASE c # NIL
    <3>1. c \in L  BY <1>1, <2>3
    <3>2. v[d][w] = z  BY <1>1, <1>8
    <3>3. r.parent[c] = v.parent[c]  BY <1>1, <2>0, <2>1, <3>1, <3>2
    <3> QED  BY <1>1, <1>8, <3>3
  <2> QED  BY <2>2, <2>3
<1>18. z # c /\ z # p /\ z # r.root
  <2>1. z # c
    <3>1. t.parent[z] = w  BY <1>1, <1>2, <1>6
    <3> QED  BY <1>1, <3>1
  <2>2. z # w /\ z # t.root
    <3>1. z # NIL  BY <1>2, <1>6
    <3> QED  BY <1>1, <3>1, Apart
  <2>3. t[d][t[o][p]] # p  BY <1>1, <1>2, <1>3, Apart
  <2> QED  BY <1>1, <1>16, <2>1, <2>2, <2>3
<1>19. Short(r, L, k, c, p, z, d)
  <2>1. c \notin r.red  BY <1>1, <1>8, <1>16
  <2> QED  BY <1>1, <1>6, <1>14, <1>15, <1>16, <1>17, <1>18, <2>1 DEF Short
<1>20. p \in r.red /\ z \notin r.red  BY <1>1, <1>6, <1>8, <1>16, <1>18
<1>21. {t.left[w], t.right[w]} \subseteq L  BY <1>3, <1>6 DEF Sides
<1> QED  BY <1>1, <1>19, <1>20, <1>21

(* No red child: the sibling turns red, and the parent's branch is short.  *)
LEMMA RecolourShort ==
  ASSUME NEW t, NEW L, Formed(t, L), NEW h, NEW c, NEW p, NEW w, NEW d,
         Short(t, L, h, c, p, w, d), w \notin t.red, \A f \in Sides : t[f][w] \notin t.red,
         NEW r, r = Paint(t, {w}, {})
  PROVE  \E k : DeleteBalance(r, L, k, p)
<1> DEFINE o == Other(d)
           k == [x \in Places |-> IF x = w THEN h[c]
                                  ELSE IF x = p THEN h[c] + Weight(t, p) ELSE h[x]]
<1>1. /\ p \in L /\ d \in Sides /\ t[d][p] = c /\ t.parent[c] = p
      /\ w = t[o][p] /\ w \in L /\ w # c /\ w # p /\ w # t.root
      /\ c \in L \cup {NIL} /\ c # p
  BY DEF Short
<1>2. /\ h \in [Places -> Nat] /\ h[NIL] = 0 /\ NIL \notin L /\ L \subseteq Places
      /\ \A x \in L : \A f \in Sides : x # p \/ f # d => h[x] = h[t[f][x]] + Weight(t, x)
      /\ \A x \in L : \A f \in Sides : /\ t[f][x] \in L \cup {NIL}
                                       /\ t[f][x] # NIL => t.parent[t[f][x]] = x
      /\ \A x \in L : \A f \in Sides : t[f][x] \in Places /\ h[t[f][x]] \in Nat
      /\ \A x \in L : h[x] \in Nat
      /\ h[c] \in Nat /\ h[p] = h[c] + 1 + Weight(t, p) /\ h[w] = h[c] + 1
  BY ShortHeights
<1>3. o \in Sides /\ o # d /\ \A f \in Sides : f = d \/ f = o  BY <1>1 DEF Other, Sides
<1>4. t \in Trees /\ L \subseteq Nodes  BY DEF Formed, Shape
<1>5. /\ r.root = t.root /\ r.red = t.red \cup {w} /\ r.parent = t.parent
      /\ \A f \in Sides : r[f] = t[f]
  BY <1>1, <1>4 DEF Trees, Paint, Sides
<1>6. /\ k \in [Places -> Nat] /\ k[w] = h[c] /\ k[p] = h[c] + Weight(t, p)
      /\ \A x \in Places \ {p, w} : k[x] = h[x]
  <2>1. p \in Places /\ w \in Places /\ Weight(t, p) \in Nat  BY <1>1, <1>2 DEF Weight
  <2>2. k \in [Places -> Nat]  BY <1>2, <2>1
  <2> QED  BY <1>1, <2>1, <2>2
<1>7. k[NIL] = 0 /\ k[c] = h[c]
  <2>1. NIL \in Places \ {p, w} /\ c \in Places \ {p, w}  BY <1>1, <1>2 DEF Places
  <2> QED  BY <1>2, <1>6, <2>1
<1> HIDE DEF k
<1>8. Weight(r, w) = 0 /\ Weight(t, w) = 1 /\ \A x \in L \ {w} : Weight(r, x) = Weight(t, x)
  BY <1>5 DEF Weight
<1>9. ASSUME NEW x \in L, NEW f \in Sides
      PROVE  /\ t[f][x] # p => k[x] = k[r[f][x]] + Weight(r, x)
             /\ t[f][x] = p => k[x] = k[r[f][x]] + Weight(r, x) + 1
  <2>0. r[f][x] = t[f][x]  BY <1>5
  <2>1. CASE x = p /\ f = d
    <3>1. k[x] = k[t[f][x]] + Weight(r, x)  BY <1>1, <1>6, <1>7, <1>8, <2>1
    <3> QED  BY <1>1, <2>0, <2>1, <3>1
  <2>2. CASE x = p /\ f = o
    <3>1. k[x] = k[t[f][x]] + Weight(r, x)  BY <1>1, <1>6, <1>8, <2>2
    <3> QED  BY <1>1, <2>0, <2>2, <3>1
  <2>3. CASE x = w
    <3>1. t[f][w] # w /\ t[f][w] # p
      <4>1. t[f][t[o][p]] # p /\ t[f][t[o][p]] # t[o][p]  BY <1>1, <1>2, <1>3, Apart
      <4> QED  BY <1>1, <4>1
    <3>2. k[t[f][w]] = h[t[f][w]] /\ h[t[f][w]] \in Nat  BY <1>1, <1>2, <1>6, <3>1
    <3>3. h[w] = h[t[f][w]] + Weight(t, w)  BY <1>1, <1>2
    <3>4. k[w] = k[t[f][w]] + Weight(r, w)  BY <1>2, <1>6, <1>8, <3>2, <3>3
    <3> QED  BY <2>0, <2>3, <3>1, <3>4
  <2>4. CASE x \notin {p, w}
    <3>1. h[x] = h[t[f][x]] + Weight(t, x) /\ k[x] = h[x] /\ h[t[f][x]] \in Nat /\ t[f][x] \in Places
      BY <1>2, <1>6, <2>4
    <3>2. t[f][x] # w
      <4>1. t.parent[w] = p  BY <1>1, <1>2, <1>3
      <4>2. w # NIL  BY <1>1, <1>2
      <4> QED  BY <1>2, <2>4, <4>1, <4>2
    <3>3. Weight(r, x) = Weight(t, x) /\ Weight(t, x) \in Nat  BY <1>8, <2>4 DEF Weight
    <3>4. CASE t[f][x] = p
      <4>0. Weight(t, p) \in Nat  BY DEF Weight
      <4>1. h[p] = k[p] + 1 /\ k[p] \in Nat  BY <1>1, <1>2, <1>6, <4>0
      <4> QED  BY <2>0, <3>1, <3>3, <3>4, <4>1
    <3>5. CASE t[f][x] # p
      <4>1. k[t[f][x]] = h[t[f][x]]  BY <1>6, <3>1, <3>2, <3>5
      <4> QED  BY <2>0, <3>1, <3>3, <3>5, <4>1
    <3> QED  BY <3>4, <3>5
  <2> QED  BY <1>3, <2>1, <2>2, <2>3, <2>4
<1>10. Clean(r, L, p)
  <2>1. ASSUME NEW x \in L, NEW f \in Sides, x \in r.red, r[f][x] \in r.red
        PROVE  p \in {x, r[f][x]}
    <3>0. r[f][x] = t[f][x]  BY <1>5
    <3>1. CASE x = w
      <4>1. t[f][t[o][p]] # t[o][p]  BY <1>1, <1>2, <1>3, Apart
      <4> QED  BY <1>1, <1>5, <2>1, <3>0, <3>1, <4>1
    <3>2. CASE t[f][x] = w
      <4>1. t.parent[w] = p /\ w # NIL  BY <1>1, <1>2, <1>3
      <4> QED  BY <1>2, <3>2, <4>1
    <3>3. CASE x # w /\ t[f][x] # w
      <4>1. x \in t.red /\ t[f][x] \in t.red  BY <1>5, <2>1, <3>0, <3>3
      <4>2. NULL \in {x, t[f][x]}  BY <4>1 DEF Short, Clean
      <4> QED  BY <1>4, <4>1, <4>2, NodesAssumption DEF Trees
    <3> QED  BY <3>1, <3>2, <3>3
  <2>2. r.root \notin r.red
    <3>1. t.root \notin t.red  BY <1>4, NodesAssumption DEF Short, Clean, Trees
    <3> QED  BY <1>1, <1>5, <3>1
  <2> QED  BY <2>1, <2>2 DEF Clean
<1>11. CASE p = t.root
  <2>1. ASSUME NEW x \in L, NEW f \in Sides PROVE t[f][x] # p
    <3>1. t[f][x] # NIL => t[f][x] # t.root  BY Apart
    <3> QED  BY <1>1, <1>2, <1>11, <3>1
  <2>2. Even(r, L, k, NIL, "left")  BY <1>2, <1>6, <1>7, <1>9, <2>1 DEF Even, EvenBut
  <2> QED  BY <1>1, <1>5, <1>10, <1>11, <2>2 DEF DeleteBalance
<1>12. CASE p # t.root
  <2> DEFINE q == t.parent[p]
             e == Side(t, p)
  <2>1. q \in L /\ e \in Sides /\ t[e][q] = p /\ t[Other(e)][q] # p  BY <1>1, <1>12, HangsOn
  <2> HIDE DEF e
  <2>2. ASSUME NEW x \in L, NEW f \in Sides PROVE t[f][x] = p <=> x = q /\ f = e
    <3>1. t[f][x] = p => x = q  BY <1>1, <1>2
    <3>2. f = e \/ f = Other(e)  BY <2>1 DEF Other, Sides
    <3> QED  BY <2>1, <3>1, <3>2
  <2>3. Even(r, L, k, q, e)  BY <1>6, <1>7, <1>9, <2>2 DEF Even, EvenBut
  <2>4. r.parent[p] = q /\ r[e][q] = p  BY <1>5, <2>1
  <2> QED  BY <1>1, <1>5, <1>10, <1>12, <2>1, <2>3, <2>4 DEF DeleteBalance
<1> QED  BY <1>11, <1>12

Straight(r, p, z, w, d) ==
    z \notin r.red /\ r[Other(d)][p] = z /\ r[Other(d)][z] = w /\ w \in r.red

(* A red child on the near side is first turned to the far side.           *)
LEMMA NearTurn ==
  ASSUME NEW t, NEW L, Formed(t, L), NEW h, NEW c, NEW p, NEW w, NEW d,
         Short(t, L, h, c, p, w, d), w \notin t.red, t[Other(d)][w] \notin t.red,
         NEW z, z = t[d][w], z \in t.red,
         NEW v, v = Paint(t, {w}, {z}), NEW r, r = Rotate(v, Other(d), w)
  PROVE  (\E k : Short(r, L, k, c, p, z, d)) /\ Straight(r, p, z, w, d)
<1> DEFINE o == Other(d)
           f == t[o][w]
           k == [x \in Places |-> IF x = z THEN h[w] ELSE IF x = w THEN h[c] ELSE h[x]]
<1>1. /\ p \in L /\ d \in Sides /\ t[d][p] = c /\ t.parent[c] = p
      /\ w = t[o][p] /\ w \in L /\ w # c /\ w # p /\ w # t.root
      /\ c \in L \cup {NIL} /\ c \notin t.red /\ c # p
  BY DEF Short
<1>2. /\ h \in [Places -> Nat] /\ h[NIL] = 0 /\ NIL \notin L /\ L \subseteq Places
      /\ \A x \in L : \A e \in Sides : x # p \/ e # d => h[x] = h[t[e][x]] + Weight(t, x)
      /\ \A x \in L : \A e \in Sides : /\ t[e][x] \in L \cup {NIL}
                                       /\ t[e][x] # NIL => t.parent[t[e][x]] = x
      /\ \A x \in L : \A e \in Sides : t[e][x] \in Places /\ h[t[e][x]] \in Nat
      /\ \A x \in L : h[x] \in Nat
      /\ h[c] \in Nat /\ h[p] = h[c] + 1 + Weight(t, p) /\ h[w] = h[c] + 1
  BY ShortHeights
<1>3. o \in Sides /\ o # d /\ Other(o) = d /\ \A e \in Sides : e = d \/ e = o
  BY <1>1 DEF Other, Sides
<1>4. \A x \in L : \A e \in Sides : ~(x \in t.red /\ t[e][x] \in t.red)
  BY NodesAssumption DEF Short, Clean, Formed, Shape, Trees
<1>5. t \in Trees /\ L \subseteq Nodes /\ t.red \subseteq Nodes /\ NIL \notin Nodes
  BY NodesAssumption DEF Formed, Shape, Trees
<1>6. z \in L /\ z # NIL /\ t.parent[z] = w /\ w # NIL  BY <1>1, <1>2, <1>5
<1>a. d \in Sides /\ w \in L /\ t[d][w] # NIL  BY <1>1, <1>6
<1>b. o \in Sides /\ p \in L /\ t[o][p] # NIL  BY <1>1, <1>3, <1>6
<1>7. z # w /\ z # t.root /\ z # f
  <2>1. t[d][w] # w /\ t[d][w] # t.root /\ t[d][w] # t[Other(d)][w]  BY <1>a, Apart
  <2> QED  BY <2>1
<1>8. z # p /\ f # p
  <2>1. \A e \in Sides : t[e][t[o][p]] # p  BY <1>b, Apart
  <2> QED  BY <1>1, <1>3, <2>1
<1>9. t.parent[w] = p  BY <1>1, <1>2, <1>3, <1>6
<1>10. z # c  BY <1>1, <1>6
<1>11. t[o][z] # w /\ t[d][z] # w
  <2>1. \A e \in Sides : t[e][t[d][w]] # w  BY <1>a, Apart
  <2> QED  BY <1>3, <1>a, <2>1
<1>12. /\ v.root = t.root /\ v.red = (t.red \cup {w}) \ {z} /\ v.parent = t.parent
       /\ \A e \in Sides : v[e] = t[e]
  BY <1>1, <1>5 DEF Trees, Paint, Sides
<1>13. Formed(v, L)
  <2>1. {w} \in SUBSET Nodes  BY <1>1, <1>5
  <2> QED  BY <2>1, PaintKeepsFormed
<1>14. z = v[Other(o)][w]  BY <1>1, <1>3, <1>12
<1>15. Turned(v, L, o, w, z, r)  
  <2>1. z # NIL /\ o \in Sides /\ w \in L  BY <1>a, <1>b
  <2> QED  BY <1>13, <1>14, <2>1, RotateMoves
<1>16. r.red = v.red /\ r.root = t.root /\ r[o][z] = w
  <2>1. r.red = v.red /\ r[o][z] = w /\ r.root = IF w = v.root THEN z ELSE v.root
    BY <1>15 DEF Turned
  <2>2. v.root = t.root /\ w # t.root  BY <1>1, <1>12
  <2> QED  BY <2>1, <2>2
<1>0. \A x \in L : r.parent[x] = IF x = z THEN v.parent[w] ELSE IF x = w THEN z
                                 ELSE IF x = v[o][z] THEN w ELSE v.parent[x]
  BY <1>15 DEF Turned
<1>17. /\ \A e \in Sides : v[e][p] = w <=> e = Side(v, w)
       /\ \A e \in Sides : r[e][p] = IF e = Side(v, w) THEN z ELSE v[e][p]
  <2>1. w # v.root /\ v.parent[w] = p  BY <1>1, <1>9, <1>12
  <2>2. /\ w # v.root => \A e \in Sides : v[e][v.parent[w]] = w <=> e = Side(v, w)
        /\ \A x \in L \ {w, z} : \A e \in Sides :
             r[e][x] = IF w # v.root /\ x = v.parent[w] /\ e = Side(v, w) THEN z ELSE v[e][x]
    BY <1>15 DEF Turned
  <2>3. ASSUME NEW e \in Sides PROVE v[e][p] = w <=> e = Side(v, w)  BY <2>1, <2>2
  <2>4. ASSUME NEW e \in Sides PROVE r[e][p] = IF e = Side(v, w) THEN z ELSE v[e][p]
    <3>1. p \in L \ {w, z}  BY <1>1, <1>8
    <3>2. r[e][p] = IF w # v.root /\ p = v.parent[w] /\ e = Side(v, w) THEN z ELSE v[e][p]
      BY <2>2, <3>1
    <3> QED  BY <2>1, <3>2
  <2> QED  BY <2>3, <2>4
<1>18. r[o][p] = z /\ r[d][p] = c
  <2>2. v[o][p] = w /\ v[d][p] = c  BY <1>1, <1>3, <1>12
  <2>3. o = Side(v, w)  BY <1>b, <1>17, <2>2
  <2>4. d # Side(v, w)  BY <1>3, <2>3
  <2>5. r[o][p] = z  BY <1>b, <1>17, <2>3
  <2>6. r[d][p] = v[d][p]  BY <1>a, <1>17, <2>4
  <2> QED  BY <2>2, <2>5, <2>6
<1> HIDE DEF k
<1>19. /\ k \in [Places -> Nat] /\ k[z] = h[w] /\ k[w] = h[c]
       /\ \A x \in Places \ {w, z} : k[x] = h[x]
  <2>1. z \in Places /\ w \in Places /\ h[w] \in Nat /\ h[c] \in Nat  BY <1>1, <1>2, <1>6
  <2>2. k \in [Places -> Nat]  BY <1>2, <2>1 DEF k
  <2> QED  BY <1>7, <2>1, <2>2 DEF k
<1>20. Weight(v, w) = 0 /\ Weight(v, z) = 1 /\ \A x \in L \ {w, z} : Weight(v, x) = Weight(t, x)
  BY <1>7, <1>12 DEF Weight
<1>21. /\ h[z] = h[c] /\ h[f] = h[c] /\ h[t[o][z]] = h[c] /\ h[t[d][z]] = h[c]
  <2>1. Weight(t, w) = 1 /\ Weight(t, z) = 0  BY DEF Weight
  <2>2. h[w] = h[z] + 1 /\ h[w] = h[f] + 1
    <3>0. \A e \in Sides : h[w] = h[t[e][w]] + Weight(t, w)  BY <1>1, <1>2
    <3>1. h[w] = h[t[d][w]] + Weight(t, w) /\ h[w] = h[t[o][w]] + Weight(t, w)
      BY <1>a, <1>b, <3>0
    <3> QED  BY <2>1, <3>1
  <2>3. h[z] = h[t[o][z]] + 0 /\ h[z] = h[t[d][z]] + 0
    <3>1. \A e \in Sides : h[z] = h[t[e][z]] + Weight(t, z)  BY <1>2, <1>6, <1>8
    <3> QED  BY <1>a, <1>b, <2>1, <3>1
  <2>4. h[z] \in Nat /\ h[f] \in Nat /\ h[t[o][z]] \in Nat /\ h[t[d][z]] \in Nat
    BY <1>1, <1>2, <1>3, <1>6
  <2> QED  BY <1>2, <2>2, <2>3, <2>4
<1>22. Even(r, L, k, p, d)
  <2>1. EvenBut(v, L, {w, z}, h, p, d)
    <3>1. ASSUME NEW x \in L \ {w, z}, NEW e \in Sides
          PROVE  /\ ~(x = p /\ e = d) => h[x] = h[v[e][x]] + Weight(v, x)
                 /\ x = p /\ e = d => h[x] = h[v[e][x]] + Weight(v, x) + 1
      <4>1. Weight(v, x) = Weight(t, x) /\ v[e][x] = t[e][x]  BY <1>12, <1>20
      <4> QED  BY <4>1 DEF Short, Even, EvenBut
    <3> QED  BY <1>2, <3>1 DEF EvenBut
  <2>2. v[o][w] = f /\ v[o][z] = t[o][z] /\ v[d][z] = t[d][z]  BY <1>1, <1>3, <1>12
  <2>3. TurnsEven(v, o, w, z, h, k, p, d)
    <3>1. k[z] = h[c] + 1 /\ k[w] = h[c]  BY <1>2, <1>19
    <3>0. Weight(v, w) = 0 /\ Weight(v, z) = 1 /\ h[c] \in Nat  BY <1>2, <1>20
    <3>2. k[w] = h[v[o][w]] + Weight(v, w) /\ k[w] = h[v[o][z]] + Weight(v, w)
      <4>1. h[v[o][w]] = h[c] /\ h[v[o][z]] = h[c]  BY <1>21, <2>2
      <4> QED  BY <3>0, <3>1, <4>1
    <3>3. k[z] = k[w] + Weight(v, z) /\ k[z] = h[v[Other(o)][z]] + Weight(v, z)
      <4>1. h[v[Other(o)][z]] = h[c]  BY <1>3, <1>21, <2>2
      <4> QED  BY <3>0, <3>1, <4>1
    <3> QED  BY <1>1, <1>8, <1>19, <3>2, <3>3 DEF TurnsEven
  <2> QED  BY <1>1, <1>3, <1>6, <1>13, <1>14, <2>1, <2>3, RotateEven
<1>23. Clean(r, L, NULL)
  <2>1. TurnsClean(v, L, o, w, z)
    <3>1. ASSUME NEW x \in L \ {w, z}, NEW e \in Sides, x \in v.red, v[e][x] # w
          PROVE  v[e][x] \notin v.red
      BY <1>4, <1>12, <3>1
    <3>2. z \notin v.red  BY <1>12
    <3>3. v[o][w] \notin v.red /\ v[o][z] \notin v.red
      <4>1. v[o][w] = f /\ v[o][z] = t[o][z]  BY <1>3, <1>12
      <4>2. f # w
        <5>1. t[o][t[o][p]] # t[o][p]  BY <1>b, Apart
        <5> QED  BY <1>1, <5>1
      <4>3. t[o][z] \notin t.red  BY <1>3, <1>4, <1>6
      <4> QED  BY <1>11, <1>12, <4>1, <4>2, <4>3
    <3>4. v.root # w /\ v.root \notin v.red
      <4>1. t.root \notin t.red  BY <1>5, NodesAssumption DEF Short, Clean
      <4> QED  BY <1>1, <1>12, <4>1
    <3> QED  BY <3>1, <3>2, <3>3, <3>4 DEF TurnsClean
  <2> QED  BY <1>1, <1>3, <1>6, <1>13, <1>14, <2>1, RotateClean
<1>24. r.parent[c] = p
  <2>1. CASE c = NIL
    <3>1. r.parent[NIL] = v.parent[NIL]  BY <1>15 DEF Turned
    <3>2. v.parent[NIL] = p  BY <1>1, <1>12, <2>1
    <3> QED  BY <2>1, <3>1, <3>2
  <2>2. CASE c # NIL
    <3>1. c \in L  BY <1>1, <2>2
    <3>2. c # v[o][z]
      <4>1. v[o][z] = t[o][z]  BY <1>3, <1>12
      <4>2. t[o][z] # NIL => t.parent[t[o][z]] = z  BY <1>2, <1>3, <1>6
      <4> QED  BY <1>1, <1>8, <2>2, <4>1, <4>2
    <3>3. r.parent[c] = v.parent[c]  BY <1>0, <1>1, <1>10, <3>1, <3>2
    <3> QED  BY <1>1, <1>12, <3>3
  <2> QED  BY <2>1, <2>2
<1>25. Short(r, L, k, c, p, z, d)
  <2>1. c \notin r.red  BY <1>1, <1>12, <1>16
  <2>2. z # r.root  BY <1>7, <1>16
  <2> QED  BY <1>1, <1>6, <1>8, <1>10, <1>18, <1>22, <1>23, <1>24, <2>1, <2>2 DEF Short
<1>26. z \notin r.red /\ w \in r.red  BY <1>1, <1>7, <1>12, <1>16
<1>27. Straight(r, p, z, w, d)  BY <1>16, <1>18, <1>26 DEF Straight
<1> QED  BY <1>25, <1>27

(* A red child on the far side: the sibling comes up, and no branch is     *)
(* short any more.                                                         *)
LEMMA LastTurn ==
  ASSUME NEW t, NEW L, Formed(t, L), NEW h, NEW c, NEW p, NEW w, NEW d,
         Short(t, L, h, c, p, w, d), w \notin t.red,
         NEW f, f = t[Other(d)][w], f \in t.red,
         NEW C, C = IF p \in t.red THEN {w} ELSE {},
         NEW v, v = Paint(Paint(t, C, {w} \ C), {}, {p, f}), NEW r, r = Rotate(v, d, p)
  PROVE  (\E k : Even(r, L, k, NIL, "left")) /\ Clean(r, L, NULL)
<1> DEFINE o == Other(d)
           z == t[d][w]
           m == [x \in Places |-> IF x = f THEN h[c] + 1 ELSE h[x]]
           k == [x \in Places |-> IF x = w THEN h[p] ELSE IF x = p THEN h[c] + 1 ELSE m[x]]
<1>1. /\ p \in L /\ d \in Sides /\ t[d][p] = c /\ t.parent[c] = p
      /\ w = t[o][p] /\ w \in L /\ w # c /\ w # p /\ w # t.root
      /\ c \in L \cup {NIL} /\ c \notin t.red /\ c # p
  BY DEF Short
<1>2. /\ h \in [Places -> Nat] /\ h[NIL] = 0 /\ NIL \notin L /\ L \subseteq Places
      /\ \A x \in L : \A e \in Sides : x # p \/ e # d => h[x] = h[t[e][x]] + Weight(t, x)
      /\ \A x \in L : \A e \in Sides : /\ t[e][x] \in L \cup {NIL}
                                       /\ t[e][x] # NIL => t.parent[t[e][x]] = x
      /\ \A x \in L : \A e \in Sides : t[e][x] \in Places /\ h[t[e][x]] \in Nat
      /\ \A x \in L : h[x] \in Nat
      /\ h[c] \in Nat /\ h[p] = h[c] + 1 + Weight(t, p) /\ h[w] = h[c] + 1
  BY ShortHeights
<1>3. o \in Sides /\ o # d /\ Other(o) = d /\ \A e \in Sides : e = d \/ e = o
  BY <1>1 DEF Other, Sides
<1>4. \A x \in L : \A e \in Sides : ~(x \in t.red /\ t[e][x] \in t.red)
  BY NodesAssumption DEF Short, Clean, Formed, Shape, Trees
<1>5. t \in Trees /\ L \subseteq Nodes /\ t.red \subseteq Nodes /\ NIL \notin Nodes
  BY NodesAssumption DEF Formed, Shape, Trees
<1>6. f \in L /\ f # NIL /\ t.parent[f] = w /\ w # NIL  BY <1>1, <1>2, <1>3, <1>5
<1>a. d \in Sides /\ w \in L /\ w # NIL  BY <1>1, <1>6
<1>b. o \in Sides /\ p \in L /\ t[o][p] # NIL /\ t[o][w] # NIL  BY <1>1, <1>3, <1>6
<1>7. f # w /\ f # t.root /\ f # z
  <2>1. t[o][w] # w /\ t[o][w] # t.root /\ t[o][w] # t[Other(o)][w]  BY <1>a, <1>b, Apart
  <2> QED  BY <1>3, <2>1
<1>8. z # p /\ f # p /\ z # w
  <2>1. \A e \in Sides : t[e][t[o][p]] # p /\ t[e][t[o][p]] # t[o][p]  BY <1>b, Apart
  <2> QED  BY <1>1, <1>3, <2>1
<1>9. t.parent[w] = p  BY <1>1, <1>2, <1>3, <1>6
<1>10. f # c  BY <1>1, <1>6
<1>11. t.root \notin t.red  BY <1>5, NodesAssumption DEF Short, Clean
<1>12. /\ v.root = t.root /\ v.red = (t.red \cup C) \ {p, f} /\ v.parent = t.parent
       /\ \A e \in Sides : v[e] = t[e]
  <2>1. C \in SUBSET Nodes  BY <1>1, <1>5
  <2> DEFINE u == Paint(t, C, {w} \ C)
  <2>2. /\ u \in Trees /\ u.root = t.root /\ u.left = t.left /\ u.right = t.right
        /\ u.parent = t.parent /\ u.red = (t.red \cup C) \ ({w} \ C)
    BY <1>5, <2>1 DEF Trees, Paint
  <2>3. u.red = t.red \cup C  BY <2>2
  <2> HIDE DEF u
  <2>4. /\ v.root = u.root /\ v.left = u.left /\ v.right = u.right
        /\ v.parent = u.parent /\ v.red = (u.red \cup {}) \ {p, f}
    <3>1. v = Paint(u, {}, {p, f})  BY DEF u
    <3> QED  BY <2>2, <3>1 DEF Trees, Paint
  <2> QED  BY <2>2, <2>3, <2>4 DEF Sides
<1>13. Formed(v, L)
  <2>1. C \in SUBSET Nodes  BY <1>1, <1>5
  <2>2. Formed(Paint(t, C, {w} \ C), L)  BY <2>1, PaintKeepsFormed
  <2>3. {} \in SUBSET Nodes  OBVIOUS
  <2> QED  BY <2>2, <2>3, PaintKeepsFormed
<1>14. w = v[Other(d)][p]  BY <1>1, <1>3, <1>12
<1> HIDE DEF m, k
<1>15. /\ m \in [Places -> Nat] /\ m[f] = h[c] + 1 /\ \A x \in Places \ {f} : m[x] = h[x]
  <2>1. f \in Places /\ h[c] + 1 \in Nat  BY <1>2, <1>6
  <2> QED  BY <1>2, <2>1 DEF m
<1>16. /\ k \in [Places -> Nat] /\ k[w] = h[p] /\ k[p] = h[c] + 1
       /\ \A x \in Places \ {p, w} : k[x] = m[x]
  <2>1. w \in Places /\ p \in Places /\ h[p] \in Nat /\ h[c] + 1 \in Nat  BY <1>1, <1>2
  <2>2. k \in [Places -> Nat]  BY <1>15, <2>1 DEF k
  <2> QED  BY <1>1, <2>1, <2>2 DEF k
<1>17. /\ Weight(v, p) = 0 + 1 /\ Weight(v, f) = 1 /\ Weight(t, f) = 0
       /\ Weight(v, w) = Weight(t, p) /\ Weight(t, p) \in Nat
       /\ \A x \in L \ {p, w, f} : Weight(v, x) = Weight(t, x)
  <2>1. p \notin v.red /\ f \notin v.red /\ (w \in v.red <=> p \in t.red)
    BY <1>1, <1>7, <1>12
  <2>2. ASSUME NEW x \in L \ {p, w, f} PROVE x \in v.red <=> x \in t.red
    BY <1>12
  <2> QED  BY <2>1, <2>2 DEF Weight
<1>18. EvenBut(v, L, {p, w}, m, NIL, "left")
  <2>1. ASSUME NEW x \in L \ {p, w}, NEW e \in Sides
        PROVE  m[x] = m[v[e][x]] + Weight(v, x)
    <3>1. v[e][x] = t[e][x]  BY <1>12
    <3>2. t[e][x] # f
      <4>1. t[e][x] = f => t.parent[f] = x  BY <1>2, <1>6
      <4> QED  BY <1>6, <2>1, <4>1
    <3>3. m[t[e][x]] = h[t[e][x]] /\ h[t[e][x]] \in Nat  BY <1>2, <1>15, <3>2
    <3>4. h[x] = h[t[e][x]] + Weight(t, x)  BY <1>2, <2>1
    <3>5. CASE x = f
      <4>1. h[f] = h[c]
        <5>1. \A g \in Sides : h[w] = h[t[g][w]] + Weight(t, w)  BY <1>1, <1>2
        <5>2. h[w] = h[f] + 1  BY <1>b, <5>1 DEF Weight
        <5>3. h[f] \in Nat /\ h[c] \in Nat /\ h[w] = h[c] + 1  BY <1>2, <1>6
        <5> QED  BY <5>2, <5>3
      <4>2. m[f] = h[c] + 1 /\ Weight(v, f) = 1 /\ Weight(t, f) = 0  BY <1>15, <1>17
      <4>3. h[f] = h[t[e][f]] + 0  BY <3>4, <3>5, <4>2
      <4>4. m[f] = m[t[e][f]] + 1  BY <3>3, <3>5, <4>1, <4>2, <4>3
      <4> QED  BY <3>1, <3>5, <4>2, <4>4
    <3>6. CASE x # f
      <4>1. m[x] = h[x] /\ Weight(v, x) = Weight(t, x)  BY <1>2, <1>15, <1>17, <2>1, <3>6
      <4> QED  BY <3>1, <3>3, <3>4, <4>1
    <3> QED  BY <3>5, <3>6
  <2>2. m[NIL] = 0
    <3>1. NIL \in Places \ {f}  BY <1>6 DEF Places
    <3> QED  BY <1>2, <1>15, <3>1
  <2> QED  BY <1>2, <1>15, <2>1, <2>2 DEF EvenBut
<1>19. Even(r, L, k, NIL, "left")
  <2>1. v[d][p] = c /\ v[d][w] = z /\ v[o][w] = f  BY <1>a, <1>1, <1>b, <1>12
  <2>2. m[p] = h[p] /\ m[c] = h[c] /\ m[z] = h[c] /\ h[c] \in Nat
    <3>1. h[z] = h[c]
      <4>1. \A g \in Sides : h[w] = h[t[g][w]] + Weight(t, w)  BY <1>1, <1>2
      <4>2. h[w] = h[z] + 1  BY <1>a, <4>1 DEF Weight
      <4>3. h[z] \in Nat /\ h[c] \in Nat /\ h[w] = h[c] + 1  BY <1>a, <1>2
      <4> QED  BY <4>2, <4>3
    <3>2. p \in Places /\ c \in Places /\ z \in Places  BY <1>a, <1>1, <1>2 DEF Places
    <3> QED  BY <1>2, <1>7, <1>8, <1>10, <1>15, <3>1, <3>2
  <2>3. TurnsEven(v, d, p, w, m, k, NIL, "left")
    <3>1. NIL # w /\ NIL # p /\ k[w] = m[p]  BY <1>2, <1>6, <1>b, <1>16, <2>2
    <3>2. k[p] = m[v[d][p]] + Weight(v, p) /\ k[p] = m[v[d][w]] + Weight(v, p)
      BY <1>16, <1>17, <2>1, <2>2
    <3>3. k[w] = h[c] + 1 + Weight(t, p)  BY <1>2, <1>16
    <3>4. k[w] = k[p] + Weight(v, w)  BY <1>16, <1>17, <2>2, <3>3
    <3>5. k[w] = m[v[o][w]] + Weight(v, w)  BY <1>15, <1>17, <2>1, <3>3
    <3> QED  BY <1>16, <3>1, <3>2, <3>4, <3>5 DEF TurnsEven
  <2> QED  BY <1>a, <1>b, <1>13, <1>14, <1>18, <2>3, RotateEven
<1>20. Clean(r, L, NULL)
  <2>1. TurnsClean(v, L, d, p, w)
    <3>1. ASSUME NEW x \in L \ {p, w}, NEW e \in Sides, x \in v.red
          PROVE  (v[e][x] # p => v[e][x] \notin v.red) /\ (v[e][x] = p => w \notin v.red)
      <4>1. x \in t.red /\ v[e][x] = t[e][x]  BY <1>12, <3>1
      <4>2. t[e][x] \notin t.red  BY <1>4, <4>1
      <4>3. t[e][x] # w
        <5>1. t[e][x] = w => t.parent[w] = x  BY <1>2, <1>6
        <5> QED  BY <1>9, <5>1
      <4>4. v[e][x] \notin v.red  BY <1>12, <4>1, <4>2, <4>3
      <4>5. v[e][x] = p => w \notin v.red  BY <1>12, <4>1, <4>2
      <4> QED  BY <4>4, <4>5
    <3>2. p \notin v.red /\ v[Other(d)][w] \notin v.red  BY <1>1, <1>3, <1>12
    <3>3. v.root # p => v.root \notin v.red  BY <1>1, <1>11, <1>12
    <3>4. v.root = p => w \notin v.red  BY <1>11, <1>12
    <3> QED  BY <3>1, <3>2, <3>3, <3>4 DEF TurnsClean
  <2> QED  BY <1>a, <1>b, <1>13, <1>14, <2>1, RotateClean
<1> QED  BY <1>19, <1>20

(* The colours of a tree that no loop is rebalancing.                      *)
Balanced(t, L) == (\E h : Even(t, L, h, NIL, "left")) /\ Clean(t, L, NULL)

(* The insertion ends by painting the root black, ...                      *)
LEMMA InsertEnds ==
  ASSUME NEW t, NEW L, Formed(t, L), NEW h, NEW c, InsertBalance(t, L, h, c),
         c # t.root => t.parent[c] \notin t.red, NEW r, r = Paint(t, {}, {t.root})
  PROVE  Balanced(r, L)
<1> DEFINE k == [x \in Places |-> IF x = t.root /\ t.root \in t.red THEN h[x] + 1 ELSE h[x]]
<1>1. t \in Trees /\ L \subseteq Nodes /\ NIL \notin Nodes /\ NULL \notin Nodes /\ t.root \in L
  BY NodesAssumption DEF Formed, Shape, Links, InsertBalance
<1>2. /\ c \in L /\ \A d \in Sides : t[d][c] \notin t.red
      /\ h \in [Places -> Nat] /\ h[NIL] = 0
      /\ \A x \in L : \A d \in Sides : h[x] = h[t[d][x]] + Weight(t, x)
  BY <1>1 DEF InsertBalance, Even, EvenBut
<1>3. /\ r.root = t.root /\ r.red = t.red \ {t.root} /\ \A d \in Sides : r[d] = t[d]
  BY <1>1 DEF Trees, Paint, Sides
<1>4. \A x \in L : \A d \in Sides : /\ t[d][x] \in L \cup {NIL}
                                    /\ t[d][x] # NIL => t.parent[t[d][x]] = x
  BY DEF Formed, Shape, Links
<1>5. \A x \in L : \A d \in Sides : t[d][x] # t.root /\ t[d][x] \in Places
  <2> SUFFICES ASSUME NEW x \in L, NEW d \in Sides PROVE t[d][x] # t.root /\ t[d][x] \in Places
    OBVIOUS
  <2>1. t[d][x] # NIL => t[d][x] # t.root  BY Apart
  <2> QED  BY <1>1, <1>4, <2>1 DEF Places
<1>6. /\ k \in [Places -> Nat] /\ k[NIL] = 0
      /\ \A x \in Places \ {t.root} : k[x] = h[x]
      /\ k[t.root] = IF t.root \in t.red THEN h[t.root] + 1 ELSE h[t.root]
  <2>1. t.root \in Places /\ NIL \in Places /\ NIL # t.root  BY <1>1 DEF Places
  <2>2. k \in [Places -> Nat]  BY <1>2
  <2> QED  BY <1>2, <2>1, <2>2
<1> HIDE DEF k
<1>7. ASSUME NEW x \in L, NEW d \in Sides PROVE k[x] = k[r[d][x]] + Weight(r, x)
  <2>1. r[d][x] = t[d][x] /\ k[t[d][x]] = h[t[d][x]] /\ h[t[d][x]] \in Nat
    BY <1>2, <1>3, <1>5, <1>6
  <2>2. h[x] = h[t[d][x]] + Weight(t, x)  BY <1>2
  <2>3. CASE x = t.root /\ t.root \in t.red
    <3>1. Weight(r, x) = 1 /\ Weight(t, x) = 0 /\ k[x] = h[x] + 1
      BY <1>3, <1>6, <2>3 DEF Weight
    <3> QED  BY <2>1, <2>2, <3>1
  <2>4. CASE ~(x = t.root /\ t.root \in t.red)
    <3>1. Weight(r, x) = Weight(t, x)  BY <1>3, <2>4 DEF Weight
    <3>2. k[x] = h[x]
      <4>1. x \in Places  BY <1>1 DEF Places
      <4> QED  BY <1>6, <2>4, <4>1
    <3> QED  BY <2>1, <2>2, <3>1, <3>2
  <2> QED  BY <2>3, <2>4
<1>8. Even(r, L, k, NIL, "left")  BY <1>1, <1>6, <1>7 DEF Even, EvenBut
<1>9. ASSUME NEW x \in L, NEW d \in Sides, x \in r.red, r[d][x] \in r.red PROVE FALSE
  <2>1. x \in t.red /\ t[d][x] \in t.red  BY <1>3, <1>9
  <2>2. c \in {x, t[d][x]}  BY <2>1 DEF InsertBalance, Clean
  <2>3. t[d][x] = c  BY <1>2, <2>1, <2>2
  <2>4. c # t.root /\ t.parent[c] = x  BY <1>1, <1>2, <1>4, <1>5, <2>3
  <2> QED  BY <2>1, <2>4
<1>10. Clean(r, L, NULL)  BY <1>3, <1>9 DEF Clean
<1> QED  BY <1>8, <1>10 DEF Balanced

(* ... and the deletion by painting its node black.                        *)
LEMMA DeleteEnds ==
  ASSUME NEW t, NEW L, Formed(t, L), NEW h, NEW c, DeleteBalance(t, L, h, c),
         c = t.root \/ c \in t.red, NEW r, r = Paint(t, {}, {c})
  PROVE  Balanced(r, L)
<1> DEFINE k == [x \in Places |-> IF x = c /\ c \in t.red THEN h[x] + 1 ELSE h[x]]
<1>1. t \in Trees /\ L \subseteq Nodes /\ t.red \subseteq Nodes /\ NIL \notin Nodes /\ NULL \notin Nodes
  BY NodesAssumption DEF Formed, Shape, Trees
<1>2. r.root = t.root /\ r.red = t.red \ {c} /\ \A d \in Sides : r[d] = t[d]
  BY <1>1 DEF Trees, Paint, Sides
<1>3. \A x \in L : \A d \in Sides : /\ t[d][x] \in L \cup {NIL}
                                    /\ t[d][x] # NIL => t.parent[t[d][x]] = x
  BY DEF Formed, Shape, Links
<1>4. c \in L \cup {NIL} /\ c \in Places
  <2>1. c \in L \cup {NIL}  BY DEF DeleteBalance
  <2>2. L \cup {NIL} \subseteq Places  BY <1>1 DEF Places
  <2> QED  BY <2>1, <2>2
<1>5. Clean(r, L, NULL)
  <2>1. ASSUME NEW x \in L, NEW d \in Sides, x \in r.red, r[d][x] \in r.red PROVE FALSE
    <3>1. Clean(t, L, c)  BY DEF DeleteBalance
    <3>2. x \in t.red /\ x # c /\ t[d][x] \in t.red /\ t[d][x] # c  BY <1>2, <2>1
    <3> QED  BY <3>1, <3>2 DEF Clean
  <2>2. r.root \notin r.red  BY <1>2 DEF DeleteBalance, Clean
  <2> QED  BY <2>1, <2>2 DEF Clean
<1>6. CASE c \notin t.red
  <2>1. Even(t, L, h, NIL, "left")  BY <1>6 DEF DeleteBalance
  <2>2. r.red = t.red  BY <1>2, <1>6
  <2>3. ASSUME NEW x \in L, NEW d \in Sides PROVE h[x] = h[r[d][x]] + Weight(r, x)
    <3>1. r[d][x] = t[d][x] /\ Weight(r, x) = Weight(t, x)  BY <1>2, <2>2 DEF Weight
    <3>2. x # NIL  BY <1>1
    <3>3. h[x] = h[t[d][x]] + Weight(t, x)  BY <2>1, <3>2 DEF Even, EvenBut
    <3> QED  BY <3>1, <3>3
  <2>4. h \in [Places -> Nat] /\ h[NIL] = 0  BY <2>1 DEF Even, EvenBut
  <2>5. Even(r, L, h, NIL, "left")  BY <1>1, <2>3, <2>4 DEF Even, EvenBut
  <2> QED  BY <1>5, <2>5 DEF Balanced
<1>7. CASE c \in t.red
  <2>1. c \in L /\ c # NIL /\ h \in [Places -> Nat] /\ h[NIL] = 0
    <3>1. c \in L /\ c # NIL  BY <1>1, <1>4, <1>7
    <3> QED  BY <3>1 DEF DeleteBalance, Even, EvenBut
  <2>2. ASSUME NEW x \in L, NEW f \in Sides
        PROVE  /\ t[f][x] # c => h[x] = h[t[f][x]] + Weight(t, x)
               /\ t[f][x] = c => h[x] = h[c] + Weight(t, x) + 1
    <3>1. CASE c = t.root
      <4>1. Even(t, L, h, NIL, "left")  BY <3>1 DEF DeleteBalance
      <4>2. t[f][x] # NIL => t[f][x] # t.root  BY Apart
      <4> QED  BY <1>1, <2>1, <3>1, <4>1, <4>2 DEF Even, EvenBut
    <3>2. CASE c # t.root
      <4> DEFINE p == t.parent[c]
      <4>1. PICK d \in Sides : p \in L /\ t[d][p] = c /\ Even(t, L, h, p, d)
        BY <3>2 DEF DeleteBalance
      <4>2. t[d][p] # NIL  BY <2>1, <4>1
      <4>3. t[Other(d)][p] # c  BY <4>1, <4>2, Apart
      <4>4. t[f][x] = c => x = p  BY <1>3, <2>1
      <4> HIDE DEF p
      <4>5. t[f][x] = c <=> x = p /\ f = d
        <5>1. f = d \/ f = Other(d)  BY DEF Other, Sides
        <5> QED  BY <4>1, <4>3, <4>4, <5>1
      <4> QED  BY <4>1, <4>5 DEF Even, EvenBut
    <3> QED  BY <3>1, <3>2
  <2>3. k \in [Places -> Nat] /\ k[c] = h[c] + 1 /\ \A x \in Places \ {c} : k[x] = h[x]
    <3>1. k \in [Places -> Nat]  BY <2>1
    <3> QED  BY <1>4, <1>7, <3>1
  <2>4. k[NIL] = 0
    <3>1. NIL \in Places \ {c}  BY <2>1 DEF Places
    <3> QED  BY <2>1, <2>3, <3>1
  <2> HIDE DEF k
  <2>5. ASSUME NEW x \in L, NEW f \in Sides PROVE k[x] = k[r[f][x]] + Weight(r, x)
    <3>1. r[f][x] = t[f][x]  BY <1>2
    <3>2. t[f][x] \in Places /\ x \in Places /\ c \in Places
      BY <1>1, <1>3, <1>4 DEF Places
    <3>3. h[t[f][x]] \in Nat /\ h[c] \in Nat /\ h[x] \in Nat  BY <2>1, <3>2
    <3>4. CASE x = c
      <4>1. t[f][c] # c  BY <2>1, <3>4, Apart
      <4>2. h[c] = h[t[f][c]] + Weight(t, c)  BY <2>1, <2>2, <3>4, <4>1
      <4>3. Weight(t, c) = 0 /\ Weight(r, c) = 1  BY <1>2, <1>7 DEF Weight
      <4>4. k[t[f][c]] = h[t[f][c]]  BY <2>3, <3>2, <3>4, <4>1
      <4>5. k[c] = k[t[f][c]] + 1  BY <2>3, <3>3, <3>4, <4>2, <4>3, <4>4
      <4> QED  BY <3>1, <3>4, <4>3, <4>5
    <3>5. CASE x # c
      <4>1. Weight(r, x) = Weight(t, x) /\ Weight(t, x) \in Nat  BY <1>2, <3>5 DEF Weight
      <4>2. k[x] = h[x]  BY <2>3, <3>2, <3>5
      <4>3. CASE t[f][x] = c
        <5>1. h[x] = h[c] + Weight(t, x) + 1  BY <2>2, <4>3
        <5> QED  BY <2>3, <3>1, <3>3, <4>1, <4>2, <4>3, <5>1
      <4>4. CASE t[f][x] # c
        <5>1. h[x] = h[t[f][x]] + Weight(t, x)  BY <2>2, <4>4
        <5>2. k[t[f][x]] = h[t[f][x]]  BY <2>3, <3>2, <4>4
        <5> QED  BY <3>1, <4>1, <4>2, <5>1, <5>2
      <4> QED  BY <4>3, <4>4
    <3> QED  BY <3>4, <3>5
  <2>6. Even(r, L, k, NIL, "left")  BY <1>1, <2>3, <2>4, <2>5 DEF Even, EvenBut
  <2> QED  BY <1>5, <2>6 DEF Balanced
<1> QED  BY <1>6, <1>7

-----------------------------------------------------------------------------
(* The tree as a whole: the nodes outside have no links, and those inside  *)
(* are in the order of s.                                                  *)
Loose(t, L) == \A x \in Nodes \ L : \A d \in Sides : t[d][x] = NULL

Placed(t, L, s, at) == Loose(t, L) /\ \E lo, hi : Shape(t, L, s, at, lo, hi)

LEMMA PlacedFormed ==
  ASSUME NEW t, NEW L, NEW s, NEW at, Placed(t, L, s, at)
  PROVE  Formed(t, L)
BY DEF Placed, Formed

LEMMA RotateKeepsPlaced ==
  ASSUME NEW t, NEW L, NEW s, NEW at, Placed(t, L, s, at),
         NEW d \in Sides, NEW n \in L, NEW up, up = t[Other(d)][n], up # NIL,
         NEW r, r = Rotate(t, d, n)
  PROVE  Placed(r, L, s, at)
<1>1. PICK lo, hi : Shape(t, L, s, at, lo, hi)  BY DEF Placed
<1>2. \E lo2, hi2 : Shape(r, L, s, at, lo2, hi2)  BY <1>1, RotateKeepsShape
<1>3. Formed(t, L)  BY <1>1 DEF Formed
<1>4. Turned(t, L, d, n, up, r)  BY <1>3, RotateMoves
<1>5. /\ up \in L /\ up # n /\ t[d][up] # n /\ t[d][up] # up
      /\ n # t.root => t.parent[n] \in L /\ t.parent[n] # n /\ t.parent[n] # up
  BY <1>4 DEF Turned
<1>6. t \in Trees /\ L \subseteq Nodes  BY <1>1 DEF Shape
<1>7. n \in Nodes /\ up \in Nodes /\ (n # t.root => t.parent[n] \in Nodes \ {n, up})
  BY <1>5, <1>6
<1>8. \A x \in Places \ {n, up} : \A e \in Sides :
         r[e][x] = IF n # t.root /\ x = t.parent[n] /\ e = Side(t, n) THEN up ELSE t[e][x]
  BY <1>5, <1>6, <1>7, RotateLinks
<1>9. Loose(r, L)
  <2>1. ASSUME NEW x \in Nodes \ L, NEW e \in Sides PROVE r[e][x] = NULL
    <3>1. x \in Places \ {n, up}  BY <1>5 DEF Places
    <3>2. ~(n # t.root /\ x = t.parent[n])  BY <1>5
    <3>3. r[e][x] = t[e][x]  BY <1>8, <3>1, <3>2
    <3> QED  BY <3>3 DEF Placed, Loose
  <2> QED  BY <2>1 DEF Loose
<1> QED  BY <1>2, <1>9 DEF Placed

LEMMA PaintKeepsPlaced ==
  ASSUME NEW t, NEW L, NEW s, NEW at, Placed(t, L, s, at),
         NEW a \in SUBSET Nodes, NEW b, NEW r, r = Paint(t, a, b)
  PROVE  Placed(r, L, s, at)
<1>1. PICK lo, hi : Shape(t, L, s, at, lo, hi)  BY DEF Placed
<1>2. Shape(r, L, s, at, lo, hi)  BY <1>1, PaintKeepsShape
<1>3. t \in Trees  BY <1>1 DEF Shape
<1>4. \A d \in Sides : r[d] = t[d]  BY <1>3, PaintLinks
<1>5. Loose(r, L)  BY <1>4 DEF Placed, Loose
<1> QED  BY <1>2, <1>5 DEF Placed

(* The fields of the nodes outside and the parent of the root are free.    *)
LEMMA SameKeeps ==
  ASSUME NEW t, NEW L, NEW s, NEW at, Placed(t, L, s, at),
         NEW r, r \in Trees, Loose(r, L), r.root = t.root, r.red = t.red,
         \A x \in L : \A d \in Sides : r[d][x] = t[d][x],
         \A x \in L \ {t.root} : r.parent[x] = t.parent[x]
  PROVE  Placed(r, L, s, at) /\ (Balanced(t, L) => Balanced(r, L))
<1>1. PICK lo, hi : Shape(t, L, s, at, lo, hi)  BY DEF Placed
<1>2. t \in Trees /\ L \subseteq Nodes /\ NIL \notin Nodes /\ Links(t, L) /\ Spans(t, L, at, lo, hi)
      /\ Formed(t, L)
  BY <1>1, NodesAssumption DEF Shape, Formed
<1>3. Links(r, L)
  <2>1. ASSUME NEW x \in L, NEW d \in Sides
        PROVE  r[d][x] \in L \cup {NIL} /\ (r[d][x] # NIL => r.parent[r[d][x]] = x)
    <3>1. t[d][x] \in L \cup {NIL} /\ (t[d][x] # NIL => t.parent[t[d][x]] = x)
      BY <1>2 DEF Links
    <3>2. t[d][x] # NIL => t[d][x] # t.root  BY <1>2, Apart
    <3> QED  BY <3>1, <3>2
  <2>2. ASSUME NEW x \in L \ {r.root}
        PROVE  r.parent[x] \in L /\ \E d \in Sides : r[d][r.parent[x]] = x
    <3>1. t.parent[x] \in L /\ \E d \in Sides : t[d][t.parent[x]] = x
      BY <1>2, <2>2 DEF Links
    <3> QED  BY <2>2, <3>1
  <2>3. IF L = {} THEN r.root = NIL ELSE r.root \in L  BY <1>2 DEF Links
  <2> QED  BY <2>1, <2>2, <2>3 DEF Links
<1>4. \A x \in L : r.left[x] = t.left[x] /\ r.right[x] = t.right[x]  BY DEF Sides
<1>5. Spans(r, L, at, lo, hi)  BY <1>2, <1>4 DEF Spans
<1>6. Shape(r, L, s, at, lo, hi)  BY <1>1, <1>3, <1>5 DEF Shape
<1>7. ASSUME Balanced(t, L) PROVE Balanced(r, L)
  <2>1. PICK h : Even(t, L, h, NIL, "left")  BY <1>7 DEF Balanced
  <2>2. \A x : Weight(r, x) = Weight(t, x)  BY DEF Weight
  <2>3. h \in [Places -> Nat] /\ h[NIL] = 0  BY <2>1 DEF Even, EvenBut
  <2>4. ASSUME NEW x \in L, NEW d \in Sides PROVE h[x] = h[r[d][x]] + Weight(r, x)
    <3>1. x # NIL  BY <1>2
    <3>2. h[x] = h[t[d][x]] + Weight(t, x)  BY <2>1, <3>1 DEF Even, EvenBut
    <3> QED  BY <2>2, <3>2
  <2>5. Even(r, L, h, NIL, "left")  BY <1>2, <2>3, <2>4 DEF Even, EvenBut
  <2>6. Clean(r, L, NULL)  BY <1>7 DEF Balanced, Clean
  <2> QED  BY <2>5, <2>6 DEF Balanced
<1> QED  BY <1>6, <1>7 DEF Placed

(* The parent of the sentinel is nobody's business.                        *)
LEMMA StaleKeeps ==
  ASSUME NEW t, NEW L, NEW s, NEW at, Placed(t, L, s, at), NEW r, r = Stale(t, NIL)
  PROVE  Placed(r, L, s, at) /\ (Balanced(t, L) => Balanced(r, L))
<1>1. t \in Trees /\ L \subseteq Nodes /\ NIL \notin Nodes /\ Loose(t, L)
  BY NodesAssumption DEF Placed, Shape
<1>2. /\ r \in Trees /\ r.root = t.root /\ r.red = t.red /\ r.left = t.left /\ r.right = t.right
      /\ \A x \in Places \ {NIL} : r.parent[x] = t.parent[x]
  BY <1>1 DEF Stale, Trees, Places
<1>3. \A d \in Sides : r[d] = t[d]  BY <1>2 DEF Sides
<1>4. Loose(r, L)  BY <1>1, <1>3 DEF Loose
<1>5. \A x \in L \ {t.root} : r.parent[x] = t.parent[x]  BY <1>1, <1>2 DEF Places
<1> QED  BY <1>2, <1>3, <1>4, <1>5, SameKeeps

-----------------------------------------------------------------------------
(* The rounds of the loops.                                                *)
LEMMA OuterTurn ==
  ASSUME NEW t, NEW L, NEW s, NEW at, Placed(t, L, s, at), NEW h, NEW c,
         InsertBalance(t, L, h, c), NEW p, NEW g, NEW u, NEW d,
         RedPair(t, L, c, p, g, u, d), c = t[d][p], u \notin t.red,
         NEW r, r = Rotate(Paint(t, {g}, {p}), Other(d), g)
  PROVE  /\ Placed(r, L, s, at) /\ \E k : InsertBalance(r, L, k, c)
         /\ r.parent[c] \notin r.red
<1> DEFINE v == Paint(t, {g}, {p})
<1>1. Formed(t, L)  BY PlacedFormed
<1>2. (\E k : InsertBalance(r, L, k, c)) /\ r[d][p] = c /\ p \notin r.red
  <2>1. Settled(r, L, c, p, d)  BY <1>1, OuterTurnBalances
  <2> QED  BY <2>1 DEF Settled
<1>3. t \in Trees /\ L \subseteq Nodes /\ NIL \notin L
  BY <1>1, NodesAssumption DEF Formed, Shape
<1>4. p \in L /\ g \in L /\ d \in Sides /\ t[d][g] = p  BY DEF RedPair
<1>5. {g} \in SUBSET Nodes /\ p # NIL  BY <1>3, <1>4
<1>6. Placed(v, L, s, at)  BY <1>5, PaintKeepsPlaced
<1>7. Other(d) \in Sides /\ Other(Other(d)) = d  BY <1>4 DEF Sides, Other
<1>8. v[Other(Other(d))][g] = p
  <2>1. v.left = t.left /\ v.right = t.right  BY <1>3 DEF Trees, Paint
  <2>2. v[d] = t[d]  BY <1>4, <2>1 DEF Sides
  <2> QED  BY <1>4, <1>7, <2>2
<1> HIDE DEF v
<1>9. r = Rotate(v, Other(d), g)  BY DEF v
<1>10. Placed(r, L, s, at)  BY <1>4, <1>5, <1>6, <1>7, <1>8, <1>9, RotateKeepsPlaced
<1>11. r.parent[c] = p
  <2>1. Links(r, L)  BY <1>10 DEF Placed, Shape
  <2>2. c # NIL  BY <1>3 DEF InsertBalance
  <2>3. \A x \in L : \A f \in Sides : r[f][x] # NIL => r.parent[r[f][x]] = x
    BY <2>1 DEF Links
  <2>4. r[d][p] # NIL => r.parent[r[d][p]] = p  BY <1>4, <2>3
  <2> QED  BY <1>2, <2>2, <2>4
<1> QED  BY <1>2, <1>10, <1>11

LEMMA InnerTurn ==
  ASSUME NEW t, NEW L, NEW s, NEW at, Placed(t, L, s, at), NEW h, NEW c,
         InsertBalance(t, L, h, c), NEW p, NEW g, NEW u, NEW d,
         RedPair(t, L, c, p, g, u, d), c = t[Other(d)][p], u \notin t.red,
         NEW r, r = Rotate(t, d, p)
  PROVE  /\ Placed(r, L, s, at) /\ InsertBalance(r, L, h, p) /\ RedPair(r, L, p, c, g, u, d)
         /\ p = r[d][c] /\ u \notin r.red /\ r.parent[p] = c /\ r.parent[c] = g
<1>1. Formed(t, L)  BY PlacedFormed
<1>2. /\ InsertBalance(r, L, h, p) /\ p # r.root
      /\ r.parent[p] = c /\ c \in r.red /\ r.parent[c] = g
      /\ r[d][g] = c /\ r[d][c] = p /\ r[Other(d)][g] = t[Other(d)][g]
  BY <1>1, InnerTurnBalances
<1>3. p \in L /\ d \in Sides /\ u = t[Other(d)][g]  BY DEF RedPair
<1>4. c # NIL  BY <1>1, NodesAssumption DEF InsertBalance, Formed, Shape
<1>5. Placed(r, L, s, at)  BY <1>3, <1>4, RotateKeepsPlaced
<1>6. Formed(r, L)  BY <1>5, PlacedFormed
<1>7. Turned(t, L, d, p, c, r)  BY <1>1, <1>3, <1>4, RotateMoves
<1>8. r.red = t.red  BY <1>7 DEF Turned
<1>9. RedPair(r, L, p, c, g, Sibling(r, c), Side(r, c))
  <2>1. c = r.parent[p] /\ g = r.parent[c]  BY <1>2
  <2> QED  BY <1>2, <1>6, <2>1, RedParent
<1>10. Side(r, c) = d
  <2>1. /\ Side(r, c) \in Sides /\ r[Other(Side(r, c))][g] = Sibling(r, c) /\ Sibling(r, c) # c
    BY <1>9 DEF RedPair
  <2>2. d = Side(r, c) \/ d = Other(Side(r, c))  BY <1>3, <2>1 DEF Sides, Other
  <2> QED  BY <1>2, <2>1, <2>2
<1>11. Sibling(r, c) = u  BY <1>2, <1>3, <1>10 DEF Sibling
<1>12. RedPair(r, L, p, c, g, u, d)  BY <1>9, <1>10, <1>11
<1> QED  BY <1>2, <1>5, <1>8, <1>12

(* The tree with a black sibling.                                          *)
LEMMA SiblingIsBlack ==
  ASSUME NEW t, NEW L, NEW s, NEW at, Placed(t, L, s, at), NEW h, NEW c, NEW p, NEW w, NEW d,
         Short(t, L, h, c, p, w, d),
         NEW r, r = IF w \in t.red THEN Rotate(Paint(t, {p}, {w}), d, p) ELSE t
  PROVE  Placed(r, L, s, at) /\ \E k, z : Short(r, L, k, c, p, z, d) /\ z \notin r.red
<1>1. Formed(t, L)  BY PlacedFormed
<1>2. CASE w \notin t.red  BY <1>2
<1>3. CASE w \in t.red
  <2> DEFINE v == Paint(t, {p}, {w})
  <2>1. t \in Trees /\ L \subseteq Nodes /\ NIL \notin L
    BY <1>1, NodesAssumption DEF Formed, Shape
  <2>2. p \in L /\ d \in Sides /\ w \in L /\ w = t[Other(d)][p]  BY DEF Short
  <2>3. {p} \in SUBSET Nodes /\ w # NIL /\ Other(d) \in Sides  BY <2>1, <2>2 DEF Other, Sides
  <2>4. Placed(v, L, s, at)  BY <2>3, PaintKeepsPlaced
  <2>5. v[Other(d)][p] = w
    <3>0. v.left = t.left /\ v.right = t.right  BY <2>1 DEF Trees, Paint
    <3>1. v[Other(d)] = t[Other(d)]  BY <2>3, <3>0 DEF Sides
    <3> QED  BY <2>2, <3>1
  <2> HIDE DEF v
  <2>6. r = Rotate(v, d, p)  BY <1>3 DEF v
  <2>7. Placed(r, L, s, at)  BY <2>2, <2>3, <2>4, <2>5, <2>6, RotateKeepsPlaced
  <2>8. v = Paint(t, {p}, {w})  BY DEF v
  <2>9. (\E k : Short(r, L, k, c, p, t[d][w], d)) /\ t[d][w] \notin r.red
    BY <1>1, <1>3, <2>6, <2>8, SiblingTurns
  <2> QED  BY <2>7, <2>9
<1> QED  BY <1>2, <1>3

(* The rotations that end a deletion.                                      *)
LEMMA FarTurn ==
  ASSUME NEW t, NEW L, NEW s, NEW at, Placed(t, L, s, at), NEW h, NEW c, NEW p, NEW w, NEW d,
         Short(t, L, h, c, p, w, d), w \notin t.red,
         NEW f, f = t[Other(d)][w], f \in t.red,
         NEW C, C = IF p \in t.red THEN {w} ELSE {},
         NEW r, r = Rotate(Paint(Paint(t, C, {w} \ C), {}, {p, f}), d, p)
  PROVE  Placed(r, L, s, at) /\ Balanced(r, L)
<1> DEFINE v == Paint(Paint(t, C, {w} \ C), {}, {p, f})
<1>1. Formed(t, L)  BY PlacedFormed
<1>2. v = Paint(Paint(t, C, {w} \ C), {}, {p, f}) /\ r = Rotate(v, d, p)  OBVIOUS
<1>3. t \in Trees /\ L \subseteq Nodes /\ NIL \notin L
  BY <1>1, NodesAssumption DEF Formed, Shape
<1>4. p \in L /\ d \in Sides /\ w \in L /\ w = t[Other(d)][p]  BY DEF Short
<1>5. C \in SUBSET Nodes /\ {} \in SUBSET Nodes /\ w # NIL /\ Other(d) \in Sides
  BY <1>3, <1>4 DEF Other, Sides
<1>6. Placed(Paint(t, C, {w} \ C), L, s, at)  BY <1>5, PaintKeepsPlaced
<1>7. Placed(v, L, s, at)  BY <1>5, <1>6, PaintKeepsPlaced
<1>8. v[Other(d)][p] = w
  <2>1. /\ Paint(t, C, {w} \ C) \in Trees
        /\ Paint(t, C, {w} \ C).left = t.left /\ Paint(t, C, {w} \ C).right = t.right
    BY <1>3, <1>5 DEF Trees, Paint
  <2>2. v.left = t.left /\ v.right = t.right  BY <2>1 DEF Trees, Paint
  <2> QED  BY <1>4, <1>5, <2>2 DEF Sides
<1> HIDE DEF v
<1>9. Placed(r, L, s, at)  BY <1>2, <1>4, <1>5, <1>7, <1>8, RotateKeepsPlaced
<1>10. (\E k : Even(r, L, k, NIL, "left")) /\ Clean(r, L, NULL)  BY <1>1, <1>2, LastTurn
<1> QED  BY <1>9, <1>10 DEF Balanced

LEMMA ToFarSide ==
  ASSUME NEW t, NEW L, NEW s, NEW at, Placed(t, L, s, at), NEW h, NEW c, NEW p, NEW w, NEW d,
         Short(t, L, h, c, p, w, d), w \notin t.red, t[Other(d)][w] \notin t.red,
         NEW z, z = t[d][w], z \in t.red,
         NEW r, r = Rotate(Paint(t, {w}, {z}), Other(d), w)
  PROVE  Placed(r, L, s, at) /\ (\E k : Short(r, L, k, c, p, z, d)) /\ Straight(r, p, z, w, d)
<1> DEFINE v == Paint(t, {w}, {z})
<1>1. Formed(t, L)  BY PlacedFormed
<1>2. v = Paint(t, {w}, {z}) /\ r = Rotate(v, Other(d), w)  OBVIOUS
<1>3. t \in Trees /\ L \subseteq Nodes /\ NIL \notin Nodes
  BY <1>1, NodesAssumption DEF Formed, Shape
<1>4. d \in Sides /\ w \in L  BY DEF Short
<1>5. {w} \in SUBSET Nodes /\ z # NIL /\ Other(d) \in Sides /\ Other(Other(d)) = d
  BY <1>3, <1>4 DEF Other, Sides, Trees
<1>6. Placed(v, L, s, at)  BY <1>5, PaintKeepsPlaced
<1>7. v[Other(Other(d))][w] = z
  <2>1. v.left = t.left /\ v.right = t.right  BY <1>3 DEF Trees, Paint
  <2>2. v[d] = t[d]  BY <1>4, <2>1 DEF Sides
  <2> QED  BY <1>5, <2>2
<1> HIDE DEF v
<1>8. Placed(r, L, s, at)  BY <1>2, <1>4, <1>5, <1>6, <1>7, RotateKeepsPlaced
<1>9. (\E k : Short(r, L, k, c, p, z, d)) /\ Straight(r, p, z, w, d)
  BY <1>1, <1>2, NearTurn
<1> QED  BY <1>8, <1>9

-----------------------------------------------------------------------------
(* The colours of the tree while the loops run.                            *)
Coloured(t, L, w, c) ==
    \/ w = "idle" /\ c = NIL /\ Balanced(t, L)
    \/ w = "insert" /\ \E h : InsertBalance(t, L, h, c)
    \/ w = "delete" /\ \E h : DeleteBalance(t, L, h, c)

Kept(s, at) == Placed(tree', linked', s, at) /\ Coloured(tree', linked', pc', cur')

LEMMA InsertRecoloursKeeps ==
  ASSUME NEW s, NEW at, Placed(tree, linked, s, at), Coloured(tree, linked, pc, cur),
         InsertRecolours
  PROVE  Kept(s, at)
<1>1. Formed(tree, linked)  BY PlacedFormed
<1>2. PICK h : InsertBalance(tree, linked, h, cur)  BY DEF InsertRecolours, Coloured
<1>3. RedPair(tree, linked, cur, Parent, Grand, Uncle, Side(tree, Parent))
  BY <1>1, <1>2, RedParent DEF InsertRecolours, RedRed, Parent, Grand, Uncle
<1>4. tree' = Paint(tree, {Grand}, {Parent, Uncle}) /\ Uncle \in tree.red
      /\ pc' = "insert" /\ linked' = linked /\ cur' = Grand
  BY DEF InsertRecolours
<1>5. \E k : InsertBalance(tree', linked, k, Grand)  BY <1>1, <1>2, <1>3, <1>4, RecoloursBalance
<1>6. {Grand} \in SUBSET Nodes  BY <1>1, <1>3 DEF RedPair, Formed, Shape
<1>7. Placed(tree', linked, s, at)  BY <1>4, <1>6, PaintKeepsPlaced
<1> QED  BY <1>4, <1>5, <1>7 DEF Kept, Coloured

LEMMA InsertRotatesKeeps ==
  ASSUME NEW s, NEW at, Placed(tree, linked, s, at), Coloured(tree, linked, pc, cur),
         InsertRotates
  PROVE  Kept(s, at) /\ ~RedRed'
<1>1. Formed(tree, linked)  BY PlacedFormed
<1>2. PICK h : InsertBalance(tree, linked, h, cur)  BY DEF InsertRotates, Coloured
<1>3. PICK p, g, u, d : p = Parent /\ g = Grand /\ u = Uncle /\ d = Side(tree, Parent)
  OBVIOUS
<1>4. RedPair(tree, linked, cur, p, g, u, d)
  BY <1>1, <1>2, <1>3, RedParent DEF InsertRotates, RedRed, Parent, Grand, Uncle
<1>5. u \notin tree.red /\ pc' = "insert" /\ linked' = linked  BY <1>3 DEF InsertRotates
<1>6. /\ tree.parent[cur] = p /\ tree.parent[p] = g /\ cur \in linked /\ cur # tree.root
      /\ d \in Sides
  BY <1>2, <1>4 DEF RedPair, InsertBalance
<1>7. Side(tree, cur) \in Sides /\ tree[Side(tree, cur)][p] = cur  BY <1>1, <1>6, HangsOn
<1>8. CASE Side(tree, cur) = d
  <2>1. tree' = Rotate(Paint(tree, {g}, {p}), Other(d), g) /\ cur' = cur
    BY <1>3, <1>6, <1>8 DEF InsertRotates, Parent
  <2>2. cur = tree[d][p]  BY <1>7, <1>8
  <2>3. /\ Placed(tree', linked, s, at) /\ \E k : InsertBalance(tree', linked, k, cur)
        /\ tree'.parent[cur] \notin tree'.red
    <3>1. u \notin tree.red  BY <1>5
    <3>2. tree' = Rotate(Paint(tree, {g}, {p}), Other(d), g)  BY <2>1
    <3>3. Placed(tree, linked, s, at) /\ InsertBalance(tree, linked, h, cur)  BY <1>2
    <3>4. RedPair(tree, linked, cur, p, g, u, d)  BY <1>4
    <3> QED  BY ONLY <2>2, <3>1, <3>2, <3>3, <3>4, OuterTurn, ZenonT(60)
  <2> QED  BY <1>5, <2>1, <2>3 DEF Kept, Coloured, RedRed
<1>9. CASE Side(tree, cur) # d
  <2> DEFINE t == Rotate(tree, d, p)
  <2>1. cur = tree[Other(d)][p]  BY <1>6, <1>7, <1>9 DEF Sides, Other
  <2>2. /\ Placed(t, linked, s, at) /\ InsertBalance(t, linked, h, p)
        /\ RedPair(t, linked, p, cur, g, u, d)
        /\ p = t[d][cur] /\ u \notin t.red /\ t.parent[p] = cur /\ t.parent[cur] = g
    BY <1>2, <1>4, <1>5, <2>1, InnerTurn
  <2>3. /\ tree' = Rotate(Paint(t, {t.parent[t.parent[p]]}, {t.parent[p]}), Other(d),
                          t.parent[t.parent[p]])
        /\ cur' = p
    BY <1>3, <1>9 DEF InsertRotates
  <2> HIDE DEF t
  <2>4. tree' = Rotate(Paint(t, {g}, {cur}), Other(d), g)  BY <2>2, <2>3
  <2>5. /\ Placed(tree', linked, s, at) /\ \E k : InsertBalance(tree', linked, k, p)
        /\ tree'.parent[p] \notin tree'.red
    BY <2>2, <2>4, OuterTurn
  <2> QED  BY <1>5, <2>3, <2>5 DEF Kept, Coloured, RedRed
<1> QED  BY <1>8, <1>9

LEMMA InsertDoneKeeps ==
  ASSUME NEW s, NEW at, Placed(tree, linked, s, at), Coloured(tree, linked, pc, cur),
         InsertDone
  PROVE  Kept(s, at)
<1>1. Formed(tree, linked)  BY PlacedFormed
<1>2. PICK h : InsertBalance(tree, linked, h, cur)  BY DEF InsertDone, Coloured
<1>3. /\ tree' = Paint(tree, {}, {tree.root}) /\ pc' = "idle" /\ cur' = NIL /\ linked' = linked
      /\ cur # tree.root => tree.parent[cur] \notin tree.red
  BY DEF InsertDone, RedRed
<1>4. Balanced(tree', linked)  BY <1>1, <1>2, <1>3, InsertEnds
<1>5. {} \in SUBSET Nodes  OBVIOUS
<1>6. Placed(tree', linked, s, at)  BY <1>3, <1>5, PaintKeepsPlaced
<1> QED  BY <1>3, <1>4, <1>6 DEF Kept, Coloured

LEMMA DeleteRecoloursKeeps ==
  ASSUME NEW s, NEW at, Placed(tree, linked, s, at), Coloured(tree, linked, pc, cur),
         DeleteRecolours
  PROVE  Kept(s, at)
<1>1. Formed(tree, linked)  BY PlacedFormed
<1>2. PICK h : DeleteBalance(tree, linked, h, cur)  BY DEF DeleteRecolours, Coloured
<1>3. PICK p, w, d, t : /\ p = Parent /\ w = Sibling(tree, cur) /\ d = Side(tree, cur)
                        /\ t = BlackSibling(d)
  OBVIOUS
<1>4. Short(tree, linked, h, cur, p, w, d)
  BY <1>1, <1>2, <1>3, ShortSide DEF DeleteRecolours, ShortBranch, Parent
<1>5. t = IF w \in tree.red THEN Rotate(Paint(tree, {p}, {w}), d, p) ELSE tree
  BY <1>3 DEF BlackSibling
<1>6. Placed(t, linked, s, at) /\ \E k, z : Short(t, linked, k, cur, p, z, d) /\ z \notin t.red
  BY <1>4, <1>5, SiblingIsBlack
<1>7. PICK k, z : Short(t, linked, k, cur, p, z, d) /\ z \notin t.red  BY <1>6
<1>8. z = t[Other(d)][p] /\ z \in linked  BY <1>7 DEF Short
<1>9. /\ {t.left[z], t.right[z]} \cap t.red = {} /\ tree' = Paint(t, {z}, {})
      /\ cur' = p /\ linked' = linked /\ pc' = "delete"
  BY <1>3, <1>8 DEF DeleteRecolours
<1>10. \A f \in Sides : t[f][z] \notin t.red  BY <1>9 DEF Sides
<1>11. Formed(t, linked)  BY <1>6, PlacedFormed
<1>12. \E m : DeleteBalance(tree', linked, m, p)  BY <1>7, <1>9, <1>10, <1>11, RecolourShort
<1>13. {z} \in SUBSET Nodes  BY <1>8, <1>11 DEF Formed, Shape
<1>14. Placed(tree', linked, s, at)  BY <1>6, <1>9, <1>13, PaintKeepsPlaced
<1> QED  BY <1>9, <1>12, <1>14 DEF Kept, Coloured

LEMMA DeleteRotatesKeeps ==
  ASSUME NEW s, NEW at, Placed(tree, linked, s, at), Coloured(tree, linked, pc, cur),
         DeleteRotates
  PROVE  Kept(s, at)
<1>1. Formed(tree, linked)  BY PlacedFormed
<1>2. PICK h : DeleteBalance(tree, linked, h, cur)  BY DEF DeleteRotates, Coloured
<1>3. PICK p, x, d, t : /\ p = Parent /\ x = Sibling(tree, cur) /\ d = Side(tree, cur)
                        /\ t = BlackSibling(d)
  OBVIOUS
<1>4. Short(tree, linked, h, cur, p, x, d)
  BY <1>1, <1>2, <1>3, ShortSide DEF DeleteRotates, ShortBranch, Parent
<1>5. t = IF x \in tree.red THEN Rotate(Paint(tree, {p}, {x}), d, p) ELSE tree
  BY <1>3 DEF BlackSibling
<1>6. Placed(t, linked, s, at) /\ \E k, z : Short(t, linked, k, cur, p, z, d) /\ z \notin t.red
  BY <1>4, <1>5, SiblingIsBlack
<1>7. PICK k, w : Short(t, linked, k, cur, p, w, d) /\ w \notin t.red  BY <1>6
<1>8. w = t[Other(d)][p] /\ d \in Sides  BY <1>7 DEF Short
<1>9. PICK u : u = IF t[Other(d)][w] \notin t.red
                   THEN Rotate(Paint(t, {w}, {t[d][w]}), Other(d), w) ELSE t
  OBVIOUS
<1>21. PICK v : v = u[Other(d)][p]  OBVIOUS
<1>22. PICK C : C = IF p \in u.red THEN {v} ELSE {}  OBVIOUS
<1>10. v = u[Other(d)][p] /\ C = IF p \in u.red THEN {v} ELSE {}  BY <1>21, <1>22
<1>11. /\ {t.left[w], t.right[w]} \cap t.red # {}
       /\ tree' = Rotate(Paint(Paint(u, C, {v} \ C), {}, {p, u[Other(d)][v]}), d, p)
       /\ cur' = tree'.root /\ linked' = linked /\ pc' = "delete"
  <2> DEFINE d0 == Side(tree, cur)
             t0 == BlackSibling(d0)
             w0 == t0[Other(d0)][Parent]
             u0 == IF t0[Other(d0)][w0] \notin t0.red
                   THEN Rotate(Paint(t0, {w0}, {t0[d0][w0]}), Other(d0), w0) ELSE t0
             v0 == u0[Other(d0)][Parent]
             C0 == IF Parent \in u0.red THEN {v0} ELSE {}
  <2>1. /\ {t0.left[w0], t0.right[w0]} \cap t0.red # {}
        /\ tree' = Rotate(Paint(Paint(u0, C0, {v0} \ C0), {}, {Parent, u0[Other(d0)][v0]}), d0, Parent)
        /\ cur' = tree'.root
    BY Zenon DEF DeleteRotates
  <2>0. linked' = linked /\ pc' = "delete"
    <3>1. pc = "delete" /\ UNCHANGED <<key, linked, pc>>  BY Zenon DEF DeleteRotates
    <3> QED  BY ONLY <3>1
  <2>2. d0 = d /\ t0 = t  BY <1>3
  <2> HIDE DEF d0, t0
  <2>3. w0 = w  BY <1>3, <1>8, <2>2
  <2> HIDE DEF w0
  <2>4. u0 = u  BY <1>9, <2>2, <2>3
  <2> HIDE DEF u0
  <2>5. v0 = v  BY <1>3, <1>10, <2>2, <2>4
  <2> HIDE DEF v0
  <2>6. C0 = C  BY <1>3, <1>10, <2>4, <2>5
  <2> HIDE DEF C0
  <2> QED  BY <1>3, <2>0, <2>1, <2>2, <2>3, <2>4, <2>5, <2>6
<1>12. /\ Placed(u, linked, s, at) /\ \E m : Short(u, linked, m, cur, p, v, d)
       /\ v \notin u.red /\ u[Other(d)][v] \in u.red
  <2>1. CASE t[Other(d)][w] \in t.red
    <3>1. u = t /\ v = w  BY <1>8, <1>9, <1>10, <2>1
    <3> QED  BY <1>6, <1>7, <2>1, <3>1
  <2>2. CASE t[Other(d)][w] \notin t.red
    <3>0. PICK z : z = t[d][w]  OBVIOUS
    <3>1. z \in t.red  BY <1>8, <1>11, <2>2, <3>0 DEF Sides, Other
    <3>2. u = Rotate(Paint(t, {w}, {z}), Other(d), w)  BY <1>9, <2>2, <3>0
    <3>3. /\ Placed(u, linked, s, at) /\ \E m : Short(u, linked, m, cur, p, z, d)
          /\ z \notin u.red /\ u[Other(d)][p] = z /\ u[Other(d)][z] \in u.red
      <4>1. Placed(t, linked, s, at)  BY <1>6
      <4>2. Short(t, linked, k, cur, p, w, d) /\ w \notin t.red  BY <1>7
      <4>3. /\ Placed(u, linked, s, at) /\ (\E m : Short(u, linked, m, cur, p, z, d))
            /\ Straight(u, p, z, w, d)
        BY <2>2, <3>0, <3>1, <3>2, <4>1, <4>2, ToFarSide
      <4> QED  BY <4>3 DEF Straight
    <3> QED  BY <1>10, <3>3
  <2> QED  BY <2>1, <2>2
<1>13. Placed(tree', linked, s, at) /\ Balanced(tree', linked)
  BY <1>10, <1>11, <1>12, FarTurn
<1>14. tree'.root \in linked
  <2>1. Formed(tree', linked)  BY <1>13, PlacedFormed
  <2>2. linked # {}  BY <1>4 DEF Short
  <2> QED  BY <2>1, <2>2 DEF Formed, Shape, Links
<1>15. \E m : DeleteBalance(tree', linked, m, tree'.root)
  <2>1. PICK m : Even(tree', linked, m, NIL, "left")  BY <1>13 DEF Balanced
  <2>2. NULL \notin Nodes /\ NULL # NIL  BY NodesAssumption
  <2>3. tree'.red \subseteq Nodes  BY <1>13 DEF Placed, Shape, Trees
  <2>4. Clean(tree', linked, tree'.root)  BY <1>13, <2>2, <2>3 DEF Balanced, Clean
  <2>5. DeleteBalance(tree', linked, m, tree'.root)  BY <1>14, <2>1, <2>4 DEF DeleteBalance
  <2> QED  BY <2>5
<1> QED  BY <1>11, <1>13, <1>15 DEF Kept, Coloured

LEMMA DeleteDoneKeeps ==
  ASSUME NEW s, NEW at, Placed(tree, linked, s, at), Coloured(tree, linked, pc, cur),
         DeleteDone
  PROVE  Kept(s, at)
<1>1. Formed(tree, linked)  BY PlacedFormed
<1>2. PICK h : DeleteBalance(tree, linked, h, cur)  BY DEF DeleteDone, Coloured
<1>3. PICK t : t = Paint(tree, {}, {cur})  OBVIOUS
<1>4. /\ tree' = Stale(t, NIL) /\ pc' = "idle" /\ cur' = NIL /\ linked' = linked
      /\ cur = tree.root \/ cur \in tree.red
  BY <1>3 DEF DeleteDone, ShortBranch
<1>5. Balanced(t, linked)  BY <1>1, <1>2, <1>3, <1>4, DeleteEnds
<1>6. {} \in SUBSET Nodes  OBVIOUS
<1>7. Placed(t, linked, s, at)  BY <1>3, <1>6, PaintKeepsPlaced
<1>8. Placed(tree', linked, s, at) /\ Balanced(tree', linked)  BY <1>4, <1>5, <1>7, StaleKeeps
<1> QED  BY <1>4, <1>8 DEF Kept, Coloured

-----------------------------------------------------------------------------
(* Induction, for a set of numbers and for a set of nodes.                 *)
LEMMA NumbersFromZero ==
  ASSUME NEW S, 0 \in S, \A n \in Nat : n \in S => n + 1 \in S
  PROVE  Nat \subseteq S
<1>1. SUFFICES ASSUME NEW n \in Nat, n \notin S PROVE FALSE  OBVIOUS
<1> DEFINE T == S \cap 0 .. n
           R == T \ {0}
           f == [i \in T |-> i + 1]
<1>2. IsFiniteSet(0 .. n)  BY FS_Interval
<1>3. IsFiniteSet(T)  BY <1>2, FS_Subset
<1>4. IsFiniteSet(R) /\ Cardinality(R) = Cardinality(T) - 1  BY <1>3, FS_RemoveElement
<1>5. Cardinality(T) \in Nat  BY <1>3, FS_CardinalityType
<1>6. f \in [T -> R]
  <2>1. ASSUME NEW i \in T PROVE i + 1 \in R  BY <1>1
  <2> QED  BY <2>1
<1>7. \E x, y \in T : x # y /\ f[x] = f[y]
  <2> HIDE DEF T, R, f
  <2> QED  BY <1>3, <1>4, <1>5, <1>6, FS_PigeonHole
<1> QED  BY <1>7

(* What the children hand on to their parent holds of all nodes.           *)
LEMMA NodesFromBelow ==
  ASSUME NEW t, NEW L, NEW s, NEW at, NEW lo, NEW hi, Shape(t, L, s, at, lo, hi),
         NEW S, \A y \in L : (\A d \in Sides : t[d][y] # NIL => t[d][y] \in S) => y \in S
  PROVE  L \subseteq S
<1> DEFINE T == {n \in Nat : \A y \in L : hi[y] - lo[y] < n => y \in S}
<1>1. L \subseteq Nodes /\ Links(t, L) /\ Spans(t, L, at, lo, hi) /\ at \in [Nodes -> Int]
  BY DEF Shape, Listed
<1>2. ASSUME NEW y \in L
      PROVE  /\ lo[y] \in Int /\ hi[y] \in Int /\ at[y] \in Int
             /\ lo[y] <= at[y] /\ at[y] <= hi[y]
  BY <1>1 DEF Spans
<1>3. ASSUME NEW y \in L, NEW d \in Sides, t[d][y] # NIL
      PROVE  t[d][y] \in L /\ hi[t[d][y]] - lo[t[d][y]] < hi[y] - lo[y]
  <2>1. t[d][y] \in L  BY <1>1, <1>3 DEF Links
  <2>2. CASE d = "left"
    <3>1. lo[t[d][y]] = lo[y] /\ hi[t[d][y]] = at[y] - 1  BY <1>1, <1>3, <2>2 DEF Spans
    <3> QED  BY <1>2, <2>1, <3>1
  <2>3. CASE d = "right"
    <3>1. lo[t[d][y]] = at[y] + 1 /\ hi[t[d][y]] = hi[y]  BY <1>1, <1>3, <2>3 DEF Spans
    <3> QED  BY <1>2, <2>1, <3>1
  <2> QED  BY <2>2, <2>3 DEF Sides
<1>4. 0 \in T  BY <1>2
<1>5. ASSUME NEW n \in Nat, n \in T PROVE n + 1 \in T
  <2>1. ASSUME NEW y \in L, hi[y] - lo[y] < n + 1 PROVE y \in S
    <3>1. ASSUME NEW d \in Sides, t[d][y] # NIL PROVE t[d][y] \in S
      <4>1. t[d][y] \in L /\ hi[t[d][y]] - lo[t[d][y]] < hi[y] - lo[y]  BY <1>3, <3>1
      <4>2. hi[t[d][y]] - lo[t[d][y]] < n  BY <1>2, <2>1, <4>1
      <4> QED  BY <1>5, <4>1, <4>2
    <3> QED  BY <3>1
  <2> QED  BY <2>1
<1>6. Nat \subseteq T
  <2> HIDE DEF T
  <2> QED  BY <1>4, <1>5, NumbersFromZero
<1>7. ASSUME NEW y \in L PROVE y \in S
  <2>1. hi[y] - lo[y] + 1 \in T /\ hi[y] - lo[y] < hi[y] - lo[y] + 1  BY <1>2, <1>6
  <2> QED  BY <2>1
<1> QED  BY <1>7

(* A search that goes from node to node, each time closer to its end, has  *)
(* a result.                                                               *)
Closing(next, rank, N) ==
    /\ N \in Nat /\ rank \in [Nodes -> 0 .. N]
    /\ \A y \in Nodes : next[y] \in Nodes => rank[next[y]] < rank[y]

HasResult(next, last) ==
    \E f : f = [y \in Nodes |-> IF next[y] \in Nodes THEN f[next[y]] ELSE last[y]]

LEMMA SearchEnds ==
  ASSUME NEW next, NEW last, NEW N, NEW rank, Closing(next, rank, N)
  PROVE  HasResult(next, last)
<1>0. /\ N \in Nat /\ rank \in [Nodes -> 0 .. N]
      /\ \A y \in Nodes : next[y] \in Nodes => rank[next[y]] < rank[y]
  BY DEF Closing
<1> DEFINE T == {n \in Nat : \E f : \A y \in Nodes : rank[y] < n =>
                    f[y] = IF next[y] \in Nodes THEN f[next[y]] ELSE last[y]}
<1>1. 0 \in T  BY <1>0
<1>2. ASSUME NEW n \in Nat, n \in T PROVE n + 1 \in T
  <2>1. PICK f : \A y \in Nodes : rank[y] < n =>
                   f[y] = IF next[y] \in Nodes THEN f[next[y]] ELSE last[y]
    BY <1>2
  <2>2. PICK g : g = [y \in Nodes |-> IF next[y] \in Nodes THEN f[next[y]] ELSE last[y]]
    OBVIOUS
  <2>3. ASSUME NEW y \in Nodes, rank[y] < n + 1
        PROVE  g[y] = IF next[y] \in Nodes THEN g[next[y]] ELSE last[y]
    <3>1. CASE next[y] \notin Nodes  BY <2>2, <3>1
    <3>2. CASE next[y] \in Nodes
      <4>1. rank[next[y]] < n  BY <1>0, <2>3, <3>2
      <4>2. g[next[y]] = f[next[y]]  BY <2>1, <2>2, <3>2, <4>1
      <4> QED  BY <2>2, <3>2, <4>2
    <3> QED  BY <3>1, <3>2
  <2> QED  BY <2>3
<1>3. N + 1 \in T
  <2> HIDE DEF T
  <2> QED  BY <1>0, <1>1, <1>2, NumbersFromZero
<1>4. PICK f : \A y \in Nodes : rank[y] < N + 1 =>
                 f[y] = IF next[y] \in Nodes THEN f[next[y]] ELSE last[y]
  BY <1>3
<1>5. PICK g : g = [y \in Nodes |-> f[y]]  OBVIOUS
<1>6. ASSUME NEW y \in Nodes
      PROVE  g[y] = IF next[y] \in Nodes THEN g[next[y]] ELSE last[y]
  BY <1>0, <1>4, <1>5
<1> QED  BY <1>5, <1>6 DEF HasResult

LEMMA SpansWithin ==
  ASSUME NEW t, NEW L, NEW s, NEW at, NEW lo, NEW hi, Shape(t, L, s, at, lo, hi)
  PROVE  \A y \in L : /\ 1 <= lo[y] /\ lo[y] <= at[y] /\ at[y] <= hi[y] /\ hi[y] <= Len(s)
                     /\ lo[y] \in Int /\ hi[y] \in Int /\ at[y] \in Int /\ Len(s) \in Nat
<1> DEFINE S == {y \in L : 1 <= lo[y] /\ hi[y] <= Len(s)}
<1>1. /\ L \subseteq Nodes /\ Spans(t, L, at, lo, hi) /\ at \in [Nodes -> Int] /\ Len(s) \in Nat
      /\ \A y \in L : at[y] \in 1 .. Len(s)
  BY DEF Shape, Listed
<1>2. ASSUME NEW y \in L
      PROVE  /\ lo[y] \in Int /\ hi[y] \in Int /\ at[y] \in Int
             /\ lo[y] <= at[y] /\ at[y] <= hi[y] /\ 1 <= at[y] /\ at[y] <= Len(s)
  BY <1>1 DEF Spans
<1>3. ASSUME NEW y \in L, \A d \in Sides : t[d][y] # NIL => t[d][y] \in S
      PROVE  y \in S
  <2>1. t.left[y] # NIL => t.left[y] \in S  BY <1>3 DEF Sides
  <2>2. t.right[y] # NIL => t.right[y] \in S  BY <1>3 DEF Sides
  <2>3. 1 <= lo[y]
    <3>1. CASE t.left[y] = NIL
      <4>1. lo[y] = at[y]  BY <1>1, <3>1 DEF Spans
      <4> QED  BY <1>2, <4>1
    <3>2. CASE t.left[y] # NIL
      <4>1. lo[t.left[y]] = lo[y]  BY <1>1, <3>2 DEF Spans
      <4> QED  BY <2>1, <3>2, <4>1
    <3> QED  BY <3>1, <3>2
  <2>4. hi[y] <= Len(s)
    <3>1. CASE t.right[y] = NIL
      <4>1. hi[y] = at[y]  BY <1>1, <3>1 DEF Spans
      <4> QED  BY <1>2, <4>1
    <3>2. CASE t.right[y] # NIL
      <4>1. hi[t.right[y]] = hi[y]  BY <1>1, <3>2 DEF Spans
      <4> QED  BY <2>2, <3>2, <4>1
    <3> QED  BY <3>1, <3>2
  <2> QED  BY <2>3, <2>4
<1>4. L \subseteq S
  <2> HIDE DEF S
  <2> QED  BY <1>3, NodesFromBelow
<1> QED  BY <1>1, <1>2, <1>4

LEMMA DescentEnds ==
  ASSUME NEW t, NEW L, NEW s, NEW at, NEW lo, NEW hi, Shape(t, L, s, at, lo, hi), Loose(t, L),
         NEW next, NEW last, \A y \in Nodes : \E d \in Sides : next[y] = t[d][y]
  PROVE  \E f : f = [y \in Nodes |-> IF next[y] \in Nodes THEN f[next[y]] ELSE last[y]]
<1> DEFINE rank == [y \in Nodes |-> IF y \in L THEN hi[y] - lo[y] ELSE 0]
           N == Len(s)
<1>1. N \in Nat /\ L \subseteq Nodes /\ NIL \notin Nodes /\ NULL \notin Nodes
      /\ Links(t, L) /\ Spans(t, L, at, lo, hi)
  BY NodesAssumption DEF Shape, Listed
<1>2. \A y \in L : /\ 1 <= lo[y] /\ lo[y] <= at[y] /\ at[y] <= hi[y] /\ hi[y] <= Len(s)
                  /\ lo[y] \in Int /\ hi[y] \in Int /\ at[y] \in Int /\ Len(s) \in Nat
  BY SpansWithin
<1>3. rank \in [Nodes -> 0 .. N]
  <2>1. ASSUME NEW y \in Nodes PROVE (IF y \in L THEN hi[y] - lo[y] ELSE 0) \in 0 .. N
    BY <1>1, <1>2
  <2> QED  BY <2>1
<1>4. ASSUME NEW y \in Nodes, next[y] \in Nodes PROVE rank[next[y]] < rank[y]
  <2>1. PICK d \in Sides : next[y] = t[d][y]  OBVIOUS
  <2>2. y \in L  BY <1>1, <1>4, <2>1 DEF Loose
  <2>3. next[y] \in L /\ next[y] # NIL  BY <1>1, <1>4, <2>1, <2>2 DEF Links
  <2>4. CASE d = "left"
    <3>1. lo[next[y]] = lo[y] /\ hi[next[y]] = at[y] - 1
      BY <1>1, <2>1, <2>2, <2>3, <2>4 DEF Spans
    <3> QED  BY <1>1, <1>2, <2>2, <2>3, <3>1
  <2>5. CASE d = "right"
    <3>1. lo[next[y]] = at[y] + 1 /\ hi[next[y]] = hi[y]
      BY <1>1, <2>1, <2>2, <2>3, <2>5 DEF Spans
    <3> QED  BY <1>1, <1>2, <2>2, <2>3, <3>1
  <2> QED  BY <2>4, <2>5 DEF Sides
<1> HIDE DEF rank, N
<1>5. N \in Nat  BY <1>1
<1>6. \A y \in Nodes : next[y] \in Nodes => rank[next[y]] < rank[y]  BY <1>4
<1>7. Closing(next, rank, N)  BY <1>3, <1>5, <1>6 DEF Closing
<1>8. HasResult(next, last)  BY <1>7, SearchEnds
<1> QED  BY <1>8 DEF HasResult

(* vs_rbtree_min() of the branch of x is the first node of the branch.     *)
LEMMA LeftmostIsFirst ==
  ASSUME NEW t, NEW L, NEW s, NEW at, NEW lo, NEW hi, Shape(t, L, s, at, lo, hi), Loose(t, L),
         NEW x \in L, NEW m, m = Leftmost(t, x)
  PROVE  m \in L /\ t.left[m] = NIL /\ at[m] = lo[x]
<1> DEFINE F(f) == f = [y \in Nodes |-> IF t.left[y] \in Nodes THEN f[t.left[y]] ELSE y]
           g == CHOOSE f : F(f)
<1>1. \E f : F(f)
  <2> DEFINE next == [y \in Nodes |-> t.left[y]]
             last == [y \in Nodes |-> y]
  <2>1. \A y \in Nodes : \E d \in Sides : next[y] = t[d][y]  BY DEF Sides
  <2>2. \E f : f = [y \in Nodes |-> IF next[y] \in Nodes THEN f[next[y]] ELSE last[y]]
    <3> HIDE DEF next, last
    <3> QED  BY <2>1, DescentEnds
  <2>3. PICK f : f = [y \in Nodes |-> IF next[y] \in Nodes THEN f[next[y]] ELSE last[y]]
    BY <2>2
  <2>4. F(f)  BY <2>3
  <2> QED  BY <2>4
<1>2. F(g)  BY <1>1
<1>3. Leftmost(t, x) = g[x]  BY DEF Leftmost
<1> HIDE DEF g
<1>4. \A y \in Nodes : g[y] = IF t.left[y] \in Nodes THEN g[t.left[y]] ELSE y  BY <1>2
<1>5. /\ L \subseteq Nodes /\ NIL \notin Nodes /\ Links(t, L) /\ Spans(t, L, at, lo, hi)
  BY NodesAssumption DEF Shape
<1> DEFINE S == {y \in L : g[y] \in L /\ t.left[g[y]] = NIL /\ at[g[y]] = lo[y]}
<1>6. ASSUME NEW y \in L, \A d \in Sides : t[d][y] # NIL => t[d][y] \in S
      PROVE  y \in S
  <2>1. CASE t.left[y] = NIL
    <3>1. g[y] = y /\ lo[y] = at[y]  BY <1>4, <1>5, <2>1 DEF Spans
    <3> QED  BY <2>1, <3>1
  <2>2. CASE t.left[y] # NIL
    <3>1. t.left[y] \in S  BY <1>6, <2>2 DEF Sides
    <3>2. t.left[y] \in Nodes  BY <1>5, <3>1
    <3>3. g[y] = g[t.left[y]] /\ lo[t.left[y]] = lo[y]  BY <1>4, <1>5, <2>2, <3>2 DEF Spans
    <3> QED  BY <3>1, <3>3
  <2> QED  BY <2>1, <2>2
<1>7. L \subseteq S
  <2> HIDE DEF S
  <2> QED  BY <1>6, NodesFromBelow
<1> QED  BY <1>3, <1>7

(* Nodes are in the order of their keys.                                   *)
Sorted(s) == \A i, j \in 1 .. Len(s) : i <= j => key[s[i]] <= key[s[j]]

(* The number of nodes before what is hung up on side p.side of p.node.    *)
Before(at, p) == IF p.side = "left" THEN at[p.node] - 1 ELSE at[p.node]

(* Where a node with key k is hung up: between those with a key of at most *)
(* k and the others.                                                       *)
Gap(t, L, s, at, k, p) ==
    /\ p.node \in L /\ p.side \in Sides /\ t[p.side][p.node] = NIL
    /\ \A i \in 1 .. Len(s) : key[s[i]] <= k <=> i <= Before(at, p)

LEMMA PositionIsGap ==
  ASSUME NEW t, NEW L, NEW s, NEW at, NEW lo, NEW hi, Shape(t, L, s, at, lo, hi), Loose(t, L),
         L # {}, key \in [Nodes -> Nat], Sorted(s), NEW k \in Nat, NEW p, p = Position(t, k)
  PROVE  Gap(t, L, s, at, k, p)
<1> DEFINE side(y) == IF k < key[y] THEN "left" ELSE "right"
           F(f) == f = [y \in Nodes |-> IF t[side(y)][y] \in Nodes THEN f[t[side(y)][y]]
                                        ELSE [node |-> y, side |-> side(y)]]
           g == CHOOSE f : F(f)
<1>1. \E f : F(f)
  <2> DEFINE next == [y \in Nodes |-> t[side(y)][y]]
             last == [y \in Nodes |-> [node |-> y, side |-> side(y)]]
  <2>1. \A y \in Nodes : \E d \in Sides : next[y] = t[d][y]  BY DEF Sides
  <2>2. \E f : f = [y \in Nodes |-> IF next[y] \in Nodes THEN f[next[y]] ELSE last[y]]
    <3> HIDE DEF next, last
    <3> QED  BY <2>1, DescentEnds
  <2>3. PICK f : f = [y \in Nodes |-> IF next[y] \in Nodes THEN f[next[y]] ELSE last[y]]
    BY <2>2
  <2>4. F(f)  BY <2>3
  <2> QED  BY <2>4
<1>2. F(g)  BY <1>1
<1>3. Position(t, k) = g[t.root]  BY DEF Position
<1> HIDE DEF g
<1>4. \A y \in Nodes : g[y] = IF t[side(y)][y] \in Nodes THEN g[t[side(y)][y]]
                              ELSE [node |-> y, side |-> side(y)]
  BY <1>2
<1>5. /\ L \subseteq Nodes /\ NIL \notin Nodes /\ Links(t, L) /\ Spans(t, L, at, lo, hi)
      /\ Listed(L, s, at)
  BY NodesAssumption DEF Shape
<1>6. \A y \in L : /\ 1 <= lo[y] /\ lo[y] <= at[y] /\ at[y] <= hi[y] /\ hi[y] <= Len(s)
                  /\ lo[y] \in Int /\ hi[y] \in Int /\ at[y] \in Int /\ Len(s) \in Nat
  BY SpansWithin
<1>7. ASSUME NEW y \in L, NEW i \in lo[y] .. hi[y]
      PROVE  /\ i \in 1 .. Len(s) /\ key[s[i]] \in Nat /\ key[y] \in Nat
             /\ i <= at[y] => key[s[i]] <= key[y]
             /\ i >= at[y] => key[s[i]] >= key[y]
  <2>1. i \in 1 .. Len(s) /\ at[y] \in 1 .. Len(s)  BY <1>6
  <2>2. s[at[y]] = y /\ s[i] \in L  BY <1>5, <2>1 DEF Listed
  <2>3. key[s[i]] \in Nat /\ key[y] \in Nat  BY <1>5, <2>2
  <2>4. i <= at[y] => key[s[i]] <= key[s[at[y]]]  BY <2>1 DEF Sorted
  <2>5. at[y] <= i => key[s[at[y]]] <= key[s[i]]  BY <2>1 DEF Sorted
  <2> QED  BY <1>6, <2>1, <2>2, <2>3, <2>4, <2>5
<1> DEFINE S == {y \in L : /\ g[y].node \in L /\ g[y].side \in Sides
                           /\ t[g[y].side][g[y].node] = NIL
                           /\ lo[y] - 1 <= Before(at, g[y]) /\ Before(at, g[y]) <= hi[y]
                           /\ \A i \in lo[y] .. hi[y] : key[s[i]] <= k <=> i <= Before(at, g[y])}
<1>8. ASSUME NEW y \in L, \A d \in Sides : t[d][y] # NIL => t[d][y] \in S
      PROVE  y \in S
  <2>0. side(y) \in Sides /\ t[side(y)][y] \in L \cup {NIL}  BY <1>5 DEF Sides, Links
  <2>1. CASE t[side(y)][y] = NIL
    <3>1. g[y] = [node |-> y, side |-> side(y)]  BY <1>4, <1>5, <2>1
    <3>2. g[y].node = y /\ g[y].side = side(y)  BY <3>1
    <3>3. CASE k < key[y]
      <4>1. side(y) = "left" /\ lo[y] = at[y]  BY <1>5, <2>1, <3>3 DEF Spans
      <4>2. Before(at, g[y]) = at[y] - 1  BY <3>2, <4>1 DEF Before
      <4>3. ASSUME NEW i \in lo[y] .. hi[y] PROVE ~(key[s[i]] <= k) /\ ~(i <= at[y] - 1)
        BY <1>6, <1>7, <3>3, <4>1
      <4> QED  BY <1>6, <2>0, <2>1, <3>2, <4>1, <4>2, <4>3
    <3>4. CASE ~(k < key[y])
      <4>1. side(y) = "right" /\ hi[y] = at[y]  BY <1>5, <2>1, <3>4 DEF Spans
      <4>2. Before(at, g[y]) = at[y]  BY <3>2, <4>1 DEF Before
      <4>3. ASSUME NEW i \in lo[y] .. hi[y] PROVE key[s[i]] <= k /\ i <= at[y]
        BY <1>6, <1>7, <3>4, <4>1
      <4> QED  BY <1>6, <2>0, <2>1, <3>2, <4>1, <4>2, <4>3
    <3> QED  BY <3>3, <3>4
  <2>2. CASE t[side(y)][y] # NIL
    <3>0. PICK u : u = t[side(y)][y]  OBVIOUS
    <3>1. u \in S /\ u \in Nodes /\ u \in L  BY <1>5, <1>8, <2>0, <2>2, <3>0
    <3>2. g[y] = g[u]  BY <1>4, <1>5, <3>0, <3>1
    <3>3. /\ g[y].node \in L /\ g[y].side \in Sides /\ t[g[y].side][g[y].node] = NIL
          /\ lo[u] - 1 <= Before(at, g[y]) /\ Before(at, g[y]) <= hi[u]
          /\ \A i \in lo[u] .. hi[u] : key[s[i]] <= k <=> i <= Before(at, g[y])
      BY <3>1, <3>2
    <3>4. PICK b : b = Before(at, g[y])  OBVIOUS
    <3>5. b \in Int
      <4>1. at[g[y].node] \in Int  BY <1>6, <3>3
      <4> QED  BY <3>4, <4>1 DEF Before
    <3>6. CASE k < key[y]
      <4>1. lo[u] = lo[y] /\ hi[u] = at[y] - 1  BY <1>5, <2>2, <3>0, <3>6 DEF Spans
      <4>2. lo[y] - 1 <= b /\ b <= hi[y]  BY <1>6, <3>3, <3>4, <3>5, <4>1
      <4>3. ASSUME NEW i \in lo[y] .. hi[y] PROVE key[s[i]] <= k <=> i <= b
        <5>1. CASE i < at[y]
          <6>1. i \in lo[u] .. hi[u]  BY <1>6, <4>1, <5>1
          <6> QED  BY <3>3, <3>4, <6>1
        <5>2. CASE i >= at[y]
          <6>1. key[s[i]] >= key[y] /\ key[y] \in Nat /\ key[s[i]] \in Nat  BY <1>7, <5>2
          <6>2. b <= at[y] - 1  BY <3>3, <3>4, <4>1
          <6> QED  BY <1>6, <3>5, <3>6, <5>2, <6>1, <6>2
        <5> QED  BY <1>6, <5>1, <5>2
      <4> QED  BY <3>3, <3>4, <4>2, <4>3
    <3>7. CASE ~(k < key[y])
      <4>1. lo[u] = at[y] + 1 /\ hi[u] = hi[y]  BY <1>5, <2>2, <3>0, <3>7 DEF Spans
      <4>2. lo[y] - 1 <= b /\ b <= hi[y]  BY <1>6, <3>3, <3>4, <3>5, <4>1
      <4>3. ASSUME NEW i \in lo[y] .. hi[y] PROVE key[s[i]] <= k <=> i <= b
        <5>1. CASE i > at[y]
          <6>1. i \in lo[u] .. hi[u]  BY <1>6, <4>1, <5>1
          <6> QED  BY <3>3, <3>4, <6>1
        <5>2. CASE i <= at[y]
          <6>1. key[s[i]] <= key[y] /\ key[y] \in Nat /\ key[s[i]] \in Nat  BY <1>7, <5>2
          <6>2. at[y] <= b  BY <1>6, <3>3, <3>4, <3>5, <4>1
          <6> QED  BY <1>6, <3>5, <3>7, <5>2, <6>1, <6>2
        <5> QED  BY <1>6, <5>1, <5>2
      <4> QED  BY <3>3, <3>4, <4>2, <4>3
    <3> QED  BY <3>6, <3>7
  <2> QED  BY <2>1, <2>2
<1>9. L \subseteq S
  <2> HIDE DEF S
  <2> QED  BY <1>8, NodesFromBelow
<1>10. t.root \in S /\ lo[t.root] = 1 /\ hi[t.root] = Len(s)  BY <1>5, <1>9 DEF Shape, Links
<1> QED  BY <1>3, <1>10 DEF Gap

-----------------------------------------------------------------------------
(* Insertion: n is hung up on side e of p, which was empty.                *)
Attached(t, e, p, n, r) ==
    /\ r \in Trees /\ r.root = t.root /\ r.red = t.red \cup {n}
    /\ r.left[n] = NIL /\ r.right[n] = NIL /\ r.parent[n] = p /\ r[e][p] = n
    /\ \A x \in Nodes \ {n} : \A d \in Sides : ~(x = p /\ d = e) => r[d][x] = t[d][x]
    /\ \A x \in Nodes \ {n} : r.parent[x] = t.parent[x]

(* s with n after its first g nodes.                                       *)
With(s, g, n) == [i \in 1 .. Len(s) + 1 |-> IF i <= g THEN s[i]
                                            ELSE IF i = g + 1 THEN n ELSE s[i - 1]]

LEMMA AttachLists ==
  ASSUME NEW L, NEW s, NEW at, L \subseteq Nodes, Listed(L, s, at),
         NEW n \in Nodes \ L, NEW g \in 0 .. Len(s), NEW s2, s2 = With(s, g, n),
         NEW at2, at2 = [x \in Nodes |-> IF x = n THEN g + 1
                                         ELSE IF at[x] > g THEN at[x] + 1 ELSE at[x]]
  PROVE  Listed(L \cup {n}, s2, at2)
<1>1. /\ s \in Seq(L) /\ at \in [Nodes -> Int] /\ Len(s) \in Nat
      /\ \A x \in L : at[x] \in 1 .. Len(s) /\ s[at[x]] = x
      /\ \A i \in 1 .. Len(s) : at[s[i]] = i /\ s[i] \in L
  BY DEF Listed
<1>2. \A i \in 1 .. Len(s) + 1 : s2[i] = IF i <= g THEN s[i] ELSE IF i = g + 1 THEN n ELSE s[i - 1]
  BY DEF With
<1>3. \A i \in 1 .. Len(s) + 1 : s2[i] \in L \cup {n}
  <2> SUFFICES ASSUME NEW i \in 1 .. Len(s) + 1 PROVE s2[i] \in L \cup {n}
    OBVIOUS
  <2>1. CASE i <= g
    <3>1. i \in 1 .. Len(s)  BY <1>1, <2>1
    <3>2. s2[i] = s[i]  BY <1>2, <2>1
    <3> QED  BY <1>1, <3>1, <3>2
  <2>2. CASE i = g + 1
    <3>1. s2[i] = n  BY <1>2, <2>2
    <3> QED  BY <3>1
  <2>3. CASE i > g + 1
    <3>1. i - 1 \in 1 .. Len(s) /\ s2[i] = s[i - 1]  BY <1>1, <1>2, <2>3
    <3> QED  BY <1>1, <3>1
  <2> QED  BY <2>1, <2>2, <2>3
<1>4. s2 \in Seq(L \cup {n}) /\ Len(s2) = Len(s) + 1
  <2>1. s2 = [i \in 1 .. Len(s) + 1 |-> s2[i]]  BY DEF With
  <2>2. s2 \in [1 .. Len(s) + 1 -> L \cup {n}]  BY <1>3, <2>1
  <2> QED  BY <1>1, <2>2
<1>5. /\ at2 \in [Nodes -> Int] /\ at2[n] = g + 1
      /\ \A x \in L : at2[x] = IF at[x] > g THEN at[x] + 1 ELSE at[x]
  <2>1. ASSUME NEW x \in Nodes
        PROVE  (IF x = n THEN g + 1 ELSE IF at[x] > g THEN at[x] + 1 ELSE at[x]) \in Int
    BY <1>1
  <2> QED  BY <2>1
<1>6. ASSUME NEW x \in L \cup {n} PROVE at2[x] \in 1 .. Len(s) + 1 /\ s2[at2[x]] = x
  <2>1. CASE x = n
    <3>1. at2[x] = g + 1 /\ g + 1 \in 1 .. Len(s) + 1  BY <1>1, <1>5, <2>1
    <3>2. s2[g + 1] = n
      <4>1. PICK j : j = g + 1  OBVIOUS
      <4>2. j \in 1 .. Len(s) + 1 /\ ~(j <= g)  BY <1>1, <4>1
      <4>3. s2[j] = n  BY <1>2, <4>1, <4>2
      <4> QED  BY <4>1, <4>3
    <3> QED  BY <2>1, <3>1, <3>2
  <2>2. CASE x \in L /\ at[x] > g
    <3>1. at2[x] = at[x] + 1 /\ at[x] \in 1 .. Len(s)  BY <1>1, <1>5, <2>2
    <3>2. PICK j : j = at2[x]  OBVIOUS
    <3>3. j \in 1 .. Len(s) + 1 /\ j > g + 1 /\ j - 1 = at[x]
      <4>1. PICK a, m : a = at[x] /\ m = Len(s)  OBVIOUS
      <4>2. a \in Int /\ m \in Nat /\ 1 <= a /\ a <= m /\ a > g /\ j = a + 1
        BY <1>1, <2>2, <3>1, <3>2, <4>1
      <4>3. j \in 1 .. m + 1 /\ j > g + 1 /\ j - 1 = a  BY <4>2
      <4> QED  BY <4>1, <4>3
    <3>4. s2[j] = s[j - 1]  BY <1>2, <3>3
    <3> QED  BY <1>1, <2>2, <3>2, <3>3, <3>4
  <2>3. CASE x \in L /\ ~(at[x] > g)
    <3>1. at2[x] = at[x] /\ at[x] \in 1 .. Len(s) /\ s[at[x]] = x  BY <1>1, <1>5, <2>3
    <3>2. PICK j : j = at2[x]  OBVIOUS
    <3>3. j \in 1 .. Len(s) + 1 /\ j <= g  BY <1>1, <2>3, <3>1, <3>2
    <3>4. s2[j] = s[j]  BY <1>2, <3>3
    <3> QED  BY <3>1, <3>2, <3>3, <3>4
  <2> QED  BY <2>1, <2>2, <2>3
<1>7. ASSUME NEW i \in 1 .. Len(s) + 1 PROVE at2[s2[i]] = i
  <2>1. CASE i <= g
    <3>1. s2[i] = s[i] /\ i \in 1 .. Len(s)  BY <1>1, <1>2, <2>1
    <3>2. s[i] \in L /\ at[s[i]] = i  BY <1>1, <3>1
    <3> QED  BY <1>5, <2>1, <3>1, <3>2
  <2>2. CASE i = g + 1  BY <1>2, <1>5, <2>2
  <2>3. CASE i > g + 1
    <3>1. i - 1 \in 1 .. Len(s) /\ s2[i] = s[i - 1]  BY <1>1, <1>2, <2>3
    <3>2. s[i - 1] \in L /\ at[s[i - 1]] = i - 1  BY <1>1, <3>1
    <3>3. at2[s[i - 1]] = i - 1 + 1  BY <1>5, <2>3, <3>2
    <3> QED  BY <3>1, <3>3
  <2> QED  BY <2>1, <2>2, <2>3
<1> QED  BY <1>4, <1>5, <1>6, <1>7 DEF Listed

LEMMA AttachKeepsLinks ==
  ASSUME NEW t, NEW L, t \in Trees, L \subseteq Nodes, Links(t, L), NEW e \in Sides, NEW p \in L,
         t[e][p] = NIL, NEW n \in Nodes \ L, NEW r, Attached(t, e, p, n, r)
  PROVE  Links(r, L \cup {n})
<1>1. NIL \notin Nodes /\ n # p  BY NodesAssumption
<1>2. /\ r.root = t.root /\ r.parent[n] = p /\ r[e][p] = n
      /\ \A d \in Sides : r[d][n] = NIL
      /\ \A x \in L : \A d \in Sides : ~(x = p /\ d = e) => r[d][x] = t[d][x]
      /\ \A x \in L : r.parent[x] = t.parent[x]
  BY DEF Attached, Sides
<1>3. t.root \in L  BY DEF Links
<1>4. ASSUME NEW x \in L \cup {n}, NEW d \in Sides
      PROVE  r[d][x] \in L \cup {n, NIL} /\ (r[d][x] # NIL => r.parent[r[d][x]] = x)
  <2>1. CASE x = n  BY <1>2, <2>1
  <2>2. CASE x = p /\ d = e  BY <1>2, <2>2
  <2>3. CASE x \in L /\ ~(x = p /\ d = e)
    <3>1. r[d][x] = t[d][x]  BY <1>2, <2>3
    <3>2. t[d][x] \in L \cup {NIL} /\ (t[d][x] # NIL => t.parent[t[d][x]] = x)
      BY <2>3 DEF Links
    <3> QED  BY <1>2, <3>1, <3>2
  <2> QED  BY <2>1, <2>2, <2>3
<1>5. ASSUME NEW x \in (L \cup {n}) \ {r.root}
      PROVE  r.parent[x] \in L \cup {n} /\ \E d \in Sides : r[d][r.parent[x]] = x
  <2>1. CASE x = n  BY <1>2, <2>1
  <2>2. CASE x # n
    <3>1. x \in L /\ x # t.root  BY <1>2, <2>2
    <3>2. PICK d \in Sides : t.parent[x] \in L /\ t[d][t.parent[x]] = x  BY <3>1 DEF Links
    <3>3. x # NIL  BY <1>1, <3>1
    <3>4. r[d][t.parent[x]] = x  BY <1>2, <3>2, <3>3
    <3> QED  BY <1>2, <3>1, <3>2, <3>4
  <2> QED  BY <2>1, <2>2
<1> QED  BY <1>2, <1>3, <1>4, <1>5 DEF Links

LEMMA AttachKeepsSpans ==
  ASSUME NEW t, NEW L, NEW at, NEW lo, NEW hi, t \in Trees, L \subseteq Nodes, Links(t, L),
         at \in [Nodes -> Int], \A x \in L : \A y \in L : at[x] = at[y] => x = y,
         Spans(t, L, at, lo, hi), NEW e \in Sides, NEW p \in L,
         t[e][p] = NIL, NEW n \in Nodes \ L, NEW r, Attached(t, e, p, n, r),
         NEW g, g = IF e = "left" THEN at[p] - 1 ELSE at[p],
         NEW at2, at2 = [x \in Nodes |-> IF x = n THEN g + 1
                                         ELSE IF at[x] > g THEN at[x] + 1 ELSE at[x]],
         NEW lo2, lo2 = [x \in Nodes |-> IF x = n THEN g + 1
                                         ELSE IF lo[x] > at[p] THEN lo[x] + 1 ELSE lo[x]],
         NEW hi2, hi2 = [x \in Nodes |-> IF x = n THEN g + 1
                                         ELSE IF hi[x] >= at[p] THEN hi[x] + 1 ELSE hi[x]]
  PROVE  Spans(r, L \cup {n}, at2, lo2, hi2)
<1>0. PICK b : b = at[p]  OBVIOUS
<1>1. NIL \notin Nodes /\ n # p /\ b \in Int /\ g \in Int  BY <1>0, NodesAssumption
<1>2. /\ r.left[n] = NIL /\ r.right[n] = NIL /\ r[e][p] = n
      /\ \A x \in L : \A d \in Sides : ~(x = p /\ d = e) => r[d][x] = t[d][x]
  BY DEF Attached
<1>3. \A x \in L : /\ lo[x] \in Int /\ hi[x] \in Int /\ at[x] \in Int
                  /\ lo[x] <= at[x] /\ at[x] <= hi[x] /\ (at[x] = b => x = p)
  BY <1>0 DEF Spans
<1>4. /\ at2 \in [Nodes -> Int] /\ lo2 \in [Nodes -> Int] /\ hi2 \in [Nodes -> Int]
      /\ at2[n] = g + 1 /\ lo2[n] = g + 1 /\ hi2[n] = g + 1
  <2>1. lo \in [Nodes -> Int] /\ hi \in [Nodes -> Int]  BY DEF Spans
  <2>2. ASSUME NEW x \in Nodes
        PROVE  /\ (IF x = n THEN g + 1 ELSE IF at[x] > g THEN at[x] + 1 ELSE at[x]) \in Int
               /\ (IF x = n THEN g + 1 ELSE IF lo[x] > at[p] THEN lo[x] + 1 ELSE lo[x]) \in Int
               /\ (IF x = n THEN g + 1 ELSE IF hi[x] >= at[p] THEN hi[x] + 1 ELSE hi[x]) \in Int
    BY <1>1, <2>1
  <2>3. at2 \in [Nodes -> Int]  BY <2>2
  <2>4. lo2 \in [Nodes -> Int]  BY <2>2
  <2>5. hi2 \in [Nodes -> Int]  BY <2>2
  <2> QED  BY <2>3, <2>4, <2>5
<1>5. \A x \in L : at2[x] = IF at[x] > g THEN at[x] + 1 ELSE at[x]
  OBVIOUS
<1>19. \A x \in L : lo2[x] = IF lo[x] > b THEN lo[x] + 1 ELSE lo[x]
  BY <1>0
<1>20. \A x \in L : hi2[x] = IF hi[x] >= b THEN hi[x] + 1 ELSE hi[x]
  BY <1>0
<1>6. ASSUME NEW x \in L
      PROVE  /\ t.left[x] = NIL => lo[x] = at[x]
             /\ t.left[x] # NIL => t.left[x] \in L /\ lo[t.left[x]] = lo[x] /\ hi[t.left[x]] = at[x] - 1
             /\ t.right[x] = NIL => hi[x] = at[x]
             /\ t.right[x] # NIL => t.right[x] \in L /\ lo[t.right[x]] = at[x] + 1 /\ hi[t.right[x]] = hi[x]
  <2>1. t.left[x] \in L \cup {NIL} /\ t.right[x] \in L \cup {NIL}  BY DEF Links, Sides
  <2> QED  BY <2>1 DEF Spans
<1>7. (e = "left" => g = b - 1) /\ (e = "right" => g = b)  BY <1>0
<1>8. ASSUME NEW x \in L, x # p
      PROVE  /\ at2[x] = IF at[x] > b THEN at[x] + 1 ELSE at[x]
             /\ at[x] # b
  BY <1>1, <1>3, <1>5, <1>19, <1>20, <1>7, <1>8 DEF Sides
<1>9. ASSUME NEW x \in L PROVE lo2[x] <= at2[x] /\ at2[x] <= hi2[x]
  <2>1. CASE x # p  BY <1>1, <1>3, <1>5, <1>19, <1>20, <1>8, <2>1
  <2>2. CASE x = p  BY <1>0, <1>1, <1>3, <1>5, <1>19, <1>20, <1>7, <2>2 DEF Sides
  <2> QED  BY <2>1, <2>2
<1>10. ASSUME NEW x \in L, t.left[x] = NIL, ~(x = p /\ e = "left") PROVE lo2[x] = at2[x]
  <2>1. lo[x] = at[x]  BY <1>6, <1>10
  <2>2. CASE x # p  BY <1>1, <1>3, <1>5, <1>19, <1>20, <1>8, <2>1, <2>2
  <2>3. CASE x = p /\ e = "right"  BY <1>0, <1>1, <1>3, <1>5, <1>19, <1>20, <1>7, <2>1, <2>3
  <2> QED  BY <1>10, <2>2, <2>3 DEF Sides
<1>11. ASSUME NEW x \in L, t.right[x] = NIL, ~(x = p /\ e = "right") PROVE hi2[x] = at2[x]
  <2>1. hi[x] = at[x]  BY <1>6, <1>11
  <2>2. CASE x # p  BY <1>1, <1>3, <1>5, <1>19, <1>20, <1>8, <2>1, <2>2
  <2>3. CASE x = p /\ e = "left"  BY <1>0, <1>1, <1>3, <1>5, <1>19, <1>20, <1>7, <2>1, <2>3
  <2> QED  BY <1>11, <2>2, <2>3 DEF Sides
<1>12. ASSUME NEW x \in L, NEW y, y = t.left[x], y # NIL
       PROVE  y \in L /\ lo2[y] = lo2[x] /\ hi2[y] = at2[x] - 1
  <2>1. y \in L /\ lo[y] = lo[x] /\ hi[y] = at[x] - 1  BY <1>6, <1>12
  <2>2. lo2[y] = lo2[x]  BY <1>5, <1>19, <1>20, <2>1
  <2>3. CASE x # p  BY <1>1, <1>3, <1>5, <1>19, <1>20, <1>8, <2>1, <2>2, <2>3
  <2>4. CASE x = p
    <3>1. e = "right"  BY <1>12, <2>4 DEF Sides
    <3> QED  BY <1>0, <1>1, <1>3, <1>5, <1>19, <1>20, <1>7, <2>1, <2>2, <2>4, <3>1
  <2> QED  BY <2>3, <2>4
<1>13. ASSUME NEW x \in L, NEW y, y = t.right[x], y # NIL
       PROVE  y \in L /\ lo2[y] = at2[x] + 1 /\ hi2[y] = hi2[x]
  <2>1. y \in L /\ lo[y] = at[x] + 1 /\ hi[y] = hi[x]  BY <1>6, <1>13
  <2>2. hi2[y] = hi2[x]  BY <1>5, <1>19, <1>20, <2>1
  <2>3. CASE x # p  BY <1>1, <1>3, <1>5, <1>19, <1>20, <1>8, <2>1, <2>2, <2>3
  <2>4. CASE x = p
    <3>1. e = "left"  BY <1>13, <2>4 DEF Sides
    <3> QED  BY <1>0, <1>1, <1>3, <1>5, <1>19, <1>20, <1>7, <2>1, <2>2, <2>4, <3>1
  <2> QED  BY <2>3, <2>4
<1>14. e = "left" => lo2[p] = g + 1 /\ at2[p] - 1 = g + 1
  <2> SUFFICES ASSUME e = "left" PROVE lo2[p] = g + 1 /\ at2[p] - 1 = g + 1  OBVIOUS
  <2>1. lo[p] = at[p] /\ g = b - 1  BY <1>6, <1>7
  <2> QED  BY <1>0, <1>1, <1>5, <1>19, <1>20, <2>1
<1>15. e = "right" => hi2[p] = g + 1 /\ at2[p] + 1 = g + 1
  <2> SUFFICES ASSUME e = "right" PROVE hi2[p] = g + 1 /\ at2[p] + 1 = g + 1  OBVIOUS
  <2>1. hi[p] = at[p] /\ g = b  BY <1>6, <1>7
  <2> QED  BY <1>0, <1>1, <1>5, <1>19, <1>20, <2>1
<1>16. ASSUME NEW x \in L, NEW y, y = r.left[x]
       PROVE  (y = NIL => lo2[x] = at2[x]) /\ (y # NIL => lo2[y] = lo2[x] /\ hi2[y] = at2[x] - 1)
  <2>1. CASE x = p /\ e = "left"
    <3>1. y = n  BY <1>2, <1>16, <2>1
    <3> QED  BY <1>1, <1>4, <1>14, <2>1, <3>1
  <2>2. CASE ~(x = p /\ e = "left")
    <3>1. y = t.left[x]  BY <1>2, <1>16, <2>2 DEF Sides
    <3>2. CASE y = NIL  BY <1>10, <2>2, <3>1, <3>2
    <3>3. CASE y # NIL  BY <1>12, <3>1, <3>3
    <3> QED  BY <3>2, <3>3
  <2> QED  BY <2>1, <2>2
<1>17. ASSUME NEW x \in L, NEW y, y = r.right[x]
       PROVE  (y = NIL => hi2[x] = at2[x]) /\ (y # NIL => lo2[y] = at2[x] + 1 /\ hi2[y] = hi2[x])
  <2>1. CASE x = p /\ e = "right"
    <3>1. y = n  BY <1>2, <1>17, <2>1
    <3> QED  BY <1>1, <1>4, <1>15, <2>1, <3>1
  <2>2. CASE ~(x = p /\ e = "right")
    <3>1. y = t.right[x]  BY <1>2, <1>17, <2>2 DEF Sides
    <3>2. CASE y = NIL  BY <1>11, <2>2, <3>1, <3>2
    <3>3. CASE y # NIL  BY <1>13, <3>1, <3>3
    <3> QED  BY <3>2, <3>3
  <2> QED  BY <2>1, <2>2
<1>18. ASSUME NEW x \in L \cup {n}
       PROVE  /\ lo2[x] <= at2[x] /\ at2[x] <= hi2[x]
              /\ r.left[x] = NIL => lo2[x] = at2[x]
              /\ r.left[x] # NIL => lo2[r.left[x]] = lo2[x] /\ hi2[r.left[x]] = at2[x] - 1
              /\ r.right[x] = NIL => hi2[x] = at2[x]
              /\ r.right[x] # NIL => lo2[r.right[x]] = at2[x] + 1 /\ hi2[r.right[x]] = hi2[x]
  <2>1. CASE x = n  BY <1>1, <1>2, <1>4, <2>1
  <2>2. CASE x \in L
    <3>1. lo2[x] <= at2[x] /\ at2[x] <= hi2[x]  BY <1>9, <2>2
    <3>2. PICK y : y = r.left[x]  OBVIOUS
    <3>3. PICK z : z = r.right[x]  OBVIOUS
    <3>4. (y = NIL => lo2[x] = at2[x]) /\ (y # NIL => lo2[y] = lo2[x] /\ hi2[y] = at2[x] - 1)
      BY <1>16, <2>2, <3>2
    <3>5. (z = NIL => hi2[x] = at2[x]) /\ (z # NIL => lo2[z] = at2[x] + 1 /\ hi2[z] = hi2[x])
      BY <1>17, <2>2, <3>3
    <3> QED  BY <3>1, <3>2, <3>3, <3>4, <3>5
  <2> QED  BY <2>1, <2>2
<1> QED  BY <1>4, <1>18 DEF Spans

LEMMA AttachKeepsPlaced ==
  ASSUME NEW t, NEW L, NEW s, NEW at, Placed(t, L, s, at), NEW e \in Sides, NEW p \in L,
         t[e][p] = NIL, NEW n \in Nodes \ L, NEW r, Attached(t, e, p, n, r),
         NEW g, g = IF e = "left" THEN at[p] - 1 ELSE at[p]
  PROVE  g \in 0 .. Len(s) /\ \E at2 : Placed(r, L \cup {n}, With(s, g, n), at2)
<1>1. PICK lo, hi : Shape(t, L, s, at, lo, hi)  BY DEF Placed
<1>2. /\ t \in Trees /\ L \subseteq Nodes /\ Links(t, L) /\ Listed(L, s, at)
      /\ Spans(t, L, at, lo, hi) /\ at \in [Nodes -> Int] /\ Len(s) \in Nat
      /\ t.root \in L /\ lo[t.root] = 1 /\ hi[t.root] = Len(s)
  <2>1. /\ t \in Trees /\ L \subseteq Nodes /\ Links(t, L) /\ Listed(L, s, at)
        /\ Spans(t, L, at, lo, hi)
        /\ L # {} => t.root \in L /\ lo[t.root] = 1 /\ hi[t.root] = Len(s)
    BY <1>1 DEF Shape, Links
  <2>2. at \in [Nodes -> Int] /\ Len(s) \in Nat  BY <2>1 DEF Listed
  <2> QED  BY <2>1, <2>2
<1>3. \A x \in L : at[x] \in 1 .. Len(s) /\ s[at[x]] = x  BY <1>2 DEF Listed
<1>4. \A x \in L : \A y \in L : at[x] = at[y] => x = y  BY <1>3
<1>5. g \in 0 .. Len(s)  BY <1>2, <1>3
<1>6. PICK at2 : at2 = [x \in Nodes |-> IF x = n THEN g + 1
                                        ELSE IF at[x] > g THEN at[x] + 1 ELSE at[x]]
  OBVIOUS
<1>7. PICK lo2 : lo2 = [x \in Nodes |-> IF x = n THEN g + 1
                                        ELSE IF lo[x] > at[p] THEN lo[x] + 1 ELSE lo[x]]
  OBVIOUS
<1>8. PICK hi2 : hi2 = [x \in Nodes |-> IF x = n THEN g + 1
                                        ELSE IF hi[x] >= at[p] THEN hi[x] + 1 ELSE hi[x]]
  OBVIOUS
<1>9. PICK s2 : s2 = With(s, g, n)  OBVIOUS
<1>10. Listed(L \cup {n}, s2, at2)
  <2>1. L \subseteq Nodes  BY <1>2
  <2>2. Listed(L, s, at)  BY <1>2
  <2> QED  BY <1>5, <1>6, <1>9, <2>1, <2>2, AttachLists
<1>11. Links(r, L \cup {n})  BY <1>2, AttachKeepsLinks
<1>12. Spans(r, L \cup {n}, at2, lo2, hi2)
  <2>1. t \in Trees /\ L \subseteq Nodes /\ Links(t, L) /\ Spans(t, L, at, lo, hi)  BY <1>2
  <2>2. at \in [Nodes -> Int]  BY <1>2
  <2> QED  BY <2>1, <2>2, <1>4, <1>6, <1>7, <1>8, AttachKeepsSpans
<1>13. r.root = t.root /\ r \in Trees  BY DEF Attached
<1>14. lo2[t.root] = 1
  <2>1. t.root \in Nodes /\ t.root # n /\ ~(1 > at[p])  BY <1>2, <1>3
  <2> QED  BY <1>2, <1>7, <2>1
<1>15. hi2[t.root] = Len(s2)
  <2>1. t.root \in Nodes /\ t.root # n /\ Len(s) >= at[p]  BY <1>2, <1>3
  <2>2. Len(s2) = Len(s) + 1  BY <1>2, <1>9 DEF With
  <2> QED  BY <1>2, <1>8, <2>1, <2>2
<1>16. Shape(r, L \cup {n}, s2, at2, lo2, hi2)
  BY <1>2, <1>10, <1>11, <1>12, <1>13, <1>14, <1>15 DEF Shape
<1>17. Loose(r, L \cup {n})
  <2>1. ASSUME NEW x \in Nodes \ (L \cup {n}), NEW d \in Sides PROVE r[d][x] = NULL
    <3>1. r[d][x] = t[d][x]  BY <2>1 DEF Attached
    <3> QED  BY <2>1, <3>1 DEF Placed, Loose
  <2> QED  BY <2>1 DEF Loose
<1> QED  BY <1>5, <1>9, <1>16, <1>17 DEF Placed

LEMMA AttachBalances ==
  ASSUME NEW t, NEW L, Formed(t, L), Balanced(t, L), NEW e \in Sides, NEW p \in L,
         t[e][p] = NIL, NEW n \in Nodes \ L, NEW r, Attached(t, e, p, n, r)
  PROVE  \E k : InsertBalance(r, L \cup {n}, k, n)
<1>1. PICK h : Even(t, L, h, NIL, "left")  BY DEF Balanced
<1>2. /\ h \in [Places -> Nat] /\ h[NIL] = 0
      /\ \A x \in L : \A d \in Sides : h[x] = h[t[d][x]] + Weight(t, x)
  <2>1. \A x \in L : x # NIL  BY NodesAssumption DEF Formed, Shape
  <2> QED  BY <1>1, <2>1 DEF Even, EvenBut
<1>3. /\ L \subseteq Nodes /\ NIL \notin Nodes /\ NULL \notin Nodes /\ t.root \in L
      /\ \A x \in L : \A d \in Sides : t[d][x] \in L \cup {NIL}
  BY NodesAssumption DEF Formed, Shape, Links
<1>4. /\ r.root = t.root /\ r.red = t.red \cup {n} /\ r[e][p] = n
      /\ \A d \in Sides : r[d][n] = NIL
      /\ \A x \in L : \A d \in Sides : ~(x = p /\ d = e) => r[d][x] = t[d][x]
  BY <1>3 DEF Attached, Sides
<1>5. PICK k : k = [h EXCEPT ![n] = 0]  OBVIOUS
<1>6. /\ k \in [Places -> Nat] /\ k[NIL] = 0 /\ k[n] = 0
      /\ \A x \in L \cup {NIL} : k[x] = h[x]
  BY <1>2, <1>3, <1>5 DEF Places
<1>7. ASSUME NEW x \in L \cup {n}, NEW d \in Sides PROVE k[x] = k[r[d][x]] + Weight(r, x)
  <2>1. CASE x = n
    <3>1. r[d][x] = NIL /\ Weight(r, x) = 0  BY <1>4, <2>1 DEF Weight
    <3> QED  BY <1>6, <2>1, <3>1
  <2>2. CASE x \in L
    <3>1. k[x] = h[x] /\ h[x] = h[t[d][x]] + Weight(t, x)  BY <1>2, <1>6, <2>2
    <3>2. Weight(r, x) = Weight(t, x)  BY <1>4, <2>2 DEF Weight
    <3>3. k[r[d][x]] = h[t[d][x]]
      <4>1. CASE x = p /\ d = e  BY <1>2, <1>4, <1>6, <4>1
      <4>2. CASE ~(x = p /\ d = e)
        <5>1. r[d][x] = t[d][x] /\ t[d][x] \in L \cup {NIL}  BY <1>3, <1>4, <2>2, <4>2
        <5> QED  BY <1>6, <5>1
      <4> QED  BY <4>1, <4>2
    <3> QED  BY <3>1, <3>2, <3>3
  <2> QED  BY <2>1, <2>2
<1>8. Even(r, L \cup {n}, k, NIL, "left")
  <2>1. \A x \in L \cup {n} : x # NIL  BY <1>3
  <2> QED  BY <1>6, <1>7, <2>1 DEF Even, EvenBut
<1>9. ASSUME NEW x \in L \cup {n}, NEW d \in Sides, x \in r.red, r[d][x] \in r.red
      PROVE  n \in {x, r[d][x]}
  <2> SUFFICES ASSUME x # n, r[d][x] # n PROVE FALSE  OBVIOUS
  <2>1. ~(x = p /\ d = e) /\ x \in L  BY <1>4
  <2>2. r[d][x] = t[d][x] /\ t[d][x] \in L \cup {NIL}  BY <1>3, <1>4, <2>1
  <2>3. x \in t.red /\ t[d][x] \in t.red  BY <1>4, <1>9, <2>2
  <2>4. NULL \in {x, t[d][x]}  BY <2>1, <2>3 DEF Balanced, Clean
  <2> QED  BY <1>3, <2>1, <2>2, <2>4, NodesAssumption
<1>10. r.root \notin r.red  BY <1>3, <1>4 DEF Balanced, Clean
<1>11. Clean(r, L \cup {n}, n)  BY <1>9, <1>10 DEF Clean
<1>12. NIL \notin r.red
  <2>1. r.red \subseteq Nodes  BY DEF Attached, Trees
  <2> QED  BY <1>3, <2>1
<1>13. InsertBalance(r, L \cup {n}, k, n)  BY <1>4, <1>8, <1>11, <1>12 DEF InsertBalance
<1> QED  BY <1>13

(* The sequence with n, which has key k, in the place that is due to it.   *)
Inserted(s, n, k, s2) ==
    \E g \in 0 .. Len(s) : /\ s2 = With(s, g, n)
                           /\ \A i \in 1 .. Len(s) : key[s[i]] <= k <=> i <= g


(* u is t but for one link.                                                *)
Relinked(t, d, y, x, u) ==
    /\ u \in Trees /\ u.red = t.red /\ u.root = t.root /\ u.parent = t.parent
    /\ \A z \in Places : \A e \in Sides : u[e][z] = IF e = d /\ z = y THEN x ELSE t[e][z]

LEMMA LinkSet ==
  ASSUME NEW t \in Trees, NEW d \in Sides, NEW y \in Places, NEW x \in Places \cup {NULL},
         NEW u, u = [t EXCEPT ![d][y] = x]
  PROVE  Relinked(t, d, y, x, u)
BY DEF Trees, Places, Sides, Relinked

LEMMA LeafAttached ==
  ASSUME NEW t \in Trees, NEW p \in Nodes, NEW n \in Nodes, n # p, NEW e \in Sides,
         NEW r, r = [Paint(Leaf(t, n, p), {n}, {}) EXCEPT ![e][p] = n]
  PROVE  Attached(t, e, p, n, r)
<1>1. n \in Places /\ p \in Places /\ Nodes \subseteq Places  BY DEF Places
<1>2. PICK v : v = Leaf(t, n, p)  OBVIOUS
<1>3. /\ v \in Trees /\ v.root = t.root /\ v.red = t.red
      /\ \A z \in Places : \A f \in Sides : v[f][z] = IF z = n THEN NIL ELSE t[f][z]
      /\ \A z \in Places : v.parent[z] = IF z = n THEN p ELSE t.parent[z]
  BY <1>2 DEF Trees, Leaf, Places, Sides
<1>4. PICK u : u = Paint(v, {n}, {})  OBVIOUS
<1>5. /\ u \in Trees /\ u.root = v.root /\ u.red = v.red \cup {n}
      /\ u.left = v.left /\ u.right = v.right /\ u.parent = v.parent
  BY <1>3, <1>4 DEF Trees, Paint
<1>6. \A f \in Sides : u[f] = v[f]  BY <1>5 DEF Sides
<1>7. r = [u EXCEPT ![e][p] = n]  BY <1>2, <1>4
<1>8. Relinked(u, e, p, n, r)
  <2>1. n \in Places \cup {NULL} /\ p \in Places /\ u \in Trees  BY <1>1, <1>5
  <2> QED  BY <1>7, <2>1, LinkSet
<1>9. /\ r \in Trees /\ r.root = t.root /\ r.red = t.red \cup {n}
      /\ \A z \in Places : r.parent[z] = IF z = n THEN p ELSE t.parent[z]
  <2>1. r \in Trees /\ r.root = u.root /\ r.red = u.red /\ r.parent = u.parent
    BY <1>8 DEF Relinked
  <2>2. u.root = t.root /\ u.red = t.red \cup {n} /\ u.parent = v.parent  BY <1>3, <1>5
  <2>3. r.parent = v.parent  BY <2>1, <2>2
  <2> QED  BY <1>3, <2>1, <2>2, <2>3
<1>10. ASSUME NEW z \in Nodes, NEW f \in Sides
       PROVE  r[f][z] = IF f = e /\ z = p THEN n ELSE IF z = n THEN NIL ELSE t[f][z]
  <2>1. r[f][z] = IF f = e /\ z = p THEN n ELSE u[f][z]  BY <1>1, <1>8 DEF Relinked
  <2>2. u[f] = v[f]  BY <1>6
  <2>3. v[f][z] = IF z = n THEN NIL ELSE t[f][z]  BY <1>1, <1>3
  <2> QED  BY <2>1, <2>2, <2>3
<1>11. r.left[n] = NIL /\ r.right[n] = NIL  BY <1>10 DEF Sides
<1>12. r[e][p] = n  BY <1>10
<1>13. r.parent[n] = p /\ \A x \in Nodes \ {n} : r.parent[x] = t.parent[x]  BY <1>1, <1>9
<1>14. ASSUME NEW x \in Nodes \ {n}, NEW f \in Sides, ~(x = p /\ f = e)
       PROVE  r[f][x] = t[f][x]
  <2>1. x \in Nodes /\ x # n  OBVIOUS
  <2> QED  BY <1>10, <1>14, <2>1
<1> QED  BY <1>9, <1>11, <1>12, <1>13, <1>14 DEF Attached

(* The first node becomes a black root.                                    *)
LEMMA FirstNode ==
  ASSUME NEW t, NEW s, NEW at, Placed(t, {}, s, at), NEW n \in Nodes,
         NEW r, r = [Paint(Leaf(t, n, NULL), {}, {n}) EXCEPT !.root = n]
  PROVE  /\ Balanced(r, {n}) /\ Len(s) = 0
         /\ \E at2 : Placed(r, {n}, With(s, 0, n), at2)
<1>1. t \in Trees /\ s \in Seq({}) /\ Loose(t, {})  BY DEF Placed, Shape, Listed
<1>2. Len(s) = 0
  <2> SUFFICES ASSUME Len(s) # 0 PROVE FALSE  OBVIOUS
  <2>1. 1 \in 1 .. Len(s)  BY <1>1
  <2> QED  BY <1>1, <2>1
<1>3. /\ n \in Places /\ NIL \in Places /\ Nodes \subseteq Places
      /\ NIL \notin Nodes /\ NULL \notin Places
  BY NodesAssumption DEF Places
<1>4. PICK v : v = Leaf(t, n, NULL)  OBVIOUS
<1>5. /\ v \in Trees
      /\ \A z \in Places : /\ v.left[z] = IF z = n THEN NIL ELSE t.left[z]
                           /\ v.right[z] = IF z = n THEN NIL ELSE t.right[z]
  BY <1>1, <1>4 DEF Trees, Leaf, Places
<1>6. r = [Paint(v, {}, {n}) EXCEPT !.root = n]  BY <1>4
<1>7. /\ r \in Trees /\ r.root = n /\ r.red = v.red \ {n}
      /\ r.left = v.left /\ r.right = v.right
  <2>1. PICK u : u = Paint(v, {}, {n})  OBVIOUS
  <2>2. u \in Trees /\ u.red = v.red \ {n} /\ u.left = v.left /\ u.right = v.right
    BY <1>5, <2>1 DEF Trees, Paint
  <2>3. r = [u EXCEPT !.root = n]  BY <1>6, <2>1
  <2> QED  BY <1>3, <2>2, <2>3 DEF Trees
<1>8. /\ r.left[n] = NIL /\ r.right[n] = NIL
      /\ \A x \in Nodes \ {n} : r.left[x] = t.left[x] /\ r.right[x] = t.right[x]
  BY <1>3, <1>5, <1>7
<1>9. Loose(r, {n})
  <2>1. ASSUME NEW x \in Nodes \ {n} PROVE r.left[x] = NULL /\ r.right[x] = NULL
    BY <1>1, <1>8 DEF Loose, Sides
  <2> QED  BY <2>1 DEF Loose, Sides
<1>10. PICK s2 : s2 = With(s, 0, n)  OBVIOUS
<1>11. PICK one : one = [x \in Nodes |-> 1]  OBVIOUS
<1>12. s2 \in Seq({n}) /\ Len(s2) = 1 /\ s2[1] = n
  <2>1. s2 = [i \in 1 .. 1 |-> n]
    <3>1. With(s, 0, n) = [i \in 1 .. 0 + 1 |-> IF i <= 0 THEN s[i]
                                                ELSE IF i = 0 + 1 THEN n ELSE s[i - 1]]
      BY <1>2 DEF With
    <3> QED  BY <1>10, <3>1
  <2> QED  BY <2>1
<1>13. one \in [Nodes -> Int] /\ one[n] = 1  BY <1>11
<1>14. Listed({n}, s2, one)  BY <1>12, <1>13 DEF Listed
<1>15. Links(r, {n})  BY <1>7, <1>8 DEF Links, Sides
<1>16. Spans(r, {n}, one, one, one)  BY <1>8, <1>13 DEF Spans
<1>17. Shape(r, {n}, s2, one, one, one)
  BY <1>7, <1>12, <1>13, <1>14, <1>15, <1>16 DEF Shape
<1>18. Placed(r, {n}, s2, one)  BY <1>9, <1>17 DEF Placed
<1>19. PICK h : h = [x \in Places |-> IF x = n THEN 1 ELSE 0]  OBVIOUS
<1>20. h \in [Places -> Nat] /\ h[NIL] = 0 /\ h[n] = 1  BY <1>3, <1>19
<1>21. Even(r, {n}, h, NIL, "left")
  <2>1. Weight(r, n) = 1 /\ n # NIL /\ \A d \in Sides : r[d][n] = NIL
    BY <1>3, <1>7, <1>8 DEF Weight, Sides
  <2>2. ASSUME NEW d \in Sides PROVE h[n] = h[r[d][n]] + Weight(r, n)
    <3>1. r[d][n] = NIL  BY <2>1
    <3>2. h[r[d][n]] = 0  BY <1>20, <3>1
    <3> QED  BY <1>20, <2>1, <3>2
  <2> QED  BY <1>20, <2>1, <2>2 DEF Even, EvenBut
<1>22. Clean(r, {n}, NULL)  BY <1>7 DEF Clean
<1> QED  BY <1>2, <1>10, <1>18, <1>21, <1>22 DEF Balanced

LEMMA InsertKeeps ==
  ASSUME NEW s, NEW at, Placed(tree, linked, s, at), Coloured(tree, linked, pc, cur),
         Sorted(s), key \in [Nodes -> Nat], NEW n \in Nodes, NEW k \in Nat, Insert(n, k)
  PROVE  \E s2, at2 : Kept(s2, at2) /\ Inserted(s, n, k, s2)
<1>1. /\ pc = "idle" /\ n \notin linked /\ linked' = linked \cup {n}
      /\ Formed(tree, linked)
  BY PlacedFormed DEF Insert
<1>2. Balanced(tree, linked) /\ cur = NIL  BY <1>1 DEF Coloured
<1>3. PICK lo, hi : Shape(tree, linked, s, at, lo, hi) /\ Loose(tree, linked)  BY DEF Placed
<1>4. tree \in Trees /\ linked \subseteq Nodes /\ NIL \notin Nodes
      /\ (tree.root = NIL <=> linked = {})
  BY <1>3, NodesAssumption DEF Shape, Links
<1>5. CASE tree.root = NIL
  <2>1. linked = {} /\ linked' = {n} /\ pc' = "idle" /\ cur' = NIL
        /\ tree' = [Paint(Leaf(tree, n, NULL), {}, {n}) EXCEPT !.root = n]
    BY <1>1, <1>2, <1>4, <1>5 DEF Insert
  <2>2. Placed(tree, {}, s, at)  BY <2>1
  <2>3. /\ Balanced(tree', {n}) /\ Len(s) = 0
        /\ \E at2 : Placed(tree', {n}, With(s, 0, n), at2)
    BY <2>1, <2>2, FirstNode
  <2>4. PICK at2 : Placed(tree', {n}, With(s, 0, n), at2)  BY <2>3
  <2>5. Kept(With(s, 0, n), at2)  BY <2>1, <2>3, <2>4 DEF Kept, Coloured
  <2>6. Inserted(s, n, k, With(s, 0, n))
    <3>1. 0 \in 0 .. Len(s) /\ \A i \in 1 .. Len(s) : key[s[i]] <= k <=> i <= 0  BY <2>3
    <3> QED  BY <3>1 DEF Inserted
  <2> QED  BY <2>5, <2>6
<1>6. CASE tree.root # NIL
  <2>1. PICK p : p = Position(tree, k)  OBVIOUS
  <2>2. linked # {} /\ pc' = "insert" /\ cur' = n
        /\ tree' = [Paint(Leaf(tree, n, p.node), {n}, {}) EXCEPT ![p.side][p.node] = n]
    BY <1>4, <1>6, <2>1 DEF Insert
  <2>3. Gap(tree, linked, s, at, k, p)  BY <1>3, <2>1, <2>2, PositionIsGap
  <2>4. PICK q, e, g : q = p.node /\ e = p.side /\ g = Before(at, p)  OBVIOUS
  <2>5. /\ q \in linked /\ e \in Sides /\ tree[e][q] = NIL
        /\ \A i \in 1 .. Len(s) : key[s[i]] <= k <=> i <= g
    BY <2>3, <2>4 DEF Gap
  <2>6. tree' = [Paint(Leaf(tree, n, q), {n}, {}) EXCEPT ![e][q] = n]  BY <2>2, <2>4
  <2>7. q \in Nodes /\ n # q /\ n \in Nodes \ linked  BY <1>1, <1>4, <2>5
  <2>8. Attached(tree, e, q, n, tree')  BY <1>4, <2>5, <2>6, <2>7, LeafAttached
  <2>9. g = IF e = "left" THEN at[q] - 1 ELSE at[q]  BY <2>4 DEF Before
  <2>10. g \in 0 .. Len(s) /\ \E at2 : Placed(tree', linked \cup {n}, With(s, g, n), at2)
    BY <2>5, <2>7, <2>8, <2>9, AttachKeepsPlaced
  <2>11. \E h : InsertBalance(tree', linked \cup {n}, h, n)
    BY <1>1, <1>2, <2>5, <2>7, <2>8, AttachBalances
  <2>12. PICK at2 : Placed(tree', linked \cup {n}, With(s, g, n), at2)  BY <2>10
  <2>13. Kept(With(s, g, n), at2)  BY <1>1, <2>2, <2>11, <2>12 DEF Kept, Coloured
  <2>14. Inserted(s, n, k, With(s, g, n))  BY <2>5, <2>10 DEF Inserted
  <2> QED  BY <2>13, <2>14
<1> QED  BY <1>5, <1>6

LEMMA InsertSorts ==
  ASSUME NEW s \in Seq(linked), linked \subseteq Nodes, Sorted(s), key \in [Nodes -> Nat],
         NEW n \in Nodes \ linked, NEW k \in Nat, key' = [key EXCEPT ![n] = k],
         NEW s2, Inserted(s, n, k, s2)
  PROVE  Sorted(s2)'
<1>1. PICK g \in 0 .. Len(s) : /\ s2 = With(s, g, n)
                               /\ \A i \in 1 .. Len(s) : key[s[i]] <= k <=> i <= g
  BY DEF Inserted
<1>2. Len(s) \in Nat /\ Len(s2) = Len(s) + 1  BY <1>1 DEF With
<1>3. \A i \in 1 .. Len(s) + 1 : s2[i] = IF i <= g THEN s[i] ELSE IF i = g + 1 THEN n ELSE s[i - 1]
  BY <1>1 DEF With
<1>4. \A i \in 1 .. Len(s) : s[i] \in linked /\ key'[s[i]] = key[s[i]] /\ key[s[i]] \in Nat
  OBVIOUS
<1>5. ASSUME NEW i \in 1 .. Len(s) + 1
      PROVE  /\ key'[s2[i]] \in Nat
             /\ i <= g => i \in 1 .. Len(s) /\ key'[s2[i]] = key[s[i]] /\ key[s[i]] <= k
             /\ i = g + 1 => key'[s2[i]] = k
             /\ i > g + 1 => /\ i - 1 \in 1 .. Len(s) /\ key'[s2[i]] = key[s[i - 1]]
                             /\ key[s[i - 1]] > k
  <2>1. CASE i <= g
    <3>1. i \in 1 .. Len(s) /\ s2[i] = s[i]  BY <1>2, <1>3, <2>1
    <3> QED  BY <1>1, <1>4, <2>1, <3>1
  <2>2. CASE i = g + 1
    <3>1. s2[i] = n  BY <1>2, <1>3, <2>2
    <3> QED  BY <2>2, <3>1
  <2>3. CASE i > g + 1
    <3>1. i - 1 \in 1 .. Len(s) /\ ~(i - 1 <= g) /\ s2[i] = s[i - 1]  BY <1>2, <1>3, <2>3
    <3>2. key'[s2[i]] = key[s[i - 1]] /\ key[s[i - 1]] \in Nat /\ key[s[i - 1]] > k
      BY <1>1, <1>4, <3>1
    <3> QED  BY <2>3, <3>1, <3>2
  <2> QED  BY <1>2, <2>1, <2>2, <2>3
<1>6. ASSUME NEW i \in 1 .. Len(s) + 1, NEW j \in 1 .. Len(s) + 1, i <= j
      PROVE  key'[s2[i]] <= key'[s2[j]]
  <2>1. CASE j <= g
    <3>1. i <= g  BY <1>6, <2>1
    <3>2. key[s[i]] <= key[s[j]]  BY <1>5, <1>6, <2>1, <3>1 DEF Sorted
    <3>3. key'[s2[i]] = key[s[i]] /\ key'[s2[j]] = key[s[j]]  BY <1>5, <2>1, <3>1
    <3> QED  BY <3>2, <3>3
  <2>2. CASE j = g + 1
    <3>1. i <= g \/ i = g + 1  BY <1>6, <2>2
    <3>2. key'[s2[j]] = k  BY <1>5, <2>2
    <3>3. CASE i <= g
      <4>1. key'[s2[i]] = key[s[i]] /\ key[s[i]] <= k  BY <1>5, <3>3
      <4> QED  BY <3>2, <4>1
    <3>4. CASE i = g + 1
      <4>1. key'[s2[i]] = k  BY <1>5, <3>4
      <4> QED  BY <3>2, <4>1
    <3> QED  BY <3>1, <3>3, <3>4
  <2>3. CASE j > g + 1
    <3>1. key'[s2[j]] = key[s[j - 1]] /\ key[s[j - 1]] > k /\ j - 1 \in 1 .. Len(s)
      BY <1>5, <2>3
    <3>2. CASE i <= g + 1
      <4>1. key'[s2[i]] <= k /\ key'[s2[i]] \in Nat /\ key'[s2[j]] \in Nat
        <5>1. CASE i <= g  BY <1>5, <3>1, <5>1
        <5>2. CASE i = g + 1  BY <1>5, <3>1, <5>2
        <5> QED  BY <3>2, <5>1, <5>2
      <4> QED  BY <3>1, <4>1
    <3>3. CASE i > g + 1
      <4>1. key'[s2[i]] = key[s[i - 1]] /\ i - 1 \in 1 .. Len(s) /\ i - 1 <= j - 1
        BY <1>5, <1>6, <3>3
      <4>2. key[s[i - 1]] <= key[s[j - 1]]  BY <3>1, <4>1 DEF Sorted
      <4> QED  BY <3>1, <4>1, <4>2
    <3> QED  BY <3>2, <3>3
  <2> QED  BY <2>1, <2>2, <2>3
<1> QED  BY <1>2, <1>6 DEF Sorted


-----------------------------------------------------------------------------
(* Deletion: n leaves the tree and s, n itself or the node after it, its   *)
(* place; x is the only child of s.  The node that is w in the old tree is *)
(* Heir(n, s, x, w) in the new one; z there was Old(n, s, z) before.       *)
Heir(n, s, x, w) == IF w = s THEN x ELSE IF w = n THEN s ELSE w
Old(n, s, z)     == IF z = s THEN n ELSE z

Cut(t, L, at, n, s, x, e) ==
    /\ n \in L /\ s \in L /\ x \in L \cup {NIL} /\ x # n /\ x # s
    /\ e \in Sides /\ t[e][s] = x /\ t[Other(e)][s] = NIL
    /\ s # n => s # t.root /\ at[s] = at[n] + 1

Spliced(t, L, n, s, x, r) ==
    /\ r \in Trees /\ r.root = Heir(n, s, x, t.root)
    /\ \A z \in L \ {n} : \A d \in Sides :
          r[d][z] = Heir(n, s, x, t[d][Old(n, s, z)])
    /\ \A z \in L \ {n} : z # x /\ Old(n, s, z) # t.root =>
          r.parent[z] = Heir(n, s, x, t.parent[Old(n, s, z)])
    /\ s # t.root => r.parent[x] = Heir(n, s, x, t.parent[s])
    /\ \A z \in L \ {n} : z \in r.red <=> Old(n, s, z) \in t.red

LEMMA Heirs ==
  ASSUME NEW L, NEW n \in L, NEW s \in L, NEW x
  PROVE  /\ \A z \in L \ {n} : /\ Old(n, s, z) \in L \ {s}
                              /\ Heir(n, s, x, Old(n, s, z)) = z
         /\ \A w \in L \ {s} : /\ Heir(n, s, x, w) \in L \ {n}
                              /\ Old(n, s, Heir(n, s, x, w)) = w
         /\ Heir(n, s, x, s) = x
BY DEF Heir, Old

LEMMA OnlyNode ==
  ASSUME NEW t, NEW L, NEW s, NEW at, NEW lo, NEW hi, Shape(t, L, s, at, lo, hi),
         L # {}, t.left[t.root] = NIL, t.right[t.root] = NIL
  PROVE  L = {t.root}
<1>1. /\ t.root \in L /\ L \subseteq Nodes /\ at \in [Nodes -> Int] /\ Len(s) \in Nat
      /\ lo[t.root] = 1 /\ hi[t.root] = Len(s)
      /\ lo[t.root] = at[t.root] /\ hi[t.root] = at[t.root]
  <2>1. t.root \in L /\ lo[t.root] = 1 /\ hi[t.root] = Len(s) /\ Spans(t, L, at, lo, hi)
    BY DEF Shape, Links
  <2>2. lo[t.root] = at[t.root] /\ hi[t.root] = at[t.root]  BY <2>1 DEF Spans
  <2>3. L \subseteq Nodes /\ at \in [Nodes -> Int] /\ Len(s) \in Nat  BY DEF Shape, Listed
  <2> QED  BY <2>1, <2>2, <2>3
<1>2. ASSUME NEW y \in L PROVE y = t.root
  <2>1. at[y] \in 1 .. Len(s) /\ s[at[y]] = y /\ s[at[t.root]] = t.root
    BY <1>1 DEF Shape, Listed
  <2> QED  BY <1>1, <2>1
<1> QED  BY <1>1, <1>2

LEMMA SpliceKeepsLinks ==
  ASSUME NEW t, NEW L, NEW sq, NEW at, NEW lo, NEW hi, Shape(t, L, sq, at, lo, hi),
         NEW n, NEW s, NEW x, NEW e, Cut(t, L, at, n, s, x, e),
         NEW r, Spliced(t, L, n, s, x, r)
  PROVE  Links(r, L \ {n})
<1> DEFINE H(w) == Heir(n, s, x, w)
           O(z) == Old(n, s, z)
<1>1. /\ n \in L /\ s \in L /\ x \in L \cup {NIL} /\ x # n /\ x # s
      /\ e \in Sides /\ t[e][s] = x /\ t[Other(e)][s] = NIL
      /\ (s # n => s # t.root)
  BY DEF Cut
<1>2. NIL \notin L /\ t.root \in L /\ Formed(t, L)
  BY <1>1, NodesAssumption DEF Shape, Links, Formed
<1>3. \A z \in L \ {n} : O(z) \in L \ {s} /\ H(O(z)) = z  BY <1>1, Heirs
<1>4. \A w \in L \ {s} : H(w) \in L \ {n} /\ O(H(w)) = w  BY <1>1 DEF Heir, Old
<1>5. H(s) = x /\ H(NIL) = NIL /\ O(x) = x  BY <1>1, <1>2 DEF Heir, Old
<1> HIDE DEF H, O
<1>6. /\ r.root = H(t.root)
      /\ \A z \in L \ {n} : \A d \in Sides : r[d][z] = H(t[d][O(z)])
      /\ \A z \in L \ {n} : z # x /\ O(z) # t.root => r.parent[z] = H(t.parent[O(z)])
      /\ s # t.root => r.parent[x] = H(t.parent[s])
  BY DEF Spliced, H, O
<1>7. ASSUME NEW z \in L, NEW d \in Sides
      PROVE  t[d][z] \in L \cup {NIL} /\ (t[d][z] # NIL => t.parent[t[d][z]] = z /\ t[d][z] # t.root)
  <2>1. t[d][z] \in L \cup {NIL} /\ (t[d][z] # NIL => t.parent[t[d][z]] = z)
    BY DEF Shape, Links
  <2>2. t[d][z] # NIL => t[d][z] # t.root  BY <1>2, Apart
  <2> QED  BY <2>1, <2>2
<1>8. ASSUME NEW d \in Sides PROVE t[d][s] \in {x, NIL}
  BY <1>1 DEF Sides, Other
<1>9. IF L \ {n} = {} THEN r.root = NIL ELSE r.root \in L \ {n}
  <2>1. CASE t.root # s
    <3>1. r.root \in L \ {n}  BY <1>2, <1>4, <1>6, <2>1
    <3> QED  BY <3>1
  <2>2. CASE t.root = s /\ x # NIL
    <3>1. r.root \in L \ {n}  BY <1>1, <1>5, <1>6, <2>2
    <3> QED  BY <3>1
  <2>3. CASE t.root = s /\ x = NIL
    <3>1. s = n /\ r.root = NIL  BY <1>1, <1>5, <1>6, <2>3
    <3>2. t.left[s] = NIL /\ t.right[s] = NIL  BY <1>8, <2>3 DEF Sides
    <3>3. L = {t.root}  BY <1>1, <2>3, <3>2, OnlyNode
    <3> QED  BY <2>3, <3>1, <3>3
  <2> QED  BY <2>1, <2>2, <2>3
<1>10. ASSUME NEW z \in L \ {n}, NEW d \in Sides
       PROVE  r[d][z] \in (L \ {n}) \cup {NIL} /\ (r[d][z] # NIL => r.parent[r[d][z]] = z)
  <2>1. PICK o, w : o = O(z) /\ w = t[d][o]  OBVIOUS
  <2>2. o \in L /\ o # s /\ H(o) = z /\ r[d][z] = H(w)  BY <1>3, <1>6, <2>1
  <2>3. w \in L \cup {NIL} /\ (w # NIL => t.parent[w] = o /\ w # t.root)
    BY <1>7, <2>1, <2>2
  <2>4. CASE w = NIL  BY <1>5, <2>2, <2>4
  <2>5. CASE w = s
    <3>1. r[d][z] = x /\ s # t.root /\ t.parent[s] = o  BY <1>1, <1>2, <1>5, <2>2, <2>3, <2>5
    <3>2. r.parent[x] = z  BY <1>6, <2>2, <3>1
    <3> QED  BY <1>1, <3>1, <3>2
  <2>6. CASE w # NIL /\ w # s
    <3>1. PICK v : v = H(w)  OBVIOUS
    <3>2. v \in L \ {n} /\ O(v) = w /\ t.parent[w] = o /\ w # t.root  BY <1>4, <2>3, <2>6, <3>1
    <3>3. v # x
      <4>1. SUFFICES ASSUME v = x PROVE FALSE  OBVIOUS
      <4>2. w = x /\ t.parent[x] = o  BY <1>5, <3>2, <4>1
      <4>3. t[e][s] # NIL => t.parent[t[e][s]] = s  BY <1>1, <1>7
      <4> QED  BY <1>1, <2>2, <2>6, <4>2, <4>3
    <3>4. r.parent[v] = z  BY <1>6, <2>2, <3>2, <3>3
    <3> QED  BY <2>2, <3>1, <3>2, <3>4
  <2> QED  BY <2>3, <2>4, <2>5, <2>6
<1>11. ASSUME NEW z \in (L \ {n}) \ {r.root}
       PROVE  r.parent[z] \in L \ {n} /\ \E d \in Sides : r[d][r.parent[z]] = z
  <2>1. CASE z = x
    <3>1. s # t.root  BY <1>5, <1>6, <1>11, <2>1
    <3>2. PICK q, d : q = t.parent[s] /\ q \in L /\ d \in Sides /\ t[d][q] = s
      BY <1>1, <3>1 DEF Shape, Links
    <3>3. q # s
      <4>1. t.parent[s] # s  BY <1>1, <1>2, <3>1, HangsOn
      <4> QED  BY <3>2, <4>1
    <3>4. H(q) \in L \ {n} /\ O(H(q)) = q  BY <1>4, <3>2, <3>3
    <3>5. r.parent[z] = H(q) /\ r[d][H(q)] = z  BY <1>5, <1>6, <2>1, <3>1, <3>2, <3>4
    <3> QED  BY <3>2, <3>4, <3>5
  <2>2. CASE z # x
    <3>1. PICK o : o = O(z)  OBVIOUS
    <3>2. o \in L /\ o # s /\ H(o) = z /\ o # t.root  BY <1>3, <1>6, <1>11, <3>1
    <3>3. PICK q, d : q = t.parent[o] /\ q \in L /\ d \in Sides /\ t[d][q] = o
      BY <3>2 DEF Shape, Links
    <3>4. q # s
      <4>1. SUFFICES ASSUME q = s PROVE FALSE  OBVIOUS
      <4>2. o = x  BY <1>2, <1>8, <3>2, <3>3, <4>1
      <4>3. z = x  BY <1>1, <3>2, <4>2 DEF H, Heir
      <4> QED  BY <2>2, <4>3
    <3>5. H(q) \in L \ {n} /\ O(H(q)) = q  BY <1>4, <3>3, <3>4
    <3>6. r.parent[z] = H(q)  BY <1>6, <1>11, <2>2, <3>1, <3>2, <3>3
    <3>7. r[d][H(q)] = z  BY <1>6, <3>2, <3>3, <3>5
    <3> QED  BY <3>3, <3>5, <3>6, <3>7
  <2> QED  BY <2>1, <2>2
<1> QED  BY <1>9, <1>10, <1>11 DEF Links


(* s without the node at place g.                                          *)
Without(s, g) == [i \in 1 .. Len(s) - 1 |-> IF i < g THEN s[i] ELSE s[i + 1]]

(* The places and the spans after the deletion; a was the place of s.      *)
Closer(v, a)   == IF v > a THEN v - 1 ELSE v
Shorter(v, a)  == IF v >= a THEN v - 1 ELSE v

LEMMA SpliceLists ==
  ASSUME NEW t, NEW L, NEW sq, NEW at, L \subseteq Nodes, Listed(L, sq, at),
         NEW n, NEW s, NEW x, NEW e, Cut(t, L, at, n, s, x, e),
         NEW at2, at2 = [z \in Nodes |-> Closer(at[Old(n, s, z)], at[s])]
  PROVE  Listed(L \ {n}, Without(sq, at[n]), at2)
<1>0. PICK b, s2 : b = at[n] /\ s2 = Without(sq, b)  OBVIOUS
<1>1. /\ sq \in Seq(L) /\ at \in [Nodes -> Int] /\ Len(sq) \in Nat
      /\ \A y \in L : at[y] \in 1 .. Len(sq) /\ sq[at[y]] = y
      /\ \A i \in 1 .. Len(sq) : at[sq[i]] = i /\ sq[i] \in L
  BY DEF Listed
<1>2. n \in L /\ s \in L /\ (s # n => at[s] = at[n] + 1)  BY DEF Cut
<1>3. PICK a : a = at[s]  OBVIOUS
<1>4. /\ a \in 1 .. Len(sq) /\ b \in 1 .. Len(sq)
      /\ (s = n => a = b) /\ (s # n => a = b + 1) /\ sq[a] = s /\ sq[b] = n
  BY <1>0, <1>1, <1>2, <1>3
<1>5. \A i \in 1 .. Len(sq) - 1 : s2[i] = IF i < b THEN sq[i] ELSE sq[i + 1]
  BY <1>0 DEF Without
<1>6. ASSUME NEW i \in 1 .. Len(sq) - 1
      PROVE  /\ i \in 1 .. Len(sq) /\ i + 1 \in 1 .. Len(sq)
             /\ i < b => s2[i] = sq[i] /\ at[s2[i]] = i
             /\ i >= b => s2[i] = sq[i + 1] /\ at[s2[i]] = i + 1
             /\ s2[i] \in L \ {n}
  <2>1. i \in 1 .. Len(sq) /\ i + 1 \in 1 .. Len(sq)  BY <1>1
  <2>2. CASE i < b
    <3>1. s2[i] = sq[i]  BY <1>5, <2>2
    <3>2. at[sq[i]] = i /\ sq[i] \in L  BY <1>1, <2>1
    <3> QED  BY <1>0, <1>4, <2>1, <2>2, <3>1, <3>2
  <2>3. CASE i >= b
    <3>1. s2[i] = sq[i + 1]  BY <1>4, <1>5, <2>3
    <3>2. at[sq[i + 1]] = i + 1 /\ sq[i + 1] \in L  BY <1>1, <2>1
    <3> QED  BY <1>0, <1>4, <2>1, <2>3, <3>1, <3>2
  <2> QED  BY <1>4, <2>2, <2>3
<1>7. s2 \in Seq(L \ {n}) /\ Len(s2) = Len(sq) - 1
  <2>1. s2 = [i \in 1 .. Len(sq) - 1 |-> s2[i]]  BY <1>0 DEF Without
  <2>2. s2 \in [1 .. Len(sq) - 1 -> L \ {n}]  BY <1>6, <2>1
  <2>3. Len(sq) - 1 \in Nat  BY <1>1, <1>4
  <2> QED  BY <2>2, <2>3
<1>8. /\ at2 \in [Nodes -> Int]
      /\ \A z \in L : z # s => at2[z] = Closer(at[z], a)
      /\ at2[s] = Closer(at[n], a)
  <2>1. ASSUME NEW z \in Nodes PROVE Closer(at[Old(n, s, z)], at[s]) \in Int
    <3>1. Old(n, s, z) \in Nodes /\ s \in Nodes  BY <1>2 DEF Old
    <3> QED  BY <1>1, <3>1 DEF Closer
  <2>2. at2 \in [Nodes -> Int]  BY <2>1
  <2>3. \A z \in L : at2[z] = Closer(at[Old(n, s, z)], a)  BY <1>3
  <2> QED  BY <1>2, <2>2, <2>3 DEF Old
<1>9. ASSUME NEW i \in 1 .. Len(sq) - 1 PROVE at2[s2[i]] = i
  <2>1. PICK z : z = s2[i]  OBVIOUS
  <2>2. /\ z \in L /\ z # n /\ (z = s => at[z] = a)
        /\ (i < b => at[z] = i) /\ (i >= b => at[z] = i + 1)
    BY <1>3, <1>6, <2>1
  <2>3. CASE z = s
    <3>1. s # n /\ a = b + 1 /\ i = b  BY <1>4, <2>2, <2>3
    <3>2. at2[z] = Closer(b, a)  BY <1>0, <1>8, <2>3
    <3> QED  BY <1>4, <2>1, <3>1, <3>2 DEF Closer
  <2>4. CASE z # s
    <3>1. at2[z] = Closer(at[z], a)  BY <1>8, <2>2, <2>4
    <3>2. at[z] # a  BY <1>1, <1>3, <1>2, <2>2, <2>4
    <3> QED  BY <1>4, <2>1, <2>2, <3>1, <3>2 DEF Closer
  <2> QED  BY <2>3, <2>4
<1>10. ASSUME NEW z \in L \ {n} PROVE at2[z] \in 1 .. Len(sq) - 1 /\ s2[at2[z]] = z
  <2>1. PICK i : i = at2[z]  OBVIOUS
  <2>2. CASE z = s
    <3>1. s # n /\ a = b + 1  BY <1>4, <1>10, <2>2
    <3>2. i = b /\ i \in 1 .. Len(sq) - 1  BY <1>0, <1>4, <1>8, <2>1, <2>2, <3>1 DEF Closer
    <3>3. s2[i] = sq[i + 1]  BY <1>6, <3>2
    <3> QED  BY <1>4, <2>1, <2>2, <3>1, <3>2, <3>3
  <2>3. CASE z # s
    <3>1. i = Closer(at[z], a) /\ at[z] \in 1 .. Len(sq) /\ sq[at[z]] = z
      BY <1>1, <1>8, <2>1, <2>3
    <3>2. at[z] # a /\ at[z] # b  BY <1>4, <1>10, <2>3, <3>1
    <3>3. CASE at[z] > a
      <4>1. i = at[z] - 1 /\ i \in 1 .. Len(sq) - 1 /\ i >= b  BY <1>4, <3>1, <3>3 DEF Closer
      <4>2. s2[i] = sq[i + 1] /\ i + 1 = at[z]  BY <1>6, <3>1, <4>1
      <4> QED  BY <2>1, <3>1, <4>1, <4>2
    <3>4. CASE at[z] < a
      <4>1. i = at[z] /\ i \in 1 .. Len(sq) - 1 /\ i < b
        BY <1>4, <3>1, <3>2, <3>4 DEF Closer
      <4>2. s2[i] = sq[i]  BY <1>6, <4>1
      <4> QED  BY <2>1, <3>1, <4>1, <4>2
    <3> QED  BY <1>4, <3>1, <3>2, <3>3, <3>4
  <2> QED  BY <2>2, <2>3
<1>11. Listed(L \ {n}, s2, at2)  BY <1>7, <1>8, <1>9, <1>10 DEF Listed
<1> QED  BY <1>0, <1>11

Spanned(t, L, at, lo, hi, m) ==
    /\ Spans(t, L, at, lo, hi)
    /\ L # {} => lo[t.root] = 1 /\ hi[t.root] = m

LEMMA SpliceKeepsSpans ==
  ASSUME NEW t, NEW L, NEW sq, NEW at, NEW lo, NEW hi, Shape(t, L, sq, at, lo, hi),
         NEW n, NEW s, NEW x, NEW e, Cut(t, L, at, n, s, x, e),
         NEW r, Spliced(t, L, n, s, x, r),
         NEW at2, at2 = [z \in Nodes |-> Closer(at[Old(n, s, z)], at[s])],
         NEW lo2, lo2 = [z \in Nodes |-> Closer(lo[Old(n, s, z)], at[s])],
         NEW hi2, hi2 = [z \in Nodes |-> Shorter(hi[Old(n, s, z)], at[s])]
  PROVE  Spanned(r, L \ {n}, at2, lo2, hi2, Len(sq) - 1)
<1> DEFINE H(w) == Heir(n, s, x, w)
           O(z) == Old(n, s, z)
<1>1. /\ n \in L /\ s \in L /\ x \in L \cup {NIL} /\ x # n /\ x # s
      /\ e \in Sides /\ t[e][s] = x /\ t[Other(e)][s] = NIL
  BY DEF Cut
<1>2. /\ L \subseteq Nodes /\ NIL \notin L /\ t.root \in L /\ Links(t, L) /\ Len(sq) \in Nat
      /\ Spans(t, L, at, lo, hi) /\ lo[t.root] = 1 /\ hi[t.root] = Len(sq)
      /\ at \in [Nodes -> Int]
  <2>1. L \subseteq Nodes /\ Links(t, L) /\ Spans(t, L, at, lo, hi) /\ Listed(L, sq, at)
    BY DEF Shape
  <2>2. L # {} /\ t.root \in L  BY <1>1, <2>1 DEF Links
  <2>3. lo[t.root] = 1 /\ hi[t.root] = Len(sq)  BY <2>2 DEF Shape
  <2>4. NIL \notin L  BY <2>1, NodesAssumption
  <2> QED  BY <2>1, <2>2, <2>3, <2>4 DEF Listed
<1>3. \A z \in L \ {n} : O(z) \in L \ {s} /\ H(O(z)) = z  BY <1>1 DEF Heir, Old
<1>4. \A w \in L \ {s} : H(w) \in L \ {n} /\ O(H(w)) = w  BY <1>1 DEF Heir, Old
<1>5. H(s) = x /\ H(NIL) = NIL /\ O(x) = x  BY <1>1, <1>2 DEF Heir, Old
<1>6. r.root = H(t.root) /\ \A z \in L \ {n} : \A d \in Sides : r[d][z] = H(t[d][O(z)])
  BY DEF Spliced
<1>7. PICK a : a = at[s]  OBVIOUS
<1>8. ASSUME NEW z \in L
      PROVE  /\ at2[z] = Closer(at[O(z)], a) /\ lo2[z] = Closer(lo[O(z)], a)
             /\ hi2[z] = Shorter(hi[O(z)], a)
  <2>1. z \in Nodes  BY <1>2
  <2> QED  BY <1>7, <2>1
<1> HIDE DEF H
<1>9. at2 \in [Nodes -> Int] /\ lo2 \in [Nodes -> Int] /\ hi2 \in [Nodes -> Int]
  <2>1. \A z \in Nodes : O(z) \in Nodes /\ s \in Nodes  BY <1>1, <1>2 DEF Old
  <2>2. lo \in [Nodes -> Int] /\ hi \in [Nodes -> Int]  BY <1>2 DEF Spans
  <2>3. \A v, b \in Int : Closer(v, b) \in Int /\ Shorter(v, b) \in Int  BY DEF Closer, Shorter
  <2>4. \A z \in Nodes : /\ at[O(z)] \in Int /\ lo[O(z)] \in Int /\ hi[O(z)] \in Int
                         /\ at[s] \in Int
    <3> HIDE DEF O
    <3> QED  BY <1>2, <2>1, <2>2
  <2>5. \A z \in Nodes : /\ Closer(at[O(z)], at[s]) \in Int
                         /\ Closer(lo[O(z)], at[s]) \in Int
                         /\ Shorter(hi[O(z)], at[s]) \in Int
    <3> HIDE DEF O
    <3> QED  BY <2>3, <2>4
  <2> QED  BY <2>5
<1> HIDE DEF O
<1>10. ASSUME NEW y \in L
       PROVE  /\ lo[y] \in Int /\ hi[y] \in Int /\ at[y] \in Int
              /\ lo[y] <= at[y] /\ at[y] <= hi[y] /\ 1 <= at[y] /\ at[y] <= Len(sq)
              /\ at[y] = a => y = s
  <2>1. lo[y] \in Int /\ hi[y] \in Int /\ at[y] \in Int /\ lo[y] <= at[y] /\ at[y] <= hi[y]
    BY <1>2 DEF Spans
  <2>2. at[y] \in 1 .. Len(sq) /\ sq[at[y]] = y /\ sq[at[s]] = s  BY <1>1 DEF Shape, Listed
  <2> QED  BY <1>7, <2>1, <2>2
<1>11. ASSUME NEW y \in L, NEW w, w = t.left[y]
       PROVE  /\ w \in L \cup {NIL}
              /\ w = NIL => lo[y] = at[y]
              /\ w # NIL => lo[w] = lo[y] /\ hi[w] = at[y] - 1
  <2>1. w \in L \cup {NIL}  BY <1>2, <1>11 DEF Links, Sides
  <2> QED  BY <1>2, <1>11, <2>1 DEF Spans
<1>12. ASSUME NEW y \in L, NEW w, w = t.right[y]
       PROVE  /\ w \in L \cup {NIL}
              /\ w = NIL => hi[y] = at[y]
              /\ w # NIL => lo[w] = at[y] + 1 /\ hi[w] = hi[y]
  <2>1. w \in L \cup {NIL}  BY <1>2, <1>12 DEF Links, Sides
  <2> QED  BY <1>2, <1>12, <2>1 DEF Spans
(* What remains of the span of s.                                          *)
<1>13. x = NIL => lo[s] = a /\ hi[s] = a
  <2> SUFFICES ASSUME x = NIL PROVE lo[s] = a /\ hi[s] = a  OBVIOUS
  <2>1. t.left[s] = NIL /\ t.right[s] = NIL  BY <1>1 DEF Sides, Other
  <2> QED  BY <1>1, <1>7, <1>11, <1>12, <2>1
<1>14. x # NIL => /\ lo2[x] = Closer(lo[s], a) /\ hi2[x] = hi[s] - 1 /\ hi[s] >= a /\ x \in L
  <2> SUFFICES ASSUME x # NIL
               PROVE  lo2[x] = Closer(lo[s], a) /\ hi2[x] = hi[s] - 1 /\ hi[s] >= a /\ x \in L
    OBVIOUS
  <2>1. x \in L /\ lo2[x] = Closer(lo[x], a) /\ hi2[x] = Shorter(hi[x], a)
    BY <1>1, <1>5, <1>8
  <2>2. /\ lo[x] \in Int /\ hi[x] \in Int /\ lo[x] <= hi[x]
        /\ lo[s] \in Int /\ hi[s] \in Int /\ a \in Int /\ lo[s] <= a /\ a <= hi[s]
    BY <1>1, <1>7, <1>10, <2>1
  <2>3. CASE e = "left"
    <3>1. t.left[s] = x /\ t.right[s] = NIL  BY <1>1, <2>3 DEF Other
    <3>2. lo[x] = lo[s] /\ hi[x] = a - 1 /\ hi[s] = a  BY <1>1, <1>7, <1>11, <1>12, <3>1
    <3> QED  BY <2>1, <2>2, <3>2 DEF Closer, Shorter
  <2>4. CASE e = "right"
    <3>1. t.right[s] = x /\ t.left[s] = NIL  BY <1>1, <2>4 DEF Other
    <3>2. lo[x] = a + 1 /\ hi[x] = hi[s] /\ lo[s] = a  BY <1>1, <1>7, <1>11, <1>12, <3>1
    <3> QED  BY <2>1, <2>2, <3>2 DEF Closer, Shorter
  <2> QED  BY <1>1, <2>3, <2>4 DEF Sides
<1>15. ASSUME NEW z \in L \ {n} PROVE lo2[z] <= at2[z] /\ at2[z] <= hi2[z]
  <2>1. PICK o : o = O(z)  OBVIOUS
  <2>2. o \in L /\ o # s /\ a \in Int  BY <1>1, <1>3, <1>7, <1>10, <2>1
  <2>3. at2[z] = Closer(at[o], a) /\ lo2[z] = Closer(lo[o], a) /\ hi2[z] = Shorter(hi[o], a)
    BY <1>8, <2>1
  <2>4. /\ lo[o] \in Int /\ hi[o] \in Int /\ at[o] \in Int
        /\ lo[o] <= at[o] /\ at[o] <= hi[o] /\ at[o] # a
    BY <1>10, <2>2
  <2> QED  BY <2>2, <2>3, <2>4 DEF Closer, Shorter
<1>16. ASSUME NEW z \in L \ {n}, NEW v, v = r.left[z]
       PROVE  /\ v = NIL => lo2[z] = at2[z]
              /\ v # NIL => lo2[v] = lo2[z] /\ hi2[v] = at2[z] - 1
  <2>1. PICK o, w : o = O(z) /\ w = t.left[o]  OBVIOUS
  <2>2. o \in L /\ o # s /\ a \in Int  BY <1>1, <1>3, <1>7, <1>10, <2>1
  <2>3. at2[z] = Closer(at[o], a) /\ lo2[z] = Closer(lo[o], a)  BY <1>8, <2>1
  <2>4. lo[o] \in Int /\ hi[o] \in Int /\ at[o] \in Int /\ lo[o] <= at[o] /\ at[o] # a
    BY <1>10, <2>2
  <2>5. v = H(w)  BY <1>6, <1>16, <2>1 DEF Sides
  <2>6. w \in L \cup {NIL} /\ (w = NIL => lo[o] = at[o])
        /\ (w # NIL => lo[w] = lo[o] /\ hi[w] = at[o] - 1)
    BY <1>11, <2>1, <2>2
  <2>7. CASE w = NIL
    <3>1. v = NIL /\ lo2[z] = at2[z]  BY <1>5, <2>3, <2>5, <2>6, <2>7
    <3> QED  BY <3>1
  <2>8. CASE w = s
    <3>1. v = x /\ lo[s] = lo[o] /\ hi[s] = at[o] - 1  BY <1>1, <1>2, <1>5, <2>5, <2>6, <2>8
    <3>2. CASE x = NIL  BY <1>13, <2>2, <2>3, <2>4, <3>1, <3>2 DEF Closer
    <3>3. CASE x # NIL  BY <1>14, <2>2, <2>3, <2>4, <3>1, <3>3 DEF Closer
    <3> QED  BY <3>2, <3>3
  <2>9. CASE w # NIL /\ w # s
    <3>1. v \in L /\ O(v) = w /\ v # NIL  BY <1>2, <1>4, <2>5, <2>6, <2>9
    <3>2. lo2[v] = Closer(lo[w], a) /\ hi2[v] = Shorter(hi[w], a)  BY <1>8, <3>1
    <3> QED  BY <2>2, <2>3, <2>4, <2>6, <2>9, <3>1, <3>2 DEF Closer, Shorter
  <2> QED  BY <2>7, <2>8, <2>9
<1>17. ASSUME NEW z \in L \ {n}, NEW v, v = r.right[z]
       PROVE  /\ v = NIL => hi2[z] = at2[z]
              /\ v # NIL => lo2[v] = at2[z] + 1 /\ hi2[v] = hi2[z]
  <2>1. PICK o, w : o = O(z) /\ w = t.right[o]  OBVIOUS
  <2>2. o \in L /\ o # s /\ a \in Int  BY <1>1, <1>3, <1>7, <1>10, <2>1
  <2>3. at2[z] = Closer(at[o], a) /\ hi2[z] = Shorter(hi[o], a)  BY <1>8, <2>1
  <2>4. lo[o] \in Int /\ hi[o] \in Int /\ at[o] \in Int /\ at[o] <= hi[o] /\ at[o] # a
    BY <1>10, <2>2
  <2>5. v = H(w)  BY <1>6, <1>17, <2>1 DEF Sides
  <2>6. w \in L \cup {NIL} /\ (w = NIL => hi[o] = at[o])
        /\ (w # NIL => lo[w] = at[o] + 1 /\ hi[w] = hi[o])
    BY <1>12, <2>1, <2>2
  <2>7. CASE w = NIL
    <3>1. v = NIL /\ hi2[z] = at2[z]
      BY <1>5, <2>2, <2>3, <2>4, <2>5, <2>6, <2>7 DEF Closer, Shorter
    <3> QED  BY <3>1
  <2>8. CASE w = s
    <3>1. v = x /\ lo[s] = at[o] + 1 /\ hi[s] = hi[o]  BY <1>1, <1>2, <1>5, <2>5, <2>6, <2>8
    <3>2. lo[s] <= a  BY <1>1, <1>7, <1>10
    <3>3. CASE x = NIL  BY <1>13, <2>2, <2>3, <2>4, <3>1, <3>3 DEF Closer, Shorter
    <3>4. CASE x # NIL  BY <1>14, <2>2, <2>3, <2>4, <3>1, <3>2, <3>4 DEF Closer, Shorter
    <3> QED  BY <3>3, <3>4
  <2>9. CASE w # NIL /\ w # s
    <3>1. v \in L /\ O(v) = w /\ v # NIL  BY <1>2, <1>4, <2>5, <2>6, <2>9
    <3>2. lo2[v] = Closer(lo[w], a) /\ hi2[v] = Shorter(hi[w], a)  BY <1>8, <3>1
    <3> QED  BY <2>2, <2>3, <2>4, <2>6, <2>9, <3>1, <3>2 DEF Closer, Shorter
  <2> QED  BY <2>7, <2>8, <2>9
<1>18. ASSUME NEW z \in L \ {n}
       PROVE  /\ lo2[z] <= at2[z] /\ at2[z] <= hi2[z]
              /\ r.left[z] = NIL => lo2[z] = at2[z]
              /\ r.left[z] # NIL => lo2[r.left[z]] = lo2[z] /\ hi2[r.left[z]] = at2[z] - 1
              /\ r.right[z] = NIL => hi2[z] = at2[z]
              /\ r.right[z] # NIL => lo2[r.right[z]] = at2[z] + 1 /\ hi2[r.right[z]] = hi2[z]
  <2>1. PICK v : v = r.left[z]  OBVIOUS
  <2>2. PICK y : y = r.right[z]  OBVIOUS
  <2>3. lo2[z] <= at2[z] /\ at2[z] <= hi2[z]  BY <1>15
  <2>4. (v = NIL => lo2[z] = at2[z]) /\ (v # NIL => lo2[v] = lo2[z] /\ hi2[v] = at2[z] - 1)
    BY <1>16, <2>1
  <2>5. (y = NIL => hi2[z] = at2[z]) /\ (y # NIL => lo2[y] = at2[z] + 1 /\ hi2[y] = hi2[z])
    BY <1>17, <2>2
  <2> QED  BY <2>1, <2>2, <2>3, <2>4, <2>5
<1>19. Spans(r, L \ {n}, at2, lo2, hi2)  BY <1>9, <1>18 DEF Spans
<1>20. ASSUME L \ {n} # {} PROVE lo2[r.root] = 1 /\ hi2[r.root] = Len(sq) - 1
  <2>0. a \in Int /\ 1 <= a /\ a <= Len(sq)  BY <1>1, <1>7, <1>10
  <2>1. CASE t.root # s
    <3>1. PICK v : v = r.root  OBVIOUS
    <3>2. v \in L /\ O(v) = t.root  BY <1>2, <1>4, <1>6, <2>1, <3>1
    <3>3. lo2[v] = Closer(1, a) /\ hi2[v] = Shorter(Len(sq), a)  BY <1>2, <1>8, <3>2
    <3>4. lo2[v] = 1
      <4>1. ~(1 > a)  BY <2>0
      <4> QED  BY <3>3, <4>1 DEF Closer
    <3>5. hi2[v] = Len(sq) - 1  BY <1>2, <2>0, <3>3 DEF Shorter
    <3> QED  BY <3>1, <3>4, <3>5
  <2>2. CASE t.root = s
    <3>1. r.root = x  BY <1>5, <1>6, <2>2
    <3>2. x # NIL
      <4>1. Links(r, L \ {n})  BY SpliceKeepsLinks
      <4> QED  BY <1>2, <1>20, <3>1, <4>1 DEF Links
    <3>3. lo2[x] = Closer(1, a)  BY <1>2, <1>14, <2>2, <3>2
    <3>4. lo2[x] = 1
      <4>1. ~(1 > a)  BY <2>0
      <4> QED  BY <3>3, <4>1 DEF Closer
    <3>5. hi2[x] = Len(sq) - 1  BY <1>2, <1>14, <2>2, <3>2
    <3> QED  BY <3>1, <3>4, <3>5
  <2> QED  BY <2>1, <2>2
<1> QED  BY <1>19, <1>20 DEF Spanned

LEMMA SpliceKeepsPlaced ==
  ASSUME NEW t, NEW L, NEW sq, NEW at, Placed(t, L, sq, at),
         NEW n, NEW s, NEW x, NEW e, Cut(t, L, at, n, s, x, e),
         NEW r, Spliced(t, L, n, s, x, r), Loose(r, L \ {n})
  PROVE  \E at2 : Placed(r, L \ {n}, Without(sq, at[n]), at2)
<1>1. PICK lo, hi : Shape(t, L, sq, at, lo, hi)  BY DEF Placed
<1>2. PICK at2 : at2 = [z \in Nodes |-> Closer(at[Old(n, s, z)], at[s])]  OBVIOUS
<1>3. PICK lo2 : lo2 = [z \in Nodes |-> Closer(lo[Old(n, s, z)], at[s])]  OBVIOUS
<1>4. PICK hi2 : hi2 = [z \in Nodes |-> Shorter(hi[Old(n, s, z)], at[s])]  OBVIOUS
<1>5. PICK s2 : s2 = Without(sq, at[n])  OBVIOUS
<1>6. L \subseteq Nodes /\ Listed(L, sq, at) /\ Len(sq) \in Nat  BY <1>1 DEF Shape, Listed
<1>7. Listed(L \ {n}, s2, at2)
  <2>1. L \subseteq Nodes  BY <1>6
  <2>2. Listed(L, sq, at)  BY <1>6
  <2>3. Listed(L \ {n}, Without(sq, at[n]), at2)  BY <1>2, <2>1, <2>2, SpliceLists, ZenonT(60)
  <2> QED  BY <1>5, <2>3
<1>8. Links(r, L \ {n})  BY <1>1, SpliceKeepsLinks
<1>9. /\ Spans(r, L \ {n}, at2, lo2, hi2)
      /\ L \ {n} # {} => lo2[r.root] = 1 /\ hi2[r.root] = Len(sq) - 1
  <2>1. Spanned(r, L \ {n}, at2, lo2, hi2, Len(sq) - 1)
    BY <1>1, <1>2, <1>3, <1>4, SpliceKeepsSpans
  <2> QED  BY <2>1 DEF Spanned
<1>10. L \ {n} # {} => Len(s2) = Len(sq) - 1
  <2>1. n \in L  BY DEF Cut
  <2>2. at[n] \in 1 .. Len(sq)  BY <1>6, <2>1 DEF Listed
  <2> QED  BY <1>5, <1>6, <2>2 DEF Without
<1>11. r \in Trees /\ L \ {n} \subseteq Nodes  BY <1>6 DEF Spliced
<1>12. Shape(r, L \ {n}, s2, at2, lo2, hi2)  BY <1>7, <1>8, <1>9, <1>10, <1>11 DEF Shape
<1> QED  BY <1>5, <1>12 DEF Placed


(* The colours: the branch of x is short by a black s, and nothing else.   *)
LEMMA SpliceBalances ==
  ASSUME NEW t, NEW L, NEW at, Formed(t, L), Balanced(t, L),
         NEW n, NEW s, NEW x, NEW e, Cut(t, L, at, n, s, x, e),
         NEW r, Spliced(t, L, n, s, x, r), Links(r, L \ {n})
  PROVE  IF s \in t.red THEN Balanced(r, L \ {n}) ELSE \E k : DeleteBalance(r, L \ {n}, k, x)
<1> DEFINE H(w) == Heir(n, s, x, w)
           O(z) == Old(n, s, z)
<1>1. /\ n \in L /\ s \in L /\ x \in L \cup {NIL} /\ x # n /\ x # s
      /\ e \in Sides /\ t[e][s] = x
  BY DEF Cut
<1>2. /\ NIL \notin L /\ NULL \notin L /\ t.root \in L /\ L \subseteq Nodes
      /\ t.red \subseteq Nodes /\ r.red \subseteq Nodes
  BY <1>1, NodesAssumption DEF Formed, Shape, Links, Trees, Spliced
<1>3. \A z \in L \ {n} : O(z) \in L \ {s} /\ H(O(z)) = z  BY <1>1 DEF Heir, Old
<1>4. \A w \in L \ {s} : H(w) \in L \ {n} /\ O(H(w)) = w  BY <1>1 DEF Heir, Old
<1>5. H(s) = x /\ H(NIL) = NIL /\ O(x) = x  BY <1>1, <1>2 DEF Heir, Old
<1>6. /\ r.root = H(t.root)
      /\ \A z \in L \ {n} : \A d \in Sides : r[d][z] = H(t[d][O(z)])
      /\ s # t.root => r.parent[x] = H(t.parent[s])
      /\ \A z \in L \ {n} : z \in r.red <=> O(z) \in t.red
  BY DEF Spliced
<1>7. PICK h : Even(t, L, h, NIL, "left")  BY DEF Balanced
<1>8. /\ h \in [Places -> Nat] /\ h[NIL] = 0
      /\ \A z \in L : \A d \in Sides : h[z] = h[t[d][z]] + Weight(t, z)
  BY <1>2, <1>7 DEF Even, EvenBut
<1>9. /\ t.root \notin t.red
      /\ \A z \in L : \A d \in Sides : ~(z \in t.red /\ t[d][z] \in t.red)
  <2>1. Clean(t, L, NULL) /\ NULL \notin t.red  BY <1>2, NodesAssumption DEF Balanced
  <2> QED  BY <1>2, <2>1 DEF Clean
<1>10. PICK k : k = [z \in Places |-> IF z = NIL THEN 0 ELSE h[O(z)]]  OBVIOUS
<1>11. k \in [Places -> Nat] /\ k[NIL] = 0 /\ \A z \in L : k[z] = h[O(z)]
  <2>1. \A z \in Places : O(z) \in Places  BY <1>1, <1>2 DEF Places, Old
  <2>2. \A z \in Places : (IF z = NIL THEN 0 ELSE h[O(z)]) \in Nat  BY <1>8, <2>1
  <2>3. NIL \in Places /\ \A z \in L : z \in Places /\ z # NIL  BY <1>2 DEF Places
  <2> QED  BY <1>10, <2>2, <2>3
<1> HIDE DEF H, O
<1>12. k[x] = h[x]
  <2>1. CASE x = NIL  BY <1>8, <1>11, <2>1
  <2>2. CASE x # NIL  BY <1>1, <1>5, <1>11, <2>2
  <2> QED  BY <2>1, <2>2
<1>13. ASSUME NEW z \in L, NEW d \in Sides
       PROVE  /\ t[d][z] \in L \cup {NIL}
              /\ t[d][z] # NIL => t.parent[t[d][z]] = z /\ t[d][z] # t.root
  <2>1. t[d][z] \in L \cup {NIL} /\ (t[d][z] # NIL => t.parent[t[d][z]] = z)
    BY DEF Formed, Shape, Links
  <2>2. t[d][z] # NIL => t[d][z] # t.root  BY Apart
  <2> QED  BY <2>1, <2>2
<1>14. ASSUME NEW z \in L \ {n}, NEW d \in Sides, NEW o, o = O(z), NEW w, w = t[d][o]
       PROVE  /\ w # s => k[z] = k[r[d][z]] + Weight(r, z)
              /\ w = s => r[d][z] = x /\ k[z] = k[x] + Weight(r, z) + Weight(t, s)
  <2>1. /\ o \in L /\ k[z] = h[o] /\ r[d][z] = H(w) /\ (z \in r.red <=> o \in t.red)
    BY <1>3, <1>6, <1>11, <1>14
  <2>2. h[o] = h[w] + Weight(t, o) /\ Weight(r, z) = Weight(t, o)
    BY <1>8, <1>14, <2>1 DEF Weight
  <2>3. w \in L \cup {NIL}  BY <1>13, <1>14, <2>1
  <2>4. h[w] \in Nat /\ h[x] \in Nat  BY <1>1, <1>2, <1>8, <2>3 DEF Places
  <2>5. CASE w = s
    <3>1. h[s] = h[x] + Weight(t, s)  BY <1>1, <1>8
    <3>2. r[d][z] = x  BY <1>5, <2>1, <2>5
    <3>3. Weight(t, o) \in Nat /\ Weight(t, s) \in Nat  BY DEF Weight
    <3> QED  BY <1>12, <2>1, <2>2, <2>4, <2>5, <3>1, <3>2, <3>3
  <2>6. CASE w = NIL
    <3>1. k[r[d][z]] = h[w]  BY <1>5, <1>8, <1>11, <2>1, <2>6
    <3> QED  BY <1>1, <1>2, <2>1, <2>2, <2>6, <3>1
  <2>7. CASE w # s /\ w # NIL
    <3>1. k[r[d][z]] = h[w]  BY <1>4, <1>11, <2>1, <2>3, <2>7
    <3> QED  BY <2>1, <2>2, <2>7, <3>1
  <2> QED  BY <2>5, <2>6, <2>7
(* No two red nodes follow each other, except perhaps below x's parent.    *)
<1>15. ASSUME NEW z \in L \ {n}, NEW d \in Sides, z \in r.red, r[d][z] \in r.red
       PROVE  r[d][z] = x /\ s \notin t.red
  <2>1. PICK o, w : o = O(z) /\ w = t[d][o]  OBVIOUS
  <2>2. o \in L /\ o \in t.red /\ r[d][z] = H(w) /\ w \in L \cup {NIL}
    BY <1>3, <1>6, <1>13, <1>15, <2>1
  <2>3. w # NIL  BY <1>2, <1>5, <1>15, <2>2, NodesAssumption
  <2>4. CASE w = s  BY <1>5, <1>9, <2>1, <2>2, <2>4
  <2>5. CASE w # s
    <3>1. H(w) \in L \ {n} /\ O(H(w)) = w  BY <1>4, <2>2, <2>3, <2>5
    <3>2. w \in t.red  BY <1>6, <1>15, <2>2, <3>1
    <3> QED  BY <1>9, <2>1, <2>2, <3>2
  <2> QED  BY <2>4, <2>5
<1>16. t.root # s => r.root \notin r.red /\ r.root # x
  <2> SUFFICES ASSUME t.root # s PROVE r.root \notin r.red /\ r.root # x  OBVIOUS
  <2>1. r.root \in L \ {n} /\ O(r.root) = t.root  BY <1>2, <1>4, <1>6
  <2>2. r.root \notin r.red  BY <1>6, <1>9, <2>1
  <2>3. r.root # x
    <3>1. SUFFICES ASSUME r.root = x PROVE FALSE  OBVIOUS
    <3>2. x = t.root /\ x # NIL  BY <1>2, <1>5, <2>1, <3>1
    <3> QED  BY <1>1, <1>13, <3>2
  <2> QED  BY <2>2, <2>3
<1>17. t.root = s => r.root = x /\ s \notin t.red  BY <1>5, <1>6, <1>9
<1>18. CASE s \in t.red
  <2>1. ASSUME NEW z \in L \ {n}, NEW d \in Sides PROVE k[z] = k[r[d][z]] + Weight(r, z)
    <3>1. PICK o, w : o = O(z) /\ w = t[d][o]  OBVIOUS
    <3>2. CASE w # s  BY <1>14, <3>1, <3>2
    <3>3. CASE w = s
      <4>1. Weight(t, s) = 0  BY <1>18 DEF Weight
      <4>2. r[d][z] = x /\ k[z] = k[x] + Weight(r, z) + Weight(t, s)
        <5>1. t[d][O(z)] = s  BY <3>1, <3>3
        <5> QED  BY <1>14, <5>1
      <4>3. Weight(r, z) \in Nat /\ k[x] \in Nat
        <5>1. x \in Places  BY <1>1, <1>2 DEF Places
        <5> QED  BY <1>11, <5>1 DEF Weight
      <4> QED  BY <4>1, <4>2, <4>3
    <3> QED  BY <3>2, <3>3
  <2>2. Even(r, L \ {n}, k, NIL, "left")  BY <1>2, <1>11, <2>1 DEF Even, EvenBut
  <2>3. Clean(r, L \ {n}, NULL)
    <3>1. r.root \notin r.red  BY <1>16, <1>17, <1>18
    <3> QED  BY <1>15, <1>18, <3>1 DEF Clean
  <2> QED  BY <1>18, <2>2, <2>3 DEF Balanced
<1>19. CASE s \notin t.red
  <2>1. x \in (L \ {n}) \cup {NIL}  BY <1>1
  <2>2. Clean(r, L \ {n}, x)
    <3>1. r.root \in r.red => r.root = x  BY <1>16, <1>17
    <3>2. \A z \in L \ {n} : \A d \in Sides :
             z \in r.red /\ r[d][z] \in r.red => x \in {z, r[d][z]}
      BY <1>15
    <3> QED  BY <3>1, <3>2 DEF Clean
  <2>3. CASE s = t.root
    <3>1. ASSUME NEW z \in L \ {n}, NEW d \in Sides PROVE k[z] = k[r[d][z]] + Weight(r, z)
      <4>1. PICK o, w : o = O(z) /\ w = t[d][o]  OBVIOUS
      <4>2. o \in L  BY <1>3, <4>1
      <4>3. w # s  BY <1>2, <1>13, <2>3, <4>1, <4>2
      <4> QED  BY <1>14, <4>1, <4>3
    <3>2. Even(r, L \ {n}, k, NIL, "left")  BY <1>2, <1>11, <3>1 DEF Even, EvenBut
    <3>3. DeleteBalance(r, L \ {n}, k, x)  BY <1>17, <2>1, <2>2, <2>3, <3>2 DEF DeleteBalance
    <3> QED  BY <1>19, <3>3
  <2>4. CASE s # t.root
    <3>1. PICK q, f : q = t.parent[s] /\ f = Side(t, s)  OBVIOUS
    <3>2. q \in L /\ q # s /\ f \in Sides /\ t[f][q] = s /\ t[Other(f)][q] # s
      BY <1>1, <2>4, <3>1, HangsOn
    <3>3. PICK p : p = H(q)  OBVIOUS
    <3>4. p \in L \ {n} /\ O(p) = q /\ r.parent[x] = p
      BY <1>4, <1>6, <2>4, <3>1, <3>2, <3>3
    <3>5. r[f][p] = x  BY <1>5, <1>6, <3>2, <3>4
    <3>6. ASSUME NEW z \in L \ {n}, NEW d \in Sides
          PROVE  /\ ~(z = p /\ d = f) => k[z] = k[r[d][z]] + Weight(r, z)
                 /\ z = p /\ d = f => k[z] = k[r[d][z]] + Weight(r, z) + 1
      <4>1. PICK o, w : o = O(z) /\ w = t[d][o]  OBVIOUS
      <4>2. o \in L /\ H(o) = z  BY <1>3, <4>1
      <4>3. CASE w = s
        <5>1. o = q
          <6>1. t[d][o] = s /\ o \in L /\ s # NIL  BY <1>1, <1>2, <4>1, <4>2, <4>3
          <6>2. t.parent[t[d][o]] = o  BY <1>13, <6>1
          <6> QED  BY <3>1, <6>1, <6>2
        <5>2. z = p  BY <3>3, <4>2, <5>1
        <5>3. d = f
          <6>1. t[d][q] = s  BY <4>1, <4>3, <5>1
          <6>2. d = f \/ d = Other(f)  BY <3>2 DEF Sides, Other
          <6> QED  BY <3>2, <6>1, <6>2
        <5>4. Weight(t, s) = 1  BY <1>19 DEF Weight
        <5>5. t[d][O(z)] = s  BY <4>1, <4>3
        <5>6. r[d][z] = x /\ k[z] = k[x] + Weight(r, z) + Weight(t, s)  BY <1>14, <5>5
        <5> QED  BY <5>2, <5>3, <5>4, <5>6
      <4>4. CASE w # s
        <5>1. ~(z = p /\ d = f)  BY <3>2, <3>4, <4>1, <4>4
        <5> QED  BY <1>14, <4>1, <4>4, <5>1
      <4> QED  BY <4>3, <4>4
    <3>7. Even(r, L \ {n}, k, p, f)  BY <1>11, <3>6 DEF Even, EvenBut
    <3>8. r.root # x  BY <1>16, <2>4
    <3>9. DeleteBalance(r, L \ {n}, k, x)
      BY <2>1, <2>2, <3>2, <3>4, <3>5, <3>7, <3>8 DEF DeleteBalance
    <3> QED  BY <1>19, <3>9
  <2> QED  BY <2>3, <2>4
<1> QED  BY <1>18, <1>19


-----------------------------------------------------------------------------
(* What the code does to the links is such a splice.                       *)
Erased(t, n, r) ==
    /\ r \in Trees /\ r.root = t.root /\ r.red = t.red /\ \A d \in Sides : r[d][n] = NULL
    /\ \A z \in Places \ {n} : r.parent[z] = t.parent[z] /\ \A d \in Sides : r[d][z] = t[d][z]

LEMMA ClearedErases ==
  ASSUME NEW t \in Trees, NEW n \in Nodes, NEW r, r = Cleared(t, n)
  PROVE  Erased(t, n, r)
BY DEF Trees, Cleared, Erased, Places, Sides

(* u is t but for the parent of x.                                         *)
Rehung(t, x, y, u) ==
    /\ u \in Trees /\ u.red = t.red /\ u.root = t.root /\ \A d \in Sides : u[d] = t[d]
    /\ \A z \in Places : u.parent[z] = IF z = x THEN y ELSE t.parent[z]

LEMMA ParentSet ==
  ASSUME NEW t \in Trees, NEW x \in Places, NEW y \in Places \cup {NULL},
         NEW u, u = [t EXCEPT !.parent[x] = y]
  PROVE  Rehung(t, x, y, u)
BY DEF Trees, Places, Sides, Rehung

LEMMA UnderLinks ==
  ASSUME NEW t \in Trees, NEW y \in Places, y # t.root, t.parent[y] \in Places,
         NEW x \in Places, NEW u, u = Under(t, y, x)
  PROVE  Relinked(t, Side(t, y), t.parent[y], x, u)
<1>1. PICK d, p : d = Side(t, y) /\ p = t.parent[y]  OBVIOUS
<1>2. d \in Sides /\ p \in Places /\ x \in Places \cup {NULL}  BY <1>1 DEF Side, Sides
<1>3. u = [t EXCEPT ![d][p] = x]  BY <1>1 DEF Under
<1>4. Relinked(t, d, p, x, u)  BY <1>2, <1>3, LinkSet
<1> QED  BY <1>1, <1>4

(* s has the links and the colour of n, ...                                *)
Moved(t, n, s, u) ==
    /\ u \in Trees /\ u.root = t.root
    /\ u.red = IF n \in t.red THEN t.red \cup {s} ELSE t.red \ {s}
    /\ \A z \in Places : \A d \in Sides : u[d][z] = IF z = s THEN t[d][n] ELSE t[d][z]
    /\ \A z \in Places : u.parent[z] = IF z = s THEN t.parent[n] ELSE t.parent[z]

LEMMA LinksMove ==
  ASSUME NEW t \in Trees, NEW n \in Nodes, NEW s \in Nodes,
         NEW u, u = [t EXCEPT !.left[s] = t.left[n], !.right[s] = t.right[n],
                              !.parent[s] = t.parent[n],
                              !.red = IF n \in @ THEN @ \cup {s} ELSE @ \ {s}]
  PROVE  Moved(t, n, s, u)
<1>1. u.root = t.root /\ u.red = IF n \in t.red THEN t.red \cup {s} ELSE t.red \ {s}
  BY DEF Trees
<1>2. u.left = [t.left EXCEPT ![s] = t.left[n]]  BY DEF Trees
<1>3. u.right = [t.right EXCEPT ![s] = t.right[n]]  BY DEF Trees
<1>4. u.parent = [t.parent EXCEPT ![s] = t.parent[n]]  BY DEF Trees
<1>5. u \in Trees  BY DEF Trees, Places
<1>6. n \in Places /\ s \in Places  BY DEF Places
<1>7. \A z \in Places : u.left[z] = IF z = s THEN t.left[n] ELSE t.left[z]
  BY <1>2, <1>6 DEF Trees
<1>8. \A z \in Places : u.right[z] = IF z = s THEN t.right[n] ELSE t.right[z]
  BY <1>3, <1>6 DEF Trees
<1>9. \A z \in Places : u.parent[z] = IF z = s THEN t.parent[n] ELSE t.parent[z]
  BY <1>4, <1>6 DEF Trees
<1>10. \A z \in Places : \A d \in Sides : u[d][z] = IF z = s THEN t[d][n] ELSE t[d][z]
  BY <1>7, <1>8 DEF Sides
<1> QED  BY <1>1, <1>5, <1>9, <1>10 DEF Moved

(* ... hangs in the place of n, and is the parent of its children.         *)
Replaced(t, n, s, u) ==
    /\ u \in Trees /\ u.root = IF n = t.root THEN s ELSE t.root
    /\ u.red = IF n \in t.red THEN t.red \cup {s} ELSE t.red \ {s}
    /\ \A z \in Places : \A d \in Sides :
          u[d][z] = IF n # t.root /\ z = t.parent[n] /\ d = Side(t, n) THEN s
                    ELSE IF z = s THEN t[d][n] ELSE t[d][z]
    /\ \A z \in Places :
          u.parent[z] = IF z # NIL /\ \E d \in Sides : z = t[d][n] THEN s
                        ELSE IF z = s THEN t.parent[n] ELSE t.parent[z]

LEMMA ReplaceLinks ==
  ASSUME NEW t \in Trees, NEW n \in Nodes, NEW s \in Nodes, n # s,
         n # t.root => t.parent[n] \in Nodes \ {s},
         NEW u, u = Replace(t, n, s)
  PROVE  Replaced(t, n, s, u)
<1>0. n \in Places /\ s \in Places /\ Nodes \subseteq Places  BY DEF Places
<1>1. PICK a : a = [t EXCEPT !.left[s] = t.left[n], !.right[s] = t.right[n],
                             !.parent[s] = t.parent[n],
                             !.red = IF n \in @ THEN @ \cup {s} ELSE @ \ {s}]
  OBVIOUS
<1>2. Moved(t, n, s, a)  BY <1>1, LinksMove
<1>3. PICK v : v = Under(a, n, s)  OBVIOUS
<1>4. u = [v EXCEPT !.parent = [z \in Places |->
              IF z \in {t.left[n], t.right[n]} \ {NIL} THEN s ELSE v.parent[z]]]
  BY <1>1, <1>3 DEF Replace
<1>5. /\ a \in Trees /\ a.root = t.root /\ a.parent[n] = t.parent[n]
      /\ a.red = IF n \in t.red THEN t.red \cup {s} ELSE t.red \ {s}
      /\ \A z \in Places : \A d \in Sides : a[d][z] = IF z = s THEN t[d][n] ELSE t[d][z]
      /\ \A z \in Places : a.parent[z] = IF z = s THEN t.parent[n] ELSE t.parent[z]
  BY <1>0, <1>2 DEF Moved
<1>6. /\ v \in Trees /\ v.root = IF n = t.root THEN s ELSE t.root
      /\ v.red = a.red /\ v.parent = a.parent
      /\ \A z \in Places : \A d \in Sides :
            v[d][z] = IF n # t.root /\ z = t.parent[n] /\ d = Side(t, n) THEN s
                      ELSE a[d][z]
  <2>1. CASE n = t.root
    <3>1. v = [a EXCEPT !.root = s]  BY <1>3, <1>5, <2>1 DEF Under
    <3>2. v \in Trees /\ v.root = s /\ v.red = a.red /\ v.parent = a.parent
          /\ v.left = a.left /\ v.right = a.right
      BY <1>0, <1>5, <3>1 DEF Trees
    <3> QED  BY <2>1, <3>2 DEF Sides
  <2>2. CASE n # t.root
    <3>1. PICK q : q = t.parent[n]  OBVIOUS
    <3>2. q \in Nodes /\ q # s /\ a.parent[n] = q /\ q \in Places  BY <1>0, <1>5, <2>2, <3>1
    <3>3. a.left[q] = t.left[q]  BY <1>5, <3>2 DEF Sides
    <3>4. Side(a, n) = Side(t, n)  BY <3>1, <3>2, <3>3 DEF Side
    <3>5. Relinked(a, Side(a, n), a.parent[n], s, v)
      BY <1>0, <1>3, <1>5, <2>2, <3>2, UnderLinks
    <3>6. Relinked(a, Side(t, n), q, s, v)  BY <3>2, <3>4, <3>5
    <3> QED  BY <1>5, <2>2, <3>1, <3>6 DEF Relinked
  <2> QED  BY <2>1, <2>2
<1>7. /\ u \in Trees /\ u.root = v.root /\ u.red = v.red /\ u.left = v.left /\ u.right = v.right
      /\ u.parent = [z \in Places |->
              IF z \in {t.left[n], t.right[n]} \ {NIL} THEN s ELSE v.parent[z]]
  BY <1>0, <1>4, <1>6 DEF Trees
<1>8. \A d \in Sides : u[d] = v[d]  BY <1>7 DEF Sides
<1>9. ASSUME NEW z \in Places
      PROVE  u.parent[z] = IF z # NIL /\ \E d \in Sides : z = t[d][n] THEN s
                           ELSE IF z = s THEN t.parent[n] ELSE t.parent[z]
  <2>1. z \in {t.left[n], t.right[n]} \ {NIL} <=> (z # NIL /\ \E d \in Sides : z = t[d][n])
    BY DEF Sides
  <2>2. u.parent[z] = IF z \in {t.left[n], t.right[n]} \ {NIL} THEN s ELSE v.parent[z]
    BY <1>7
  <2>3. v.parent[z] = IF z = s THEN t.parent[n] ELSE t.parent[z]  BY <1>5, <1>6
  <2> QED  BY <2>1, <2>2, <2>3
<1>10. ASSUME NEW z \in Places, NEW d \in Sides
       PROVE  u[d][z] = IF n # t.root /\ z = t.parent[n] /\ d = Side(t, n) THEN s
                        ELSE IF z = s THEN t[d][n] ELSE t[d][z]
  BY <1>5, <1>6, <1>8
<1> QED  BY <1>5, <1>6, <1>7, <1>9, <1>10 DEF Replaced


LEMMA HangsThere ==
  ASSUME NEW t, NEW L, Formed(t, L), NEW y \in L, y # t.root, NEW z \in L, NEW d \in Sides
  PROVE  t[d][z] = y <=> z = t.parent[y] /\ d = Side(t, y)
<1>1. /\ t.parent[y] \in L /\ Side(t, y) \in Sides
      /\ t[Side(t, y)][t.parent[y]] = y /\ t[Other(Side(t, y))][t.parent[y]] # y
  BY HangsOn
<1>2. y # NIL  BY NodesAssumption DEF Formed, Shape
<1>3. t[d][z] = y => z = t.parent[y]  BY <1>2 DEF Formed, Shape, Links
<1>4. d = Side(t, y) \/ d = Other(Side(t, y))  BY <1>1 DEF Sides, Other
<1> QED  BY <1>1, <1>3, <1>4

(* n has no place to give away: ...                                        *)
LEMMA LoneSplices ==
  ASSUME NEW t, NEW L, NEW at, Formed(t, L), NEW n, NEW x, NEW e, Cut(t, L, at, n, n, x, e),
         n # t.root,
         NEW r, r = Cleared([Under(t, n, x) EXCEPT !.parent[x] = t.parent[n]], n)
  PROVE  Spliced(t, L, n, n, x, r) /\ (Loose(t, L) => Loose(r, L \ {n}))
<1>1. /\ n \in L /\ x \in L \cup {NIL} /\ x # n /\ t \in Trees /\ L \subseteq Nodes
      /\ NIL \notin Nodes
  BY NodesAssumption DEF Cut, Formed, Shape
<1>2. PICK p, f : p = t.parent[n] /\ f = Side(t, n)  OBVIOUS
<1>3. p \in L /\ p # n /\ f \in Sides /\ t[f][p] = n  BY <1>1, <1>2, HangsOn
<1>4. /\ n \in Places /\ x \in Places /\ p \in Places /\ t.root \in Places
      /\ L \subseteq Places /\ Nodes \subseteq Places
  BY <1>1, <1>3 DEF Places, Trees
<1>5. PICK u : u = Under(t, n, x)  OBVIOUS
<1>6. PICK v : v = [u EXCEPT !.parent[x] = p]  OBVIOUS
<1>7. Relinked(t, f, p, x, u)
  <2>1. Relinked(t, Side(t, n), t.parent[n], x, u)  BY <1>1, <1>2, <1>4, <1>5, UnderLinks
  <2> QED  BY <1>2, <2>1
<1>8. u \in Trees  BY <1>7 DEF Relinked
<1>9. p \in Places \cup {NULL}  BY <1>4
<1>10. Rehung(u, x, p, v)  BY <1>4, <1>6, <1>8, <1>9, ParentSet
<1>11. v \in Trees /\ n \in Nodes  BY <1>1, <1>10 DEF Rehung
<1>12. r = Cleared(v, n)  BY <1>2, <1>5, <1>6
<1>13. Erased(v, n, r)  BY <1>11, <1>12, ClearedErases
<1>14. /\ r \in Trees /\ r.root = t.root /\ r.red = t.red
       /\ \A z \in Places \ {n} : r.parent[z] = IF z = x THEN p ELSE t.parent[z]
  <2>1. u.root = t.root /\ u.red = t.red /\ u.parent = t.parent  BY <1>7 DEF Relinked
  <2>2. v.root = u.root /\ v.red = u.red
        /\ \A z \in Places : v.parent[z] = IF z = x THEN p ELSE u.parent[z]
    BY <1>10 DEF Rehung
  <2>3. r \in Trees /\ r.root = v.root /\ r.red = v.red
        /\ \A z \in Places \ {n} : r.parent[z] = v.parent[z]
    BY <1>13 DEF Erased
  <2> QED  BY <2>1, <2>2, <2>3
<1>15. ASSUME NEW z \in Places \ {n}, NEW d \in Sides
       PROVE  r[d][z] = IF d = f /\ z = p THEN x ELSE t[d][z]
  <2>1. r[d][z] = v[d][z]  BY <1>13 DEF Erased
  <2>2. v[d] = u[d]  BY <1>10 DEF Rehung
  <2>3. u[d][z] = IF d = f /\ z = p THEN x ELSE t[d][z]  BY <1>7 DEF Relinked
  <2> QED  BY <2>1, <2>2, <2>3
<1>16. \A w : Heir(n, n, x, w) = IF w = n THEN x ELSE w  BY DEF Heir
<1>17. \A z : Old(n, n, z) = z  BY DEF Old
<1>18. ASSUME NEW z \in L \ {n}, NEW d \in Sides
       PROVE  r[d][z] = Heir(n, n, x, t[d][Old(n, n, z)])
  <2>1. t[d][z] = n <=> z = p /\ d = f  BY <1>1, <1>2, HangsThere
  <2>2. r[d][z] = IF d = f /\ z = p THEN x ELSE t[d][z]  BY <1>4, <1>15
  <2>3. Heir(n, n, x, t[d][z]) = IF t[d][z] = n THEN x ELSE t[d][z]  BY <1>16
  <2> QED  BY <1>17, <2>1, <2>2, <2>3
<1>19. ASSUME NEW z \in L \ {n}, z # x, z # t.root
       PROVE  r.parent[z] = Heir(n, n, x, t.parent[z])
  <2>1. r.parent[z] = t.parent[z]  BY <1>4, <1>14, <1>19
  <2>2. t.parent[z] # n
    <3>1. SUFFICES ASSUME t.parent[z] = n PROVE FALSE  OBVIOUS
    <3>2. \E d \in Sides : t[d][n] = z  BY <1>19, <3>1 DEF Formed, Shape, Links
    <3>3. \A d \in Sides : t[d][n] \in {x, NIL}  BY DEF Cut, Sides, Other
    <3> QED  BY <1>1, <1>19, <3>2, <3>3
  <2> QED  BY <1>16, <2>1, <2>2
<1>20. r.parent[x] = Heir(n, n, x, t.parent[n])
  <2>1. r.parent[x] = p  BY <1>1, <1>4, <1>14
  <2> QED  BY <1>2, <1>3, <1>16, <2>1
<1>21. r.root = Heir(n, n, x, t.root)  BY <1>14, <1>16
<1>22. Spliced(t, L, n, n, x, r)
  <2>1. \A z \in L \ {n} : z # x /\ Old(n, n, z) # t.root =>
           r.parent[z] = Heir(n, n, x, t.parent[Old(n, n, z)])
    BY <1>17, <1>19
  <2>2. \A z \in L \ {n} : z \in r.red <=> Old(n, n, z) \in t.red  BY <1>14, <1>17
  <2>3. r \in Trees  BY <1>14
  <2> QED  BY <1>18, <1>20, <1>21, <2>1, <2>2, <2>3 DEF Spliced
<1>23. ASSUME Loose(t, L) PROVE Loose(r, L \ {n})
  <2>1. ASSUME NEW z \in Nodes \ (L \ {n}), NEW d \in Sides PROVE r[d][z] = NULL
    <3>1. CASE z = n  BY <1>13, <3>1 DEF Erased
    <3>2. CASE z # n
      <4>1. r[d][z] = t[d][z]  BY <1>3, <1>4, <1>15, <2>1, <3>2
      <4> QED  BY <1>23, <2>1, <3>2, <4>1 DEF Loose
    <3> QED  BY <3>1, <3>2
  <2> QED  BY <2>1 DEF Loose
<1> QED  BY <1>22, <1>23


(* ... or s takes it over.                                                 *)
LEMMA MoveSplices ==
  ASSUME NEW t, NEW L, NEW at, Formed(t, L), NEW n, NEW s, NEW x, NEW e,
         Cut(t, L, at, n, s, x, e), s # n,
         NEW up, up = IF t.parent[s] = n THEN s ELSE t.parent[s],
         NEW r, r = Cleared(Replace([Under(t, s, x) EXCEPT !.parent[x] = up], n, s), n)
  PROVE  Spliced(t, L, n, s, x, r) /\ (Loose(t, L) => Loose(r, L \ {n}))
<1>1. /\ n \in L /\ s \in L /\ x \in L \cup {NIL} /\ x # n /\ x # s /\ s # t.root
      /\ t \in Trees /\ L \subseteq Nodes /\ NIL \notin Nodes
  BY NodesAssumption DEF Cut, Formed, Shape
<1>2. PICK p, f : p = t.parent[s] /\ f = Side(t, s)  OBVIOUS
<1>3. p \in L /\ p # s /\ f \in Sides /\ t[f][p] = s  BY <1>1, <1>2, HangsOn
<1>4. /\ n \in Places /\ s \in Places /\ x \in Places /\ p \in Places /\ NIL \in Places
      /\ L \subseteq Places /\ Nodes \subseteq Places /\ n \in Nodes /\ s \in Nodes
  BY <1>1, <1>3 DEF Places
<1>5. \A d \in Sides : t[d][s] \in {x, NIL}  BY DEF Cut, Sides, Other
<1>6. PICK q, g : q = t.parent[n] /\ g = Side(t, n)  OBVIOUS
<1>7. n # t.root => q \in L /\ q # n /\ q # s /\ g \in Sides /\ t[g][q] = n
  <2> SUFFICES ASSUME n # t.root
               PROVE  q \in L /\ q # n /\ q # s /\ g \in Sides /\ t[g][q] = n
    OBVIOUS
  <2>1. q \in L /\ q # n /\ g \in Sides /\ t[g][q] = n  BY <1>1, <1>6, HangsOn
  <2>2. q # s
    <3>1. SUFFICES ASSUME q = s PROVE FALSE  OBVIOUS
    <3>2. n \in {x, NIL}  BY <1>5, <2>1, <3>1
    <3> QED  BY <1>1, <3>2
  <2> QED  BY <2>1, <2>2
<1>8. up \in L /\ up = IF p = n THEN s ELSE p  BY <1>1, <1>2, <1>3
(* x hangs in the place of s.                                              *)
<1>9. PICK u1 : u1 = Under(t, s, x)  OBVIOUS
<1>10. PICK u : u = [u1 EXCEPT !.parent[x] = up]  OBVIOUS
<1>11. PICK v : v = Replace(u, n, s)  OBVIOUS
<1>12. r = Cleared(v, n)  BY <1>9, <1>10, <1>11
<1>13. Relinked(t, f, p, x, u1)
  <2>1. Relinked(t, Side(t, s), t.parent[s], x, u1)  BY <1>1, <1>2, <1>4, <1>9, UnderLinks
  <2> QED  BY <1>2, <2>1
<1>14. Rehung(u1, x, up, u)
  <2>1. up \in Places \cup {NULL} /\ u1 \in Trees  BY <1>4, <1>8, <1>13 DEF Relinked
  <2> QED  BY <1>4, <1>10, <2>1, ParentSet
<1>15. /\ u \in Trees /\ u.root = t.root /\ u.red = t.red
       /\ \A z \in Places : u.parent[z] = IF z = x THEN up ELSE t.parent[z]
  <2>1. u1.root = t.root /\ u1.red = t.red /\ u1.parent = t.parent  BY <1>13 DEF Relinked
  <2>2. u \in Trees /\ u.root = u1.root /\ u.red = u1.red
        /\ \A z \in Places : u.parent[z] = IF z = x THEN up ELSE u1.parent[z]
    BY <1>14 DEF Rehung
  <2> QED  BY <2>1, <2>2
<1>16. ASSUME NEW z \in Places, NEW d \in Sides
       PROVE  u[d][z] = IF d = f /\ z = p THEN x ELSE t[d][z]
  <2>1. u[d] = u1[d]  BY <1>14 DEF Rehung
  <2>2. u1[d][z] = IF d = f /\ z = p THEN x ELSE t[d][z]  BY <1>13 DEF Relinked
  <2> QED  BY <2>1, <2>2
<1>17. u.parent[n] = q  BY <1>1, <1>4, <1>6, <1>15
<1>18. n # t.root => Side(u, n) = g
  <2> SUFFICES ASSUME n # t.root PROVE Side(u, n) = g  OBVIOUS
  <2>1. u.left[q] = n <=> t.left[q] = n
    <3>1. u.left[q] = IF "left" = f /\ q = p THEN x ELSE t.left[q]
      BY <1>4, <1>7, <1>16 DEF Sides
    <3>2. "left" = f /\ q = p => t.left[q] = s  BY <1>3
    <3> QED  BY <1>1, <3>1, <3>2
  <2>2. Side(u, n) = IF u.left[q] = n THEN "left" ELSE "right"  BY <1>17 DEF Side
  <2>3. g = IF t.left[q] = n THEN "left" ELSE "right"  BY <1>6 DEF Side
  <2> QED  BY <2>1, <2>2, <2>3
(* s takes the place of n.                                                 *)
<1>19. Replaced(u, n, s, v)
  <2>1. n # u.root => u.parent[n] \in Nodes \ {s}  BY <1>1, <1>7, <1>15, <1>17
  <2> QED  BY <1>4, <1>11, <1>15, <2>1, ReplaceLinks
<1>20. Erased(v, n, r)
  <2>1. v \in Trees  BY <1>19 DEF Replaced
  <2> QED  BY <1>4, <1>12, <2>1, ClearedErases
<1>21. /\ r \in Trees /\ r.root = IF n = t.root THEN s ELSE t.root
       /\ r.red = IF n \in t.red THEN t.red \cup {s} ELSE t.red \ {s}
  <2>1. r \in Trees /\ r.root = v.root /\ r.red = v.red  BY <1>20 DEF Erased
  <2>2. v.root = (IF n = u.root THEN s ELSE u.root)
        /\ v.red = (IF n \in u.red THEN u.red \cup {s} ELSE u.red \ {s})
    BY <1>19 DEF Replaced
  <2> QED  BY <1>15, <2>1, <2>2
<1>22. ASSUME NEW z \in Places \ {n}, NEW d \in Sides
       PROVE  r[d][z] = IF n # t.root /\ z = q /\ d = g THEN s
                        ELSE IF z = s THEN u[d][n] ELSE u[d][z]
  <2>1. r[d][z] = v[d][z]  BY <1>20 DEF Erased
  <2>2. v[d][z] = IF n # u.root /\ z = u.parent[n] /\ d = Side(u, n) THEN s
                  ELSE IF z = s THEN u[d][n] ELSE u[d][z]
    BY <1>19 DEF Replaced
  <2> QED  BY <1>15, <1>17, <1>18, <2>1, <2>2
<1>23. ASSUME NEW z \in Places \ {n}
       PROVE  r.parent[z] = IF z # NIL /\ \E d \in Sides : z = u[d][n] THEN s
                            ELSE IF z = s THEN q ELSE IF z = x THEN up ELSE t.parent[z]
  <2>1. r.parent[z] = v.parent[z]  BY <1>20 DEF Erased
  <2>2. v.parent[z] = IF z # NIL /\ \E d \in Sides : z = u[d][n] THEN s
                      ELSE IF z = s THEN u.parent[n] ELSE u.parent[z]
    BY <1>19 DEF Replaced
  <2>3. u.parent[z] = IF z = x THEN up ELSE t.parent[z]  BY <1>15
  <2> QED  BY <1>17, <2>1, <2>2, <2>3
(* The links of the new tree are those of the heirs.                       *)
<1>24. ASSUME NEW z \in L, NEW d \in Sides
       PROVE  /\ t[d][z] = s <=> z = p /\ d = f
              /\ n # t.root => (t[d][z] = n <=> z = q /\ d = g)
              /\ n = t.root => t[d][z] # n
              /\ t[d][z] \in L \cup {NIL} /\ (t[d][z] # NIL => t.parent[t[d][z]] = z)
  <2>1. t[d][z] = s <=> z = p /\ d = f  BY <1>1, <1>2, HangsThere
  <2>2. n # t.root => (t[d][z] = n <=> z = q /\ d = g)  BY <1>1, <1>6, HangsThere
  <2>3. t[d][z] \in L \cup {NIL} /\ (t[d][z] # NIL => t.parent[t[d][z]] = z)
    BY DEF Formed, Shape, Links
  <2>4. t[d][z] # NIL => t[d][z] # t.root  BY Apart
  <2>5. n = t.root => t[d][z] # n  BY <1>1, <2>4
  <2> QED  BY <2>1, <2>2, <2>3, <2>5
<1>25. ASSUME NEW z \in L, NEW d \in Sides
       PROVE  u[d][z] = IF t[d][z] = s THEN x ELSE t[d][z]
  BY <1>4, <1>16, <1>24
<1>26. ASSUME NEW z \in L \ {n}, NEW d \in Sides
       PROVE  r[d][z] = Heir(n, s, x, t[d][Old(n, s, z)])
  <2>1. r[d][z] = IF n # t.root /\ z = q /\ d = g THEN s
                  ELSE IF z = s THEN u[d][n] ELSE u[d][z]
    BY <1>4, <1>22
  <2>2. CASE z = s
    <3>1. r[d][z] = u[d][n] /\ Old(n, s, z) = n  BY <1>7, <2>1, <2>2 DEF Old
    <3>2. u[d][n] = IF t[d][n] = s THEN x ELSE t[d][n]  BY <1>1, <1>25
    <3>3. t[d][n] # n
      <4>1. t[d][n] # NIL => t[d][n] # n  BY <1>1, Apart
      <4> QED  BY <1>1, <4>1
    <3> QED  BY <3>1, <3>2, <3>3 DEF Heir
  <2>3. CASE z # s
    <3>1. Old(n, s, z) = z  BY <2>3 DEF Old
    <3>2. n # t.root /\ z = q /\ d = g <=> t[d][z] = n  BY <1>24
    <3>3. u[d][z] = IF t[d][z] = s THEN x ELSE t[d][z]  BY <1>25
    <3> QED  BY <1>1, <2>1, <2>3, <3>1, <3>2, <3>3 DEF Heir
  <2> QED  BY <2>2, <2>3
<1>27. ASSUME NEW z \in L, z # x, z # t.root, z # s PROVE t.parent[z] # s
  <2>1. SUFFICES ASSUME t.parent[z] = s PROVE FALSE  OBVIOUS
  <2>2. \E d \in Sides : t[d][s] = z  BY <1>27, <2>1 DEF Formed, Shape, Links
  <2> QED  BY <1>1, <1>5, <1>27, <2>2
<1>28. ASSUME NEW z \in L \ {n}, z # x, Old(n, s, z) # t.root
       PROVE  r.parent[z] = Heir(n, s, x, t.parent[Old(n, s, z)])
  <2>1. z \in Places \ {n} /\ z # NIL  BY <1>1, <1>4
  <2>2. CASE z = s
    <3>1. Old(n, s, z) = n /\ n # t.root  BY <1>28, <2>2 DEF Old
    <3>2. \A d \in Sides : z # u[d][n]  BY <1>1, <1>25, <2>2
    <3>3. r.parent[z] = q  BY <1>23, <2>1, <2>2, <3>2
    <3> QED  BY <1>6, <1>7, <3>1, <3>3 DEF Heir
  <2>3. CASE z # s
    <3>1. Old(n, s, z) = z /\ z # t.root  BY <1>28, <2>3 DEF Old
    <3>2. t.parent[z] # s  BY <1>27, <1>28, <2>3, <3>1
    <3>3. CASE t.parent[z] = n
      <4>1. PICK d \in Sides : t[d][n] = z
        BY <1>28, <3>1, <3>3 DEF Formed, Shape, Links
      <4>2. z = u[d][n]  BY <1>1, <1>25, <2>3, <4>1
      <4>3. r.parent[z] = s  BY <1>23, <2>1, <4>2
      <4> QED  BY <1>1, <3>1, <3>3, <4>3 DEF Heir
    <3>4. CASE t.parent[z] # n
      <4>1. \A d \in Sides : z # u[d][n]
        <5>1. SUFFICES ASSUME NEW d \in Sides, z = u[d][n] PROVE FALSE  OBVIOUS
        <5>2. z = t[d][n]  BY <1>1, <1>25, <1>28, <5>1
        <5>3. t.parent[z] = n  BY <1>1, <1>24, <2>1, <5>2
        <5> QED  BY <3>4, <5>3
      <4>2. r.parent[z] = t.parent[z]  BY <1>23, <1>28, <2>1, <2>3, <4>1
      <4> QED  BY <3>1, <3>2, <3>4, <4>2 DEF Heir
    <3> QED  BY <3>3, <3>4
  <2> QED  BY <2>2, <2>3
<1>29. r.parent[x] = Heir(n, s, x, t.parent[s])
  <2>1. Heir(n, s, x, t.parent[s]) = up  BY <1>2, <1>3, <1>8 DEF Heir
  <2>2. x \in Places \ {n}  BY <1>1, <1>4
  <2>3. ASSUME x # NIL, NEW d \in Sides, x = u[d][n] PROVE p = n
    <3>1. CASE t[d][n] = s  BY <1>1, <1>24, <3>1
    <3>2. CASE t[d][n] # s
      <4>1. x = t[d][n] /\ t.parent[x] = n  BY <1>1, <1>24, <1>25, <2>3, <3>2
      <4>2. \E c \in Sides : t[c][s] = x  BY DEF Cut
      <4>3. t.parent[x] = s  BY <1>1, <1>24, <2>3, <4>2
      <4> QED  BY <4>1, <4>3
    <3> QED  BY <3>1, <3>2
  <2>4. r.parent[x] = IF x # NIL /\ \E d \in Sides : x = u[d][n] THEN s
                      ELSE IF x = s THEN q ELSE IF x = x THEN up ELSE t.parent[x]
    BY <1>23, <2>2
  <2> QED  BY <1>1, <1>8, <2>1, <2>3, <2>4
<1>30. r.root = Heir(n, s, x, t.root)  BY <1>1, <1>21 DEF Heir
<1>31. \A z \in L \ {n} : z \in r.red <=> Old(n, s, z) \in t.red  BY <1>21 DEF Old
<1>32. Spliced(t, L, n, s, x, r)
  <2>1. r \in Trees  BY <1>21
  <2> QED  BY <1>26, <1>28, <1>29, <1>30, <1>31, <2>1 DEF Spliced
<1>33. ASSUME Loose(t, L) PROVE Loose(r, L \ {n})
  <2>1. ASSUME NEW z \in Nodes \ (L \ {n}), NEW d \in Sides PROVE r[d][z] = NULL
    <3>1. CASE z = n  BY <1>20, <3>1 DEF Erased
    <3>2. CASE z # n
      <4>1. z \notin L /\ z \in Places \ {n}  BY <1>4, <2>1, <3>2
      <4>2. z # q \/ n = t.root  BY <1>7, <4>1
      <4>3. r[d][z] = u[d][z]  BY <1>1, <1>22, <4>1, <4>2
      <4>4. u[d][z] = t[d][z]  BY <1>3, <1>16, <4>1
      <4> QED  BY <1>33, <2>1, <4>1, <4>3, <4>4 DEF Loose
    <3> QED  BY <3>1, <3>2
  <2> QED  BY <2>1 DEF Loose
<1> QED  BY <1>32, <1>33


(* The root has at most one child, which follows it.                       *)
LEMMA RootSplices ==
  ASSUME NEW t, NEW L, NEW at, Formed(t, L), NEW n, NEW x, NEW e, Cut(t, L, at, n, n, x, e),
         n = t.root, NEW r, r = Cleared([t EXCEPT !.root = x], n)
  PROVE  Spliced(t, L, n, n, x, r) /\ (Loose(t, L) => Loose(r, L \ {n}))
<1>1. /\ n \in L /\ x \in L \cup {NIL} /\ x # n /\ t \in Trees /\ L \subseteq Nodes
      /\ NIL \notin Nodes
  BY NodesAssumption DEF Cut, Formed, Shape
<1>2. x \in Places /\ n \in Nodes /\ Nodes \subseteq Places  BY <1>1 DEF Places
<1>3. PICK v : v = [t EXCEPT !.root = x]  OBVIOUS
<1>4. /\ v \in Trees /\ v.root = x /\ v.red = t.red
      /\ v.left = t.left /\ v.right = t.right /\ v.parent = t.parent
  BY <1>1, <1>2, <1>3 DEF Trees
<1>5. \A d \in Sides : v[d] = t[d]  BY <1>4 DEF Sides
<1>6. r = Cleared(v, n)  BY <1>3
<1>7. Erased(v, n, r)  BY <1>2, <1>4, <1>6, ClearedErases
<1>8. /\ r \in Trees /\ r.root = x /\ r.red = t.red
      /\ \A z \in Places \ {n} : r.parent[z] = t.parent[z]
  BY <1>4, <1>7 DEF Erased
<1>9. \A z \in Places \ {n} : \A d \in Sides : r[d][z] = t[d][z]  BY <1>5, <1>7 DEF Erased
<1>10. \A w : Heir(n, n, x, w) = IF w = n THEN x ELSE w  BY DEF Heir
<1>11. \A z : Old(n, n, z) = z  BY DEF Old
<1>12. ASSUME NEW z \in L \ {n}, NEW d \in Sides
       PROVE  r[d][z] = Heir(n, n, x, t[d][Old(n, n, z)])
  <2>1. r[d][z] = t[d][z]  BY <1>1, <1>2, <1>9
  <2>2. t[d][z] # n
    <3>1. t[d][z] # NIL => t[d][z] # t.root  BY Apart
    <3> QED  BY <1>1, <3>1
  <2> QED  BY <1>10, <1>11, <2>1, <2>2
<1>13. ASSUME NEW z \in L \ {n}, z # x, z # t.root
       PROVE  r.parent[z] = Heir(n, n, x, t.parent[z])
  <2>1. r.parent[z] = t.parent[z]  BY <1>1, <1>2, <1>8, <1>13
  <2>2. t.parent[z] # n
    <3>1. SUFFICES ASSUME t.parent[z] = n PROVE FALSE  OBVIOUS
    <3>2. \E d \in Sides : t[d][n] = z  BY <1>13, <3>1 DEF Formed, Shape, Links
    <3>3. \A d \in Sides : t[d][n] \in {x, NIL}  BY DEF Cut, Sides, Other
    <3> QED  BY <1>1, <1>13, <3>2, <3>3
  <2> QED  BY <1>10, <2>1, <2>2
<1>14. r.root = Heir(n, n, x, t.root)  BY <1>8, <1>10
<1>15. Spliced(t, L, n, n, x, r)
  <2>1. \A z \in L \ {n} : z # x /\ Old(n, n, z) # t.root =>
           r.parent[z] = Heir(n, n, x, t.parent[Old(n, n, z)])
    BY <1>11, <1>13
  <2>2. \A z \in L \ {n} : z \in r.red <=> Old(n, n, z) \in t.red  BY <1>8, <1>11
  <2>3. r \in Trees  BY <1>8
  <2> QED  BY <1>12, <1>14, <2>1, <2>2, <2>3 DEF Spliced
<1>16. ASSUME Loose(t, L) PROVE Loose(r, L \ {n})
  <2>1. ASSUME NEW z \in Nodes \ (L \ {n}), NEW d \in Sides PROVE r[d][z] = NULL
    <3>1. CASE z = n  BY <1>7, <3>1 DEF Erased
    <3>2. CASE z # n
      <4>1. r[d][z] = t[d][z]  BY <1>2, <1>9, <2>1, <3>2
      <4> QED  BY <1>16, <2>1, <3>2, <4>1 DEF Loose
    <3> QED  BY <3>1, <3>2
  <2> QED  BY <2>1 DEF Loose
<1> QED  BY <1>15, <1>16

(* What vs_rbtree_delete() takes out can be taken out.                     *)
LEMMA SubstCuts ==
  ASSUME NEW L, NEW s, NEW at, Placed(tree, L, s, at), NEW n \in L
  PROVE  \E e : Cut(tree, L, at, n, Subst(n), Temp(n), e)
<1>1. PICK lo, hi : Shape(tree, L, s, at, lo, hi)  BY DEF Placed
<1>2. /\ L \subseteq Nodes /\ NIL \notin Nodes /\ Spans(tree, L, at, lo, hi)
      /\ Formed(tree, L) /\ Loose(tree, L)
  BY <1>1, NodesAssumption DEF Shape, Formed, Placed
<1>3. \A y \in L : \A d \in Sides : tree[d][y] \in L \cup {NIL}  BY <1>1 DEF Shape, Links
<1>4. PICK y, x : y = Subst(n) /\ x = Temp(n)  OBVIOUS
<1>5. x = IF tree.left[y] = NIL THEN tree.right[y] ELSE tree.left[y]  BY <1>4 DEF Temp
<1>6. ASSUME y \in L, tree.left[y] = NIL \/ tree.right[y] = NIL
      PROVE  \E e \in Sides : /\ tree[e][y] = x /\ tree[Other(e)][y] = NIL
                              /\ x \in L \cup {NIL} /\ x # y
  <2>1. \A d \in Sides : tree[d][y] # y
    <3>1. ASSUME NEW d \in Sides PROVE tree[d][y] # y
      <4>1. tree[d][y] # NIL => tree[d][y] # y  BY <1>2, <1>6, Apart
      <4> QED  BY <1>2, <1>6, <4>1
    <3> QED  BY <3>1
  <2>2. CASE tree.left[y] = NIL
    <3>1. tree["right"][y] = x /\ tree[Other("right")][y] = NIL /\ "right" \in Sides
      BY <1>5, <2>2 DEF Other, Sides
    <3> QED  BY <1>3, <1>6, <2>1, <3>1
  <2>3. CASE tree.left[y] # NIL
    <3>1. tree["left"][y] = x /\ tree[Other("left")][y] = NIL /\ "left" \in Sides
      BY <1>5, <1>6, <2>3 DEF Other, Sides
    <3> QED  BY <1>3, <1>6, <2>1, <3>1
  <2> QED  BY <2>2, <2>3
<1>7. CASE tree.left[n] = NIL \/ tree.right[n] = NIL
  <2>1. y = n  BY <1>4, <1>7 DEF Subst
  <2>2. PICK e \in Sides : /\ tree[e][y] = x /\ tree[Other(e)][y] = NIL
                           /\ x \in L \cup {NIL} /\ x # y
    BY <1>6, <1>7, <2>1
  <2>3. Cut(tree, L, at, n, y, x, e)  BY <2>1, <2>2 DEF Cut
  <2> QED  BY <1>4, <2>3
<1>8. CASE tree.left[n] # NIL /\ tree.right[n] # NIL
  <2>1. PICK c : c = tree.right[n]  OBVIOUS
  <2>2. c \in L /\ lo[c] = at[n] + 1  BY <1>2, <1>3, <1>8, <2>1 DEF Spans, Sides
  <2>3. y = Leftmost(tree, c)  BY <1>4, <1>8, <2>1 DEF Subst
  <2>4. y \in L /\ tree.left[y] = NIL /\ at[y] = lo[c]  BY <1>1, <1>2, <2>2, <2>3, LeftmostIsFirst
  <2>5. PICK e \in Sides : /\ tree[e][y] = x /\ tree[Other(e)][y] = NIL
                           /\ x \in L \cup {NIL} /\ x # y
    BY <1>6, <2>4
  <2>6. \A z \in L : /\ 1 <= lo[z] /\ lo[z] <= at[z] /\ lo[z] \in Int /\ at[z] \in Int
    BY <1>1, SpansWithin
  <2>7. at[y] = at[n] + 1 /\ at[n] \in Int /\ 1 <= at[n]  BY <2>2, <2>4, <2>6
  <2>8. y # n  BY <2>7
  <2>9. y # tree.root
    <3>1. SUFFICES ASSUME y = tree.root PROVE FALSE  OBVIOUS
    <3>2. lo[y] = 1 /\ lo[y] = at[y]  BY <1>1, <1>2, <2>4, <3>1 DEF Shape, Spans
    <3> QED  BY <2>7, <3>2
  <2>10. x # n
    <3>1. SUFFICES ASSUME x = n PROVE FALSE  OBVIOUS
    <3>2. tree.right[y] = n  BY <1>5, <2>4, <3>1
    <3>3. n # NIL  BY <1>2
    <3>4. lo[n] = at[y] + 1  BY <1>2, <2>4, <3>2, <3>3 DEF Spans
    <3> QED  BY <2>6, <2>7, <3>4
  <2>11. Cut(tree, L, at, n, y, x, e)  BY <2>4, <2>5, <2>7, <2>9, <2>10 DEF Cut
  <2> QED  BY <1>4, <2>11
<1> QED  BY <1>7, <1>8


LEMMA DeleteRootKeeps ==
  ASSUME NEW s, NEW at, Placed(tree, linked, s, at), Coloured(tree, linked, pc, cur),
         NEW n \in linked, Delete(n), NEW x, x = Temp(n), NEW e,
         Cut(tree, linked, at, n, n, x, e), Subst(n) = n, n = tree.root
  PROVE  \E at2 : Kept(Without(s, at[n]), at2)
<1>1. /\ pc = "idle" /\ cur = NIL /\ Balanced(tree, linked) /\ linked' = linked \ {n}
      /\ pc' = pc /\ cur' = cur
      /\ tree' = Stale(Cleared(Paint([tree EXCEPT !.root = x], {}, {x}), n), x)
  BY DEF Delete, Coloured
<1>2. Formed(tree, linked) /\ Loose(tree, linked) /\ tree \in Trees /\ n \in Nodes
      /\ linked \subseteq Nodes /\ NIL \notin Nodes /\ NULL \notin Nodes
  BY PlacedFormed, NodesAssumption DEF Placed, Shape
<1>3. PICK L : L = linked \ {n}  OBVIOUS
<1>4. PICK r1 : r1 = Cleared([tree EXCEPT !.root = x], n)  OBVIOUS
<1>5. Spliced(tree, linked, n, n, x, r1) /\ Loose(r1, L)  BY <1>2, <1>3, <1>4, RootSplices
<1>6. PICK at2 : Placed(r1, L, Without(s, at[n]), at2)  BY <1>3, <1>5, SpliceKeepsPlaced
<1>7. Formed(r1, L) /\ Links(r1, L)  BY <1>6 DEF Placed, Formed, Shape
<1>8. n \notin tree.red  BY <1>1, <1>2 DEF Balanced, Clean
<1>9. PICK k : DeleteBalance(r1, L, k, x)
  <2>1. IF n \in tree.red THEN Balanced(r1, L) ELSE \E k : DeleteBalance(r1, L, k, x)
    BY <1>1, <1>2, <1>3, <1>5, <1>7, SpliceBalances
  <2> QED  BY <1>8, <2>1
<1>10. r1.root = x /\ r1 \in Trees  BY <1>5 DEF Spliced, Heir
<1>11. PICK r2 : r2 = Paint(r1, {}, {x})  OBVIOUS
<1>12. Balanced(r2, L)  BY <1>7, <1>9, <1>10, <1>11, DeleteEnds
<1>13. {} \in SUBSET Nodes  OBVIOUS
<1>14. Placed(r2, L, Without(s, at[n]), at2)  BY <1>6, <1>11, <1>13, PaintKeepsPlaced
(* The order of the assignments makes no difference.                       *)
<1>15. x \in Places /\ x # n  BY <1>2 DEF Cut, Places
<1>16. PICK w1 : w1 = [tree EXCEPT !.root = x]  OBVIOUS
<1>17. PICK w2 : w2 = Paint(w1, {}, {x})  OBVIOUS
<1>18. PICK w3 : w3 = Cleared(w2, n)  OBVIOUS
<1>19. w1 \in Trees /\ w1.root = x  BY <1>2, <1>15, <1>16 DEF Trees
<1>20. /\ w2 \in Trees /\ w2.root = x /\ w2.red = w1.red \ {x}
       /\ w2.left = w1.left /\ w2.right = w1.right /\ w2.parent = w1.parent
  BY <1>17, <1>19 DEF Trees, Paint
<1>21. Erased(w2, n, w3)  BY <1>2, <1>18, <1>20, ClearedErases
<1>22. Rehung(w3, x, NULL, tree')
  <2>1. tree' = [w3 EXCEPT !.parent[x] = NULL]  BY <1>1, <1>16, <1>17, <1>18 DEF Stale
  <2>2. w3 \in Trees /\ NULL \in Places \cup {NULL}  BY <1>21 DEF Erased
  <2> QED  BY <1>15, <2>1, <2>2, ParentSet
<1>23. Erased(w1, n, r1)  BY <1>2, <1>4, <1>16, <1>19, ClearedErases
<1>24. /\ r2 \in Trees /\ r2.root = x /\ r2.red = r1.red \ {x}
       /\ r2.left = r1.left /\ r2.right = r1.right /\ r2.parent = r1.parent
  BY <1>10, <1>11 DEF Trees, Paint
<1>25. tree' \in Trees /\ tree'.root = r2.root /\ tree'.red = r2.red
  <2>1. tree' \in Trees /\ tree'.root = w3.root /\ tree'.red = w3.red  BY <1>22 DEF Rehung
  <2>2. w3.root = w2.root /\ w3.red = w2.red  BY <1>21 DEF Erased
  <2>3. r1.red = w1.red  BY <1>23 DEF Erased
  <2> QED  BY <1>20, <1>24, <2>1, <2>2, <2>3
<1>26. ASSUME NEW z \in Places, NEW d \in Sides PROVE tree'[d][z] = r2[d][z]
  <2>1. tree'[d] = w3[d]  BY <1>22 DEF Rehung
  <2>2. w2[d] = w1[d] /\ r2[d] = r1[d]  BY <1>20, <1>24 DEF Sides
  <2>3. CASE z = n
    <3>1. w3[d][z] = NULL  BY <1>21, <2>3 DEF Erased
    <3>2. r1[d][z] = NULL  BY <1>23, <2>3 DEF Erased
    <3> QED  BY <2>1, <2>2, <3>1, <3>2
  <2>4. CASE z # n
    <3>1. w3[d][z] = w2[d][z]  BY <1>21, <2>4 DEF Erased
    <3>2. r1[d][z] = w1[d][z]  BY <1>23, <2>4 DEF Erased
    <3> QED  BY <2>1, <2>2, <3>1, <3>2
  <2> QED  BY <2>3, <2>4
<1>27. ASSUME NEW z \in L \ {r2.root} PROVE tree'.parent[z] = r2.parent[z]
  <2>1. z \in Places \ {n} /\ z # x  BY <1>2, <1>3, <1>24 DEF Places
  <2>2. tree'.parent[z] = w3.parent[z]  BY <1>22, <2>1 DEF Rehung
  <2>3. w3.parent[z] = w2.parent[z]  BY <1>21, <2>1 DEF Erased
  <2>4. r1.parent[z] = w1.parent[z]  BY <1>23, <2>1 DEF Erased
  <2> QED  BY <1>20, <1>24, <2>2, <2>3, <2>4
<1>28. Nodes \subseteq Places /\ L \subseteq Places  BY <1>2, <1>3 DEF Places
<1>29. Loose(tree', L)
  <2>1. Loose(r2, L)  BY <1>14 DEF Placed
  <2> QED  BY <1>26, <1>28, <2>1 DEF Loose
<1>30. \A z \in L : \A d \in Sides : tree'[d][z] = r2[d][z]  BY <1>26, <1>28
<1>31. Placed(tree', L, Without(s, at[n]), at2) /\ (Balanced(r2, L) => Balanced(tree', L))
  BY <1>14, <1>25, <1>27, <1>29, <1>30, SameKeeps
<1> QED  BY <1>1, <1>3, <1>12, <1>31 DEF Kept, Coloured

LEMMA DeleteKeeps ==
  ASSUME NEW s, NEW at, Placed(tree, linked, s, at), Coloured(tree, linked, pc, cur),
         NEW n \in Nodes, Delete(n)
  PROVE  n \in linked /\ \E at2 : Kept(Without(s, at[n]), at2)
<1>1. n \in linked /\ pc = "idle" /\ linked' = linked \ {n}  BY DEF Delete
<1>2. Balanced(tree, linked) /\ cur = NIL  BY <1>1 DEF Coloured
<1>3. PICK y, x : y = Subst(n) /\ x = Temp(n)  OBVIOUS
<1>4. PICK e : Cut(tree, linked, at, n, y, x, e)  BY <1>1, <1>3, SubstCuts
<1>5. CASE y = tree.root
  <2>1. y = n  BY <1>4, <1>5 DEF Cut
  <2>2. Subst(n) = n /\ n = tree.root /\ Cut(tree, linked, at, n, n, x, e)
    BY <1>3, <1>4, <1>5, <2>1
  <2> QED  BY <1>1, <1>3, <2>2, DeleteRootKeeps
<1>6. CASE y # tree.root
  <2>1. Formed(tree, linked) /\ Loose(tree, linked)  BY PlacedFormed DEF Placed
  <2>2. PICK L, t : L = linked \ {n} /\ t = Cleared(Unlink(n), n)  OBVIOUS
  <2>3. Spliced(tree, linked, n, y, x, t) /\ Loose(t, L)
    <3>1. CASE y = n
      <4>1. t = Cleared([Under(tree, n, x) EXCEPT !.parent[x] = tree.parent[n]], n)
        BY <1>3, <2>2, <3>1 DEF Unlink
      <4>2. Cut(tree, linked, at, n, n, x, e) /\ n # tree.root  BY <1>4, <1>6, <3>1
      <4>3. Spliced(tree, linked, n, n, x, t) /\ (Loose(tree, linked) => Loose(t, linked \ {n}))
        BY <2>1, <4>1, <4>2, LoneSplices
      <4> QED  BY <2>1, <2>2, <3>1, <4>3
    <3>2. CASE y # n
      <4>1. PICK up : up = IF tree.parent[y] = n THEN y ELSE tree.parent[y]  OBVIOUS
      <4>2. t = Cleared(Replace([Under(tree, y, x) EXCEPT !.parent[x] = up], n, y), n)
        BY <1>3, <2>2, <3>2, <4>1 DEF Unlink
      <4>3. Spliced(tree, linked, n, y, x, t) /\ (Loose(tree, linked) => Loose(t, linked \ {n}))
        BY <1>4, <2>1, <3>2, <4>1, <4>2, MoveSplices
      <4> QED  BY <2>1, <2>2, <4>3
    <3> QED  BY <3>1, <3>2
  <2>4. PICK at2 : Placed(t, L, Without(s, at[n]), at2)
    BY <1>4, <2>2, <2>3, SpliceKeepsPlaced
  <2>5. Links(t, L)  BY <2>4 DEF Placed, Shape
  <2>6. IF y \in tree.red THEN Balanced(t, L) ELSE \E k : DeleteBalance(t, L, k, x)
    BY <1>2, <1>4, <2>1, <2>2, <2>3, <2>5, SpliceBalances
  <2>7. \/ y \in tree.red /\ tree' = Stale(t, NIL) /\ pc' = pc /\ cur' = cur
        \/ y \notin tree.red /\ tree' = t /\ pc' = "delete" /\ cur' = x
    BY <1>3, <1>6, <2>2 DEF Delete
  <2>8. CASE y \in tree.red
    <3>1. Balanced(t, L) /\ tree' = Stale(t, NIL)  BY <2>6, <2>7, <2>8
    <3>2. Placed(tree', L, Without(s, at[n]), at2) /\ (Balanced(t, L) => Balanced(tree', L))
      BY <2>4, <3>1, StaleKeeps
    <3>3. Kept(Without(s, at[n]), at2)
      BY <1>1, <1>2, <2>2, <2>7, <2>8, <3>1, <3>2 DEF Kept, Coloured
    <3> QED  BY <1>1, <3>3
  <2>9. CASE y \notin tree.red
    <3>1. /\ \E k : DeleteBalance(tree', L, k, x)
          /\ Placed(tree', L, Without(s, at[n]), at2)
      BY <2>4, <2>6, <2>7, <2>9
    <3>2. Kept(Without(s, at[n]), at2)  BY <1>1, <2>2, <2>7, <2>9, <3>1 DEF Kept, Coloured
    <3> QED  BY <1>1, <3>2
  <2> QED  BY <2>8, <2>9
<1> QED  BY <1>5, <1>6

LEMMA DeleteSorts ==
  ASSUME NEW s, NEW at, linked \subseteq Nodes, Listed(linked, s, at), Sorted(s),
         key \in [Nodes -> Nat], NEW n \in linked, key' = [key EXCEPT ![n] = 0],
         NEW g, g = at[n], NEW s2, s2 = Without(s, g)
  PROVE  Sorted(s2)'
<1>1. /\ Len(s) \in Nat /\ g \in 1 .. Len(s) /\ s[g] = n
      /\ \A i \in 1 .. Len(s) : at[s[i]] = i /\ s[i] \in linked
  <2>1. s \in Seq(linked) /\ g \in 1 .. Len(s) /\ s[g] = n  BY DEF Listed
  <2>2. \A i \in 1 .. Len(s) : at[s[i]] = i  BY DEF Listed
  <2>3. Len(s) \in Nat /\ \A i \in 1 .. Len(s) : s[i] \in linked  BY <2>1
  <2> QED  BY <2>1, <2>2, <2>3
<1>2. Len(s2) = Len(s) - 1 /\ \A i \in 1 .. Len(s) - 1 : s2[i] = IF i < g THEN s[i] ELSE s[i + 1]
  BY <1>1 DEF Without
<1>3. \A i \in 1 .. Len(s) : i # g => key'[s[i]] = key[s[i]]
  <2>1. ASSUME NEW i \in 1 .. Len(s), i # g PROVE key'[s[i]] = key[s[i]]
    <3>1. s[i] # n /\ s[i] \in Nodes  BY <1>1, <2>1
    <3> QED  BY <3>1
  <2> QED  BY <2>1
<1>4. ASSUME NEW i \in 1 .. Len(s) - 1
      PROVE  \E a \in 1 .. Len(s) : /\ key'[s2[i]] = key[s[a]]
                                    /\ i < g => a = i
                                    /\ i >= g => a = i + 1
  <2>1. i \in 1 .. Len(s) /\ i + 1 \in 1 .. Len(s)  BY <1>1
  <2>2. CASE i < g
    <3>1. s2[i] = s[i] /\ i # g  BY <1>2, <2>2
    <3>2. key'[s2[i]] = key[s[i]]  BY <1>3, <2>1, <3>1
    <3> QED  BY <1>1, <2>1, <2>2, <3>2
  <2>3. CASE i >= g
    <3>1. s2[i] = s[i + 1] /\ i + 1 # g  BY <1>1, <1>2, <2>3
    <3>2. key'[s2[i]] = key[s[i + 1]]  BY <1>3, <2>1, <3>1
    <3> QED  BY <1>1, <2>1, <2>3, <3>2
  <2> QED  BY <1>1, <2>2, <2>3
<1>5. ASSUME NEW i \in 1 .. Len(s) - 1, NEW j \in 1 .. Len(s) - 1, i <= j
      PROVE  key'[s2[i]] <= key'[s2[j]]
  <2>1. PICK a \in 1 .. Len(s) : key'[s2[i]] = key[s[a]] /\ (i < g => a = i) /\ (i >= g => a = i + 1)
    BY <1>4
  <2>2. PICK b \in 1 .. Len(s) : key'[s2[j]] = key[s[b]] /\ (j < g => b = j) /\ (j >= g => b = j + 1)
    BY <1>4
  <2>3. a <= b  BY <1>1, <1>5, <2>1, <2>2
  <2>4. key[s[a]] <= key[s[b]]  BY <2>3 DEF Sorted
  <2> QED  BY <2>1, <2>2, <2>4
<1> QED  BY <1>2, <1>5 DEF Sorted


-----------------------------------------------------------------------------
(***************************************************************************)
(* The invariant: there is an order s of the nodes by their keys that the  *)
(* links keep to, and the colours are those that the running loop expects. *)
(***************************************************************************)
TreeInv ==
    /\ key \in [Nodes -> Nat]
    /\ Coloured(tree, linked, pc, cur)
    /\ \E s, at : Placed(tree, linked, s, at) /\ Sorted(s)

LEMMA EmptyTree == Init => TreeInv
<1> SUFFICES ASSUME Init PROVE TreeInv  OBVIOUS
<1>1. /\ linked = {} /\ pc = "idle" /\ cur = NIL /\ key \in [Nodes -> Nat]
      /\ tree \in Trees /\ tree.root = NIL /\ tree.red = {}
      /\ \A d \in Sides : \A x \in Nodes : tree[d][x] = NULL
  BY DEF Init, Trees, Places, Sides
<1>2. PICK h : h = [x \in Places |-> 0]  OBVIOUS
<1>3. NIL \in Places  BY DEF Places
<1>4. Even(tree, {}, h, NIL, "left")  BY <1>2, <1>3 DEF Even, EvenBut
<1>5. Clean(tree, {}, NULL)  BY <1>1 DEF Clean
<1>6. Coloured(tree, linked, pc, cur)  BY <1>1, <1>4, <1>5 DEF Coloured, Balanced
<1>7. PICK at : at = [x \in Nodes |-> 0]  OBVIOUS
<1>8. at \in [Nodes -> Int]  BY <1>7
<1>9. Listed({}, <<>>, at)  BY <1>8 DEF Listed
<1>10. Spans(tree, {}, at, at, at) /\ Links(tree, {})  BY <1>1, <1>8 DEF Spans, Links
<1>11. Shape(tree, {}, <<>>, at, at, at)  BY <1>1, <1>9, <1>10 DEF Shape
<1>12. Placed(tree, linked, <<>>, at)  BY <1>1, <1>11 DEF Placed, Loose
<1>13. Sorted(<<>>)  BY DEF Sorted
<1> QED  BY <1>1, <1>6, <1>12, <1>13 DEF TreeInv

(* One round of a loop.                                                    *)
LEMMA RoundsKeep ==
  ASSUME NEW s, NEW at, Placed(tree, linked, s, at), Coloured(tree, linked, pc, cur), Rebalance
  PROVE  Kept(s, at) /\ linked' = linked /\ key' = key
<1>1. CASE InsertRecolours
  BY <1>1, InsertRecoloursKeeps DEF InsertRecolours
<1>2. CASE InsertRotates
  BY <1>2, InsertRotatesKeeps DEF InsertRotates
<1>3. CASE InsertDone
  BY <1>3, InsertDoneKeeps DEF InsertDone
<1>4. CASE DeleteRecolours
  BY <1>4, DeleteRecoloursKeeps DEF DeleteRecolours
<1>5. CASE DeleteRotates
  BY <1>5, DeleteRotatesKeeps DEF DeleteRotates
<1>6. CASE DeleteDone
  BY <1>6, DeleteDoneKeeps DEF DeleteDone
<1> QED  BY <1>1, <1>2, <1>3, <1>4, <1>5, <1>6 DEF Rebalance

LEMMA TreeStep == TreeInv /\ [Next]_vars => TreeInv'
<1> SUFFICES ASSUME TreeInv, [Next]_vars PROVE TreeInv'  OBVIOUS
<1>1. PICK s, at : Placed(tree, linked, s, at) /\ Sorted(s)  BY DEF TreeInv
<1>2. key \in [Nodes -> Nat] /\ Coloured(tree, linked, pc, cur)  BY DEF TreeInv
<1>3. linked \subseteq Nodes /\ Listed(linked, s, at) /\ s \in Seq(linked)
  BY <1>1 DEF Placed, Shape, Listed
<1>4. CASE Rebalance
  <2>1. Kept(s, at) /\ key' = key  BY <1>1, <1>2, <1>4, RoundsKeep
  <2>2. Sorted(s)'  BY <1>1, <2>1 DEF Sorted
  <2> QED  BY <1>2, <2>1, <2>2 DEF TreeInv, Kept
<1>5. ASSUME NEW n \in Nodes, NEW k \in KeysOf[n], Insert(n, k) PROVE TreeInv'
  <2>1. k \in Nat  BY NodesAssumption
  <2>2. PICK s2, at2 : Kept(s2, at2) /\ Inserted(s, n, k, s2)
    BY <1>1, <1>2, <1>5, <2>1, InsertKeeps
  <2>3. n \in Nodes \ linked /\ key' = [key EXCEPT ![n] = k]  BY <1>5 DEF Insert
  <2>4. Sorted(s2)'  BY <1>1, <1>2, <1>3, <2>1, <2>2, <2>3, InsertSorts
  <2>5. key' \in [Nodes -> Nat]  BY <1>2, <2>1, <2>3
  <2> QED  BY <2>2, <2>4, <2>5 DEF TreeInv, Kept
<1>6. ASSUME NEW n \in Nodes, Delete(n) PROVE TreeInv'
  <2>1. n \in linked /\ \E at2 : Kept(Without(s, at[n]), at2)  BY <1>1, <1>2, <1>6, DeleteKeeps
  <2>2. PICK s2 : s2 = Without(s, at[n])  OBVIOUS
  <2>3. PICK at2 : Kept(s2, at2)  BY <2>1, <2>2
  <2>4. key' = [key EXCEPT ![n] = 0]  BY <1>6 DEF Delete
  <2>5. Sorted(s2)'  BY <1>1, <1>2, <1>3, <2>1, <2>2, <2>4, DeleteSorts
  <2>6. key' \in [Nodes -> Nat]  BY <1>2, <2>4
  <2> QED  BY <2>3, <2>5, <2>6 DEF TreeInv, Kept
<1>7. CASE UNCHANGED vars
  <2>1. tree' = tree /\ key' = key /\ linked' = linked /\ pc' = pc /\ cur' = cur
    BY <1>7 DEF vars
  <2>2. Sorted(s)'  BY <1>1, <2>1 DEF Sorted
  <2>3. Placed(tree', linked', s, at) /\ Coloured(tree', linked', pc', cur')
    BY <1>1, <1>2, <2>1
  <2> QED  BY <1>2, <2>1, <2>2, <2>3 DEF TreeInv
<1> QED  BY <1>4, <1>5, <1>6, <1>7 DEF Next, Caller

(* There is always such an order, and the colours are as expected.         *)
THEOREM TreeInvariant == Spec => []TreeInv
<1>1. Init => TreeInv  BY EmptyTree
<1>2. TreeInv /\ [Next]_vars => TreeInv'  BY TreeStep
<1> QED  BY <1>1, <1>2, PTL DEF Spec

LEMMA InvTypes == TreeInv => TypeOK
<1> SUFFICES ASSUME TreeInv PROVE TypeOK  OBVIOUS
<1>1. PICK s, at : Placed(tree, linked, s, at)  BY DEF TreeInv
<1>2. tree \in Trees /\ linked \subseteq Nodes  BY <1>1 DEF Placed, Shape
<1>3. pc \in {"idle", "insert", "delete"} /\ cur \in linked \cup {NIL}
  BY DEF TreeInv, Coloured, InsertBalance, DeleteBalance
<1>4. cur \in Places  BY <1>2, <1>3 DEF Places
<1>5. tree \in [root : Places, left : [Places -> Places \cup {NULL}],
                right : [Places -> Places \cup {NULL}],
                parent : [Places -> Places \cup {NULL}], red : SUBSET Nodes]
  BY <1>2 DEF Trees
<1> QED  BY <1>2, <1>3, <1>4, <1>5 DEF TypeOK, TreeInv

(* The variables of the tree have their types.                             *)
THEOREM TypeCorrect == Spec => []TypeOK
<1>1. TreeInv => TypeOK  BY InvTypes
<1> QED  BY <1>1, TreeInvariant, PTL


-----------------------------------------------------------------------------
(* No loop follows a link that is not there.                               *)
LEMMA InvLinks == TreeInv => LinksAgree
<1> SUFFICES ASSUME TreeInv PROVE LinksAgree  OBVIOUS
<1>1. PICK s, at : Placed(tree, linked, s, at)  BY DEF TreeInv
<1>2. Links(tree, linked) /\ linked \subseteq Nodes /\ NIL \notin linked
  BY <1>1, NodesAssumption DEF Placed, Shape
<1>3. (tree.root = NIL <=> linked = {}) /\ tree.root \in linked \cup {NIL}
  BY <1>2 DEF Links
<1>4. \A x \in linked : \A d \in Sides :
        tree[d][x] \in linked \cup {NIL}
        /\ (tree[d][x] # NIL => tree.parent[tree[d][x]] = x)
  BY <1>2 DEF Links
<1>5. ASSUME pc = "delete", cur # tree.root
      PROVE  Parent \in linked /\ cur \in {tree.left[Parent], tree.right[Parent]}
  <2>1. PICK h : DeleteBalance(tree, linked, h, cur)  BY <1>5 DEF TreeInv, Coloured
  <2>2. \E d \in Sides : tree.parent[cur] \in linked /\ tree[d][tree.parent[cur]] = cur
    BY <1>5, <2>1 DEF DeleteBalance
  <2> QED  BY <2>2 DEF Parent, Sides
<1> QED  BY <1>3, <1>4, <1>5 DEF LinksAgree

LEMMA InvLoops == TreeInv => LoopsStayInTree
<1> SUFFICES ASSUME TreeInv PROVE LoopsStayInTree  OBVIOUS
<1>1. PICK s, at : Placed(tree, linked, s, at)  BY DEF TreeInv
<1>2. Formed(tree, linked)  BY <1>1, PlacedFormed
<1>3. ASSUME pc = "insert", RedRed PROVE Parent # tree.root /\ Grand \in linked
  <2>1. PICK h : InsertBalance(tree, linked, h, cur)  BY <1>3 DEF TreeInv, Coloured
  <2>2. RedPair(tree, linked, cur, Parent, Grand, Uncle, Side(tree, Parent))
    BY <1>2, <1>3, <2>1, RedParent DEF RedRed, Parent, Grand, Uncle
  <2> QED  BY <2>2 DEF RedPair
<1>4. ASSUME pc = "delete", ShortBranch, NEW w, w = Sibling(tree, cur)
      PROVE  w \in linked /\ (w \in tree.red => {tree.left[w], tree.right[w]} \subseteq linked)
  <2>1. PICK h : DeleteBalance(tree, linked, h, cur)  BY <1>4 DEF TreeInv, Coloured
  <2>2. PICK p, d : p = Parent /\ d = Side(tree, cur)  OBVIOUS
  <2>3. Short(tree, linked, h, cur, p, w, d)
    BY <1>2, <1>4, <2>1, <2>2, ShortSide DEF ShortBranch, Parent
  <2>4. w \in linked  BY <2>3 DEF Short
  <2>5. ASSUME w \in tree.red PROVE {tree.left[w], tree.right[w]} \subseteq linked
    <3>1. PICK v : v = Paint(tree, {p}, {w})  OBVIOUS
    <3>2. PICK r : r = Rotate(v, d, p)  OBVIOUS
    <3> QED  BY <1>2, <2>3, <2>5, <3>1, <3>2, SiblingTurns
  <2> QED  BY <2>4, <2>5
<1> QED  BY <1>3, <1>4 DEF LoopsStayInTree

(***************************************************************************)
(* Links agree in both directions, and every link that a loop follows      *)
(* leads to a node of the tree.                                            *)
(***************************************************************************)
THEOREM PointersStaySound == Spec => []PointersSound
<1>1. TreeInv => PointersSound  BY InvLinks, InvLoops DEF PointersSound
<1> QED  BY <1>1, TreeInvariant, PTL


-----------------------------------------------------------------------------
(* What InOrder and BlackHeights compute layer by layer is well defined.   *)
Layers(f, V, base, step, N) ==
    /\ f = [n \in 0 .. N |-> IF n = 0 THEN base ELSE step[f[n - 1]]]
    /\ \A n \in 0 .. N : f[n] \in V

LEMMA LayersExist ==
  ASSUME NEW V, NEW base \in V, NEW step \in [V -> V], NEW N \in Nat
  PROVE  \E f : Layers(f, V, base, step, N)
<1> DEFINE T == {n \in Nat : \E f : \A m \in 0 .. n :
                    f[m] \in V /\ f[m] = IF m = 0 THEN base ELSE step[f[m - 1]]}
<1>1. 0 \in T
  <2>1. PICK f : f = [m \in 0 .. 0 |-> base]  OBVIOUS
  <2>2. \A m \in 0 .. 0 : f[m] \in V /\ f[m] = IF m = 0 THEN base ELSE step[f[m - 1]]
    BY <2>1
  <2> QED  BY <2>2
<1>2. ASSUME NEW n \in Nat, n \in T PROVE n + 1 \in T
  <2>1. PICK f : \A m \in 0 .. n :
                   f[m] \in V /\ f[m] = IF m = 0 THEN base ELSE step[f[m - 1]]
    BY <1>2
  <2>2. PICK g : g = [m \in 0 .. n + 1 |-> IF m = n + 1 THEN step[f[n]] ELSE f[m]]
    OBVIOUS
  <2>3. ASSUME NEW m \in 0 .. n + 1
        PROVE  g[m] \in V /\ g[m] = IF m = 0 THEN base ELSE step[g[m - 1]]
    <3>1. CASE m = n + 1
      <4>1. g[m] = step[f[n]] /\ f[n] \in V  BY <2>1, <2>2, <3>1
      <4>2. g[m - 1] = f[n] /\ m # 0  BY <2>2, <3>1
      <4> QED  BY <4>1, <4>2
    <3>2. CASE m \in 0 .. n
      <4>1. g[m] = f[m]  BY <2>2, <3>2
      <4>2. m # 0 => g[m - 1] = f[m - 1]  BY <2>2, <3>2
      <4> QED  BY <2>1, <3>2, <4>1, <4>2
    <3> QED  BY <3>1, <3>2
  <2> QED  BY <2>3
<1>3. N \in T
  <2> HIDE DEF T
  <2> QED  BY <1>1, <1>2, NumbersFromZero
<1>4. PICK f : \A m \in 0 .. N :
                 f[m] \in V /\ f[m] = IF m = 0 THEN base ELSE step[f[m - 1]]
  BY <1>3
<1>5. PICK g : g = [m \in 0 .. N |-> f[m]]  OBVIOUS
<1>6. ASSUME NEW m \in 0 .. N PROVE g[m] \in V /\ g[m] = IF m = 0 THEN base ELSE step[g[m - 1]]
  <2>1. m # 0 => m - 1 \in 0 .. N  OBVIOUS
  <2> QED  BY <1>4, <1>5, <2>1
<1>7. Layers(g, V, base, step, N)  BY <1>5, <1>6 DEF Layers
<1> QED  BY <1>7

(* There are no more places than nodes.                                    *)
LEMMA ListFits ==
  ASSUME NEW L, L \subseteq Nodes, NEW s, NEW at, Listed(L, s, at)
  PROVE  Cardinality(Nodes) \in Nat /\ Len(s) <= Cardinality(Nodes)
<1>1. IsFiniteSet(Nodes) /\ Cardinality(Nodes) \in Nat
  BY NodesAssumption, FS_CardinalityType
<1>2. s \in Seq(L) /\ Len(s) \in Nat /\ \A i \in 1 .. Len(s) : at[s[i]] = i  BY DEF Listed
<1>3. IsFiniteSet(1 .. Len(s)) /\ Cardinality(1 .. Len(s)) = Len(s)
  <2>1. /\ IsFiniteSet(1 .. Len(s))
        /\ Cardinality(1 .. Len(s)) = IF 1 > Len(s) THEN 0 ELSE Len(s) - 1 + 1
    BY <1>2, FS_Interval
  <2> QED  BY <1>2, <2>1
<1>4. s \in [1 .. Len(s) -> Nodes]  BY <1>2
<1>5. ASSUME Cardinality(Nodes) < Len(s) PROVE FALSE
  <2>1. PICK i, j \in 1 .. Len(s) : i # j /\ s[i] = s[j]  BY <1>1, <1>3, <1>4, <1>5, FS_PigeonHole
  <2> QED  BY <1>2, <2>1
<1> QED  BY <1>1, <1>2, <1>5

(* On all branches of a tree with even colours the same number is counted. *)
LEMMA EvenHeights ==
  ASSUME NEW s, NEW at, Placed(tree, linked, s, at), Balanced(tree, linked)
  PROVE  Cardinality(BlackHeights) = 1
<1> DEFINE N == Cardinality(Nodes)
           Add(x, B) == {b + (IF x \in tree.red THEN 0 ELSE 1) : b \in B}
           F(f) == f = [depth \in 0 .. N |->
                          [x \in Places |-> IF x \in linked /\ depth # 0
                              THEN Add(x, f[depth - 1][tree.left[x]]
                                             \cup f[depth - 1][tree.right[x]])
                              ELSE {1}]]
           g == CHOOSE f : F(f)
<1>1. PICK lo, hi : Shape(tree, linked, s, at, lo, hi)  BY DEF Placed
<1>2. PICK h : Even(tree, linked, h, NIL, "left")  BY DEF Balanced
<1>3. /\ linked \subseteq Nodes /\ NIL \notin linked /\ Listed(linked, s, at)
      /\ Links(tree, linked) /\ Spans(tree, linked, at, lo, hi)
  BY <1>1, NodesAssumption DEF Shape
<1>4. N \in Nat /\ Len(s) <= N /\ Len(s) \in Nat  BY <1>3, ListFits DEF Listed
<1>5. ASSUME NEW x \in linked
      PROVE  /\ tree.left[x] \in linked \cup {NIL} /\ tree.right[x] \in linked \cup {NIL}
             /\ tree.left[x] \in Places /\ tree.right[x] \in Places
  <2>1. tree.left[x] \in linked \cup {NIL} /\ tree.right[x] \in linked \cup {NIL}
    BY <1>3 DEF Links, Sides
  <2> QED  BY <1>3, <2>1 DEF Places
<1>6. \E f : F(f)
  <2> DEFINE V == [Places -> SUBSET Nat]
             up(v) == [x \in Places |-> IF x \in linked
                         THEN Add(x, v[tree.left[x]] \cup v[tree.right[x]]) ELSE {1}]
             step == [v \in V |-> up(v)]
             base == [x \in Places |-> {1}]
  <2>1. base \in V  OBVIOUS
  <2>2. ASSUME NEW v \in V PROVE up(v) \in V
    <3>1. ASSUME NEW x \in linked PROVE v[tree.left[x]] \cup v[tree.right[x]] \in SUBSET Nat
      BY <1>5
    <3>2. ASSUME NEW x, NEW B \in SUBSET Nat PROVE Add(x, B) \in SUBSET Nat  OBVIOUS
    <3> HIDE DEF Add
    <3>3. ASSUME NEW x \in Places
          PROVE  (IF x \in linked THEN Add(x, v[tree.left[x]] \cup v[tree.right[x]])
                                  ELSE {1}) \in SUBSET Nat
      BY <3>1, <3>2
    <3> QED  BY <3>3
  <2>3. step \in [V -> V]
    <3> HIDE DEF V, up
    <3> QED  BY <2>2
  <2>4. PICK f : /\ f = [n \in 0 .. N |-> IF n = 0 THEN base ELSE step[f[n - 1]]]
                 /\ \A n \in 0 .. N : f[n] \in V
    <3> HIDE DEF V, base, step, N, F, Add
    <3>1. \E f : Layers(f, V, base, step, N)  BY <1>4, <2>1, <2>3, LayersExist
    <3> QED  BY <3>1 DEF Layers
  <2>5. ASSUME NEW n \in 0 .. N
        PROVE  f[n] = [x \in Places |-> IF x \in linked /\ n # 0
                         THEN Add(x, f[n - 1][tree.left[x]] \cup f[n - 1][tree.right[x]])
                         ELSE {1}]
    <3> HIDE DEF Add
    <3>1. CASE n = 0
      <4>1. f[n] = base  BY <2>4, <3>1
      <4> QED  BY <3>1, <4>1
    <3>2. CASE n # 0
      <4>1. n - 1 \in 0 .. N  BY <1>4, <3>2
      <4>2. f[n - 1] \in V  BY <2>4, <4>1
      <4>3. f[n] = up(f[n - 1])
        <5> HIDE DEF V, up, base
        <5> QED  BY <2>4, <3>2, <4>2
      <4> QED  BY <3>2, <4>3
    <3> QED  BY <3>1, <3>2
  <2>6. F(f)
    <3> HIDE DEF Add
    <3> QED  BY <2>4, <2>5
  <2> QED  BY <2>6
<1>7. F(g)
  <2> HIDE DEF F
  <2> QED  BY <1>6
<1>8. BlackHeights = g[N][tree.root]  BY DEF BlackHeights
<1> HIDE DEF g
<1>9. ASSUME NEW n \in 0 .. N, NEW x \in Places
      PROVE  g[n][x] = IF x \in linked /\ n # 0
                       THEN Add(x, g[n - 1][tree.left[x]] \cup g[n - 1][tree.right[x]])
                       ELSE {1}
  <2> HIDE DEF Add
  <2>1. g = [depth \in 0 .. N |->
              [y \in Places |-> IF y \in linked /\ depth # 0
                  THEN Add(y, g[depth - 1][tree.left[y]] \cup g[depth - 1][tree.right[y]])
                  ELSE {1}]]
    BY <1>7
  <2>2. g[n] = [y \in Places |-> IF y \in linked /\ n # 0
                  THEN Add(y, g[n - 1][tree.left[y]] \cup g[n - 1][tree.right[y]])
                  ELSE {1}]
    BY <2>1
  <2> QED  BY <2>2
<1> HIDE DEF F
<1>10. /\ h \in [Places -> Nat] /\ h[NIL] = 0
       /\ \A x \in linked : \A d \in Sides : h[x] = h[tree[d][x]] + Weight(tree, x)
  BY <1>2, <1>3 DEF Even, EvenBut
<1> DEFINE Within(x, n) == x = NIL \/ (x \in linked /\ hi[x] - lo[x] < n)
           T == {n \in Nat : n <= N => \A x \in Places : Within(x, n) => g[n][x] = {h[x] + 1}}
<1>11. ASSUME NEW x \in linked
       PROVE  lo[x] \in Int /\ hi[x] \in Int /\ at[x] \in Int /\ lo[x] <= at[x] /\ at[x] <= hi[x]
  BY <1>3 DEF Spans, Listed
<1>12. ASSUME NEW x \in linked, NEW n \in Nat, hi[x] - lo[x] < n + 1
       PROVE  Within(tree.left[x], n) /\ Within(tree.right[x], n)
  <2>1. Within(tree.left[x], n)
    <3>1. tree.left[x] # NIL => lo[tree.left[x]] = lo[x] /\ hi[tree.left[x]] = at[x] - 1
      BY <1>3 DEF Spans
    <3> QED  BY <1>5, <1>11, <1>12, <3>1
  <2>2. Within(tree.right[x], n)
    <3>1. tree.right[x] # NIL => lo[tree.right[x]] = at[x] + 1 /\ hi[tree.right[x]] = hi[x]
      BY <1>3 DEF Spans
    <3> QED  BY <1>5, <1>11, <1>12, <3>1
  <2> QED  BY <2>1, <2>2
<1>13. 0 \in T
  <2>1. ASSUME NEW x \in Places, Within(x, 0), 0 <= N PROVE g[0][x] = {h[x] + 1}
    <3>1. x = NIL  BY <1>11, <2>1
    <3>2. g[0][x] = {1}
      <4>1. 0 \in 0 .. N  BY <1>4
      <4> HIDE DEF Add
      <4> QED  BY <1>9, <4>1
    <3> QED  BY <1>10, <3>1, <3>2
  <2> QED  BY <2>1
<1>14. ASSUME NEW n \in Nat, n \in T PROVE n + 1 \in T
  <2>1. ASSUME n + 1 <= N, NEW x \in Places, Within(x, n + 1)
        PROVE  g[n + 1][x] = {h[x] + 1}
    <3>1. n + 1 \in 0 .. N /\ n <= N /\ n + 1 # 0 /\ (n + 1) - 1 = n  BY <1>4, <2>1
    <3>2. CASE x = NIL
      <4>1. g[n + 1][x] = {1}
        <5> HIDE DEF Add
        <5> QED  BY <1>3, <1>9, <3>1, <3>2
      <4> QED  BY <1>10, <3>2, <4>1
    <3>3. CASE x # NIL
      <4>1. x \in linked /\ hi[x] - lo[x] < n + 1  BY <2>1, <3>3
      <4>2. Within(tree.left[x], n) /\ Within(tree.right[x], n)  BY <1>12, <4>1
      <4>3. g[n][tree.left[x]] = {h[tree.left[x]] + 1} /\ g[n][tree.right[x]] = {h[tree.right[x]] + 1}
        BY <1>5, <1>14, <3>1, <4>1, <4>2
      <4>4. h[x] = h[tree.left[x]] + Weight(tree, x) /\ h[x] = h[tree.right[x]] + Weight(tree, x)
        BY <1>10, <4>1 DEF Sides
      <4>5. h[tree.left[x]] \in Nat /\ h[tree.right[x]] \in Nat /\ Weight(tree, x) \in Nat
        BY <1>5, <1>10, <4>1 DEF Weight
      <4>6. h[tree.right[x]] = h[tree.left[x]]  BY <4>4, <4>5
      <4>7. g[n + 1][x] = Add(x, g[n][tree.left[x]] \cup g[n][tree.right[x]])
        <5> HIDE DEF Add
        <5> QED  BY <1>9, <3>1, <4>1
      <4>8. g[n + 1][x] = Add(x, {h[tree.left[x]] + 1})  BY <4>3, <4>6, <4>7
      <4>9. g[n + 1][x] = {h[tree.left[x]] + 1 + Weight(tree, x)}  BY <4>8 DEF Weight
      <4> QED  BY <4>4, <4>5, <4>9
    <3> QED  BY <3>2, <3>3
  <2> QED  BY <2>1
<1>15. N \in T
  <2> HIDE DEF T
  <2> QED  BY <1>4, <1>13, <1>14, NumbersFromZero
<1>16. tree.root \in Places /\ Within(tree.root, N)
  <2>1. CASE linked = {}  BY <1>3, <2>1 DEF Links, Places
  <2>2. CASE linked # {}
    <3>1. tree.root \in linked /\ lo[tree.root] = 1 /\ hi[tree.root] = Len(s)
      BY <1>1, <1>3, <2>2 DEF Links, Shape
    <3> QED  BY <1>3, <1>4, <3>1 DEF Places
  <2> QED  BY <2>1, <2>2
<1>17. BlackHeights = {h[tree.root] + 1}  BY <1>4, <1>8, <1>15, <1>16
<1> QED  BY <1>17, FS_Singleton

LEMMA InvColours == TreeInv => RedBlack
<1> SUFFICES ASSUME TreeInv, pc = "idle"
             PROVE  /\ tree.root \notin tree.red
                    /\ \A x \in linked \cap tree.red :
                          tree.left[x] \notin tree.red /\ tree.right[x] \notin tree.red
                    /\ Cardinality(BlackHeights) = 1
  BY DEF RedBlack
<1>1. PICK s, at : Placed(tree, linked, s, at)  BY DEF TreeInv
<1>2. Balanced(tree, linked)  BY DEF TreeInv, Coloured
<1>3. tree.red \subseteq Nodes /\ NULL \notin Nodes
  BY <1>1, NodesAssumption DEF Placed, Shape, Trees
<1>4. Clean(tree, linked, NULL)  BY <1>2 DEF Balanced
<1>5. tree.root \notin tree.red  BY <1>3, <1>4 DEF Clean
<1>6. ASSUME NEW x \in linked, x \in tree.red, NEW d \in Sides PROVE tree[d][x] \notin tree.red
  <2>1. tree[d][x] \in tree.red => NULL \in {x, tree[d][x]}  BY <1>4, <1>6 DEF Clean
  <2> QED  BY <1>3, <1>6, <2>1
<1>7. \A x \in linked \cap tree.red :
         tree.left[x] \notin tree.red /\ tree.right[x] \notin tree.red
  BY <1>6 DEF Sides
<1> QED  BY <1>1, <1>2, <1>5, <1>7, EvenHeights

(***************************************************************************)
(* Whenever no loop is running the tree is a red-black tree: no red node   *)
(* hangs under a red one, and all branches have as many black nodes.       *)
(***************************************************************************)
THEOREM ColoursBalanced == Spec => []RedBlack
<1>1. TreeInv => RedBlack  BY InvColours
<1> QED  BY <1>1, TreeInvariant, PTL

-----------------------------------------------------------------------------
(* The walk from left to right finds the order of the invariant.           *)
LEMMA WalkFinds ==
  ASSUME NEW s, NEW at, Placed(tree, linked, s, at)
  PROVE  InOrder = s
<1> DEFINE N == Cardinality(Nodes)
           F(f) == f = [depth \in 0 .. N |->
                          [x \in Places |-> IF x \in linked /\ depth # 0
                              THEN f[depth - 1][tree.left[x]] \o <<x>>
                                      \o f[depth - 1][tree.right[x]]
                              ELSE <<>>]]
           g == CHOOSE f : F(f)
<1>1. PICK lo, hi : Shape(tree, linked, s, at, lo, hi)  BY DEF Placed
<1>3. /\ linked \subseteq Nodes /\ NIL \notin linked /\ Listed(linked, s, at)
      /\ Links(tree, linked) /\ Spans(tree, linked, at, lo, hi)
  BY <1>1, NodesAssumption DEF Shape
<1>4. N \in Nat /\ Len(s) <= N /\ Len(s) \in Nat /\ s \in Seq(linked)
  BY <1>3, ListFits DEF Listed
<1>5. ASSUME NEW x \in linked
      PROVE  /\ tree.left[x] \in linked \cup {NIL} /\ tree.right[x] \in linked \cup {NIL}
             /\ tree.left[x] \in Places /\ tree.right[x] \in Places
  <2>1. tree.left[x] \in linked \cup {NIL} /\ tree.right[x] \in linked \cup {NIL}
    BY <1>3 DEF Links, Sides
  <2> QED  BY <1>3, <2>1 DEF Places
<1>6. \E f : F(f)
  <2> DEFINE V == [Places -> Seq(linked)]
             up(v) == [x \in Places |-> IF x \in linked
                         THEN v[tree.left[x]] \o <<x>> \o v[tree.right[x]] ELSE <<>>]
             step == [v \in V |-> up(v)]
             base == [x \in Places |-> <<>>]
  <2>1. base \in V  OBVIOUS
  <2>2. ASSUME NEW v \in V PROVE up(v) \in V
    <3>1. ASSUME NEW x \in linked PROVE v[tree.left[x]] \o <<x>> \o v[tree.right[x]] \in Seq(linked)
      <4>1. v[tree.left[x]] \in Seq(linked) /\ v[tree.right[x]] \in Seq(linked)  BY <1>5
      <4> QED  BY <4>1
    <3>2. ASSUME NEW x \in Places
          PROVE  (IF x \in linked THEN v[tree.left[x]] \o <<x>> \o v[tree.right[x]]
                                  ELSE <<>>) \in Seq(linked)
      BY <3>1
    <3> QED  BY <3>2
  <2>3. step \in [V -> V]
    <3> HIDE DEF V, up
    <3> QED  BY <2>2
  <2>4. PICK f : /\ f = [n \in 0 .. N |-> IF n = 0 THEN base ELSE step[f[n - 1]]]
                 /\ \A n \in 0 .. N : f[n] \in V
    <3> HIDE DEF V, base, step, N, F
    <3>1. \E f : Layers(f, V, base, step, N)  BY <1>4, <2>1, <2>3, LayersExist
    <3> QED  BY <3>1 DEF Layers
  <2>5. ASSUME NEW n \in 0 .. N
        PROVE  f[n] = [x \in Places |-> IF x \in linked /\ n # 0
                         THEN f[n - 1][tree.left[x]] \o <<x>> \o f[n - 1][tree.right[x]]
                         ELSE <<>>]
    <3>1. CASE n = 0
      <4>1. f[n] = base  BY <2>4, <3>1
      <4> QED  BY <3>1, <4>1
    <3>2. CASE n # 0
      <4>1. n - 1 \in 0 .. N  BY <1>4, <3>2
      <4>2. f[n - 1] \in V  BY <2>4, <4>1
      <4>3. f[n] = up(f[n - 1])
        <5> HIDE DEF V, up, base
        <5> QED  BY <2>4, <3>2, <4>2
      <4> QED  BY <3>2, <4>3
    <3> QED  BY <3>1, <3>2
  <2>6. F(f)  BY <2>4, <2>5
  <2> QED  BY <2>6
<1>7. F(g)
  <2> HIDE DEF F
  <2> QED  BY <1>6
<1>8. InOrder = g[N][tree.root]  BY DEF InOrder
<1> HIDE DEF g
<1>9. ASSUME NEW n \in 0 .. N, NEW x \in Places
      PROVE  g[n][x] = IF x \in linked /\ n # 0
                       THEN g[n - 1][tree.left[x]] \o <<x>> \o g[n - 1][tree.right[x]]
                       ELSE <<>>
  <2>1. g = [depth \in 0 .. N |->
              [y \in Places |-> IF y \in linked /\ depth # 0
                  THEN g[depth - 1][tree.left[y]] \o <<y>> \o g[depth - 1][tree.right[y]]
                  ELSE <<>>]]
    BY <1>7
  <2>2. g[n] = [y \in Places |-> IF y \in linked /\ n # 0
                  THEN g[n - 1][tree.left[y]] \o <<y>> \o g[n - 1][tree.right[y]]
                  ELSE <<>>]
    BY <2>1
  <2> QED  BY <2>2
<1> HIDE DEF F
<1> DEFINE Within(x, n) == x \in linked => hi[x] - lo[x] < n
           Part(x) == IF x \in linked THEN SubSeq(s, lo[x], hi[x]) ELSE <<>>
           T == {n \in Nat : n <= N => \A x \in linked \cup {NIL} : Within(x, n) => g[n][x] = Part(x)}
<1>11. ASSUME NEW x \in linked
       PROVE  /\ lo[x] \in Int /\ hi[x] \in Int /\ at[x] \in Int /\ lo[x] <= at[x] /\ at[x] <= hi[x]
              /\ 1 <= lo[x] /\ hi[x] <= Len(s) /\ s[at[x]] = x
  <2>1. s[at[x]] = x  BY <1>3 DEF Listed
  <2> QED  BY <1>1, <2>1, SpansWithin
<1>12. ASSUME NEW x \in linked, NEW n \in Nat, hi[x] - lo[x] < n + 1
       PROVE  Within(tree.left[x], n) /\ Within(tree.right[x], n)
  <2>1. Within(tree.left[x], n)
    <3>1. tree.left[x] # NIL => lo[tree.left[x]] = lo[x] /\ hi[tree.left[x]] = at[x] - 1
      BY <1>3 DEF Spans
    <3> QED  BY <1>3, <1>5, <1>11, <1>12, <3>1
  <2>2. Within(tree.right[x], n)
    <3>1. tree.right[x] # NIL => lo[tree.right[x]] = at[x] + 1 /\ hi[tree.right[x]] = hi[x]
      BY <1>3 DEF Spans
    <3> QED  BY <1>3, <1>5, <1>11, <1>12, <3>1
  <2> QED  BY <2>1, <2>2
<1>13. ASSUME NEW x \in linked
       PROVE  Part(tree.left[x]) \o <<x>> \o Part(tree.right[x]) = Part(x)
  <2>1. Part(tree.left[x]) = SubSeq(s, lo[x], at[x] - 1)
    <3>1. CASE tree.left[x] = NIL
      <4>1. lo[x] = at[x]  BY <1>3, <3>1 DEF Spans
      <4>2. SubSeq(s, lo[x], at[x] - 1) = <<>>  BY <1>11, <4>1, SubSeqEmpty
      <4> QED  BY <1>3, <3>1, <4>2
    <3>2. CASE tree.left[x] # NIL
      <4>1. lo[tree.left[x]] = lo[x] /\ hi[tree.left[x]] = at[x] - 1  BY <1>3, <3>2 DEF Spans
      <4> QED  BY <1>5, <3>2, <4>1
    <3> QED  BY <3>1, <3>2
  <2>2. Part(tree.right[x]) = SubSeq(s, at[x] + 1, hi[x])
    <3>1. CASE tree.right[x] = NIL
      <4>1. hi[x] = at[x]  BY <1>3, <3>1 DEF Spans
      <4>2. SubSeq(s, at[x] + 1, hi[x]) = <<>>  BY <1>11, <4>1, SubSeqEmpty
      <4> QED  BY <1>3, <3>1, <4>2
    <3>2. CASE tree.right[x] # NIL
      <4>1. lo[tree.right[x]] = at[x] + 1 /\ hi[tree.right[x]] = hi[x]  BY <1>3, <3>2 DEF Spans
      <4> QED  BY <1>5, <3>2, <4>1
    <3> QED  BY <3>1, <3>2
  <2>3. SubSeq(s, lo[x], at[x] - 1) \o <<x>> = SubSeq(s, lo[x], at[x])
    <3>1. lo[x] \in 1 .. Len(s) /\ at[x] \in lo[x] .. Len(s)  BY <1>4, <1>11
    <3> QED  BY <1>4, <1>11, <3>1, SubSeqRecursiveSecond
  <2>4. SubSeq(s, lo[x], at[x]) \o SubSeq(s, at[x] + 1, hi[x]) = SubSeq(s, lo[x], hi[x])
    <3>1. /\ lo[x] \in 1 .. Len(s) + 1 /\ at[x] \in lo[x] - 1 .. Len(s)
          /\ hi[x] \in at[x] .. Len(s)
      BY <1>4, <1>11
    <3> QED  BY <1>4, <3>1, ConcatAdjacentSubSeq
  <2> QED  BY <2>1, <2>2, <2>3, <2>4
<1>14. 0 \in T
  <2>1. ASSUME NEW x \in linked \cup {NIL}, Within(x, 0) PROVE g[0][x] = Part(x)
    <3>1. x = NIL  BY <1>11, <2>1
    <3>2. x \in Places /\ 0 \in 0 .. N  BY <1>4, <3>1 DEF Places
    <3> QED  BY <1>3, <1>9, <3>1, <3>2
  <2> QED  BY <2>1
<1>15. ASSUME NEW n \in Nat, n \in T PROVE n + 1 \in T
  <2>1. ASSUME n + 1 <= N, NEW x \in linked \cup {NIL}, Within(x, n + 1)
        PROVE  g[n + 1][x] = Part(x)
    <3>1. n + 1 \in 0 .. N /\ n <= N /\ n + 1 # 0 /\ (n + 1) - 1 = n  BY <1>4, <2>1
    <3>2. CASE x = NIL
      <4>1. x \in Places /\ x \notin linked  BY <1>3, <3>2 DEF Places
      <4> QED  BY <1>9, <3>1, <4>1
    <3>3. CASE x # NIL
      <4>1. x \in linked /\ x \in Places /\ hi[x] - lo[x] < n + 1  BY <1>3, <2>1, <3>3 DEF Places
      <4>2. Within(tree.left[x], n) /\ Within(tree.right[x], n)  BY <1>12, <4>1
      <4>3. g[n][tree.left[x]] = Part(tree.left[x]) /\ g[n][tree.right[x]] = Part(tree.right[x])
        <5> HIDE DEF Part, Within
        <5> QED  BY <1>5, <1>15, <3>1, <4>1, <4>2
      <4>4. g[n + 1][x] = g[n][tree.left[x]] \o <<x>> \o g[n][tree.right[x]]  BY <1>9, <3>1, <4>1
      <4> HIDE DEF Part
      <4> QED  BY <1>13, <4>1, <4>3, <4>4
    <3> QED  BY <3>2, <3>3
  <2> QED  BY <2>1
<1>16. N \in T
  <2> HIDE DEF T
  <2> QED  BY <1>4, <1>14, <1>15, NumbersFromZero
<1>17. CASE linked = {}
  <2>1. tree.root = NIL  BY <1>3, <1>17 DEF Links
  <2>2. NIL \in Places /\ N \in 0 .. N  BY <1>4 DEF Places
  <2>3. g[N][NIL] = <<>>  BY <1>9, <1>17, <2>2
  <2>4. s = <<>>
    <3>1. Len(s) = 0
      <4>1. ASSUME Len(s) # 0 PROVE FALSE
        <5>1. 1 \in 1 .. Len(s)  BY <1>4, <4>1
        <5> QED  BY <1>4, <1>17, <5>1
      <4> QED  BY <4>1
    <3> QED  BY <1>4, <3>1
  <2> QED  BY <1>8, <2>1, <2>3, <2>4
<1>18. CASE linked # {}
  <2>1. tree.root \in linked /\ lo[tree.root] = 1 /\ hi[tree.root] = Len(s)
    BY <1>1, <1>3, <1>18 DEF Links, Shape
  <2>2. Within(tree.root, N)  BY <1>4, <2>1
  <2>3. g[N][tree.root] = Part(tree.root)
    <3> HIDE DEF Part, Within
    <3> QED  BY <1>4, <1>16, <2>1, <2>2
  <2>4. Part(tree.root) = SubSeq(s, 1, Len(s))  BY <2>1
  <2>5. SubSeq(s, 1, Len(s)) = s  BY <1>4, SubSeqFull
  <2> QED  BY <1>8, <2>3, <2>4, <2>5
<1> QED  BY <1>17, <1>18


(* The parts of a sequence before and behind a place.                      *)
LEMMA FirstPart ==
  ASSUME NEW R, NEW q \in Seq(R), NEW g \in 0 .. Len(q), NEW p, p = SubSeq(q, 1, g)
  PROVE  p \in Seq(R) /\ Len(p) = g /\ \A i \in 1 .. g : p[i] = q[i]
<1>1. Len(q) \in Nat /\ \A i \in 1 .. g : q[i] \in R  OBVIOUS
<1>2. /\ p \in Seq(R) /\ Len(p) = IF 1 <= g THEN g - 1 + 1 ELSE 0
      /\ \A i \in 1 .. g - 1 + 1 : p[i] = q[1 + i - 1]
  BY <1>1, SubSeqProperties
<1>3. Len(p) = g  BY <1>1, <1>2
<1>4. \A i \in 1 .. g : 1 + i - 1 = i /\ i \in 1 .. g - 1 + 1  BY <1>1
<1> QED  BY <1>2, <1>3, <1>4

LEMMA LastPart ==
  ASSUME NEW R, NEW q \in Seq(R), NEW g \in 0 .. Len(q), NEW p, p = SubSeq(q, g + 1, Len(q))
  PROVE  p \in Seq(R) /\ Len(p) = Len(q) - g /\ \A i \in 1 .. Len(q) - g : p[i] = q[g + i]
<1>1. PICK m : m = Len(q)  OBVIOUS
<1>2. m \in Nat /\ g \in Nat /\ \A i \in g + 1 .. m : q[i] \in R  BY <1>1
<1>3. p = SubSeq(q, g + 1, m)  BY <1>1
<1>4. /\ p \in Seq(R) /\ Len(p) = IF g + 1 <= m THEN m - (g + 1) + 1 ELSE 0
      /\ \A i \in 1 .. m - (g + 1) + 1 : p[i] = q[g + 1 + i - 1]
  BY <1>2, <1>3, SubSeqProperties
<1>5. Len(p) = m - g  BY <1>1, <1>2, <1>4
<1>6. \A i \in 1 .. m - g : g + 1 + i - 1 = g + i /\ i \in 1 .. m - (g + 1) + 1  BY <1>2
<1> QED  BY <1>1, <1>4, <1>5, <1>6

(* s is q with e behind its first g elements.                              *)
Longer(R, q, g, e, s) ==
    /\ s \in [1 .. Len(q) + 1 -> R]
    /\ \A i \in 1 .. Len(q) + 1 :
          s[i] = IF i <= g THEN q[i] ELSE IF i = g + 1 THEN e ELSE q[i - 1]

LEMMA PutBetween ==
  ASSUME NEW R, NEW q \in Seq(R), NEW g \in 0 .. Len(q), NEW e \in R,
         NEW s, Longer(R, q, g, e, s)
  PROVE  s = SubSeq(q, 1, g) \o <<e>> \o SubSeq(q, g + 1, Len(q))
<1>1. PICK p : p = SubSeq(q, 1, g)  OBVIOUS
<1>2. PICK r : r = SubSeq(q, g + 1, Len(q))  OBVIOUS
<1>3. PICK m : m = Len(q) /\ m \in Nat /\ g \in Nat /\ g <= m  OBVIOUS
<1>0. /\ s \in [1 .. m + 1 -> R]
      /\ \A i \in 1 .. m + 1 :
            s[i] = IF i <= g THEN q[i] ELSE IF i = g + 1 THEN e ELSE q[i - 1]
  BY <1>3 DEF Longer
<1>4. p \in Seq(R) /\ Len(p) = g /\ \A i \in 1 .. g : p[i] = q[i]  BY <1>1, FirstPart
<1>5. r \in Seq(R) /\ Len(r) = m - g /\ \A i \in 1 .. m - g : r[i] = q[g + i]
  BY <1>2, <1>3, LastPart
<1>6. PICK a : a = p \o <<e>>  OBVIOUS
<1>7. a \in Seq(R) /\ Len(a) = g + 1 /\ \A i \in 1 .. g + 1 : a[i] = IF i <= g THEN q[i] ELSE e
  <2>1. <<e>> \in Seq(R) /\ Len(<<e>>) = 1 /\ <<e>>[1] = e  OBVIOUS
  <2>2. /\ a \in Seq(R) /\ Len(a) = Len(p) + Len(<<e>>)
        /\ \A i \in 1 .. Len(p) + Len(<<e>>) :
              a[i] = IF i <= Len(p) THEN p[i] ELSE <<e>>[i - Len(p)]
    BY <1>4, <1>6, <2>1, ConcatProperties
  <2>3. Len(a) = g + 1  BY <1>4, <2>1, <2>2
  <2>4. ASSUME NEW i \in 1 .. g + 1 PROVE a[i] = IF i <= g THEN q[i] ELSE e
    <3>1. a[i] = IF i <= g THEN p[i] ELSE <<e>>[i - g]  BY <1>3, <1>4, <2>1, <2>2
    <3>2. CASE i <= g  BY <1>3, <1>4, <3>1, <3>2
    <3>3. CASE i = g + 1
      <4>1. i - g = 1 /\ ~(i <= g)  BY <1>3, <3>3
      <4> QED  BY <2>1, <3>1, <4>1
    <3> QED  BY <1>3, <3>2, <3>3
  <2> QED  BY <2>2, <2>3, <2>4
<1>8. PICK b : b = a \o r  OBVIOUS
<1>9. /\ b \in Seq(R) /\ Len(b) = Len(a) + Len(r)
      /\ \A i \in 1 .. Len(a) + Len(r) : b[i] = IF i <= Len(a) THEN a[i] ELSE r[i - Len(a)]
  BY <1>5, <1>7, <1>8, ConcatProperties
<1>10. Len(b) = m + 1  BY <1>3, <1>5, <1>7, <1>9
<1>11. s \in Seq(R) /\ Len(s) = m + 1  BY <1>0, <1>3
<1>12. ASSUME NEW i \in 1 .. m + 1 PROVE b[i] = s[i]
  <2>1. Len(a) + Len(r) = m + 1  BY <1>9, <1>10
  <2>2. b[i] = IF i <= g + 1 THEN a[i] ELSE r[i - (g + 1)]  BY <1>7, <1>9, <2>1
  <2>3. CASE i <= g + 1
    <3>1. i \in 1 .. g + 1  BY <1>3, <2>3
    <3>2. b[i] = IF i <= g THEN q[i] ELSE e  BY <1>7, <2>2, <2>3, <3>1
    <3> QED  BY <1>0, <1>3, <2>3, <3>2
  <2>4. CASE i > g + 1
    <3>1. /\ i - (g + 1) \in 1 .. m - g /\ g + (i - (g + 1)) = i - 1
          /\ ~(i <= g + 1) /\ ~(i <= g) /\ i # g + 1
      BY <1>3, <2>4
    <3>2. b[i] = r[i - (g + 1)]  BY <2>2, <3>1
    <3>3. r[i - (g + 1)] = q[i - 1]  BY <1>5, <3>1
    <3>4. s[i] = q[i - 1]  BY <1>0, <3>1
    <3> QED  BY <3>2, <3>3, <3>4
  <2> QED  BY <1>3, <2>3, <2>4
<1>13. b = s  BY <1>9, <1>10, <1>11, <1>12, SeqEqual
<1> QED  BY <1>1, <1>2, <1>6, <1>8, <1>13

(* s is q without its element at place g.                                  *)
Reduced(R, q, g, s) ==
    /\ s \in [1 .. Len(q) - 1 -> R]
    /\ \A i \in 1 .. Len(q) - 1 : s[i] = IF i < g THEN q[i] ELSE q[i + 1]

LEMMA TakeOut ==
  ASSUME NEW R, NEW q \in Seq(R), NEW g \in 1 .. Len(q), NEW s, Reduced(R, q, g, s)
  PROVE  s = SubSeq(q, 1, g - 1) \o SubSeq(q, g + 1, Len(q))
<1>1. PICK p : p = SubSeq(q, 1, g - 1)  OBVIOUS
<1>2. PICK r : r = SubSeq(q, g + 1, Len(q))  OBVIOUS
<1>3. PICK m : m = Len(q) /\ m \in Nat /\ g \in Nat /\ g <= m /\ 1 <= g  OBVIOUS
<1>0. /\ s \in [1 .. m - 1 -> R]
      /\ \A i \in 1 .. m - 1 : s[i] = IF i < g THEN q[i] ELSE q[i + 1]
  BY <1>3 DEF Reduced
<1>4. p \in Seq(R) /\ Len(p) = g - 1 /\ \A i \in 1 .. g - 1 : p[i] = q[i]
  <2>1. g - 1 \in 0 .. Len(q)  BY <1>3
  <2> QED  BY <1>1, <2>1, FirstPart
<1>5. r \in Seq(R) /\ Len(r) = m - g /\ \A i \in 1 .. m - g : r[i] = q[g + i]
  <2>1. g \in 0 .. Len(q)  BY <1>3
  <2> QED  BY <1>2, <1>3, <2>1, LastPart
<1>6. PICK b : b = p \o r  OBVIOUS
<1>7. /\ b \in Seq(R) /\ Len(b) = Len(p) + Len(r)
      /\ \A i \in 1 .. Len(p) + Len(r) : b[i] = IF i <= Len(p) THEN p[i] ELSE r[i - Len(p)]
  BY <1>4, <1>5, <1>6, ConcatProperties
<1>8. Len(b) = m - 1 /\ Len(p) + Len(r) = m - 1  BY <1>3, <1>4, <1>5, <1>7
<1>9. s \in Seq(R) /\ Len(s) = m - 1
  <2>1. m - 1 \in Nat  BY <1>3
  <2> QED  BY <1>0, <2>1
<1>10. ASSUME NEW i \in 1 .. m - 1 PROVE b[i] = s[i]
  <2>1. b[i] = IF i <= g - 1 THEN p[i] ELSE r[i - (g - 1)]  BY <1>4, <1>7, <1>8
  <2>2. CASE i <= g - 1
    <3>1. i \in 1 .. g - 1 /\ i < g  BY <1>3, <2>2
    <3> QED  BY <1>0, <1>4, <2>1, <2>2, <3>1
  <2>3. CASE i > g - 1
    <3>1. /\ i - (g - 1) \in 1 .. m - g /\ g + (i - (g - 1)) = i + 1
          /\ ~(i <= g - 1) /\ ~(i < g)
      BY <1>3, <2>3
    <3>2. b[i] = r[i - (g - 1)]  BY <2>1, <3>1
    <3>3. r[i - (g - 1)] = q[i + 1]  BY <1>5, <3>1
    <3>4. s[i] = q[i + 1]  BY <1>0, <3>1
    <3> QED  BY <3>2, <3>3, <3>4
  <2> QED  BY <1>3, <2>2, <2>3
<1>11. b = s  BY <1>7, <1>8, <1>9, <1>10, SeqEqual
<1> QED  BY <1>1, <1>2, <1>6, <1>11

(* What the queue is when s lists the nodes and k are the keys.            *)
Waits(s, k) == [i \in 1 .. Len(s) |-> [node |-> s[i], key |-> k[s[i]]]]

(* What Add and Remove make of the queue q.                                *)
Grown(q, g, e, r) == r = SubSeq(q, 1, g) \o <<e>> \o SubSeq(q, g + 1, Len(q))
Shrunk(q, g, r)   == r = SubSeq(q, 1, g - 1) \o SubSeq(q, g + 1, Len(q))

LEMMA WaitsInserted ==
  ASSUME NEW L, L \subseteq Nodes, NEW s \in Seq(L), NEW k0 \in [Nodes -> Nat],
         NEW n \in Nodes \ L, NEW k \in Nat, NEW k1, k1 = [k0 EXCEPT ![n] = k],
         NEW g \in 0 .. Len(s), NEW q, q = Waits(s, k0)
  PROVE  Grown(q, g, [node |-> n, key |-> k], Waits(With(s, g, n), k1))
<1>1. PICK R : R = [node : Nodes, key : Nat]  OBVIOUS
<1>2. PICK e : e = [node |-> n, key |-> k]  OBVIOUS
<1>3. PICK s2 : s2 = With(s, g, n)  OBVIOUS
<1>4. PICK c : c = Waits(s2, k1)  OBVIOUS
<1>5. PICK m : m = Len(s) /\ m \in Nat /\ g \in Nat /\ g <= m  OBVIOUS
<1>6. q = [i \in 1 .. m |-> [node |-> s[i], key |-> k0[s[i]]]]  BY <1>5 DEF Waits
<1>7. ASSUME NEW i \in 1 .. m
      PROVE  /\ q[i] = [node |-> s[i], key |-> k0[s[i]]] /\ q[i] \in R
             /\ k1[s[i]] = k0[s[i]]
  <2>1. s[i] \in L /\ s[i] # n  BY <1>5
  <2>2. q[i] = [node |-> s[i], key |-> k0[s[i]]]  BY <1>6
  <2> QED  BY <1>1, <2>1, <2>2
<1>8. q \in Seq(R) /\ Len(q) = m
  <2>1. q \in [1 .. m -> R]  BY <1>6, <1>7
  <2>2. m \in Nat  BY <1>5
  <2> QED  BY <2>1, <2>2
<1>9. e \in R  BY <1>1, <1>2
<1>10. /\ s2 = [i \in 1 .. m + 1 |-> IF i <= g THEN s[i] ELSE IF i = g + 1 THEN n ELSE s[i - 1]]
       /\ Len(s2) = m + 1
  BY <1>3, <1>5 DEF With
<1>11. c = [i \in 1 .. m + 1 |-> [node |-> s2[i], key |-> k1[s2[i]]]]
  BY <1>4, <1>10 DEF Waits
<1>12. ASSUME NEW i \in 1 .. m + 1
       PROVE  /\ c[i] = IF i <= g THEN q[i] ELSE IF i = g + 1 THEN e ELSE q[i - 1]
              /\ c[i] \in R
  <2>1. c[i] = [node |-> s2[i], key |-> k1[s2[i]]]  BY <1>11
  <2>2. CASE i <= g
    <3>1. i \in 1 .. m /\ s2[i] = s[i]  BY <1>5, <1>10, <2>2
    <3>2. c[i] = q[i]  BY <1>7, <2>1, <3>1
    <3> QED  BY <1>7, <2>2, <3>1, <3>2
  <2>3. CASE i = g + 1
    <3>1. s2[i] = n /\ ~(i <= g)  BY <1>5, <1>10, <2>3
    <3>2. c[i] = e  BY <1>2, <2>1, <3>1
    <3> QED  BY <1>9, <2>3, <3>1, <3>2
  <2>4. CASE i > g + 1
    <3>1. i - 1 \in 1 .. m /\ s2[i] = s[i - 1] /\ ~(i <= g) /\ i # g + 1
      BY <1>5, <1>10, <2>4
    <3>2. c[i] = q[i - 1]  BY <1>7, <2>1, <3>1
    <3> QED  BY <1>7, <3>1, <3>2
  <2> QED  BY <1>5, <2>2, <2>3, <2>4
<1>13. c \in [1 .. m + 1 -> R]  BY <1>11, <1>12
<1>14. c = SubSeq(q, 1, g) \o <<e>> \o SubSeq(q, g + 1, Len(q))
  <2>1. g \in 0 .. Len(q)  BY <1>5, <1>8
  <2>2. Longer(R, q, g, e, c)  BY <1>8, <1>12, <1>13 DEF Longer
  <2> QED  BY <1>8, <1>9, <2>1, <2>2, PutBetween
<1> QED  BY <1>2, <1>3, <1>4, <1>14 DEF Grown

LEMMA WaitsWithout ==
  ASSUME NEW L, L \subseteq Nodes, NEW s \in Seq(L), NEW k0 \in [Nodes -> Nat],
         NEW g \in 1 .. Len(s), NEW n, \A i \in 1 .. Len(s) : s[i] = n => i = g,
         NEW k1, k1 = [k0 EXCEPT ![n] = 0], NEW q, q = Waits(s, k0)
  PROVE  Shrunk(q, g, Waits(Without(s, g), k1))
<1>1. PICK R : R = [node : Nodes, key : Nat]  OBVIOUS
<1>2. PICK s2 : s2 = Without(s, g)  OBVIOUS
<1>3. PICK c : c = Waits(s2, k1)  OBVIOUS
<1>4. PICK m : m = Len(s) /\ m \in Nat /\ g \in Nat /\ g <= m /\ 1 <= g  OBVIOUS
<1>5. q = [i \in 1 .. m |-> [node |-> s[i], key |-> k0[s[i]]]]  BY <1>4 DEF Waits
<1>6. ASSUME NEW i \in 1 .. m
      PROVE  /\ q[i] = [node |-> s[i], key |-> k0[s[i]]] /\ q[i] \in R
             /\ i # g => k1[s[i]] = k0[s[i]]
  <2>1. s[i] \in L /\ (i # g => s[i] # n)  BY <1>4
  <2>2. q[i] = [node |-> s[i], key |-> k0[s[i]]]  BY <1>5
  <2> QED  BY <1>1, <2>1, <2>2
<1>7. q \in Seq(R) /\ Len(q) = m
  <2>1. q \in [1 .. m -> R]  BY <1>5, <1>6
  <2>2. m \in Nat  BY <1>4
  <2> QED  BY <2>1, <2>2
<1>8. /\ s2 = [i \in 1 .. m - 1 |-> IF i < g THEN s[i] ELSE s[i + 1]]
      /\ Len(s2) = m - 1
  BY <1>2, <1>4 DEF Without
<1>9. c = [i \in 1 .. m - 1 |-> [node |-> s2[i], key |-> k1[s2[i]]]]
  BY <1>3, <1>8 DEF Waits
<1>10. ASSUME NEW i \in 1 .. m - 1
       PROVE  c[i] = (IF i < g THEN q[i] ELSE q[i + 1]) /\ c[i] \in R
  <2>1. c[i] = [node |-> s2[i], key |-> k1[s2[i]]]  BY <1>9
  <2>2. CASE i < g
    <3>1. i \in 1 .. m /\ i # g /\ s2[i] = s[i]  BY <1>4, <1>8, <2>2
    <3>2. k1[s[i]] = k0[s[i]] /\ q[i] = [node |-> s[i], key |-> k0[s[i]]] /\ q[i] \in R
      BY <1>6, <3>1
    <3>3. c[i] = q[i]  BY <2>1, <3>1, <3>2
    <3> QED  BY <2>2, <3>2, <3>3
  <2>3. CASE i >= g
    <3>1. i + 1 \in 1 .. m /\ i + 1 # g /\ s2[i] = s[i + 1] /\ ~(i < g)
      BY <1>4, <1>8, <2>3
    <3>2. PICK j : j = i + 1  OBVIOUS
    <3>3. j \in 1 .. m /\ j # g /\ s2[i] = s[j]  BY <3>1, <3>2
    <3>4. k1[s[j]] = k0[s[j]] /\ q[j] = [node |-> s[j], key |-> k0[s[j]]] /\ q[j] \in R
      BY <1>6, <3>3
    <3>5. c[i] = q[j]  BY <2>1, <3>3, <3>4
    <3> QED  BY <3>1, <3>2, <3>4, <3>5
  <2> QED  BY <1>4, <2>2, <2>3
<1>11. c \in [1 .. m - 1 -> R]  BY <1>9, <1>10
<1>12. c = SubSeq(q, 1, g - 1) \o SubSeq(q, g + 1, Len(q))
  <2>1. g \in 1 .. Len(q)  BY <1>4, <1>7
  <2>2. Reduced(R, q, g, c)  BY <1>7, <1>10, <1>11 DEF Reduced
  <2> QED  BY <1>7, <2>1, <2>2, TakeOut
<1> QED  BY <1>2, <1>3, <1>12 DEF Shrunk


QueueListed == \A s, at : Placed(tree, linked, s, at) => waiting = Waits(s, key)

LEMMA QueueIs == QueueListed
<1> SUFFICES ASSUME NEW s, NEW at, Placed(tree, linked, s, at) PROVE waiting = Waits(s, key)
  BY DEF QueueListed
<1>1. InOrder = s  BY WalkFinds
<1>2. s \in Seq(linked)  BY DEF Placed, Shape, Listed
<1> QED  BY <1>1, <1>2 DEF waiting, Waits

LEMMA QueueAfter == \A s, at : Placed(tree', linked', s, at) => waiting' = Waits(s, key')
<1>1. QueueListed'  BY QueueIs, PTL
<1> QED  BY <1>1 DEF QueueListed

(* A round of a loop leaves the queue alone, Insert adds to it and Delete  *)
(* removes from it.                                                        *)
LEMMA QueueStep == TreeInv /\ [Next]_vars => [Queue!Next]_waiting
<1> SUFFICES ASSUME TreeInv, [Next]_vars PROVE [Queue!Next]_waiting  OBVIOUS
<1>1. PICK s, at : Placed(tree, linked, s, at) /\ Sorted(s)  BY DEF TreeInv
<1>2. key \in [Nodes -> Nat] /\ Coloured(tree, linked, pc, cur)  BY DEF TreeInv
<1>3. linked \subseteq Nodes /\ Listed(linked, s, at) /\ s \in Seq(linked) /\ Len(s) \in Nat
  BY <1>1 DEF Placed, Shape, Listed
<1>4. waiting = Waits(s, key)  BY <1>1, QueueIs DEF QueueListed
<1>5. /\ Len(waiting) = Len(s) /\ DOMAIN waiting = 1 .. Len(s)
      /\ \A i \in 1 .. Len(s) : waiting[i] = [node |-> s[i], key |-> key[s[i]]]
  BY <1>3, <1>4 DEF Waits
<1>6. CASE Rebalance
  <2>1. Kept(s, at) /\ key' = key  BY <1>1, <1>2, <1>6, RoundsKeep
  <2>2. waiting' = Waits(s, key')  BY <2>1, QueueAfter DEF Kept
  <2> QED  BY <1>4, <2>1, <2>2
<1>7. ASSUME NEW n \in Nodes, NEW k \in KeysOf[n], Insert(n, k) PROVE Queue!Next
  <2>1. k \in Nat  BY NodesAssumption
  <2>2. PICK s2, at2 : Kept(s2, at2) /\ Inserted(s, n, k, s2)
    BY <1>1, <1>2, <1>7, <2>1, InsertKeeps
  <2>3. n \in Nodes \ linked /\ key' = [key EXCEPT ![n] = k]  BY <1>7 DEF Insert
  <2>4. waiting' = Waits(s2, key')  BY <2>2, QueueAfter DEF Kept
  <2>5. PICK g \in 0 .. Len(s) : /\ s2 = With(s, g, n)
                                 /\ \A i \in 1 .. Len(s) : key[s[i]] <= k <=> i <= g
    BY <2>2 DEF Inserted
  <2>6. waiting' = SubSeq(waiting, 1, g) \o <<[node |-> n, key |-> k]>>
                      \o SubSeq(waiting, g + 1, Len(waiting))
    <3>1. Grown(waiting, g, [node |-> n, key |-> k], Waits(With(s, g, n), key'))
      BY <1>2, <1>3, <1>4, <2>1, <2>3, WaitsInserted
    <3> QED  BY <2>4, <2>5, <3>1 DEF Grown
  <2>7. n \in Nodes \ {waiting[i].node : i \in DOMAIN waiting}
    <3>1. \A i \in 1 .. Len(s) : waiting[i].node \in linked  BY <1>3, <1>5
    <3> QED  BY <1>5, <2>3, <3>1
  <2>8. \A i \in 1 .. g : waiting[i].key <= k
    <3>1. ASSUME NEW i \in 1 .. g PROVE waiting[i].key <= k
      <4>1. i \in 1 .. Len(s) /\ i <= g  BY <1>3
      <4>2. waiting[i].key = key[s[i]]  BY <1>5, <4>1
      <4> QED  BY <2>5, <4>1, <4>2
    <3> QED  BY <3>1
  <2>9. \A i \in g + 1 .. Len(waiting) : waiting[i].key > k
    <3>1. ASSUME NEW i \in g + 1 .. Len(waiting) PROVE waiting[i].key > k
      <4>1. i \in 1 .. Len(s) /\ ~(i <= g)  BY <1>3, <1>5
      <4>2. waiting[i].key = key[s[i]] /\ key[s[i]] \in Nat  BY <1>2, <1>3, <1>5, <4>1
      <4>3. ~(key[s[i]] <= k)  BY <2>5, <4>1
      <4> QED  BY <2>1, <4>2, <4>3
    <3> QED  BY <3>1
  <2>10. Queue!Add(n, k)
    <3>1. g \in 0 .. Len(waiting)  BY <1>5
    <3> QED  BY <2>6, <2>7, <2>8, <2>9, <3>1 DEF Queue!Add, Queue!Waiting
  <2> QED  BY <2>10 DEF Queue!Next
<1>8. ASSUME NEW n \in Nodes, Delete(n) PROVE Queue!Next
  <2>1. n \in linked /\ \E at2 : Kept(Without(s, at[n]), at2)  BY <1>1, <1>2, <1>8, DeleteKeeps
  <2>2. PICK s2 : s2 = Without(s, at[n])  OBVIOUS
  <2>3. PICK at2 : Kept(s2, at2)  BY <2>1, <2>2
  <2>4. key' = [key EXCEPT ![n] = 0]  BY <1>8 DEF Delete
  <2>5. waiting' = Waits(s2, key')  BY <2>3, QueueAfter DEF Kept
  <2>6. at[n] \in 1 .. Len(s) /\ s[at[n]] = n /\ \A i \in 1 .. Len(s) : s[i] = n => i = at[n]
    BY <1>3, <2>1 DEF Listed
  <2>7. waiting' = SubSeq(waiting, 1, at[n] - 1) \o SubSeq(waiting, at[n] + 1, Len(waiting))
    <3>1. Shrunk(waiting, at[n], Waits(Without(s, at[n]), key'))
      BY <1>2, <1>3, <1>4, <2>4, <2>6, WaitsWithout
    <3> QED  BY <2>2, <2>5, <3>1 DEF Shrunk
  <2>8. at[n] \in 1 .. Len(waiting) /\ waiting[at[n]].node = n  BY <1>5, <2>6
  <2>9. Queue!Remove(n)  BY <2>7, <2>8 DEF Queue!Remove
  <2> QED  BY <2>9 DEF Queue!Next
<1>9. CASE UNCHANGED vars
  <2>1. tree' = tree /\ linked' = linked /\ key' = key  BY <1>9 DEF vars
  <2>2. Placed(tree', linked', s, at)  BY <1>1, <2>1
  <2>3. waiting' = Waits(s, key')  BY <2>2, QueueAfter
  <2> QED  BY <1>4, <2>1, <2>3
<1> QED  BY <1>6, <1>7, <1>8, <1>9 DEF Next, Caller

LEMMA QueueStart == Init => Queue!Init
<1> SUFFICES ASSUME Init PROVE Queue!Init  OBVIOUS
<1>1. PICK s, at : Placed(tree, linked, s, at)  BY EmptyTree DEF TreeInv
<1>2. linked = {}  BY DEF Init
<1>3. s \in Seq(linked)  BY <1>1 DEF Placed, Shape, Listed
<1>4. Len(s) = 0
  <2>1. ASSUME Len(s) # 0 PROVE FALSE
    <3>1. 1 \in 1 .. Len(s)  BY <1>3, <2>1
    <3> QED  BY <1>2, <1>3, <3>1
  <2> QED  BY <2>1
<1>5. waiting = <<>>
  <2>1. waiting = Waits(s, key)  BY <1>1, QueueIs DEF QueueListed
  <2> QED  BY <1>4, <2>1 DEF Waits
<1> QED  BY <1>5 DEF Queue!Init

(***************************************************************************)
(* The tree is a queue: nodes in the order of their keys, and of their     *)
(* insertion where the keys are the same, changed only by Insert and       *)
(* Delete, by one node.                                                    *)
(***************************************************************************)
THEOREM TreeImplementsQueue == Spec => ImplementsQueue
<1>1. TreeInv /\ [Next]_vars => [Queue!Next]_waiting  BY QueueStep
<1> QED  BY <1>1, QueueStart, TreeInvariant, PTL DEF Spec, ImplementsQueue, Queue!Spec

-----------------------------------------------------------------------------
(* Depth by the root and the parents only.                                 *)
Steps(root, parent, x) ==
    LET up[k \in 0 .. Cardinality(Nodes)] ==
            [y \in Places \cup {NULL} |-> IF y \in {root, NULL} \/ k = 0
                                         THEN 0 ELSE 1 + up[k - 1][parent[y]]]
    IN  up[Cardinality(Nodes)][x]

LEMMA DepthIsSteps == \A t, x : Depth(t, x) = Steps(t.root, t.parent, x)
<1> QED  BY DEF Depth, Steps

(* A node is one step further from the root than its parent.               *)
LEMMA ParentIsCloser ==
  ASSUME NEW t, NEW L, NEW s, NEW at, Placed(t, L, s, at),
         NEW x \in Places, x # t.root, t.parent[x] \in L
  PROVE  Depth(t, t.parent[x]) \in Nat /\ Depth(t, x) = 1 + Depth(t, t.parent[x])
<1> DEFINE N == Cardinality(Nodes)
           All == Places \cup {NULL}
           F(f) == f = [k \in 0 .. N |->
                          [y \in All |-> IF y \in {t.root, NULL} \/ k = 0
                                         THEN 0 ELSE 1 + f[k - 1][t.parent[y]]]]
           g == CHOOSE f : F(f)
<1>1. PICK lo, hi : Shape(t, L, s, at, lo, hi)  BY DEF Placed
<1>2. /\ t \in Trees /\ L \subseteq Nodes /\ NIL \notin L /\ NULL \notin Places /\ Listed(L, s, at)
      /\ Links(t, L) /\ Spans(t, L, at, lo, hi)
  BY <1>1, NodesAssumption DEF Shape, Places
<1>3. N \in Nat /\ Len(s) <= N /\ Len(s) \in Nat /\ L # {}
  BY <1>2, ListFits DEF Listed
<1>4. \E f : F(f) /\ \A k \in 0 .. N : f[k] \in [All -> Nat]
  <2> DEFINE V == [All -> Nat]
             up(v) == [y \in All |-> IF y \in {t.root, NULL} THEN 0 ELSE 1 + v[t.parent[y]]]
             step == [v \in V |-> up(v)]
             base == [y \in All |-> 0]
  <2>1. base \in V  OBVIOUS
  <2>2. ASSUME NEW v \in V PROVE up(v) \in V
    <3>1. ASSUME NEW y \in All, y # NULL PROVE t.parent[y] \in All
      BY <1>2, <3>1 DEF Trees
    <3> QED  BY <3>1
  <2>3. step \in [V -> V]
    <3> HIDE DEF V, up
    <3> QED  BY <2>2
  <2>4. PICK f : /\ f = [n \in 0 .. N |-> IF n = 0 THEN base ELSE step[f[n - 1]]]
                 /\ \A n \in 0 .. N : f[n] \in V
    <3> HIDE DEF V, base, step, N, F
    <3>1. \E f : Layers(f, V, base, step, N)  BY <1>3, <2>1, <2>3, LayersExist
    <3> QED  BY <3>1 DEF Layers
  <2>5. ASSUME NEW k \in 0 .. N
        PROVE  f[k] = [y \in All |-> IF y \in {t.root, NULL} \/ k = 0
                                     THEN 0 ELSE 1 + f[k - 1][t.parent[y]]]
    <3>1. CASE k = 0
      <4>1. f[k] = base  BY <2>4, <3>1
      <4> QED  BY <3>1, <4>1
    <3>2. CASE k # 0
      <4>1. k - 1 \in 0 .. N  BY <1>3, <3>2
      <4>2. f[k - 1] \in V  BY <2>4, <4>1
      <4>3. f[k] = up(f[k - 1])
        <5> HIDE DEF V, up, base
        <5> QED  BY <2>4, <3>2, <4>2
      <4> QED  BY <3>2, <4>3
    <3> QED  BY <3>1, <3>2
  <2>6. F(f)  BY <2>4, <2>5
  <2> QED  BY <2>4, <2>6
<1>5. F(g)
  <2> HIDE DEF F
  <2> QED  BY <1>4
<1>6. \A y : Depth(t, y) = g[N][y]  BY DEF Depth
<1> HIDE DEF g
<1>7. ASSUME NEW k \in 0 .. N, NEW y \in Places
      PROVE  g[k][y] = IF y = t.root \/ k = 0 THEN 0 ELSE 1 + g[k - 1][t.parent[y]]
  <2>1. g[k] = [z \in All |-> IF z \in {t.root, NULL} \/ k = 0
                              THEN 0 ELSE 1 + g[k - 1][t.parent[z]]]
    BY <1>5
  <2> QED  BY <1>2, <2>1
<1> HIDE DEF F
<1> DEFINE above(y) == Len(s) - 1 - (hi[y] - lo[y])
           T == {k \in Nat : k + 1 <= N => \A y \in L :
                    above(y) <= k => g[k][y] \in Nat /\ g[k + 1][y] = g[k][y]}
<1>8. ASSUME NEW y \in L
      PROVE  /\ y \in Places /\ above(y) \in Nat /\ above(y) <= Len(s) - 1
             /\ y # t.root => t.parent[y] \in L /\ above(t.parent[y]) < above(y)
  <2>1. \A z \in L : /\ lo[z] \in Int /\ hi[z] \in Int /\ at[z] \in Int
                     /\ 1 <= lo[z] /\ lo[z] <= at[z] /\ at[z] <= hi[z] /\ hi[z] <= Len(s)
    BY <1>1, SpansWithin
  <2>2. y \in Places /\ above(y) \in Nat /\ above(y) <= Len(s) - 1
    BY <1>2, <1>3, <2>1 DEF Places
  <2>3. ASSUME y # t.root PROVE t.parent[y] \in L /\ above(t.parent[y]) < above(y)
    <3>1. PICK p : p = t.parent[y]  OBVIOUS
    <3>2. p \in L /\ \E d \in Sides : t[d][p] = y  BY <1>2, <2>3, <3>1 DEF Links
    <3>3. y # NIL  BY <1>2
    <3>6. /\ lo[y] \in Int /\ hi[y] \in Int /\ lo[p] \in Int /\ hi[p] \in Int /\ at[p] \in Int
          /\ lo[p] <= at[p] /\ at[p] <= hi[p]
      BY <2>1, <3>2
    <3>4. CASE t.left[p] = y
      <4>1. lo[y] = lo[p] /\ hi[y] = at[p] - 1  BY <1>2, <3>2, <3>3, <3>4 DEF Spans
      <4>2. hi[y] - lo[y] < hi[p] - lo[p]  BY <3>6, <4>1
      <4>3. hi[y] - lo[y] \in Int /\ hi[p] - lo[p] \in Int  BY <3>6
      <4>4. above(p) < above(y)  BY <1>3, <4>2, <4>3
      <4> QED  BY <3>1, <3>2, <4>4
    <3>5. CASE t.right[p] = y
      <4>1. lo[y] = at[p] + 1 /\ hi[y] = hi[p]  BY <1>2, <3>2, <3>3, <3>5 DEF Spans
      <4>2. above(p) < above(y)  BY <1>3, <3>6, <4>1
      <4> QED  BY <3>1, <3>2, <4>2
    <3> QED  BY <3>2, <3>4, <3>5 DEF Sides
  <2> QED  BY <2>2, <2>3
<1>9. 0 \in T
  <2>1. ASSUME 0 + 1 <= N, NEW y \in L, above(y) <= 0
        PROVE  g[0][y] \in Nat /\ g[0 + 1][y] = g[0][y]
    <3>1. y = t.root
      <4>1. ASSUME y # t.root PROVE FALSE
        <5>1. t.parent[y] \in L /\ above(t.parent[y]) < above(y)  BY <1>8, <4>1
        <5>2. above(t.parent[y]) \in Nat /\ above(y) \in Nat  BY <1>8, <5>1
        <5> HIDE DEF above
        <5> QED  BY <2>1, <5>1, <5>2
      <4> QED  BY <4>1
    <3>2. g[0][y] = 0 /\ g[0 + 1][y] = 0  BY <1>3, <1>7, <1>8, <2>1, <3>1
    <3> QED  BY <3>2
  <2> QED  BY <2>1
<1>10. ASSUME NEW k \in Nat, k \in T PROVE k + 1 \in T
  <2>1. ASSUME (k + 1) + 1 <= N, NEW y \in L, above(y) <= k + 1
        PROVE  g[k + 1][y] \in Nat /\ g[(k + 1) + 1][y] = g[k + 1][y]
    <3>1. /\ k + 1 \in 0 .. N /\ (k + 1) + 1 \in 0 .. N /\ k + 1 <= N
          /\ (k + 1) - 1 = k /\ ((k + 1) + 1) - 1 = k + 1 /\ k + 1 # 0 /\ (k + 1) + 1 # 0
      BY <1>3, <2>1
    <3>2. CASE y = t.root
      <4>1. g[k + 1][y] = 0 /\ g[(k + 1) + 1][y] = 0  BY <1>7, <1>8, <3>1, <3>2
      <4> QED  BY <4>1
    <3>3. CASE y # t.root
      <4>1. t.parent[y] \in L /\ above(t.parent[y]) <= k
        <5>1. t.parent[y] \in L /\ above(t.parent[y]) < above(y)  BY <1>8, <3>3
        <5>2. above(t.parent[y]) \in Nat /\ above(y) \in Nat  BY <1>8, <5>1
        <5> HIDE DEF above
        <5> QED  BY <2>1, <5>1, <5>2
      <4>2. g[k][t.parent[y]] \in Nat /\ g[k + 1][t.parent[y]] = g[k][t.parent[y]]
        <5> HIDE DEF above
        <5> QED  BY <1>10, <3>1, <4>1
      <4>3. g[k + 1][y] = 1 + g[k][t.parent[y]]  BY <1>7, <1>8, <3>1, <3>3
      <4>4. g[(k + 1) + 1][y] = 1 + g[k + 1][t.parent[y]]  BY <1>7, <1>8, <3>1, <3>3
      <4> QED  BY <4>2, <4>3, <4>4
    <3> QED  BY <3>2, <3>3
  <2> QED  BY <2>1
<1>11. N >= 1 /\ N - 1 \in T /\ (N - 1) + 1 = N
  <2>1. Len(s) >= 1
    <3>1. PICK y \in L : TRUE  BY <1>3
    <3>2. above(y) \in Nat /\ above(y) <= Len(s) - 1  BY <1>8
    <3> HIDE DEF above
    <3> QED  BY <1>3, <3>2
  <2>2. N - 1 \in Nat /\ (N - 1) + 1 = N /\ N >= 1  BY <1>3, <2>1
  <2>3. Nat \subseteq T
    <3> HIDE DEF T
    <3> QED  BY <1>9, <1>10, NumbersFromZero
  <2> QED  BY <2>2, <2>3
<1>12. PICK p : p = t.parent[x]  OBVIOUS
<1>13. p \in L /\ above(p) <= N - 1
  <2>1. above(p) \in Nat /\ above(p) <= Len(s) - 1  BY <1>8, <1>12
  <2> HIDE DEF above
  <2> QED  BY <1>3, <1>12, <2>1
<1>14. g[N - 1][p] \in Nat /\ g[N][p] = g[N - 1][p]
  <2> HIDE DEF above
  <2> QED  BY <1>11, <1>13
<1>15. g[N][x] = 1 + g[N - 1][p]
  <2>1. N \in 0 .. N /\ N # 0  BY <1>3, <1>11
  <2> QED  BY <1>7, <1>12, <2>1
<1> QED  BY <1>6, <1>12, <1>14, <1>15

LEMMA SameDepths ==
  ASSUME NEW t, NEW r, r.root = t.root, r.parent = t.parent, NEW x
  PROVE  Depth(r, x) = Depth(t, x)
<1>1. Depth(r, x) = Steps(r.root, r.parent, x) /\ Depth(t, x) = Steps(t.root, t.parent, x)
  BY DepthIsSteps
<1> QED  BY <1>1

(***************************************************************************)
(* A round that recolours goes on closer to the root, a rotation ends the  *)
(* loop, and so does the rotation of a red sibling with the recolouring    *)
(* that follows it, since the parent is red then.                          *)
(***************************************************************************)
LEMMA RecoloursClimbs ==
  ASSUME TreeInv, InsertRecolours
  PROVE  Depth(tree', cur') < Depth(tree, cur)
<1>1. PICK s, at : Placed(tree, linked, s, at)  BY DEF TreeInv
<1>2. Formed(tree, linked) /\ tree \in Trees /\ linked \subseteq Nodes
  BY <1>1, PlacedFormed DEF Placed, Shape
<1>3. PICK h : InsertBalance(tree, linked, h, cur)  BY DEF InsertRecolours, TreeInv, Coloured
<1>4. PICK p, g, u, d : p = Parent /\ g = Grand /\ u = Uncle /\ d = Side(tree, Parent)
  OBVIOUS
<1>5. RedPair(tree, linked, cur, p, g, u, d)
  BY <1>2, <1>3, <1>4, RedParent DEF InsertRecolours, RedRed, Parent, Grand, Uncle
<1>6. /\ p = tree.parent[cur] /\ g = tree.parent[p] /\ cur # tree.root /\ p # tree.root
      /\ p \in linked /\ g \in linked
  BY <1>5 DEF RedPair
<1>7. cur \in linked /\ cur \in Places /\ p \in Places
  BY <1>2, <1>3, <1>6 DEF InsertBalance, Places
<1>8. Depth(tree, p) \in Nat /\ Depth(tree, cur) = 1 + Depth(tree, p)
  BY <1>1, <1>6, <1>7, ParentIsCloser
<1>9. Depth(tree, g) \in Nat /\ Depth(tree, p) = 1 + Depth(tree, g)
  BY <1>1, <1>6, <1>7, ParentIsCloser
<1>10. tree' = Paint(tree, {g}, {p, u}) /\ cur' = g  BY <1>4 DEF InsertRecolours
<1>11. tree'.root = tree.root /\ tree'.parent = tree.parent  BY <1>2, <1>10 DEF Paint, Trees
<1>12. Depth(tree', g) = Depth(tree, g)  BY <1>11, SameDepths
<1> QED  BY <1>8, <1>9, <1>10, <1>12

LEMMA ShortClimbs ==
  ASSUME TreeInv, DeleteRecolours, GoesOn'
  PROVE  Depth(tree', cur') < Depth(tree, cur)
<1>1. PICK s, at : Placed(tree, linked, s, at)  BY DEF TreeInv
<1>2. Formed(tree, linked) /\ tree \in Trees /\ linked \subseteq Nodes /\ cur \in Places
  <2>1. cur \in linked \cup {NIL}  BY DEF DeleteRecolours, TreeInv, Coloured, DeleteBalance
  <2> QED  BY <1>1, <2>1, PlacedFormed DEF Placed, Shape, Places
<1>3. PICK h : DeleteBalance(tree, linked, h, cur)  BY DEF DeleteRecolours, TreeInv, Coloured
<1>4. PICK p, x, d, t : /\ p = Parent /\ x = Sibling(tree, cur) /\ d = Side(tree, cur)
                        /\ t = BlackSibling(d)
  OBVIOUS
<1>5. Short(tree, linked, h, cur, p, x, d) /\ cur # tree.root
  BY <1>2, <1>3, <1>4, ShortSide DEF DeleteRecolours, ShortBranch, Parent
<1>6. p = tree.parent[cur] /\ p \in linked /\ d \in Sides  BY <1>5 DEF Short
<1>7. PICK w : w = t[Other(d)][p]  OBVIOUS
<1>8. tree' = Paint(t, {w}, {}) /\ cur' = p /\ pc' = "delete"
  BY <1>4, <1>7 DEF DeleteRecolours
<1>9. p \notin tree'.red  BY <1>8 DEF GoesOn, ShortBranch
<1>10. CASE x \in tree.red
  <2>1. PICK v : v = Paint(tree, {p}, {x})  OBVIOUS
  <2>2. t = Rotate(v, d, p)  BY <1>4, <1>10, <2>1 DEF BlackSibling
  <2>3. p \in t.red  BY <1>2, <1>5, <1>10, <2>1, <2>2, SiblingTurns
  <2>4. Placed(t, linked, s, at)
    <3>1. t = IF x \in tree.red THEN Rotate(Paint(tree, {p}, {x}), d, p) ELSE tree
      BY <1>10, <2>1, <2>2
    <3> QED  BY <1>1, <1>5, <3>1, SiblingIsBlack
  <2>5. t \in Trees  BY <2>4 DEF Placed, Shape
  <2>6. p \in tree'.red  BY <1>8, <2>3, <2>5 DEF Paint, Trees
  <2> QED  BY <1>9, <2>6
<1>11. CASE x \notin tree.red
  <2>1. t = tree  BY <1>4, <1>11 DEF BlackSibling
  <2>2. tree'.root = tree.root /\ tree'.parent = tree.parent
    BY <1>2, <1>8, <2>1 DEF Paint, Trees
  <2>3. Depth(tree, p) \in Nat /\ Depth(tree, cur) = 1 + Depth(tree, p)
    BY <1>1, <1>2, <1>5, <1>6, ParentIsCloser
  <2>4. Depth(tree', p) = Depth(tree, p)  BY <2>2, SameDepths
  <2> QED  BY <1>8, <2>3, <2>4
<1> QED  BY <1>10, <1>11

(* What a round does: it climbs, or it is the last of its loop.            *)
LEMMA RoundClimbs ==
  ASSUME TreeInv, Rebalance, GoesOn, GoesOn'
  PROVE  Depth(tree', cur') < Depth(tree, cur)
<1>1. PICK s, at : Placed(tree, linked, s, at) /\ Coloured(tree, linked, pc, cur)
  BY DEF TreeInv
<1>2. CASE InsertRecolours  BY <1>2, RecoloursClimbs
<1>3. CASE InsertRotates
  <2>1. ~RedRed'  BY <1>1, <1>3, InsertRotatesKeeps
  <2>2. pc' = "insert"  BY <1>3 DEF InsertRotates
  <2> QED  BY <2>1, <2>2 DEF GoesOn
<1>4. CASE DeleteRecolours  BY <1>4, ShortClimbs
<1>5. CASE DeleteRotates
  BY <1>5 DEF DeleteRotates, GoesOn, ShortBranch
<1>6. CASE InsertDone \/ DeleteDone
  BY <1>6 DEF InsertDone, DeleteDone, GoesOn
<1> QED  BY <1>2, <1>3, <1>4, <1>5, <1>6 DEF Rebalance

(***************************************************************************)
(* The loops climb: a round that is not the last goes on closer to the     *)
(* root than it began, so there are no more rounds than the tree is high.  *)
(***************************************************************************)
THEOREM LoopsClimb == Spec => RoundsClimb
<1>1. TreeInv /\ [Next]_vars
        => [GoesOn /\ GoesOn' => Depth(tree', cur') < Depth(tree, cur)]_vars
  <2> SUFFICES ASSUME TreeInv, Next, GoesOn, GoesOn'
               PROVE  Depth(tree', cur') < Depth(tree, cur)
    OBVIOUS
  <2>1. CASE Rebalance  BY <2>1, RoundClimbs
  <2>2. CASE Caller  BY <2>2 DEF Caller, Insert, Delete, GoesOn
  <2> QED  BY <2>1, <2>2 DEF Next
<1> QED  BY <1>1, TreeInvariant, PTL DEF Spec, RoundsClimb
=============================================================================
