------------------------------ MODULE MCRBTree ------------------------------
(* TLC instances of RBTree.                                                *)
EXTENDS RBTree

\* Nodes are interchangeable: fixing the key of each loses only their names.
\* Two pairs of nodes share a key.
CONSTANT Count
MCNodes == 1 .. Count
MCKeysOf == [n \in MCNodes |-> {IF n \in {3, 6} THEN n - 1 ELSE n}]
=============================================================================
