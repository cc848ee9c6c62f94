----------------------------- MODULE WorkerPool -----------------------------
(***************************************************************************)
(* What the master promises about its workers, without signals, slots or   *)
(* channels: a pool of at most ProcessNum serving workers, each of which   *)
(* may be told to leave and is then never asked back.                      *)
(***************************************************************************)
EXTENDS Integers, FiniteSets

CONSTANTS Pids, ProcessNum

VARIABLES
    serving,   \* workers in the pool
    leaving    \* workers told to quit and not gone yet

vars == <<serving, leaving>>

Init == serving = {} /\ leaving = {}

(* A worker is hired only into a vacancy.                                  *)
Hire(p) ==
    /\ p \in Pids \ (serving \cup leaving)
    /\ Cardinality(serving) < ProcessNum
    /\ serving' = serving \cup {p}
    /\ UNCHANGED leaving

(* Quitting is final: a worker told to leave does not serve again.         *)
Dismiss(p) ==
    /\ p \in serving
    /\ serving' = serving \ {p}
    /\ leaving' = leaving \cup {p}

Leave(p) ==
    /\ p \in serving \cup leaving
    /\ serving' = serving \ {p}
    /\ leaving' = leaving \ {p}

Next == \E p \in Pids : Hire(p) \/ Dismiss(p) \/ Leave(p)

Spec == Init /\ [][Next]_vars
=============================================================================
