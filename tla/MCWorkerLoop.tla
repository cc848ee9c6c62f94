---------------------------- MODULE MCWorkerLoop ----------------------------
(* TLC instances of WorkerLoop.                                            *)
EXTENDS WorkerLoop, TLC

\* Addresses are interchangeable in the safety runs.
ConnSymmetry == Permutations(Conns)
=============================================================================
