--------------------------- MODULE MCProcessCycle ---------------------------
(* TLC instances of ProcessCycle.                                          *)
EXTENDS ProcessCycle, TLC

\* Pids are interchangeable in the safety runs (no property orders them).
PidSymmetry == Permutations(Pids)
=============================================================================
