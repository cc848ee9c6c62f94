---------------------------- MODULE MCSendChain -----------------------------
(* TLC instances of SendChain.                                             *)
EXTENDS SendChain

\* A message that fits the socket's buffer and one that never does at once.
MCSizes == {1, 4}
=============================================================================
