------------------------------ MODULE MCUdpLog ------------------------------
(* TLC instances of UdpLog.                                                *)
EXTENDS UdpLog, TLC

\* Neither the workers nor the messages are told apart.
Symmetric == Permutations(Workers) \cup Permutations(Messages)
=============================================================================
