----------------------------- MODULE MCMemPool ------------------------------
(* TLC instances of MemPool.                                               *)
EXTENDS MemPool, TLC

\* malloc() may return any address.
AddressSymmetry == Permutations(Addresses)
=============================================================================
