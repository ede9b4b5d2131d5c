----------------------------- MODULE MCCacheLease -----------------------------
(* CacheLease with interchangeable query threads. *)
EXTENDS CacheLease, TLC

CONSTANTS c1, c2, c3

Threads == Permutations(Client)
===============================================================================
