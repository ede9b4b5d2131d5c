---------------------------- MODULE MCWritePipeline ----------------------------
(* WritePipeline with a leader and two followers, one of which owns the shard. *)
EXTENDS WritePipeline, TLC

CONSTANTS n1, n2, n3, a, b, w1, w2

\* What the writes are about.
TwoDomains == [w \in Write |-> IF w = w2 THEN b ELSE a]
================================================================================
