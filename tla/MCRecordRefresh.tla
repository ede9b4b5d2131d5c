---------------------------- MODULE MCRecordRefresh ----------------------------
(* RecordRefresh with two nodes and two domains in the file of one letter.     *)
(* Another letter has no file until newRecord makes one.                       *)
EXTENDS RecordRefresh, TLC

CONSTANTS n1, n2, a1, a2, c1

TwoRanks == n1 :> 1 @@ n2 :> 2
Heads    == a1 :> 1 @@ a2 :> 1 @@ c1 :> 0
================================================================================
