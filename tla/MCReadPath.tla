------------------------------ MODULE MCReadPath ------------------------------
(* ReadPath with four nodes: the one the client asks, its leader, one that hangs *)
(* and one that has the record.  The tables of the two that may come to lead     *)
(* when the read begins lack an entry each, or none.                             *)
EXTENDS ReadPath

Gaps == {<<4, 2>>, <<3, 1>>}
===============================================================================
