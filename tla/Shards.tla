-------------------------------- MODULE Shards --------------------------------
(***************************************************************************)
(* The shard arithmetic of data_plane/state.py: updateRecordSet cuts the   *)
(* alphabet into lastRank consecutive slices and gives a node the slice of *)
(* its rank.  Letters are their positions 0 .. TotalLetters - 1 in         *)
(* ALPHABET; the code has TotalLetters = 26.                               *)
(***************************************************************************)
EXTENDS Integers

CONSTANT TotalLetters                       \* TOTAL_LETTERS

ASSUME TotalLettersAssumption == TotalLetters \in Nat

Alphabet == 0 .. TotalLetters - 1

\* TOTAL_LETTERS // lastRank and TOTAL_LETTERS % lastRank.
PerNode(lastRank)   == TotalLetters \div lastRank
Remainder(lastRank) == TotalLetters % lastRank

\* Mutant: every lower rank is taken to hold one letter more.
LongerBeforeAll(rank, lastRank) == rank - 1

\* min(rank - 1, remainder): how many of the lower ranks hold one letter more.
LongerBefore(rank, lastRank) ==
  IF rank - 1 <= Remainder(lastRank) THEN rank - 1 ELSE Remainder(lastRank)

SliceStart(rank, lastRank) ==
  PerNode(lastRank) * (rank - 1) + LongerBefore(rank, lastRank)

SliceSize(rank, lastRank) ==
  PerNode(lastRank) + (IF rank <= Remainder(lastRank) THEN 1 ELSE 0)

\* ALPHABET[start : start + size]; a slice past the end is cut, as in Python.
Slice(rank, lastRank) ==
  {i \in Alphabet : /\ SliceStart(rank, lastRank) <= i
                    /\ i < SliceStart(rank, lastRank) + SliceSize(rank, lastRank)}

\* selfRecords after updateRecordSet, whose three branches test nodeCount, then
\* the zero ranks, then compute the slice.
RecordSet(nodeCount, rank, lastRank) ==
  CASE nodeCount = 1                                 -> Alphabet
    [] nodeCount # 1 /\ (lastRank = 0 \/ rank = 0)   -> {}
    [] nodeCount # 1 /\ lastRank # 0 /\ rank # 0     -> Slice(rank, lastRank)

-------------------------------------------------------------------------------
(* What a cluster of lastRank nodes needs of the slices.                   *)

\* Every letter of the alphabet is in the slice of some rank, so no domain is
\* without an owner when every rank is taken.
Covers(lastRank) == \A i \in Alphabet : \E r \in 1 .. lastRank : i \in Slice(r, lastRank)

\* Two ranks of the same cluster size own no letter in common, so no domain
\* has two authoritative copies.
Disjoint(lastRank) ==
  \A r, s \in 1 .. lastRank : r # s => Slice(r, lastRank) \cap Slice(s, lastRank) = {}

\* No rank carries more than one letter more than another.
Balanced(lastRank) ==
  \A r, s \in 1 .. lastRank : SliceSize(r, lastRank) <= SliceSize(s, lastRank) + 1
===============================================================================
