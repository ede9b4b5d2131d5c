----------------------------- MODULE CacheServers -----------------------------
(***************************************************************************)
(* The two cache tiers side by side, L1 with a capacity of its own.  They  *)
(* are separate processes that know nothing of each other: any commands    *)
(* may reach them in any order.                                            *)
(***************************************************************************)
EXTENDS L2Cache

CONSTANT L1Capacity

ASSUME L1CapacityAssumption == L1Capacity \in Nat \ {0}

VARIABLES l1cache, l1uses, l1stored

l1Vars == <<l1cache, l1uses, l1stored>>

L1 == INSTANCE L1Cache WITH
  Capacity <- L1Capacity, cache <- l1cache, uses <- l1uses, stored <- l1stored

\* Both processes start with nothing cached.
InitServers ==
  /\ Init
  /\ l1cache = <<>> /\ l1uses = <<>> /\ l1stored = [k \in Key |-> NA]

\* A command to either server, or time passes.
NextServers ==
  \/ Next /\ UNCHANGED l1Vars
  \/ L1!process_command /\ UNCHANGED vars

Spec == InitServers /\ [][NextServers]_<<vars, l1Vars>>

-------------------------------------------------------------------------------
\* Either cache holds the names used last, as many as fit, with their last
\* values: hits and repeated SETs count as uses at both, a GET that only gets a
\* lease does not and evicts nothing.
KeepMostRecent ==
  /\ MostRecent(cache, uses, stored)
  /\ L1!MostRecent(l1cache, l1uses, l1stored)
===============================================================================
