------------------------------ MODULE OrderedLoad ------------------------------
(***************************************************************************)
(* What a bulk load of the registry promises: entries arrive on chain from  *)
(* the first to the last, a limited number at a time and none before its    *)
(* predecessors, and the load is reported as done only when all are there.  *)
(***************************************************************************)
EXTENDS Integers

CONSTANTS
  Entries,     \* how many entries there are
  MaxPerTx     \* how many may arrive at once

VARIABLES
  applied,     \* the entries on chain
  loaded       \* whether the load was reported as done

Init == applied = {} /\ loaded = FALSE

Apply ==
  \E m, n \in 0..Entries :
    /\ applied = 1..m /\ applied' = 1..n
    /\ m < n /\ n <= m + MaxPerTx
    /\ UNCHANGED loaded

Report ==
  /\ applied = 1..Entries
  /\ loaded' = TRUE
  /\ UNCHANGED applied

Next == Apply \/ Report

Spec == Init /\ [][Next]_<<applied, loaded>>
================================================================================
