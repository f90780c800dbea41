-------------------------------- MODULE Listing --------------------------------
(***************************************************************************)
(* What a listing query promises over a chain that changes while its pages  *)
(* are fetched.  The result grows in key order, out of items the chain held *)
(* at some time during the call; a call that ends complete has every item   *)
(* that was there all the time.                                             *)
(***************************************************************************)
EXTENDS Naturals, Sequences

CONSTANTS
  Keys,          \* the keys items can be stored under
  MayTruncate    \* whether a call may end short without saying so

VARIABLES
  present,       \* the keys on chain
  stable,        \* those on chain ever since the call began
  ever,          \* those on chain at some time since then
  listed,        \* the result so far
  outcome        \* "none" while running, else how the call ended

listingVars == <<present, stable, ever, listed, outcome>>

Init ==
  /\ present \in SUBSET Keys
  /\ stable = present /\ ever = present
  /\ listed = <<>>
  /\ outcome = "none"

Change ==
  /\ present' \in SUBSET Keys
  /\ stable' = stable \cap present'
  /\ ever' = ever \cup present'
  /\ UNCHANGED <<listed, outcome>>

\* More items, all above those listed already.
List ==
  /\ outcome = "none"
  /\ listed' \in Seq(ever)
  /\ Len(listed) <= Len(listed')
  /\ \A i \in 1..Len(listed) : listed'[i] = listed[i]
  /\ \A i, j \in 1..Len(listed') : i < j => listed'[i] < listed'[j]
  /\ UNCHANGED <<present, stable, ever, outcome>>

Finish ==
  /\ outcome = "none"
  /\ \/ /\ outcome' = "complete"
        /\ \A k \in stable : \E i \in 1..Len(listed) : listed[i] = k
     \/ outcome' = "failed"
     \/ outcome' = "truncated" /\ MayTruncate
  /\ UNCHANGED <<present, stable, ever, listed>>

Next == Change \/ List \/ Finish

Spec == Init /\ [][Next]_listingVars
================================================================================
