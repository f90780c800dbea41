-------------------------------- MODULE MCScopes --------------------------------
(* Model values for Scopes: one scope, and either one caller that waits for each  *)
(* transaction, or three goroutines with a call each, one of which waits.  The    *)
(* other two may be exchanged.  MaxPolls is 10 in the code; two polls are enough  *)
(* for a transaction to be found at the first, at the last or never.              *)
EXTENDS Scopes, TLC

CONSTANTS c1, c2, c3, s1
Solo == {c1}
Trio == {c1, c2, c3}
OneScope == {s1}
Exchange == Permutations({c2, c3})
================================================================================
