-------------------------------- MODULE MCGrants --------------------------------
(* Model values for Grants: both queries, of two message types on pages of one,   *)
(* and a client clock behind, even with and ahead of the chain's.                 *)
EXTENDS Grants

BothKinds == {"commitment", "execution"}
TwoUrls == 1..2
SecondUrl == {2}
AnySkew == -1..1
================================================================================
