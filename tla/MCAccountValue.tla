---------------------------- MODULE MCAccountValue ----------------------------
(* Model values for AccountValue: four balances, the second of them no NFT,   *)
(* so that the two workers of the pool may both be busy when the last is to   *)
(* be submitted; and three NFTs for the run that looks for a counterexample.  *)
EXTENDS AccountValue

MCKeys == 1..4
MCSomeNfts == {1, 3, 4}
MCThree == 1..3
================================================================================
