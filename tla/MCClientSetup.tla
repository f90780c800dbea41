----------------------------- MODULE MCClientSetup -----------------------------
(* Model values for ClientSetup: constructions for the main network, the test    *)
(* network and one with a coin type of its own, the last without a mnemonic;      *)
(* and three goroutines on the first client, with two kinds of query clients.     *)
EXTENDS ClientSetup, TLC

CONSTANTS u1, u2, u3, auth, bank
ThreeUsers == {u1, u2, u3}
TwoKinds == {auth, bank}
FourBuilders == 1..4
ThreeSigners == 1..3
Networks == <<[prefix |-> "pb", coinType |-> 505], [prefix |-> "tp", coinType |-> 505],
              [prefix |-> "tp", coinType |-> 1],   [prefix |-> "pb", coinType |-> 505]>>
Exchange == Permutations({u2, u3})
================================================================================
