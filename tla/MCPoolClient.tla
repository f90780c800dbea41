------------------------------ MODULE MCPoolClient ------------------------------
(* Model values for PoolClient: one caller that may make any call of the client,  *)
(* among contracts that report actions a receive is taken for; and two callers    *)
(* with two calls, one of them on behalf of a granter.                            *)
EXTENDS PoolClient

CONSTANTS c1, c2
Pair == {c1, c2}

TwoCalls == {[method |-> "Lend", for |-> "self", hook |-> "none"],
             [method |-> "Receive", for |-> "granter", hook |-> "transfer"]}

MCWorlds == [
  anyCall |-> [offered |-> (c1 :> Calls @@ c2 :> {}),
               foreign |-> {"lend", "withdraw", "transfer"}],
  together |-> [offered |-> (c1 :> TwoCalls @@ c2 :> TwoCalls), foreign |-> {}]]
================================================================================
