----------------------------- MODULE MCTxSequence -----------------------------
(* Model values for TxSequence: a single caller that does not wait.           *)
EXTENDS TxSequence

CONSTANT c1
Solo == {c1}
Nobody == {}
================================================================================
