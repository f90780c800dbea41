------------------------------ MODULE TxSequence ------------------------------
(***************************************************************************)
(* How a signing ProvenanceClient numbers its transactions.  The client     *)
(* keeps the next account sequence in c.Sequence under c.mu.  An operation  *)
(* takes a number (NextSequence), simulates and signs (SignTx), broadcasts  *)
(* in SYNC mode (BroadcastTx) and, for some callers, polls for inclusion    *)
(* (WaitOnTx).  A failed simulation resets c.Sequence to the sequence the   *)
(* chain has committed (ResetSequence).  Several goroutines share the       *)
(* client.                                                                  *)
(*                                                                          *)
(* The node is external.  Its check state counts the transactions waiting   *)
(* in its mempool; the account query sees committed blocks only.            *)
(***************************************************************************)
EXTENDS Integers, Sequences, FiniteSets

CONSTANTS
  Callers,   \* goroutines that use the client
  Waiting,   \* those that wait for inclusion (BroadcastMsgs, broadcastAndWait,
             \* the registry loader); the others return after the broadcast
             \* (CreateScope, DeleteScope, UpdateRecords, AddAttributes)
  MaxOps,    \* bound: operations per caller
  MaxPolls,  \* polls of WaitOnTx
  Prior,     \* transactions of the same key an earlier process left pending
  Reliable   \* accepted transactions enter a block before WaitOnTx gives up,
             \* and no reply to a broadcast is lost

ASSUME SequenceAssumption ==
  /\ "free" \notin Callers
  /\ Waiting \subseteq Callers
  /\ MaxOps \in Nat /\ MaxPolls \in Nat /\ Prior \in Nat
  /\ Reliable \in BOOLEAN

VARIABLES
  mu,         \* the caller that holds c.mu, or "free"
  Sequence,   \* c.Sequence
  pc, ops,    \* per caller: where it stands, operations started
  seq,        \* per caller: the number its operation took
  answer,     \* per caller: the sequence its account query returned
  polls,      \* per caller: polls of WaitOnTx made
  result,     \* per caller: how its last operation ended
  committed,  \* chain: the account's committed sequence
  mempool,    \* chain: the account's pending transactions, in order
  indexed,    \* chain: the transactions GetTx finds
  current,    \* history: callers that took a number since the last reset
  misses      \* history: operations rejected in a row for their number alone

clientVars == <<mu, Sequence, current>>
callVars   == <<ops, seq, answer, polls, result>>
chainVars  == <<committed, mempool, indexed>>
vars == <<clientVars, pc, callVars, chainVars, misses>>

Critical == {"read", "inc", "auth", "set"}
Steps == {"idle", "lockNext", "sign", "lockAuth", "query", "lockSet",
          "broadcast", "wait"} \cup Critical

Tx(c) == [by |-> c, op |-> ops[c]]
Txs == [by : Callers \cup {"free"}, op : Nat]

\* The number the node's check state expects of the next transaction.
NextSeq == committed + Len(mempool)

Init ==
  /\ mu = "free"
  /\ committed = 0
  /\ mempool = [i \in 1..Prior |-> [by |-> "free", op |-> i]]
  /\ indexed = {}
  /\ Sequence = committed      \* NewProvenanceClient ends with a reset
  /\ pc = [c \in Callers |-> "idle"]
  /\ ops = [c \in Callers |-> 0]
  /\ seq = [c \in Callers |-> 0]
  /\ answer = [c \in Callers |-> 0]
  /\ polls = [c \in Callers |-> 0]
  /\ result = [c \in Callers |-> "none"]
  /\ current = {}
  /\ misses = 0

Goto(c, from, to) == pc[c] = from /\ pc' = [pc EXCEPT ![c] = to]

\* The operation of c ends with result r.
Return(c, from, r) ==
  /\ Goto(c, from, "idle")
  /\ result' = [result EXCEPT ![c] = r]

Lock(c)   == mu = "free" /\ mu' = c
Unlock(c) == mu' = "free"

--------------------------------------------------------------------------------
(* NextSequence: lock, read, increment, unlock.                            *)

Start(c) ==
  /\ ops[c] < MaxOps
  /\ Goto(c, "idle", "lockNext")
  /\ ops' = [ops EXCEPT ![c] = @ + 1]
  /\ result' = [result EXCEPT ![c] = "none"]
  /\ UNCHANGED <<clientVars, seq, answer, polls, chainVars, misses>>

LockNext(c) ==
  /\ Goto(c, "lockNext", "read")
  /\ Lock(c)
  /\ UNCHANGED <<Sequence, current, callVars, chainVars, misses>>

ReadNext(c) ==
  /\ Goto(c, "read", "inc")
  /\ seq' = [seq EXCEPT ![c] = Sequence]
  /\ current' = current \ {c}
  /\ UNCHANGED <<mu, Sequence, ops, answer, polls, result, chainVars, misses>>

IncNext(c) ==
  /\ Goto(c, "inc", "sign")
  /\ Sequence' = Sequence + 1
  /\ current' = current \cup {c}
  /\ Unlock(c)
  /\ UNCHANGED <<callVars, chainVars, misses>>

--------------------------------------------------------------------------------
(* SignTx: simulate, then sign and encode.                                 *)

\* Mutant of SignErr: the unused number is given back by decrementing.
SignErrGivesBack(c) ==
  /\ Return(c, "sign", "err")
  /\ Sequence' = Sequence - 1
  /\ misses' = 0
  /\ UNCHANGED <<mu, current, ops, seq, answer, polls, chainVars>>

\* Building, signing or encoding fails: an error, and no reset.
SignErr(c) ==
  /\ Return(c, "sign", "err")
  /\ misses' = 0
  /\ UNCHANGED <<clientVars, ops, seq, answer, polls, chainVars>>

\* Mutant of SimulateMismatch: SignTx returns without a reset.
SimulateMismatchNoReset(c) ==
  /\ Return(c, "sign", "err")
  /\ seq[c] # NextSeq
  /\ misses' = misses + 1
  /\ UNCHANGED <<clientVars, ops, seq, answer, polls, chainVars>>

\* The node rejects the number.
SimulateMismatch(c) ==
  /\ Goto(c, "sign", "lockAuth")
  /\ seq[c] # NextSeq
  /\ misses' = misses + 1
  /\ UNCHANGED <<clientVars, callVars, chainVars>>

\* The simulation fails for another reason: the RPC, the fee, a message.
SimulateErr(c) ==
  /\ Goto(c, "sign", "lockAuth")
  /\ seq[c] = NextSeq
  /\ misses' = 0
  /\ UNCHANGED <<clientVars, callVars, chainVars>>

SimulateOk(c) ==
  /\ Goto(c, "sign", "broadcast")
  /\ seq[c] = NextSeq
  /\ misses' = 0
  /\ UNCHANGED <<clientVars, callVars, chainVars>>

--------------------------------------------------------------------------------
(* ResetSequence, called by SignTx, which ignores its result: get the query *)
(* client under c.mu, query the account without it, set c.Sequence under it.*)

LockAuth(c) ==
  /\ Goto(c, "lockAuth", "auth")
  /\ Lock(c)
  /\ UNCHANGED <<Sequence, current, callVars, chainVars, misses>>

UnlockAuth(c) ==
  /\ Goto(c, "auth", "query")
  /\ Unlock(c)
  /\ UNCHANGED <<Sequence, current, callVars, chainVars, misses>>

QueryAccount(c) ==
  /\ Goto(c, "query", "lockSet")
  /\ answer' = [answer EXCEPT ![c] = committed]
  /\ UNCHANGED <<clientVars, ops, seq, polls, result, chainVars, misses>>

\* The reset fails; SignTx returns the simulation error all the same.
QueryAccountErr(c) ==
  /\ Return(c, "query", "err")
  /\ misses' = 0
  /\ UNCHANGED <<clientVars, ops, seq, answer, polls, chainVars>>

LockSet(c) ==
  /\ Goto(c, "lockSet", "set")
  /\ Lock(c)
  /\ UNCHANGED <<Sequence, current, callVars, chainVars, misses>>

SetSequence(c) ==
  /\ Return(c, "set", "err")
  /\ Sequence' = answer[c]
  /\ current' = {}
  /\ Unlock(c)
  /\ UNCHANGED <<ops, seq, answer, polls, chainVars, misses>>

--------------------------------------------------------------------------------
(* BroadcastTx in SYNC mode, then WaitOnTx for the callers that wait.      *)

\* The caller has a transaction hash and no error: it waits, or returns it.
Broadcasted(c) ==
  \/ /\ c \in Waiting
     /\ Goto(c, "broadcast", "wait")
     /\ polls' = [polls EXCEPT ![c] = 0]
     /\ UNCHANGED result
  \/ /\ c \notin Waiting
     /\ Return(c, "broadcast", "sent")
     /\ UNCHANGED polls

Accepted(c) ==
  /\ seq[c] = NextSeq
  /\ mempool' = Append(mempool, Tx(c))
  /\ Broadcasted(c)
  /\ UNCHANGED <<clientVars, ops, seq, answer, committed, indexed, misses>>

\* CheckTx answers with a code that BroadcastTx does not look at.
Rejected(c) ==
  /\ Broadcasted(c)
  /\ UNCHANGED <<clientVars, ops, seq, answer, chainVars, misses>>

BroadcastErr(c) ==
  /\ Return(c, "broadcast", "err")
  /\ UNCHANGED <<clientVars, ops, seq, answer, polls, chainVars, misses>>

\* The node took the transaction, but its reply did not arrive.
ReplyLost(c) ==
  /\ ~Reliable
  /\ seq[c] = NextSeq
  /\ mempool' = Append(mempool, Tx(c))
  /\ Return(c, "broadcast", "err")
  /\ UNCHANGED <<clientVars, ops, seq, answer, polls, committed, indexed, misses>>

\* GetTx finds the transaction; a non-zero code is an error to the waiters.
PollFound(c) ==
  /\ polls[c] < MaxPolls
  /\ Tx(c) \in indexed
  /\ \E r \in {"ok", "err"} : Return(c, "wait", r)
  /\ UNCHANGED <<clientVars, ops, seq, answer, polls, chainVars, misses>>

\* Mutant of PollMiss: failed polls are not counted.
PollMissUncounted(c) ==
  /\ pc[c] = "wait"
  /\ polls[c] < MaxPolls
  /\ UNCHANGED vars

\* Not found, or a transient RPC error: sleep and poll again.
PollMiss(c) ==
  /\ pc[c] = "wait"
  /\ polls[c] < MaxPolls
  /\ polls' = [polls EXCEPT ![c] = @ + 1]
  /\ UNCHANGED <<clientVars, pc, ops, seq, answer, result, chainVars, misses>>

GiveUp(c) ==
  /\ polls[c] = MaxPolls
  /\ Reliable => \A i \in 1..Len(mempool) : mempool[i] # Tx(c)
  /\ Return(c, "wait", "err")
  /\ UNCHANGED <<clientVars, ops, seq, answer, polls, chainVars, misses>>

--------------------------------------------------------------------------------
(* The chain.                                                              *)

\* A block takes a prefix of the account's pending transactions.
Block ==
  \E n \in 1..Len(mempool) :
    /\ committed' = committed + n
    /\ mempool' = SubSeq(mempool, n + 1, Len(mempool))
    /\ indexed' = indexed \cup {mempool[i] : i \in 1..n}
    /\ UNCHANGED <<clientVars, pc, callVars, misses>>

\* A pending transaction is dropped, and with it those that built on it.
Evict ==
  \E n \in 1..Len(mempool) :
    /\ ~Reliable
    /\ mempool' = SubSeq(mempool, 1, n - 1)
    /\ UNCHANGED <<clientVars, pc, callVars, committed, indexed, misses>>

Sign(c)  == SignErr(c) \/ SimulateMismatch(c) \/ SimulateErr(c) \/ SimulateOk(c)
Reset(c) == \/ LockAuth(c) \/ UnlockAuth(c)
            \/ QueryAccount(c) \/ QueryAccountErr(c)
            \/ LockSet(c) \/ SetSequence(c)
Send(c)  == Accepted(c) \/ Rejected(c) \/ BroadcastErr(c) \/ ReplyLost(c)
Wait(c)  == PollFound(c) \/ PollMiss(c) \/ GiveUp(c)

Proceed(c) ==
  \/ LockNext(c) \/ ReadNext(c) \/ IncNext(c)
  \/ Sign(c) \/ Reset(c) \/ Send(c) \/ Wait(c)

\* All operations of the bounded instance are over.
AllDone ==
  /\ \A c \in Callers : pc[c] = "idle" /\ ops[c] = MaxOps
  /\ UNCHANGED vars

Next ==
  \/ \E c \in Callers : Start(c) \/ Proceed(c)
  \/ Block \/ Evict
  \/ AllDone

\* Every goroutine is scheduled and every RPC returns; sync.Mutex hands the
\* lock to a waiter that has starved, hence the strong fairness; blocks are made.
Fairness ==
  /\ \A c \in Callers : /\ WF_vars(Proceed(c))
                        /\ SF_vars(LockNext(c) \/ LockAuth(c) \/ LockSet(c))
  /\ WF_vars(Block)

Spec == Init /\ [][Next]_vars /\ Fairness

--------------------------------------------------------------------------------
\* The type invariant.
TypeOK ==
  /\ mu \in Callers \cup {"free"}
  /\ Sequence \in Nat
  /\ pc \in [Callers -> Steps]
  /\ ops \in [Callers -> Nat]
  /\ seq \in [Callers -> Nat]
  /\ answer \in [Callers -> Nat]
  /\ polls \in [Callers -> 0..MaxPolls]
  /\ result \in [Callers -> {"none", "ok", "sent", "err"}]
  /\ committed \in Nat
  /\ mempool \in Seq(Txs)
  /\ indexed \in SUBSET Txs
  /\ current \in SUBSET Callers
  /\ misses \in Nat

\* c.mu is held exactly in the four critical sections: never across the account
\* query, nor when the same goroutine is about to lock again, which would
\* deadlock it (the comment of ResetSequence).
MutexDiscipline ==
  \A c \in Callers : mu = c <=> pc[c] \in Critical

\* Between two resets no two goroutines are given the same number, and every
\* number given out is below the next one (NextSequence under c.mu).
FreshNumbers ==
  /\ \A c, d \in current : c # d => seq[c] # seq[d]
  /\ \A c \in current : seq[c] < Sequence

\* The inductive invariant behind the two: the number read is still the current
\* one when it is incremented, because c.mu is held in between.
NumberInv ==
  /\ MutexDiscipline
  /\ FreshNumbers
  /\ \A c \in Callers : pc[c] = "inc" => seq[c] = Sequence

\* A waiting operation that returns no error has its own transaction in a block
\* (BroadcastMsgs and WaitOnTx).
OkMeansCommitted ==
  \A c \in Waiting : result[c] = "ok" => Tx(c) \in indexed

\* A reset realigns: one operation rejected for its number, and the reset that
\* follows, are enough, so a single caller never loses two in a row (the
\* comment in SignTx on why it resets the sequence).
ResetRealigns == misses <= 1

\* The inductive invariant behind it, for a single caller that waits and a
\* reliable node: nothing is pending but the transaction being waited for, so
\* what the reset reads and what the next operation takes is what the node
\* expects.
Settled(c) ==
  /\ mempool # <<>> => pc[c] = "wait" /\ mempool = <<Tx(c)>> /\ Tx(c) \notin indexed
  /\ pc[c] \notin {"idle", "wait"} => Tx(c) \notin indexed
  /\ \A t \in indexed : t.op <= ops[c]
  /\ pc[c] \in {"lockSet", "set"} => answer[c] = committed
  /\ misses \in {0, 1}
  /\ misses = 1 =>
       /\ pc[c] \notin {"broadcast", "wait"}
       /\ pc[c] \in {"idle", "lockNext", "read", "inc"} => Sequence = committed
       /\ pc[c] \in {"inc", "sign"} => seq[c] = committed

SoloInv == \A c \in Callers : Settled(c)
================================================================================
