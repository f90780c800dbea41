------------------------- MODULE RegistryLoaderProofs -------------------------
(***************************************************************************)
(* Proofs about the loader, however often the command is stopped, killed and *)
(* repeated: at most one of its transactions is pending, the entries come    *)
(* on chain without a gap, and each at most once per run.                    *)
(***************************************************************************)
EXTENDS RegistryLoader, TxSequenceProofs, FiniteSetTheorems

USE LoaderAssumption

\* A step of the loader's only operation is a step of TxSequence.
LEMMA ProceedIsNext ==
  ASSUME Proceed(Loader)
  PROVE  [Next]_vars
BY DEF Next

\* Type correctness of the client and the chain survives every step, the
\* restart of the process included.
LEMMA LoaderTypeStep ==
  ASSUME TypeOK, [LoaderNext]_loaderVars
  PROVE  TypeOK'
<1>1. CASE BeginBatch
  <2>1. Next
    BY <1>1 DEF BeginBatch, Next
  <2> QED
    BY <2>1, TypeStep
<1>2. CASE Load
  BY <1>2, ProceedIsNext, TypeStep DEF Load
<1>3. CASE Rerun
  <2>1. pc' \in [Callers -> Steps] /\ result' \in [Callers -> {"none", "ok", "sent", "err"}]
    BY <1>3 DEF Rerun, TypeOK, Steps
  <2>2. Sequence' \in Nat /\ mu' \in Callers \cup {"free"} /\ current' \in SUBSET Callers /\ misses' \in Nat
    BY <1>3 DEF Rerun, TypeOK
  <2> QED
    BY <1>3, <2>1, <2>2 DEF Rerun, TypeOK, chainVars
<1>4. CASE Included \/ Dropped
  <2>1. Next
    BY <1>4 DEF Included, Dropped, Next
  <2> QED
    BY <2>1, TypeStep
<1>5. CASE Finished \/ UNCHANGED loaderVars
  <2>1. [Next]_vars
    BY <1>5 DEF Finished, loaderVars
  <2> QED
    BY <2>1, TypeStep
<1> QED
  BY <1>1, <1>2, <1>3, <1>4, <1>5 DEF LoaderNext

\* What an outcome of the loop says of the status: it goes on only after "none"
\* or "ok".
LEMMA StopsOnError ==
  ASSUME Load, result'[Loader] = "err"
  PROVE  status' = "failed"
BY DEF Load, NextBatch, Stop, Within

--------------------------------------------------------------------------------
(* The inductive step.                                                     *)

\* The steps of the process up to the broadcast.
LEMMA NumberingFlight ==
  ASSUME TypeOK, FlightInv, Load,
         \/ LockNext(Loader) \/ ReadNext(Loader) \/ IncNext(Loader)
         \/ Sign(Loader)
  PROVE  FlightInv'
<1> USE DEF FlightInv, OneInFlight, Numbered, Fresh, TypeOK, Tx
<1>0. status = "running"
  BY DEF Load
<1>1. CASE LockNext(Loader)
  BY <1>0, <1>1 DEF LockNext, Goto, callVars, chainVars
<1>2. CASE ReadNext(Loader)
  BY <1>0, <1>2 DEF ReadNext, Goto, chainVars
<1>3. CASE IncNext(Loader)
  BY <1>0, <1>3 DEF IncNext, Goto, callVars, chainVars
<1>4. CASE SignErr(Loader)
  <2>1. result'[Loader] = "err"
    BY <1>4 DEF SignErr, Return
  <2> QED
    BY <1>4, <2>1, StopsOnError DEF SignErr, Return, Goto, clientVars, chainVars
<1>5. CASE SimulateMismatch(Loader) \/ SimulateErr(Loader)
  BY <1>5 DEF SimulateMismatch, SimulateErr, Goto, clientVars, callVars, chainVars
<1>6. CASE SimulateOk(Loader)
  <2>1. /\ pc[Loader] = "sign" /\ pc' = [pc EXCEPT ![Loader] = "broadcast"]
        /\ seq[Loader] = committed + Len(mempool)
        /\ UNCHANGED <<Sequence, seq, ops, committed, mempool, indexed>>
    BY <1>6 DEF SimulateOk, Goto, NextSeq, clientVars, callVars, chainVars
  <2>2. Len(mempool) = 0
    <3>1. Len(mempool) \in Nat /\ seq[Loader] <= committed
      BY <2>1
    <3> QED
      BY <2>1, <3>1
  <2>3. mempool = <<>>
    BY <2>2
  <2> QED
    BY <2>1, <2>3
<1> QED
  BY <1>1, <1>2, <1>3, <1>4, <1>5, <1>6 DEF Sign

\* The steps of a reset: the operation is lost and the loader stops at its end.
LEMMA ResetFlight ==
  ASSUME TypeOK, FlightInv, Load, Reset(Loader)
  PROVE  FlightInv'
<1> USE DEF FlightInv, OneInFlight, Numbered, Fresh, TypeOK, Tx
<1>1. CASE LockAuth(Loader) \/ UnlockAuth(Loader)
  BY <1>1 DEF LockAuth, UnlockAuth, Goto, callVars, chainVars
<1>2. CASE QueryAccount(Loader) \/ LockSet(Loader)
  BY <1>2 DEF QueryAccount, LockSet, Goto, clientVars, callVars, chainVars
<1>3. CASE QueryAccountErr(Loader) \/ SetSequence(Loader)
  <2>1. result'[Loader] = "err"
    BY <1>3 DEF QueryAccountErr, SetSequence, Return
  <2> QED
    BY <1>3, <2>1, StopsOnError DEF QueryAccountErr, SetSequence, Return, Goto, clientVars, chainVars
<1> QED
  BY <1>1, <1>2, <1>3 DEF Reset

\* The broadcast: it is reached with an empty mempool only.
LEMMA SendFlight ==
  ASSUME TypeOK, FlightInv, Load, Send(Loader)
  PROVE  FlightInv'
<1> USE DEF FlightInv, OneInFlight, Numbered, Fresh, TypeOK, Tx
<1>1. pc[Loader] = "broadcast" /\ mempool = <<>> /\ Tx(Loader) \notin indexed
  BY DEF Send, Accepted, Rejected, BroadcastErr, ReplyLost, Broadcasted, Return, Goto
<1>2. CASE Accepted(Loader)
  <2>1. mempool' = <<Tx(Loader)>> /\ pc' = [pc EXCEPT ![Loader] = "wait"]
        /\ UNCHANGED <<Sequence, seq, ops, committed, indexed>>
    BY <1>1, <1>2 DEF Accepted, Broadcasted, Goto, clientVars
  <2> QED
    BY <1>1, <2>1
<1>3. CASE Rejected(Loader)
  <2>1. pc' = [pc EXCEPT ![Loader] = "wait"]
        /\ UNCHANGED <<Sequence, seq, ops, committed, mempool, indexed>>
    BY <1>3 DEF Rejected, Broadcasted, Goto, clientVars, chainVars
  <2> QED
    BY <1>1, <2>1
<1>4. CASE BroadcastErr(Loader)
  <2>1. result'[Loader] = "err"
    BY <1>4 DEF BroadcastErr, Return
  <2> QED
    BY <1>4, <2>1, StopsOnError DEF BroadcastErr, Return, Goto, clientVars, chainVars
<1>5. CASE ReplyLost(Loader)
  <2>1. result'[Loader] = "err"
    BY <1>5 DEF ReplyLost, Return
  <2>2. mempool' = <<Tx(Loader)>> /\ pc' = [pc EXCEPT ![Loader] = "idle"]
        /\ UNCHANGED <<Sequence, seq, ops, committed, indexed>>
    BY <1>1, <1>5 DEF ReplyLost, Return, Goto, clientVars
  <2> QED
    BY <1>1, <2>1, <2>2, StopsOnError
<1> QED
  BY <1>2, <1>3, <1>4, <1>5 DEF Send

\* The wait: a transaction that is found has used up its number on chain.
LEMMA WaitFlight ==
  ASSUME TypeOK, FlightInv, Load, Wait(Loader)
  PROVE  FlightInv'
<1> USE DEF FlightInv, OneInFlight, Numbered, Fresh, TypeOK, Tx
<1>1. CASE PollFound(Loader)
  <2>1. pc[Loader] = "wait" /\ pc' = [pc EXCEPT ![Loader] = "idle"] /\ Tx(Loader) \in indexed
        /\ UNCHANGED <<Sequence, seq, ops, committed, mempool, indexed>>
    BY <1>1 DEF PollFound, Return, Goto, clientVars, chainVars
  <2>2. Sequence <= committed
    BY <2>1
  <2> QED
    BY <2>1, <2>2
<1>2. CASE PollMiss(Loader)
  BY <1>2 DEF PollMiss, clientVars, chainVars
<1>3. CASE GiveUp(Loader)
  <2>1. result'[Loader] = "err"
    BY <1>3 DEF GiveUp, Return
  <2> QED
    BY <1>3, <2>1, StopsOnError DEF GiveUp, Return, Goto, clientVars, chainVars
<1> QED
  BY <1>1, <1>2, <1>3 DEF Wait

LEMMA OnePending ==
  ASSUME TypeOK, OneInFlight, NEW n \in 1..Len(mempool)
  PROVE  Len(mempool) = 1 /\ n = 1
<1>1. mempool \in Seq(Txs)
  BY DEF TypeOK
<1>2. Len(mempool) \in Nat /\ Len(mempool) <= 1
  BY <1>1, LenProperties DEF OneInFlight
<1> DEFINE length == Len(mempool)
<1>3. n \in 1..length /\ length \in Nat /\ length <= 1
  BY <1>2
<1> HIDE DEF length
<1>4. length = 1 /\ n = 1
  BY <1>3, SMT
<1> QED
  BY <1>4 DEF length

\* The chain: a block takes the pending transaction and its number.
LEMMA ChainFlight ==
  ASSUME TypeOK, FlightInv, Included \/ Dropped
  PROVE  FlightInv'
<1> USE DEF FlightInv, OneInFlight, Numbered, Fresh, TypeOK, Tx
<1>1. CASE Included
  <2>1. PICK n \in 1..Len(mempool) :
          /\ committed' = committed + n
          /\ mempool' = SubSeq(mempool, n + 1, Len(mempool))
          /\ indexed' = indexed \cup {mempool[i] : i \in 1..n}
          /\ UNCHANGED <<clientVars, pc, callVars, misses>>
    BY <1>1 DEF Included, Block
  <2>2. Len(mempool) = 1 /\ n = 1
    BY OnePending
  <2>3. mempool' = <<>> /\ committed' = committed + 1 /\ indexed' = indexed \cup {mempool[1]}
    BY <2>1, <2>2
  <2>4. UNCHANGED <<Sequence, seq, ops, pc, status>>
    BY <1>1, <2>1 DEF Included, clientVars, callVars, loadVars
  <2>5. mempool[1].op <= ops[Loader] /\ committed \in Nat
    BY <2>2
  <2>6. pc[Loader] \in Fresh => mempool[1].op < ops[Loader]
    BY <2>2
  <2>7. (\A t \in indexed' : t.op <= ops[Loader]) /\ (pc[Loader] \in Fresh => \A t \in indexed' : t.op < ops[Loader])
    BY <2>3, <2>5, <2>6
  <2>8. pc[Loader] \in Numbered => seq[Loader] < committed'
    BY <2>3
  <2> QED
    BY <2>3, <2>4, <2>5, <2>7, <2>8
<1>2. CASE Dropped
  <2>1. PICK n \in 1..Len(mempool) :
          /\ mempool' = SubSeq(mempool, 1, n - 1)
          /\ UNCHANGED <<clientVars, pc, callVars, committed, indexed, misses>>
    BY <1>2 DEF Dropped, Evict
  <2>2. Len(mempool) = 1 /\ n = 1
    BY OnePending
  <2>3. mempool' = <<>>
    BY <2>1, <2>2
  <2> QED
    BY <1>2, <2>1, <2>3 DEF Dropped, clientVars, callVars, loadVars
<1> QED
  BY <1>1, <1>2

\* Every pending transaction has an operation number.
LEMMA PendingTx ==
  ASSUME TypeOK
  PROVE  \A i \in 1..Len(mempool) : mempool[i].op \in Nat
<1>1. mempool \in Seq(Txs)
  BY DEF TypeOK
<1>2. \A i \in 1..Len(mempool) : mempool[i] \in Txs
  BY <1>1, ElementOfSeq
<1> QED
  BY <1>2 DEF Txs

LEMMA FlightStep ==
  ASSUME TypeOK, FlightInv, [LoaderNext]_loaderVars
  PROVE  FlightInv'
<1> USE DEF FlightInv, OneInFlight, Numbered, Fresh, TypeOK, Tx
<1>1. CASE BeginBatch
  <2>1. /\ status = "running" /\ status' = status
        /\ pc[Loader] = "idle" /\ pc' = [pc EXCEPT ![Loader] = "lockNext"]
        /\ ops' = [ops EXCEPT ![Loader] = @ + 1]
        /\ UNCHANGED <<Sequence, seq, committed, mempool, indexed>>
    BY <1>1 DEF BeginBatch, Start, Goto, clientVars, chainVars
  <2>2. ops'[Loader] = ops[Loader] + 1 /\ ops[Loader] \in Nat /\ pc'[Loader] = "lockNext"
    BY <2>1
  <2>3. \A t \in indexed : t.op \in Nat
    BY DEF Txs
  <2>4. \A i \in 1..Len(mempool) : mempool[i].op \in Nat
    BY PendingTx
  <2>5. (\A t \in indexed : t.op < ops'[Loader]) /\ \A i \in 1..Len(mempool) : mempool[i].op < ops'[Loader]
    BY <2>2, <2>3, <2>4
  <2>6. Sequence' <= committed'
    BY <2>1
  <2>7. pc'[Loader] \in Fresh /\ pc'[Loader] \notin Numbered /\ pc'[Loader] \notin {"inc", "broadcast", "wait"}
    BY <2>2
  <2>8. (\A t \in indexed' : t.op <= ops'[Loader]) /\ \A i \in 1..Len(mempool') : mempool'[i].op <= ops'[Loader]
    BY <2>1, <2>2, <2>3, <2>4, <2>5
  <2> QED
    BY <2>1, <2>5, <2>6, <2>7, <2>8
<1>2. CASE Load
  BY <1>2, NumberingFlight, ResetFlight, SendFlight, WaitFlight DEF Load, Proceed
<1>3. CASE Rerun
  BY <1>3 DEF Rerun, chainVars
<1>4. CASE Included \/ Dropped
  BY <1>4, ChainFlight
<1>5. CASE Finished \/ UNCHANGED loaderVars
  BY <1>5 DEF Finished, loaderVars, vars, loadVars, clientVars, callVars, chainVars
<1> QED
  BY <1>1, <1>2, <1>3, <1>4, <1>5 DEF LoaderNext

--------------------------------------------------------------------------------
LEMMA FlightInit == LoaderInit => TypeOK /\ FlightInv
<1> SUFFICES ASSUME LoaderInit PROVE FlightInv
  BY InitType DEF LoaderInit
<1>1. mempool = <<>>
  BY DEF LoaderInit, Init
<1> QED
  BY <1>1 DEF LoaderInit, Init, FlightInv, OneInFlight, Numbered, Fresh

\* The inductive invariant of the loader, for any number of entries and runs, and
\* any batch size.
THEOREM FlightInductive == LoaderSpec => []FlightInv
<1>1. (TypeOK /\ FlightInv) /\ [LoaderNext]_loaderVars => (TypeOK /\ FlightInv)'
  BY LoaderTypeStep, FlightStep
<1> QED
  BY <1>1, FlightInit, PTL DEF LoaderSpec

\* At most one transaction of the loader is pending: a repeated run cannot send
\* a batch while a transaction of an earlier run is in the mempool.
THEOREM OneTransactionInFlight == LoaderSpec => []OneInFlight
<1>1. FlightInv => OneInFlight
  BY DEF FlightInv
<1> QED
  BY <1>1, FlightInductive, PTL
--------------------------------------------------------------------------------
(* The load implements OrderedLoad.                                        *)

\* What a step of the operation does to what the loop sees of it.
LEMMA ProceedFlow ==
  ASSUME TypeOK, pc[Loader] # "idle" => result[Loader] = "none", Proceed(Loader)
  PROVE  /\ pc[Loader] # "idle"
         /\ UNCHANGED <<ops, indexed>>
         /\ mempool' = mempool \/ mempool' = Append(mempool, Tx(Loader))
         /\ pc'[Loader] # "idle" <=> result'[Loader] = "none"
         /\ result'[Loader] = "ok" => PollFound(Loader)
<1> USE DEF TypeOK, Goto, Return, callVars, chainVars
<1>1. CASE LockNext(Loader) \/ ReadNext(Loader) \/ IncNext(Loader)
  BY <1>1 DEF LockNext, ReadNext, IncNext
<1>2. CASE Sign(Loader)
  BY <1>2 DEF Sign, SignErr, SimulateMismatch, SimulateErr, SimulateOk
<1>3. CASE Reset(Loader)
  BY <1>3 DEF Reset, LockAuth, UnlockAuth, QueryAccount, QueryAccountErr, LockSet, SetSequence
<1>4. CASE Send(Loader)
  BY <1>4 DEF Send, Accepted, Rejected, Broadcasted, BroadcastErr, ReplyLost
<1>5. CASE PollMiss(Loader) \/ GiveUp(Loader)
  BY <1>5 DEF PollMiss, GiveUp
<1>6. CASE PollFound(Loader)
  BY <1>6 DEF PollFound
<1> QED
  BY <1>1, <1>2, <1>3, <1>4, <1>5, <1>6 DEF Proceed, Wait

\* A batch that follows what is there keeps it an interval, which grows by at
\* most MaxPerTx entries.
LEMMA Extend ==
  ASSUME NEW m \in 0..Entries, NEW s \in 0..(Entries - 1), 1..s \subseteq 1..m
  PROVE  \E k \in 0..Entries :
           /\ 1..m \cup {e \in 1..Entries : s < e /\ e <= s + MaxPerTx} = 1..k
           /\ m <= k /\ k <= m + MaxPerTx
<1>1. s <= m
  <2>1. CASE s = 0
    BY <2>1
  <2>2. CASE s # 0
    BY <2>2
  <2> QED
    BY <2>1, <2>2
<1>2. CASE s + MaxPerTx <= m
  <2>1. 1..m \cup {e \in 1..Entries : s < e /\ e <= s + MaxPerTx} = 1..m
    BY <1>2
  <2> QED
    BY <2>1
<1>3. CASE m < s + MaxPerTx /\ s + MaxPerTx <= Entries
  <2>1. 1..m \cup {e \in 1..Entries : s < e /\ e <= s + MaxPerTx} = 1..(s + MaxPerTx)
    BY <1>1, <1>3
  <2>2. s + MaxPerTx \in 0..Entries /\ m <= s + MaxPerTx /\ s + MaxPerTx <= m + MaxPerTx
    BY <1>1, <1>3
  <2> QED
    BY <2>1, <2>2
<1>4. CASE m < s + MaxPerTx /\ Entries < s + MaxPerTx
  <2>1. 1..m \cup {e \in 1..Entries : s < e /\ e <= s + MaxPerTx} = 1..Entries
    BY <1>1, <1>4
  <2>2. Entries \in 0..Entries /\ m <= Entries /\ Entries <= m + MaxPerTx
    BY <1>1, <1>4
  <2> QED
    BY <2>1, <2>2
<1> QED
  BY <1>2, <1>3, <1>4

\* The batches of the operations so far stay what they are.
LEMMA BatchesStay ==
  ASSUME LoaderTypeOK, NEW b \in SUBSET (1..Entries), batchOf' = Append(batchOf, b)
  PROVE  /\ batchOf' \in Seq(SUBSET (1..Entries)) /\ Len(batchOf') = Len(batchOf) + 1
         /\ \A o \in 1..Len(batchOf) : batchOf'[o] = batchOf[o]
         /\ batchOf'[Len(batchOf) + 1] = b
BY AppendProperties DEF LoaderTypeOK

LEMMA AppliedStays ==
  ASSUME LoadInv, succeeded' = succeeded,
         \A o \in 1..ops[Loader] : batchOf'[o] = batchOf[o]
  PROVE  /\ Applied' = Applied
         /\ \A batch : Follows(batch) => Follows(batch)'
<1>1. \A t \in succeeded : batchOf'[t.op] = batchOf[t.op]
  BY DEF LoadInv
<1>2. Applied' = Applied
  BY <1>1 DEF Applied
<1> QED
  BY <1>2 DEF Follows

LEMMA LoadInit == LoaderInit => LoadInv
<1> SUFFICES ASSUME LoaderInit PROVE LoadInv
  OBVIOUS
<1>1. TypeOK
  BY InitType DEF LoaderInit
<1>2. mempool = <<>> /\ pc[Loader] = "idle" /\ ops[Loader] = 0
  BY DEF LoaderInit, Init
<1>3. Applied = {} /\ index = 0 /\ status = "running" /\ succeeded = {}
  BY DEF LoaderInit, Applied
<1>4. Applied = 1..0 /\ 0 \in 0..Entries /\ 1..index \subseteq Applied
  BY <1>3
<1>5. LoaderTypeOK
  BY <1>1, <1>2, <1>3 DEF LoaderInit, LoaderTypeOK
<1>6. (\E m \in 0..Entries : Applied = 1..m) /\ index < Entries
  BY <1>3, <1>4
<1> QED
  BY <1>2, <1>3, <1>4, <1>5, <1>6 DEF LoadInv

LEMMA BeginBatchLoads ==
  ASSUME LoadInv, BeginBatch
  PROVE  LoadInv' /\ Applied' = Applied
<1>1. /\ status = "running" /\ index < Entries /\ 1..index \subseteq Applied
      /\ LoaderTypeOK /\ TypeOK
      /\ index \in Nat /\ Len(batchOf) = ops[Loader] /\ ops[Loader] \in Nat
  BY DEF LoadInv, BeginBatch, LoaderTypeOK, TypeOK
<1>2. /\ pc[Loader] = "idle" /\ pc'[Loader] = "lockNext" /\ result'[Loader] = "none"
      /\ ops'[Loader] = ops[Loader] + 1
      /\ UNCHANGED <<mempool, indexed, index, status, runs, succeeded>>
  BY <1>1 DEF BeginBatch, Start, Goto, chainVars, TypeOK
<1>3. TypeOK'
  BY <1>1, LoaderTypeStep DEF LoaderNext
<1>4. Batch \in SUBSET (1..Entries) /\ batchOf' = Append(batchOf, Batch) /\ Batch' = Batch
  BY <1>2 DEF Batch, BeginBatch
<1>5. /\ batchOf' \in Seq(SUBSET (1..Entries)) /\ Len(batchOf') = ops'[Loader]
      /\ \A o \in 1..ops[Loader] : batchOf'[o] = batchOf[o]
      /\ batchOf'[ops'[Loader]] = Batch
  BY <1>1, <1>2, <1>4, BatchesStay
<1>6. Applied' = Applied /\ \A batch : Follows(batch) => Follows(batch)'
  BY <1>2, <1>5, AppliedStays
<1>7. LoaderTypeOK'
  BY <1>1, <1>2, <1>3, <1>5 DEF LoaderTypeOK
<1>8. 1..ops[Loader] \subseteq 1..ops'[Loader]
  BY <1>1, <1>2
<1>9. \A t \in succeeded' : t.op \in 1..ops'[Loader]
  BY <1>2, <1>8 DEF LoadInv
<1>10. \A i \in 1..Len(mempool') :
         mempool'[i].op \in 1..ops'[Loader] /\ Follows(batchOf[mempool[i].op])'
  <2> SUFFICES ASSUME NEW i \in 1..Len(mempool)
               PROVE  mempool[i].op \in 1..ops'[Loader] /\ Follows(batchOf[mempool[i].op])'
    BY <1>2
  <2>1. mempool[i].op \in 1..ops[Loader] /\ Follows(batchOf[mempool[i].op])
    BY DEF LoadInv
  <2>2. batchOf'[mempool[i].op] = batchOf[mempool[i].op] /\ mempool' = mempool
    BY <1>2, <1>5, <2>1
  <2>3. Follows(batchOf[mempool[i].op])'
    BY <1>6, <2>1, <2>2 DEF Follows
  <2> QED
    BY <1>8, <2>1, <2>3
<1>11. ops'[Loader] # 0 /\ batchOf'[ops'[Loader]] = Batch'
  BY <1>1, <1>2, <1>4, <1>5
<1>12. \E m \in 0..Entries : Applied' = 1..m
  BY <1>6 DEF LoadInv
<1> QED
  BY <1>1, <1>2, <1>6, <1>7, <1>9, <1>10, <1>11, <1>12 DEF LoadInv

\* A step of an operation sends its own batch at most, and the loop goes on only
\* when that batch is on chain.
LEMMA LoadLoads ==
  ASSUME LoadInv, Load
  PROVE  LoadInv' /\ Applied' = Applied
<1>1. /\ LoaderTypeOK /\ TypeOK /\ status = "running" /\ Proceed(Loader)
      /\ index \in Nat /\ index < Entries /\ 1..index \subseteq Applied
      /\ batchOf \in Seq(SUBSET (1..Entries)) /\ Len(batchOf) = ops[Loader]
      /\ ops[Loader] \in Nat /\ mempool \in Seq(Txs)
  BY DEF LoadInv, Load, LoaderTypeOK, TypeOK
<1>2. /\ pc[Loader] # "idle"
      /\ UNCHANGED <<ops, indexed>>
      /\ mempool' = mempool \/ mempool' = Append(mempool, Tx(Loader))
      /\ pc'[Loader] # "idle" <=> result'[Loader] = "none"
      /\ result'[Loader] = "ok" => PollFound(Loader)
  BY <1>1, ProceedFlow DEF LoadInv
<1>3. UNCHANGED <<runs, batchOf, succeeded>>
  BY DEF Load
<1>4. TypeOK'
  BY <1>1, LoaderTypeStep DEF LoaderNext
<1>5. Applied' = Applied /\ \A batch : Follows(batch) => Follows(batch)'
  BY <1>3, AppliedStays
<1>6. ops[Loader] \in 1..ops[Loader] /\ batchOf[ops[Loader]] = Batch
  BY <1>1, <1>2 DEF LoadInv
<1>7. Follows(batchOf[ops[Loader]])
  <2>1. index \in 0..(Entries - 1)
    BY <1>1
  <2> QED
    BY <1>1, <1>6, <2>1 DEF Follows, Batch
<1>8. (\A i \in 1..Len(mempool) :
         mempool[i].op \in 1..ops[Loader] /\ Follows(batchOf[mempool[i].op]))'
  <2>1. ASSUME NEW t \in Txs, t.op \in 1..ops[Loader], Follows(batchOf[t.op])
        PROVE  t.op \in 1..ops'[Loader] /\ \E s \in 0..(Entries - 1) :
                 /\ 1..s \subseteq Applied'
                 /\ batchOf'[t.op] = {e \in 1..Entries : s < e /\ e <= s + MaxPerTx}
    BY <1>2, <1>3, <1>5, <2>1 DEF Follows
  <2>2. \A i \in 1..Len(mempool) : mempool[i] \in Txs
    BY <1>1, ElementOfSeq
  <2>3. \A i \in 1..Len(mempool') : mempool'[i] \in Txs
                                     /\ mempool'[i].op \in 1..ops[Loader]
                                     /\ Follows(batchOf[mempool'[i].op])
    <3>1. Tx(Loader) \in Txs /\ Tx(Loader).op = ops[Loader]
      BY <1>1, TxType DEF Tx
    <3>2. CASE mempool' = mempool
      BY <2>2, <3>2 DEF LoadInv
    <3>3. CASE mempool' = Append(mempool, Tx(Loader))
      <4>1. /\ Len(mempool') = Len(mempool) + 1 /\ Len(mempool) \in Nat
            /\ \A i \in 1..Len(mempool) : mempool'[i] = mempool[i]
            /\ mempool'[Len(mempool) + 1] = Tx(Loader)
        BY <1>1, <3>1, <3>3, AppendProperties, LenProperties
      <4> SUFFICES ASSUME NEW i \in 1..(Len(mempool) + 1)
                   PROVE  /\ mempool'[i] \in Txs
                          /\ mempool'[i].op \in 1..ops[Loader]
                          /\ Follows(batchOf[mempool'[i].op])
        BY <4>1
      <4>2. CASE i \in 1..Len(mempool)
        BY <2>2, <4>1, <4>2 DEF LoadInv
      <4>3. CASE i = Len(mempool) + 1
        BY <1>6, <1>7, <3>1, <4>1, <4>3
      <4> QED
        BY <4>1, <4>2, <4>3
    <3> QED
      BY <1>2, <3>2, <3>3
  <2> QED
    BY <2>1, <2>3 DEF Follows
<1>9. \A t \in succeeded' : t.op \in 1..ops'[Loader]
  BY <1>2, <1>3 DEF LoadInv
<1>10. (\E m \in 0..Entries : Applied' = 1..m)
  BY <1>5 DEF LoadInv
<1>11. CASE NextBatch
  <2>1. result'[Loader] = "ok" /\ pc'[Loader] = "idle" /\ index' = index + MaxPerTx
        /\ status' = IF index' < Entries THEN "running" ELSE "loaded"
    BY <1>2, <1>11 DEF NextBatch
  <2>2. Tx(Loader) \in succeeded
    BY <1>2, <2>1 DEF Load, CodeChecked
  <2>3. Batch \subseteq Applied
    <3>1. Tx(Loader).op = ops[Loader]
      BY DEF Tx
    <3> QED
      BY <1>6, <2>2, <3>1 DEF Applied
  <2>4. \A e \in 1..Entries : e <= index' => e \in Applied
    BY <1>1, <2>1, <2>3 DEF Batch
  <2>5. status' = "running" => index' < Entries /\ 1..index' \subseteq Applied'
    <3>1. SUFFICES ASSUME status' = "running" PROVE index' < Entries /\ 1..index' \subseteq Applied'
      OBVIOUS
    <3>2. index' < Entries
      BY <2>1, <3>1
    <3> QED
      BY <1>1, <1>5, <2>1, <2>4, <3>2
  <2>6. status' = "loaded" => Applied' = 1..Entries
    <3>1. SUFFICES ASSUME status' = "loaded" PROVE Applied' = 1..Entries
      OBVIOUS
    <3>2. Entries <= index'
      BY <1>1, <2>1, <3>1
    <3>3. 1..Entries \subseteq Applied
      BY <1>1, <2>1, <2>4, <3>2
    <3>4. Applied \subseteq 1..Entries
      BY DEF LoadInv
    <3> QED
      BY <1>5, <3>3, <3>4
  <2>7. LoaderTypeOK'
    BY <1>1, <1>2, <1>3, <1>4, <2>1 DEF LoaderTypeOK
  <2> QED
    BY <1>5, <1>8, <1>9, <1>10, <2>1, <2>5, <2>6, <2>7 DEF LoadInv
<1>12. CASE Stop
  <2>1. result'[Loader] = "err" /\ pc'[Loader] = "idle" /\ status' = "failed" /\ index' = index
    BY <1>2, <1>12 DEF Stop
  <2>2. LoaderTypeOK'
    BY <1>1, <1>2, <1>3, <1>4, <2>1 DEF LoaderTypeOK
  <2> QED
    BY <1>5, <1>8, <1>9, <1>10, <2>1, <2>2 DEF LoadInv
<1>13. CASE Within
  <2>1. result'[Loader] = "none" /\ status' = status /\ index' = index
    BY <1>13 DEF Within
  <2>2. LoaderTypeOK'
    BY <1>1, <1>2, <1>3, <1>4, <2>1 DEF LoaderTypeOK
  <2>3. Batch' = Batch /\ ops'[Loader] # 0 /\ batchOf'[ops'[Loader]] = Batch
    BY <1>1, <1>2, <1>3, <1>6, <2>1 DEF Batch
  <2> QED
    BY <1>1, <1>5, <1>8, <1>9, <1>10, <2>1, <2>2, <2>3 DEF LoadInv
<1> QED
  BY <1>5, <1>11, <1>12, <1>13 DEF Load

LEMMA RerunLoads ==
  ASSUME LoadInv, Rerun
  PROVE  LoadInv' /\ Applied' = Applied
<1>1. LoaderTypeOK /\ TypeOK /\ TypeOK'
  BY LoaderTypeStep DEF LoadInv, LoaderTypeOK, LoaderNext
<1>2. /\ index' = 0 /\ status' = "running" /\ runs' = runs + 1
      /\ pc'[Loader] = "idle"
      /\ UNCHANGED <<ops, mempool, indexed, batchOf, succeeded>>
  BY <1>1 DEF Rerun, chainVars, TypeOK
<1>3. Applied' = Applied /\ \A batch : Follows(batch) => Follows(batch)'
  BY <1>2, AppliedStays
<1>4. LoaderTypeOK'
  BY <1>1, <1>2 DEF LoaderTypeOK
<1>5. \A i \in 1..Len(mempool') :
        mempool'[i].op \in 1..ops'[Loader] /\ Follows(batchOf[mempool[i].op])'
  BY <1>2, <1>3 DEF LoadInv, Follows
<1>6. 1..index' \subseteq Applied'
  BY <1>2
<1> QED
  BY <1>2, <1>3, <1>4, <1>5, <1>6 DEF LoadInv

\* The only pending transaction is executed, or fails.
LEMMA IncludedLoads ==
  ASSUME LoadInv, OneInFlight, Included
  PROVE  /\ LoadInv'
         /\ status' = status
         /\ Applied' = Applied \/ Abstract!Apply
<1>1. LoaderTypeOK /\ TypeOK /\ TypeOK'
  BY LoaderTypeStep DEF LoadInv, LoaderTypeOK, LoaderNext
<1>2. PICK n \in 1..Len(mempool) :
        /\ mempool' = SubSeq(mempool, n + 1, Len(mempool))
        /\ indexed' = indexed \cup {mempool[i] : i \in 1..n}
        /\ UNCHANGED <<clientVars, pc, callVars, misses>>
  BY DEF Included, Block
<1>3. Len(mempool) = 1 /\ n = 1
  BY <1>1, OnePending
<1>4. mempool' = <<>> /\ indexed' = indexed \cup {mempool[1]}
  BY <1>2, <1>3
<1>5. /\ UNCHANGED <<ops, pc, result, index, status, runs, batchOf>>
      /\ \E good \in SUBSET {mempool[1]} : succeeded' = succeeded \cup good
  BY <1>2, <1>4 DEF Included, callVars, loadVars
<1>6. mempool[1].op \in 1..ops[Loader] /\ Follows(batchOf[mempool[1].op])
  BY <1>3 DEF LoadInv
<1>7. Applied' = Applied \/ Applied' = Applied \cup batchOf[mempool[1].op]
  <2>1. succeeded' = succeeded \/ succeeded' = succeeded \cup {mempool[1]}
    BY <1>5
  <2> QED
    BY <1>5, <2>1 DEF Applied
<1>8. PICK m \in 0..Entries : Applied = 1..m
  BY DEF LoadInv
<1>9. PICK s \in 0..(Entries - 1) :
        /\ 1..s \subseteq Applied
        /\ batchOf[mempool[1].op] = {e \in 1..Entries : s < e /\ e <= s + MaxPerTx}
  BY <1>6 DEF Follows
<1>10. PICK k \in 0..Entries :
         Applied' = 1..k /\ m <= k /\ k <= m + MaxPerTx
  <2>1. CASE Applied' = Applied
    BY <1>8, <2>1
  <2>2. CASE Applied' = Applied \cup batchOf[mempool[1].op]
    BY <1>8, <1>9, <2>2, Extend
  <2> QED
    BY <1>7, <2>1, <2>2
<1>11. Applied \subseteq Applied'
  BY <1>7
<1>12. Batch' = Batch
  BY <1>5 DEF Batch
<1>13. LoaderTypeOK'
  BY <1>1, <1>4, <1>5 DEF LoaderTypeOK
<1>14. status = "loaded" => Applied' = 1..Entries
  BY <1>8, <1>10 DEF LoadInv
<1>15. \A t \in succeeded' : t.op \in 1..ops'[Loader]
  BY <1>5, <1>6 DEF LoadInv
<1>16. LoadInv'
  <2>1. Len(mempool') = 0
    BY <1>4
  <2>2. (\A i \in 1..Len(mempool) :
           mempool[i].op \in 1..ops[Loader] /\ Follows(batchOf[mempool[i].op]))'
    BY <2>1
  <2>3. /\ \E l \in 0..Entries : Applied' = 1..l
        /\ pc'[Loader] # "idle" => result'[Loader] = "none"
        /\ status' = "loaded" => Applied' = 1..Entries
    BY <1>5, <1>10, <1>14 DEF LoadInv
  <2>4. status' = "running" => index' < Entries /\ 1..index' \subseteq Applied'
    BY <1>5, <1>11 DEF LoadInv
  <2>5. status' = "running" /\ pc'[Loader] # "idle" =>
          ops'[Loader] # 0 /\ batchOf'[ops'[Loader]] = Batch'
    BY <1>5, <1>12 DEF LoadInv
  <2> QED
    BY <1>13, <1>15, <2>2, <2>3, <2>4, <2>5 DEF LoadInv
<1>17. Applied' = Applied \/ Abstract!Apply
  <2>1. CASE k = m
    BY <1>8, <1>10, <2>1
  <2>2. CASE k # m
    <3>1. UNCHANGED (status = "loaded")
      BY <1>5
    <3>2. m < k
      BY <1>10, <2>2
    <3> QED
      BY <1>8, <1>10, <3>1, <3>2 DEF Abstract!Apply
  <2> QED
    BY <2>1, <2>2
<1> QED
  BY <1>5, <1>16, <1>17

LEMMA DroppedLoads ==
  ASSUME LoadInv, OneInFlight, Dropped
  PROVE  LoadInv' /\ Applied' = Applied /\ status' = status
<1>1. LoaderTypeOK /\ TypeOK /\ TypeOK'
  BY LoaderTypeStep DEF LoadInv, LoaderTypeOK, LoaderNext
<1>2. PICK n \in 1..Len(mempool) :
        /\ mempool' = SubSeq(mempool, 1, n - 1)
        /\ UNCHANGED <<clientVars, pc, callVars, committed, indexed, misses>>
  BY DEF Dropped, Evict
<1>3. Len(mempool) = 1 /\ n = 1
  BY <1>1, OnePending
<1>4. mempool' = <<>>
  BY <1>2, <1>3
<1>5. UNCHANGED <<ops, pc, result, indexed, index, status, runs, batchOf, succeeded>>
  BY <1>2 DEF Dropped, callVars, loadVars
<1>6. Applied' = Applied /\ Batch' = Batch
  BY <1>5 DEF Applied, Batch
<1>7. LoaderTypeOK'
  BY <1>1, <1>5 DEF LoadInv, LoaderTypeOK
<1>8. Len(mempool') = 0
  BY <1>4
<1> QED
  <2>1. (\A i \in 1..Len(mempool) :
           mempool[i].op \in 1..ops[Loader] /\ Follows(batchOf[mempool[i].op]))'
    BY <1>8
  <2>2. \A t \in succeeded' : t.op \in 1..ops'[Loader]
    BY <1>5 DEF LoadInv
  <2>3. /\ \E m \in 0..Entries : Applied' = 1..m
        /\ status' = "running" => index' < Entries /\ 1..index' \subseteq Applied'
        /\ status' = "loaded" => Applied' = 1..Entries
        /\ pc'[Loader] # "idle" => result'[Loader] = "none"
        /\ status' = "running" /\ pc'[Loader] # "idle" =>
             ops'[Loader] # 0 /\ batchOf'[ops'[Loader]] = Batch'
    BY <1>5, <1>6 DEF LoadInv
  <2> QED
    BY <1>5, <1>6, <1>7, <2>1, <2>2, <2>3 DEF LoadInv

LEMMA LoadStep ==
  ASSUME LoadInv, OneInFlight, [LoaderNext]_loaderVars
  PROVE  LoadInv' /\ [Abstract!Next]_<<Applied, status = "loaded">>
<1>1. CASE BeginBatch
  <2>1. status' = status
    BY <1>1 DEF BeginBatch
  <2> QED
    BY <1>1, <2>1, BeginBatchLoads
<1>2. CASE Load
  <2>1. LoadInv' /\ Applied' = Applied /\ status = "running"
    BY <1>2, LoadLoads DEF Load
  <2>2. CASE status' = "loaded"
    <3>1. Applied = 1..Entries
      BY <2>1, <2>2 DEF LoadInv
    <3> QED
      BY <2>1, <2>2, <3>1 DEF Abstract!Next, Abstract!Report
  <2>3. CASE status' # "loaded"
    BY <2>1, <2>3
  <2> QED
    BY <2>2, <2>3
<1>3. CASE Rerun
  <2>1. status # "loaded" /\ status' = "running"
    BY <1>3 DEF Rerun
  <2> QED
    BY <1>3, <2>1, RerunLoads
<1>4. CASE Included
  BY <1>4, IncludedLoads DEF Abstract!Next
<1>5. CASE Dropped
  BY <1>5, DroppedLoads
<1>6. CASE Finished \/ UNCHANGED loaderVars
  <2>1. UNCHANGED loaderVars
    BY <1>6 DEF Finished
  <2>2. /\ UNCHANGED <<pc, ops, result, mempool, indexed>>
        /\ UNCHANGED <<index, status, runs, batchOf, succeeded>>
    BY <2>1 DEF loaderVars, vars, loadVars, callVars, chainVars
  <2>3. Applied' = Applied /\ Batch' = Batch
    BY <2>2 DEF Applied, Batch
  <2>4. LoaderTypeOK'
    BY <2>2, LoaderTypeStep DEF LoadInv, LoaderTypeOK
  <2>5. \A i \in 1..Len(mempool') :
          mempool'[i].op \in 1..ops'[Loader] /\ Follows(batchOf[mempool[i].op])'
    BY <2>2, <2>3 DEF LoadInv, Follows
  <2> QED
    BY <2>2, <2>3, <2>4, <2>5 DEF LoadInv
<1> QED
  BY <1>1, <1>2, <1>3, <1>4, <1>5, <1>6 DEF LoaderNext

\* The inductive invariant of the order of the load.
THEOREM LoadInductive == LoaderSpec => []LoadInv
BY LoadInit, LoadStep, OneTransactionInFlight, PTL DEF LoaderSpec

\* Entries arrive from the first to the last, no batch before its predecessors,
\* and the load is reported as done only when all of them are on chain, whatever
\* fails, gets lost, times out, is killed or is repeated (loadCmd).
THEOREM LoaderImplementsOrderedLoad == LoaderSpec => ImplementsOrderedLoad
<1>1. LoaderInit => Abstract!Init
  BY DEF LoaderInit, Abstract!Init, Applied
<1> QED
  BY <1>1, LoadStep, LoadInductive, OneTransactionInFlight, PTL
  DEF LoaderSpec, ImplementsOrderedLoad, Abstract!Spec

--------------------------------------------------------------------------------
(* How often an entry is sent.                                              *)

\* What the loop sends is in the history of batches, which is finite.
LEMMA SentFinite ==
  ASSUME LoaderTypeOK, NEW e
  PROVE  IsFiniteSet(Sent(e)) /\ Cardinality(Sent(e)) \in Nat
<1>1. Len(batchOf) \in Nat
  BY LenProperties DEF LoaderTypeOK
<1>2. IsFiniteSet(1..Len(batchOf))
  BY <1>1, FS_Interval
<1>3. Sent(e) \subseteq 1..Len(batchOf)
  BY DEF Sent
<1> QED
  BY <1>2, <1>3, FS_Subset, FS_CardinalityType

LEMMA SentInit == LoaderInit => SentInv
<1> SUFFICES ASSUME LoaderInit PROVE SentInv
  OBVIOUS
<1>1. runs = 1 /\ batchOf = <<>>
  BY DEF LoaderInit
<1>2. \A e : Sent(e) = {}
  BY <1>1, EmptySeq DEF Sent
<1>3. \A e : Cardinality(Sent(e)) = 0
  BY <1>2, FS_EmptySet
<1> QED
  BY <1>1, <1>3 DEF SentInv

LEMMA BeginBatchSends ==
  ASSUME LoadInv, SentInv, BeginBatch
  PROVE  SentInv'
<1>1. /\ LoaderTypeOK /\ status = "running" /\ index \in Nat
      /\ pc[Loader] = "idle" /\ pc'[Loader] = "lockNext"
      /\ UNCHANGED <<index, status, runs>>
  BY DEF LoadInv, LoaderTypeOK, TypeOK, BeginBatch, Start, Goto
<1>2. SentUpTo = index /\ SentUpTo' = index + MaxPerTx
  BY <1>1 DEF SentUpTo
<1>3. Batch \in SUBSET (1..Entries) /\ batchOf' = Append(batchOf, Batch)
  BY DEF Batch, BeginBatch
<1>4. /\ Len(batchOf) \in Nat /\ Len(batchOf') = Len(batchOf) + 1
      /\ \A o \in 1..Len(batchOf) : batchOf'[o] = batchOf[o]
      /\ batchOf'[Len(batchOf) + 1] = Batch
  BY <1>1, <1>3, BatchesStay, LenProperties DEF LoaderTypeOK
<1>5. ASSUME NEW e \in 1..Entries
      PROVE  /\ Cardinality(Sent(e)') <= runs
             /\ e > SentUpTo' => Cardinality(Sent(e)') < runs
  <2>1. IsFiniteSet(Sent(e)) /\ Cardinality(Sent(e)) \in Nat /\ runs \in Nat
    BY <1>1, SentFinite DEF SentInv
  <2>2. CASE e \in Batch
    <3>1. e > SentUpTo /\ ~(e > SentUpTo')
      BY <1>1, <1>2, <2>2 DEF Batch
    <3>2. Cardinality(Sent(e)) < runs
      BY <1>1, <3>1 DEF SentInv
    <3>3. Sent(e)' = Sent(e) \cup {Len(batchOf) + 1}
      BY <1>4, <2>2 DEF Sent
    <3>4. \/ Cardinality(Sent(e)') = Cardinality(Sent(e))
          \/ Cardinality(Sent(e)') = Cardinality(Sent(e)) + 1
      <4>1. \/ Cardinality(Sent(e) \cup {Len(batchOf) + 1}) = Cardinality(Sent(e))
            \/ Cardinality(Sent(e) \cup {Len(batchOf) + 1}) = Cardinality(Sent(e)) + 1
        BY <2>1, FS_AddElement, Zenon
      <4> QED
        BY <3>3, <4>1, Zenon
    <3> QED
      BY <2>1, <3>1, <3>2, <3>4
  <2>3. CASE e \notin Batch
    <3>1. Sent(e)' = Sent(e)
      BY <1>4, <2>3 DEF Sent
    <3>2. e > SentUpTo' => e > SentUpTo
      BY <1>1, <1>2
    <3> QED
      BY <1>1, <3>1, <3>2 DEF SentInv
  <2> QED
    BY <2>2, <2>3
<1> QED
  BY <1>1, <1>5 DEF SentInv, Sent

LEMMA LoadSends ==
  ASSUME LoadInv, SentInv, Load
  PROVE  SentInv'
<1>1. /\ LoaderTypeOK /\ TypeOK /\ index \in Nat /\ status = "running"
      /\ Proceed(Loader)
  BY DEF LoadInv, LoaderTypeOK, Load
<1>2. pc[Loader] # "idle" /\ (pc'[Loader] # "idle" <=> result'[Loader] = "none")
  BY <1>1, ProceedFlow DEF LoadInv
<1>3. UNCHANGED <<runs, batchOf>>
  BY DEF Load
<1>4. \A e : Sent(e)' = Sent(e)
  BY <1>3 DEF Sent
<1>5. status' = "running" => SentUpTo' = SentUpTo
  <2>1. CASE NextBatch
    BY <1>2, <2>1 DEF NextBatch, SentUpTo
  <2>2. CASE Stop
    BY <2>2 DEF Stop
  <2>3. CASE Within
    BY <1>2, <2>3 DEF Within, SentUpTo
  <2> QED
    BY <2>1, <2>2, <2>3 DEF Load
<1>6. ASSUME NEW e \in 1..Entries
      PROVE  /\ Cardinality(Sent(e)') <= runs
             /\ status' = "running" /\ e > SentUpTo' => Cardinality(Sent(e)') < runs
  BY <1>1, <1>4, <1>5 DEF SentInv
<1> QED
  BY <1>3, <1>6 DEF SentInv, Sent

LEMMA RerunSends ==
  ASSUME LoadInv, SentInv, Rerun
  PROVE  SentInv'
<1>1. runs \in Nat \ {0} /\ runs' = runs + 1 /\ batchOf' = batchOf
  BY DEF SentInv, Rerun
<1>2. \A e : Sent(e)' = Sent(e)
  BY <1>1 DEF Sent
<1>3. ASSUME NEW e \in 1..Entries
      PROVE  Cardinality(Sent(e)') < runs'
  <2>1. Cardinality(Sent(e)) \in Nat
    BY SentFinite DEF LoadInv
  <2> QED
    BY <1>1, <1>2, <2>1 DEF SentInv
<1>4. ASSUME NEW e \in 1..Entries
      PROVE  Cardinality(Sent(e)') <= runs' /\ Cardinality(Sent(e)') < runs'
  <2>1. Cardinality(Sent(e)') \in Nat
    BY <1>2, SentFinite DEF LoadInv
  <2> QED
    BY <1>1, <1>3, <2>1
<1> QED
  BY <1>1, <1>4 DEF SentInv, Sent

LEMMA SentStep ==
  ASSUME LoadInv, SentInv, [LoaderNext]_loaderVars
  PROVE  SentInv'
<1>1. CASE Included \/ Dropped \/ Finished \/ UNCHANGED loaderVars
  <2>1. UNCHANGED <<pc, index, status, runs, batchOf>>
    BY <1>1 DEF Included, Dropped, Finished, Block, Evict, loadVars, loaderVars, vars
  <2>2. SentUpTo' = SentUpTo
    BY <2>1 DEF SentUpTo
  <2> QED
    BY <2>1, <2>2 DEF SentInv, Sent
<1> QED
  BY <1>1, BeginBatchSends, LoadSends, RerunSends DEF LoaderNext

\* An entry is applied at most once per run, for any number of entries, batch size
\* and runs, whatever times out, gets lost or is executed late (loadCmd).
THEOREM OncePerRun == LoaderSpec => []AppliedOncePerRun
<1>1. LoadInv /\ SentInv => AppliedOncePerRun
  <2> SUFFICES ASSUME LoadInv, SentInv, NEW e \in 1..Entries
               PROVE  Cardinality(Applications(e)) <= runs
    BY DEF AppliedOncePerRun
  <2>1. IsFiniteSet(Sent(e)) /\ Cardinality(Sent(e)) \in Nat
    BY SentFinite DEF LoadInv
  <2>2. Applications(e) \subseteq Sent(e)
    BY DEF Applications
  <2>3. /\ Cardinality(Applications(e)) \in Nat
        /\ Cardinality(Applications(e)) <= Cardinality(Sent(e))
    BY <2>1, <2>2, FS_Subset, FS_CardinalityType
  <2>4. Cardinality(Sent(e)) <= runs /\ runs \in Nat
    BY DEF SentInv
  <2> QED
    BY <2>1, <2>3, <2>4
<1> QED
  BY <1>1, SentInit, SentStep, LoadInductive, PTL DEF LoaderSpec
================================================================================
