---------------------------- MODULE RegistryLoader ----------------------------
(***************************************************************************)
(* The load command of the registry loader: it cuts the entries of a file   *)
(* into batches, sends each with RegistryBulkUpdate, waits for it with      *)
(* WaitOnTx, and stops the process at the first error or non-zero code.  A  *)
(* run that stopped, or was killed, can be repeated on the same file, when  *)
(* a transaction of the earlier run may still be pending.                   *)
(*                                                                          *)
(* The transactions themselves are those of TxSequence, with the loader as  *)
(* the only caller; this module adds the loop around them.                  *)
(***************************************************************************)
EXTENDS TxSequence

CONSTANTS
  Loader,      \* the caller
  Entries,     \* entries in the file
  MaxPerTx,    \* entries per transaction (15)
  MaxRuns      \* bound: runs of the command

ASSUME LoaderAssumption ==
  /\ Callers = {Loader} /\ Waiting = {Loader}
  /\ Prior = 0
  /\ Entries \in Nat \ {0} /\ MaxPerTx \in Nat \ {0} /\ MaxRuns \in Nat

VARIABLES
  index,       \* i of the batch loop: entries behind it
  status,      \* the current run: "running", "failed" or "loaded"
  runs,        \* runs started
  batchOf,     \* history: the entries of the transaction of each operation
  succeeded    \* chain: the indexed transactions with code 0

loadVars == <<index, status, runs, batchOf>>
loaderVars == <<vars, loadVars, succeeded>>

LoaderInit ==
  /\ Init
  /\ index = 0 /\ status = "running" /\ runs = 1
  /\ batchOf = <<>>
  /\ succeeded = {}

\* entries[i:end]
Batch == {e \in 1..Entries : index < e /\ e <= index + MaxPerTx}

BeginBatch ==
  /\ status = "running"
  /\ index < Entries
  /\ Start(Loader)
  /\ batchOf' = Append(batchOf, Batch)
  /\ UNCHANGED <<index, status, runs, succeeded>>

\* Mutant of CodeChecked: the code of an included transaction is not looked at.
CodeNotChecked ==
  PollFound(Loader) => result'[Loader] = "ok"

\* WaitOnTx gives back what it found; only a zero code counts as success.
CodeChecked ==
  PollFound(Loader) => (result'[Loader] = "ok" <=> Tx(Loader) \in succeeded)

NextBatch ==
  /\ result'[Loader] = "ok"
  /\ index' = index + MaxPerTx
  /\ status' = IF index' < Entries THEN "running" ELSE "loaded"

\* Mutant of Stop: a failed batch is sent again by the same run.
StopRetries ==
  /\ result'[Loader] = "err"
  /\ UNCHANGED <<index, status>>

\* log.Fatalf
Stop ==
  /\ result'[Loader] = "err"
  /\ status' = "failed"
  /\ UNCHANGED index

Within == result'[Loader] = "none" /\ UNCHANGED <<index, status>>

Load ==
  /\ status = "running"
  /\ Proceed(Loader)
  /\ CodeChecked
  /\ NextBatch \/ Stop \/ Within
  /\ UNCHANGED <<runs, batchOf, succeeded>>

--------------------------------------------------------------------------------
\* Mutant of Rerun: the new process counts the pending transactions.
RerunCountsPending ==
  /\ status # "loaded" /\ runs < MaxRuns
  /\ index' = 0 /\ status' = "running" /\ runs' = runs + 1
  /\ mu' = "free" /\ Sequence' = NextSeq /\ current' = {}
  /\ pc' = [pc EXCEPT ![Loader] = "idle"]
  /\ result' = [result EXCEPT ![Loader] = "none"]
  /\ misses' = 0
  /\ UNCHANGED <<ops, seq, answer, polls, chainVars, batchOf, succeeded>>

\* The command is started again, after it stopped or was killed at any point:
\* a new client that reads the committed sequence, and the first batch.
Rerun ==
  /\ status # "loaded" /\ runs < MaxRuns
  /\ index' = 0 /\ status' = "running" /\ runs' = runs + 1
  /\ mu' = "free" /\ Sequence' = committed /\ current' = {}
  /\ pc' = [pc EXCEPT ![Loader] = "idle"]
  /\ result' = [result EXCEPT ![Loader] = "none"]
  /\ misses' = 0
  /\ UNCHANGED <<ops, seq, answer, polls, chainVars, batchOf, succeeded>>

\* Execution of an included transaction may fail.
Included ==
  /\ Block
  /\ \E good \in SUBSET (indexed' \ indexed) : succeeded' = succeeded \cup good
  /\ UNCHANGED loadVars

Dropped == Evict /\ UNCHANGED <<loadVars, succeeded>>

Finished ==
  /\ status # "running" /\ mempool = <<>>
  /\ status = "loaded" \/ runs = MaxRuns
  /\ UNCHANGED loaderVars

LoaderNext == BeginBatch \/ Load \/ Rerun \/ Included \/ Dropped \/ Finished

\* The process runs, every RPC returns, and blocks are made.
LoaderFairness ==
  /\ WF_loaderVars(BeginBatch)
  /\ WF_loaderVars(Load)
  /\ WF_loaderVars(Included)

LoaderSpec == LoaderInit /\ [][LoaderNext]_loaderVars /\ LoaderFairness

--------------------------------------------------------------------------------
\* The type invariant of the loop; a batch holds entries of the file only.
LoaderTypeOK ==
  /\ TypeOK
  /\ index \in Nat
  /\ status \in {"running", "failed", "loaded"}
  /\ runs \in Nat
  /\ batchOf \in Seq(SUBSET (1..Entries)) /\ Len(batchOf) = ops[Loader]
  /\ succeeded \in SUBSET indexed

\* However many runs were stopped and repeated, at most one transaction of the
\* loader is pending: a new run cannot add one while that of an earlier run is
\* in the mempool (the reset of NewProvenanceClient reads the committed sequence
\* and SignTx simulates before anything is sent).
OneInFlight == Len(mempool) <= 1

Numbered == {"sign", "broadcast", "wait"}
Fresh == {"lockNext", "read", "inc", "sign", "broadcast"}

\* The inductive invariant behind it: a run never holds a number beyond the
\* committed sequence when it simulates, so a simulation succeeds only when
\* nothing is pending, and it goes on only past a number that is committed.
FlightInv ==
  /\ OneInFlight
  /\ \A t \in indexed : t.op <= ops[Loader]
  /\ \A i \in 1..Len(mempool) : mempool[i].op <= ops[Loader]
  /\ pc[Loader] \in Fresh =>
       /\ \A t \in indexed : t.op < ops[Loader]
       /\ \A i \in 1..Len(mempool) : mempool[i].op < ops[Loader]
  /\ pc[Loader] \in {"idle", "lockNext", "read", "inc"} /\ status = "running" =>
       Sequence <= committed
  /\ pc[Loader] = "inc" => seq[Loader] = Sequence
  /\ pc[Loader] \in Numbered =>
       seq[Loader] <= committed /\ Sequence = seq[Loader] + 1
  /\ pc[Loader] = "broadcast" => mempool = <<>>
  /\ pc[Loader] = "wait" /\ Tx(Loader) \in indexed => seq[Loader] < committed

Applied == UNION {batchOf[t.op] : t \in succeeded}

\* A batch that begins where the entries on chain end, or before.
Follows(batch) ==
  \E s \in 0..(Entries - 1) :
    /\ 1..s \subseteq Applied
    /\ batch = {e \in 1..Entries : s < e /\ e <= s + MaxPerTx}

\* The inductive invariant behind the order of the load: what the loop has behind
\* it is on chain, and what is pending leaves no gap to it.
LoadInv ==
  /\ LoaderTypeOK
  /\ \E m \in 0..Entries : Applied = 1..m
  /\ \A t \in succeeded : t.op \in 1..ops[Loader]
  /\ \A i \in 1..Len(mempool) :
       mempool[i].op \in 1..ops[Loader] /\ Follows(batchOf[mempool[i].op])
  /\ pc[Loader] # "idle" => result[Loader] = "none"
  /\ status = "running" => index < Entries /\ 1..index \subseteq Applied
  /\ status = "running" /\ pc[Loader] # "idle" =>
       ops[Loader] # 0 /\ batchOf[ops[Loader]] = Batch
  /\ status = "loaded" => Applied = 1..Entries

Abstract == INSTANCE OrderedLoad WITH applied <- Applied, loaded <- status = "loaded"

\* The loader implements OrderedLoad over failures, lost replies, timeouts,
\* kills and repeated runs: no gap ever opens in what is on chain, and it
\* reports the load as done only when every entry is there (loadCmd).
ImplementsOrderedLoad == Abstract!Spec

\* The operations that carry an entry, and those of them that were executed with
\* success.
Sent(e) == {o \in 1..Len(batchOf) : e \in batchOf[o]}
Applications(e) == {o \in Sent(e) : [by |-> Loader, op |-> o] \in succeeded}

\* An entry is applied at most once per run, although a batch whose wait timed out
\* or whose reply was lost may still be executed, even during a later run: a run
\* never sends an entry twice, but each repeated run sends all from the first
\* again (loadCmd).
AppliedOncePerRun == \A e \in 1..Entries : Cardinality(Applications(e)) <= runs

\* Entries up to here were sent by the current run.
SentUpTo == IF pc[Loader] = "idle" THEN index ELSE index + MaxPerTx

\* The inductive invariant behind it: what the current run has yet to send was sent
\* at most once by each run before it.
SentInv ==
  /\ runs \in Nat \ {0}
  /\ \A e \in 1..Entries :
       /\ Cardinality(Sent(e)) <= runs
       /\ status = "running" /\ e > SentUpTo => Cardinality(Sent(e)) < runs

\* Every run ends: it loads everything or stops with an error.
RunEnds == status = "running" ~> status # "running"
================================================================================
