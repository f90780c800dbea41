----------------------------- MODULE AccountValue -----------------------------
(***************************************************************************)
(* GetAccountValue: the main loop reads the balances stream and hands every *)
(* NFT balance to a worker of the shared pool; the workers query the net    *)
(* asset value and send it on the results channel; one more goroutine sums  *)
(* the results until that channel is closed.  A WaitGroup counts the work   *)
(* handed out.                                                              *)
(*                                                                          *)
(* The pool is external: Submit blocks while all workers are busy, and a    *)
(* task that panics is recovered by the worker, after its deferred calls.   *)
(***************************************************************************)
EXTENDS PagedStream

CONSTANTS
  NftKeys,     \* balances whose denom is "nft/<scope>"
  PoolSize     \* workers of c.Pool

ASSUME ValueAssumption ==
  /\ NftKeys \subseteq Keys
  /\ PoolSize \in Nat \ {0}

VARIABLES
  mpc,           \* where the main loop stands
  pending,       \* the balance the main loop is submitting
  returns,       \* how the call returned: "none" before, "value" for a total,
                 \* "nil" for a nil total with a nil error, else the error
  worker,        \* per NFT: what its task does
  wg,            \* the WaitGroup's counter
  resultsChan, resultsClosed,
  tpc,           \* where the summing goroutine stands
  total          \* the NFTs summed so far; sent on totalChan at the end

mainVars   == <<mpc, pending, returns>>
totalVars  == <<tpc, total>>
resultVars == <<resultsChan, resultsClosed>>
callVars == <<streamVars, mainVars, worker, wg, resultVars, totalVars>>

ValueInit ==
  /\ StreamInit
  /\ mpc = "loop" /\ pending = 0 /\ returns = "none"
  /\ worker = [k \in NftKeys |-> "none"]
  /\ wg = 0
  /\ resultsChan = <<>> /\ resultsClosed = FALSE
  /\ tpc = "sum" /\ total = {}

--------------------------------------------------------------------------------
(* The main loop: a select over the context and the two stream channels.   *)

\* Leave the loop with r as the outcome; wg.Wait comes next.
Leave(r) ==
  /\ mpc' = "wait"
  /\ returns' = r
  /\ UNCHANGED <<pending, worker, wg, resultVars, totalVars>>

LoopDone ==
  /\ mpc = "loop"
  /\ ctx = "done"
  /\ Leave("ctx")
  /\ UNCHANGED streamVars

LoopClosed ==
  /\ mpc = "loop"
  /\ DataEnd
  /\ Leave("value")
  /\ UNCHANGED streamVars

LoopErr ==
  /\ mpc = "loop"
  /\ \E e \in Errors : RecvErr(e) /\ Leave(e)

\* The closed error channel yields nil, and the branch does not look at it.
LoopNilErr ==
  /\ mpc = "loop"
  /\ ErrEnd
  /\ Leave("nil")
  /\ UNCHANGED streamVars

LoopOther ==
  /\ mpc = "loop"
  /\ \E k \in Keys \ NftKeys : RecvItem(k)
  /\ UNCHANGED <<mainVars, worker, wg, resultVars, totalVars>>

\* wg.Add(1) before the task is submitted.
LoopNft ==
  /\ mpc = "loop"
  /\ \E k \in NftKeys : RecvItem(k) /\ pending' = k
  /\ wg' = wg + 1
  /\ mpc' = "submit"
  /\ UNCHANGED <<returns, worker, resultVars, totalVars>>

Busy == {k \in NftKeys : worker[k] \in {"nav", "send"}}

Submit ==
  /\ mpc = "submit"
  /\ Cardinality(Busy) < PoolSize
  /\ worker' = [worker EXCEPT ![pending] = "nav"]
  /\ mpc' = "loop"
  /\ UNCHANGED <<streamVars, pending, returns, wg, resultVars, totalVars>>

\* Mutant of WaitAndClose: resultsChan is closed without wg.Wait.
CloseWithoutWait ==
  /\ mpc = "wait"
  /\ resultsClosed' = TRUE
  /\ mpc' = IF returns = "value" THEN "total" ELSE "returned"
  /\ UNCHANGED <<streamVars, pending, returns, worker, wg, resultsChan, totalVars>>

\* All three ways out wait for the work handed out and close resultsChan.
WaitAndClose ==
  /\ mpc = "wait"
  /\ wg = 0
  /\ resultsClosed' = TRUE
  /\ mpc' = IF returns = "value" THEN "total" ELSE "returned"
  /\ UNCHANGED <<streamVars, pending, returns, worker, wg, resultsChan, totalVars>>

ReceiveTotal ==
  /\ mpc = "total"
  /\ tpc = "done"
  /\ mpc' = "returned"
  /\ UNCHANGED <<streamVars, pending, returns, worker, wg, resultVars, totalVars>>

Main ==
  \/ LoopDone \/ LoopClosed \/ LoopErr \/ LoopNilErr
  \/ LoopOther \/ LoopNft \/ Submit
  \/ WaitAndClose \/ ReceiveTotal

--------------------------------------------------------------------------------
(* The task of one NFT, run by a worker of the pool.                       *)

\* GetNAV answers with a price in usd, or with none, which counts as 0 usd.
NavUsd(k) ==
  /\ worker[k] = "nav"
  /\ worker' = [worker EXCEPT ![k] = "send"]
  /\ UNCHANGED <<streamVars, mainVars, wg, resultVars, totalVars>>

Finish(k, how) ==
  /\ worker' = [worker EXCEPT ![k] = how]
  /\ wg' = wg - 1
  /\ UNCHANGED <<streamVars, mainVars, totalVars>>

\* A price in another denom is not reported.
NavOther(k) ==
  /\ worker[k] = "nav"
  /\ Finish(k, "other")
  /\ UNCHANGED resultVars

\* Mutant of NavPanic: wg.Done is not deferred, so the panic skips it.
NavPanicSkipsDone(k) ==
  /\ worker[k] = "nav"
  /\ worker' = [worker EXCEPT ![k] = "failed"]
  /\ UNCHANGED <<streamVars, mainVars, wg, resultVars, totalVars>>

\* The query or the scope id is bad: the task panics, wg.Done runs as deferred,
\* and the pool recovers the panic.
NavPanic(k) ==
  /\ worker[k] = "nav"
  /\ Finish(k, "failed")
  /\ UNCHANGED resultVars

\* Mutant of SendResult: the send does not wait for room in the channel.
SendResultNoRoom(k) ==
  /\ worker[k] = "send"
  /\ resultsChan' = Append(resultsChan, k)
  /\ Finish(k, "sent")
  /\ UNCHANGED resultsClosed

\* Mutant of SendResult: a send that finds the channel full drops the result.
SendResultOrDrop(k) ==
  /\ worker[k] = "send"
  /\ resultsChan' = IF Len(resultsChan) < 1 THEN Append(resultsChan, k) ELSE resultsChan
  /\ Finish(k, "sent")
  /\ UNCHANGED resultsClosed

SendResult(k) ==
  /\ worker[k] = "send"
  /\ Len(resultsChan) < 1
  /\ resultsChan' = Append(resultsChan, k)
  /\ Finish(k, "sent")
  /\ UNCHANGED resultsClosed

Task(k) == NavUsd(k) \/ NavOther(k) \/ NavPanic(k) \/ SendResult(k)

--------------------------------------------------------------------------------
(* The summing goroutine.                                                  *)

SumResult ==
  /\ tpc = "sum"
  /\ resultsChan # <<>>
  /\ total' = total \cup {Head(resultsChan)}
  /\ resultsChan' = Tail(resultsChan)
  /\ UNCHANGED <<streamVars, mainVars, worker, wg, resultsClosed, tpc>>

\* resultsChan is closed and drained: send the total on totalChan (capacity 1).
SumDone ==
  /\ tpc = "sum"
  /\ resultsClosed /\ resultsChan = <<>>
  /\ tpc' = "done"
  /\ UNCHANGED <<streamVars, mainVars, worker, wg, resultVars, total>>

Sum == SumResult \/ SumDone

valueVars == <<mainVars, worker, wg, resultVars, totalVars>>

ValueNext ==
  \/ (Environment \/ Produce) /\ UNCHANGED valueVars
  \/ Main
  \/ \E k \in NftKeys : Task(k)
  \/ Sum

\* Every goroutine is scheduled, and every query to the node returns.
ValueFairness ==
  /\ WF_callVars(Produce /\ UNCHANGED valueVars)
  /\ WF_callVars(Main)
  /\ \A k \in NftKeys : WF_callVars(Task(k))
  /\ WF_callVars(Sum)

ValueSpec == ValueInit /\ [][ValueNext]_callVars /\ ValueFairness

--------------------------------------------------------------------------------
\* The type invariant.
ValueTypeOK ==
  /\ StreamTypeOK
  /\ mpc \in {"loop", "submit", "wait", "total", "returned"}
  /\ pending \in NftKeys \cup {0}
  /\ returns \in {"none", "value", "nil"} \cup Errors
  /\ worker \in [NftKeys -> {"none", "nav", "send", "other", "failed", "sent"}]
  /\ wg \in Nat
  /\ resultsChan \in Seq(NftKeys) /\ Len(resultsChan) <= 1
  /\ resultsClosed \in BOOLEAN
  /\ tpc \in {"sum", "done"}
  /\ total \in SUBSET NftKeys

\* No task is left that could send on resultsChan once it is closed, which would
\* panic: wg counts a task from before Submit until after its send.
NoSendOnClosed ==
  resultsClosed => mpc # "submit" /\ Busy = {}

\* A total that is returned, from a stream that reported no error, counts every
\* NFT that the account held for the whole call, save those whose value is not
\* in usd or could not be had (the hand-over from the stream over the pool and
\* the results channel to the sum loses nothing).  The last exception is at odds
\* with the comment where the task panics, "since we don't want to report any
\* results if there is an error": the pool recovers the panic.
TotalComplete ==
  mpc = "returned" /\ returns = "value" /\ errChan = <<>> =>
    \A k \in stable \cap NftKeys : k \in total \/ worker[k] \in {"other", "failed"}

Members(s) == {s[i] : i \in 1..Len(s)}

\* The NFTs the main loop has taken from the stream, and those on their way to it.
Given == {k \in NftKeys : worker[k] # "none" \/ (mpc = "submit" /\ k = pending)}
Delivered == Given \cup Members(dataChan)

\* The stream delivers in the order of the keys, so that no key comes twice.
StreamOrder ==
  /\ \A i, j \in 1..Len(dataChan) : i < j => dataChan[i] < dataChan[j]
  /\ \A g \in Given, k \in Members(dataChan) : g < k
  /\ pc = "query" => \A g \in Delivered : g < nextKey
  /\ pc = "send" => \A k \in page : /\ \A g \in Delivered : g < k
                                    /\ resNext # 0 => k < resNext
  /\ pc = "send" /\ resNext # 0 => \A g \in Delivered : g < resNext
  /\ pc \in {"query", "send"} => errChan = <<>>

\* wg counts the task being submitted and the tasks that run; where the main loop
\* and the summing goroutine stand; what was sent is summed or in the channel.
Tasks ==
  /\ IsFiniteSet(Busy)
  /\ wg = Cardinality(Busy) + (IF mpc = "submit" THEN 1 ELSE 0)
  /\ mpc = "submit" => pending \in NftKeys /\ worker[pending] = "none"
  /\ resultsClosed <=> mpc \in {"total", "returned"}
  /\ resultsClosed => Busy = {}
  /\ returns = "none" <=> mpc \in {"loop", "submit"}
  /\ tpc = "done" => resultsClosed /\ resultsChan = <<>>
  /\ mpc = "returned" /\ returns = "value" => tpc = "done"
  /\ \A k \in NftKeys : worker[k] = "sent" => k \in total \cup Members(resultsChan)

\* Where a key is that was on chain for the whole call.
OnItsWay(k) ==
  \/ k \in Delivered
  \/ pc = "query" /\ nextKey <= k
  \/ pc = "send" /\ (k \in page \/ (resNext # 0 /\ resNext <= k))

Complete ==
  /\ returns = "value" => DataEnd
  /\ returns \in {"none", "value"} /\ errChan = <<>> =>
       \A k \in stable \cap NftKeys : OnItsWay(k)

\* The inductive invariant behind NoSendOnClosed and TotalComplete.
ValueInv == ValueTypeOK /\ StreamOrder /\ Tasks /\ Complete

\* "Error from stream - wait for existing work and return error": the error
\* branch of the select returns an error.
ErrorBranchReturnsError == returns # "nil"

\* The call returns, and no goroutine or pool worker outlives it for good: not
\* the producer, not the summing goroutine, not a task that waits to send.
EverythingEnds ==
  <>(mpc = "returned" /\ pc = "done" /\ tpc = "done" /\ Busy = {})
================================================================================
