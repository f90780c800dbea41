------------------------------- MODULE Collector -------------------------------
(***************************************************************************)
(* The collecting form of a paginated query, as GetBalances has it: start   *)
(* the stream, then select over the caller's context, the data channel and  *)
(* the error channel until one of them ends the call.  GetAttributes,       *)
(* GetAttributedAccounts, GetStakingValidators and                          *)
(* GetDelegationsByDelegator run the same loop.                             *)
(***************************************************************************)
EXTENDS PagedStream

VARIABLES
  out,         \* the slice collected so far
  result       \* "none" while running, "ok" for a nil error, else the error

vars == <<streamVars, out, result>>

Init ==
  /\ StreamInit
  /\ out = <<>>
  /\ result = "none"

CollectDone ==
  /\ result = "none"
  /\ ctx = "done"
  /\ result' = "ctx"
  /\ UNCHANGED <<streamVars, out>>

CollectItem ==
  /\ result = "none"
  /\ \E k \in Keys : RecvItem(k) /\ out' = Append(out, k)
  /\ UNCHANGED result

\* Mutant of CollectClosed: the closed data channel does not end the loop.
CollectClosedContinue ==
  /\ result = "none"
  /\ DataEnd
  /\ UNCHANGED vars

CollectClosed ==
  /\ result = "none"
  /\ DataEnd
  /\ result' = "ok"
  /\ UNCHANGED <<streamVars, out>>

CollectErr ==
  /\ result = "none"
  /\ \E e \in Errors : RecvErr(e) /\ result' = e
  /\ UNCHANGED out

\* The closed error channel is always ready and yields nil: the loop goes round.
CollectNilErr ==
  /\ result = "none"
  /\ ErrEnd
  /\ UNCHANGED vars

Collect ==
  \/ CollectDone \/ CollectItem \/ CollectClosed
  \/ CollectErr \/ CollectNilErr

Next ==
  \/ (Environment \/ Produce) /\ UNCHANGED <<out, result>>
  \/ Collect

\* The Go scheduler runs both goroutines, every RPC returns, and select picks
\* at random among the ready cases, so the nil case cannot win forever.
Fairness ==
  /\ WF_vars(Produce /\ UNCHANGED <<out, result>>)
  /\ WF_vars(Collect)

Spec == Init /\ [][Next]_vars /\ Fairness

--------------------------------------------------------------------------------
\* The type invariant: every variable of the stream and the collector keeps its
\* type, no channel exceeds its capacity, and a channel is closed exactly when
\* the goroutine has passed the deferred close that closes it.
TypeOK ==
  /\ StreamTypeOK
  /\ out \in Seq(Keys)
  /\ result \in {"none", "ok"} \cup Errors

Flow == out \o dataChan

\* What reaches the caller is strictly increasing in the node's key order: no
\* item is delivered twice or out of order, although items come and go on chain
\* between two page requests (the NextKey loop of the stream).
InOrder ==
  \A i, j \in 1..Len(Flow) : i < j => Flow[i] < Flow[j]

Items(s) == {s[i] : i \in 1..Len(s)}

\* A collector that returns a slice with a nil error, while the stream reported
\* no error, has every item that was on chain for the whole call (the collector
\* and the paging loop of GetBalances).
CompleteOnSuccess ==
  result = "ok" /\ errChan = <<>> => stable \subseteq Items(out)

\* A nil error means that the query did not fail and was not cancelled under
\* way, as the doc comment of GetBalances has it ("Returns an error if the query
\* fails or context is cancelled"): no error is left unread on errChan.
ErrorReported ==
  result = "ok" => errChan = <<>>

FlowBelow(n) == \A i \in 1..Len(Flow) : Flow[i] < n

\* What is still to come lies above everything delivered so far.
Frontier ==
  /\ pc = "query" => FlowBelow(nextKey)
  /\ pc = "send" =>
       /\ \A k \in page : FlowBelow(k) /\ (resNext # 0 => k < resNext)
       /\ resNext # 0 => FlowBelow(resNext)

\* A key is delivered already, or in the page at hand, or will be asked for.
Located(k) ==
  \/ k \in Items(Flow)
  \/ pc = "query" /\ nextKey <= k
  \/ pc = "send" /\ (k \in page \/ (resNext # 0 /\ resNext <= k))

\* The inductive invariant behind InOrder and CompleteOnSuccess: the producer
\* reports at most one error and then stops, deliveries stay below the paging
\* frontier, and as long as no error was reported every key that was on chain
\* for the whole call is located somewhere between the chain and the caller.
IndInv ==
  /\ TypeOK
  /\ InOrder
  /\ Frontier
  /\ pc \in {"query", "send"} => errChan = <<>>
  /\ result = "ok" => DataEnd
  /\ result \in {"none", "ok"} /\ errChan = <<>> => \A k \in stable : Located(k)

\* The collecting call always returns, whatever the node and the context do.
CollectorReturns == <>(result # "none")

\* The producer goroutine always ends, also when the collector has gone away
\* after a cancellation and nobody drains the full data channel any more.
NoGoroutineLeak == <>(pc = "done")

================================================================================
