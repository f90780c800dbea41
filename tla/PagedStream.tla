------------------------------ MODULE PagedStream ------------------------------
(***************************************************************************)
(* The producer goroutine of a paginated query stream, as GetBalancesStream *)
(* starts it: it asks the node for one page after another, sends the items  *)
(* of a page on a buffered data channel, and at the end, or on the first    *)
(* error, closes the error channel and then the data channel (the deferred  *)
(* closes run last in, first out).                                          *)
(* GetAttributesStream, GetAttributedAccountsStream,                        *)
(* GetStakingValidatorsStream and GetDelegationsByDelegatorStream run the   *)
(* same goroutine with other queries and page sizes.                        *)
(*                                                                          *)
(* The node keeps the items under ordered keys; other transactions add and  *)
(* remove items between two pages.  Consumers extend this module: they call *)
(* the receive operators at its end.                                        *)
(***************************************************************************)
EXTENDS Integers, Sequences, FiniteSets

CONSTANTS
  Keys,        \* the keys items can be stored under on chain; 0 is "no key"
  PageSize,    \* Limit of a page request and capacity of the data channel
  RpcMayFail   \* whether a query may fail although the context is live

ASSUME StreamAssumption ==
  /\ Keys \subseteq Nat \ {0}
  /\ PageSize \in Nat \ {0}
  /\ RpcMayFail \in BOOLEAN

VARIABLES
  store,       \* the keys that have an item on chain
  stable,      \* history: the keys present on chain ever since the call
  ctx,         \* the caller's context: "live" or "done"
  pc,          \* where the producer goroutine stands
  nextKey,     \* the key the next page request starts from
  page,        \* items of the last answer that are not sent yet
  resNext,     \* Pagination.NextKey of the last answer
  dataChan, dataClosed,
  errChan, errClosed

chainVars  == <<store, stable>>
pageVars   == <<nextKey, page, resNext>>
dataVars   == <<dataChan, dataClosed>>
errVars    == <<errChan, errClosed>>
streamVars == <<chainVars, ctx, pc, pageVars, dataVars, errVars>>

Errors == {"rpc", "ctx"}

StreamTypeOK ==
  /\ store \in SUBSET Keys
  /\ stable \in SUBSET store
  /\ ctx \in {"live", "done"}
  /\ pc \in {"query", "send", "closeErr", "closeData", "done"}
  /\ nextKey \in Keys \cup {0}
  /\ page \in SUBSET Keys
  /\ resNext \in Keys \cup {0}
  /\ dataChan \in Seq(Keys) /\ Len(dataChan) <= PageSize
  /\ errChan \in Seq(Errors) /\ Len(errChan) <= 1
  /\ dataClosed \in BOOLEAN /\ (dataClosed <=> pc = "done")
  /\ errClosed \in BOOLEAN /\ (errClosed <=> pc \in {"closeData", "done"})

StreamInit ==
  /\ store \in SUBSET Keys
  /\ stable = store
  /\ ctx = "live"
  /\ pc = "query"
  /\ nextKey = 0
  /\ page = {}
  /\ resNext = 0
  /\ dataChan = <<>> /\ dataClosed = FALSE
  /\ errChan = <<>> /\ errClosed = FALSE

--------------------------------------------------------------------------------
(* The chain and the caller's context change on their own.                 *)

AddItem(k) ==
  /\ k \notin store
  /\ store' = store \cup {k}
  /\ UNCHANGED <<stable, ctx, pc, pageVars, dataVars, errVars>>

RemoveItem(k) ==
  /\ k \in store
  /\ store' = store \ {k}
  /\ stable' = stable \ {k}
  /\ UNCHANGED <<ctx, pc, pageVars, dataVars, errVars>>

Cancel ==
  /\ ctx = "live"
  /\ ctx' = "done"
  /\ UNCHANGED <<chainVars, pc, pageVars, dataVars, errVars>>

Environment ==
  \/ \E k \in Keys : AddItem(k) \/ RemoveItem(k)
  \/ Cancel

--------------------------------------------------------------------------------
(* The producer goroutine.                                                 *)

Matching == {k \in store : nextKey <= k}

\* The whole rest fits in the page: no NextKey.
LastPage ==
  /\ Cardinality(Matching) <= PageSize
  /\ page' = Matching
  /\ resNext' = 0

\* A full page, and NextKey is the first key that did not fit.
FullPage ==
  \E n \in Matching :
    LET before == {k \in Matching : k < n}
    IN  /\ Cardinality(before) = PageSize
        /\ page' = before
        /\ resNext' = n

\* The node answers.  The answer may arrive although ctx has ended meanwhile.
QueryOk ==
  /\ pc = "query"
  /\ LastPage \/ FullPage
  /\ pc' = "send"
  /\ UNCHANGED <<chainVars, ctx, nextKey, dataVars, errVars>>

\* The query fails; an ended context is reported in preference to the RPC error.
QueryErr ==
  /\ pc = "query"
  /\ RpcMayFail \/ ctx = "done"
  /\ errChan' = Append(errChan, IF ctx = "done" THEN "ctx" ELSE "rpc")
  /\ pc' = "closeErr"
  /\ UNCHANGED <<chainVars, ctx, pageVars, dataVars, errClosed>>

\* Mutant of SendItem: one item more than the channel holds.
SendItemPastCapacity ==
  /\ pc = "send"
  /\ Len(dataChan) <= PageSize
  /\ \E k \in page :
       /\ \A j \in page : k <= j
       /\ dataChan' = Append(dataChan, k)
       /\ page' = page \ {k}
  /\ UNCHANGED <<chainVars, ctx, pc, nextKey, resNext, dataClosed, errVars>>

\* The select of the send loop has two cases; both may be ready.
SendItem ==
  /\ pc = "send"
  /\ Len(dataChan) < PageSize
  /\ \E k \in page :
       /\ \A j \in page : k <= j
       /\ dataChan' = Append(dataChan, k)
       /\ page' = page \ {k}
  /\ UNCHANGED <<chainVars, ctx, pc, nextKey, resNext, dataClosed, errVars>>

\* Mutant of SendCancelled: a plain send, without the ctx.Done case.
SendNotCancellable == FALSE

SendCancelled ==
  /\ pc = "send"
  /\ page # {}
  /\ ctx = "done"
  /\ errChan' = Append(errChan, "ctx")
  /\ pc' = "closeErr"
  /\ UNCHANGED <<chainVars, ctx, pageVars, dataVars, errClosed>>

\* Mutant of NextPage: nextKey is not advanced.
NextPageSameKey ==
  /\ pc = "send"
  /\ page = {}
  /\ resNext # 0
  /\ pc' = "query"
  /\ UNCHANGED <<chainVars, ctx, pageVars, dataVars, errVars>>

NextPage ==
  /\ pc = "send"
  /\ page = {}
  /\ resNext # 0
  /\ nextKey' = resNext
  /\ pc' = "query"
  /\ UNCHANGED <<chainVars, ctx, page, resNext, dataVars, errVars>>

\* Mutant of EndOfPages: the loop may end although there is a NextKey.
EndOfPagesEarly ==
  /\ pc = "send"
  /\ page = {}
  /\ pc' = "closeErr"
  /\ UNCHANGED <<chainVars, ctx, pageVars, dataVars, errVars>>

EndOfPages ==
  /\ pc = "send"
  /\ page = {}
  /\ resNext = 0
  /\ pc' = "closeErr"
  /\ UNCHANGED <<chainVars, ctx, pageVars, dataVars, errVars>>

CloseErr ==
  /\ pc = "closeErr"
  /\ errClosed' = TRUE
  /\ pc' = "closeData"
  /\ UNCHANGED <<chainVars, ctx, pageVars, dataVars, errChan>>

CloseData ==
  /\ pc = "closeData"
  /\ dataClosed' = TRUE
  /\ pc' = "done"
  /\ UNCHANGED <<chainVars, ctx, pageVars, dataChan, errVars>>

Produce ==
  \/ QueryOk \/ QueryErr
  \/ SendItem \/ SendCancelled
  \/ NextPage \/ EndOfPages
  \/ CloseErr \/ CloseData

--------------------------------------------------------------------------------
(* The consumer's side of the two channels.                                *)

RecvItem(k) ==
  /\ dataChan # <<>>
  /\ k = Head(dataChan)
  /\ dataChan' = Tail(dataChan)
  /\ UNCHANGED <<chainVars, ctx, pc, pageVars, dataClosed, errVars>>

DataEnd == dataClosed /\ dataChan = <<>>

RecvErr(e) ==
  /\ errChan # <<>>
  /\ e = Head(errChan)
  /\ errChan' = Tail(errChan)
  /\ UNCHANGED <<chainVars, ctx, pc, pageVars, dataVars, errClosed>>

\* A receive from the closed, drained error channel yields nil at once.
ErrEnd == errClosed /\ errChan = <<>>
================================================================================
