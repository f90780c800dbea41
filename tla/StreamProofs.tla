------------------------------ MODULE StreamProofs ------------------------------
(***************************************************************************)
(* Proofs about the two users of a paginated query stream, for every set of *)
(* keys, page size and number of pages.                                     *)
(*                                                                          *)
(* The collectors (Collector, ListedCollector): type correctness, the order *)
(* of what is delivered, the completeness of a slice returned without an    *)
(* error; and that a collecting query implements Listing: its initial       *)
(* states map to initial states, and each of its steps to a step of the     *)
(* listing or to a stutter.                                                 *)
(*                                                                          *)
(* GetAccountValue (AccountValue), for every pool size too: type            *)
(* correctness, that no task sends on the closed results channel, and that  *)
(* a total counts every NFT held for the whole call.                        *)
(***************************************************************************)
EXTENDS ListedCollector, AccountValue, SequenceTheorems, FiniteSetTheorems, TLAPS

--------------------------------------------------------------------------------
(* The collectors.                                                         *)

\* Moving the head of the channel to the end of the slice keeps the flow.
LEMMA ReceiveKeepsFlow ==
  ASSUME NEW S, NEW o \in Seq(S), NEW d \in Seq(S), d # <<>>
  PROVE  Append(o, Head(d)) \o Tail(d) = o \o d
<1> DEFINE h == Head(d)
           t == Tail(d)
<1>1. /\ h \in S /\ t \in Seq(S) /\ Len(t) = Len(d) - 1
      /\ \A i \in 1..Len(t) : t[i] = d[i+1]
      /\ h = d[1]
  BY HeadTailProperties
<1>2. Append(o, h) = o \o <<h>> /\ <<h>> \in Seq(S)
  BY <1>1, AppendIsConcat
<1>3. Append(o, h) \o t = o \o (<<h>> \o t)
  BY <1>1, <1>2, ConcatAssociative
<1>4. <<h>> \o t = d
  <2>1. /\ <<h>> \o t \in Seq(S)
        /\ Len(<<h>> \o t) = 1 + Len(t)
        /\ \A i \in 1 .. 1 + Len(t) : (<<h>> \o t)[i] = IF i <= 1 THEN <<h>>[i] ELSE t[i - 1]
    BY <1>1, <1>2, ConcatProperties, Len(<<h>>) = 1
  <2>2. Len(<<h>> \o t) = Len(d) /\ Len(d) \in Nat
    BY <1>1, <2>1, LenProperties
  <2>3. \A i \in 1 .. Len(d) : (<<h>> \o t)[i] = d[i]
    BY <1>1, <2>1, <2>2
  <2> QED
    BY <2>1, <2>2, <2>3, SeqEqual
<1> QED
  BY <1>3, <1>4

\* Sending appends to the flow.
LEMMA SendAppendsToFlow ==
  ASSUME NEW S, NEW o \in Seq(S), NEW d \in Seq(S), NEW k \in S
  PROVE  o \o Append(d, k) = Append(o \o d, k)
<1>1. <<k>> \in Seq(S) /\ o \o d \in Seq(S)
  BY ConcatProperties
<1> QED
  BY <1>1, AppendIsConcat, ConcatAssociative

LEMMA FlowType ==
  ASSUME TypeOK
  PROVE  Flow \in Seq(Nat \ {0}) /\ Flow \in Seq(Keys) /\ Len(Flow) \in Nat
<1>1. out \in Seq(Keys) /\ dataChan \in Seq(Keys)
  BY DEF TypeOK, StreamTypeOK
<1>2. Flow \in Seq(Keys)
  BY <1>1, ConcatProperties DEF Flow
<1> QED
  BY <1>2, StreamAssumption, SeqMonotonic, LenProperties

\* The inductive invariant holds when the goroutine of the stream starts.
THEOREM InitInd == Init => IndInv
<1> SUFFICES ASSUME Init PROVE IndInv
  OBVIOUS
<1> USE DEF Init, StreamInit
<1>1. TypeOK
  <2>1. dataChan \in Seq(Keys) /\ Len(dataChan) <= PageSize /\ out \in Seq(Keys)
    BY StreamAssumption, EmptySeq
  <2>2. errChan \in Seq(Errors) /\ Len(errChan) <= 1
    BY EmptySeq
  <2>3. stable \in SUBSET store /\ store \in SUBSET Keys /\ page \in SUBSET Keys
    OBVIOUS
  <2> QED
    BY <2>1, <2>2, <2>3 DEF TypeOK, StreamTypeOK
<1>2. Flow = <<>> /\ Len(Flow) = 0
  BY DEF Flow
<1>3. InOrder /\ Frontier
  BY <1>2 DEF InOrder, Frontier, FlowBelow
<1>4. \A k \in stable : Located(k)
  BY <1>1, StreamAssumption DEF Located, TypeOK, StreamTypeOK
<1> QED
  BY <1>1, <1>3, <1>4 DEF IndInv

--------------------------------------------------------------------------------
(* The type invariant, one step per action.  That a second error cannot be  *)
(* appended to errChan is what the assumption on pc is for.                 *)

LEMMA TypeStep ==
  ASSUME TypeOK, pc \in {"query", "send"} => errChan = <<>>, [Next]_vars
  PROVE  TypeOK'
<1> USE StreamAssumption DEF TypeOK, StreamTypeOK, Errors
<1>1. CASE \E k \in Keys : AddItem(k) /\ UNCHANGED <<out, result>>
  BY <1>1 DEF AddItem, pageVars, dataVars, errVars
<1>2. CASE \E k \in Keys : RemoveItem(k) /\ UNCHANGED <<out, result>>
  BY <1>2 DEF RemoveItem, pageVars, dataVars, errVars
<1>3. CASE Cancel /\ UNCHANGED <<out, result>>
  BY <1>3 DEF Cancel, chainVars, pageVars, dataVars, errVars
<1>4. CASE QueryOk /\ UNCHANGED <<out, result>>
  <2>1. page' \in SUBSET Keys /\ resNext' \in Keys \cup {0}
    BY <1>4 DEF QueryOk, LastPage, FullPage, Matching
  <2> QED
    BY <1>4, <2>1 DEF QueryOk, chainVars, dataVars, errVars
<1>5. CASE QueryErr /\ UNCHANGED <<out, result>>
  <2>1. errChan' \in Seq(Errors) /\ Len(errChan') <= 1
    BY <1>5 DEF QueryErr
  <2> QED
    BY <1>5, <2>1 DEF QueryErr, chainVars, pageVars, dataVars
<1>6. CASE SendItem /\ UNCHANGED <<out, result>>
  <2>1. dataChan' \in Seq(Keys) /\ Len(dataChan') <= PageSize /\ page' \in SUBSET Keys
    BY <1>6 DEF SendItem
  <2> QED
    BY <1>6, <2>1 DEF SendItem, chainVars, errVars
<1>7. CASE SendCancelled /\ UNCHANGED <<out, result>>
  <2>1. errChan' \in Seq(Errors) /\ Len(errChan') <= 1
    BY <1>7 DEF SendCancelled
  <2> QED
    BY <1>7, <2>1 DEF SendCancelled, chainVars, pageVars, dataVars
<1>8. CASE NextPage /\ UNCHANGED <<out, result>>
  BY <1>8 DEF NextPage, chainVars, dataVars, errVars
<1>9. CASE EndOfPages /\ UNCHANGED <<out, result>>
  BY <1>9 DEF EndOfPages, chainVars, pageVars, dataVars, errVars
<1>10. CASE CloseErr /\ UNCHANGED <<out, result>>
  BY <1>10 DEF CloseErr, chainVars, pageVars, dataVars
<1>11. CASE CloseData /\ UNCHANGED <<out, result>>
  BY <1>11 DEF CloseData, chainVars, pageVars, errVars
<1>12. CASE CollectDone
  BY <1>12 DEF CollectDone, streamVars, chainVars, pageVars, dataVars, errVars
<1>13. CASE CollectItem
  <2>1. /\ dataChan' \in Seq(Keys) /\ Len(dataChan') <= PageSize
        /\ out' \in Seq(Keys)
    BY <1>13, HeadTailProperties, LenProperties DEF CollectItem, RecvItem
  <2> QED
    BY <1>13, <2>1 DEF CollectItem, RecvItem, chainVars, pageVars, errVars
<1>14. CASE CollectClosed
  BY <1>14 DEF CollectClosed, streamVars, chainVars, pageVars, dataVars, errVars
<1>15. CASE CollectErr
  <2>1. errChan' \in Seq(Errors) /\ Len(errChan') <= 1 /\ result' \in Errors
    BY <1>15, HeadTailProperties, LenProperties DEF CollectErr, RecvErr
  <2> QED
    BY <1>15, <2>1 DEF CollectErr, RecvErr, chainVars, pageVars, dataVars
<1>16. CASE UNCHANGED vars
  BY <1>16 DEF vars, streamVars, chainVars, pageVars, dataVars, errVars
<1> QED
  BY <1>1, <1>2, <1>3, <1>4, <1>5, <1>6, <1>7, <1>8, <1>9, <1>10, <1>11, <1>12,
     <1>13, <1>14, <1>15, <1>16
  DEF Next, Environment, Produce, Collect, CollectNilErr

--------------------------------------------------------------------------------
(* A step that leaves the flow alone and moves no paging variable keeps the  *)
(* parts of the invariant that speak of the flow.                            *)

LEMMA FlowKept ==
  ASSUME IndInv, TypeOK', Flow' = Flow, UNCHANGED <<pageVars, pc>>
  PROVE  InOrder' /\ Frontier' /\ \A k : Located(k) => Located(k)'
BY DEF IndInv, InOrder, Frontier, FlowBelow, Located, Items, pageVars

\* When the producer is past its loop the frontier says nothing.
LEMMA FlowFinal ==
  ASSUME IndInv, Flow' = Flow, pc' \in {"closeErr", "closeData", "done"}
  PROVE  InOrder' /\ Frontier'
BY DEF IndInv, InOrder, Frontier

\* Steps of the chain, the context and the collector.
LEMMA KeepStep ==
  ASSUME IndInv, TypeOK', Flow' = Flow, UNCHANGED <<pageVars, pc, errChan>>,
         stable' \subseteq stable,
         result' \in {"none", "ok"} => result \in {"none", "ok"},
         result' = "ok" => DataEnd'
  PROVE  IndInv'
<1>1. InOrder' /\ Frontier' /\ \A k : Located(k) => Located(k)'
  BY FlowKept
<1> QED
  BY <1>1 DEF IndInv, pageVars

LEMMA StepInd ==
  ASSUME IndInv, [Next]_vars
  PROVE  IndInv'
<1>0. TypeOK /\ TypeOK'
  BY TypeStep DEF IndInv
<1>1. CASE \E k \in Keys : AddItem(k) /\ UNCHANGED <<out, result>>
  BY <1>0, <1>1, KeepStep DEF AddItem, IndInv, Flow, DataEnd, dataVars, errVars
<1>2. CASE \E k \in Keys : RemoveItem(k) /\ UNCHANGED <<out, result>>
  BY <1>0, <1>2, KeepStep DEF RemoveItem, IndInv, Flow, DataEnd, dataVars, errVars
<1>3. CASE Cancel /\ UNCHANGED <<out, result>>
  BY <1>0, <1>3, KeepStep DEF Cancel, IndInv, Flow, DataEnd, chainVars, dataVars, errVars
<1>4. CASE QueryOk /\ UNCHANGED <<out, result>>
  <2>1. /\ pc = "query" /\ pc' = "send" /\ Flow' = Flow
        /\ UNCHANGED <<stable, nextKey, dataChan, dataClosed, errChan, result>>
    BY <1>4 DEF QueryOk, Flow, chainVars, dataVars, errVars
  <2>2. /\ FlowBelow(nextKey)
        /\ Flow \in Seq(Nat \ {0}) /\ Len(Flow) \in Nat
    BY <1>0, <2>1, FlowType DEF IndInv, Frontier
  <2>3. \A k \in Keys : k \in Nat \ {0}
    BY StreamAssumption
  <2>4. /\ \A k \in page' : k \in Keys /\ nextKey <= k /\ (resNext' # 0 => k < resNext')
        /\ resNext' # 0 => resNext' \in Keys /\ nextKey <= resNext'
        /\ \A k \in store : nextKey <= k => k \in page' \/ (resNext' # 0 /\ resNext' <= k)
    <3>1. CASE LastPage
      BY <1>0, <3>1 DEF LastPage, Matching, TypeOK, StreamTypeOK
    <3>2. CASE FullPage
      BY <1>0, <2>3, <3>2 DEF FullPage, Matching, TypeOK, StreamTypeOK
    <3> QED
      BY <1>4, <3>1, <3>2 DEF QueryOk
  <2>5. nextKey \in Nat
    BY <1>0, <2>3 DEF TypeOK, StreamTypeOK
  <2>6. \A m \in Nat : nextKey <= m => FlowBelow(m)
    BY <2>2, <2>5 DEF FlowBelow
  <2>7. InOrder'
    BY <2>1 DEF IndInv, InOrder
  <2>8. Frontier'
    <3>1. \A m \in Nat : nextKey <= m => FlowBelow(m)'
      BY <2>1, <2>6 DEF FlowBelow
    <3> QED
      BY <2>1, <2>3, <2>4, <3>1 DEF Frontier
  <2>9. ASSUME NEW k \in stable, Located(k)
        PROVE  Located(k)'
    BY <1>0, <2>1, <2>4, <2>9 DEF Located, TypeOK, StreamTypeOK
  <2>10. result = "ok" => FALSE
    BY <1>0, <2>1 DEF IndInv, DataEnd, TypeOK, StreamTypeOK
  <2> QED
    BY <1>0, <2>1, <2>7, <2>8, <2>9, <2>10 DEF IndInv
<1>5. CASE QueryErr /\ UNCHANGED <<out, result>>
  <2>1. /\ pc = "query" /\ pc' = "closeErr" /\ Flow' = Flow
        /\ UNCHANGED <<dataChan, dataClosed, result>>
    BY <1>5 DEF QueryErr, Flow, dataVars
  <2>2. errChan' # <<>>
    BY <1>0, <1>5 DEF QueryErr, TypeOK, StreamTypeOK
  <2> QED
    BY <1>0, <2>1, <2>2, FlowFinal DEF IndInv, DataEnd
<1>6. CASE SendItem /\ UNCHANGED <<out, result>>
  <2>1. PICK k \in page : /\ \A j \in page : k <= j
                          /\ dataChan' = Append(dataChan, k)
                          /\ page' = page \ {k}
    BY <1>6 DEF SendItem
  <2>2. /\ pc = "send"
        /\ UNCHANGED <<pc, stable, nextKey, resNext, errChan, dataClosed, out, result>>
    BY <1>6 DEF SendItem, chainVars, errVars
  <2>3. /\ Flow \in Seq(Nat \ {0}) /\ Len(Flow) \in Nat
        /\ \A j \in page : j \in Nat \ {0}
        /\ resNext \in Nat
    BY <1>0, FlowType, StreamAssumption DEF TypeOK, StreamTypeOK
  <2>4. Flow' = Append(Flow, k)
    BY <1>0, <2>1, <2>2, SendAppendsToFlow DEF Flow, TypeOK, StreamTypeOK
  <2>5. /\ Len(Flow') = Len(Flow) + 1
        /\ \A i \in 1..Len(Flow) : Flow'[i] = Flow[i]
        /\ Flow'[Len(Flow) + 1] = k
    BY <2>3, <2>4, AppendProperties
  <2>6. /\ \A j \in page : FlowBelow(j) /\ (resNext # 0 => j < resNext)
        /\ resNext # 0 => FlowBelow(resNext)
        /\ InOrder
    BY <2>2 DEF IndInv, Frontier
  <2>7. InOrder'
    <3> SUFFICES ASSUME NEW i \in 1 .. Len(Flow) + 1, NEW j \in 1 .. Len(Flow) + 1, i < j
                 PROVE  Flow'[i] < Flow'[j]
      BY <2>5 DEF InOrder
    <3>1. CASE j \in 1 .. Len(Flow)
      BY <2>3, <2>5, <2>6, <3>1 DEF InOrder
    <3>2. CASE j = Len(Flow) + 1
      BY <2>1, <2>3, <2>5, <2>6, <3>2 DEF FlowBelow
    <3> QED
      BY <2>3, <3>1, <3>2
  <2>8. ASSUME NEW m \in Nat, FlowBelow(m), k < m
        PROVE  FlowBelow(m)'
    BY <2>3, <2>5, <2>8 DEF FlowBelow
  <2>9. Frontier'
    <3>1. ASSUME NEW j \in page' PROVE FlowBelow(j)' /\ (resNext' # 0 => j < resNext')
      BY <2>1, <2>2, <2>3, <2>6, <2>8
    <3>2. resNext' # 0 => FlowBelow(resNext)'
      BY <2>1, <2>2, <2>3, <2>6, <2>8
    <3> QED
      BY <2>2, <3>1, <3>2 DEF Frontier, FlowBelow
  <2>10. ASSUME NEW m, Located(m)
         PROVE  Located(m)'
    <3>1. CASE m \in Items(Flow)
      BY <2>3, <2>5, <3>1 DEF Located, Items
    <3>2. CASE m = k
      BY <2>3, <2>5, <3>2 DEF Located, Items
    <3> QED
      BY <2>1, <2>2, <2>10, <3>1, <3>2 DEF Located
  <2>11. result # "ok"
    BY <1>0, <2>2 DEF IndInv, DataEnd, TypeOK, StreamTypeOK
  <2> QED
    BY <1>0, <2>2, <2>7, <2>9, <2>10, <2>11 DEF IndInv
<1>7. CASE SendCancelled /\ UNCHANGED <<out, result>>
  <2>1. /\ pc = "send" /\ pc' = "closeErr" /\ Flow' = Flow
        /\ UNCHANGED <<dataChan, dataClosed, result>>
    BY <1>7 DEF SendCancelled, Flow, dataVars
  <2>2. errChan' # <<>>
    BY <1>0, <1>7 DEF SendCancelled, TypeOK, StreamTypeOK
  <2> QED
    BY <1>0, <2>1, <2>2, FlowFinal DEF IndInv, DataEnd
<1>8. CASE NextPage /\ UNCHANGED <<out, result>>
  <2>1. /\ pc = "send" /\ pc' = "query" /\ Flow' = Flow
        /\ page = {} /\ resNext # 0 /\ nextKey' = resNext
        /\ UNCHANGED <<stable, dataChan, dataClosed, errChan, result>>
    BY <1>8 DEF NextPage, Flow, chainVars, dataVars, errVars
  <2>2. InOrder' /\ Frontier'
    BY <2>1 DEF IndInv, InOrder, Frontier, FlowBelow
  <2>3. ASSUME NEW k, Located(k)
        PROVE  Located(k)'
    BY <2>1, <2>3 DEF Located, Items
  <2> QED
    BY <1>0, <2>1, <2>2, <2>3 DEF IndInv, DataEnd
<1>9. CASE EndOfPages /\ UNCHANGED <<out, result>>
  <2>1. /\ pc = "send" /\ pc' = "closeErr" /\ Flow' = Flow
        /\ page = {} /\ resNext = 0
        /\ UNCHANGED <<stable, dataChan, dataClosed, errChan, result>>
    BY <1>9 DEF EndOfPages, Flow, chainVars, dataVars, errVars
  <2>2. ASSUME NEW k, Located(k)
        PROVE  Located(k)'
    BY <2>1, <2>2 DEF Located, Items
  <2> QED
    BY <1>0, <2>1, <2>2, FlowFinal DEF IndInv, DataEnd
<1>10. CASE CloseErr /\ UNCHANGED <<out, result>>
  <2>1. /\ pc = "closeErr" /\ pc' = "closeData" /\ Flow' = Flow
        /\ UNCHANGED <<stable, dataChan, errChan, result>>
        /\ dataClosed => dataClosed'
    BY <1>10 DEF CloseErr, Flow, chainVars, pageVars, dataVars
  <2>2. ASSUME NEW k, Located(k)
        PROVE  Located(k)'
    BY <2>1, <2>2 DEF Located, Items
  <2> QED
    BY <1>0, <2>1, <2>2, FlowFinal DEF IndInv, DataEnd
<1>11. CASE CloseData /\ UNCHANGED <<out, result>>
  <2>1. /\ pc = "closeData" /\ pc' = "done" /\ Flow' = Flow
        /\ UNCHANGED <<stable, dataChan, errChan, result>>
        /\ dataClosed => dataClosed'
    BY <1>11 DEF CloseData, Flow, chainVars, pageVars, errVars
  <2>2. ASSUME NEW k, Located(k)
        PROVE  Located(k)'
    BY <2>1, <2>2 DEF Located, Items
  <2> QED
    BY <1>0, <2>1, <2>2, FlowFinal DEF IndInv, DataEnd
<1>12. CASE CollectDone
  BY <1>0, <1>12, KeepStep
  DEF CollectDone, Flow, DataEnd, streamVars, chainVars, dataVars, errVars
<1>13. CASE CollectItem
  <2>1. /\ dataChan # <<>> /\ result = "none"
        /\ dataChan' = Tail(dataChan) /\ out' = Append(out, Head(dataChan))
        /\ UNCHANGED <<pageVars, pc, stable, errChan, result>>
    BY <1>13 DEF CollectItem, RecvItem, chainVars, errVars
  <2>2. Flow' = Flow
    BY <1>0, <2>1, ReceiveKeepsFlow DEF Flow, TypeOK, StreamTypeOK
  <2> QED
    BY <1>0, <2>1, <2>2, KeepStep
<1>14. CASE CollectClosed
  BY <1>0, <1>14, KeepStep
  DEF CollectClosed, Flow, DataEnd, streamVars, chainVars, dataVars, errVars
<1>15. CASE CollectErr
  <2>1. /\ Flow' = Flow
        /\ UNCHANGED <<pageVars, pc, stable>>
        /\ result' \in Errors
        /\ errChan # <<>> /\ errChan' = Tail(errChan)
    BY <1>15 DEF CollectErr, RecvErr, Flow, chainVars, dataVars
  <2>2. InOrder' /\ Frontier'
    BY <1>0, <2>1, FlowKept
  <2> QED
    BY <1>0, <2>1, <2>2 DEF IndInv, Errors
<1>16. CASE UNCHANGED vars
  BY <1>0, <1>16, KeepStep
  DEF IndInv, Flow, DataEnd, vars, streamVars, chainVars, dataVars, errVars
<1> QED
  BY <1>1, <1>2, <1>3, <1>4, <1>5, <1>6, <1>7, <1>8, <1>9, <1>10, <1>11, <1>12,
     <1>13, <1>14, <1>15, <1>16
  DEF Next, Environment, Produce, Collect, CollectNilErr

--------------------------------------------------------------------------------
\* The inductive invariant holds in every behaviour of the collector.
THEOREM Inductive == Spec => []IndInv
<1>1. Init => IndInv
  BY InitInd
<1>2. IndInv /\ [Next]_vars => IndInv'
  BY StepInd
<1> QED
  BY <1>1, <1>2, PTL DEF Spec

\* Every variable keeps its type, for any keys, page size and number of pages:
\* in particular the producer never blocks on the error channel of capacity 1.
THEOREM TypeCorrect == Spec => []TypeOK
<1>1. IndInv => TypeOK
  BY DEF IndInv
<1> QED
  BY <1>1, Inductive, PTL

\* The paged stream delivers strictly increasing keys: nothing twice, nothing
\* out of order, whatever the chain does between two page requests.
THEOREM DeliversInOrder == Spec => []InOrder
<1>1. IndInv => InOrder
  BY DEF IndInv
<1> QED
  BY <1>1, Inductive, PTL

\* A slice returned without an error, from a stream that reported none, holds
\* every item that was on chain for the whole call.
THEOREM SuccessIsComplete == Spec => []CompleteOnSuccess
<1>1. ASSUME IndInv, result = "ok", errChan = <<>>
      PROVE  stable \subseteq Items(out)
  <2>1. pc = "done" /\ dataChan = <<>>
    BY <1>1 DEF IndInv, DataEnd, TypeOK, StreamTypeOK
  <2>2. Flow = out
    BY <1>1, <2>1, ConcatEmptySeq DEF IndInv, TypeOK, Flow
  <2> QED
    BY <1>1, <2>1, <2>2 DEF IndInv, Located
<1>2. IndInv => CompleteOnSuccess
  BY <1>1 DEF CompleteOnSuccess
<1> QED
  BY <1>2, Inductive, PTL

--------------------------------------------------------------------------------
(* The collecting query and what was on chain.                              *)

\* A step moves the items under way by at most one, which comes from the page.
LEMMA FlowMoves ==
  ASSUME TypeOK, [Next]_vars
  PROVE  Flow' = Flow \/ \E k \in page : Flow' = Append(Flow, k)
<1> USE DEF Flow
<1>1. CASE SendItem /\ UNCHANGED <<out, result>>
  <2>1. PICK k \in page : dataChan' = Append(dataChan, k)
    BY <1>1 DEF SendItem
  <2>2. k \in Keys /\ out \in Seq(Keys) /\ dataChan \in Seq(Keys)
    BY DEF TypeOK, StreamTypeOK
  <2> QED
    BY <1>1, <2>1, <2>2, SendAppendsToFlow
<1>2. CASE CollectItem
  <2>1. /\ dataChan # <<>> /\ dataChan' = Tail(dataChan)
        /\ out' = Append(out, Head(dataChan))
    BY <1>2 DEF CollectItem, RecvItem
  <2> QED
    BY <2>1, ReceiveKeepsFlow DEF TypeOK, StreamTypeOK
<1>3. CASE UNCHANGED <<out, dataChan>>
  BY <1>3
<1>4. CASE (Environment \/ Produce) /\ UNCHANGED <<out, result>> /\ ~SendItem
  BY <1>3, <1>4
  DEF Environment, AddItem, RemoveItem, Cancel, Produce, QueryOk, QueryErr,
      SendCancelled, NextPage, EndOfPages, CloseErr, CloseData, dataVars
<1>5. CASE Collect /\ ~CollectItem
  BY <1>3, <1>5
  DEF Collect, CollectDone, CollectClosed, CollectErr, RecvErr, CollectNilErr,
      vars, streamVars, dataVars
<1>6. CASE UNCHANGED vars
  BY <1>3, <1>6 DEF vars, streamVars, dataVars
<1> QED
  BY <1>1, <1>2, <1>4, <1>5, <1>6 DEF Next

\* An answer holds items of the chain only; no other step adds to the page.
LEMMA PageFromStore ==
  ASSUME [Next]_vars
  PROVE  page' \subseteq page \cup store
<1>1. CASE QueryOk
  BY <1>1 DEF QueryOk, LastPage, FullPage, Matching
<1>2. CASE SendItem
  BY <1>2 DEF SendItem
<1>3. CASE UNCHANGED page
  BY <1>3
<1>4. CASE (Environment \/ Produce) /\ ~QueryOk /\ ~SendItem
  BY <1>3, <1>4
  DEF Environment, AddItem, RemoveItem, Cancel, Produce, QueryErr,
      SendCancelled, NextPage, EndOfPages, CloseErr, CloseData, pageVars
<1>5. CASE Collect
  BY <1>3, <1>5
  DEF Collect, CollectDone, CollectItem, RecvItem, CollectClosed, CollectErr,
      RecvErr, CollectNilErr, vars, streamVars, pageVars
<1>6. CASE UNCHANGED vars
  BY <1>3, <1>6 DEF vars, streamVars, pageVars
<1> QED
  BY <1>1, <1>2, <1>4, <1>5, <1>6 DEF Next

LEMMA FromChainInit == ListInit => FromChain
<1> SUFFICES ASSUME ListInit PROVE FromChain
  OBVIOUS
<1>1. IndInv
  BY InitInd DEF ListInit
<1>2. out = <<>> /\ dataChan = <<>> /\ page = {} /\ store \in SUBSET Keys /\ ever = store
  BY DEF ListInit, Init, StreamInit
<1>3. Flow = <<>>
  BY <1>2 DEF Flow
<1>4. Items(Flow) = {}
  BY <1>3 DEF Items
<1> QED
  BY <1>1, <1>2, <1>4 DEF FromChain

LEMMA FromChainStep ==
  ASSUME FromChain, [ListNext]_listedVars
  PROVE  FromChain'
<1>1. IndInv /\ TypeOK /\ [Next]_vars
  BY DEF FromChain, IndInv, ListNext, listedVars
<1>2. IndInv' /\ TypeOK'
  BY <1>1, StepInd DEF IndInv
<1>3. ever \subseteq ever' /\ store' \subseteq ever' /\ ever' \subseteq Keys
  <2>1. store' \subseteq Keys
    BY <1>2 DEF TypeOK, StreamTypeOK
  <2>2. ever' = ever \cup store' \/ (ever' = ever /\ store' = store)
    BY DEF ListNext, listedVars, vars, streamVars, chainVars
  <2> QED
    BY <2>1, <2>2 DEF FromChain
<1>4. page' \subseteq ever'
  BY <1>1, <1>3, PageFromStore DEF FromChain
<1>5. Items(Flow)' \subseteq ever'
  <2>1. CASE Flow' = Flow
    BY <1>3, <2>1 DEF FromChain, Items
  <2>2. CASE \E k \in page : Flow' = Append(Flow, k)
    <3>1. PICK k \in page : Flow' = Append(Flow, k)
      BY <2>2
    <3>2. Flow \in Seq(Keys) /\ Len(Flow) \in Nat
      BY <1>1, FlowType
    <3>3. /\ Len(Flow') = Len(Flow) + 1
          /\ \A i \in 1..Len(Flow) : Flow'[i] = Flow[i]
          /\ Flow'[Len(Flow) + 1] = k
      BY <3>1, <3>2, AppendProperties
    <3>4. \A i \in 1..Len(Flow') : Flow'[i] \in Items(Flow) \cup {k}
      BY <3>2, <3>3 DEF Items
    <3> QED
      BY <1>3, <3>1, <3>4 DEF FromChain, Items
  <2> QED
    BY <1>1, <2>1, <2>2, FlowMoves
<1> QED
  BY <1>2, <1>3, <1>4, <1>5 DEF FromChain

--------------------------------------------------------------------------------
(* The refinement.                                                         *)

LEMMA ListingInit == ListInit => Abstract!Init
BY DEF ListInit, Init, StreamInit, Abstract!Init, Outcome

\* A step of the chain is a change; it leaves the slice and the outcome alone.
LEMMA ChangeStep ==
  ASSUME FromChain, ListNext, Environment, UNCHANGED <<out, result>>
  PROVE  Abstract!Change
<1>1. /\ store' \in SUBSET Keys
      /\ stable' = stable \cap store'
      /\ errChan' = errChan
  BY DEF Environment, AddItem, RemoveItem, Cancel, chainVars, errVars,
         FromChain, IndInv, TypeOK, StreamTypeOK
<1> QED
  BY <1>1 DEF ListNext, Abstract!Change, Outcome

\* A step of the producer is invisible: when the call has ended without an error
\* the producer has ended too.
LEMMA ProduceStep ==
  ASSUME FromChain, ListNext, Produce, UNCHANGED <<out, result>>
  PROVE  UNCHANGED <<store, stable, ever, out, Outcome>>
<1>1. UNCHANGED <<store, stable>> /\ pc # "done"
  BY DEF Produce, QueryOk, QueryErr, SendItem, SendCancelled, NextPage,
         EndOfPages, CloseErr, CloseData, chainVars
<1>2. ever' = ever
  BY <1>1 DEF ListNext, FromChain
<1>3. result # "ok"
  BY <1>1 DEF FromChain, IndInv, DataEnd, TypeOK, StreamTypeOK
<1> QED
  BY <1>1, <1>2, <1>3 DEF Outcome

\* A received item is listed: it comes from the chain and is above the others.
LEMMA ItemStep ==
  ASSUME FromChain, ListNext, CollectItem, IndInv'
  PROVE  Abstract!List
<1>1. /\ UNCHANGED <<store, stable, errChan, result>> /\ result = "none"
      /\ dataChan # <<>> /\ out' = Append(out, Head(dataChan))
      /\ dataChan' = Tail(dataChan)
  BY DEF CollectItem, RecvItem, chainVars, errVars
<1>2. ever' = ever
  BY <1>1 DEF ListNext, FromChain
<1>3. /\ out \in Seq(Keys) /\ dataChan \in Seq(Keys) /\ Len(out) \in Nat
      /\ out' \in Seq(Keys) /\ dataChan' \in Seq(Keys)
  BY DEF IndInv, FromChain, TypeOK, StreamTypeOK
<1>4. Len(out') = Len(out) + 1 /\ \A i \in 1..Len(out) : out'[i] = out[i]
  <2>1. Head(dataChan) \in Keys
    BY <1>1, <1>3
  <2> QED
    BY <1>1, <1>3, <2>1, AppendProperties
<1>5. /\ Len(Flow') = Len(out') + Len(dataChan') /\ Len(dataChan') \in Nat
      /\ \A i \in 1..Len(out') : Flow'[i] = out'[i]
  <2>1. Len(dataChan') \in Nat /\ Len(out') \in Nat
    BY <1>3
  <2> QED
    BY <1>3, <2>1, ConcatProperties DEF Flow
<1>6. Flow' = Flow
  BY <1>1, <1>3, ReceiveKeepsFlow DEF Flow
<1>7. \A i \in 1..Len(out') : out'[i] \in ever
  BY <1>3, <1>4, <1>5, <1>6 DEF FromChain, Items
<1>8. out' \in Seq(ever)
  BY <1>3, <1>7, IsASeq
<1>9. \A i, j \in 1..Len(out') : i < j => out'[i] < out'[j]
  BY <1>3, <1>4, <1>5 DEF IndInv, InOrder
<1> QED
  BY <1>1, <1>2, <1>3, <1>4, <1>8, <1>9 DEF Abstract!List, Outcome

\* The other steps of the select loop end the call, or go round in it.
LEMMA EndStep ==
  ASSUME FromChain, ListNext, Collect, ~CollectItem, IndInv'
  PROVE  Abstract!Finish \/ UNCHANGED <<store, stable, ever, out, Outcome>>
<1>1. UNCHANGED <<store, stable, out>>
  BY DEF Collect, CollectDone, CollectClosed, CollectErr, RecvErr,
         CollectNilErr, vars, streamVars, chainVars
<1>2. ever' = ever
  BY <1>1 DEF ListNext, FromChain
<1>3. CASE CollectDone \/ CollectErr
  <2>1. result = "none" /\ result' \in {"rpc", "ctx"}
    BY <1>3 DEF CollectDone, CollectErr, Errors
  <2> QED
    BY <1>1, <1>2, <2>1 DEF Abstract!Finish, Outcome
<1>4. CASE CollectClosed
  <2>1. /\ result = "none" /\ result' = "ok"
        /\ UNCHANGED <<dataChan, dataClosed, errChan, pc>>
        /\ dataClosed /\ dataChan = <<>>
    BY <1>4 DEF CollectClosed, DataEnd, streamVars, dataVars, errVars
  <2>2. CASE errChan = <<>>
    <3>1. \A k \in stable : Located(k)
      BY <2>1, <2>2 DEF FromChain, IndInv
    <3>2. pc = "done"
      BY <2>1 DEF FromChain, IndInv, TypeOK, StreamTypeOK
    <3>3. Flow = out
      BY <2>1, ConcatEmptySeq DEF FromChain, IndInv, TypeOK, Flow
    <3>4. \A k \in stable : \E i \in 1..Len(out) : out[i] = k
      BY <3>1, <3>2, <3>3 DEF Located, Items
    <3> QED
      BY <1>1, <1>2, <2>1, <2>2, <3>4 DEF Abstract!Finish, Outcome
  <2>3. CASE errChan # <<>>
    BY <1>1, <1>2, <2>1, <2>3 DEF Abstract!Finish, Outcome
  <2> QED
    BY <2>2, <2>3
<1>5. CASE CollectNilErr
  BY <1>1, <1>2, <1>5 DEF CollectNilErr, vars, streamVars, errVars, Outcome
<1> QED
  BY <1>3, <1>4, <1>5 DEF Collect

LEMMA ListingStep ==
  ASSUME FromChain, [ListNext]_listedVars
  PROVE  [Abstract!Next]_<<store, stable, ever, out, Outcome>>
<1>0. IndInv'
  BY FromChainStep DEF FromChain
<1>1. CASE ListNext
  BY <1>0, <1>1, ChangeStep, ProduceStep, ItemStep, EndStep
  DEF ListNext, Next, Abstract!Next
<1>2. CASE UNCHANGED listedVars
  BY <1>2 DEF listedVars, vars, streamVars, chainVars, errVars, Outcome
<1> QED
  BY <1>1, <1>2

\* Whatever is on its way to the caller was on chain during the call.
THEOREM ComesFromChain == ListSpec => []FromChain
BY FromChainInit, FromChainStep, PTL DEF ListSpec

\* The collecting query implements the listing: the slice grows in key order out
\* of items of the chain, and a call that ends without an error is complete.
THEOREM CollectorImplementsListing == ListSpec => ImplementsListing
<1>1. ListInit => Abstract!Init
  BY ListingInit
<1>2. FromChain /\ [ListNext]_listedVars => [Abstract!Next]_Abstract!listingVars
  BY ListingStep DEF Abstract!listingVars
<1> QED
  BY <1>1, <1>2, ComesFromChain, PTL DEF ListSpec, ImplementsListing, Abstract!Spec

--------------------------------------------------------------------------------
(* GetAccountValue.                                                        *)

LEMMA MembersOfAppend ==
  ASSUME NEW S, NEW s \in Seq(S), NEW x \in S
  PROVE  Members(Append(s, x)) = Members(s) \cup {x}
<1>1. /\ Len(Append(s, x)) = Len(s) + 1
      /\ \A i \in 1..Len(s) : Append(s, x)[i] = s[i]
      /\ Append(s, x)[Len(s) + 1] = x
  BY AppendProperties
<1>2. Len(s) \in Nat
  BY LenProperties
<1>3. 1..(Len(s) + 1) = (1..Len(s)) \cup {Len(s) + 1}
  BY <1>2
<1> QED
  BY <1>1, <1>2, <1>3 DEF Members

LEMMA MembersOfTail ==
  ASSUME NEW S, NEW s \in Seq(S), s # <<>>
  PROVE  Members(s) = {Head(s)} \cup Members(Tail(s))
<1>1. /\ Len(Tail(s)) = Len(s) - 1
      /\ \A i \in 1..Len(Tail(s)) : Tail(s)[i] = s[i + 1]
      /\ Head(s) = s[1]
  BY HeadTailProperties
<1>2. Len(s) \in Nat \ {0}
  BY EmptySeq
<1>3. \A i \in 1..Len(s) : i = 1 \/ (i - 1 \in 1..Len(Tail(s)) /\ s[i] = Tail(s)[i - 1])
  BY <1>1, <1>2
<1>4. Members(s) \subseteq {Head(s)} \cup Members(Tail(s))
  BY <1>1, <1>3 DEF Members
<1>5. \A i \in 1..Len(Tail(s)) : i + 1 \in 1..Len(s)
  BY <1>1, <1>2
<1> QED
  BY <1>1, <1>2, <1>4, <1>5 DEF Members

LEMMA EmptyHasNone == Members(<<>>) = {}
BY DEF Members

\* What a receive from the ordered data channel takes is below what is left.
LEMMA HeadIsFirst ==
  ASSUME NEW s \in Seq(Nat), s # <<>>,
         \A i, j \in 1..Len(s) : i < j => s[i] < s[j]
  PROVE  /\ \A i, j \in 1..Len(Tail(s)) : i < j => Tail(s)[i] < Tail(s)[j]
         /\ \A m \in Members(Tail(s)) : Head(s) < m
<1>1. /\ Len(Tail(s)) = Len(s) - 1
      /\ \A i \in 1..Len(Tail(s)) : Tail(s)[i] = s[i + 1]
      /\ Head(s) = s[1]
  BY HeadTailProperties
<1>2. Len(s) \in Nat \ {0}
  BY EmptySeq
<1> QED
  BY <1>1, <1>2 DEF Members

--------------------------------------------------------------------------------
(* The type invariant.                                                     *)

LEMMA TypeInit == ValueInit => ValueTypeOK
<1> SUFFICES ASSUME ValueInit PROVE ValueTypeOK
  OBVIOUS
<1>1. /\ dataChan = <<>> /\ errChan = <<>> /\ resultsChan = <<>>
      /\ dataClosed = FALSE /\ errClosed = FALSE /\ pc = "query"
  BY DEF ValueInit, StreamInit
<1>2. /\ dataChan \in Seq(Keys) /\ Len(dataChan) = 0
      /\ errChan \in Seq(Errors) /\ Len(errChan) = 0
      /\ resultsChan \in Seq(NftKeys) /\ Len(resultsChan) = 0
  BY <1>1, EmptySeq
<1>3. Len(dataChan) <= PageSize /\ Len(errChan) <= 1 /\ Len(resultsChan) <= 1
  BY <1>2, StreamAssumption
<1>4. /\ store \in SUBSET Keys /\ stable \in SUBSET store /\ page \in SUBSET Keys
      /\ nextKey \in Keys \cup {0} /\ resNext \in Keys \cup {0}
      /\ ctx \in {"live", "done"}
  BY DEF ValueInit, StreamInit
<1>5. /\ dataClosed \in BOOLEAN /\ (dataClosed <=> pc = "done")
      /\ errClosed \in BOOLEAN /\ (errClosed <=> pc \in {"closeData", "done"})
  BY <1>1
<1>6. StreamTypeOK
  BY <1>1, <1>2, <1>3, <1>4, <1>5 DEF StreamTypeOK
<1>7. /\ mpc \in {"loop", "submit", "wait", "total", "returned"}
      /\ pending \in NftKeys \cup {0}
      /\ returns \in {"none", "value", "nil"} \cup Errors
      /\ worker \in [NftKeys -> {"none", "nav", "send", "other", "failed", "sent"}]
      /\ wg \in Nat /\ resultsClosed \in BOOLEAN
      /\ tpc \in {"sum", "done"} /\ total \in SUBSET NftKeys
  BY DEF ValueInit
<1> QED
  BY <1>2, <1>3, <1>6, <1>7 DEF ValueTypeOK

LEMMA StreamTypeStep ==
  ASSUME StreamTypeOK, pc \in {"query", "send"} => errChan = <<>>,
         Environment \/ Produce
  PROVE  StreamTypeOK'
<1> USE StreamAssumption DEF StreamTypeOK, Errors
<1>1. CASE \E k \in Keys : AddItem(k)
  BY <1>1 DEF AddItem, pageVars, dataVars, errVars
<1>2. CASE \E k \in Keys : RemoveItem(k)
  BY <1>2 DEF RemoveItem, pageVars, dataVars, errVars
<1>3. CASE Cancel
  BY <1>3 DEF Cancel, chainVars, pageVars, dataVars, errVars
<1>4. CASE QueryOk
  <2>1. page' \in SUBSET Keys /\ resNext' \in Keys \cup {0}
    BY <1>4 DEF QueryOk, LastPage, FullPage, Matching
  <2> QED
    BY <1>4, <2>1 DEF QueryOk, chainVars, dataVars, errVars
<1>5. CASE QueryErr
  <2>1. errChan' \in Seq(Errors) /\ Len(errChan') <= 1
    BY <1>5 DEF QueryErr
  <2> QED
    BY <1>5, <2>1 DEF QueryErr, chainVars, pageVars, dataVars
<1>11. CASE SendCancelled
  <2>1. errChan' \in Seq(Errors) /\ Len(errChan') <= 1
    BY <1>11 DEF SendCancelled
  <2> QED
    BY <1>11, <2>1 DEF SendCancelled, chainVars, pageVars, dataVars
<1>6. CASE SendItem
  <2>1. dataChan' \in Seq(Keys) /\ Len(dataChan') <= PageSize /\ page' \in SUBSET Keys
    BY <1>6 DEF SendItem
  <2> QED
    BY <1>6, <2>1 DEF SendItem, chainVars, errVars
<1>7. CASE NextPage
  BY <1>7 DEF NextPage, chainVars, dataVars, errVars
<1>8. CASE EndOfPages
  BY <1>8 DEF EndOfPages, chainVars, pageVars, dataVars, errVars
<1>9. CASE CloseErr
  BY <1>9 DEF CloseErr, chainVars, pageVars, dataVars
<1>10. CASE CloseData
  BY <1>10 DEF CloseData, chainVars, pageVars, errVars
<1> QED
  BY <1>1, <1>2, <1>3, <1>4, <1>5, <1>6, <1>7, <1>8, <1>9, <1>10, <1>11
  DEF Environment, Produce

\* The receives of the main loop.
LEMMA ReceiveTypeStep ==
  ASSUME StreamTypeOK, \/ \E k \in Keys : RecvItem(k)
                       \/ \E e \in Errors : RecvErr(e)
                       \/ UNCHANGED streamVars
  PROVE  StreamTypeOK'
<1> USE DEF StreamTypeOK
<1>1. CASE \E k \in Keys : RecvItem(k)
  <2>1. dataChan' \in Seq(Keys) /\ Len(dataChan') <= PageSize
    BY <1>1, StreamAssumption, HeadTailProperties, LenProperties DEF RecvItem
  <2> QED
    BY <1>1, <2>1 DEF RecvItem, chainVars, pageVars, errVars
<1>2. CASE \E e \in Errors : RecvErr(e)
  <2>1. errChan' \in Seq(Errors) /\ Len(errChan') <= 1
    BY <1>2, HeadTailProperties, LenProperties DEF RecvErr
  <2> QED
    BY <1>2, <2>1 DEF RecvErr, chainVars, pageVars, dataVars
<1>3. CASE UNCHANGED streamVars
  BY <1>3 DEF streamVars, chainVars, pageVars, dataVars, errVars
<1> QED
  BY <1>1, <1>2, <1>3

\* What the steps of the call do to the stream.
LEMMA CallOnStream ==
  ASSUME Main \/ (\E k \in NftKeys : Task(k)) \/ Sum
  PROVE  \/ \E k \in Keys : RecvItem(k)
         \/ \E e \in Errors : RecvErr(e)
         \/ UNCHANGED streamVars
<1>1. NftKeys \subseteq Keys
  BY ValueAssumption
<1> QED
  BY <1>1 DEF Main, LoopDone, LoopClosed, LoopErr, LoopNilErr, LoopOther, LoopNft, Submit,
     WaitAndClose, ReceiveTotal, Task, NavUsd, NavOther, NavPanic, SendResult, Finish,
     Sum, SumResult, SumDone

LEMMA ValueTypeStep ==
  ASSUME ValueInv, [ValueNext]_callVars
  PROVE  ValueTypeOK'
<1>1. StreamTypeOK'
  <2>1. StreamTypeOK /\ (pc \in {"query", "send"} => errChan = <<>>)
    BY DEF ValueInv, ValueTypeOK, StreamOrder
  <2> QED
    BY <2>1, StreamTypeStep, ReceiveTypeStep, CallOnStream DEF ValueNext, callVars
<1> USE DEF ValueInv, ValueTypeOK
<1>2. CASE UNCHANGED valueVars
  BY <1>1, <1>2 DEF valueVars, mainVars, totalVars, resultVars
<1>3. CASE Main
  <2>1. CASE LoopDone \/ LoopClosed \/ LoopErr \/ LoopNilErr
    BY <1>1, <2>1 DEF LoopDone, LoopClosed, LoopErr, LoopNilErr, Leave, Errors,
                     totalVars, resultVars
  <2>2. CASE LoopOther
    BY <1>1, <2>2 DEF LoopOther, mainVars, totalVars, resultVars
  <2>3. CASE LoopNft
    BY <1>1, <2>3 DEF LoopNft, totalVars, resultVars
  <2>4. CASE Submit
    BY <1>1, <2>4 DEF Submit, totalVars, resultVars
  <2>5. CASE WaitAndClose \/ ReceiveTotal
    BY <1>1, <2>5 DEF WaitAndClose, ReceiveTotal, totalVars, resultVars
  <2> QED
    BY <1>3, <2>1, <2>2, <2>3, <2>4, <2>5 DEF Main
<1>4. ASSUME NEW k \in NftKeys, Task(k) PROVE ValueTypeOK'
  <2>1. CASE NavUsd(k)
    BY <1>1, <2>1 DEF NavUsd, mainVars, totalVars, resultVars
  <2>2. ASSUME worker[k] \in {"nav", "send"}, wg' = wg - 1 PROVE wg' \in Nat
    <3>1. k \in Busy
      BY <2>2 DEF Busy
    <3>2. Cardinality(Busy) \in Nat /\ Cardinality(Busy) # 0
      BY <3>1, FS_CardinalityType, FS_EmptySet DEF Tasks
    <3> QED
      BY <2>2, <3>2 DEF Tasks
  <2>3. CASE NavOther(k) \/ NavPanic(k)
    BY <1>1, <2>2, <2>3 DEF NavOther, NavPanic, Finish, mainVars, totalVars, resultVars
  <2>4. CASE SendResult(k)
    <3>1. resultsChan' \in Seq(NftKeys) /\ Len(resultsChan') <= 1
      BY <2>4, AppendProperties, LenProperties DEF SendResult
    <3> QED
      BY <1>1, <2>2, <2>4, <3>1 DEF SendResult, Finish, mainVars, totalVars
  <2> QED
    BY <1>4, <2>1, <2>3, <2>4 DEF Task
<1>5. CASE SumResult
  <2>1. /\ resultsChan' \in Seq(NftKeys) /\ Len(resultsChan') <= 1
        /\ Head(resultsChan) \in NftKeys
    BY <1>5, HeadTailProperties, LenProperties DEF SumResult
  <2> QED
    BY <1>1, <1>5, <2>1 DEF SumResult, mainVars
<1>6. CASE SumDone
  BY <1>1, <1>6 DEF SumDone, mainVars, resultVars
<1> QED
  BY <1>2, <1>3, <1>4, <1>5, <1>6 DEF ValueNext, Sum, callVars, valueVars

--------------------------------------------------------------------------------
(* The order of the stream.                                                *)

LEMMA Numbers ==
  ASSUME ValueTypeOK
  PROVE  /\ Keys \subseteq Nat \ {0}
         /\ Given \subseteq Keys /\ Members(dataChan) \subseteq Keys /\ Delivered \subseteq Keys
         /\ page \subseteq Keys
         /\ nextKey \in Nat /\ resNext \in Nat
         /\ dataChan \in Seq(Keys) /\ dataChan \in Seq(Nat) /\ Len(dataChan) \in Nat
<1> USE DEF ValueTypeOK, StreamTypeOK
<1>1. Keys \subseteq Nat \ {0} /\ NftKeys \subseteq Keys
  BY StreamAssumption, ValueAssumption
<1>2. dataChan \in Seq(Keys) /\ dataChan \in Seq(Nat) /\ Len(dataChan) \in Nat
  BY <1>1, SeqMonotonic, LenProperties
<1>3. Members(dataChan) \subseteq Keys
  BY <1>2, ElementOfSeq DEF Members
<1>4. Given \subseteq Keys
  BY <1>1 DEF Given
<1>5. page \subseteq Keys /\ nextKey \in Nat /\ resNext \in Nat
  BY <1>1
<1>6. Delivered \subseteq Keys
  BY <1>3, <1>4 DEF Delivered
<1> QED
  BY <1>1, <1>2, <1>3, <1>4, <1>5, <1>6

\* Only the receive of an NFT balance changes what the main loop has taken.
LEMMA GivenKept ==
  ASSUME ValueInv, [ValueNext]_callVars, ~LoopNft
  PROVE  Given' = Given
<1> USE DEF Given, ValueInv
<1>1. CASE UNCHANGED valueVars
  BY <1>1 DEF valueVars, mainVars
<1>2. CASE LoopDone \/ LoopClosed \/ LoopErr \/ LoopNilErr
  BY <1>2 DEF LoopDone, LoopClosed, LoopErr, LoopNilErr, Leave
<1>3. CASE LoopOther
  BY <1>3 DEF LoopOther, mainVars
<1>4. CASE Submit
  <2>1. pending \in NftKeys /\ \A k \in NftKeys :
          worker'[k] = IF k = pending THEN "nav" ELSE worker[k]
    BY <1>4 DEF Submit, ValueTypeOK, Tasks
  <2> QED
    BY <1>4, <2>1 DEF Submit
<1>5. CASE WaitAndClose \/ ReceiveTotal
  BY <1>5 DEF WaitAndClose, ReceiveTotal
<1>6. ASSUME NEW k \in NftKeys, Task(k) PROVE Given' = Given
  <2>1. /\ worker[k] # "none" /\ worker'[k] # "none"
        /\ \A j \in NftKeys : j # k => worker'[j] = worker[j]
        /\ UNCHANGED <<mpc, pending>>
    BY <1>6 DEF Task, NavUsd, NavOther, NavPanic, SendResult, Finish, mainVars, ValueTypeOK
  <2> QED
    BY <2>1
<1>7. CASE Sum
  BY <1>7 DEF Sum, SumResult, SumDone, mainVars
<1> QED
  BY <1>1, <1>2, <1>3, <1>4, <1>5, <1>6, <1>7 DEF ValueNext, Main, callVars, valueVars

\* The bounds of what an answer brings.
LEMMA AnswerBounds ==
  ASSUME ValueTypeOK, QueryOk
  PROVE  /\ \A k \in page' : k \in Keys /\ nextKey <= k /\ (resNext' # 0 => k < resNext')
         /\ resNext' # 0 => resNext' \in Keys /\ nextKey <= resNext'
         /\ \A k \in store : nextKey <= k => k \in page' \/ (resNext' # 0 /\ resNext' <= k)
<1>1. \A k \in Keys : k \in Nat \ {0}
  BY StreamAssumption
<1>2. CASE LastPage
  BY <1>2 DEF LastPage, Matching, ValueTypeOK, StreamTypeOK
<1>3. CASE FullPage
  BY <1>1, <1>3 DEF FullPage, Matching, ValueTypeOK, StreamTypeOK
<1> QED
  BY <1>2, <1>3 DEF QueryOk

LEMMA OrderStream ==
  ASSUME ValueInv, Environment \/ Produce, Given' = Given
  PROVE  StreamOrder'
<1>0. ValueTypeOK /\ StreamOrder
  BY DEF ValueInv
<1> USE <1>0 DEF StreamOrder
<1>1. CASE Environment
  BY <1>1 DEF Environment, AddItem, RemoveItem, Cancel, pageVars, dataVars, errVars, Delivered
<1>2. CASE QueryOk
  <2>1. /\ pc = "query" /\ pc' = "send"
        /\ UNCHANGED <<nextKey, dataChan, errChan>> /\ Delivered' = Delivered
    BY <1>2 DEF QueryOk, dataVars, errVars, Delivered
  <2>2. \A k \in page' : /\ \A g \in Delivered : g < k
                         /\ resNext' # 0 => k < resNext'
    BY <1>2, <2>1, AnswerBounds, Numbers
  <2>3. resNext' # 0 => \A g \in Delivered : g < resNext'
    BY <1>2, <2>1, AnswerBounds, Numbers
  <2> QED
    BY <2>1, <2>2, <2>3
<1>3. CASE QueryErr \/ SendCancelled \/ EndOfPages \/ CloseErr \/ CloseData
  <2>1. UNCHANGED dataChan /\ pc' \notin {"query", "send"}
    BY <1>3 DEF QueryErr, SendCancelled, EndOfPages, CloseErr, CloseData, dataVars
  <2> QED
    BY <2>1
<1>4. CASE SendItem
  <2>1. PICK k \in page : /\ \A j \in page : k <= j
                          /\ dataChan' = Append(dataChan, k)
                          /\ page' = page \ {k}
    BY <1>4 DEF SendItem
  <2>2. pc = "send" /\ UNCHANGED <<pc, resNext, errChan>>
    BY <1>4 DEF SendItem, errVars
  <2>3. k \in Nat /\ k \in Keys
    BY <2>1, Numbers
  <2>4. Members(dataChan') = Members(dataChan) \cup {k} /\ Delivered' = Delivered \cup {k}
    BY <2>1, <2>3, Numbers, MembersOfAppend DEF Delivered
  <2>5. \A i, j \in 1..Len(dataChan') : i < j => dataChan'[i] < dataChan'[j]
    <3>1. /\ Len(dataChan') = Len(dataChan) + 1
          /\ \A i \in 1..Len(dataChan) : dataChan'[i] = dataChan[i]
          /\ dataChan'[Len(dataChan) + 1] = k
      BY <2>1, <2>3, Numbers, AppendProperties
    <3>2. \A i \in 1..Len(dataChan) : dataChan[i] < k
      BY <2>2 DEF Delivered, Members
    <3>3. SUFFICES ASSUME NEW i \in 1..Len(dataChan) + 1, NEW j \in 1..Len(dataChan) + 1, i < j
          PROVE  dataChan'[i] < dataChan'[j]
      BY <3>1
    <3>4. Len(dataChan) \in Nat
      BY Numbers
    <3>5. CASE j \in 1..Len(dataChan)
      BY <3>1, <3>3, <3>4, <3>5
    <3>6. CASE j = Len(dataChan) + 1
      BY <3>1, <3>2, <3>3, <3>4, <3>6
    <3> QED
      BY <3>3, <3>4, <3>5, <3>6
  <2>6. \A g \in Given : g < k
    BY <2>2 DEF Delivered
  <2>7. \A j \in page' : /\ \A g \in Delivered' : g < j
                         /\ resNext # 0 => j < resNext
    BY <2>1, <2>2, <2>3, <2>4, Numbers
  <2>8. resNext # 0 => \A g \in Delivered' : g < resNext
    BY <2>2, <2>4
  <2> QED
    BY <2>2, <2>4, <2>5, <2>6, <2>7, <2>8
<1>5. CASE NextPage
  <2>1. /\ pc = "send" /\ pc' = "query" /\ resNext # 0 /\ nextKey' = resNext
        /\ UNCHANGED <<dataChan, errChan>> /\ Delivered' = Delivered
    BY <1>5 DEF NextPage, dataVars, errVars, Delivered
  <2> QED
    BY <2>1
<1> QED
  BY <1>1, <1>2, <1>3, <1>4, <1>5 DEF Produce

\* A receive takes the first item of the data channel, which is new.
LEMMA ReceiveIsNew ==
  ASSUME ValueInv, NEW k \in Keys, RecvItem(k)
  PROVE  /\ Members(dataChan) = {k} \cup Members(dataChan')
         /\ \A i, j \in 1..Len(dataChan') : i < j => dataChan'[i] < dataChan'[j]
         /\ \A m \in Members(dataChan') : k < m
         /\ k \notin Given
<1>1. /\ dataChan # <<>> /\ k = Head(dataChan) /\ dataChan' = Tail(dataChan)
  BY DEF RecvItem
<1>2. ValueTypeOK /\ StreamOrder
  BY DEF ValueInv
<1>3. Members(dataChan) = {k} \cup Members(dataChan')
  BY <1>1, <1>2, Numbers, MembersOfTail
<1>4. k \notin Given
  <2>1. k \in Nat /\ k \in Members(dataChan)
    BY <1>2, <1>3, Numbers
  <2>2. \A g \in Given : g < k
    BY <1>2, <2>1 DEF StreamOrder
  <2>3. ~(k < k)
    BY <2>1
  <2> QED
    BY <2>2, <2>3
<1> QED
  BY <1>1, <1>2, <1>3, <1>4, Numbers, HeadIsFirst DEF StreamOrder

LEMMA OrderStep ==
  ASSUME ValueInv, [ValueNext]_callVars
  PROVE  StreamOrder'
<1>1. ValueTypeOK /\ StreamOrder
  BY DEF ValueInv
<1>2. CASE (Environment \/ Produce) /\ UNCHANGED valueVars
  <2>1. Given' = Given
    BY <1>2 DEF valueVars, mainVars, Given
  <2> QED
    BY <1>2, <2>1, OrderStream
<1>3. CASE Given' = Given /\ UNCHANGED <<pc, pageVars, dataChan>>
           /\ (errChan = <<>> => errChan' = <<>>)
  BY <1>1, <1>3 DEF StreamOrder, Delivered, pageVars
<1>4. CASE UNCHANGED streamVars /\ Given' = Given
  BY <1>3, <1>4 DEF streamVars, pageVars, dataVars, errVars
<1>5. CASE LoopErr
  <2>1. ~LoopNft
    BY <1>5 DEF LoopErr, LoopNft, Leave
  <2>2. UNCHANGED <<pc, pageVars, dataChan>> /\ (errChan = <<>> => errChan' = <<>>)
    BY <1>5 DEF LoopErr, RecvErr, dataVars
  <2> QED
    BY <1>3, <2>1, <2>2, GivenKept
<1>6. CASE LoopOther \/ LoopNft
  <2>1. PICK k \in Keys : RecvItem(k) /\ Given' \subseteq Given \cup {k}
    <3>1. CASE LoopOther
      BY <3>1 DEF LoopOther, mainVars, Given
    <3>2. CASE LoopNft
      BY <3>2, ValueAssumption DEF LoopNft, Given
    <3> QED
      BY <1>6, <3>1, <3>2
  <2>2. UNCHANGED <<pc, pageVars, errChan>>
    BY <2>1 DEF RecvItem, errVars
  <2>3. /\ Members(dataChan) = {k} \cup Members(dataChan')
        /\ \A i, j \in 1..Len(dataChan') : i < j => dataChan'[i] < dataChan'[j]
        /\ \A m \in Members(dataChan') : k < m
    BY <2>1, ReceiveIsNew
  <2>4. Delivered' \subseteq Delivered
    BY <2>1, <2>3 DEF Delivered
  <2> QED
    BY <1>1, <2>1, <2>2, <2>3, <2>4 DEF StreamOrder, pageVars
<1>7. CASE ~LoopNft /\ ~LoopErr /\ ~LoopOther
           /\ (Main \/ (\E k \in NftKeys : Task(k)) \/ Sum \/ UNCHANGED callVars)
  <2>1. UNCHANGED streamVars
    BY <1>7 DEF Main, LoopDone, LoopClosed, LoopNilErr, Submit, WaitAndClose, ReceiveTotal,
       Task, NavUsd, NavOther, NavPanic, SendResult, Finish, Sum, SumResult, SumDone, callVars
  <2> QED
    BY <1>4, <1>7, <2>1, GivenKept
<1> QED
  BY <1>2, <1>5, <1>6, <1>7 DEF ValueNext

--------------------------------------------------------------------------------
(* The work handed out.                                                    *)

LEMMA TaskSteps ==
  ASSUME ValueInv, NEW k \in NftKeys, Task(k)
  PROVE  Tasks'
<1>0. ValueTypeOK /\ Tasks
  BY DEF ValueInv
<1>1. /\ k \in Busy /\ worker[k] \in {"nav", "send"}
      /\ UNCHANGED <<mpc, pending, returns, tpc, total, resultsClosed>>
      /\ worker' = [worker EXCEPT ![k] = worker'[k]]
  BY <1>0 DEF Task, NavUsd, NavOther, NavPanic, SendResult, Finish, Busy, mainVars,
     totalVars, resultVars, ValueTypeOK
<1>2. /\ ~resultsClosed /\ mpc \notin {"total", "returned"} /\ tpc # "done"
      /\ mpc = "submit" => pending # k
  BY <1>0, <1>1 DEF Tasks
<1>3. \A j \in NftKeys : j # k => worker'[j] = worker[j]
  BY <1>0, <1>1 DEF ValueTypeOK
<1>4. IsFiniteSet(Busy') /\ wg' = Cardinality(Busy') + (IF mpc' = "submit" THEN 1 ELSE 0)
  <2>1. CASE NavUsd(k)
    <3>1. worker'[k] = "send" /\ wg' = wg
      BY <1>0, <2>1 DEF NavUsd, ValueTypeOK
    <3>2. Busy' = Busy
      BY <1>1, <1>3, <3>1 DEF Busy
    <3> QED
      BY <1>0, <1>1, <3>1, <3>2 DEF Tasks
  <2>2. CASE NavOther(k) \/ NavPanic(k) \/ SendResult(k)
    <3>1. worker'[k] \notin {"nav", "send"} /\ wg' = wg - 1
      BY <1>0, <2>2 DEF NavOther, NavPanic, SendResult, Finish, ValueTypeOK
    <3>2. Busy' = Busy \ {k}
      BY <1>1, <1>3, <3>1 DEF Busy
    <3>3. IsFiniteSet(Busy') /\ Cardinality(Busy') = Cardinality(Busy) - 1
      BY <1>0, <1>1, <3>2, FS_RemoveElement DEF Tasks
    <3>4. Cardinality(Busy) \in Nat
      BY <1>0, FS_CardinalityType DEF Tasks
    <3> QED
      BY <1>0, <1>1, <3>1, <3>3, <3>4 DEF Tasks
  <2> QED
    BY <2>1, <2>2 DEF Task
<1>5. mpc' = "submit" => pending' \in NftKeys /\ worker'[pending'] = "none"
  BY <1>0, <1>1, <1>2, <1>3 DEF Tasks
<1>6. \A j \in NftKeys : worker'[j] = "sent" => j \in total' \cup Members(resultsChan')
  <2>1. CASE SendResult(k)
    <3>1. Members(resultsChan') = Members(resultsChan) \cup {k}
      BY <1>0, <2>1, MembersOfAppend DEF SendResult, ValueTypeOK
    <3> QED
      BY <1>0, <1>1, <1>3, <3>1 DEF Tasks
  <2>2. CASE NavUsd(k) \/ NavOther(k) \/ NavPanic(k)
    <3>1. worker'[k] # "sent" /\ resultsChan' = resultsChan
      BY <1>0, <2>2 DEF NavUsd, NavOther, NavPanic, Finish, resultVars, ValueTypeOK
    <3> QED
      BY <1>0, <1>1, <1>3, <3>1 DEF Tasks
  <2> QED
    BY <2>1, <2>2 DEF Task
<1>7. resultsClosed' = resultsClosed
  BY <1>1
<1> QED
  BY <1>0, <1>1, <1>2, <1>4, <1>5, <1>6, <1>7 DEF Tasks

LEMMA TasksStep ==
  ASSUME ValueInv, [ValueNext]_callVars
  PROVE  Tasks'
<1>0. ValueTypeOK /\ Tasks
  BY DEF ValueInv
<1>1. CASE UNCHANGED valueVars
  BY <1>0, <1>1 DEF Tasks, Busy, valueVars, mainVars, totalVars, resultVars
<1>2. CASE LoopDone \/ LoopClosed \/ LoopErr \/ LoopNilErr
  <2>1. /\ mpc = "loop" /\ mpc' = "wait" /\ returns' # "none"
        /\ UNCHANGED <<pending, worker, wg, resultsChan, resultsClosed, tpc, total>>
    BY <1>2 DEF LoopDone, LoopClosed, LoopErr, LoopNilErr, Leave, Errors,
       totalVars, resultVars
  <2> QED
    BY <1>0, <2>1 DEF Tasks, Busy
<1>3. CASE LoopOther
  BY <1>0, <1>3 DEF LoopOther, Tasks, Busy, mainVars, totalVars, resultVars
<1>4. CASE LoopNft
  <2>1. PICK k \in NftKeys : RecvItem(k) /\ pending' = k
    BY <1>4 DEF LoopNft
  <2>2. worker[k] = "none"
    <3>1. k \notin Given
      BY <2>1, ReceiveIsNew, ValueAssumption
    <3> QED
      BY <3>1 DEF Given
  <2>3. /\ mpc = "loop" /\ mpc' = "submit" /\ wg' = wg + 1
        /\ UNCHANGED <<returns, worker, resultsChan, resultsClosed, tpc, total>>
        /\ Busy' = Busy
    BY <1>4 DEF LoopNft, resultVars, totalVars, Busy
  <2>4. Cardinality(Busy) \in Nat
    BY <1>0, FS_CardinalityType DEF Tasks
  <2>5. wg' = Cardinality(Busy') + (IF mpc' = "submit" THEN 1 ELSE 0)
    BY <1>0, <2>3, <2>4 DEF Tasks
  <2> QED
    BY <1>0, <2>1, <2>2, <2>3, <2>5 DEF Tasks
<1>5. CASE Submit
  <2>1. /\ mpc = "submit" /\ mpc' = "loop"
        /\ UNCHANGED <<returns, wg, resultsChan, resultsClosed, tpc, total>>
        /\ pending \in NftKeys /\ worker[pending] = "none"
        /\ \A j \in NftKeys : worker'[j] = IF j = pending THEN "nav" ELSE worker[j]
    BY <1>0, <1>5 DEF Submit, resultVars, totalVars, Tasks, ValueTypeOK
  <2>2. Busy' = Busy \cup {pending} /\ pending \notin Busy
    BY <2>1 DEF Busy
  <2>3. IsFiniteSet(Busy') /\ Cardinality(Busy') = Cardinality(Busy) + 1
    BY <1>0, <2>2, FS_AddElement DEF Tasks
  <2>4. Cardinality(Busy) \in Nat
    BY <1>0, FS_CardinalityType DEF Tasks
  <2>5. wg' = Cardinality(Busy') + (IF mpc' = "submit" THEN 1 ELSE 0)
    BY <1>0, <2>1, <2>3, <2>4 DEF Tasks
  <2>6. \A k \in NftKeys : worker'[k] = "sent" => k \in total' \cup Members(resultsChan')
    BY <1>0, <2>1 DEF Tasks
  <2>7. ~resultsClosed /\ tpc # "done" /\ returns = "none"
    BY <1>0, <2>1 DEF Tasks
  <2> QED
    BY <2>1, <2>3, <2>5, <2>6, <2>7 DEF Tasks
<1>6. CASE WaitAndClose
  <2>1. /\ mpc = "wait" /\ wg = 0 /\ resultsClosed' = TRUE
        /\ mpc' = IF returns = "value" THEN "total" ELSE "returned"
        /\ UNCHANGED <<pending, returns, worker, wg, resultsChan, tpc, total>>
        /\ Busy' = Busy
    BY <1>6 DEF WaitAndClose, totalVars, Busy
  <2>2. Cardinality(Busy) = 0
    BY <1>0, <2>1, FS_CardinalityType DEF Tasks
  <2>3. Busy = {}
    BY <1>0, <2>2, FS_EmptySet DEF Tasks
  <2>4. wg' = Cardinality(Busy') + (IF mpc' = "submit" THEN 1 ELSE 0)
    BY <2>1, <2>2
  <2> QED
    BY <1>0, <2>1, <2>3, <2>4 DEF Tasks
<1>7. CASE ReceiveTotal
  BY <1>0, <1>7 DEF ReceiveTotal, Tasks, Busy, totalVars, resultVars
<1>8. CASE SumResult
  <2>1. /\ tpc = "sum" /\ resultsChan # <<>>
        /\ total' = total \cup {Head(resultsChan)} /\ resultsChan' = Tail(resultsChan)
        /\ UNCHANGED <<mpc, pending, returns, worker, wg, resultsClosed, tpc>> /\ Busy' = Busy
    BY <1>8 DEF SumResult, mainVars, Busy
  <2>2. Members(resultsChan) = {Head(resultsChan)} \cup Members(resultsChan')
    BY <1>0, <2>1, MembersOfTail DEF ValueTypeOK
  <2>3. \A k \in NftKeys : worker'[k] = "sent" => k \in total' \cup Members(resultsChan')
    BY <1>0, <2>1, <2>2 DEF Tasks
  <2> QED
    BY <1>0, <2>1, <2>3 DEF Tasks
<1>9. CASE SumDone
  BY <1>0, <1>9 DEF SumDone, Tasks, Busy, mainVars, resultVars
<1> QED
  BY <1>1, <1>2, <1>3, <1>4, <1>5, <1>6, <1>7, <1>8, <1>9, TaskSteps
  DEF ValueNext, Main, Sum, callVars, valueVars

--------------------------------------------------------------------------------
(* What was on chain for the whole call is found.                          *)

LEMMA CompleteStep ==
  ASSUME ValueInv, [ValueNext]_callVars
  PROVE  Complete'
<1>0. ValueTypeOK /\ StreamTypeOK /\ StreamOrder /\ Tasks /\ Complete /\ NftKeys \subseteq Keys
  BY ValueAssumption DEF ValueInv, ValueTypeOK
<1>1. CASE Environment /\ UNCHANGED valueVars
  <2>1. /\ UNCHANGED <<pc, nextKey, page, resNext, dataChan, dataClosed, errChan, returns>>
        /\ Delivered' = Delivered /\ stable' \subseteq stable
    BY <1>1 DEF Environment, AddItem, RemoveItem, Cancel, pageVars, dataVars, errVars,
       chainVars, valueVars, mainVars, Delivered, Given
  <2> QED
    BY <1>0, <2>1 DEF Complete, OnItsWay, DataEnd
<1>2. CASE Produce /\ UNCHANGED valueVars
  <2>1. returns # "value" /\ returns' = returns /\ Given' = Given
    BY <1>0, <1>2 DEF Complete, DataEnd, StreamTypeOK, Produce, QueryOk, QueryErr, SendItem,
       SendCancelled, NextPage, EndOfPages, CloseErr, CloseData, valueVars, mainVars, Given
  <2>2. SUFFICES ASSUME returns = "none", errChan' = <<>>, NEW k \in stable' \cap NftKeys
        PROVE  OnItsWay(k)'
    BY <2>1 DEF Complete
  <2>3. /\ stable' = stable /\ k \in store /\ k \in Nat /\ nextKey \in Nat /\ resNext \in Nat
    BY <1>0, <1>2, Numbers DEF StreamTypeOK, Produce, QueryOk, QueryErr, SendItem,
       SendCancelled, NextPage, EndOfPages, CloseErr, CloseData, chainVars
  <2>4. CASE QueryOk
    <3>1. pc = "query" /\ pc' = "send" /\ UNCHANGED <<dataChan, errChan>>
      BY <2>4 DEF QueryOk, dataVars, errVars
    <3>2. OnItsWay(k) /\ Delivered' = Delivered
      BY <1>0, <2>1, <2>2, <2>3, <3>1 DEF Complete, Delivered
    <3> QED
      BY <1>0, <2>3, <2>4, <3>1, <3>2, AnswerBounds DEF OnItsWay
  <2>5. CASE QueryErr \/ SendCancelled
    BY <1>0, <2>2, <2>5 DEF QueryErr, SendCancelled, StreamTypeOK
  <2>6. CASE SendItem
    <3>1. PICK i \in page : /\ dataChan' = Append(dataChan, i)
                            /\ page' = page \ {i}
      BY <2>6 DEF SendItem
    <3>2. pc = "send" /\ UNCHANGED <<pc, resNext, errChan>>
      BY <2>6 DEF SendItem, errVars
    <3>3. Delivered' = Delivered \cup {i}
      BY <1>0, <2>1, <3>1, Numbers, MembersOfAppend DEF Delivered
    <3>4. OnItsWay(k)
      BY <1>0, <2>2, <2>3, <3>2 DEF Complete
    <3> QED
      BY <3>1, <3>2, <3>3, <3>4 DEF OnItsWay
  <2>7. CASE NextPage \/ EndOfPages \/ CloseErr \/ CloseData
    <3>1. /\ UNCHANGED <<dataChan, errChan>> /\ Delivered' = Delivered
      BY <2>1, <2>7 DEF NextPage, EndOfPages, CloseErr, CloseData, dataVars, errVars, Delivered
    <3>2. OnItsWay(k)
      BY <1>0, <2>2, <2>3, <3>1 DEF Complete
    <3>3. CASE NextPage
      BY <3>1, <3>2, <3>3 DEF NextPage, OnItsWay
    <3>4. CASE EndOfPages \/ CloseErr \/ CloseData
      BY <3>1, <3>2, <3>4 DEF EndOfPages, CloseErr, CloseData, OnItsWay
    <3> QED
      BY <2>7, <3>3, <3>4
  <2> QED
    BY <1>2, <2>4, <2>5, <2>6, <2>7 DEF Produce
<1>3. CASE LoopOther \/ LoopNft
  <2>1. PICK k \in Keys : RecvItem(k) /\ k \notin NftKeys \ Given' /\ Given \subseteq Given'
    <3>1. CASE LoopOther
      BY <3>1 DEF LoopOther, mainVars, Given
    <3>2. CASE LoopNft
      BY <1>0, <3>2 DEF LoopNft, Given
    <3> QED
      BY <1>3, <3>1, <3>2
  <2>2. /\ UNCHANGED <<stable, pc, nextKey, page, resNext, errChan, returns>>
        /\ returns = "none"
    BY <1>0, <1>3, <2>1 DEF RecvItem, LoopOther, LoopNft, chainVars, pageVars, errVars,
       mainVars, Tasks
  <2>3. Members(dataChan) = {k} \cup Members(dataChan')
    BY <2>1, ReceiveIsNew
  <2>4. \A j \in NftKeys : j \in Delivered => j \in Delivered'
    BY <2>1, <2>3 DEF Delivered
  <2> QED
    BY <1>0, <2>2, <2>4 DEF Complete, OnItsWay
<1>4. CASE LoopErr
  BY <1>4 DEF LoopErr, Leave, Complete, Errors
<1>5. CASE LoopClosed
  <2>1. UNCHANGED streamVars /\ returns = "none" /\ DataEnd /\ Delivered' = Delivered
    BY <1>0, <1>5, GivenKept
    DEF LoopClosed, LoopNft, Leave, Tasks, Delivered, streamVars, dataVars
  <2>2. UNCHANGED <<stable, pc, nextKey, page, resNext, dataChan, dataClosed, errChan>>
    BY <2>1 DEF streamVars, chainVars, pageVars, dataVars, errVars
  <2> QED
    BY <1>0, <2>1, <2>2 DEF Complete, OnItsWay, DataEnd
<1>6. CASE LoopDone \/ LoopNilErr
  BY <1>6 DEF LoopDone, LoopNilErr, Leave, Complete
<1>7. CASE \/ Submit \/ WaitAndClose \/ ReceiveTotal
           \/ (\E k \in NftKeys : Task(k)) \/ Sum \/ UNCHANGED callVars
  <2>1. UNCHANGED <<streamVars, returns>>
    BY <1>7 DEF Submit, WaitAndClose, ReceiveTotal, Task, NavUsd, NavOther, NavPanic,
       SendResult, Finish, Sum, SumResult, SumDone, callVars, mainVars
  <2>2. UNCHANGED <<stable, pc, nextKey, page, resNext, dataChan, dataClosed, errChan>>
    BY <2>1 DEF streamVars, chainVars, pageVars, dataVars, errVars
  <2>3. Given' = Given
    <3>1. CASE LoopNft
      BY <2>1, <3>1, <1>0 DEF LoopNft, RecvItem, streamVars, dataVars, StreamTypeOK
    <3> QED
      BY <3>1, GivenKept
  <2> QED
    BY <1>0, <2>1, <2>2, <2>3 DEF Complete, OnItsWay, DataEnd, Delivered
<1> QED
  BY <1>1, <1>2, <1>3, <1>4, <1>5, <1>6, <1>7 DEF ValueNext, Main

--------------------------------------------------------------------------------
LEMMA ValueInitInv == ValueInit => ValueInv
<1> SUFFICES ASSUME ValueInit PROVE ValueInv
  OBVIOUS
<1>1. ValueTypeOK
  BY TypeInit
<1>2. /\ dataChan = <<>> /\ errChan = <<>> /\ resultsChan = <<>> /\ pc = "query"
      /\ page = {} /\ nextKey = 0 /\ stable = store /\ store \in SUBSET Keys
  BY DEF ValueInit, StreamInit
<1>3. /\ mpc = "loop" /\ returns = "none" /\ wg = 0 /\ tpc = "sum" /\ resultsClosed = FALSE
      /\ \A k \in NftKeys : worker[k] = "none"
  BY DEF ValueInit
<1>4. Given = {} /\ Members(dataChan) = {} /\ Delivered = {} /\ Busy = {}
  BY <1>2, <1>3, EmptyHasNone DEF Given, Delivered, Busy
<1>5. StreamOrder
  BY <1>2, <1>4, EmptySeq DEF StreamOrder
<1>6. Tasks
  BY <1>3, <1>4, FS_EmptySet DEF Tasks
<1>7. Complete
  <2>1. \A k \in stable : nextKey <= k
    BY <1>2, StreamAssumption
  <2> QED
    BY <1>2, <1>3, <2>1 DEF Complete, OnItsWay
<1> QED
  BY <1>1, <1>5, <1>6, <1>7 DEF ValueInv

\* For every set of balances, page size and pool the invariant holds.
THEOREM ValueInvariant == ValueSpec => []ValueInv
<1>1. ValueInv /\ [ValueNext]_callVars => ValueInv'
  BY ValueTypeStep, OrderStep, TasksStep, CompleteStep DEF ValueInv
<1> QED
  BY ValueInitInv, <1>1, PTL DEF ValueSpec

\* The variables keep their types, and the channels their capacities
\* (GetAccountValue, GetBalancesStream).
THEOREM ValueTypeCorrect == ValueSpec => []ValueTypeOK
<1>1. ValueInv => ValueTypeOK
  BY DEF ValueInv
<1> QED
  BY <1>1, ValueInvariant, PTL

\* When the main loop has closed the results channel no task is being submitted
\* or running that could still send on it: wg.Wait has waited for all of them,
\* those of a panicking task included (GetAccountValue).
THEOREM NeverSendsOnClosed == ValueSpec => []NoSendOnClosed
<1>1. ValueInv => NoSendOnClosed
  BY DEF ValueInv, Tasks, NoSendOnClosed
<1> QED
  BY <1>1, ValueInvariant, PTL

\* A total from a stream that reported no error counts every NFT the account held
\* for the whole call whose value could be had in usd, however other transactions
\* change the balances meanwhile and whatever the pool's size (GetAccountValue).
THEOREM TotalsAreComplete == ValueSpec => []TotalComplete
<1>1. ValueInv => TotalComplete
  <2> SUFFICES ASSUME ValueInv, mpc = "returned", returns = "value", errChan = <<>>,
                      NEW k \in stable \cap NftKeys
      PROVE  k \in total \/ worker[k] \in {"other", "failed"}
    BY DEF TotalComplete
  <2>1. ValueTypeOK /\ StreamTypeOK /\ Tasks /\ Complete
    BY DEF ValueInv, ValueTypeOK
  <2>2. DataEnd /\ OnItsWay(k)
    BY <2>1 DEF Complete
  <2>3. pc = "done" /\ Members(dataChan) = {}
    BY <2>1, <2>2, EmptyHasNone DEF DataEnd, StreamTypeOK
  <2>4. worker[k] # "none"
    BY <2>2, <2>3 DEF OnItsWay, Delivered, Given
  <2>5. Busy = {} /\ resultsChan = <<>>
    BY <2>1 DEF Tasks
  <2>6. worker[k] \in {"other", "failed", "sent"}
    BY <2>1, <2>4, <2>5 DEF Busy, ValueTypeOK
  <2>7. worker[k] = "sent" => k \in total
    BY <2>1, <2>5, EmptyHasNone DEF Tasks
  <2> QED
    BY <2>6, <2>7
<1> QED
  BY <1>1, ValueInvariant, PTL
================================================================================
