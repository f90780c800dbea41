-------------------------- MODULE AddAttributesProofs --------------------------
(***************************************************************************)
(* Proofs about AddAttributes for every number of attributes and batch      *)
(* size: type correctness, the discipline of the shared error channel, one  *)
(* report about each attribute, and the order of the broadcasts; and, with  *)
(* the chain around it (AttributeUpload), when an attribute is added twice, *)
(* and that entries arrive in order, once, and only if no check and no      *)
(* signing gave an error for them.                                          *)
(***************************************************************************)
EXTENDS AttributeUpload, SequenceTheorems, TLAPS

(* What the operations on sequences do to the members and to the order.    *)

LEMMA MembersOfAppend ==
  ASSUME NEW S, NEW s \in Seq(S), NEW x \in S
  PROVE  Members(Append(s, x)) = Members(s) \cup {x}
<1>1. /\ Len(Append(s, x)) = Len(s) + 1
      /\ \A i \in 1..Len(s) : Append(s, x)[i] = s[i]
      /\ Append(s, x)[Len(s) + 1] = x
  BY AppendProperties
<1>2. Len(s) \in Nat
  BY LenProperties
<1>3. 1..(Len(s) + 1) = (1..Len(s)) \cup {Len(s) + 1}
  BY <1>2
<1> QED
  BY <1>1, <1>2, <1>3 DEF Members

LEMMA MembersOfTail ==
  ASSUME NEW S, NEW s \in Seq(S), s # <<>>
  PROVE  Members(s) = {Head(s)} \cup Members(Tail(s))
<1>1. /\ Len(Tail(s)) = Len(s) - 1
      /\ \A i \in 1..Len(Tail(s)) : Tail(s)[i] = s[i + 1]
      /\ Head(s) = s[1]
  BY HeadTailProperties
<1>2. Len(s) \in Nat \ {0}
  BY EmptySeq
<1>3. \A i \in 1..Len(s) : i = 1 \/ (i - 1 \in 1..Len(Tail(s)) /\ s[i] = Tail(s)[i - 1])
  BY <1>1, <1>2
<1>4. Members(s) \subseteq {Head(s)} \cup Members(Tail(s))
  BY <1>1, <1>3 DEF Members
<1>5. \A i \in 1..Len(Tail(s)) : i + 1 \in 1..Len(s)
  BY <1>1, <1>2
<1> QED
  BY <1>1, <1>2, <1>4, <1>5 DEF Members

LEMMA MembersOfConcat ==
  ASSUME NEW S, NEW s \in Seq(S), NEW t \in Seq(S)
  PROVE  Members(s \o t) = Members(s) \cup Members(t)
<1>1. /\ Len(s \o t) = Len(s) + Len(t)
      /\ \A i \in 1..Len(s) + Len(t) :
           (s \o t)[i] = IF i <= Len(s) THEN s[i] ELSE t[i - Len(s)]
  BY ConcatProperties
<1>2. Len(s) \in Nat /\ Len(t) \in Nat
  BY LenProperties
<1>3. Members(s \o t) \subseteq Members(s) \cup Members(t)
  <2>1. \A i \in 1..Len(s) + Len(t) :
          i \in 1..Len(s) \/ i - Len(s) \in 1..Len(t)
    BY <1>2
  <2> QED
    BY <1>1, <1>2, <2>1 DEF Members
<1>4. Members(s) \subseteq Members(s \o t)
  <2>1. \A i \in 1..Len(s) : i \in 1..Len(s) + Len(t) /\ (s \o t)[i] = s[i]
    BY <1>1, <1>2
  <2> QED
    BY <1>1, <2>1 DEF Members
<1>5. Members(t) \subseteq Members(s \o t)
  <2>1. \A i \in 1..Len(t) :
          Len(s) + i \in 1..Len(s) + Len(t) /\ (s \o t)[Len(s) + i] = t[i]
    BY <1>1, <1>2
  <2> QED
    BY <1>1, <2>1 DEF Members
<1> QED
  BY <1>3, <1>4, <1>5

LEMMA FunctionIsSeq ==
  ASSUME NEW S, NEW k \in Nat, NEW f \in [1..k -> S]
  PROVE  f \in Seq(S) /\ Len(f) = k
<1>1. f \in Seq(S)
  BY SeqDef
<1>2. DOMAIN f = 1..k /\ DOMAIN f = 1..Len(f) /\ Len(f) \in Nat
  BY <1>1, LenProperties
<1> QED
  BY <1>1, <1>2

LEMMA EmptyHasNone == Members(<<>>) = {} /\ Increasing(<<>>)
BY DEF Members, Increasing

LEMMA IncreasingAppend ==
  ASSUME NEW S \in SUBSET Int, NEW s \in Seq(S), NEW x \in S,
         Increasing(s), \A a \in Members(s) : a < x
  PROVE  Increasing(Append(s, x))
<1>1. /\ Len(Append(s, x)) = Len(s) + 1
      /\ \A i \in 1..Len(s) : Append(s, x)[i] = s[i]
      /\ Append(s, x)[Len(s) + 1] = x
  BY AppendProperties
<1>2. Len(s) \in Nat
  BY LenProperties
<1>3. \A i \in 1..Len(s) : s[i] < x
  BY DEF Members
<1> QED
  BY <1>1, <1>2, <1>3 DEF Increasing

LEMMA IncreasingTail ==
  ASSUME NEW S \in SUBSET Int, NEW s \in Seq(S), s # <<>>, Increasing(s)
  PROVE  /\ Increasing(Tail(s))
         /\ \A b \in Members(Tail(s)) : Head(s) < b
<1>1. /\ Len(Tail(s)) = Len(s) - 1
      /\ \A i \in 1..Len(Tail(s)) : Tail(s)[i] = s[i + 1]
      /\ Head(s) = s[1]
  BY HeadTailProperties
<1>2. Len(s) \in Nat \ {0}
  BY EmptySeq
<1> QED
  BY <1>1, <1>2 DEF Increasing, Members

LEMMA IncreasingConcat ==
  ASSUME NEW S \in SUBSET Int, NEW s \in Seq(S), NEW t \in Seq(S),
         Increasing(s), Increasing(t), Below(s, t)
  PROVE  Increasing(s \o t)
<1>1. /\ Len(s \o t) = Len(s) + Len(t)
      /\ \A i \in 1..Len(s) + Len(t) :
           (s \o t)[i] = IF i <= Len(s) THEN s[i] ELSE t[i - Len(s)]
  BY ConcatProperties
<1>2. Len(s) \in Nat /\ Len(t) \in Nat
  BY LenProperties
<1>3. \A i \in 1..Len(s), j \in 1..Len(t) : s[i] < t[j]
  BY DEF Below, Members
<1>4. SUFFICES ASSUME NEW i \in 1..Len(s) + Len(t), NEW j \in 1..Len(s) + Len(t), i < j
      PROVE  (s \o t)[i] < (s \o t)[j]
  BY <1>1 DEF Increasing
<1>5. CASE j <= Len(s)
  BY <1>1, <1>2, <1>4, <1>5 DEF Increasing
<1>6. CASE i <= Len(s) /\ Len(s) < j
  <2>1. i \in 1..Len(s) /\ j - Len(s) \in 1..Len(t)
    BY <1>2, <1>6
  <2> QED
    BY <1>1, <1>2, <1>3, <1>6, <2>1
<1>7. CASE Len(s) < i
  <2>1. i - Len(s) \in 1..Len(t) /\ j - Len(s) \in 1..Len(t) /\ i - Len(s) < j - Len(s)
    BY <1>2, <1>4, <1>7
  <2> QED
    BY <1>1, <1>2, <1>4, <1>7, <2>1 DEF Increasing
<1> QED
  BY <1>2, <1>4, <1>5, <1>6, <1>7

--------------------------------------------------------------------------------
LEMMA AttrInit == Init => AttrInv
<1> SUFFICES ASSUME Init PROVE AttrInv
  OBVIOUS
<1> USE DEF Init
<1>1. n \in Nat /\ 1 \in 1..n+1
  BY BatchAssumption
<1>2. TypeOK
  <2>1. <<>> \in Seq(1..n) /\ Len(<<>>) = 0
    BY EmptySeq
  <2>2. reports \in [1..n -> Nat]
    OBVIOUS
  <2>3. 0 <= n /\ 0 <= BatchSize
    BY <1>1, BatchAssumption
  <2>4. /\ addChan \in Seq(1..n) /\ Len(addChan) <= n
        /\ buff \in Seq(1..n) /\ Len(buff) <= BatchSize
        /\ flight \in Seq(1..n) /\ Len(flight) <= BatchSize
        /\ sent \in Seq(1..n)
    BY <2>1, <2>3
  <2>5. n \in 0..MaxAttrs /\ todo \in 1..n+1
    BY <1>1
  <2> QED
    BY <2>2, <2>4, <2>5 DEF TypeOK
<1>3. Places
  BY <1>1, BatchAssumption, EmptySeq DEF Places
<1>4. Ordered
  BY EmptyHasNone DEF Ordered, Below
<1>5. Counts
  BY <1>1 DEF Counts
<1> QED
  BY <1>2, <1>3, <1>4, <1>5 DEF AttrInv

LEMMA CheckAbsentStep == AttrInv /\ CheckAbsent => AttrInv'
<1> SUFFICES ASSUME AttrInv, CheckAbsent PROVE AttrInv'
  OBVIOUS
<1> USE DEF AttrInv, CheckAbsent, batchVars, histVars
<1>1. n \in Nat /\ todo \in 1..n /\ addChan \in Seq(1..n) /\ Len(addChan) \in Nat
  BY BatchAssumption, LenProperties DEF TypeOK
<1>2. /\ addChan' \in Seq(1..n) /\ Len(addChan') = Len(addChan) + 1
  BY <1>1, AppendProperties
<1>3. Members(addChan') = Members(addChan) \cup {todo}
  BY <1>1, MembersOfAppend
<1>4. TypeOK'
  BY <1>1, <1>2 DEF TypeOK
<1>5. Places'
  BY <1>1 DEF Places
<1>6. Ordered'
  <2>1. Increasing(addChan')
    <3>1. Increasing(addChan) /\ \A a \in Members(addChan) : a < todo
      BY <1>1 DEF Ordered
    <3>2. 1..n \in SUBSET Int
      OBVIOUS
    <3> QED
      BY <1>1, <3>1, <3>2, IncreasingAppend
  <2>2. 1..(todo - 1) \subseteq 1..(todo' - 1) /\ todo \in 1..(todo' - 1)
    BY <1>1
  <2>3. \A s \in {sent, flight, buff} : \A a \in Members(s) : a < todo
    BY <1>1 DEF Ordered
  <2> QED
    BY <1>3, <2>1, <2>2, <2>3 DEF Ordered, Below
<1>7. Counts'
  BY <1>1, <1>3 DEF Counts, OnTheWay, TypeOK
<1> QED
  BY <1>4, <1>5, <1>6, <1>7

LEMMA CheckFailsStep == AttrInv /\ CheckFails => AttrInv'
<1> SUFFICES ASSUME AttrInv, CheckFails PROVE AttrInv'
  OBVIOUS
<1> USE DEF AttrInv, CheckFails, addVars, batchVars, histVars
<1>1. TypeOK'
  BY DEF TypeOK
<1>2. Places'
  BY BatchAssumption DEF TypeOK, Places
<1>3. Ordered' /\ Counts'
  BY DEF Ordered, Below, Counts, OnTheWay
<1> QED
  BY <1>1, <1>2, <1>3

LEMMA CheckReportStep == AttrInv /\ CheckReport => AttrInv'
<1> SUFFICES ASSUME AttrInv, CheckReport PROVE AttrInv'
  OBVIOUS
<1> USE DEF AttrInv, CheckReport, addVars, batchVars
<1>1. n \in Nat /\ todo \in 1..n
  BY BatchAssumption DEF TypeOK, Places
<1>2. reports' = [i \in 1..n |-> reports[i] + (IF i = todo THEN 1 ELSE 0)]
  BY DEF Reported
<1>3. TypeOK'
  BY <1>1, <1>2 DEF TypeOK
<1>4. Places'
  BY <1>1 DEF Places
<1>5. Ordered'
  <2>1. 1..(todo - 1) \subseteq 1..(todo' - 1)
    BY <1>1
  <2> QED
    BY <2>1 DEF Ordered, Below
<1>6. Counts'
  <2>1. todo \notin OnTheWay
    BY <1>1 DEF Ordered, OnTheWay
  <2> QED
    BY <1>1, <1>2, <2>1 DEF Counts, OnTheWay, TypeOK
<1> QED
  BY <1>3, <1>4, <1>5, <1>6

LEMMA CheckEndStep == AttrInv /\ CheckEnd => AttrInv'
<1> SUFFICES ASSUME AttrInv, CheckEnd PROVE AttrInv'
  OBVIOUS
<1> USE DEF AttrInv, CheckEnd, batchVars, histVars
<1>1. TypeOK' /\ Places'
  <2>1. TypeOK'
    BY DEF TypeOK
  <2>2. todo = n + 1
    BY BatchAssumption DEF TypeOK
  <2>3. Places'
    BY <2>2 DEF Places
  <2> QED
    BY <2>1, <2>3
<1>2. Ordered' /\ Counts'
  BY DEF Ordered, Below, Counts, OnTheWay
<1> QED
  BY <1>1, <1>2

LEMMA BatchRecvStep == AttrInv /\ BatchRecv => AttrInv'
<1> SUFFICES ASSUME AttrInv, BatchRecv PROVE AttrInv'
  OBVIOUS
<1> USE DEF AttrInv, BatchRecv, checkVars, histVars
<1> DEFINE h == Head(addChan)
<1>1. /\ n \in Nat /\ BatchSize \in Nat
      /\ addChan \in Seq(1..n) /\ buff \in Seq(1..n)
      /\ Len(buff) \in Nat /\ Len(addChan) \in Nat
      /\ Len(buff) < BatchSize
  BY BatchAssumption, LenProperties DEF TypeOK, Places
<1>2. /\ h \in 1..n /\ addChan' \in Seq(1..n)
      /\ Len(addChan') = Len(addChan) - 1
  BY <1>1, HeadTailProperties
<1>3. buff' \in Seq(1..n) /\ Len(buff') = Len(buff) + 1
  BY <1>1, <1>2, AppendProperties
<1>4. /\ Members(addChan) = {h} \cup Members(addChan')
      /\ Members(buff') = Members(buff) \cup {h}
  BY <1>1, <1>2, MembersOfTail, MembersOfAppend
<1>5. TypeOK'
  <2>1. bpc' \in {"recv", "sign"} /\ Len(buff') <= BatchSize /\ Len(addChan') <= n
    BY <1>1, <1>2, <1>3 DEF TypeOK
  <2> QED
    BY <1>2, <1>3, <2>1 DEF TypeOK
<1>6. Places'
  BY <1>1, <1>3 DEF Places
<1>7. Ordered'
  <2>1. 1..n \in SUBSET Int
    OBVIOUS
  <2>2. Increasing(addChan') /\ \A b \in Members(addChan') : h < b
    BY <1>1, <2>1, IncreasingTail DEF Ordered
  <2>3. \A a \in Members(buff) \cup Members(sent) \cup Members(flight) : a < h
    BY <1>4 DEF Ordered, Below
  <2>4. Increasing(buff')
    BY <1>1, <1>2, <2>1, <2>3, IncreasingAppend DEF Ordered
  <2>5. flight' = <<>> /\ flight = <<>>
    BY DEF Places
  <2> QED
    BY <1>4, <2>2, <2>3, <2>4, <2>5, EmptyHasNone DEF Ordered, Below
<1>8. Counts'
  BY <1>4 DEF Counts, OnTheWay
<1> QED
  BY <1>5, <1>6, <1>7, <1>8

LEMMA BatchClosedStep == AttrInv /\ BatchClosed => AttrInv'
<1> SUFFICES ASSUME AttrInv, BatchClosed PROVE AttrInv'
  OBVIOUS
<1> USE DEF AttrInv, BatchClosed, checkVars, addVars, histVars
<1>1. TypeOK'
  BY DEF TypeOK
<1>2. Places'
  <2>1. Len(buff) \in Nat /\ (Len(buff) = 0 => buff = <<>>)
    BY EmptySeq, LenProperties DEF TypeOK
  <2> QED
    BY <2>1 DEF Places
<1>3. Ordered' /\ Counts'
  BY DEF Ordered, Below, Counts, OnTheWay
<1> QED
  BY <1>1, <1>2, <1>3

LEMMA SignStep == AttrInv /\ (SignOk \/ SignFails) => AttrInv'
<1> SUFFICES ASSUME AttrInv, SignOk \/ SignFails PROVE AttrInv'
  OBVIOUS
<1> USE DEF AttrInv
<1>1. /\ bpc = "sign" /\ flight' = buff /\ buff' = <<>>
      /\ bpc' \in {"broadcast", "report"}
      /\ UNCHANGED <<checkVars, addVars, closed, errClosed, respClosed, histVars>>
  BY DEF SignOk, SignFails
<1> USE <1>1 DEF checkVars, addVars, histVars
<1>2. TypeOK'
  BY EmptySeq, BatchAssumption DEF TypeOK
<1>3. Places'
  BY EmptySeq, BatchAssumption DEF Places
<1>4. flight = <<>>
  BY DEF Places
<1>5. Ordered'
  BY EmptyHasNone DEF Ordered, Below
<1>6. Counts'
  BY <1>4, EmptyHasNone DEF Counts, OnTheWay
<1> QED
  BY <1>2, <1>3, <1>5, <1>6

LEMMA BroadcastOkStep == AttrInv /\ BroadcastOk => AttrInv'
<1> SUFFICES ASSUME AttrInv, BroadcastOk PROVE AttrInv'
  OBVIOUS
<1> USE DEF AttrInv, BroadcastOk, checkVars, addVars
<1>1. /\ sent \in Seq(1..n) /\ flight \in Seq(1..n)
      /\ buff = <<>>
  BY DEF TypeOK, Places
<1>2. sent' \in Seq(1..n) /\ Members(sent') = Members(sent) \cup Members(flight)
  BY <1>1, ConcatProperties, MembersOfConcat
<1>3. TypeOK'
  BY <1>2 DEF TypeOK
<1>4. Places'
  BY DEF Places
<1>5. Ordered'
  <2>1. 1..n \in SUBSET Int
    OBVIOUS
  <2>2. Increasing(sent')
    BY <1>1, <2>1, IncreasingConcat DEF Ordered
  <2> QED
    BY <1>1, <1>2, <2>2, EmptyHasNone DEF Ordered, Below
<1>6. Counts'
  BY DEF Counts, OnTheWay
<1> QED
  BY <1>3, <1>4, <1>5, <1>6

LEMMA BroadcastFailsStep == AttrInv /\ BroadcastFails => AttrInv'
BY DEF AttrInv, BroadcastFails, checkVars, addVars, histVars,
       TypeOK, Places, Ordered, Counts, OnTheWay, Below

LEMMA BatchReportStep == AttrInv /\ BatchReport => AttrInv'
<1> SUFFICES ASSUME AttrInv, BatchReport PROVE AttrInv'
  OBVIOUS
<1> USE DEF AttrInv, BatchReport, checkVars, addVars
<1>1. reports' = [i \in 1..n |-> reports[i] + (IF i \in Members(flight) THEN 1 ELSE 0)]
  BY DEF Reported
<1>2. n \in Nat /\ todo \in 1..n+1 /\ reports \in [1..n -> Nat] /\ buff = <<>>
  <2>1. n \in Nat /\ todo \in 1..n+1 /\ reports \in [1..n -> Nat]
    BY BatchAssumption DEF TypeOK
  <2>2. buff = <<>>
    BY DEF Places
  <2> QED
    BY <2>1, <2>2
<1>3. TypeOK'
  BY <1>1, <1>2, EmptySeq, BatchAssumption DEF TypeOK
<1>4. Places'
  <2>1. closed => addClosed /\ addChan = <<>>
    BY DEF Places
  <2>2. Len(buff) < BatchSize
    BY <1>2, EmptySeq, BatchAssumption
  <2> QED
    BY <1>2, <2>1, <2>2 DEF Places
<1>5. Ordered'
  BY EmptyHasNone DEF Ordered, Below
<1>6. Counts'
  <2>1. \A i \in Members(flight) : i < todo /\ i \notin Members(addChan)
    BY <1>2 DEF Ordered, Below
  <2>2. OnTheWay' = Members(addChan) /\ OnTheWay = Members(flight) \cup Members(addChan)
    BY <1>2, EmptyHasNone DEF OnTheWay
  <2> QED
    BY <1>1, <1>2, <2>1, <2>2 DEF Counts
<1> QED
  BY <1>3, <1>4, <1>5, <1>6

LEMMA BatchEndStep == AttrInv /\ (BatchEnd \/ CloseResp) => AttrInv'
<1> SUFFICES ASSUME AttrInv, BatchEnd \/ CloseResp PROVE AttrInv'
  OBVIOUS
<1> USE DEF AttrInv, BatchEnd, CloseResp, checkVars, addVars, histVars
<1>1. TypeOK'
  BY DEF TypeOK
<1>2. Places'
  <2>1. CASE BatchEnd
    BY <2>1 DEF Places
  <2>2. CASE CloseResp
    BY <2>2 DEF Places
  <2> QED
    BY <2>1, <2>2
<1>3. Ordered' /\ Counts'
  BY DEF Ordered, Below, Counts, OnTheWay
<1> QED
  BY <1>1, <1>2, <1>3

LEMMA AttrStep == AttrInv /\ [Next]_vars => AttrInv'
<1> SUFFICES ASSUME AttrInv, [Next]_vars PROVE AttrInv'
  OBVIOUS
<1>1. CASE Check
  BY <1>1, CheckAbsentStep, CheckFailsStep, CheckReportStep, CheckEndStep DEF Check
<1>2. CASE Batch
  BY <1>2, BatchRecvStep, BatchClosedStep, SignStep, BroadcastOkStep,
     BroadcastFailsStep, BatchReportStep, BatchEndStep DEF Batch
<1>3. CASE UNCHANGED vars
  BY <1>3 DEF AttrInv, vars, checkVars, addVars, batchVars, histVars,
       TypeOK, Places, Ordered, Counts, OnTheWay, Below
<1> QED
  BY <1>1, <1>2, <1>3 DEF Next, Finished

--------------------------------------------------------------------------------
\* For every number of attributes and batch size the invariant holds: what is
\* still to be checked, on its way or reported adds up at every step.
THEOREM AttrInvariant == Spec => []AttrInv
BY AttrInit, AttrStep, PTL DEF Spec

\* The variables keep their types; neither a transaction nor attrAddChan ever
\* holds more than the code allows (AddAttributes).
THEOREM TypeCorrect == Spec => []TypeOK
<1>1. AttrInv => TypeOK
  BY DEF AttrInv
<1> QED
  BY <1>1, AttrInvariant, PTL

\* When the batching goroutine has closed the error channel that both send on,
\* the checking goroutine has returned and nothing is left to report: no send
\* ever meets a closed channel (AddAttributes).
THEOREM NeverSendsOnClosed == Spec => []NoSendOnClosed
<1>1. AttrInv => NoSendOnClosed
  BY DEF AttrInv, Places, NoSendOnClosed
<1> QED
  BY <1>1, AttrInvariant, PTL

\* A caller that reads until the response channel is closed has got exactly one
\* response or error about every attribute (AddAttributes).
THEOREM ReportedOnce == Spec => []EachReportedOnce
<1>1. AttrInv => EachReportedOnce
  <2> SUFFICES ASSUME AttrInv, respClosed, NEW i \in 1..n PROVE reports[i] = 1
    BY DEF EachReportedOnce
  <2>1. flight = <<>> /\ buff = <<>> /\ addChan = <<>> /\ todo = n + 1
    BY DEF AttrInv, Places
  <2>2. i < todo /\ i \notin OnTheWay
    BY <2>1, EmptyHasNone, BatchAssumption DEF OnTheWay, AttrInv, TypeOK
  <2> QED
    BY <2>2 DEF AttrInv, Counts
<1> QED
  BY <1>1, AttrInvariant, PTL

\* The transactions carry the attributes in the order of the call, each at most
\* once (AddAttributes).
THEOREM BroadcastInOrder == Spec => []SentInOrder
<1>1. AttrInv => SentInOrder
  BY DEF AttrInv, Ordered, Increasing, SentInOrder
<1> QED
  BY <1>1, AttrInvariant, PTL

--------------------------------------------------------------------------------
(* AddAttributes on a chain that holds attributes.                          *)

\* The steps of the composition are steps of AddAttributes or leave it alone.
LEMMA UploadStepIsStep == [UploadNext]_uploadVars => [Next]_vars
BY DEF UploadNext, CheckGoroutine, BatchGoroutine, Checked, MissedError, NotPassedOn,
       CheckGoesOn, NotSigned, Broadcasted, BatchStep, Execute, AddedByOthers, UploadDone, uploadVars, Next, Check, Batch

\* The call itself does not change while it runs.
LEMMA SameEntries == [UploadNext]_uploadVars => n' = n /\ key' = key
<1>1. [Next]_vars => n' = n
  BY DEF Next, Check, Batch, Finished, CheckAbsent, CheckFails, CheckReport, CheckEnd,
         BatchRecv, BatchClosed, SignOk, SignFails, BroadcastOk, BroadcastFails,
         BatchReport, BatchEnd, CloseResp, vars, checkVars
<1>2. [UploadNext]_uploadVars => key' = key
  BY DEF UploadNext, CheckGoroutine, BatchGoroutine, Checked, MissedError, NotPassedOn,
         CheckGoesOn, NotSigned, Broadcasted, BatchStep, Execute, AddedByOthers, UploadDone, uploadVars
<1> QED
  BY <1>1, <1>2, UploadStepIsStep

LEMMA SeenInit == UploadInit => SeenInv
<1> SUFFICES ASSUME UploadInit PROVE SeenInv
  OBVIOUS
<1> USE DEF UploadInit
<1>1. n \in Nat
  BY BatchAssumption DEF Init
<1>2. /\ key \in [1..n -> Keys]
      /\ seenAt \in [1..n -> Nat] /\ \A i \in 1..n : seenAt[i] = 0
      /\ pending \in Seq(Seq(1..n))
  BY EmptySeq
<1>3. CASE chain = <<>>
  BY <1>1, <1>2, <1>3, EmptySeq DEF SeenInv
<1>4. CASE \E k \in Keys : chain = <<[key |-> k, entry |-> 0]>>
  <2>1. PICK k \in Keys : chain = <<[key |-> k, entry |-> 0]>>
    BY <1>4
  <2>2. [key |-> k, entry |-> 0] \in [key : Keys, entry : 0..n]
    BY <1>1
  <2>3. Len(chain) = 1 /\ chain[1].entry = 0 /\ chain \in Seq([key : Keys, entry : 0..n])
    BY <2>1, <2>2
  <2>4. \A p \in 1..Len(chain) : chain[p].entry = 0
    BY <2>3
  <2> QED
    BY <1>1, <1>2, <2>3, <2>4 DEF SeenInv
<1> QED
  BY <1>3, <1>4

\* Whatever is added at the end of the chain under its own entry's name keeps it.
LEMMA ChainGrows ==
  ASSUME SeenInv, n \in Nat, UNCHANGED <<n, key, seenAt>>,
         pending' \in Seq(Seq(1..n)),
         NEW more \in Seq([key : Keys, entry : 0..n]),
         \A p \in 1..Len(more) : more[p].entry # 0 => more[p].key = key[more[p].entry],
         chain' = chain \o more
  PROVE  SeenInv'
<1> USE DEF SeenInv
<1>1. /\ chain' \in Seq([key : Keys, entry : 0..n])
      /\ Len(chain') = Len(chain) + Len(more)
      /\ \A p \in 1..Len(chain) + Len(more) :
           chain'[p] = IF p <= Len(chain) THEN chain[p] ELSE more[p - Len(chain)]
  BY ConcatProperties
<1>2. Len(chain) \in Nat /\ Len(more) \in Nat
  BY LenProperties
<1>3. ASSUME NEW p \in 1..Len(chain'), chain'[p].entry # 0
      PROVE  chain'[p].key = key[chain'[p].entry]
  <2>1. CASE p <= Len(chain)
    BY <1>1, <1>2, <1>3, <2>1
  <2>2. CASE Len(chain) < p
    <3>1. p - Len(chain) \in 1..Len(more)
      BY <1>1, <1>2, <2>2
    <3>2. chain'[p] = more[p - Len(chain)]
      BY <1>1, <1>2, <2>2
    <3> QED
      BY <1>3, <3>1, <3>2
  <2> QED
    BY <1>1, <1>2, <2>1, <2>2
<1>4. \A i \in 1..n : seenAt[i] <= Len(chain')
  BY <1>1, <1>2
<1>5. ASSUME NEW i \in 1..n, NEW p \in 1..seenAt[i]
      PROVE  chain'[p].key # key[i]
  BY <1>1, <1>2
<1> QED
  BY <1>1, <1>3, <1>4, <1>5

LEMMA SeenStep ==
  ASSUME SeenInv, TypeOK, [UploadNext]_uploadVars
  PROVE  SeenInv'
<1>1. n \in Nat /\ n' = n /\ key' = key
  BY SameEntries, BatchAssumption DEF TypeOK
<1>2. CASE Checked
  <2> USE <1>2 DEF Checked, CheckAbsent
  <2>1. todo \in 1..n /\ ~Exists(key[todo])
    BY DEF TypeOK, Absent
  <2>2. Len(chain) \in Nat /\ seenAt' = [seenAt EXCEPT ![todo] = Len(chain)]
    BY LenProperties DEF SeenInv
  <2>3. /\ seenAt' \in [1..n -> Nat]
        /\ \A i \in 1..n : seenAt'[i] = IF i = todo THEN Len(chain) ELSE seenAt[i]
    BY <2>1, <2>2 DEF SeenInv
  <2>4. \A p \in 1..Len(chain) : chain[p].key # key[todo]
    BY <2>1 DEF Exists
  <2>5. \A i \in 1..n : seenAt'[i] <= Len(chain)
    BY <2>2, <2>3 DEF SeenInv
  <2>6. \A i \in 1..n : \A p \in 1..seenAt'[i] : chain[p].key # key[i]
    BY <2>2, <2>3, <2>4 DEF SeenInv
  <2> QED
    BY <1>1, <2>3, <2>5, <2>6 DEF SeenInv
<1>3. CASE Broadcasted
  <2>1. flight \in Seq(1..n) /\ pending \in Seq(Seq(1..n))
    BY DEF TypeOK, SeenInv
  <2>2. pending' \in Seq(Seq(1..n))
    <3>1. Append(pending, flight) \in Seq(Seq(1..n))
      BY <2>1, AppendProperties
    <3> QED
      BY <1>3, <2>1, <3>1 DEF Broadcasted
  <2> QED
    BY <1>1, <1>3, <2>2 DEF SeenInv, Broadcasted
<1>4. CASE Execute
  <2> USE <1>4 DEF Execute
  <2> DEFINE batch == Head(pending)
             added == [j \in DOMAIN batch |-> [key |-> key[batch[j]], entry |-> batch[j]]]
  <2>1. batch \in Seq(1..n) /\ pending' \in Seq(Seq(1..n))
    BY HeadTailProperties DEF SeenInv
  <2>2. CASE chain' = chain
    BY <1>1, <2>1, <2>2 DEF SeenInv
  <2>3. CASE chain' = chain \o added
    <3>1. Len(batch) \in Nat /\ DOMAIN batch = 1..Len(batch)
      BY <2>1, LenProperties
    <3>2. \A j \in 1..Len(batch) : added[j] = [key |-> key[batch[j]], entry |-> batch[j]]
      BY <3>1
    <3>3. \A j \in 1..Len(batch) : batch[j] \in 1..n /\ key[batch[j]] \in Keys
      BY <2>1, ElementOfSeq DEF SeenInv
    <3>4. \A j \in 1..Len(batch) : added[j] \in [key : Keys, entry : 0..n]
      BY <1>1, <3>2, <3>3
    <3>5. added \in Seq([key : Keys, entry : 0..n]) /\ Len(added) = Len(batch)
      <4>1. added \in [1..Len(batch) -> [key : Keys, entry : 0..n]]
        BY <3>1, <3>4
      <4> HIDE DEF added
      <4> QED
        BY <3>1, <4>1, FunctionIsSeq
    <3> HIDE DEF added
    <3>6. ASSUME NEW j \in 1..Len(added)
          PROVE  added[j].key = key[added[j].entry]
      <4> HIDE DEF batch
      <4>1. j \in 1..Len(batch)
        BY <3>5
      <4>2. added[j] = [key |-> key[batch[j]], entry |-> batch[j]]
        BY <3>2, <4>1
      <4>3. added[j].entry = batch[j] /\ added[j].key = key[batch[j]]
        BY <4>2
      <4> QED
        BY <4>3
    <3> QED
      BY <1>1, <2>1, <2>3, <3>5, <3>6, ChainGrows
  <2> QED
    BY <2>2, <2>3
<1>5. CASE AddedByOthers
  <2>1. PICK k \in Keys : chain' = Append(chain, [key |-> k, entry |-> 0])
    BY <1>5 DEF AddedByOthers
  <2> DEFINE new == [key |-> k, entry |-> 0]
  <2>2. new \in [key : Keys, entry : 0..n] /\ new.entry = 0
    BY <1>1
  <2> HIDE DEF new
  <2>3. /\ <<new>> \in Seq([key : Keys, entry : 0..n])
        /\ Len(<<new>>) = 1 /\ <<new>>[1].entry = 0
    BY <2>2
  <2>4. chain' = chain \o <<new>>
    BY <2>1, <2>2, AppendIsConcat DEF SeenInv, new
  <2>5. UNCHANGED <<pending, seenAt>>
    BY <1>5 DEF AddedByOthers
  <2>6. \A p \in 1..Len(<<new>>) : <<new>>[p].entry = 0
    BY <2>3
  <2>7. pending' \in Seq(Seq(1..n)) /\ UNCHANGED <<n, key, seenAt>>
    BY <1>1, <2>5 DEF SeenInv
  <2> QED
    BY <1>1, <2>3, <2>4, <2>6, <2>7, ChainGrows
<1>6. CASE UNCHANGED <<seenAt, pending, chain>>
  BY <1>1, <1>6 DEF SeenInv
<1>7. CASE MissedError \/ NotPassedOn \/ CheckGoesOn \/ NotSigned \/ BatchStep
           \/ UploadDone \/ UNCHANGED uploadVars
  BY <1>6, <1>7 DEF MissedError, NotPassedOn, CheckGoesOn, NotSigned, BatchStep,
                    UploadDone, uploadVars
<1> QED
  BY <1>2, <1>3, <1>4, <1>5, <1>7 DEF UploadNext, CheckGoroutine, BatchGoroutine

--------------------------------------------------------------------------------
(* What comes on chain, and in what order.                                   *)

LEMMA ArrivalInit == UploadInit => ArrivalInv
<1> SUFFICES ASSUME UploadInit PROVE ArrivalInv
  OBVIOUS
<1> USE DEF UploadInit
<1>1. \A p \in 1..Len(chain) : chain[p].entry = 0
  <2>1. CASE chain = <<>>
    BY <2>1, EmptySeq
  <2>2. CASE \E k \in Keys : chain = <<[key |-> k, entry |-> 0]>>
    BY <2>2
  <2> QED
    BY <2>1, <2>2
<1>2. Arrived = {} /\ Coming = {}
  BY <1>1, EmptySeq DEF Arrived, Coming
<1>3. GoneInOrder
  BY <1>1, <1>2, EmptySeq DEF GoneInOrder
<1> QED
  BY <1>2, <1>3 DEF ArrivalInv, GoneFirst, RefusedStays, Gone, Init

\* What is to be shown of a step that neither broadcasts nor executes.
LEMMA NothingArrives ==
  ASSUME ArrivalInv, UNCHANGED <<chain, pending>>
  PROVE  GoneInOrder' /\ Gone' = Gone
BY DEF ArrivalInv, GoneInOrder, Gone, Arrived, Coming

LEMMA CheckArrival ==
  ASSUME ArrivalInv, AttrInv,
         Checked \/ MissedError \/ NotPassedOn \/ CheckGoesOn
  PROVE  ArrivalInv'
<1> USE DEF ArrivalInv
<1>1. UNCHANGED <<chain, pending>>
  BY DEF Checked, MissedError, NotPassedOn, CheckGoesOn
<1>2. GoneInOrder' /\ Gone' = Gone
  BY <1>1, NothingArrives
<1>3. n \in Nat /\ todo \in 1..n+1 /\ addChan \in Seq(1..n)
  BY BatchAssumption DEF AttrInv, TypeOK
<1>4. \A s \in {flight, buff, addChan} : Members(s) \subseteq 1..(todo - 1)
  BY DEF AttrInv, Ordered
<1>5. CASE Checked \/ MissedError
  <2>1. CheckAbsent /\ refused' = refused
    BY <1>5 DEF Checked, MissedError
  <2> USE <2>1 DEF CheckAbsent, batchVars
  <2>2. todo \in 1..n
    BY <1>3
  <2>3. Members(addChan') = Members(addChan) \cup {todo}
    BY <1>3, <2>2, MembersOfAppend
  <2>4. GoneFirst'
    BY <1>2, <1>3, <2>3 DEF GoneFirst
  <2>5. RefusedStays'
    BY <1>2, <1>3, <2>3 DEF RefusedStays
  <2> QED
    BY <1>2, <2>4, <2>5
<1>6. CASE NotPassedOn
  <2> USE <1>6 DEF NotPassedOn, CheckFails, addVars, batchVars
  <2>1. GoneFirst'
    BY <1>2 DEF GoneFirst
  <2>2. todo \notin Gone \cup Members(flight) \cup Members(buff) \cup Members(addChan)
    BY <1>3, <1>4 DEF GoneFirst
  <2>3. RefusedStays'
    BY <1>2, <1>3, <2>2 DEF RefusedStays
  <2> QED
    BY <1>2, <2>1, <2>3
<1>7. CASE CheckGoesOn
  <2>1. /\ todo' \in {todo, todo + 1} /\ ppc' # "report"
        /\ todo' = todo => ppc # "report"
        /\ UNCHANGED <<addChan, buff, flight, bpc, refused>>
    BY <1>3, <1>7 DEF CheckGoesOn, CheckReport, CheckEnd, addVars, batchVars
  <2>2. /\ 1..(todo - 1) \subseteq 1..(todo' - 1) /\ 1..todo \subseteq 1..todo'
        /\ todo' = todo + 1 => todo' \notin 1..todo
    <3>1. CASE todo' = todo
      BY <1>3, <3>1
    <3>2. CASE todo' = todo + 1
      BY <1>3, <3>2
    <3> QED
      BY <2>1, <3>1, <3>2
  <2>3. GoneFirst'
    BY <1>2, <2>1, <2>2 DEF GoneFirst
  <2>4. refused \subseteq 1..todo /\ todo' \notin refused
    BY <2>1, <2>2 DEF RefusedStays
  <2>5. RefusedStays'
    BY <1>2, <2>1, <2>2, <2>4 DEF RefusedStays
  <2> QED
    BY <1>2, <2>3, <2>5
<1> QED
  BY <1>5, <1>6, <1>7

LEMMA BatchArrival ==
  ASSUME ArrivalInv, AttrInv, NotSigned \/ BatchStep
  PROVE  ArrivalInv'
<1> USE DEF ArrivalInv
<1>1. UNCHANGED <<chain, pending>>
  BY DEF NotSigned, BatchStep
<1>2. GoneInOrder' /\ Gone' = Gone
  BY <1>1, NothingArrives
<1>3. /\ n \in Nat /\ todo \in 1..n+1 /\ addChan \in Seq(1..n) /\ buff \in Seq(1..n)
      /\ Members(buff) \subseteq 1..(todo - 1)
      /\ Below(buff, addChan)
  BY BatchAssumption DEF AttrInv, TypeOK, Ordered
<1>4. UNCHANGED <<todo, ppc>>
  BY DEF NotSigned, BatchStep, SignFails, BatchRecv, BatchClosed, SignOk, BatchReport,
         BatchEnd, CloseResp, checkVars
<1>5. CASE NotSigned
  <2> USE <1>5 DEF NotSigned, SignFails, addVars
  <2>1. Members(buff') = {}
    BY EmptyHasNone
  <2>2. GoneFirst'
    BY <1>2, <1>4, <2>1 DEF GoneFirst
  <2>3. Members(buff) \cap (Gone \cup Members(addChan)) = {}
    BY <1>3 DEF GoneFirst, Below
  <2>4. refused' \subseteq 1..todo /\ (ppc # "report" => todo \notin refused')
    <3>1. Members(buff) \subseteq 1..todo /\ todo \notin Members(buff)
      BY <1>3
    <3>2. refused' = refused \cup Members(buff)
      OBVIOUS
    <3> QED
      BY <3>1, <3>2 DEF RefusedStays
  <2>5. RefusedStays'
    BY <1>2, <1>4, <2>1, <2>3, <2>4 DEF RefusedStays
  <2> QED
    BY <1>2, <2>2, <2>5
<1>6. CASE BatchStep
  <2>1. /\ Members(buff') \cup Members(addChan') \subseteq Members(buff) \cup Members(addChan)
        /\ bpc' = "broadcast" => flight' = buff
    <3>1. CASE BatchRecv
      <4>1. Head(addChan) \in 1..n
        BY <1>3, <3>1, HeadTailProperties DEF BatchRecv
      <4>2. /\ Members(addChan) = {Head(addChan)} \cup Members(addChan')
            /\ Members(buff') = Members(buff) \cup {Head(addChan)}
        BY <1>3, <3>1, <4>1, MembersOfTail, MembersOfAppend DEF BatchRecv
      <4> QED
        BY <3>1, <4>2 DEF BatchRecv
    <3>2. CASE SignOk
      BY <3>2, EmptyHasNone DEF SignOk, addVars
    <3>3. CASE BatchClosed
      BY <3>3 DEF BatchClosed, addVars
    <3>4. CASE BatchReport \/ BatchEnd \/ CloseResp
      BY <3>4 DEF BatchReport, BatchEnd, CloseResp, addVars
    <3> QED
      BY <1>6, <3>1, <3>2, <3>3, <3>4 DEF BatchStep
  <2>2. refused' = refused
    BY <1>6 DEF BatchStep
  <2>3. GoneFirst'
    BY <1>2, <1>4, <2>1 DEF GoneFirst
  <2>4. RefusedStays'
    BY <1>2, <1>4, <2>1, <2>2 DEF RefusedStays
  <2> QED
    BY <1>2, <2>3, <2>4
<1> QED
  BY <1>5, <1>6

LEMMA BroadcastArrival ==
  ASSUME ArrivalInv, AttrInv, SeenInv, Broadcasted
  PROVE  ArrivalInv'
<1> USE DEF ArrivalInv
<1>1. /\ bpc = "broadcast" /\ bpc' # "broadcast"
      /\ UNCHANGED <<chain, refused, todo, ppc, buff, addChan, flight>>
      /\ pending' \in {Append(pending, flight), pending}
  BY DEF Broadcasted, BroadcastOk, BroadcastFails, checkVars, addVars
<1>2. /\ n \in Nat /\ flight \in Seq(1..n) /\ pending \in Seq(Seq(1..n))
      /\ Increasing(flight) /\ Members(flight) \subseteq 1..(todo - 1)
      /\ Below(flight, addChan) /\ Members(buff) = {}
  <2>1. n \in Nat /\ flight \in Seq(1..n) /\ pending \in Seq(Seq(1..n))
    BY BatchAssumption DEF AttrInv, TypeOK, SeenInv
  <2>2. /\ Increasing(flight) /\ Members(flight) \subseteq 1..(todo - 1)
        /\ Below(flight, addChan)
    BY DEF AttrInv, Ordered
  <2>3. buff = <<>>
    BY <1>1 DEF AttrInv, Places
  <2> QED
    BY <2>1, <2>2, <2>3, EmptyHasNone
<1>3. CASE pending' = pending
  <2>1. GoneInOrder' /\ Gone' = Gone
    BY <1>1, <1>3, NothingArrives
  <2> QED
    BY <1>1, <2>1 DEF GoneFirst, RefusedStays
<1>4. CASE pending' = Append(pending, flight)
  <2>1. /\ Len(pending) \in Nat /\ Len(pending') = Len(pending) + 1
        /\ \A b \in 1..Len(pending) : pending'[b] = pending[b]
        /\ pending'[Len(pending) + 1] = flight
    BY <1>2, <1>4, AppendProperties, LenProperties
  <2>2. \A b \in 1..Len(pending') : b \in 1..Len(pending) \/ b = Len(pending) + 1
    BY <2>1
  <2>3. /\ 1..Len(pending) \subseteq 1..Len(pending')
        /\ Len(pending) + 1 \in 1..Len(pending')
    BY <2>1
  <2>4. Coming' = Coming \cup Members(flight) /\ Arrived' = Arrived
    BY <1>1, <2>1, <2>2, <2>3 DEF Coming, Arrived
  <2>5. \A a \in Gone, i \in Members(flight) : a < i
    BY <1>1 DEF GoneFirst
  <2>6. GoneInOrder'
    <3>1. \A b \in 1..Len(pending') : Increasing(pending'[b])
      BY <1>2, <2>1, <2>2 DEF GoneInOrder
    <3>2. ASSUME NEW b \in 1..Len(pending'), NEW c \in 1..Len(pending'), b < c
          PROVE  Below(pending'[b], pending'[c])
      <4>1. b \in 1..Len(pending) /\ pending'[b] = pending[b]
        BY <2>1, <3>2
      <4>2. CASE c \in 1..Len(pending)
        BY <2>1, <3>2, <4>1, <4>2 DEF GoneInOrder
      <4>3. CASE c = Len(pending) + 1
        BY <2>1, <2>5, <4>1, <4>3 DEF Below, Gone, Coming
      <4> QED
        BY <2>2, <4>2, <4>3
    <3>3. \A a \in Arrived', i \in Coming' : a < i
      BY <2>4, <2>5 DEF GoneInOrder, Gone
    <3> QED
      BY <1>1, <3>1, <3>2, <3>3 DEF GoneInOrder
  <2>7. Gone' = Gone \cup Members(flight)
    BY <2>4 DEF Gone
  <2>8. GoneFirst'
    BY <1>1, <1>2, <2>7 DEF GoneFirst, Below
  <2>9. RefusedStays'
    BY <1>1, <1>2, <2>7 DEF RefusedStays
  <2> QED
    BY <2>6, <2>8, <2>9
<1> QED
  BY <1>1, <1>3, <1>4

\* The chain grows by some entries; they are in order and come after all on chain.
LEMMA ChainArrival ==
  ASSUME SeenInv, n \in Nat,
         NEW more \in Seq([key : Keys, entry : 0..n]),
         \A p, q \in 1..Len(chain) :
           p < q /\ chain[p].entry # 0 /\ chain[q].entry # 0
             => chain[p].entry < chain[q].entry,
         \A i, j \in 1..Len(more) :
           i < j /\ more[i].entry # 0 /\ more[j].entry # 0
             => more[i].entry < more[j].entry,
         \A a \in Arrived, j \in 1..Len(more) : more[j].entry # 0 => a < more[j].entry,
         chain' = chain \o more
  PROVE  /\ \A p, q \in 1..Len(chain') :
              p < q /\ chain'[p].entry # 0 /\ chain'[q].entry # 0
                => chain'[p].entry < chain'[q].entry
         /\ Arrived' = Arrived \cup ({more[j].entry : j \in 1..Len(more)} \ {0})
<1>1. /\ Len(chain') = Len(chain) + Len(more)
      /\ \A p \in 1..Len(chain) + Len(more) :
           chain'[p] = IF p <= Len(chain) THEN chain[p] ELSE more[p - Len(chain)]
  BY ConcatProperties DEF SeenInv
<1>2. Len(chain) \in Nat /\ Len(more) \in Nat
  BY LenProperties DEF SeenInv
<1>3. \A p \in 1..Len(chain') :
        \/ p \in 1..Len(chain) /\ chain'[p] = chain[p]
        \/ p > Len(chain) /\ p - Len(chain) \in 1..Len(more)
             /\ chain'[p] = more[p - Len(chain)]
  BY <1>1, <1>2
<1>4. ASSUME NEW p \in 1..Len(chain'), NEW q \in 1..Len(chain'),
             p < q, chain'[p].entry # 0, chain'[q].entry # 0
      PROVE  chain'[p].entry < chain'[q].entry
  <2>1. CASE q \in 1..Len(chain) /\ chain'[q] = chain[q]
    <3>1. p \in 1..Len(chain) /\ chain'[p] = chain[p]
      BY <1>2, <1>3, <1>4, <2>1
    <3> QED
      BY <1>4, <2>1, <3>1
  <2>2. CASE q > Len(chain) /\ q - Len(chain) \in 1..Len(more)
             /\ chain'[q] = more[q - Len(chain)]
    <3>1. CASE p \in 1..Len(chain) /\ chain'[p] = chain[p]
      BY <1>4, <2>2, <3>1 DEF Arrived
    <3>2. CASE p > Len(chain) /\ p - Len(chain) \in 1..Len(more)
               /\ chain'[p] = more[p - Len(chain)]
      <4>1. p - Len(chain) < q - Len(chain)
        BY <1>2, <1>4
      <4> QED
        BY <1>4, <2>2, <3>2, <4>1
    <3> QED
      BY <1>3, <3>1, <3>2
  <2> QED
    BY <1>3, <2>1, <2>2
<1>5. \A p \in 1..Len(chain) : p \in 1..Len(chain') /\ chain'[p] = chain[p]
  BY <1>1, <1>2
<1>6. \A j \in 1..Len(more) :
        Len(chain) + j \in 1..Len(chain') /\ chain'[Len(chain) + j] = more[j]
  BY <1>1, <1>2
<1>7. Arrived' = Arrived \cup ({more[j].entry : j \in 1..Len(more)} \ {0})
  <2>1. Arrived' \subseteq Arrived \cup ({more[j].entry : j \in 1..Len(more)} \ {0})
    BY <1>3 DEF Arrived
  <2>2. Arrived \subseteq Arrived'
    BY <1>5 DEF Arrived
  <2>3. {more[j].entry : j \in 1..Len(more)} \ {0} \subseteq Arrived'
    BY <1>6 DEF Arrived
  <2> QED
    BY <2>1, <2>2, <2>3
<1> QED
  BY <1>4, <1>7

LEMMA ExecuteArrival ==
  ASSUME ArrivalInv, AttrInv, SeenInv, Execute
  PROVE  ArrivalInv'
<1> DEFINE batch == Head(pending)
           added == [j \in DOMAIN batch |-> [key |-> key[batch[j]], entry |-> batch[j]]]
<1>1. n \in Nat /\ pending \in Seq(Seq(1..n)) /\ key \in [1..n -> Keys]
  BY BatchAssumption DEF AttrInv, TypeOK, SeenInv
<1>2. /\ pending # <<>> /\ pending' = Tail(pending)
      /\ chain' = chain \/ chain' = chain \o added
      /\ UNCHANGED <<refused, todo, ppc, bpc, buff, addChan, flight>>
  BY DEF Execute, vars, checkVars, addVars, batchVars
<1>3. batch \in Seq(1..n)
  BY <1>1, <1>2, HeadTailProperties
<1>4. Len(batch) \in Nat /\ DOMAIN batch = 1..Len(batch)
  BY <1>3, LenProperties
<1>5. /\ added \in Seq([key : Keys, entry : 0..n]) /\ Len(added) = Len(batch)
      /\ \A j \in 1..Len(batch) : added[j].entry = batch[j] /\ batch[j] \in 1..n
  <2>1. \A j \in 1..Len(batch) : batch[j] \in 1..n /\ key[batch[j]] \in Keys
    BY <1>1, <1>3, ElementOfSeq
  <2>2. \A j \in 1..Len(batch) : added[j] = [key |-> key[batch[j]], entry |-> batch[j]]
    BY <1>4
  <2>3. \A j \in 1..Len(batch) : added[j] \in [key : Keys, entry : 0..n]
    BY <1>1, <2>1, <2>2
  <2>4. added \in [1..Len(batch) -> [key : Keys, entry : 0..n]]
    BY <1>4, <2>3
  <2>5. \A j \in 1..Len(batch) : added[j].entry = batch[j]
    BY <2>2
  <2> HIDE DEF added, batch
  <2> QED
    BY <1>4, <2>1, <2>4, <2>5, FunctionIsSeq
<1> HIDE DEF added
<1>6. /\ Len(pending) \in Nat \ {0} /\ Len(pending') = Len(pending) - 1
      /\ \A b \in 1..Len(pending') : pending'[b] = pending[b + 1]
      /\ batch = pending[1]
  BY <1>1, <1>2, HeadTailProperties, EmptySeq, LenProperties
<1> HIDE DEF batch
<1>7. \A b \in 1..Len(pending') : b + 1 \in 1..Len(pending)
  BY <1>6
<1>8. 1 \in 1..Len(pending)
  BY <1>6
<1>9. Members(batch) \cup Coming' \subseteq Coming
  BY <1>6, <1>7, <1>8 DEF Coming
<1>10. \A a \in Members(batch), i \in Coming' : a < i
  <2>1. \A b \in 1..Len(pending') : Below(batch, pending'[b])
    <3> SUFFICES ASSUME NEW b \in 1..Len(pending') PROVE Below(batch, pending'[b])
      OBVIOUS
    <3>1. 1 < b + 1 /\ b + 1 \in 1..Len(pending) /\ pending'[b] = pending[b + 1]
      BY <1>6, <1>7
    <3> QED
      BY <1>6, <1>8, <3>1 DEF ArrivalInv, GoneInOrder
  <2> QED
    BY <2>1 DEF Coming, Below
<1>11. /\ \A b \in 1..Len(pending') : Increasing(pending'[b])
       /\ \A b, c \in 1..Len(pending') : b < c => Below(pending'[b], pending'[c])
  <2>1. \A b, c \in 1..Len(pending') : b < c => b + 1 < c + 1
    BY <1>6
  <2> QED
    BY <1>6, <1>7, <2>1 DEF ArrivalInv, GoneInOrder
<1>12. /\ \A p, q \in 1..Len(chain') :
            p < q /\ chain'[p].entry # 0 /\ chain'[q].entry # 0
              => chain'[p].entry < chain'[q].entry
       /\ Arrived' \subseteq Arrived \cup Members(batch)
  <2>1. CASE chain' = chain
    BY <2>1 DEF ArrivalInv, GoneInOrder, Arrived
  <2>2. CASE chain' = chain \o added
    <3>1. \A i, j \in 1..Len(added) :
            i < j /\ added[i].entry # 0 /\ added[j].entry # 0
              => added[i].entry < added[j].entry
      <4>1. Increasing(batch)
        BY <1>6, <1>8 DEF ArrivalInv, GoneInOrder
      <4> QED
        BY <1>5, <4>1 DEF Increasing
    <3>2. \A j \in 1..Len(added) : added[j].entry \in Members(batch)
      BY <1>5 DEF Members
    <3>3. \A a \in Arrived, j \in 1..Len(added) : added[j].entry # 0 => a < added[j].entry
      BY <1>9, <3>2 DEF ArrivalInv, GoneInOrder
    <3>4. \A p, q \in 1..Len(chain) :
            p < q /\ chain[p].entry # 0 /\ chain[q].entry # 0
              => chain[p].entry < chain[q].entry
      BY DEF ArrivalInv, GoneInOrder
    <3>5. /\ \A p, q \in 1..Len(chain') :
              p < q /\ chain'[p].entry # 0 /\ chain'[q].entry # 0
                => chain'[p].entry < chain'[q].entry
          /\ Arrived' = Arrived \cup ({added[j].entry : j \in 1..Len(added)} \ {0})
      BY <1>1, <1>5, <2>2, <3>1, <3>3, <3>4, ChainArrival
    <3> QED
      BY <3>2, <3>5
  <2> QED
    BY <1>2, <2>1, <2>2
<1>13. GoneInOrder'
  <2>1. \A a \in Arrived', i \in Coming' : a < i
    BY <1>9, <1>10, <1>12 DEF ArrivalInv, GoneInOrder
  <2> QED
    BY <1>11, <1>12, <2>1 DEF GoneInOrder
<1>14. Gone' \subseteq Gone
  BY <1>9, <1>12 DEF Gone
<1>15. GoneFirst' /\ RefusedStays'
  BY <1>2, <1>14 DEF ArrivalInv, GoneFirst, RefusedStays
<1> QED
  BY <1>13, <1>15 DEF ArrivalInv

LEMMA OthersArrival ==
  ASSUME ArrivalInv, AttrInv, SeenInv, AddedByOthers
  PROVE  ArrivalInv'
<1>1. PICK k \in Keys : chain' = Append(chain, [key |-> k, entry |-> 0])
  BY DEF AddedByOthers
<1>2. UNCHANGED <<pending, refused, todo, ppc, bpc, buff, addChan, flight>>
  BY DEF AddedByOthers, vars, checkVars, addVars, batchVars
<1> DEFINE new == [key |-> k, entry |-> 0]
<1>3. n \in Nat
  BY BatchAssumption DEF AttrInv, TypeOK
<1>4. new \in [key : Keys, entry : 0..n] /\ new.entry = 0
  BY <1>3
<1> HIDE DEF new
<1>5. chain' = chain \o <<new>>
  BY <1>1, <1>4, AppendIsConcat DEF SeenInv, new
<1>6. /\ <<new>> \in Seq([key : Keys, entry : 0..n])
      /\ \A j \in 1..Len(<<new>>) : <<new>>[j].entry = 0
  BY <1>4
<1>7. /\ \A p, q \in 1..Len(chain') :
            p < q /\ chain'[p].entry # 0 /\ chain'[q].entry # 0
              => chain'[p].entry < chain'[q].entry
      /\ Arrived' = Arrived \cup ({<<new>>[j].entry : j \in 1..Len(<<new>>)} \ {0})
  <2>1. \A p, q \in 1..Len(chain) :
          p < q /\ chain[p].entry # 0 /\ chain[q].entry # 0
            => chain[p].entry < chain[q].entry
    BY DEF ArrivalInv, GoneInOrder
  <2> QED
    BY <1>3, <1>5, <1>6, <2>1, ChainArrival
<1>8. Arrived' = Arrived /\ Coming' = Coming /\ Gone' = Gone
  <2>1. {<<new>>[j].entry : j \in 1..Len(<<new>>)} \ {0} = {}
    BY <1>6
  <2>2. Arrived' = Arrived
    BY <1>7, <2>1
  <2>3. Coming' = Coming
    BY <1>2 DEF Coming
  <2> QED
    BY <2>2, <2>3 DEF Gone
<1>9. GoneInOrder'
  BY <1>2, <1>7, <1>8 DEF ArrivalInv, GoneInOrder
<1> QED
  BY <1>2, <1>8, <1>9 DEF ArrivalInv, GoneFirst, RefusedStays

LEMMA ArrivalStep ==
  ASSUME ArrivalInv, AttrInv, SeenInv, [UploadNext]_uploadVars
  PROVE  ArrivalInv'
<1>1. CASE CheckGoroutine
  BY <1>1, CheckArrival DEF CheckGoroutine
<1>2. CASE BatchGoroutine
  BY <1>2, BatchArrival, BroadcastArrival DEF BatchGoroutine
<1>3. CASE Execute \/ AddedByOthers
  BY <1>3, ExecuteArrival, OthersArrival
<1>4. CASE UNCHANGED uploadVars
  <2>1. GoneInOrder' /\ Gone' = Gone
    BY <1>4, NothingArrives DEF uploadVars
  <2> QED
    BY <1>4, <2>1 DEF ArrivalInv, GoneFirst, RefusedStays, uploadVars, vars,
                      checkVars, addVars, batchVars
<1> QED
  BY <1>1, <1>2, <1>3, <1>4 DEF UploadNext, UploadDone

--------------------------------------------------------------------------------
\* On a chain, too, what is to be checked, on its way or reported adds up.
THEOREM UploadKeepsAttrInv == UploadSpec => []AttrInv
<1>1. UploadInit => AttrInv
  BY AttrInit DEF UploadInit
<1>2. AttrInv /\ [UploadNext]_uploadVars => AttrInv'
  BY AttrStep, UploadStepIsStep
<1> QED
  BY <1>1, <1>2, PTL DEF UploadSpec

\* What is on chain keeps its place, and what a check saw is before it.
LEMMA UploadKeepsSeenInv == UploadSpec => []SeenInv
<1>1. UploadInit => SeenInv
  BY SeenInit
<1>2. SeenInv /\ AttrInv /\ [UploadNext]_uploadVars => SeenInv'
  BY SeenStep DEF AttrInv
<1> QED
  BY <1>1, <1>2, UploadKeepsAttrInv, PTL DEF UploadSpec

\* An entry is added beside an attribute of the same name and account only if that
\* one came on chain after the entry's check, or the check missed the error of its
\* query, for any number of names, entries, batch size and additions by others
\* (AddAttributes).
THEOREM NoSeenDuplicate == UploadSpec => []DuplicatesOnlyUnseen
<1>1. SeenInv => DuplicatesOnlyUnseen
  <2> SUFFICES ASSUME SeenInv, NEW p \in 1..Len(chain), NEW q \in 1..Len(chain),
                      p < q, chain[p].key = chain[q].key, chain[q].entry # 0
      PROVE  p > seenAt[chain[q].entry]
    BY DEF DuplicatesOnlyUnseen
  <2>1. chain[q].entry \in 0..n /\ chain[q].key = key[chain[q].entry]
    <3>1. chain[q] \in [key : Keys, entry : 0..n]
      BY ElementOfSeq DEF SeenInv
    <3> QED
      BY <3>1 DEF SeenInv
  <2>2. chain[q].entry \in 1..n /\ seenAt[chain[q].entry] \in Nat
    BY <2>1 DEF SeenInv
  <2> QED
    BY <2>1, <2>2 DEF SeenInv
<1> QED
  BY <1>1, UploadKeepsSeenInv, PTL

\* The entries come on chain in the order of the call, each at most once, and none
\* does that the check or the signing gave an error for, for any number of names,
\* entries, batch size and additions by others, whatever gets lost, fails or is
\* executed late (AddAttributes).
THEOREM ArrivalsAsTold == UploadSpec => []ArrivesAsTold
<1>1. UploadInit => ArrivalInv
  BY ArrivalInit
<1>2. ArrivalInv /\ AttrInv /\ SeenInv /\ [UploadNext]_uploadVars => ArrivalInv'
  BY ArrivalStep
<1>3. ArrivalInv /\ SeenInv => ArrivesAsTold
  <2> SUFFICES ASSUME ArrivalInv, SeenInv PROVE ArrivesAsTold
    OBVIOUS
  <2>1. \A p \in 1..Len(chain) : chain[p].entry \notin refused
    <3> SUFFICES ASSUME NEW p \in 1..Len(chain), chain[p].entry \in refused PROVE FALSE
      OBVIOUS
    <3>1. chain[p].entry # 0
      BY DEF ArrivalInv, RefusedStays
    <3>2. chain[p].entry \in Gone
      BY <3>1 DEF Gone, Arrived
    <3> QED
      BY <3>2 DEF ArrivalInv, RefusedStays
  <2> QED
    BY <2>1 DEF ArrivalInv, GoneInOrder, ArrivesAsTold
<1> QED
  BY <1>1, <1>2, <1>3, UploadKeepsAttrInv, UploadKeepsSeenInv, PTL DEF UploadSpec
================================================================================
