----------------------------- MODULE AddAttributes -----------------------------
(***************************************************************************)
(* AddAttributes: one goroutine checks each attribute to add with           *)
(* GetAttributes and passes it on or reports an error; a second one packs   *)
(* what it is passed into transactions of BatchSize messages, and reports a *)
(* response or an error for each.  Both report to the caller on the same    *)
(* unbuffered error channel, which the second goroutine closes.             *)
(*                                                                          *)
(* The caller is external: it takes what arrives on both channels until     *)
(* they are closed, so a report is sent and received in one step.           *)
(***************************************************************************)
EXTENDS Integers, Sequences

CONSTANTS
  MaxAttrs,    \* bound: attributes in one call
  BatchSize    \* messages in one transaction (75 in the code)

ASSUME BatchAssumption ==
  /\ MaxAttrs \in Nat
  /\ BatchSize \in Nat \ {0}

VARIABLES
  n,           \* len(attrs): the attributes are 1..n, in this order
  todo,        \* the attribute the checking goroutine is at
  ppc,         \* where the checking goroutine stands
  addChan, addClosed,    \* attrAddChan, of capacity n
  buff,        \* messages of the next transaction
  flight,      \* messages of the transaction being sent and reported
  closed,      \* the batching goroutine has seen attrAddChan closed
  bpc,         \* where the batching goroutine stands
  errClosed, respClosed, \* attrErrChan and attrRespChan
  reports,     \* history: reports the caller got about each attribute
  sent         \* history: attributes of broadcast transactions, in order

addVars   == <<addChan, addClosed>>
checkVars == <<n, todo, ppc>>
batchVars == <<buff, flight, closed, bpc, errClosed, respClosed>>
histVars  == <<reports, sent>>
vars == <<checkVars, addVars, batchVars, histVars>>

Members(s) == {s[i] : i \in 1..Len(s)}

Reported(set) == reports' = [i \in 1..n |-> reports[i] + (IF i \in set THEN 1 ELSE 0)]

Init ==
  /\ n \in 0..MaxAttrs
  /\ todo = 1
  /\ ppc = "check"
  /\ addChan = <<>> /\ addClosed = FALSE
  /\ buff = <<>> /\ flight = <<>>
  /\ closed = FALSE
  /\ bpc = "recv"
  /\ errClosed = FALSE /\ respClosed = FALSE
  /\ reports = [i \in 1..n |-> 0]
  /\ sent = <<>>

--------------------------------------------------------------------------------
(* The checking goroutine.                                                 *)

\* GetAttributes finds no attribute of that name: pass the message on.
CheckAbsent ==
  /\ ppc = "check" /\ todo <= n
  /\ Len(addChan) < n
  /\ addChan' = Append(addChan, todo)
  /\ todo' = todo + 1
  /\ UNCHANGED <<n, ppc, addClosed, batchVars, histVars>>

\* GetAttributes fails, or the attribute exists: an error is to be reported.
CheckFails ==
  /\ ppc = "check" /\ todo <= n
  /\ ppc' = "report"
  /\ UNCHANGED <<n, todo, addVars, batchVars, histVars>>

\* Mutant of CheckReport: what was reported is passed on all the same.
CheckReportPassesOn ==
  /\ ppc = "report"
  /\ Reported({todo})
  /\ addChan' = Append(addChan, todo)
  /\ ppc' = "check"
  /\ todo' = todo + 1
  /\ UNCHANGED <<n, addClosed, batchVars, sent>>

CheckReport ==
  /\ ppc = "report"
  /\ Reported({todo})
  /\ ppc' = "check"
  /\ todo' = todo + 1
  /\ UNCHANGED <<n, addVars, batchVars, sent>>

\* Mutant of CheckEnd: attrAddChan is closed while the last report is pending.
CheckEndEarly ==
  /\ todo > n \/ (todo = n /\ ppc = "report")
  /\ ~addClosed
  /\ addClosed' = TRUE
  /\ ppc' = IF todo > n THEN "done" ELSE ppc
  /\ UNCHANGED <<n, todo, addChan, batchVars, histVars>>

\* The deferred close after the last attribute.
CheckEnd ==
  /\ ppc = "check" /\ todo > n
  /\ addClosed' = TRUE
  /\ ppc' = "done"
  /\ UNCHANGED <<n, todo, addChan, batchVars, histVars>>

Check == CheckAbsent \/ CheckFails \/ CheckReport \/ CheckEnd

--------------------------------------------------------------------------------
(* The batching goroutine.                                                 *)

\* Mutant of BatchRecv: the batch is cut one message late.
BatchRecvLate ==
  /\ bpc = "recv" /\ ~closed
  /\ addChan # <<>>
  /\ buff' = Append(buff, Head(addChan))
  /\ addChan' = Tail(addChan)
  /\ bpc' = IF Len(buff) = BatchSize THEN "sign" ELSE "recv"
  /\ UNCHANGED <<checkVars, addClosed, flight, closed, errClosed, respClosed, histVars>>

BatchRecv ==
  /\ bpc = "recv" /\ ~closed
  /\ addChan # <<>>
  /\ buff' = Append(buff, Head(addChan))
  /\ addChan' = Tail(addChan)
  /\ bpc' = IF Len(buff') = BatchSize THEN "sign" ELSE "recv"
  /\ UNCHANGED <<checkVars, addClosed, flight, closed, errClosed, respClosed, histVars>>

\* Mutant of BatchClosed: what is left in the buffer is not sent.
BatchClosedDropsRest ==
  /\ bpc = "recv" /\ ~closed
  /\ addClosed /\ addChan = <<>>
  /\ closed' = TRUE
  /\ UNCHANGED <<checkVars, addVars, buff, flight, bpc, errClosed, respClosed, histVars>>

\* Mutant of BatchClosed: the end of the input is not remembered.
BatchClosedForgotten ==
  /\ bpc = "recv" /\ ~closed
  /\ addClosed /\ addChan = <<>>
  /\ bpc' = IF Len(buff) > 0 THEN "sign" ELSE "recv"
  /\ UNCHANGED <<checkVars, addVars, buff, flight, closed, errClosed, respClosed, histVars>>

\* The input is closed and drained; the last, partial batch still has to go.
BatchClosed ==
  /\ bpc = "recv" /\ ~closed
  /\ addClosed /\ addChan = <<>>
  /\ closed' = TRUE
  /\ bpc' = IF Len(buff) > 0 THEN "sign" ELSE "recv"
  /\ UNCHANGED <<checkVars, addVars, buff, flight, errClosed, respClosed, histVars>>

\* Mutant of SignOk: the buffer is not cleared.
SignOkKeepsBuff ==
  /\ bpc = "sign"
  /\ flight' = buff
  /\ bpc' = "broadcast"
  /\ UNCHANGED <<checkVars, addVars, buff, closed, errClosed, respClosed, histVars>>

SignOk ==
  /\ bpc = "sign"
  /\ flight' = buff
  /\ buff' = <<>>
  /\ bpc' = "broadcast"
  /\ UNCHANGED <<checkVars, addVars, closed, errClosed, respClosed, histVars>>

\* The buffer is cleared before the error is looked at.
SignFails ==
  /\ bpc = "sign"
  /\ flight' = buff
  /\ buff' = <<>>
  /\ bpc' = "report"
  /\ UNCHANGED <<checkVars, addVars, closed, errClosed, respClosed, histVars>>

BroadcastOk ==
  /\ bpc = "broadcast"
  /\ sent' = sent \o flight
  /\ bpc' = "respond"
  /\ UNCHANGED <<checkVars, addVars, buff, flight, closed, errClosed, respClosed, reports>>

BroadcastFails ==
  /\ bpc = "broadcast"
  /\ bpc' = "report"
  /\ UNCHANGED <<checkVars, addVars, buff, flight, closed, errClosed, respClosed, histVars>>

\* The error or the response of a transaction reaches the caller.
BatchReport ==
  /\ bpc \in {"report", "respond"}
  /\ Reported(Members(flight))
  /\ flight' = <<>>
  /\ bpc' = "recv"
  /\ UNCHANGED <<checkVars, addVars, buff, closed, errClosed, respClosed, sent>>

\* The deferred closes: the error channel first, then the response channel.
BatchEnd ==
  /\ bpc = "recv" /\ closed
  /\ errClosed' = TRUE
  /\ bpc' = "closeResp"
  /\ UNCHANGED <<checkVars, addVars, buff, flight, closed, respClosed, histVars>>

CloseResp ==
  /\ bpc = "closeResp"
  /\ respClosed' = TRUE
  /\ bpc' = "done"
  /\ UNCHANGED <<checkVars, addVars, buff, flight, closed, errClosed, histVars>>

Batch ==
  \/ BatchRecv \/ BatchClosed
  \/ SignOk \/ SignFails \/ BroadcastOk \/ BroadcastFails
  \/ BatchReport \/ BatchEnd \/ CloseResp

\* Both goroutines have returned.
Finished == ppc = "done" /\ bpc = "done" /\ UNCHANGED vars

Next == Check \/ Batch \/ Finished

\* Both goroutines are scheduled, every RPC returns, and the caller keeps
\* receiving from both channels.
Fairness == WF_vars(Check) /\ WF_vars(Batch)

Spec == Init /\ [][Next]_vars /\ Fairness

--------------------------------------------------------------------------------
\* The type invariant; a transaction never exceeds the batch size that keeps it
\* under the gas limit, and attrAddChan never exceeds its capacity.
TypeOK ==
  /\ n \in 0..MaxAttrs
  /\ todo \in 1..n+1
  /\ ppc \in {"check", "report", "done"}
  /\ addChan \in Seq(1..n) /\ Len(addChan) <= n /\ addClosed \in BOOLEAN
  /\ buff \in Seq(1..n) /\ Len(buff) <= BatchSize
  /\ flight \in Seq(1..n) /\ Len(flight) <= BatchSize
  /\ closed \in BOOLEAN
  /\ bpc \in {"recv", "sign", "broadcast", "report", "respond", "closeResp", "done"}
  /\ errClosed \in BOOLEAN /\ respClosed \in BOOLEAN
  /\ reports \in [1..n -> Nat]
  /\ sent \in Seq(1..n)

\* attrErrChan has two senders and is closed by one of them: when it is closed
\* neither goroutine has a report to make or will make one.
NoSendOnClosed ==
  errClosed =>
    /\ ppc = "done"
    /\ bpc \in {"closeResp", "done"}
    /\ buff = <<>> /\ flight = <<>> /\ addChan = <<>>

\* When the response channel is closed the caller has got exactly one report,
\* a response or an error, about every attribute of the call.
EachReportedOnce ==
  respClosed => \A i \in 1..n : reports[i] = 1

\* Attributes are broadcast in the order given, and none is in two transactions.
SentInOrder ==
  \A i, j \in 1..Len(sent) : i < j => sent[i] < sent[j]

Increasing(s) == \A i, j \in 1..Len(s) : i < j => s[i] < s[j]
Below(s, t) == \A a \in Members(s), b \in Members(t) : a < b

\* Where the two goroutines are, and what that says of the channels and buffers.
Places ==
  /\ ppc = "report" => todo <= n
  /\ ppc = "done" => todo = n + 1
  /\ addClosed <=> ppc = "done"
  /\ closed => addClosed /\ addChan = <<>>
  /\ bpc = "recv" => Len(buff) < BatchSize /\ (closed => buff = <<>>)
  /\ bpc \notin {"recv", "sign"} => buff = <<>>
  /\ bpc \notin {"broadcast", "report", "respond"} => flight = <<>>
  /\ errClosed <=> bpc \in {"closeResp", "done"}
  /\ errClosed => closed
  /\ respClosed <=> bpc = "done"

\* What is on its way is in the order of the call: what was broadcast, the
\* transaction at hand, the buffer, the channel, what is still to be checked.
Ordered ==
  /\ \A s \in {sent, flight, buff, addChan} :
       Increasing(s) /\ Members(s) \subseteq 1..(todo - 1)
  /\ Below(flight, addChan) /\ Below(buff, addChan)
  /\ Below(sent, buff) /\ Below(sent, addChan)
  /\ bpc = "broadcast" => Below(sent, flight)

OnTheWay == Members(flight) \cup Members(buff) \cup Members(addChan)

\* An attribute is still to be checked, or on its way, or reported once.
Counts == \A i \in 1..n : reports[i] = IF i < todo /\ i \notin OnTheWay THEN 1 ELSE 0

\* The inductive invariant behind NoSendOnClosed, EachReportedOnce and SentInOrder.
AttrInv == TypeOK /\ Places /\ Ordered /\ Counts

\* Both goroutines end and both channels are closed, so a caller that reads
\* until then returns.
ChannelsClose == <>(errClosed /\ respClosed /\ ppc = "done")
================================================================================
