---------------------------- MODULE AttributeUpload ----------------------------
(***************************************************************************)
(* AddAttributes on a chain that holds attributes: which name and account   *)
(* each entry of the call is about, what GetAttributes says about it, and   *)
(* what becomes of the batches.                                             *)
(*                                                                          *)
(* The chain is external: it takes the batches in order, each as a whole or *)
(* not at all, and keeps a second attribute of a name and account beside    *)
(* the first.  Others add attributes too.                                   *)
(***************************************************************************)
EXTENDS AddAttributes, FiniteSets

CONSTANTS
  Keys,          \* names and accounts, as pairs
  MaxForeign     \* bound: attributes that others add

VARIABLES
  key,        \* the name and account of each entry
  pending,    \* broadcast transactions that are still to be executed
  chain,      \* the attributes on chain in the order they were added: [key, entry]
  seenAt,     \* history: attributes on chain that the check of each entry saw
  refused     \* history: entries that the check or the signing gave an error for

uploadVars == <<vars, key, pending, chain, seenAt, refused>>

Exists(k) == \E p \in 1..Len(chain) : chain[p].key = k

UploadInit ==
  /\ Init
  /\ key \in [1..n -> Keys]
  /\ pending = <<>>
  /\ chain \in {<<>>} \cup {<<[key |-> k, entry |-> 0]>> : k \in Keys}
  /\ seenAt = [i \in 1..n |-> 0]
  /\ refused = {}

\* len(attrs) == 0.
Absent(i) == ~Exists(key[i])

\* GetAttributes answers in time, and finds nothing.
Checked ==
  /\ CheckAbsent
  /\ Absent(todo)
  /\ seenAt' = [seenAt EXCEPT ![todo] = Len(chain)]
  /\ UNCHANGED <<key, pending, chain, refused>>

\* The query failed before an attribute came, and the select of GetAttributes takes
\* the closed attribute channel before the error: an empty slice and no error,
\* whatever there is on chain.
MissedError ==
  /\ CheckAbsent
  /\ UNCHANGED <<key, pending, chain, seenAt, refused>>

\* "attribute already exists", or an error of the query.
NotPassedOn ==
  /\ CheckFails
  /\ refused' = refused \cup {todo}
  /\ UNCHANGED <<key, pending, chain, seenAt>>

CheckGoesOn ==
  /\ CheckReport \/ CheckEnd
  /\ UNCHANGED <<key, pending, chain, seenAt, refused>>

NotSigned ==
  /\ SignFails
  /\ refused' = refused \cup Members(buff)
  /\ UNCHANGED <<key, pending, chain, seenAt>>

\* A transaction the node rejects with a code is a response like any other, and
\* one whose answer is lost is an error, whether the node has it or not.
Broadcasted ==
  /\ BroadcastOk \/ BroadcastFails
  /\ pending' \in {Append(pending, flight), pending}
  /\ UNCHANGED <<key, chain, seenAt, refused>>

BatchStep ==
  /\ \/ BatchRecv \/ BatchClosed \/ SignOk
     \/ BatchReport \/ BatchEnd \/ CloseResp
  /\ UNCHANGED <<key, pending, chain, seenAt, refused>>

\* The chain executes the next transaction, or it fails.
Execute ==
  /\ pending # <<>>
  /\ pending' = Tail(pending)
  /\ LET batch == Head(pending)
     IN  chain' \in {chain, chain \o [j \in DOMAIN batch |->
                                        [key |-> key[batch[j]], entry |-> batch[j]]]}
  /\ UNCHANGED <<vars, key, seenAt, refused>>

AddedByOthers ==
  /\ Cardinality({p \in 1..Len(chain) : chain[p].entry = 0}) <= MaxForeign
  /\ \E k \in Keys : chain' = Append(chain, [key |-> k, entry |-> 0])
  /\ UNCHANGED <<vars, key, pending, seenAt, refused>>

UploadDone == Finished /\ UNCHANGED uploadVars

CheckGoroutine == Checked \/ MissedError \/ NotPassedOn \/ CheckGoesOn
BatchGoroutine == NotSigned \/ Broadcasted \/ BatchStep

UploadNext ==
  \/ CheckGoroutine \/ BatchGoroutine
  \/ Execute \/ AddedByOthers
  \/ UploadDone

\* Both goroutines are scheduled, every RPC returns, and the caller keeps
\* receiving from both channels; nothing is asked of the chain.
UploadFairness == WF_uploadVars(CheckGoroutine) /\ WF_uploadVars(BatchGoroutine)

UploadSpec == UploadInit /\ [][UploadNext]_uploadVars /\ UploadFairness

--------------------------------------------------------------------------------
\* What comes on chain is what the caller was told: the entries of the call arrive
\* in its order, each at most once, and none arrives that the check or the signing
\* gave an error for, whatever fails, gets lost or is executed late (AddAttributes).
\* An error of the broadcast is no such promise.
ArrivesAsTold ==
  /\ \A p, q \in 1..Len(chain) :
       p < q /\ chain[p].entry # 0 /\ chain[q].entry # 0
         => chain[p].entry < chain[q].entry
  /\ \A p \in 1..Len(chain) : chain[p].entry \notin refused

\* The entries that are on chain, and those that may still come there.
Arrived == {chain[p].entry : p \in 1..Len(chain)} \ {0}
Coming == UNION {Members(pending[b]) : b \in 1..Len(pending)}
Gone == Arrived \cup Coming

\* What is on chain comes before what is pending, and that in the order of the call.
GoneInOrder ==
  /\ \A p, q \in 1..Len(chain) :
       p < q /\ chain[p].entry # 0 /\ chain[q].entry # 0
         => chain[p].entry < chain[q].entry
  /\ \A b \in 1..Len(pending) : Increasing(pending[b])
  /\ \A b, c \in 1..Len(pending) : b < c => Below(pending[b], pending[c])
  /\ \A a \in Arrived, i \in Coming : a < i

\* What was sent comes before what is being sent or packed.
GoneFirst ==
  /\ Gone \subseteq 1..(todo - 1)
  /\ \A a \in Gone, i \in Members(buff) \cup Members(addChan) : a < i
  /\ bpc = "broadcast" => \A a \in Gone, i \in Members(flight) : a < i

\* What was refused is neither sent nor about to be.
RefusedStays ==
  /\ refused \subseteq 1..todo
  /\ ppc # "report" => todo \notin refused
  /\ refused \cap (Gone \cup Members(buff) \cup Members(addChan)) = {}
  /\ bpc = "broadcast" => refused \cap Members(flight) = {}

\* The inductive invariant behind it: what is on chain or pending precedes what is
\* being sent or packed, and what was refused is in none of these places.
ArrivalInv == GoneInOrder /\ GoneFirst /\ RefusedStays

\* An entry is added beside an attribute of the same name and account only if that
\* one came on chain after the entry was checked, or if the check missed the error
\* of its query: an answer that came is heeded (AddAttributes).
DuplicatesOnlyUnseen ==
  \A p, q \in 1..Len(chain) :
    p < q /\ chain[p].key = chain[q].key /\ chain[q].entry # 0
      => p > seenAt[chain[q].entry]

\* The inductive invariant behind it: no attribute that the check of an entry saw,
\* and passed on, has its name and account; what is there stays there.
SeenInv ==
  /\ key \in [1..n -> Keys]
  /\ seenAt \in [1..n -> Nat]
  /\ pending \in Seq(Seq(1..n))
  /\ chain \in Seq([key : Keys, entry : 0..n])
  /\ \A p \in 1..Len(chain) : chain[p].entry # 0 => chain[p].key = key[chain[p].entry]
  /\ \A i \in 1..n : seenAt[i] <= Len(chain)
  /\ \A i \in 1..n : \A p \in 1..seenAt[i] : chain[p].key # key[i]

================================================================================
