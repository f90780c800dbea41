----------------------------- MODULE QueryClients -----------------------------
(***************************************************************************)
(* The lazily created query clients of a ProvenanceClient: AuthClient,      *)
(* AttributeClient, BankClient, MarkerClient, MetadataClient,               *)
(* TendermintClient, NodeClient and StakingClient are one piece of code     *)
(* over eight fields.  All hold c.mu, which is also the mutex of the        *)
(* sequence.                                                                *)
(***************************************************************************)
EXTENDS Naturals

CONSTANTS
  Users,     \* goroutines that use the client
  Kinds,     \* the kinds of query clients
  MaxGets    \* bound: calls per user

ASSUME QueryAssumption == "free" \notin Users /\ MaxGets \in Nat

VARIABLES
  mu,        \* the user that holds c.mu, or "free"
  field,     \* per kind: the client of the field, 0 for nil
  made,      \* clients made so far; each is a number of its own
  pc, kind,  \* per user: where it stands, and the kind it asks for
  gets,      \* per user: calls made
  got        \* history: the clients handed out

queryVars == <<mu, field, made, pc, kind, gets, got>>

Inside == {"check", "create", "return"}

Init ==
  /\ mu = "free"
  /\ field = [k \in Kinds |-> 0]
  /\ made = 0
  /\ pc = [u \in Users |-> "idle"]
  /\ kind \in [Users -> Kinds]
  /\ gets = [u \in Users |-> 0]
  /\ got = {}

Goto(u, from, to) == pc[u] = from /\ pc' = [pc EXCEPT ![u] = to]

Call(u, k) ==
  /\ gets[u] < MaxGets
  /\ Goto(u, "idle", "lock")
  /\ kind' = [kind EXCEPT ![u] = k]
  /\ gets' = [gets EXCEPT ![u] = @ + 1]
  /\ UNCHANGED <<mu, field, made, got>>

\* Mutant of Enter: the field is tested without the mutex.
EnterUnlocked(u) ==
  /\ Goto(u, "lock", "check")
  /\ mu' = u
  /\ UNCHANGED <<field, made, kind, gets, got>>

Enter(u) ==
  /\ mu = "free"
  /\ Goto(u, "lock", "check")
  /\ mu' = u
  /\ UNCHANGED <<field, made, kind, gets, got>>

Test(u) ==
  /\ Goto(u, "check", IF field[kind[u]] = 0 THEN "create" ELSE "return")
  /\ UNCHANGED <<mu, field, made, kind, gets, got>>

Create(u) ==
  /\ Goto(u, "create", "return")
  /\ made' = made + 1
  /\ field' = [field EXCEPT ![kind[u]] = made + 1]
  /\ UNCHANGED <<mu, kind, gets, got>>

\* The field is read, then the deferred Unlock runs.
Leave(u) ==
  /\ Goto(u, "return", "idle")
  /\ mu' = "free"
  /\ got' = got \cup {[kind |-> kind[u], client |-> field[kind[u]]]}
  /\ UNCHANGED <<field, made, kind, gets>>

AllGot ==
  /\ \A u \in Users : pc[u] = "idle" /\ gets[u] = MaxGets
  /\ UNCHANGED queryVars

Get(u) == Enter(u) \/ Test(u) \/ Create(u) \/ Leave(u)

Next ==
  \/ \E u \in Users : Get(u) \/ \E k \in Kinds : Call(u, k)
  \/ AllGot

QuerySpec == Init /\ [][Next]_queryVars

--------------------------------------------------------------------------------
\* The type invariant; whoever is inside a getter holds c.mu, and nobody else.
QueryTypeOK ==
  /\ mu \in Users \cup {"free"}
  /\ field \in [Kinds -> Nat]
  /\ made \in Nat
  /\ pc \in [Users -> {"idle", "lock"} \cup Inside]
  /\ kind \in [Users -> Kinds]
  /\ gets \in [Users -> Nat]
  /\ got \in SUBSET [kind : Kinds, client : Nat]
  /\ \A u \in Users : pc[u] \in Inside <=> mu = u

\* All goroutines that ask for the same kind are given one and the same client,
\* and never a nil one, however their calls meet (c.mu around test and creation).
OneClientPerKind ==
  /\ \A g \in got : g.client # 0
  /\ \A g, h \in got : g.kind = h.kind => g.client = h.client

\* The inductive invariant: what was handed out is still in its field, and a
\* field about to be filled is nil.
QueryInv ==
  /\ QueryTypeOK
  /\ \A g \in got : g.client = field[g.kind] /\ g.client # 0
  /\ \A u \in Users : pc[u] = "create" => field[kind[u]] = 0
  /\ \A u \in Users : pc[u] = "return" => field[kind[u]] # 0
================================================================================
