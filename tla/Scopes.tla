-------------------------------- MODULE Scopes --------------------------------
(***************************************************************************)
(* CreateScope, DeleteScope and UpdateRecords of one signing client.        *)
(* CreateScope asks the chain whether the scope exists and sends a          *)
(* transaction later; the chain is external, and writes the scope of a      *)
(* MsgWriteScopeRequest whether or not there is one already.  The           *)
(* transactions are those of TxSequence.  A caller in Waiting follows each  *)
(* call with WaitOnTx.                                                      *)
(***************************************************************************)
EXTENDS TxSequence

CONSTANT ScopeIds

ASSUME ScopesAssumption == Prior = 0 /\ "none" \notin ScopeIds

VARIABLES
  target,     \* per caller: the scope CreateScope has found absent, or "none"
  msgs,       \* per caller: the message of each operation
  written,    \* chain: when each scope was written, 0 if there is none
  clock,      \* chain: transactions executed
  replaced    \* history: creations that met a scope, with the time it was written

callerVars == <<target, msgs>>
scopeVars == <<written, clock, replaced>>
scopesVars == <<vars, callerVars, scopeVars>>

ScopesInit ==
  /\ Init
  /\ target = [c \in Callers |-> "none"]
  /\ msgs = [c \in Callers |-> <<>>]
  /\ written = [s \in ScopeIds |-> 0]
  /\ clock = 0
  /\ replaced = {}

Idle(c) == pc[c] = "idle" /\ target[c] = "none" /\ ops[c] < MaxOps

--------------------------------------------------------------------------------
(* CreateScope.                                                            *)

\* Mutant of CheckAbsent: the answer of GetScope is not looked at.
CheckAbsentAlways(c, s) ==
  /\ Idle(c)
  /\ target' = [target EXCEPT ![c] = s]
  /\ msgs' = [msgs EXCEPT ![c] = Append(@, [kind |-> "create", scope |-> s, seen |-> clock])]
  /\ UNCHANGED <<vars, scopeVars>>

\* GetScope finds nothing in the committed state.
CheckAbsent(c, s) ==
  /\ Idle(c)
  /\ written[s] = 0
  /\ target' = [target EXCEPT ![c] = s]
  /\ msgs' = [msgs EXCEPT ![c] = Append(@, [kind |-> "create", scope |-> s, seen |-> clock])]
  /\ UNCHANGED <<vars, scopeVars>>

\* Mutant of CheckRefuses: the number is taken before the check.
CheckRefusesLate(c, s) ==
  /\ Idle(c)
  /\ written[s] # 0
  /\ Sequence' = Sequence + 1
  /\ ops' = [ops EXCEPT ![c] = @ + 1]
  /\ UNCHANGED <<mu, current, pc, seq, answer, polls, result, chainVars, misses,
                 target, msgs, scopeVars>>

\* "scope already exists", or "error getting scope": before a number is taken or
\* anything is sent, so a refused call leaves no trace.
CheckRefuses(c, s) ==
  /\ Idle(c)
  /\ UNCHANGED scopesVars

\* NewScope, NextSequence.
Create(c) ==
  /\ target[c] # "none"
  /\ Start(c)
  /\ target' = [target EXCEPT ![c] = "none"]
  /\ UNCHANGED <<msgs, scopeVars>>

--------------------------------------------------------------------------------
(* The operations that check nothing.                                      *)

Submit(c, m) ==
  /\ Idle(c)
  /\ Start(c)
  /\ msgs' = [msgs EXCEPT ![c] = Append(@, m)]
  /\ UNCHANGED <<target, scopeVars>>

DeleteScope(c, s) == Submit(c, [kind |-> "delete", scope |-> s, seen |-> 0])

\* The session and its records, in one transaction.
UpdateRecords(c, s) == Submit(c, [kind |-> "records", scope |-> s, seen |-> 0])

Go(c) == Proceed(c) /\ UNCHANGED <<callerVars, scopeVars>>

--------------------------------------------------------------------------------
(* The chain executes what a block takes, one transaction after the other. *)

Messages == [kind : {"create", "delete", "records"}, scope : ScopeIds, seen : Nat]
Message(t) == msgs[t.by][t.op]

Execute(chain, t) ==
  LET m == Message(t) IN
  [clock |-> chain.clock + 1,
   written |->
     CASE m.kind = "create" -> [chain.written EXCEPT ![m.scope] = chain.clock + 1]
       [] m.kind = "delete" -> [chain.written EXCEPT ![m.scope] = 0]
       [] OTHER -> chain.written,
   replaced |->
     IF m.kind = "create" /\ chain.written[m.scope] # 0
     THEN chain.replaced \cup {[tx |-> t, old |-> chain.written[m.scope]]}
     ELSE chain.replaced]

After(chain, taken) ==
  LET after[i \in 0..Len(taken)] ==
        IF i = 0 THEN chain ELSE Execute(after[i - 1], taken[i])
  IN  after[Len(taken)]

Included ==
  /\ Block
  /\ LET taken == SubSeq(mempool, 1, committed' - committed)
         after == After([clock |-> clock, written |-> written, replaced |-> replaced], taken)
     IN  clock' = after.clock /\ written' = after.written /\ replaced' = after.replaced
  /\ UNCHANGED callerVars

Dropped == Evict /\ UNCHANGED <<callerVars, scopeVars>>

ScopesDone == AllDone /\ UNCHANGED scopesVars

ScopesNext ==
  \/ \E c \in Callers :
       \/ Create(c) \/ Go(c)
       \/ \E s \in ScopeIds :
            CheckAbsent(c, s) \/ CheckRefuses(c, s) \/ DeleteScope(c, s) \/ UpdateRecords(c, s)
  \/ Included \/ Dropped
  \/ ScopesDone

ScopesSpec == ScopesInit /\ [][ScopesNext]_scopesVars

--------------------------------------------------------------------------------
\* The type invariant; a call under way, and no other, has a message beyond those
\* of the operations that took a number.
ScopesTypeOK ==
  /\ TypeOK
  /\ target \in [Callers -> ScopeIds \cup {"none"}]
  /\ msgs \in [Callers -> Seq(Messages)]
  /\ \A c \in Callers : Len(msgs[c]) = ops[c] + (IF target[c] = "none" THEN 0 ELSE 1)
  /\ clock \in Nat
  /\ written \in [ScopeIds -> 0..clock]

\* The check of CreateScope ("Verify that the scope doesn't already exist") fails
\* for one reason only: a creation that writes over a scope was checked before
\* that scope was committed.  One that was there to be seen, and not deleted
\* since, is never written over, whatever was in the mempool when.
OverwritesOnlyUnseen ==
  \A r \in replaced : Message(r.tx).seen < r.old

\* A transaction with a message of a call, and the inductive invariant behind it:
\* the scope of a creation, executed or not, is absent or was written after the
\* check saw the chain, for what was there then has been deleted since.
Issued(t) == t.by \in Callers /\ t.op \in 1..Len(msgs[t.by])

Unseen(m) ==
  /\ m.seen <= clock
  /\ m.kind = "create" => written[m.scope] = 0 \/ m.seen < written[m.scope]

UnseenInv ==
  /\ ScopesTypeOK
  /\ \A c \in Callers : pc[c] # "idle" => ops[c] > 0
  /\ \A i \in 1..Len(mempool) : Issued(mempool[i])
  /\ \A c \in Callers : \A i \in 1..Len(msgs[c]) : Unseen(msgs[c][i])
  /\ \A r \in replaced : Issued(r.tx) /\ Message(r.tx).seen < r.old

\* Where a single caller waits for each of its transactions the check is enough:
\* nothing is ever written over.  The inductive invariant behind it: from the check
\* of a creation to its execution no other transaction is executed.
NothingReplaced == replaced = {}

StillToExecute(c) == target[c] # "none" \/ (pc[c] # "idle" /\ Tx(c) \notin indexed)

CheckHolds(c) ==
  /\ NothingReplaced
  /\ target[c] # "none" => pc[c] = "idle"
  /\ StillToExecute(c) =>
       LET m == msgs[c][Len(msgs[c])] IN m.kind = "create" => m.seen = clock
================================================================================
