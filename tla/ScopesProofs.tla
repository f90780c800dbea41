----------------------------- MODULE ScopesProofs ------------------------------
(***************************************************************************)
(* Proofs about CreateScope, DeleteScope and UpdateRecords for any number   *)
(* of goroutines, scopes, calls and pending transactions: type correctness, *)
(* that a creation writes over no scope that its check could have seen, and *)
(* over none at all where one goroutine waits for each transaction.         *)
(***************************************************************************)
EXTENDS Scopes, TxSequenceProofs

USE SequenceAssumption, ScopesAssumption

--------------------------------------------------------------------------------
(* Induction over the transactions of a block.                             *)

\* The equation that defines the function in After has a solution, and After is
\* its last value: the chain, changed by one transaction after the other.
LEMMA AfterUnfolds ==
  ASSUME NEW chain, NEW taken \in Seq(Txs)
  PROVE  \E f : /\ f[0] = chain
                /\ \A i \in 1..Len(taken) : f[i] = Execute(f[i - 1], taken[i])
                /\ After(chain, taken) = f[Len(taken)]
<1> DEFINE Eq(f, n) == f = [i \in 0..n |-> IF i = 0 THEN chain ELSE Execute(f[i - 1], taken[i])]
<1> DEFINE S == {n \in Nat : \E f : Eq(f, n)}
<1>1. 0 \in S
  <2> DEFINE f == [i \in 0..0 |-> chain]
  <2>1. Eq(f, 0)
    OBVIOUS
  <2> QED
    BY <2>1
<1>2. ASSUME NEW n \in S \cap Nat PROVE n + 1 \in S
  <2>1. PICK f : Eq(f, n)
    OBVIOUS
  <2> DEFINE g == [i \in 0..(n + 1) |-> IF i = n + 1 THEN Execute(f[n], taken[n + 1]) ELSE f[i]]
  <2>2. \A i \in 0..(n + 1) : g[i] = IF i = 0 THEN chain ELSE Execute(g[i - 1], taken[i])
    <3> SUFFICES ASSUME NEW i \in 0..(n + 1)
                 PROVE  g[i] = IF i = 0 THEN chain ELSE Execute(g[i - 1], taken[i])
      OBVIOUS
    <3>1. CASE i = n + 1
      <4>1. g[i] = Execute(f[n], taken[n + 1]) /\ n \in 0..(n + 1) /\ n # n + 1 /\ i # 0
        BY <3>1
      <4>2. g[n] = f[n] /\ i - 1 = n
        BY <3>1, <4>1
      <4> QED
        BY <3>1, <4>1, <4>2
    <3>2. CASE i \in 1..n
      <4>1. g[i] = f[i] /\ g[i - 1] = f[i - 1] /\ i \in 0..n /\ i # 0
        BY <3>2
      <4> QED
        BY <2>1, <4>1
    <3>3. CASE i = 0
      <4>1. g[0] = f[0] /\ 0 \in 0..n
        OBVIOUS
      <4> QED
        BY <2>1, <3>3, <4>1
    <3> QED
      BY <3>1, <3>2, <3>3
  <2>3. Eq(g, n + 1)
    <3> HIDE DEF g
    <3>1. g = [i \in 0..(n + 1) |-> g[i]]
      BY DEF g
    <3> QED
      BY <2>2, <3>1
  <2>4. n + 1 \in Nat
    OBVIOUS
  <2> QED
    BY <2>3, <2>4
<1>3. Nat \subseteq S
  <2> HIDE DEF S
  <2> QED
    BY <1>1, <1>2, SetInduction
<1>4. Len(taken) \in Nat
  BY LenProperties
<1>5. \E f : Eq(f, Len(taken))
  BY <1>3, <1>4
<1> DEFINE after == CHOOSE f : Eq(f, Len(taken))
<1>6. Eq(after, Len(taken))
  BY <1>5
<1>7. After(chain, taken) = after[Len(taken)]
  BY DEF After
<1> HIDE DEF after
<1>8. \A i \in 0..Len(taken) : after[i] = IF i = 0 THEN chain ELSE Execute(after[i - 1], taken[i])
  BY <1>6
<1>9. after[0] = chain /\ \A i \in 1..Len(taken) : after[i] = Execute(after[i - 1], taken[i])
  BY <1>4, <1>8
<1> QED
  BY <1>7, <1>9

--------------------------------------------------------------------------------
(* What a block does to the scopes.                                        *)

\* What UnseenInv says of the chain, for a chain in the middle of a block.
Sound(chain) ==
  /\ chain.clock \in Nat
  /\ chain.written \in [ScopeIds -> 0..chain.clock]
  /\ \A c \in Callers : \A i \in 1..Len(msgs[c]) :
       /\ msgs[c][i].seen <= chain.clock
       /\ msgs[c][i].kind = "create" =>
            \/ chain.written[msgs[c][i].scope] = 0
            \/ msgs[c][i].seen < chain.written[msgs[c][i].scope]
  /\ \A r \in chain.replaced : Issued(r.tx) /\ Message(r.tx).seen < r.old

\* One transaction of a block keeps what is said of the chain, and takes one tick.
LEMMA ExecuteKeeps ==
  ASSUME msgs \in [Callers -> Seq(Messages)],
         NEW chain, Sound(chain), NEW t, Issued(t)
  PROVE  Sound(Execute(chain, t)) /\ Execute(chain, t).clock = chain.clock + 1
<1> DEFINE m == Message(t)
           next == Execute(chain, t)
<1>1. /\ m \in Messages
      /\ \A c \in Callers : \A i \in 1..Len(msgs[c]) : msgs[c][i] \in Messages
  BY ElementOfSeq DEF Issued, Message
<1>2. /\ m.scope \in ScopeIds /\ m.kind \in {"create", "delete", "records"} /\ m.seen \in Nat
      /\ m.seen <= chain.clock
      /\ m.kind = "create" => chain.written[m.scope] = 0 \/ m.seen < chain.written[m.scope]
  BY <1>1 DEF Sound, Issued, Message, Messages
<1>3. chain.clock \in Nat /\ chain.written \in [ScopeIds -> 0..chain.clock]
  BY DEF Sound
<1>4. /\ next.clock = chain.clock + 1
      /\ next.written =
           CASE m.kind = "create" -> [chain.written EXCEPT ![m.scope] = chain.clock + 1]
             [] m.kind = "delete" -> [chain.written EXCEPT ![m.scope] = 0]
             [] OTHER -> chain.written
      /\ next.replaced =
           IF m.kind = "create" /\ chain.written[m.scope] # 0
           THEN chain.replaced \cup {[tx |-> t, old |-> chain.written[m.scope]]}
           ELSE chain.replaced
  BY DEF Execute
<1> HIDE DEF m, next
<1>5. /\ next.written \in [ScopeIds -> 0..next.clock]
      /\ \A s \in ScopeIds : \/ next.written[s] = chain.written[s]
                             \/ next.written[s] \in {0, chain.clock + 1}
  BY <1>2, <1>3, <1>4
<1>6. ASSUME NEW c \in Callers, NEW i \in 1..Len(msgs[c])
      PROVE  /\ msgs[c][i].seen <= next.clock
             /\ msgs[c][i].kind = "create" =>
                  \/ next.written[msgs[c][i].scope] = 0
                  \/ msgs[c][i].seen < next.written[msgs[c][i].scope]
  <2>1. /\ msgs[c][i].seen <= chain.clock
        /\ msgs[c][i].kind = "create" =>
             \/ chain.written[msgs[c][i].scope] = 0
             \/ msgs[c][i].seen < chain.written[msgs[c][i].scope]
    BY DEF Sound
  <2>2. msgs[c][i].seen \in Nat /\ msgs[c][i].scope \in ScopeIds
    BY <1>1 DEF Messages
  <2>3. msgs[c][i].seen < chain.clock + 1 /\ msgs[c][i].seen <= chain.clock + 1
    BY <1>3, <2>1, <2>2
  <2>4. \/ next.written[msgs[c][i].scope] = chain.written[msgs[c][i].scope]
        \/ next.written[msgs[c][i].scope] = 0
        \/ next.written[msgs[c][i].scope] = chain.clock + 1
    BY <1>5, <2>2
  <2> QED
    BY <1>4, <2>1, <2>3, <2>4
<1>7. \A r \in next.replaced : Issued(r.tx) /\ Message(r.tx).seen < r.old
  <2>1. \A r \in chain.replaced : Issued(r.tx) /\ Message(r.tx).seen < r.old
    BY DEF Sound
  <2>2. CASE m.kind = "create" /\ chain.written[m.scope] # 0
    <3>1. Message(t).seen < chain.written[m.scope]
      BY <1>2, <2>2 DEF m
    <3> QED
      BY <1>4, <2>1, <2>2, <3>1
  <2> QED
    BY <1>4, <2>1, <2>2
<1>8. next.clock \in Nat
  BY <1>3, <1>4
<1>9. Sound(next)
  BY <1>5, <1>6, <1>7, <1>8 DEF Sound
<1> QED
  BY <1>4, <1>9 DEF next

\* A block keeps Sound, whatever the number of transactions it takes.
LEMMA BlockKeeps ==
  ASSUME msgs \in [Callers -> Seq(Messages)],
         NEW chain, Sound(chain), NEW taken \in Seq(Txs),
         \A i \in 1..Len(taken) : Issued(taken[i])
  PROVE  Sound(After(chain, taken))
<1>1. PICK f : /\ f[0] = chain
               /\ \A i \in 1..Len(taken) : f[i] = Execute(f[i - 1], taken[i])
               /\ After(chain, taken) = f[Len(taken)]
  BY AfterUnfolds
<1> DEFINE S == {n \in Nat : n <= Len(taken) => Sound(f[n])}
<1>2. 0 \in S
  BY <1>1
<1>3. Len(taken) \in Nat
  BY LenProperties
<1>4. ASSUME NEW n \in S \cap Nat PROVE n + 1 \in S
  <2> SUFFICES ASSUME n + 1 <= Len(taken) PROVE Sound(f[n + 1])
    OBVIOUS
  <2>1. n + 1 \in 1..Len(taken) /\ n <= Len(taken) /\ n + 1 - 1 = n
    BY <1>3
  <2>2. Sound(f[n]) /\ Issued(taken[n + 1])
    BY <2>1
  <2>3. f[n + 1] = Execute(f[n], taken[n + 1])
    BY <1>1, <2>1
  <2>4. Sound(Execute(f[n], taken[n + 1]))
    BY <2>2, ExecuteKeeps
  <2> QED
    BY <2>3, <2>4
<1>5. Nat \subseteq S
  <2> HIDE DEF S
  <2> QED
    BY <1>2, <1>4, SetInduction
<1>6. Sound(f[Len(taken)])
  BY <1>3, <1>5
<1> QED
  BY <1>1, <1>6

--------------------------------------------------------------------------------
(* Steps of the callers.                                                   *)

\* A step of an operation under way: the numbers of operations stay, and a
\* transaction comes to the node only when it is broadcast.
LEMMA ProceedFlow ==
  ASSUME TypeOK, NEW c \in Callers, Proceed(c)
  PROVE  /\ ops' = ops /\ pc[c] # "idle"
         /\ \A d \in Callers : pc'[d] # "idle" => pc[d] # "idle"
         /\ mempool' = mempool \/ mempool' = Append(mempool, Tx(c))
         /\ indexed' = indexed
<1> USE DEF TypeOK, Goto, Return, callVars, chainVars
<1>1. CASE LockNext(c) \/ ReadNext(c) \/ IncNext(c)
  BY <1>1 DEF LockNext, ReadNext, IncNext
<1>2. CASE Sign(c)
  BY <1>2 DEF Sign, SignErr, SimulateMismatch, SimulateErr, SimulateOk
<1>3. CASE Reset(c)
  BY <1>3 DEF Reset, LockAuth, UnlockAuth, QueryAccount, QueryAccountErr, LockSet, SetSequence
<1>4. CASE Send(c)
  BY <1>4 DEF Send, Accepted, Rejected, Broadcasted, BroadcastErr, ReplyLost
<1>5. CASE Wait(c)
  BY <1>5 DEF Wait, PollFound, PollMiss, GiveUp
<1> QED
  BY <1>1, <1>2, <1>3, <1>4, <1>5 DEF Proceed

\* Every step of the scope operations is one of TxSequence.
LEMMA ScopesIsNext ==
  ASSUME [ScopesNext]_scopesVars
  PROVE  [Next]_vars
BY DEF ScopesNext, CheckAbsent, CheckRefuses, Create, Submit, DeleteScope, UpdateRecords, Go,
  Included, Dropped, ScopesDone, scopesVars, Next

\* The messages of a caller that asks for one more.
LEMMA OneMore ==
  ASSUME ScopesTypeOK, NEW c \in Callers, NEW m \in Messages,
         msgs' = [msgs EXCEPT ![c] = Append(msgs[c], m)]
  PROVE  /\ msgs' \in [Callers -> Seq(Messages)]
         /\ Len(msgs'[c]) = Len(msgs[c]) + 1 /\ Len(msgs[c]) \in Nat
         /\ msgs'[c][Len(msgs[c]) + 1] = m
         /\ \A i \in 1..Len(msgs[c]) : msgs'[c][i] = msgs[c][i]
         /\ \A d \in Callers : d # c => msgs'[d] = msgs[d]
         /\ \A t : Issued(t) => Issued(t)' /\ Message(t)' = Message(t)
<1>1. msgs \in [Callers -> Seq(Messages)] /\ msgs[c] \in Seq(Messages)
  BY DEF ScopesTypeOK
<1>2. /\ Append(msgs[c], m) \in Seq(Messages)
      /\ Len(Append(msgs[c], m)) = Len(msgs[c]) + 1
      /\ \A i \in 1..Len(msgs[c]) : Append(msgs[c], m)[i] = msgs[c][i]
      /\ Append(msgs[c], m)[Len(msgs[c]) + 1] = m
  BY <1>1, AppendProperties
<1>3. Len(msgs[c]) \in Nat
  BY <1>1, LenProperties
<1>4. /\ msgs'[c] = Append(msgs[c], m)
      /\ \A d \in Callers : d # c => msgs'[d] = msgs[d]
      /\ msgs' \in [Callers -> Seq(Messages)]
  BY <1>1, <1>2
<1>5. ASSUME NEW t, Issued(t) PROVE Issued(t)' /\ Message(t)' = Message(t)
  <2>1. CASE t.by = c
    BY <1>2, <1>3, <1>4, <1>5, <2>1 DEF Issued, Message
  <2>2. CASE t.by # c
    BY <1>4, <1>5, <2>2 DEF Issued, Message
  <2> QED
    BY <2>1, <2>2
<1> QED
  BY <1>2, <1>3, <1>4, <1>5

\* The call of c asks for m: the part of UnseenInv about messages.
Told ==
  /\ \A c \in Callers : \A i \in 1..Len(msgs[c]) : Unseen(msgs[c][i])
  /\ \A r \in replaced : Issued(r.tx) /\ Message(r.tx).seen < r.old

\* A message that is right about the chain may join those of its caller.
LEMMA OneMoreTold ==
  ASSUME ScopesTypeOK, Told, NEW c \in Callers, NEW m \in Messages, Unseen(m),
         msgs' = [msgs EXCEPT ![c] = Append(msgs[c], m)], UNCHANGED scopeVars
  PROVE  Told'
<1>1. /\ Len(msgs'[c]) = Len(msgs[c]) + 1 /\ Len(msgs[c]) \in Nat
      /\ msgs'[c][Len(msgs[c]) + 1] = m
      /\ \A i \in 1..Len(msgs[c]) : msgs'[c][i] = msgs[c][i]
      /\ \A d \in Callers : d # c => msgs'[d] = msgs[d]
      /\ \A t : Issued(t) => Issued(t)' /\ Message(t)' = Message(t)
  BY OneMore
<1>2. UNCHANGED <<written, clock, replaced>>
  BY DEF scopeVars
<1>3. \A x : Unseen(x) => (Unseen(x))'
  BY <1>2 DEF Unseen
<1>4. ASSUME NEW d \in Callers, NEW i \in 1..Len(msgs'[d]) PROVE Unseen(msgs'[d][i])
  <2>1. CASE d # c
    BY <1>1, <2>1 DEF Told
  <2>2. CASE d = c /\ i = Len(msgs[c]) + 1
    BY <1>1, <2>2
  <2>3. CASE d = c /\ i \in 1..Len(msgs[c])
    BY <1>1, <2>3 DEF Told
  <2> QED
    BY <1>1, <1>4, <2>1, <2>2, <2>3
<1>5. \A d \in Callers : \A i \in 1..Len(msgs'[d]) : (Unseen(msgs[d][i]))'
  BY <1>2, <1>4 DEF Unseen
<1>6. \A r \in replaced' : (Issued(r.tx))' /\ (Message(r.tx))'.seen < r.old
  BY <1>1, <1>2 DEF Told
<1> QED
  BY <1>5, <1>6 DEF Told

--------------------------------------------------------------------------------
(* The inductive invariant.                                                *)

\* What it says of the node: only messages of calls are pending.
Asked ==
  /\ \A c \in Callers : pc[c] # "idle" => ops[c] > 0
  /\ \A i \in 1..Len(mempool) : Issued(mempool[i])

LEMMA InvParts == UnseenInv <=> ScopesTypeOK /\ Asked /\ Told
BY DEF UnseenInv, Asked, Told

LEMMA ScopesInitInv == ScopesInit => UnseenInv
<1> SUFFICES ASSUME ScopesInit PROVE UnseenInv
  OBVIOUS
<1>1. TypeOK
  BY InitType DEF ScopesInit
<1>2. /\ pc = [c \in Callers |-> "idle"] /\ ops = [c \in Callers |-> 0]
      /\ mempool = [i \in 1..0 |-> [by |-> "free", op |-> i]]
  BY DEF ScopesInit, Init
<1>3. Len(mempool) = 0
  BY <1>2
<1>4. \A S : <<>> \in Seq(S) /\ Len(<<>>) = 0
  OBVIOUS
<1>5. ScopesTypeOK
  BY <1>1, <1>2, <1>4 DEF ScopesInit, ScopesTypeOK
<1>6. Asked
  BY <1>2, <1>3 DEF Asked
<1>7. Told
  BY <1>4 DEF ScopesInit, Told
<1> QED
  BY <1>5, <1>6, <1>7, InvParts

\* A call that takes a number.
LEMMA StartFlow ==
  ASSUME TypeOK, NEW c \in Callers, Start(c)
  PROVE  /\ ops' = [ops EXCEPT ![c] = ops[c] + 1] /\ ops[c] \in Nat
         /\ \A d \in Callers : d # c => pc'[d] = pc[d] /\ ops'[d] = ops[d]
         /\ ops'[c] = ops[c] + 1
         /\ mempool' = mempool
BY DEF TypeOK, Start, Goto, chainVars

LEMMA CheckStep ==
  ASSUME UnseenInv, TypeOK', NEW c \in Callers, NEW s \in ScopeIds, CheckAbsent(c, s)
  PROVE  UnseenInv'
<1> DEFINE m == [kind |-> "create", scope |-> s, seen |-> clock]
<1>1. /\ ScopesTypeOK /\ Asked /\ Told
      /\ clock \in Nat /\ target \in [Callers -> ScopeIds \cup {"none"}]
      /\ ops \in [Callers -> Nat]
  BY InvParts DEF ScopesTypeOK, TypeOK
<1>2. /\ target[c] = "none" /\ written[s] = 0
      /\ target' = [target EXCEPT ![c] = s]
      /\ msgs' = [msgs EXCEPT ![c] = Append(msgs[c], m)]
      /\ UNCHANGED <<pc, ops, mempool>> /\ UNCHANGED scopeVars /\ UNCHANGED <<written, clock>>
  BY DEF CheckAbsent, Idle, vars, callVars, chainVars, scopeVars
<1>3. m \in Messages /\ Unseen(m)
  BY <1>1, <1>2 DEF Messages, Unseen
<1> HIDE DEF m
<1>4. /\ msgs' \in [Callers -> Seq(Messages)]
      /\ Len(msgs'[c]) = Len(msgs[c]) + 1 /\ Len(msgs[c]) \in Nat
      /\ \A d \in Callers : d # c => msgs'[d] = msgs[d]
      /\ \A t : Issued(t) => Issued(t)'
  BY <1>1, <1>2, <1>3, OneMore
<1>5. Told'
  BY <1>1, <1>2, <1>3, OneMoreTold
<1>6. Asked'
  BY <1>1, <1>2, <1>4 DEF Asked
<1>7. \A d \in Callers : Len(msgs'[d]) = ops'[d] + (IF target'[d] = "none" THEN 0 ELSE 1)
  <2>1. \A d \in Callers : Len(msgs[d]) = ops[d] + (IF target[d] = "none" THEN 0 ELSE 1)
    BY <1>1 DEF ScopesTypeOK
  <2>2. target'[c] = s /\ s # "none" /\ \A d \in Callers : d # c => target'[d] = target[d]
    BY <1>1, <1>2
  <2>3. Len(msgs[c]) = ops[c] /\ ops[c] \in Nat
    BY <1>1, <1>2, <2>1
  <2> QED
    BY <1>2, <1>4, <2>1, <2>2, <2>3
<1>8. target' \in [Callers -> ScopeIds \cup {"none"}]
  BY <1>1, <1>2
<1>9. ScopesTypeOK'
  BY <1>1, <1>2, <1>4, <1>7, <1>8 DEF ScopesTypeOK
<1> QED
  BY <1>5, <1>6, <1>9 DEF UnseenInv, Asked, Told

LEMMA CreateStep ==
  ASSUME UnseenInv, TypeOK', NEW c \in Callers, Create(c)
  PROVE  UnseenInv'
<1>1. /\ ScopesTypeOK /\ Asked /\ Told /\ TypeOK
      /\ target \in [Callers -> ScopeIds \cup {"none"}]
  BY InvParts DEF ScopesTypeOK
<1>2. /\ target[c] # "none" /\ Start(c)
      /\ target' = [target EXCEPT ![c] = "none"]
      /\ UNCHANGED <<msgs, written, clock, replaced>>
  BY DEF Create, scopeVars
<1>3. /\ ops[c] \in Nat /\ ops'[c] = ops[c] + 1
      /\ \A d \in Callers : d # c => pc'[d] = pc[d] /\ ops'[d] = ops[d]
      /\ mempool' = mempool
  BY <1>1, <1>2, StartFlow
<1>4. /\ target'[c] = "none" /\ \A d \in Callers : d # c => target'[d] = target[d]
      /\ target' \in [Callers -> ScopeIds \cup {"none"}]
  BY <1>1, <1>2
<1>5. ScopesTypeOK'
  BY <1>1, <1>2, <1>3, <1>4 DEF ScopesTypeOK
<1>6. Asked'
  BY <1>1, <1>2, <1>3 DEF Asked, Issued
<1>7. Told'
  BY <1>1, <1>2 DEF Told, Unseen, Issued, Message
<1> QED
  BY <1>5, <1>6, <1>7 DEF UnseenInv, Asked, Told

LEMMA SubmitStep ==
  ASSUME UnseenInv, TypeOK', NEW c \in Callers,
         NEW m \in Messages, m.seen = 0, m.kind # "create", Submit(c, m)
  PROVE  UnseenInv'
<1>1. /\ ScopesTypeOK /\ Asked /\ Told /\ TypeOK /\ clock \in Nat
  BY InvParts DEF ScopesTypeOK
<1>2. /\ target[c] = "none" /\ Start(c)
      /\ msgs' = [msgs EXCEPT ![c] = Append(msgs[c], m)]
      /\ UNCHANGED <<target, written, clock>> /\ UNCHANGED scopeVars
  BY DEF Submit, Idle, scopeVars
<1>3. Unseen(m)
  BY <1>1 DEF Unseen
<1>4. /\ msgs' \in [Callers -> Seq(Messages)]
      /\ Len(msgs'[c]) = Len(msgs[c]) + 1 /\ Len(msgs[c]) \in Nat
      /\ \A d \in Callers : d # c => msgs'[d] = msgs[d]
      /\ \A t : Issued(t) => Issued(t)'
  BY <1>1, <1>2, OneMore
<1>5. Told'
  BY <1>1, <1>2, <1>3, OneMoreTold
<1>6. /\ ops[c] \in Nat /\ ops'[c] = ops[c] + 1
      /\ \A d \in Callers : d # c => pc'[d] = pc[d] /\ ops'[d] = ops[d]
      /\ mempool' = mempool
  BY <1>1, <1>2, StartFlow
<1>7. Asked'
  BY <1>1, <1>4, <1>6 DEF Asked
<1>8. \A d \in Callers : Len(msgs'[d]) = ops'[d] + (IF target'[d] = "none" THEN 0 ELSE 1)
  <2>1. \A d \in Callers : Len(msgs[d]) = ops[d] + (IF target[d] = "none" THEN 0 ELSE 1)
    BY <1>1 DEF ScopesTypeOK
  <2>2. Len(msgs[c]) = ops[c]
    BY <1>2, <1>6, <2>1
  <2> QED
    BY <1>2, <1>4, <1>6, <2>1, <2>2
<1>9. ScopesTypeOK'
  BY <1>1, <1>2, <1>4, <1>8 DEF ScopesTypeOK
<1> QED
  BY <1>5, <1>7, <1>9 DEF UnseenInv, Asked, Told

LEMMA GoStep ==
  ASSUME UnseenInv, TypeOK', NEW c \in Callers, Go(c)
  PROVE  UnseenInv'
<1>1. /\ ScopesTypeOK /\ Asked /\ Told /\ TypeOK
      /\ mempool \in Seq(Txs) /\ ops \in [Callers -> Nat] /\ Tx(c) \in Txs
  BY InvParts, TxType DEF ScopesTypeOK, TypeOK
<1>2. Proceed(c) /\ UNCHANGED <<target, msgs, written, clock, replaced>>
  BY DEF Go, callerVars, scopeVars
<1>3. /\ ops' = ops /\ pc[c] # "idle"
      /\ \A d \in Callers : pc'[d] # "idle" => pc[d] # "idle"
      /\ mempool' = mempool \/ mempool' = Append(mempool, Tx(c))
  BY <1>1, <1>2, ProceedFlow
<1>4. Issued(Tx(c))
  <2>1. ops[c] > 0 /\ ops[c] \in Nat
    BY <1>1, <1>3 DEF Asked
  <2>2. ops[c] <= Len(msgs[c]) /\ Len(msgs[c]) \in Nat
    <3>1. Len(msgs[c]) = ops[c] + (IF target[c] = "none" THEN 0 ELSE 1)
      BY <1>1 DEF ScopesTypeOK
    <3> QED
      BY <2>1, <3>1
  <2>3. Tx(c).by = c /\ Tx(c).op = ops[c]
    BY DEF Tx
  <2> QED
    BY <2>1, <2>2, <2>3 DEF Issued
<1>5. \A i \in 1..Len(mempool') : Issued(mempool'[i])
  <2>1. CASE mempool' = mempool
    BY <1>1, <2>1 DEF Asked
  <2>2. CASE mempool' = Append(mempool, Tx(c))
    <3>1. /\ Len(mempool') = Len(mempool) + 1 /\ Len(mempool) \in Nat
          /\ \A i \in 1..Len(mempool) : mempool'[i] = mempool[i]
          /\ mempool'[Len(mempool) + 1] = Tx(c)
      BY <1>1, <2>2, AppendProperties, LenProperties
    <3> QED
      BY <1>1, <1>4, <3>1 DEF Asked
  <2> QED
    BY <1>3, <2>1, <2>2
<1>6. ScopesTypeOK'
  BY <1>1, <1>2, <1>3 DEF ScopesTypeOK
<1>7. Asked'
  BY <1>1, <1>2, <1>3, <1>5 DEF Asked, Issued
<1>8. Told'
  BY <1>1, <1>2 DEF Told, Unseen, Issued, Message
<1> QED
  BY <1>6, <1>7, <1>8 DEF UnseenInv, Asked, Told

LEMMA IncludedStep ==
  ASSUME UnseenInv, TypeOK', Included
  PROVE  UnseenInv'
<1> DEFINE chain == [clock |-> clock, written |-> written, replaced |-> replaced]
<1>1. /\ ScopesTypeOK /\ Asked /\ Told
      /\ committed \in Nat /\ mempool \in Seq(Txs) /\ Len(mempool) \in Nat
  BY InvParts, LenProperties DEF ScopesTypeOK, TypeOK
<1>2. PICK n \in 1..Len(mempool) :
        /\ committed' = committed + n
        /\ mempool' = SubSeq(mempool, n + 1, Len(mempool))
        /\ UNCHANGED <<pc, ops>>
  BY DEF Included, Block, callVars
<1>3. /\ n \in Nat /\ n <= Len(mempool) /\ committed' - committed = n
      /\ UNCHANGED <<target, msgs>>
  BY <1>1, <1>2 DEF Included, callerVars
<1> DEFINE taken == SubSeq(mempool, 1, n)
<1>4. /\ clock' = After(chain, taken).clock /\ written' = After(chain, taken).written
      /\ replaced' = After(chain, taken).replaced
  BY <1>3 DEF Included
<1>5. /\ Len(taken) = n /\ taken \in Seq(Txs)
      /\ \A i \in 1..n : taken[i] = mempool[i]
  <2>1. /\ 1 \in Nat \ {0} /\ n \in Nat /\ n <= Len(mempool) /\ 1 <= n + 1
        /\ n + 1 - 1 = n /\ \A i \in 1..n : 1 + i - 1 = i
    BY <1>3
  <2>2. \A i \in 1..n : mempool[i] \in Txs
    BY <1>1, <1>3, ElementOfSeq
  <2>3. taken \in Seq(Txs)
    BY <2>1, <2>2, SubSeqProperties
  <2>4. Len(taken) = n + 1 - 1 /\ \A i \in 1..(n + 1 - 1) : taken[i] = mempool[1 + i - 1]
    BY <1>1, <2>1, SubSeqIs
  <2> QED
    BY <2>1, <2>3, <2>4
<1> HIDE DEF taken
<1>6. \A i \in 1..Len(taken) : Issued(taken[i])
  BY <1>1, <1>3, <1>5 DEF Asked
<1>7. Sound(chain)
  BY <1>1 DEF ScopesTypeOK, Told, Unseen, Sound
<1>8. Sound(After(chain, taken))
  <2>1. msgs \in [Callers -> Seq(Messages)]
    BY <1>1 DEF ScopesTypeOK
  <2> HIDE DEF chain
  <2> QED
    BY <1>5, <1>6, <1>7, <2>1, BlockKeeps
<1> HIDE DEF chain
<1>9. /\ clock' \in Nat /\ written' \in [ScopeIds -> 0..clock']
      /\ \A c \in Callers : \A i \in 1..Len(msgs[c]) :
           /\ msgs[c][i].seen <= clock'
           /\ msgs[c][i].kind = "create" =>
                \/ written'[msgs[c][i].scope] = 0
                \/ msgs[c][i].seen < written'[msgs[c][i].scope]
      /\ \A r \in replaced' : Issued(r.tx) /\ Message(r.tx).seen < r.old
  BY <1>4, <1>8 DEF Sound
<1>10. Told'
  BY <1>3, <1>9 DEF Told, Unseen, Issued, Message
<1>11. ScopesTypeOK'
  BY <1>1, <1>2, <1>3, <1>9 DEF ScopesTypeOK
<1>12. \A i \in 1..Len(mempool') : Issued(mempool'[i])
  <2>1. /\ Len(mempool') = Len(mempool) - n
        /\ \A i \in 1..(Len(mempool) - n) : mempool'[i] = mempool[n + i]
    BY <1>1, <1>2, SuffixIs
  <2>2. \A i \in 1..(Len(mempool) - n) : n + i \in 1..Len(mempool)
    BY <1>1, <1>3
  <2> QED
    BY <1>1, <2>1, <2>2 DEF Asked
<1>13. Asked'
  BY <1>1, <1>2, <1>3, <1>12 DEF Asked, Issued
<1> QED
  BY <1>10, <1>11, <1>13 DEF UnseenInv, Asked, Told

LEMMA DroppedStep ==
  ASSUME UnseenInv, TypeOK', Dropped
  PROVE  UnseenInv'
<1>1. /\ ScopesTypeOK /\ Asked /\ Told
      /\ mempool \in Seq(Txs) /\ Len(mempool) \in Nat
  BY InvParts, LenProperties DEF ScopesTypeOK, TypeOK
<1>2. PICK n \in 1..Len(mempool) :
        /\ mempool' = SubSeq(mempool, 1, n - 1)
        /\ UNCHANGED <<pc, ops, target, msgs, written, clock, replaced>>
  BY DEF Dropped, Evict, callVars, callerVars, scopeVars
<1>3. \A i \in 1..Len(mempool') : i \in 1..Len(mempool) /\ mempool'[i] = mempool[i]
  <2>1. /\ n - 1 \in Nat /\ n - 1 <= Len(mempool) /\ 1 <= n - 1 + 1 /\ 1 \in Nat \ {0}
        /\ n - 1 + 1 - 1 = n - 1 /\ \A i \in 1..(n - 1) : 1 + i - 1 = i /\ i \in 1..Len(mempool)
    BY <1>1
  <2>2. /\ Len(mempool') = n - 1 + 1 - 1
        /\ \A i \in 1..(n - 1 + 1 - 1) : mempool'[i] = mempool[1 + i - 1]
    BY <1>1, <1>2, <2>1, SubSeqIs
  <2> QED
    BY <2>1, <2>2
<1>4. Asked'
  BY <1>1, <1>2, <1>3 DEF Asked, Issued
<1>5. Told'
  BY <1>1, <1>2 DEF Told, Unseen, Issued, Message
<1>6. ScopesTypeOK'
  BY <1>1, <1>2 DEF ScopesTypeOK
<1> QED
  BY <1>4, <1>5, <1>6 DEF UnseenInv, Asked, Told

LEMMA UnseenStep ==
  ASSUME UnseenInv, [ScopesNext]_scopesVars
  PROVE  UnseenInv'
<1>1. TypeOK'
  BY ScopesIsNext, TypeStep DEF UnseenInv, ScopesTypeOK
<1>2. ASSUME NEW c \in Callers, NEW s \in ScopeIds, CheckAbsent(c, s) PROVE UnseenInv'
  BY <1>1, <1>2, CheckStep
<1>3. ASSUME NEW c \in Callers, NEW s \in ScopeIds, DeleteScope(c, s) \/ UpdateRecords(c, s)
      PROVE  UnseenInv'
  <2>1. \A kind \in {"delete", "records"} : [kind |-> kind, scope |-> s, seen |-> 0] \in Messages
    BY DEF Messages
  <2> QED
    BY <1>1, <1>3, <2>1, SubmitStep DEF DeleteScope, UpdateRecords
<1>4. ASSUME NEW c \in Callers, Create(c) PROVE UnseenInv'
  BY <1>1, <1>4, CreateStep
<1>5. ASSUME NEW c \in Callers, Go(c) PROVE UnseenInv'
  BY <1>1, <1>5, GoStep
<1>6. CASE Included
  BY <1>1, <1>6, IncludedStep
<1>7. CASE Dropped
  BY <1>1, <1>7, DroppedStep
<1>8. CASE UNCHANGED scopesVars
  <2>1. UNCHANGED <<pc, ops, mempool, target, msgs, written, clock, replaced>>
    BY <1>8 DEF scopesVars, vars, callVars, chainVars, callerVars, scopeVars
  <2>2. ScopesTypeOK'
    BY <1>1, <2>1 DEF UnseenInv, ScopesTypeOK
  <2>3. Asked' /\ Told'
    BY <2>1, InvParts DEF Asked, Told, Unseen, Issued, Message
  <2> QED
    BY <2>2, <2>3 DEF UnseenInv, Asked, Told
<1> QED
  BY <1>2, <1>3, <1>4, <1>5, <1>6, <1>7, <1>8 DEF ScopesNext, CheckRefuses, ScopesDone

\* UnseenInv is inductive: between a check of CreateScope and the execution of its
\* message, and after it, the scope is absent or newer than what the check saw.
THEOREM UnseenInductive == ScopesSpec => []UnseenInv
BY ScopesInitInv, UnseenStep, PTL DEF ScopesSpec

\* The state of the scope operations stays well typed, and a call has asked for one
\* transaction more than it took numbers exactly while CreateScope is between its
\* check and NewScope.
THEOREM ScopesTypeCorrect == ScopesSpec => []ScopesTypeOK
<1>1. UnseenInv => ScopesTypeOK
  BY DEF UnseenInv
<1> QED
  BY <1>1, UnseenInductive, PTL

\* CreateScope writes over a scope only if that was committed after its check: for
\* any number of goroutines, scopes and blocks, and any order of what is pending.
THEOREM OverwritesAreUnseen == ScopesSpec => []OverwritesOnlyUnseen
<1>1. UnseenInv => OverwritesOnlyUnseen
  BY DEF UnseenInv, OverwritesOnlyUnseen
<1> QED
  BY <1>1, UnseenInductive, PTL

--------------------------------------------------------------------------------
(* A single caller that waits for each of its transactions.                *)

\* The last message of a caller is that of its transaction once it has a number.
LEMMA LastMessage ==
  ASSUME ScopesTypeOK, NEW c \in Callers, target[c] = "none"
  PROVE  Message(Tx(c)) = msgs[c][Len(msgs[c])]
<1>1. Len(msgs[c]) = ops[c] + 0 /\ ops[c] \in Nat
  BY DEF ScopesTypeOK, TypeOK
<1> QED
  BY <1>1 DEF Message, Tx

\* The step of the check, of the call that takes a number, or of one that checks
\* nothing: nothing is executed, and a creation asked for now has seen it all.
LEMMA AskingHolds ==
  ASSUME UnseenInv, NEW c, Alone(c), Settled(c), CheckHolds(c), NEW s \in ScopeIds,
         \/ CheckAbsent(c, s) \/ Create(c) \/ DeleteScope(c, s) \/ UpdateRecords(c, s)
  PROVE  CheckHolds(c)'
<1>1. c \in Callers
  BY DEF Alone
<1>2. /\ ScopesTypeOK /\ msgs \in [Callers -> Seq(Messages)] /\ clock \in Nat
      /\ target \in [Callers -> ScopeIds \cup {"none"}] /\ pc \in [Callers -> Steps]
  BY DEF UnseenInv, ScopesTypeOK, TypeOK
<1>3. ASSUME CheckAbsent(c, s) PROVE CheckHolds(c)'
  <2> DEFINE m == [kind |-> "create", scope |-> s, seen |-> clock]
  <2>1. /\ msgs' = [msgs EXCEPT ![c] = Append(msgs[c], m)]
        /\ pc[c] = "idle" /\ UNCHANGED <<pc, clock, replaced>>
    BY <1>3 DEF CheckAbsent, Idle, vars, scopeVars
  <2>2. m \in Messages /\ m.seen = clock
    BY <1>2 DEF Messages
  <2> HIDE DEF m
  <2>3. msgs'[c][Len(msgs'[c])] = m
    BY <1>1, <1>2, <2>1, <2>2, OneMore
  <2> QED
    BY <2>1, <2>2, <2>3 DEF CheckHolds, NothingReplaced
<1>4. ASSUME Create(c) PROVE CheckHolds(c)'
  <2>1. /\ target[c] # "none" /\ target'[c] = "none"
        /\ UNCHANGED <<msgs, clock, replaced>>
    BY <1>1, <1>2, <1>4 DEF Create, scopeVars
  <2> QED
    BY <2>1 DEF CheckHolds, NothingReplaced, StillToExecute
<1>5. ASSUME NEW m \in Messages, m.kind # "create", Submit(c, m) PROVE CheckHolds(c)'
  <2>1. /\ msgs' = [msgs EXCEPT ![c] = Append(msgs[c], m)]
        /\ target'[c] = "none" /\ UNCHANGED <<clock, replaced>>
    BY <1>5 DEF Submit, Idle, scopeVars
  <2>2. msgs'[c][Len(msgs'[c])] = m
    BY <1>1, <1>2, <2>1, OneMore
  <2> QED
    BY <1>5, <2>1, <2>2 DEF CheckHolds, NothingReplaced
<1>6. \A kind \in {"delete", "records"} : [kind |-> kind, scope |-> s, seen |-> 0] \in Messages
  BY DEF Messages
<1> QED
  BY <1>3, <1>4, <1>5, <1>6 DEF DeleteScope, UpdateRecords

\* A step of the operation under way executes nothing.
LEMMA GoingHolds ==
  ASSUME UnseenInv, NEW c, Alone(c), CheckHolds(c), Go(c)
  PROVE  CheckHolds(c)'
<1>1. c \in Callers /\ TypeOK
  BY DEF Alone, UnseenInv, ScopesTypeOK
<1>2. Proceed(c) /\ UNCHANGED <<target, msgs, clock, replaced>>
  BY DEF Go, callerVars, scopeVars
<1>3. ops' = ops /\ indexed' = indexed /\ pc[c] # "idle"
  BY <1>1, <1>2, ProceedFlow
<1> QED
  BY <1>2, <1>3 DEF CheckHolds, NothingReplaced, StillToExecute, Tx

\* A block takes the only transaction there is.  Since its check nothing has been
\* executed, so its scope is still absent.
LEMMA ExecutedHolds ==
  ASSUME UnseenInv, NEW c, Alone(c), Settled(c), CheckHolds(c), Included
  PROVE  CheckHolds(c)'
<1>1. /\ c \in Callers /\ ScopesTypeOK /\ clock \in Nat /\ committed \in Nat
      /\ mempool \in Seq(Txs)
      /\ msgs \in [Callers -> Seq(Messages)] /\ written \in [ScopeIds -> 0..clock]
      /\ \A d \in Callers : \A i \in 1..Len(msgs[d]) : Unseen(msgs[d][i])
      /\ \A i \in 1..Len(mempool) : Issued(mempool[i])
  BY DEF Alone, UnseenInv, ScopesTypeOK, TypeOK
<1>2. PICK n \in 1..Len(mempool) :
        /\ committed' = committed + n
        /\ indexed' = indexed \cup {mempool[i] : i \in 1..n}
        /\ UNCHANGED <<pc, ops>>
  BY DEF Included, Block, callVars
<1>3. /\ mempool = <<Tx(c)>> /\ Len(mempool) = 1 /\ mempool[1] = Tx(c)
      /\ pc[c] = "wait" /\ Tx(c) \notin indexed
  <2>1. mempool # <<>>
    BY <1>2
  <2>2. mempool = <<Tx(c)>> /\ pc[c] = "wait" /\ Tx(c) \notin indexed
    BY <2>1 DEF Settled
  <2> QED
    BY <2>2
<1>4. n = 1 /\ committed' - committed = 1 /\ UNCHANGED <<target, msgs>>
  BY <1>1, <1>2, <1>3 DEF Included, callerVars
<1>5. target[c] = "none" /\ replaced = {}
  BY <1>3 DEF CheckHolds, NothingReplaced
<1> DEFINE m == Message(Tx(c))
           chain == [clock |-> clock, written |-> written, replaced |-> replaced]
           taken == SubSeq(mempool, 1, 1)
<1>6. m.kind = "create" => m.seen = clock
  BY <1>1, <1>3, <1>5, LastMessage DEF CheckHolds, StillToExecute
<1>7. m \in Messages /\ Unseen(m)
  BY <1>1, <1>3, ElementOfSeq DEF Issued, Message
<1>8. m.kind = "create" => written[m.scope] = 0
  <2>1. m.scope \in ScopeIds /\ written[m.scope] \in Nat /\ written[m.scope] <= clock
    BY <1>1, <1>7 DEF Messages
  <2> QED
    BY <1>1, <1>6, <1>7, <2>1 DEF Unseen
<1> HIDE DEF m
<1>9. Len(taken) = 1 /\ taken[1] = Tx(c) /\ taken \in Seq(Txs)
  <2>1. /\ 1 \in Nat \ {0} /\ 1 <= Len(mempool) /\ 1 <= 1 + 1 /\ 1 + 1 - 1 = 1
        /\ \A i \in 1..1 : mempool[i] \in Txs
    BY <1>1, <1>3, ElementOfSeq
  <2>2. taken \in Seq(Txs)
    BY <2>1, SubSeqProperties
  <2>3. Len(taken) = 1 + 1 - 1 /\ \A i \in 1..(1 + 1 - 1) : taken[i] = mempool[1 + i - 1]
    BY <1>1, <2>1, SubSeqIs
  <2>4. Len(taken) = 1 /\ taken[1] = mempool[1]
    BY <2>1, <2>3
  <2> QED
    BY <1>3, <2>2, <2>4
<1>10. replaced' = After(chain, taken).replaced
  BY <1>4 DEF Included
<1> HIDE DEF taken, chain
<1>11. After(chain, taken) = Execute(chain, Tx(c))
  <2>1. PICK f : /\ f[0] = chain
                 /\ \A i \in 1..Len(taken) : f[i] = Execute(f[i - 1], taken[i])
                 /\ After(chain, taken) = f[Len(taken)]
    BY <1>9, AfterUnfolds
  <2>2. 1 \in 1..Len(taken) /\ 1 - 1 = 0
    BY <1>9
  <2>3. f[1] = Execute(f[1 - 1], taken[1])
    BY <2>1, <2>2
  <2> QED
    BY <1>9, <2>1, <2>2, <2>3
<1>12. Execute(chain, Tx(c)).replaced = {}
  BY <1>5, <1>8 DEF Execute, chain, m
<1>13. ~ StillToExecute(c)'
  BY <1>2, <1>3, <1>4, <1>5 DEF StillToExecute, Tx
<1> QED
  BY <1>4, <1>5, <1>10, <1>11, <1>12, <1>13 DEF CheckHolds, NothingReplaced

LEMMA CheckHoldsStep ==
  ASSUME UnseenInv, NEW c, Alone(c), Settled(c), CheckHolds(c), [ScopesNext]_scopesVars
  PROVE  CheckHolds(c)'
<1>1. \A d \in Callers : d = c
  BY DEF Alone
<1>2. ASSUME NEW s \in ScopeIds,
             CheckAbsent(c, s) \/ DeleteScope(c, s) \/ UpdateRecords(c, s)
      PROVE  CheckHolds(c)'
  BY <1>2, AskingHolds
<1>3. CASE Create(c)
  <2>1. target[c] \in ScopeIds
    BY <1>3 DEF Alone, Create, UnseenInv, ScopesTypeOK
  <2> QED
    BY <1>3, <2>1, AskingHolds
<1>4. CASE Go(c)
  BY <1>4, GoingHolds
<1>5. CASE Included
  BY <1>5, ExecutedHolds
<1>6. ~ Dropped
  BY DEF Dropped, Evict, Alone
<1>7. CASE UNCHANGED scopesVars
  BY <1>7 DEF scopesVars, vars, callVars, chainVars, callerVars, scopeVars, CheckHolds,
    NothingReplaced, StillToExecute, Tx
<1> QED
  BY <1>1, <1>2, <1>3, <1>4, <1>5, <1>6, <1>7 DEF ScopesNext, CheckRefuses, ScopesDone

\* For a single caller that waits for inclusion, on a node that takes an accepted
\* transaction into a block before the caller gives up and loses no reply, the
\* check of CreateScope is enough: no creation ever writes over a scope.
THEOREM WaitingReplacesNothing ==
  ASSUME NEW c, Alone(c)
  PROVE  ScopesSpec => []NothingReplaced
<1> DEFINE Inv == UnseenInv /\ Settled(c) /\ CheckHolds(c)
<1>1. ScopesInit => Inv
  <2> SUFFICES ASSUME ScopesInit PROVE Settled(c) /\ CheckHolds(c)
    BY ScopesInitInv
  <2>1. mempool = <<>>
    BY DEF ScopesInit, Init, Alone
  <2>2. Settled(c)
    BY <2>1 DEF ScopesInit, Init, Settled, Alone
  <2>3. CheckHolds(c)
    BY DEF ScopesInit, Init, Alone, CheckHolds, NothingReplaced, StillToExecute
  <2> QED
    BY <2>2, <2>3
<1>2. Inv /\ [ScopesNext]_scopesVars => Inv'
  <2> SUFFICES ASSUME Inv, [ScopesNext]_scopesVars PROVE Inv'
    OBVIOUS
  <2>1. UnseenInv'
    BY UnseenStep
  <2>2. Settled(c)'
    BY ScopesIsNext, SoloStep DEF UnseenInv, ScopesTypeOK
  <2>3. CheckHolds(c)'
    BY CheckHoldsStep
  <2> QED
    BY <2>1, <2>2, <2>3
<1>3. Inv => NothingReplaced
  BY DEF CheckHolds
<1> QED
  BY <1>1, <1>2, <1>3, PTL DEF ScopesSpec
================================================================================
