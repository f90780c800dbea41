---------------------------- MODULE TxSequenceProofs ----------------------------
(***************************************************************************)
(* Proofs about TxSequence for any number of callers, operations, polls and *)
(* pending transactions: type correctness, the discipline of c.mu, fresh    *)
(* numbers between resets; and, for a single caller that waits, that a      *)
(* reset realigns.                                                          *)
(***************************************************************************)
EXTENDS TxSequence, SequenceTheorems, WellFoundedInduction, TLAPS

USE SequenceAssumption

--------------------------------------------------------------------------------
(* Naturals and sequences.                                                 *)

\* A set of naturals that is not empty has a smallest member.
LEMMA SmallestOf ==
  ASSUME NEW T, T \subseteq Nat, T # {}
  PROVE  \E x \in T : \A y \in T : ~(y < x)
<1> DEFINE R == OpToRel(<, Nat)
<1>1. IsWellFoundedOn(R, Nat)
  BY NatLessThanWellFounded
<1>2. PICK x \in T : \A y \in T : ~(<<y, x>> \in R)
  BY <1>1, WFMin
<1>3. \A y \in T : ~(y < x)
  BY <1>2 DEF OpToRel
<1> QED
  BY <1>3

\* Induction over a set: a set that holds 0 and, with n, n + 1 holds every natural.
LEMMA SetInduction ==
  ASSUME NEW S, 0 \in S, \A n \in S \cap Nat : n + 1 \in S
  PROVE  Nat \subseteq S
<1> SUFFICES ASSUME Nat \ S # {} PROVE FALSE
  OBVIOUS
<1>1. PICK x \in Nat \ S : \A y \in Nat \ S : ~(y < x)
  BY SmallestOf
<1>2. x # 0
  BY <1>1
<1>3. x - 1 \in Nat /\ x - 1 < x /\ x - 1 + 1 = x
  BY <1>1, <1>2
<1>4. x - 1 \in S
  BY <1>1, <1>3
<1> QED
  BY <1>1, <1>3, <1>4

\* The items of a part of a sequence.
LEMMA SubSeqIs ==
  ASSUME NEW S, NEW s \in Seq(S), NEW a \in Nat \ {0}, NEW b \in Nat,
         b <= Len(s), a <= b + 1
  PROVE  /\ Len(SubSeq(s, a, b)) = b + 1 - a
         /\ DOMAIN SubSeq(s, a, b) = 1..(b + 1 - a)
         /\ \A i \in 1..(b + 1 - a) : SubSeq(s, a, b)[i] = s[a + i - 1]
<1>1. a \in Int /\ b \in Int /\ Len(s) \in Nat
  BY LenProperties
<1>2. \A i \in a..b : s[i] \in S
  <2>1. \A i \in a..b : i \in 1..Len(s)
    BY <1>1
  <2> QED
    BY <2>1, ElementOfSeq
<1>3. /\ SubSeq(s, a, b) \in Seq(S)
      /\ Len(SubSeq(s, a, b)) = IF a <= b THEN b - a + 1 ELSE 0
      /\ \A i \in 1..b - a + 1 : SubSeq(s, a, b)[i] = s[a + i - 1]
  BY <1>1, <1>2, SubSeqProperties
<1>4. b - a + 1 = b + 1 - a
  BY <1>1
<1>5. Len(SubSeq(s, a, b)) = b + 1 - a
  BY <1>1, <1>3, <1>4
<1>6. DOMAIN SubSeq(s, a, b) = 1..Len(SubSeq(s, a, b))
  BY <1>3, LenProperties
<1> QED
  BY <1>3, <1>4, <1>5, <1>6

LEMMA SuffixIs ==
  ASSUME NEW S, NEW s \in Seq(S), NEW n \in 1..Len(s)
  PROVE  LET r == SubSeq(s, n + 1, Len(s)) IN
         /\ Len(r) = Len(s) - n /\ DOMAIN r = 1..(Len(s) - n)
         /\ \A i \in 1..(Len(s) - n) : r[i] = s[n + i]
<1>1. PICK l \in Nat : l = Len(s) /\ n \in 1..l
  BY LenProperties
<1>2. PICK a \in Nat \ {0} : a = n + 1 /\ a <= l + 1
  BY <1>1
<1>3. l <= Len(s)
  BY <1>1
<1>4. /\ Len(SubSeq(s, a, l)) = l + 1 - a
      /\ DOMAIN SubSeq(s, a, l) = 1..(l + 1 - a)
      /\ \A i \in 1..(l + 1 - a) : SubSeq(s, a, l)[i] = s[a + i - 1]
  BY <1>2, <1>3, SubSeqIs
<1>5. l + 1 - a = l - n /\ \A i \in 1..(l - n) : a + i - 1 = n + i
  BY <1>1, <1>2
<1> QED
  BY <1>1, <1>2, <1>4, <1>5

--------------------------------------------------------------------------------
(* The type invariant.                                                     *)

LEMMA InitType == Init => TypeOK
<1> SUFFICES ASSUME Init PROVE TypeOK
  OBVIOUS
<1>1. mempool \in Seq(Txs)
  <2>1. \A i \in 1..Prior : [by |-> "free", op |-> i] \in Txs
    BY DEF Txs
  <2> QED
    BY <2>1 DEF Init
<1> QED
  BY <1>1 DEF Init, TypeOK, Steps, Critical

LEMMA TxType == ASSUME TypeOK, NEW c \in Callers PROVE Tx(c) \in Txs
BY DEF TypeOK, Tx, Txs

LEMMA BroadcastedType ==
  ASSUME TypeOK, NEW c \in Callers, Broadcasted(c)
  PROVE  /\ pc' \in [Callers -> Steps]
         /\ polls' \in [Callers -> 0..MaxPolls]
         /\ result' \in [Callers -> {"none", "ok", "sent", "err"}]
<1>1. CASE c \in Waiting
  <2>1. pc' = [pc EXCEPT ![c] = "wait"] /\ result' = result
    BY <1>1 DEF Broadcasted, Goto
  <2>2. polls' = [polls EXCEPT ![c] = 0] /\ 0 \in 0..MaxPolls
    BY <1>1 DEF Broadcasted
  <2> QED
    BY <2>1, <2>2 DEF TypeOK, Steps
<1>2. CASE c \notin Waiting
  <2>1. pc' = [pc EXCEPT ![c] = "idle"] /\ polls' = polls
    BY <1>2 DEF Broadcasted, Return, Goto
  <2>2. result' = [result EXCEPT ![c] = "sent"]
    BY <1>2 DEF Broadcasted, Return
  <2> QED
    BY <2>1, <2>2 DEF TypeOK, Steps
<1> QED
  BY <1>1, <1>2

LEMMA TypeStep ==
  ASSUME TypeOK, [Next]_vars
  PROVE  TypeOK'
<1> USE DEF TypeOK, Steps, Critical, clientVars, callVars, chainVars
<1>1. ASSUME NEW c \in Callers, Start(c) PROVE TypeOK'
  <2>1. /\ pc' = [pc EXCEPT ![c] = "lockNext"]
        /\ ops' = [ops EXCEPT ![c] = ops[c] + 1]
        /\ result' = [result EXCEPT ![c] = "none"]
    BY <1>1 DEF Start, Goto
  <2>2. ops[c] + 1 \in Nat
    OBVIOUS
  <2>3. /\ pc' \in [Callers -> Steps]
        /\ ops' \in [Callers -> Nat]
        /\ result' \in [Callers -> {"none", "ok", "sent", "err"}]
    BY <2>1, <2>2
  <2> QED
    BY <1>1, <2>3 DEF Start
<1>2. ASSUME NEW c \in Callers, LockNext(c) PROVE TypeOK'
  BY <1>2 DEF LockNext, Goto, Lock
<1>3. ASSUME NEW c \in Callers, ReadNext(c) PROVE TypeOK'
  BY <1>3 DEF ReadNext, Goto
<1>4. ASSUME NEW c \in Callers, IncNext(c) PROVE TypeOK'
  BY <1>4 DEF IncNext, Goto, Unlock
<1>5. ASSUME NEW c \in Callers, SignErr(c) PROVE TypeOK'
  BY <1>5 DEF SignErr, Return, Goto
<1>6. ASSUME NEW c \in Callers, SimulateMismatch(c) PROVE TypeOK'
  <2>1. pc' = [pc EXCEPT ![c] = "lockAuth"]
    BY <1>6 DEF SimulateMismatch, Goto
  <2>2. pc' \in [Callers -> Steps]
    BY <2>1
  <2> QED
    BY <1>6, <2>2 DEF SimulateMismatch
<1>7. ASSUME NEW c \in Callers, SimulateErr(c) PROVE TypeOK'
  BY <1>7 DEF SimulateErr, Goto
<1>8. ASSUME NEW c \in Callers, SimulateOk(c) PROVE TypeOK'
  BY <1>8 DEF SimulateOk, Goto
<1>9. ASSUME NEW c \in Callers, LockAuth(c) PROVE TypeOK'
  BY <1>9 DEF LockAuth, Goto, Lock
<1>10. ASSUME NEW c \in Callers, UnlockAuth(c) PROVE TypeOK'
  BY <1>10 DEF UnlockAuth, Goto, Unlock
<1>11. ASSUME NEW c \in Callers, QueryAccount(c) PROVE TypeOK'
  BY <1>11 DEF QueryAccount, Goto
<1>12. ASSUME NEW c \in Callers, QueryAccountErr(c) PROVE TypeOK'
  BY <1>12 DEF QueryAccountErr, Return, Goto
<1>13. ASSUME NEW c \in Callers, LockSet(c) PROVE TypeOK'
  BY <1>13 DEF LockSet, Goto, Lock
<1>14. ASSUME NEW c \in Callers, SetSequence(c) PROVE TypeOK'
  BY <1>14 DEF SetSequence, Return, Goto, Unlock
<1>15. ASSUME NEW c \in Callers, Accepted(c) PROVE TypeOK'
  <2>1. mempool' \in Seq(Txs)
    <3>1. Tx(c) \in Txs
      BY TxType
    <3>2. mempool' = Append(mempool, Tx(c))
      BY <1>15 DEF Accepted
    <3> QED
      BY <3>1, <3>2, AppendProperties
  <2>2. Broadcasted(c)
    BY <1>15 DEF Accepted
  <2> QED
    BY <1>15, <2>1, <2>2, BroadcastedType DEF Accepted
<1>16. ASSUME NEW c \in Callers, Rejected(c) PROVE TypeOK'
  BY <1>16, BroadcastedType DEF Rejected
<1>17. ASSUME NEW c \in Callers, BroadcastErr(c) PROVE TypeOK'
  BY <1>17 DEF BroadcastErr, Return, Goto
<1>18. ASSUME NEW c \in Callers, ReplyLost(c) PROVE TypeOK'
  <2>1. mempool' \in Seq(Txs)
    <3>1. Tx(c) \in Txs
      BY TxType
    <3>2. mempool' = Append(mempool, Tx(c))
      BY <1>18 DEF ReplyLost
    <3> QED
      BY <3>1, <3>2, AppendProperties
  <2> QED
    BY <1>18, <2>1 DEF ReplyLost, Return, Goto
<1>19. ASSUME NEW c \in Callers, PollFound(c) PROVE TypeOK'
  BY <1>19 DEF PollFound, Return, Goto
<1>20. ASSUME NEW c \in Callers, PollMiss(c) PROVE TypeOK'
  <2>1. polls[c] \in 0..MaxPolls /\ polls[c] < MaxPolls
    BY <1>20 DEF PollMiss
  <2>2. polls[c] + 1 \in 0..MaxPolls
    BY <2>1, SequenceAssumption
  <2>3. polls' = [polls EXCEPT ![c] = polls[c] + 1]
    BY <1>20 DEF PollMiss
  <2>4. polls' \in [Callers -> 0..MaxPolls]
    BY <2>2, <2>3
  <2> QED
    BY <1>20, <2>4 DEF PollMiss
<1>21. ASSUME NEW c \in Callers, GiveUp(c) PROVE TypeOK'
  BY <1>21 DEF GiveUp, Return, Goto
<1>22. CASE Block
  <2>1. PICK n \in 1..Len(mempool) :
          /\ committed' = committed + n
          /\ mempool' = SubSeq(mempool, n + 1, Len(mempool))
          /\ indexed' = indexed \cup {mempool[i] : i \in 1..n}
          /\ UNCHANGED <<clientVars, pc, callVars, misses>>
    BY <1>22 DEF Block
  <2>2. /\ Len(mempool) \in Nat
        /\ \A i \in 1..Len(mempool) : mempool[i] \in Txs
    BY ElementOfSeq, LenProperties
  <2>3. mempool' \in Seq(Txs)
    BY <2>1, <2>2, SubSeqProperties
  <2>4. indexed' \in SUBSET Txs
    BY <2>1, <2>2
  <2> QED
    BY <2>1, <2>2, <2>3, <2>4
<1>23. CASE Evict
  <2>1. PICK n \in 1..Len(mempool) :
          /\ mempool' = SubSeq(mempool, 1, n - 1)
          /\ UNCHANGED <<clientVars, pc, callVars, committed, indexed, misses>>
    BY <1>23 DEF Evict
  <2>2. /\ Len(mempool) \in Nat
        /\ \A i \in 1..Len(mempool) : mempool[i] \in Txs
    BY ElementOfSeq, LenProperties
  <2>3. mempool' \in Seq(Txs)
    BY <2>1, <2>2, SubSeqProperties
  <2> QED
    BY <2>1, <2>3
<1>24. CASE UNCHANGED vars
  BY <1>24 DEF vars
<1> QED
  BY <1>1, <1>2, <1>3, <1>4, <1>5, <1>6, <1>7, <1>8, <1>9, <1>10, <1>11, <1>12, <1>13, <1>14, <1>15, <1>16, <1>17, <1>18, <1>19, <1>20, <1>21, <1>22, <1>23, <1>24
  DEF Next, AllDone, Proceed, Sign, Reset, Send, Wait

\* The type invariant holds for every value of the constants.
THEOREM TypeCorrect == Spec => []TypeOK
<1>1. Init => TypeOK
  BY InitType
<1>2. TypeOK /\ [Next]_vars => TypeOK'
  BY TypeStep
<1> QED
  BY <1>1, <1>2, PTL DEF Spec

--------------------------------------------------------------------------------
(* The discipline of c.mu and the freshness of numbers.                    *)

\* A step that moves one caller between two places outside the critical
\* sections, and touches neither c.mu, c.Sequence nor a number taken.
LEMMA OutsideKeeps ==
  ASSUME TypeOK, NumberInv, NEW c \in Callers, NEW to \in Steps \ Critical,
         pc[c] \notin Critical, pc' = [pc EXCEPT ![c] = to],
         UNCHANGED <<clientVars, seq>>
  PROVE  NumberInv'
<1>1. /\ \A d \in Callers : pc'[d] \in Critical <=> pc[d] \in Critical
      /\ \A d \in Callers : pc'[d] = "inc" <=> pc[d] = "inc"
  BY DEF TypeOK, Critical
<1> QED
  BY <1>1 DEF NumberInv, MutexDiscipline, FreshNumbers, clientVars

LEMMA NumberStep ==
  ASSUME TypeOK, NumberInv, [Next]_vars
  PROVE  NumberInv'
<1>1. ASSUME NEW c \in Callers, Start(c) PROVE NumberInv'
  <2>1. pc[c] \notin Critical /\ pc' = [pc EXCEPT ![c] = "lockNext"] /\ UNCHANGED <<clientVars, seq>>
    BY <1>1 DEF Start, Goto, Critical, callVars
  <2> QED
    BY <2>1, OutsideKeeps DEF Steps, Critical
<1>2. ASSUME NEW c \in Callers, LockNext(c) PROVE NumberInv'
  BY <1>2 DEF LockNext, Goto, Lock, TypeOK, NumberInv, MutexDiscipline, FreshNumbers, Critical, clientVars, callVars
<1>3. ASSUME NEW c \in Callers, ReadNext(c) PROVE NumberInv'
  BY <1>3 DEF ReadNext, Goto, TypeOK, NumberInv, MutexDiscipline, FreshNumbers, Critical, clientVars, callVars
<1>4. ASSUME NEW c \in Callers, IncNext(c) PROVE NumberInv'
  <2>1. /\ pc[c] = "inc" /\ pc' = [pc EXCEPT ![c] = "sign"] /\ mu' = "free"
        /\ Sequence' = Sequence + 1 /\ current' = current \cup {c} /\ seq' = seq
    BY <1>4 DEF IncNext, Goto, Unlock, callVars
  <2>2. mu = c /\ \A d \in Callers \ {c} : pc[d] \notin Critical
    BY <2>1 DEF NumberInv, MutexDiscipline, Critical
  <2>3. \A d \in Callers : pc'[d] \notin Critical
    BY <2>1, <2>2 DEF TypeOK, Critical
  <2>4. MutexDiscipline'
    BY <2>1, <2>3, SequenceAssumption DEF MutexDiscipline
  <2>5. FreshNumbers'
    <3>1. seq[c] = Sequence /\ Sequence \in Nat
      BY <2>1 DEF NumberInv, TypeOK
    <3>2. \A d \in current : seq[d] \in Nat /\ seq[d] < Sequence
      BY DEF NumberInv, FreshNumbers, TypeOK
    <3>3. \A d \in current' : seq'[d] < Sequence'
      BY <2>1, <3>1, <3>2
    <3>4. \A d, e \in current' : d # e => seq'[d] # seq'[e]
      BY <2>1, <3>1, <3>2 DEF NumberInv, FreshNumbers
    <3> QED
      BY <3>3, <3>4 DEF FreshNumbers
  <2>6. \A d \in Callers : pc'[d] # "inc"
    BY <2>3 DEF Critical
  <2> QED
    BY <2>4, <2>5, <2>6 DEF NumberInv
<1>5. ASSUME NEW c \in Callers, SignErr(c) PROVE NumberInv'
  <2>1. pc[c] \notin Critical /\ pc' = [pc EXCEPT ![c] = "idle"] /\ UNCHANGED <<clientVars, seq>>
    BY <1>5 DEF SignErr, Return, Goto, Critical, callVars
  <2> QED
    BY <2>1, OutsideKeeps DEF Steps, Critical
<1>6. ASSUME NEW c \in Callers, SimulateMismatch(c) PROVE NumberInv'
  <2>1. pc[c] \notin Critical /\ pc' = [pc EXCEPT ![c] = "lockAuth"] /\ UNCHANGED <<clientVars, seq>>
    BY <1>6 DEF SimulateMismatch, Goto, Critical, callVars
  <2> QED
    BY <2>1, OutsideKeeps DEF Steps, Critical
<1>7. ASSUME NEW c \in Callers, SimulateErr(c) PROVE NumberInv'
  <2>1. pc[c] \notin Critical /\ pc' = [pc EXCEPT ![c] = "lockAuth"] /\ UNCHANGED <<clientVars, seq>>
    BY <1>7 DEF SimulateErr, Goto, Critical, callVars
  <2> QED
    BY <2>1, OutsideKeeps DEF Steps, Critical
<1>8. ASSUME NEW c \in Callers, SimulateOk(c) PROVE NumberInv'
  <2>1. pc[c] \notin Critical /\ pc' = [pc EXCEPT ![c] = "broadcast"] /\ UNCHANGED <<clientVars, seq>>
    BY <1>8 DEF SimulateOk, Goto, Critical, callVars
  <2> QED
    BY <2>1, OutsideKeeps DEF Steps, Critical
<1>9. ASSUME NEW c \in Callers, LockAuth(c) PROVE NumberInv'
  BY <1>9 DEF LockAuth, Goto, Lock, TypeOK, NumberInv, MutexDiscipline, FreshNumbers, Critical, clientVars, callVars
<1>10. ASSUME NEW c \in Callers, UnlockAuth(c) PROVE NumberInv'
  BY <1>10 DEF UnlockAuth, Goto, Unlock, TypeOK, NumberInv, MutexDiscipline, FreshNumbers, Critical, clientVars, callVars
<1>11. ASSUME NEW c \in Callers, QueryAccount(c) PROVE NumberInv'
  <2>1. pc[c] \notin Critical /\ pc' = [pc EXCEPT ![c] = "lockSet"] /\ UNCHANGED <<clientVars, seq>>
    BY <1>11 DEF QueryAccount, Goto, Critical, callVars
  <2> QED
    BY <2>1, OutsideKeeps DEF Steps, Critical
<1>12. ASSUME NEW c \in Callers, QueryAccountErr(c) PROVE NumberInv'
  <2>1. pc[c] \notin Critical /\ pc' = [pc EXCEPT ![c] = "idle"] /\ UNCHANGED <<clientVars, seq>>
    BY <1>12 DEF QueryAccountErr, Return, Goto, Critical, callVars
  <2> QED
    BY <2>1, OutsideKeeps DEF Steps, Critical
<1>13. ASSUME NEW c \in Callers, LockSet(c) PROVE NumberInv'
  BY <1>13 DEF LockSet, Goto, Lock, TypeOK, NumberInv, MutexDiscipline, FreshNumbers, Critical, clientVars, callVars
<1>14. ASSUME NEW c \in Callers, SetSequence(c) PROVE NumberInv'
  BY <1>14 DEF SetSequence, Return, Goto, Unlock, TypeOK, NumberInv, MutexDiscipline, FreshNumbers, Critical, clientVars, callVars
<1>15. ASSUME NEW c \in Callers, Accepted(c) PROVE NumberInv'
  <2>1. pc[c] \notin Critical /\ UNCHANGED <<clientVars, seq>>
    BY <1>15 DEF Accepted, Broadcasted, Return, Goto, Critical, callVars
  <2>2. pc' = [pc EXCEPT ![c] = "wait"] \/ pc' = [pc EXCEPT ![c] = "idle"]
    BY <1>15 DEF Accepted, Broadcasted, Return, Goto
  <2> QED
    BY <2>1, <2>2, OutsideKeeps DEF Steps, Critical
<1>16. ASSUME NEW c \in Callers, Rejected(c) PROVE NumberInv'
  <2>1. pc[c] \notin Critical /\ UNCHANGED <<clientVars, seq>>
    BY <1>16 DEF Rejected, Broadcasted, Return, Goto, Critical, callVars
  <2>2. pc' = [pc EXCEPT ![c] = "wait"] \/ pc' = [pc EXCEPT ![c] = "idle"]
    BY <1>16 DEF Rejected, Broadcasted, Return, Goto
  <2> QED
    BY <2>1, <2>2, OutsideKeeps DEF Steps, Critical
<1>17. ASSUME NEW c \in Callers, BroadcastErr(c) PROVE NumberInv'
  <2>1. pc[c] \notin Critical /\ pc' = [pc EXCEPT ![c] = "idle"] /\ UNCHANGED <<clientVars, seq>>
    BY <1>17 DEF BroadcastErr, Return, Goto, Critical, callVars
  <2> QED
    BY <2>1, OutsideKeeps DEF Steps, Critical
<1>18. ASSUME NEW c \in Callers, ReplyLost(c) PROVE NumberInv'
  <2>1. pc[c] \notin Critical /\ pc' = [pc EXCEPT ![c] = "idle"] /\ UNCHANGED <<clientVars, seq>>
    BY <1>18 DEF ReplyLost, Return, Goto, Critical, callVars
  <2> QED
    BY <2>1, OutsideKeeps DEF Steps, Critical
<1>19. ASSUME NEW c \in Callers, PollFound(c) PROVE NumberInv'
  <2>1. pc[c] \notin Critical /\ pc' = [pc EXCEPT ![c] = "idle"] /\ UNCHANGED <<clientVars, seq>>
    BY <1>19 DEF PollFound, Return, Goto, Critical, callVars
  <2> QED
    BY <2>1, OutsideKeeps DEF Steps, Critical
<1>20. ASSUME NEW c \in Callers, PollMiss(c) PROVE NumberInv'
  BY <1>20 DEF PollMiss, NumberInv, MutexDiscipline, FreshNumbers, clientVars
<1>21. ASSUME NEW c \in Callers, GiveUp(c) PROVE NumberInv'
  <2>1. pc[c] \notin Critical /\ pc' = [pc EXCEPT ![c] = "idle"] /\ UNCHANGED <<clientVars, seq>>
    BY <1>21 DEF GiveUp, Return, Goto, Critical, callVars
  <2> QED
    BY <2>1, OutsideKeeps DEF Steps, Critical
<1>22. CASE Block \/ Evict \/ UNCHANGED vars
  BY <1>22 DEF Block, Evict, vars, NumberInv, MutexDiscipline, FreshNumbers, clientVars, callVars
<1> QED
  BY <1>1, <1>2, <1>3, <1>4, <1>5, <1>6, <1>7, <1>8, <1>9, <1>10, <1>11, <1>12, <1>13, <1>14, <1>15, <1>16, <1>17, <1>18, <1>19, <1>20, <1>21, <1>22
  DEF Next, AllDone, Proceed, Sign, Reset, Send, Wait

LEMMA InitNumber == Init => NumberInv
BY DEF Init, NumberInv, MutexDiscipline, FreshNumbers, Critical

\* NumberInv is inductive together with the types: the number a goroutine read under
\* c.mu is still the current one when it writes the next.
THEOREM NumberInductive == Spec => [](TypeOK /\ NumberInv)
<1>1. Init => TypeOK /\ NumberInv
  BY InitType, InitNumber
<1>2. (TypeOK /\ NumberInv) /\ [Next]_vars => (TypeOK /\ NumberInv)'
  BY TypeStep, NumberStep
<1> QED
  BY <1>1, <1>2, PTL DEF Spec

\* c.mu is held exactly in the critical sections, by the goroutine in one: never
\* across the account query, and by one goroutine at a time.
THEOREM MutexHeldOnlyInside == Spec => []MutexDiscipline
<1>1. NumberInv => MutexDiscipline
  BY DEF NumberInv
<1> QED
  BY <1>1, NumberInductive, PTL

\* Between two resets NextSequence gives no number twice, whatever the number
\* of goroutines and whatever the node answers.
THEOREM NumbersAreFresh == Spec => []FreshNumbers
<1>1. NumberInv => FreshNumbers
  BY DEF NumberInv
<1> QED
  BY <1>1, NumberInductive, PTL

--------------------------------------------------------------------------------
(* A single caller that waits for inclusion, on a reliable node.           *)

Alone(c) ==
  /\ Callers = {c} /\ Waiting = {c}
  /\ Prior = 0
  /\ Reliable

\* Where nothing is pending the node expects the committed sequence.
LEMMA NothingPending ==
  ASSUME TypeOK, mempool = <<>>
  PROVE  NextSeq = committed
BY DEF TypeOK, NextSeq

LEMMA SoloStep ==
  ASSUME NEW c, Alone(c), TypeOK, Settled(c), [Next]_vars
  PROVE  Settled(c)'
<1> USE DEF Alone, Settled, TypeOK, Tx
<1>0. pc[c] # "wait" => mempool = <<>> /\ NextSeq = committed
  BY NothingPending
<1>1. CASE Start(c)
  <2>1. pc[c] = "idle" /\ pc' = [pc EXCEPT ![c] = "lockNext"] /\ ops' = [ops EXCEPT ![c] = @ + 1]
        /\ UNCHANGED <<mempool, indexed, committed, answer, misses, Sequence, seq>>
    BY <1>1 DEF Start, Goto, clientVars, chainVars
  <2>2. pc'[c] = "lockNext" /\ ops'[c] = ops[c] + 1 /\ ops[c] \in Nat
    BY <2>1
  <2>3. \A t \in indexed : t.op \in Nat /\ t.op <= ops[c]
    BY DEF Txs
  <2>4. Tx(c)' \notin indexed /\ \A t \in indexed : t.op <= ops'[c]
    BY <2>2, <2>3
  <2> QED
    BY <1>0, <2>1, <2>2, <2>4
<1>2. CASE LockNext(c)
  BY <1>0, <1>2 DEF LockNext, Goto, Lock, clientVars, callVars, chainVars
<1>3. CASE ReadNext(c)
  BY <1>0, <1>3 DEF ReadNext, Goto, clientVars, callVars, chainVars
<1>4. CASE IncNext(c)
  BY <1>0, <1>4 DEF IncNext, Goto, Unlock, clientVars, callVars, chainVars
<1>5. CASE SignErr(c)
  BY <1>0, <1>5 DEF SignErr, Return, Goto, clientVars, callVars, chainVars
<1>6. CASE SimulateMismatch(c)
  BY <1>0, <1>6 DEF SimulateMismatch, Goto, clientVars, callVars, chainVars
<1>7. CASE SimulateErr(c)
  BY <1>0, <1>7 DEF SimulateErr, Goto, clientVars, callVars, chainVars
<1>8. CASE SimulateOk(c)
  BY <1>0, <1>8 DEF SimulateOk, Goto, clientVars, callVars, chainVars
<1>9. CASE LockAuth(c)
  BY <1>0, <1>9 DEF LockAuth, Goto, Lock, clientVars, callVars, chainVars
<1>10. CASE UnlockAuth(c)
  BY <1>0, <1>10 DEF UnlockAuth, Goto, Unlock, clientVars, callVars, chainVars
<1>11. CASE QueryAccount(c)
  BY <1>0, <1>11 DEF QueryAccount, Goto, clientVars, callVars, chainVars
<1>12. CASE QueryAccountErr(c)
  BY <1>0, <1>12 DEF QueryAccountErr, Return, Goto, clientVars, callVars, chainVars
<1>13. CASE LockSet(c)
  BY <1>0, <1>13 DEF LockSet, Goto, Lock, clientVars, callVars, chainVars
<1>14. CASE SetSequence(c)
  BY <1>0, <1>14 DEF SetSequence, Return, Goto, Unlock, clientVars, callVars, chainVars
<1>15. CASE Accepted(c)
  <2>1. pc[c] = "broadcast" /\ mempool = <<>> /\ misses = 0
    BY <1>0, <1>15 DEF Accepted, Broadcasted, Goto
  <2>2. mempool' = <<Tx(c)>> /\ pc'[c] = "wait" /\ UNCHANGED <<ops, misses, indexed>>
    BY <1>15, <2>1 DEF Accepted, Broadcasted, Goto
  <2>3. Tx(c)' = Tx(c) /\ Tx(c) \notin indexed
    BY <2>1, <2>2
  <2> QED
    BY <2>1, <2>2, <2>3
<1>16. CASE Rejected(c)
  BY <1>0, <1>16 DEF Rejected, Broadcasted, Return, Goto, clientVars, callVars, chainVars
<1>17. CASE BroadcastErr(c)
  BY <1>0, <1>17 DEF BroadcastErr, Return, Goto, clientVars, callVars, chainVars
<1>18. CASE ReplyLost(c)
  BY <1>18 DEF ReplyLost
<1>19. CASE PollFound(c)
  BY <1>19 DEF PollFound, Return, Goto, chainVars, clientVars
<1>20. CASE PollMiss(c)
  BY <1>0, <1>20 DEF PollMiss, clientVars, callVars, chainVars
<1>21. CASE GiveUp(c)
  <2>1. mempool = <<>>
    BY <1>21 DEF GiveUp
  <2> QED
    BY <1>21, <2>1 DEF GiveUp, Return, Goto, chainVars, clientVars
<1>22. CASE Block
  BY <1>22 DEF Block, clientVars, callVars
<1>23. CASE Evict
  BY <1>23 DEF Evict
<1>24. CASE UNCHANGED vars
  BY <1>24 DEF vars, clientVars, callVars, chainVars
<1> QED
  BY <1>1, <1>2, <1>3, <1>4, <1>5, <1>6, <1>7, <1>8, <1>9, <1>10, <1>11, <1>12, <1>13, <1>14, <1>15, <1>16, <1>17, <1>18, <1>19, <1>20, <1>21, <1>22, <1>23, <1>24
  DEF Next, AllDone, Proceed, Sign, Reset, Send, Wait

\* For a single caller that waits for inclusion, on a node that takes an accepted
\* transaction into a block before the caller gives up and loses no reply, a
\* reset realigns the sequence: no two operations in a row are rejected for
\* their number.  The run tx_pipelined shows that waiting cannot be dropped.
THEOREM SoloRealigns ==
  ASSUME NEW c, Alone(c)
  PROVE  Spec => []ResetRealigns
<1>1. Init => TypeOK /\ Settled(c)
  <2> SUFFICES ASSUME Init PROVE Settled(c)
    BY InitType
  <2>1. mempool = <<>>
    BY DEF Init, Alone
  <2> QED
    BY <2>1 DEF Init, Settled, Alone
<1>2. (TypeOK /\ Settled(c)) /\ [Next]_vars => (TypeOK /\ Settled(c))'
  BY TypeStep, SoloStep
<1>3. TypeOK /\ Settled(c) => ResetRealigns
  BY DEF Settled, ResetRealigns
<1> QED
  BY <1>1, <1>2, <1>3, PTL DEF Spec
--------------------------------------------------------------------------------
(* Success is only reported of what is in a block.                         *)

\* The steps of an operation that report no success.
LEMMA NoSuccess ==
  ASSUME TypeOK, NEW c \in Callers, Proceed(c), ~ PollFound(c)
  PROVE  /\ UNCHANGED <<ops, indexed>>
         /\ \A d \in Callers : result'[d] = "ok" => result[d] = "ok"
<1> USE DEF TypeOK, Goto, Return, callVars, chainVars
<1>1. CASE LockNext(c) \/ ReadNext(c) \/ IncNext(c)
  BY <1>1 DEF LockNext, ReadNext, IncNext
<1>2. CASE Sign(c)
  BY <1>2 DEF Sign, SignErr, SimulateMismatch, SimulateErr, SimulateOk
<1>3. CASE Reset(c)
  BY <1>3 DEF Reset, LockAuth, UnlockAuth, QueryAccount, QueryAccountErr, LockSet, SetSequence
<1>4. CASE Send(c)
  BY <1>4 DEF Send, Accepted, Rejected, Broadcasted, BroadcastErr, ReplyLost
<1>5. CASE PollMiss(c) \/ GiveUp(c)
  BY <1>5 DEF PollMiss, GiveUp
<1> QED
  BY <1>1, <1>2, <1>3, <1>4, <1>5 DEF Proceed, Wait

LEMMA OkStep ==
  ASSUME TypeOK, OkMeansCommitted, [Next]_vars
  PROVE  OkMeansCommitted'
<1> USE SequenceAssumption DEF OkMeansCommitted, Tx
<1>1. ASSUME NEW c \in Callers, Start(c) PROVE OkMeansCommitted'
  <2>1. /\ result' = [result EXCEPT ![c] = "none"]
        /\ ops' = [ops EXCEPT ![c] = ops[c] + 1]
        /\ indexed' = indexed
    BY <1>1 DEF Start, chainVars
  <2> QED
    BY <2>1 DEF TypeOK
<1>2. ASSUME NEW c \in Callers, PollFound(c) PROVE OkMeansCommitted'
  <2>1. PICK r \in {"ok", "err"} : result' = [result EXCEPT ![c] = r]
    BY <1>2 DEF PollFound, Return
  <2>2. Tx(c) \in indexed /\ UNCHANGED <<ops, indexed>>
    BY <1>2 DEF PollFound, chainVars
  <2> QED
    BY <2>1, <2>2 DEF TypeOK
<1>3. ASSUME NEW c \in Callers, Proceed(c), ~ PollFound(c) PROVE OkMeansCommitted'
  BY <1>3, NoSuccess
<1>4. CASE Block
  BY <1>4 DEF Block, callVars
<1>5. CASE Evict
  BY <1>5 DEF Evict, callVars
<1>6. CASE UNCHANGED vars
  BY <1>6 DEF vars, callVars, chainVars
<1> QED
  BY <1>1, <1>2, <1>3, <1>4, <1>5, <1>6 DEF Next, AllDone

\* A caller that waits and gets no error has its own transaction in a block, for
\* any number of callers and on any node (WaitOnTx and its callers).
THEOREM SuccessIsCommitted == Spec => []OkMeansCommitted
<1>1. Init => OkMeansCommitted
  BY SequenceAssumption DEF Init, OkMeansCommitted
<1>2. TypeOK /\ OkMeansCommitted /\ [Next]_vars => OkMeansCommitted'
  BY OkStep
<1> QED
  BY <1>1, <1>2, TypeCorrect, PTL DEF Spec
================================================================================
