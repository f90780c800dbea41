---------------------------- MODULE PoolClientProofs ----------------------------
(***************************************************************************)
(* Proofs about the answers and the errors of a contract client, for any    *)
(* number of callers, calls and polls, any node and any other contracts:    *)
(* an error which says that a call did nothing is right about it            *)
(* (EffectInv), and an answer is found for every call whose block was       *)
(* fetched whole, and tells of the call's own transaction (AnswerInv).      *)
(***************************************************************************)
EXTENDS PoolClient, TxSequenceProofs

USE SequenceAssumption, PoolAssumption

--------------------------------------------------------------------------------
(* Sequences of pending transactions.                                      *)

\* A transaction that is sent joins those pending, none twice.
LEMMA AppendSet ==
  ASSUME NEW S, NEW s \in Seq(S), NEW t \in S
  PROVE  /\ ToSet(Append(s, t)) = ToSet(s) \cup {t}
         /\ t \notin ToSet(s) /\ (\A i, j \in 1..Len(s) : s[i] = s[j] => i = j) =>
              \A i, j \in 1..Len(Append(s, t)) : Append(s, t)[i] = Append(s, t)[j] => i = j
<1>1. /\ Len(s) \in Nat /\ DOMAIN s = 1..Len(s)
      /\ Len(Append(s, t)) = Len(s) + 1
      /\ DOMAIN Append(s, t) = 1..(Len(s) + 1)
      /\ \A i \in 1..Len(s) : Append(s, t)[i] = s[i]
      /\ Append(s, t)[Len(s) + 1] = t
  BY AppendProperties, LenProperties
<1>2. ToSet(Append(s, t)) = ToSet(s) \cup {t}
  BY <1>1 DEF ToSet
<1>3. \A i \in 1..Len(s) : s[i] \in ToSet(s)
  BY <1>1 DEF ToSet
<1> QED
  BY <1>1, <1>2, <1>3

\* A block takes the first n pending transactions; the others stay, none twice.
LEMMA SuffixSet ==
  ASSUME NEW S, NEW s \in Seq(S), NEW n \in 1..Len(s),
         \A i, j \in 1..Len(s) : s[i] = s[j] => i = j
  PROVE  LET r == SubSeq(s, n + 1, Len(s)) IN
         /\ ToSet(r) \subseteq ToSet(s)
         /\ ToSet(r) \cap {s[i] : i \in 1..n} = {}
         /\ ToSet(s) = ToSet(r) \cup {s[i] : i \in 1..n}
         /\ \A i, j \in 1..Len(r) : r[i] = r[j] => i = j
<1> DEFINE r == SubSeq(s, n + 1, Len(s))
<1>1. Len(s) \in Nat /\ DOMAIN s = 1..Len(s) /\ n \in Nat /\ n <= Len(s)
  BY LenProperties
<1>2. /\ Len(r) = Len(s) - n /\ DOMAIN r = 1..(Len(s) - n)
      /\ \A i \in 1..(Len(s) - n) : r[i] = s[n + i]
  BY SuffixIs
<1> HIDE DEF r
<1>3. ToSet(r) = {s[i] : i \in (n + 1)..Len(s)}
  <2>1. ToSet(r) = {r[i] : i \in 1..(Len(s) - n)}
    BY <1>2 DEF ToSet
  <2>2. ASSUME NEW x \in ToSet(r) PROVE x \in {s[i] : i \in (n + 1)..Len(s)}
    BY <1>1, <1>2, <2>1, <2>2
  <2>3. ASSUME NEW i \in (n + 1)..Len(s) PROVE s[i] \in ToSet(r)
    <3>1. i - n \in 1..(Len(s) - n) /\ n + (i - n) = i
      BY <1>1
    <3>2. r[i - n] = s[i]
      BY <1>2, <3>1
    <3> QED
      BY <2>1, <3>1, <3>2
  <2> QED
    BY <2>2, <2>3
<1>4. ToSet(s) = {s[i] : i \in 1..Len(s)}
  BY <1>1 DEF ToSet
<1>5. ToSet(r) \cap {s[i] : i \in 1..n} = {}
  BY <1>1, <1>3
<1>6. ToSet(s) = ToSet(r) \cup {s[i] : i \in 1..n}
  <2>1. \A i \in 1..Len(s) : i \in 1..n \/ i \in (n + 1)..Len(s)
    BY <1>1
  <2>2. \A i \in (n + 1)..Len(s) : i \in 1..Len(s)
    BY <1>1
  <2>3. \A i \in 1..n : i \in 1..Len(s)
    BY <1>1
  <2> QED
    BY <1>3, <1>4, <2>1, <2>2, <2>3
<1>7. \A i, j \in 1..Len(r) : r[i] = r[j] => i = j
  BY <1>1, <1>2
<1> QED
  BY <1>5, <1>6, <1>7 DEF r

\* An eviction leaves the pending transactions before the one dropped.
LEMMA PrefixSet ==
  ASSUME NEW S, NEW s \in Seq(S), NEW n \in 1..Len(s),
         \A i, j \in 1..Len(s) : s[i] = s[j] => i = j
  PROVE  LET r == SubSeq(s, 1, n - 1) IN
         /\ ToSet(r) \subseteq ToSet(s)
         /\ \A i, j \in 1..Len(r) : r[i] = r[j] => i = j
<1> DEFINE r == SubSeq(s, 1, n - 1)
<1>1. Len(s) \in Nat /\ DOMAIN s = 1..Len(s) /\ n \in Nat /\ 1 <= n /\ n <= Len(s)
  BY LenProperties
<1>3. /\ Len(r) = n - 1 /\ DOMAIN r = 1..(n - 1)
      /\ \A i \in 1..(n - 1) : r[i] = s[i]
  <2>1. n - 1 \in Nat /\ n - 1 <= Len(s) /\ 1 <= n - 1 + 1 /\ 1 \in Nat \ {0}
    BY <1>1
  <2>2. /\ Len(r) = n - 1 + 1 - 1 /\ DOMAIN r = 1..(n - 1 + 1 - 1)
        /\ \A i \in 1..(n - 1 + 1 - 1) : r[i] = s[1 + i - 1]
    BY <2>1, SubSeqIs
  <2>3. n - 1 + 1 - 1 = n - 1 /\ \A i \in 1..(n - 1) : 1 + i - 1 = i
    BY <1>1
  <2> QED
    BY <2>2, <2>3
<1> HIDE DEF r
<1>5. \A i \in 1..(n - 1) : i \in 1..Len(s)
  BY <1>1
<1>6. ToSet(r) \subseteq ToSet(s)
  BY <1>1, <1>3, <1>5 DEF ToSet
<1>7. \A i, j \in 1..Len(r) : r[i] = r[j] => i = j
  BY <1>3, <1>5
<1> QED
  BY <1>6, <1>7 DEF r

--------------------------------------------------------------------------------
(* Steps of a call are steps of TxSequence, and of one operation.          *)

LEMMA PoolIsNext ==
  ASSUME [PoolNext]_poolVars
  PROVE  [Next]_vars
BY DEF PoolNext, Refuse, Transact, Fetch, FetchBlock, FetchPartialBlock, FetchBlockErr,
  Begin, Included, Dropped, PoolDone, poolVars, Next

\* The errors of a parser.
LEMMA ParseErrors ==
  /\ \A c, b : Parse(c, b).err \in {"", "block", "event", "index", "receive"}
  /\ \A c : BaseReply(c).err \in {"", "event"}
<1>1. \A tx, b, p : Parsed(tx, b, p).err \in {"", "block", "event", "index"}
  BY DEF Parsed, Failed
<1>2. \A tx, b : ParsedReceive(tx, b).err \in {"", "block", "event", "index", "receive"}
  BY <1>1 DEF ParsedReceive, Failed
<1>3. \A c, b : Parse(c, b).err \in {"", "block", "event", "index", "receive"}
  BY <1>1, <1>2 DEF Parse
<1>4. \A c : BaseReply(c).err \in {"", "event"}
  BY DEF BaseReply, Failed
<1> QED
  BY <1>3, <1>4

\* What a step of the operation does to what the client sees of it.
LEMMA TxFlow ==
  ASSUME TypeOK, NEW c \in Callers, pc[c] # "idle" => result[c] = "none", Proceed(c)
  PROVE  /\ pc[c] # "idle"
         /\ UNCHANGED <<ops, indexed>>
         /\ \A d \in Callers : d # c => pc'[d] = pc[d] /\ result'[d] = result[d]
         /\ pc'[c] # "idle" <=> result'[c] = "none"
         /\ result'[c] \in {"none", "ok", "err"}
         /\ result'[c] = "ok" => PollFound(c)
         /\ \/ mempool' = mempool
            \/ mempool' = Append(mempool, Tx(c)) /\ pc[c] = "broadcast"
               /\ pc'[c] \in {"wait", "idle"}
         /\ pc'[c] = "wait" => pc[c] \in {"wait", "broadcast"}
         /\ pc[c] = "wait" => mempool' = mempool /\ pc'[c] \in {"wait", "idle"}
         /\ result'[c] = "err" /\ ErrorOf(c) = "sign" => pc[c] \in {"sign", "query", "set"}
         /\ result'[c] = "err" /\ ErrorOf(c) = "failed" => PollFound(c)
<1> USE DEF TypeOK, Goto, Return, callVars, chainVars, ErrorOf
<1>1. CASE LockNext(c) \/ ReadNext(c) \/ IncNext(c)
  BY <1>1 DEF LockNext, ReadNext, IncNext
<1>2. CASE Sign(c)
  BY <1>2 DEF Sign, SignErr, SimulateMismatch, SimulateErr, SimulateOk
<1>3. CASE Reset(c)
  BY <1>3 DEF Reset, LockAuth, UnlockAuth, QueryAccount, QueryAccountErr, LockSet, SetSequence
<1>4. CASE Send(c)
  <2>1. CASE Accepted(c)
    BY <2>1 DEF Accepted, Broadcasted
  <2>2. CASE Rejected(c)
    BY <2>2 DEF Rejected, Broadcasted
  <2>3. CASE BroadcastErr(c)
    BY <2>3 DEF BroadcastErr
  <2>4. CASE ReplyLost(c)
    BY <2>4 DEF ReplyLost
  <2> QED
    BY <1>4, <2>1, <2>2, <2>3, <2>4 DEF Send
<1>5. CASE PollMiss(c)
  BY <1>5 DEF PollMiss
<1>6. CASE GiveUp(c)
  BY <1>6 DEF GiveUp
<1>7. CASE PollFound(c)
  BY <1>7 DEF PollFound
<1> QED
  BY <1>1, <1>2, <1>3, <1>4, <1>5, <1>6, <1>7 DEF Proceed, Wait
--------------------------------------------------------------------------------
(* Type correctness.                                                       *)

\* A call that ends with an answer.
LEMMA AnswerType ==
  ASSUME PoolTypeOK, NEW c \in Callers, NEW r, NEW got \in BOOLEAN, Answer(c, r, got)
  PROVE  /\ stage' \in [Callers -> {"idle", "tx", "block"}] /\ stage'[c] = "idle"
         /\ gotBlock' \in [Callers -> BOOLEAN]
         /\ DOMAIN reply' = Callers /\ reply'[c] = r
         /\ \A d \in Callers : d # c => reply'[d] = reply[d] /\ stage'[d] = stage[d]
BY DEF PoolTypeOK, Answer

Errors == {"none", "", "refused", "sign", "broadcast", "wait", "failed", "block", "event", "index",
           "receive"}

LEMMA PoolTypeParts ==
  ASSUME PoolTypeOK, TypeOK', UNCHANGED <<world, calls, executed>>,
         UNCHANGED <<ops, indexed>>,
         stage' \in [Callers -> {"idle", "tx", "block"}],
         gotBlock' \in [Callers -> BOOLEAN],
         DOMAIN reply' = Callers,
         \A c \in Callers : reply'[c].err \in Errors
  PROVE  PoolTypeOK'
<1>1. /\ world' = world /\ calls' = calls /\ executed' = executed
      /\ ops' = ops /\ indexed' = indexed
  OBVIOUS
<1>2. /\ calls' \in [Callers -> Seq(Calls)]
      /\ \A c \in Callers : calls'[c] \in Seq(Worlds[world'].offered[c])
      /\ \A c \in Callers : Len(calls'[c]) = ops'[c]
      /\ world' \in DOMAIN Worlds /\ DOMAIN executed' = indexed'
  BY <1>1 DEF PoolTypeOK
<1> QED
  BY <1>2 DEF PoolTypeOK, Errors

\* How a step of a transaction is answered.
LEMMA TransactReply ==
  ASSUME PoolTypeOK, NEW c \in Callers, Tracked(c), Transact(c)
  PROVE  /\ stage[c] = "tx" /\ Proceed(c)
         /\ stage' \in [Callers -> {"idle", "tx", "block"}]
         /\ gotBlock' \in [Callers -> BOOLEAN]
         /\ DOMAIN reply' = Callers
         /\ \A d \in Callers : d # c => reply'[d] = reply[d] /\ stage'[d] = stage[d]
         /\ \/ result'[c] = "none" /\ reply'[c] = reply[c] /\ stage'[c] = "tx"
            \/ result'[c] = "err" /\ reply'[c].err = ErrorOf(c) /\ stage'[c] = "idle"
            \/ result'[c] = "ok" /\ reply'[c].err \in {"", "event"} /\ stage'[c] = "idle"
            \/ result'[c] = "ok" /\ reply'[c] = reply[c] /\ stage'[c] = "block"
<1>1. stage[c] = "tx" /\ Proceed(c)
  BY DEF Transact
<1>2. CASE result'[c] = "none" /\ UNCHANGED <<stage, reply, gotBlock>>
  BY <1>1, <1>2 DEF PoolTypeOK
<1>3. CASE result'[c] = "err" /\ Answer(c, Failed(ErrorOf(c)), FALSE)
  <2>1. Failed(ErrorOf(c)).err = ErrorOf(c)
    BY DEF Failed
  <2> QED
    BY <1>1, <1>3, <2>1, AnswerType
<1>4. CASE result'[c] = "ok" /\ Answer(c, BaseReply(c), TRUE)
  <2>1. BaseReply(c).err \in {"", "event"}
    BY ParseErrors
  <2>2. /\ stage' \in [Callers -> {"idle", "tx", "block"}] /\ stage'[c] = "idle"
        /\ gotBlock' \in [Callers -> BOOLEAN]
        /\ DOMAIN reply' = Callers /\ reply'[c] = BaseReply(c)
        /\ \A d \in Callers : d # c => reply'[d] = reply[d] /\ stage'[d] = stage[d]
    BY <1>4, AnswerType
  <2> QED
    BY <1>1, <1>4, <2>1, <2>2
<1>5. CASE /\ result'[c] = "ok"
           /\ stage' = [stage EXCEPT ![c] = "block"] /\ UNCHANGED <<reply, gotBlock>>
  BY <1>1, <1>5 DEF PoolTypeOK
<1> QED
  BY <1>2, <1>3, <1>4, <1>5 DEF Transact

LEMMA ErrorOfType == \A c \in Callers : ErrorOf(c) \in Errors
BY DEF ErrorOf, Errors

\* How the block query is answered.
LEMMA FetchReply ==
  ASSUME PoolTypeOK, NEW c \in Callers, Fetch(c)
  PROVE  /\ stage[c] = "block"
         /\ UNCHANGED <<vars, world, calls, executed>>
         /\ \E r, got : /\ got \in BOOLEAN
                        /\ r.err \in {"", "block", "event", "index", "receive"}
                        /\ Answer(c, r, got)
<1>1. CASE FetchBlock(c)
  BY <1>1, ParseErrors DEF FetchBlock
<1>2. CASE FetchPartialBlock(c)
  BY <1>2, ParseErrors DEF FetchPartialBlock
<1>3. CASE FetchBlockErr(c)
  <2>1. Failed("block").err = "block"
    BY DEF Failed
  <2> QED
    BY <1>3, <2>1 DEF FetchBlockErr
<1> QED
  BY <1>1, <1>2, <1>3 DEF Fetch

LEMMA PoolTypeStep ==
  ASSUME PoolTypeOK, \A c \in Callers : Tracked(c), [PoolNext]_poolVars
  PROVE  PoolTypeOK'
<1>1. TypeOK /\ TypeOK'
  BY PoolIsNext, TypeStep DEF PoolTypeOK
<1>2. \A c \in Callers : reply[c].err \in Errors
  BY DEF PoolTypeOK, Errors
<1>3. ASSUME NEW c \in Callers, Refuse(c) PROVE PoolTypeOK'
  <2>1. Answer(c, Failed("refused"), FALSE) /\ UNCHANGED <<vars, world, calls, executed>>
    BY <1>3 DEF Refuse
  <2>2. Failed("refused").err \in Errors
    BY DEF Failed, Errors
  <2> QED
    BY <1>1, <1>2, <2>1, <2>2, AnswerType, PoolTypeParts DEF vars, callVars, chainVars
<1>4. ASSUME NEW c \in Callers, Transact(c) PROVE PoolTypeOK'
  <2>1. UNCHANGED <<world, calls, executed>> /\ UNCHANGED <<ops, indexed>>
    BY <1>1, <1>4, TxFlow DEF Transact, Tracked
  <2>2. \A d \in Callers : reply'[d].err \in Errors
    <3>1. reply'[c].err \in Errors
      BY <1>2, <1>4, TransactReply, ErrorOfType DEF Errors
    <3> QED
      BY <1>2, <1>4, <3>1, TransactReply
  <2> QED
    BY <1>1, <1>4, <2>1, <2>2, TransactReply, PoolTypeParts
<1>5. ASSUME NEW c \in Callers, Fetch(c) PROVE PoolTypeOK'
  <2>1. UNCHANGED <<vars, world, calls, executed>>
    BY <1>5, FetchReply
  <2>2. PICK r, got : /\ got \in BOOLEAN
                      /\ r.err \in {"", "block", "event", "index", "receive"}
                      /\ Answer(c, r, got)
    BY <1>5, FetchReply
  <2>3. r.err \in Errors
    BY <2>2 DEF Errors
  <2>4. /\ stage' \in [Callers -> {"idle", "tx", "block"}] /\ gotBlock' \in [Callers -> BOOLEAN]
        /\ DOMAIN reply' = Callers /\ reply'[c] = r
        /\ \A d \in Callers : d # c => reply'[d] = reply[d]
    <3>1. PoolTypeOK /\ got \in BOOLEAN /\ Answer(c, r, got)
      BY <2>2
    <3> QED
      BY <3>1, AnswerType
  <2>5. \A d \in Callers : reply'[d].err \in Errors
    BY <1>2, <2>3, <2>4
  <2>6. UNCHANGED <<ops, indexed>>
    BY <2>1 DEF vars, callVars, chainVars
  <2> QED
    BY <1>1, <2>1, <2>4, <2>5, <2>6, PoolTypeParts
<1>6. ASSUME NEW c \in Callers, NEW call \in Worlds[world].offered[c], Begin(c, call)
      PROVE  PoolTypeOK'
  <2>1. /\ ops' = [ops EXCEPT ![c] = ops[c] + 1] /\ indexed' = indexed
        /\ calls' = [calls EXCEPT ![c] = Append(calls[c], call)]
        /\ stage' = [stage EXCEPT ![c] = "tx"]
        /\ reply' = [reply EXCEPT ![c] = None]
        /\ gotBlock' = [gotBlock EXCEPT ![c] = FALSE]
        /\ UNCHANGED <<world, executed>>
    BY <1>6 DEF Begin, Start, chainVars
  <2>2. call \in Calls
    BY DEF PoolTypeOK
  <2>3. /\ Append(calls[c], call) \in Seq(Calls)
        /\ Append(calls[c], call) \in Seq(Worlds[world].offered[c])
        /\ Len(Append(calls[c], call)) = ops[c] + 1
    <3>1. /\ calls[c] \in Seq(Calls) /\ calls[c] \in Seq(Worlds[world].offered[c])
          /\ Len(calls[c]) = ops[c]
      BY DEF PoolTypeOK
    <3>2. /\ Append(calls[c], call) \in Seq(Calls)
          /\ Len(Append(calls[c], call)) = Len(calls[c]) + 1
      BY <2>2, <3>1, AppendProperties
    <3>3. Append(calls[c], call) \in Seq(Worlds[world].offered[c])
      BY <3>1, AppendProperties
    <3> QED
      BY <3>1, <3>2, <3>3
  <2>4. /\ calls' \in [Callers -> Seq(Calls)]
        /\ \A d \in Callers : calls'[d] \in Seq(Worlds[world].offered[d]) /\ Len(calls'[d]) = ops'[d]
    BY <1>1, <2>1, <2>3 DEF PoolTypeOK, TypeOK
  <2>5. /\ stage' \in [Callers -> {"idle", "tx", "block"}] /\ gotBlock' \in [Callers -> BOOLEAN]
        /\ DOMAIN reply' = Callers
    BY <2>1 DEF PoolTypeOK
  <2>6. \A d \in Callers : reply'[d].err \in Errors
    BY <1>2, <2>1 DEF PoolTypeOK, None, Errors
  <2> QED
    BY <1>1, <2>1, <2>4, <2>5, <2>6 DEF PoolTypeOK, Errors
<1>7. CASE Included
  <2>1. /\ UNCHANGED <<world, calls, stage, reply, gotBlock, ops>>
        /\ DOMAIN executed' = indexed'
    BY <1>7 DEF Included, Block, callVars
  <2> QED
    BY <1>1, <2>1 DEF PoolTypeOK
<1>8. CASE Dropped
  <2>1. UNCHANGED <<world, calls, stage, reply, gotBlock, executed, ops, indexed>>
    BY <1>8 DEF Dropped, Evict, callVars
  <2> QED
    BY <1>1, <2>1 DEF PoolTypeOK
<1>9. CASE UNCHANGED poolVars
  BY <1>1, <1>9 DEF poolVars, vars, callVars, chainVars, PoolTypeOK
<1> QED
  BY <1>3, <1>4, <1>5, <1>6, <1>7, <1>8, <1>9 DEF PoolNext, PoolDone

--------------------------------------------------------------------------------
(* What a step does to the last call of each caller.                       *)

\* A call that a step leaves alone: the node may only forget its transaction.
LEMMA TrackedKept ==
  ASSUME NEW c \in Callers, Tracked(c),
         stage'[c] = stage[c], pc'[c] = pc[c], result'[c] = result[c],
         reply'[c] = reply[c], ops'[c] = ops[c],
         \A t \in Known' : t.by = c => t \in Known,
         \A t \in indexed : t \in indexed' /\ executed'[t] = executed[t]
  PROVE  Tracked(c)'
<1>1. Tx(c)' = Tx(c) /\ Unsent(c)' = Unsent(c)
  BY DEF Tx, Unsent
<1>2. (\A t \in Known : t.by = c => t.op <= ops[c] /\ (Unsent(c) => t.op < ops[c]))'
  BY <1>1 DEF Tracked
<1>3. (reply[c].err = "failed" => Tx(c) \in indexed /\ executed[Tx(c)].code # 0)'
  BY <1>1 DEF Tracked
<1> QED
  BY <1>1, <1>2, <1>3 DEF Tracked

\* The step of a transaction, for the caller that takes it.
LEMMA TransactTracked ==
  ASSUME PoolTypeOK, NEW c \in Callers, Tracked(c), Transact(c)
  PROVE  /\ Tracked(c)'
         /\ indexed' = indexed /\ executed' = executed
         /\ \/ mempool' = mempool
            \/ mempool' = Append(mempool, Tx(c)) /\ Tx(c) \notin Known
<1>1. /\ stage[c] = "tx" /\ Proceed(c) /\ CodeChecked(c)
      /\ pc[c] # "idle" /\ result[c] = "none" /\ reply[c].err = "none"
      /\ ops[c] \in Nat /\ TypeOK /\ executed' = executed
  BY DEF Transact, Tracked, PoolTypeOK, TypeOK
<1>2. /\ ops' = ops /\ indexed' = indexed
      /\ pc'[c] # "idle" <=> result'[c] = "none"
      /\ result'[c] \in {"none", "ok", "err"}
      /\ \/ mempool' = mempool
         \/ mempool' = Append(mempool, Tx(c)) /\ pc[c] = "broadcast" /\ pc'[c] \in {"wait", "idle"}
      /\ pc'[c] = "wait" => pc[c] \in {"wait", "broadcast"}
      /\ pc[c] = "wait" => mempool' = mempool /\ pc'[c] \in {"wait", "idle"}
      /\ result'[c] = "err" /\ ErrorOf(c) = "sign" => pc[c] \in {"sign", "query", "set"}
      /\ result'[c] = "err" /\ ErrorOf(c) = "failed" => PollFound(c)
  BY <1>1, TxFlow
<1>3. Tx(c)' = Tx(c) /\ Tx(c).by = c /\ Tx(c).op = ops[c]
  BY <1>2 DEF Tx
<1>4. pc[c] # "wait" => Unsent(c) /\ \A t \in Known : t.by = c => t.op < ops[c]
  BY <1>1 DEF Unsent, Tracked
<1>5. pc[c] # "wait" => Tx(c) \notin Known
  BY <1>1, <1>3, <1>4
<1>6. \A t \in Known' : t \in Known \/ (t = Tx(c) /\ pc[c] = "broadcast" /\ mempool' # mempool)
  <2>1. CASE mempool' = mempool
    BY <1>2, <2>1 DEF Known
  <2>2. CASE mempool' # mempool
    <3>1. mempool' = Append(mempool, Tx(c)) /\ pc[c] = "broadcast"
      BY <1>2, <2>2
    <3>2. mempool \in Seq(Txs) /\ Tx(c) \in Txs
      BY <1>1, TxType DEF TypeOK
    <3>3. ToSet(Append(mempool, Tx(c))) = ToSet(mempool) \cup {Tx(c)}
      BY <3>2, AppendSet
    <3>4. Known' = indexed \cup ToSet(Append(mempool, Tx(c)))
      BY <1>2, <3>1 DEF Known
    <3> QED
      BY <2>2, <3>1, <3>3, <3>4 DEF Known
  <2> QED
    BY <2>1, <2>2
<1>7. /\ \/ result'[c] = "none" /\ reply'[c] = reply[c] /\ stage'[c] = "tx"
         \/ result'[c] = "err" /\ reply'[c].err = ErrorOf(c) /\ stage'[c] = "idle"
         \/ result'[c] = "ok" /\ reply'[c].err \in {"", "event"} /\ stage'[c] = "idle"
         \/ result'[c] = "ok" /\ reply'[c] = reply[c] /\ stage'[c] = "block"
  BY TransactReply
<1>8. Unsent(c)' => pc[c] # "wait" /\ mempool' = mempool
  <2>1. Unsent(c)' <=> reply'[c].err = "sign" \/ (stage'[c] = "tx" /\ pc'[c] # "wait")
    BY DEF Unsent
  <2>2. CASE result'[c] = "none"
    BY <1>1, <1>2, <1>7, <2>1, <2>2
  <2>3. CASE result'[c] = "err"
    BY <1>2, <1>7, <2>1, <2>3
  <2>4. CASE result'[c] = "ok"
    BY <1>1, <1>7, <2>1, <2>4
  <2> QED
    BY <1>2, <2>2, <2>3, <2>4
<1>9. (\A t \in Known : t.by = c => t.op <= ops[c] /\ (Unsent(c) => t.op < ops[c]))'
  <2> SUFFICES ASSUME NEW t \in Known', t.by = c
               PROVE  t.op <= ops[c] /\ (Unsent(c)' => t.op < ops[c])
    BY <1>2
  <2>1. CASE t \in Known
    BY <1>4, <1>8, <2>1 DEF Tracked
  <2>2. CASE t = Tx(c) /\ mempool' # mempool
    BY <1>1, <1>3, <1>8, <2>2
  <2> QED
    BY <1>6, <2>1, <2>2
<1>10. reply'[c].err = "failed" => Tx(c) \in indexed /\ executed[Tx(c)].code # 0
  <2> SUFFICES ASSUME reply'[c].err = "failed"
               PROVE  Tx(c) \in indexed /\ executed[Tx(c)].code # 0
    OBVIOUS
  <2>1. result'[c] = "err" /\ ErrorOf(c) = "failed"
    BY <1>1, <1>7
  <2>2. PollFound(c)
    BY <1>2, <2>1
  <2> QED
    BY <1>1, <2>1, <2>2 DEF PollFound, CodeChecked
<1>11. /\ stage'[c] = "tx" <=> pc'[c] # "idle"
       /\ pc'[c] # "idle" => result'[c] = "none"
       /\ stage'[c] # "idle" => reply'[c].err = "none"
  BY <1>1, <1>2, <1>7
<1>12. Tracked(c)'
  BY <1>1, <1>2, <1>3, <1>9, <1>10, <1>11 DEF Tracked
<1> QED
  BY <1>1, <1>2, <1>5, <1>12

--------------------------------------------------------------------------------
(* The inductive invariant.                                                *)

\* No transaction is pending twice, or pending and in a block.
Distinct == \A i, j \in 1..Len(mempool) : mempool[i] = mempool[j] => i = j
Disjoint == indexed \cap ToSet(mempool) = {}

\* A step in which the node and TxSequence stand still, and one call is answered.
LEMMA AnswerStep ==
  ASSUME PoolTypeOK, \A c \in Callers : Tracked(c), Distinct, Disjoint,
         NEW c \in Callers, stage[c] # "tx",
         NEW r, NEW got \in BOOLEAN, Answer(c, r, got),
         r.err \notin {"sign", "failed"}, UNCHANGED <<vars, executed>>
  PROVE  (\A d \in Callers : Tracked(d))' /\ Distinct' /\ Disjoint'
<1>1. /\ stage'[c] = "idle" /\ reply'[c] = r
      /\ \A d \in Callers : d # c => reply'[d] = reply[d] /\ stage'[d] = stage[d]
  BY AnswerType
<1>2. UNCHANGED <<pc, result, ops, indexed, mempool, executed>>
  BY DEF vars, callVars, chainVars
<1>3. Known' = Known
  BY <1>2 DEF Known
<1>4. \A d \in Callers : d # c => Tracked(d)'
  BY <1>1, <1>2, <1>3, TrackedKept
<1>5. Tracked(c)'
  <2>1. pc'[c] = "idle" /\ pc[c] = "idle"
    BY <1>2 DEF Tracked
  <2>2. ~ Unsent(c)'
    BY <1>1 DEF Unsent
  <2> QED
    BY <1>1, <1>2, <1>3, <2>1, <2>2 DEF Tracked
<1> QED
  BY <1>2, <1>4, <1>5 DEF Distinct, Disjoint

LEMMA EffectStep ==
  ASSUME PoolTypeOK, \A c \in Callers : Tracked(c), Distinct, Disjoint, [PoolNext]_poolVars
  PROVE  (\A c \in Callers : Tracked(c))' /\ Distinct' /\ Disjoint'
<1> DEFINE Goal == (\A c \in Callers : Tracked(c))' /\ Distinct' /\ Disjoint'
<1>0. /\ TypeOK /\ mempool \in Seq(Txs) /\ ops \in [Callers -> Nat]
      /\ \A c \in Callers : Tx(c) \in Txs
  BY TxType DEF PoolTypeOK, TypeOK
<1>1. ASSUME NEW c \in Callers, Refuse(c) PROVE Goal
  <2>1. /\ stage[c] # "tx" /\ Answer(c, Failed("refused"), FALSE) /\ UNCHANGED <<vars, executed>>
    BY <1>1 DEF Refuse
  <2>2. Failed("refused").err \notin {"sign", "failed"}
    BY DEF Failed
  <2> QED
    BY <2>1, <2>2, AnswerStep
<1>2. ASSUME NEW c \in Callers, Fetch(c) PROVE Goal
  <2>1. stage[c] # "tx" /\ UNCHANGED <<vars, executed>>
    BY <1>2, FetchReply
  <2>2. PICK r, got : /\ got \in BOOLEAN
                      /\ r.err \in {"", "block", "event", "index", "receive"}
                      /\ Answer(c, r, got)
    BY <1>2, FetchReply
  <2> QED
    BY <2>1, <2>2, AnswerStep
<1>3. ASSUME NEW c \in Callers, Transact(c) PROVE Goal
  <2>1. /\ Tracked(c)' /\ indexed' = indexed /\ executed' = executed
        /\ \/ mempool' = mempool
           \/ mempool' = Append(mempool, Tx(c)) /\ Tx(c) \notin Known
    BY <1>3, TransactTracked
  <2>2. /\ ops' = ops
        /\ \A d \in Callers : d # c => pc'[d] = pc[d] /\ result'[d] = result[d]
    <3>1. Proceed(c) /\ (pc[c] # "idle" => result[c] = "none")
      BY <1>3 DEF Transact, Tracked
    <3> QED
      BY <1>0, <3>1, TxFlow
  <2>3. \A d \in Callers : d # c => reply'[d] = reply[d] /\ stage'[d] = stage[d]
    BY <1>3, TransactReply
  <2>4. ToSet(Append(mempool, Tx(c))) = ToSet(mempool) \cup {Tx(c)}
    BY <1>0, AppendSet
  <2>5. \A t \in Known' : t \in Known \/ t = Tx(c)
    BY <2>1, <2>4 DEF Known
  <2>6. Tx(c).by = c
    BY DEF Tx
  <2>7. \A d \in Callers : d # c => Tracked(d)'
    BY <2>1, <2>2, <2>3, <2>5, <2>6, TrackedKept
  <2>8. Distinct' /\ Disjoint'
    <3>1. CASE mempool' = mempool
      BY <2>1, <3>1 DEF Distinct, Disjoint
    <3>2. CASE mempool' = Append(mempool, Tx(c)) /\ Tx(c) \notin Known
      <4>1. Tx(c) \notin ToSet(mempool) /\ Tx(c) \notin indexed
        BY <3>2 DEF Known
      <4>2. Disjoint'
        BY <2>1, <2>4, <3>2, <4>1 DEF Disjoint
      <4>3. Distinct'
        BY <1>0, <3>2, <4>1, AppendSet DEF Distinct
      <4> QED
        BY <4>2, <4>3
    <3> QED
      BY <2>1, <3>1, <3>2
  <2> QED
    BY <2>1, <2>7, <2>8
<1>4. ASSUME NEW c \in Callers, NEW call \in Worlds[world].offered[c], Begin(c, call) PROVE Goal
  <2>1. /\ UNCHANGED <<indexed, mempool, executed>>
        /\ pc[c] = "idle" /\ pc' = [pc EXCEPT ![c] = "lockNext"]
        /\ ops' = [ops EXCEPT ![c] = ops[c] + 1]
        /\ result' = [result EXCEPT ![c] = "none"]
        /\ stage' = [stage EXCEPT ![c] = "tx"]
        /\ reply' = [reply EXCEPT ![c] = None]
    BY <1>4 DEF Begin, Start, Goto, chainVars
  <2>2. /\ DOMAIN reply = Callers /\ stage \in [Callers -> {"idle", "tx", "block"}]
        /\ pc \in [Callers -> Steps]
        /\ result \in [Callers -> {"none", "ok", "sent", "err"}]
    BY DEF PoolTypeOK, TypeOK
  <2>3. Known' = Known
    BY <2>1 DEF Known
  <2>4. \A d \in Callers : d # c =>
          /\ stage'[d] = stage[d] /\ pc'[d] = pc[d] /\ result'[d] = result[d]
          /\ reply'[d] = reply[d] /\ ops'[d] = ops[d]
    BY <1>0, <2>1, <2>2
  <2>5. \A d \in Callers : d # c => Tracked(d)'
    BY <2>1, <2>3, <2>4, TrackedKept
  <2>6. /\ pc'[c] = "lockNext" /\ ops'[c] = ops[c] + 1 /\ result'[c] = "none"
        /\ stage'[c] = "tx" /\ reply'[c] = None /\ ops[c] \in Nat
    BY <1>0, <2>1, <2>2
  <2>7. reply'[c].err = "none"
    BY <2>6 DEF None
  <2>8. \A t \in Known' : t.by = c => t.op <= ops[c]
    BY <2>3 DEF Tracked
  <2>9. \A t \in Known' : t.by = c => t.op \in Nat
    <3>1. Known \subseteq Txs
      <4>1. \A i \in DOMAIN mempool : mempool[i] \in Txs
        BY <1>0, ElementOfSeq, LenProperties
      <4> QED
        BY <1>0, <4>1 DEF Known, ToSet, TypeOK
    <3> QED
      BY <2>3, <3>1 DEF Txs
  <2>10. \A t \in Known' : t.by = c => t.op <= ops'[c] /\ t.op < ops'[c]
    BY <2>6, <2>8, <2>9
  <2>11. Tracked(c)'
    BY <2>6, <2>7, <2>10 DEF Tracked
  <2>12. Distinct' /\ Disjoint'
    BY <2>1 DEF Distinct, Disjoint
  <2> QED
    BY <2>5, <2>11, <2>12
<1>5. CASE Included
  <2>1. PICK n \in 1..Len(mempool) :
          /\ mempool' = SubSeq(mempool, n + 1, Len(mempool))
          /\ indexed' = indexed \cup {mempool[i] : i \in 1..n}
          /\ UNCHANGED <<pc, result, ops>>
    BY <1>5 DEF Included, Block, callVars
  <2>2. /\ UNCHANGED <<stage, reply>>
        /\ \A t \in indexed : executed'[t] = executed[t]
    BY <1>5, <2>1 DEF Included
  <2>3. /\ ToSet(mempool') \cap {mempool[i] : i \in 1..n} = {}
        /\ ToSet(mempool) = ToSet(mempool') \cup {mempool[i] : i \in 1..n}
        /\ Distinct'
    <3>1. /\ ToSet(SubSeq(mempool, n + 1, Len(mempool))) \cap {mempool[i] : i \in 1..n} = {}
          /\ ToSet(mempool) = ToSet(SubSeq(mempool, n + 1, Len(mempool))) \cup {mempool[i] : i \in 1..n}
          /\ \A i, j \in 1..Len(SubSeq(mempool, n + 1, Len(mempool))) :
               SubSeq(mempool, n + 1, Len(mempool))[i] = SubSeq(mempool, n + 1, Len(mempool))[j] => i = j
      BY <1>0, SuffixSet DEF Distinct
    <3> QED
      BY <2>1, <3>1 DEF Distinct
  <2>4. Known' = Known /\ Disjoint'
    BY <2>1, <2>3 DEF Known, Disjoint
  <2>5. \A d \in Callers : Tracked(d)'
    BY <2>1, <2>2, <2>4, TrackedKept
  <2> QED
    BY <2>3, <2>4, <2>5
<1>6. CASE Dropped
  <2>1. PICK n \in 1..Len(mempool) :
          /\ mempool' = SubSeq(mempool, 1, n - 1)
          /\ UNCHANGED <<pc, result, ops, indexed, stage, reply, executed>>
    BY <1>6 DEF Dropped, Evict, callVars
  <2>2. ToSet(mempool') \subseteq ToSet(mempool) /\ Distinct'
    <3>1. /\ ToSet(SubSeq(mempool, 1, n - 1)) \subseteq ToSet(mempool)
          /\ \A i, j \in 1..Len(SubSeq(mempool, 1, n - 1)) :
               SubSeq(mempool, 1, n - 1)[i] = SubSeq(mempool, 1, n - 1)[j] => i = j
      BY <1>0, PrefixSet DEF Distinct
    <3> QED
      BY <2>1, <3>1 DEF Distinct
  <2>3. Known' \subseteq Known /\ Disjoint'
    BY <2>1, <2>2 DEF Known, Disjoint
  <2>4. \A d \in Callers : Tracked(d)'
    BY <2>1, <2>3, TrackedKept
  <2> QED
    BY <2>2, <2>3, <2>4
<1>7. CASE UNCHANGED poolVars
  <2>1. UNCHANGED <<pc, result, ops, indexed, mempool, stage, reply, executed>>
    BY <1>7 DEF poolVars, vars, callVars, chainVars
  <2>2. Known' = Known /\ Distinct' /\ Disjoint'
    BY <2>1 DEF Known, Distinct, Disjoint
  <2>3. \A d \in Callers : Tracked(d)'
    BY <2>1, <2>2, TrackedKept
  <2> QED
    BY <2>2, <2>3
<1> QED
  BY <1>1, <1>2, <1>3, <1>4, <1>5, <1>6, <1>7 DEF PoolNext, PoolDone

LEMMA PoolInitType == PoolInit => PoolTypeOK
<1> SUFFICES ASSUME PoolInit PROVE PoolTypeOK
  OBVIOUS
<1>1. TypeOK /\ indexed = {} /\ ops = [c \in Callers |-> 0]
  BY InitType DEF PoolInit, Init
<1>2. \A S : <<>> \in Seq(S) /\ Len(<<>>) = 0 /\ DOMAIN <<>> = {}
  OBVIOUS
<1>3. /\ calls \in [Callers -> Seq(Calls)]
      /\ \A c \in Callers : calls[c] \in Seq(Worlds[world].offered[c])
      /\ \A c \in Callers : Len(calls[c]) = ops[c]
      /\ DOMAIN executed = indexed
  BY <1>1, <1>2 DEF PoolInit
<1>4. DOMAIN reply = Callers /\ \A c \in Callers : reply[c].err = "none"
  BY DEF PoolInit, None
<1> QED
  BY <1>1, <1>3, <1>4 DEF PoolInit, PoolTypeOK

LEMMA PoolInitEffect == PoolInit => (\A c \in Callers : Tracked(c)) /\ Distinct /\ Disjoint
<1> SUFFICES ASSUME PoolInit PROVE (\A c \in Callers : Tracked(c)) /\ Distinct /\ Disjoint
  OBVIOUS
<1>1. /\ indexed = {} /\ pc = [c \in Callers |-> "idle"]
      /\ mempool = [i \in 1..0 |-> [by |-> "free", op |-> i]]
      /\ stage = [c \in Callers |-> "idle"] /\ reply = [c \in Callers |-> None]
  BY DEF PoolInit, Init
<1>2. mempool = <<>> /\ Len(mempool) = 0 /\ DOMAIN mempool = {}
  BY <1>1
<1>3. Known = {} /\ Distinct /\ Disjoint
  BY <1>1, <1>2 DEF Known, ToSet, Distinct, Disjoint
<1>4. \A c \in Callers : reply[c].err = "none" /\ stage[c] = "idle" /\ pc[c] = "idle"
  BY <1>1 DEF None
<1> QED
  BY <1>3, <1>4 DEF Tracked

LEMMA EffectInvStep == EffectInv /\ [PoolNext]_poolVars => EffectInv'
<1> SUFFICES ASSUME EffectInv, [PoolNext]_poolVars PROVE EffectInv'
  OBVIOUS
<1>1. PoolTypeOK /\ (\A c \in Callers : Tracked(c)) /\ Distinct /\ Disjoint
  BY DEF EffectInv, Distinct, Disjoint
<1>2. PoolTypeOK'
  BY <1>1, PoolTypeStep
<1>3. (\A c \in Callers : Tracked(c))' /\ Distinct' /\ Disjoint'
  BY <1>1, EffectStep
<1> QED
  BY <1>2, <1>3 DEF EffectInv, Distinct, Disjoint

\* EffectInv is inductive: the node holds no transaction of a call before the call
\* sends it, holds none twice, and what a block executed stays executed.
THEOREM EffectInductive == PoolSpec => []EffectInv
<1>1. EffectInv <=> PoolTypeOK /\ (\A c \in Callers : Tracked(c)) /\ Distinct /\ Disjoint
  BY DEF EffectInv, Distinct, Disjoint
<1>2. PoolInit => EffectInv
  BY <1>1, PoolInitType, PoolInitEffect
<1> QED
  BY <1>2, EffectInvStep, PTL DEF PoolSpec

\* The state of a contract client stays well typed: one record of a call per
\* number taken, and a call is answered in one of the ten ways of execute.go.
THEOREM PoolTypeCorrect == PoolSpec => []PoolTypeOK
<1>1. EffectInv => PoolTypeOK
  BY DEF EffectInv
<1> QED
  BY <1>1, EffectInductive, PTL

\* After "sign tx" or "tx failed" the transaction of the call has no effect and
\* can have none later (execute, executeOnBehalfOf, broadcastAndWait).
THEOREM NoEffectErrorsHold == PoolSpec => []NoEffectErrors
<1>1. EffectInv => NoEffectErrors
  <2> SUFFICES ASSUME EffectInv, NEW c \in Callers, reply[c].err \in {"sign", "failed"}
               PROVE  /\ ~ Contains(mempool, Tx(c))
                      /\ Tx(c) \in indexed => executed[Tx(c)].code # 0
    BY DEF NoEffectErrors
  <2>1. /\ Tracked(c) /\ indexed \cap ToSet(mempool) = {} /\ ops[c] \in Nat
        /\ DOMAIN mempool = 1..Len(mempool)
    BY LenProperties DEF EffectInv, PoolTypeOK, TypeOK
  <2>2. Tx(c).by = c /\ Tx(c).op = ops[c]
    BY DEF Tx
  <2>3. CASE reply[c].err = "sign"
    <3>1. Tx(c) \notin Known
      BY <2>1, <2>2, <2>3 DEF Tracked, Unsent
    <3> QED
      BY <2>1, <3>1 DEF Known, Contains, ToSet
  <2>4. CASE reply[c].err = "failed"
    BY <2>1, <2>4 DEF Tracked, Contains, ToSet
  <2> QED
    BY <2>3, <2>4
<1> QED
  BY <1>1, EffectInductive, PTL

--------------------------------------------------------------------------------
(* The searches of PoolEvents.                                             *)

\* Min and Max of the library, on which the searches rest.
LEMMA FirstOf ==
  ASSUME NEW I, I \subseteq Nat, I # {}
  PROVE  Min(I) \in I /\ \A j \in I : Min(I) <= j
<1>1. PICK x \in I : \A y \in I : ~(y < x)
  BY SmallestOf
<1>2. \A y \in I : x <= y
  BY <1>1
<1> QED
  BY <1>2 DEF Min

LEMMA LastOf ==
  ASSUME NEW n \in Nat, NEW I, I \subseteq 1..n, I # {}
  PROVE  Max(I) \in I
<1> DEFINE J == {n - i : i \in I}
<1>1. J \subseteq Nat /\ J # {}
  <2>1. \A i \in I : n - i \in Nat
    OBVIOUS
  <2>2. J \subseteq Nat
    BY <2>1
  <2>3. PICK i : i \in I
    OBVIOUS
  <2>4. n - i \in J
    BY <2>3
  <2> QED
    BY <2>2, <2>4
<1>2. PICK x \in J : \A y \in J : ~(y < x)
  BY <1>1, SmallestOf
<1>3. PICK m \in I : x = n - m
  BY <1>2
<1>4. \A j \in I : m >= j
  <2> SUFFICES ASSUME NEW j \in I PROVE m >= j
    OBVIOUS
  <2>1. ~(n - j < n - m)
    BY <1>2, <1>3
  <2>2. m \in Nat /\ j \in Nat
    BY <1>3
  <2> QED
    BY <2>1, <2>2
<1> QED
  BY <1>4 DEF Max

\* The value of an event under a key that all its attributes with the key agree on.
LEMMA AttrOf ==
  ASSUME NEW e, Len(e) \in Nat, NEW keys, NEW k \in keys, NEW v,
         \A i \in 1..Len(e) : e[i].key = k => e[i].value = v,
         \E i \in 1..Len(e) : e[i].key = k
  PROVE  EventAttrs(e, keys)[k] = v
<1> DEFINE I == {i \in 1..Len(e) : e[i].key = k}
<1>1. I \subseteq 1..Len(e) /\ I # {}
  OBVIOUS
<1>2. Max(I) \in I
  BY <1>1, LastOf
<1>3. Max(I) \in Nat /\ Max(I) # 0
  BY <1>2
<1>4. EventAttrs(e, keys)[k] = e[Max(I)].value
  BY <1>1, <1>3 DEF EventAttrs, SelectLastInSeq
<1> QED
  BY <1>2, <1>4

\* txIndexInBlock: an index is that of the transaction, and is found if there is one.
LEMMA TxIndexIs ==
  ASSUME NEW block, NEW hash, Len(block.txs) \in Nat
  PROVE  /\ TxIndex(block, hash) # 0 =>
              TxIndex(block, hash) \in 1..Len(block.txs) /\ block.txs[TxIndex(block, hash)] = hash
         /\ (\E i \in 1..Len(block.txs) : block.txs[i] = hash) => TxIndex(block, hash) # 0
<1> DEFINE I == {i \in 1..Len(block.txs) : block.txs[i] = hash}
<1>1. TxIndex(block, hash) = IF I # {} THEN Min(I) ELSE 0
  BY DEF TxIndex, SelectInSeq
<1>2. I # {} => Min(I) \in I
  <2>1. I \subseteq Nat
    OBVIOUS
  <2> HIDE DEF I
  <2> QED
    BY <2>1, FirstOf
<1> QED
  BY <1>1, <1>2

\* What findWasmActionEvent compares.
ActionName(e) == EventAttrs(e, {AttrActionName})[AttrActionName]

\* findWasmActionEvent: an event that is found has the action, and one is found if
\* there is one.
LEMMA FindActionIs ==
  ASSUME NEW tx, NEW action, Len(FlatEvents(tx)) \in Nat
  PROVE  /\ FindAction(tx, action) # 0 =>
              /\ FindAction(tx, action) \in 1..Len(FlatEvents(tx))
              /\ ActionName(FlatEvents(tx)[FindAction(tx, action)]) = <<action>>
         /\ (\E i \in 1..Len(FlatEvents(tx)) : ActionName(FlatEvents(tx)[i]) = <<action>>) =>
              FindAction(tx, action) # 0
<1> DEFINE I == {i \in 1..Len(FlatEvents(tx)) : ActionName(FlatEvents(tx)[i]) = <<action>>}
<1>1. FindAction(tx, action) = IF I # {} THEN Min(I) ELSE 0
  BY DEF FindAction, SelectInSeq, ActionName
<1>2. I # {} => Min(I) \in I
  <2>1. I \subseteq Nat
    OBVIOUS
  <2> HIDE DEF I
  <2> QED
    BY <2>1, FirstOf
<1> QED
  BY <1>1, <1>2

\* The logs of a response are missing or hold all its events.
LEMMA FlattenSmall ==
  /\ FlattenSeq(<<>>) = <<>>
  /\ \A x : FlattenSeq(<<x>>) = x
<1>1. FlattenSeq(<<>>) = <<>>
  BY DEF FlattenSeq
<1>2. ASSUME NEW x PROVE FlattenSeq(<<x>>) = x
  <2> DEFINE s == <<x>>
  <2> DEFINE Eq(f) == f = [i \in 1..Len(s) |-> IF i = 1 THEN s[i] ELSE f[i - 1] \o s[i]]
  <2> DEFINE g == [i \in 1..1 |-> x]
  <2>1. Len(s) = 1 /\ s[1] = x
    OBVIOUS
  <2> HIDE DEF s
  <2>2. Eq(g)
    BY <2>1
  <2>3. Eq(CHOOSE f : Eq(f))
    BY <2>2
  <2> DEFINE h == CHOOSE f : Eq(f)
  <2>4. h = [i \in 1..1 |-> IF i = 1 THEN s[i] ELSE h[i - 1] \o s[i]]
    BY <2>1, <2>3
  <2> HIDE DEF h
  <2>5. h[1] = x
    BY <2>1, <2>4
  <2>6. FlattenSeq(s) = h[1]
    BY <2>1 DEF FlattenSeq, h
  <2> QED
    BY <2>5, <2>6 DEF s
<1> QED
  BY <1>1, <1>2

\* TxResponseFirstAttribute, when the first attribute of all has the key.
LEMMA FirstAttributeIs ==
  ASSUME NEW tx, NEW key, Len(FlatEvents(tx)) \in Nat \ {0},
         Len(FlatEvents(tx)[1]) \in Nat \ {0}, FlatEvents(tx)[1][1].key = key
  PROVE  FirstAttribute(tx, key) = FlatEvents(tx)[1][1].value
<1> DEFINE all == FlatEvents(tx)
           Find(e) == SelectInSeq(e, LAMBDA a : a.key = key)
           J == {i \in 1..Len(all[1]) : all[1][i].key = key}
           I == {i \in 1..Len(all) : Find(all[i]) # 0}
<1>1. \A K : K \subseteq Nat \ {0} /\ 1 \in K => Min(K) = 1
  <2> SUFFICES ASSUME NEW K, K \subseteq Nat \ {0}, 1 \in K PROVE Min(K) = 1
    OBVIOUS
  <2>1. K \subseteq Nat /\ K # {}
    OBVIOUS
  <2>2. Min(K) \in K /\ \A j \in K : Min(K) <= j
    BY <2>1, FirstOf
  <2>3. Min(K) \in Nat \ {0} /\ Min(K) <= 1
    BY <2>2
  <2> QED
    BY <2>3
<1>2. Find(all[1]) = 1
  <2>1. J \subseteq Nat \ {0} /\ 1 \in J
    OBVIOUS
  <2>2. Min(J) = 1
    BY <1>1, <2>1
  <2>3. Find(all[1]) = IF J # {} THEN Min(J) ELSE 0
    BY DEF SelectInSeq
  <2> QED
    BY <2>1, <2>2, <2>3
<1>3. SelectInSeq(all, LAMBDA e : Find(e) # 0) = 1
  <2>1. I \subseteq Nat \ {0} /\ 1 \in I
    <3> HIDE DEF Find, all
    <3>1. Find(all[1]) # 0 /\ Len(all) \in Nat \ {0}
      BY <1>2 DEF all
    <3> QED
      BY <3>1
  <2>2. Min(I) = 1
    BY <1>1, <2>1
  <2>3. SelectInSeq(all, LAMBDA e : Find(e) # 0) = IF I # {} THEN Min(I) ELSE 0
    BY DEF SelectInSeq
  <2> QED
    BY <2>1, <2>2, <2>3
<1> QED
  BY <1>2, <1>3 DEF FirstAttribute

--------------------------------------------------------------------------------
(* The events of a transaction.                                            *)

\* Those of the call's own message and those of other contracts.
Owned(t) == {OwnEvents(t)[i] : i \in 1..Len(OwnEvents(t))}
Others(t) == {ActionEvent("other", action, "other", t) :
                action \in {executed[t].before, executed[t].after} \ {"none"}}

\* Where the items of two sequences stand in their concatenation.
LEMMA ConcatMembers ==
  ASSUME NEW S, NEW r \in Seq(S), NEW s \in Seq(S)
  PROVE  /\ r \o s \in Seq(S) /\ Len(r \o s) = Len(r) + Len(s)
         /\ Len(r) \in Nat /\ Len(s) \in Nat
         /\ \A i \in 1..Len(r) : (r \o s)[i] = r[i]
         /\ \A i \in 1..Len(s) : Len(r) + i \in 1..Len(r \o s) /\ (r \o s)[Len(r) + i] = s[i]
<1>1. Len(r) \in Nat /\ Len(s) \in Nat
  BY LenProperties
<1>2. /\ r \o s \in Seq(S) /\ Len(r \o s) = Len(r) + Len(s)
      /\ \A i \in 1..(Len(r) + Len(s)) : (r \o s)[i] = IF i <= Len(r) THEN r[i] ELSE s[i - Len(r)]
  BY ConcatProperties
<1>3. \A i \in 1..Len(r) : (r \o s)[i] = r[i]
  BY <1>1, <1>2
<1>4. \A i \in 1..Len(s) : /\ Len(r) + i \in 1..(Len(r) + Len(s)) /\ ~(Len(r) + i <= Len(r))
                           /\ Len(r) + i - Len(r) = i
  BY <1>1
<1> QED
  BY <1>1, <1>2, <1>3, <1>4

\* Wherever the node puts the events, they are those of the call's own message and
\* of other contracts, and all of the former are there.
LEMMA EventsAre ==
  ASSUME NEW t, OwnEvents(t) \in Seq(Owned(t)), OwnEvents(t) # <<>>
  PROVE  LET all == FlatEvents(TxResponse(t)) IN
         /\ all \in Seq(Owned(t) \cup Others(t)) /\ Len(all) \in Nat \ {0}
         /\ \A e \in Owned(t) : \E i \in 1..Len(all) : all[i] = e
         /\ Base(Content(t)) => all[1] = OwnEvents(t)[1]
<1> DEFINE S == Owned(t) \cup Others(t)
           own == OwnEvents(t)
           before == IF Base(Content(t)) THEN <<>> ELSE Foreign(t, executed[t].before)
           after == Foreign(t, executed[t].after)
           all == before \o own \o after
           flat == FlatEvents(TxResponse(t))
<1>1. own \in Seq(S) /\ <<>> \in Seq(S) /\ Len(own) \in Nat \ {0}
  <2>1. own \in Seq(S)
    BY SeqMonotonic
  <2> QED
    BY <2>1, EmptySeq, LenProperties
<1>2. \A a \in {executed[t].before, executed[t].after} : Foreign(t, a) \in Seq(S)
  <2> SUFFICES ASSUME NEW a \in {executed[t].before, executed[t].after}
               PROVE  Foreign(t, a) \in Seq(S)
    OBVIOUS
  <2>1. CASE a = "none"
    BY <1>1, <2>1 DEF Foreign
  <2>2. CASE a # "none"
    <3>1. ActionEvent("other", a, "other", t) \in S
      BY <2>2 DEF Others
    <3>2. \A x \in S : <<x>> \in Seq(S)
      <4> HIDE DEF S
      <4> QED
        OBVIOUS
    <3> QED
      BY <2>2, <3>1, <3>2 DEF Foreign
  <2> QED
    BY <2>1, <2>2
<1>3. before \in Seq(S) /\ after \in Seq(S)
  BY <1>1, <1>2
<1>4. \A e \in Owned(t) : \E i \in 1..Len(own) : own[i] = e
  BY DEF Owned
<1>5. TxResponse(t).events = (IF executed[t].layout = "logs" THEN <<>> ELSE all)
      /\ TxResponse(t).logs = (IF executed[t].layout = "events" THEN <<>> ELSE <<all>>)
  BY DEF TxResponse
<1>6. Base(Content(t)) => before = <<>>
  OBVIOUS
<1> HIDE DEF own, before, after, S
<1>7. /\ all \in Seq(S) /\ Len(all) \in Nat \ {0}
      /\ \A e \in Owned(t) : \E i \in 1..Len(all) : all[i] = e
      /\ Base(Content(t)) => all[1] = own[1]
  <2> DEFINE front == before \o own
  <2>1. /\ front \in Seq(S) /\ Len(front) = Len(before) + Len(own) /\ Len(before) \in Nat
        /\ \A i \in 1..Len(own) : Len(before) + i \in 1..Len(front) /\ front[Len(before) + i] = own[i]
    BY <1>1, <1>3, ConcatMembers
  <2>2. Base(Content(t)) => Len(before) = 0
    BY <1>6
  <2> HIDE DEF front
  <2>3. /\ front \o after \in Seq(S) /\ Len(front \o after) = Len(front) + Len(after)
        /\ Len(front) \in Nat /\ Len(after) \in Nat
        /\ \A i \in 1..Len(front) : (front \o after)[i] = front[i]
    <3>1. front \in Seq(S) /\ after \in Seq(S)
      BY <1>3, <2>1
    <3> QED
      BY <3>1, ConcatMembers
  <2>4. all = front \o after
    BY DEF front
  <2>5. \A i \in 1..Len(own) : Len(before) + i \in 1..Len(all) /\ all[Len(before) + i] = own[i]
    <3>1. Len(front \o after) \in Nat /\ Len(front) <= Len(front \o after)
      BY <2>3
    <3>2. \A j \in 1..Len(front) : j \in 1..Len(front \o after)
      BY <2>3, <3>1
    <3> QED
      BY <2>1, <2>3, <2>4, <3>2
  <2>6. Base(Content(t)) => all[1] = own[1]
    <3>1. 1 \in 1..Len(own)
      BY <1>1
    <3> QED
      BY <2>2, <2>5, <3>1
  <2>7. Len(all) \in Nat \ {0}
    BY <1>1, <2>1, <2>3, <2>4
  <2>8. \A e \in Owned(t) : \E i \in 1..Len(all) : all[i] = e
    BY <1>4, <2>5
  <2> QED
    BY <2>3, <2>4, <2>6, <2>7, <2>8
<1> HIDE DEF all
<1>8. flat = all \/ flat = all \o all
  <2>1. flat = TxResponse(t).events \o FlattenSeq(TxResponse(t).logs)
    BY DEF FlatEvents
  <2>2. FlattenSeq(TxResponse(t).logs) = IF executed[t].layout = "events" THEN <<>> ELSE all
    BY <1>5, FlattenSmall
  <2>3. all \o <<>> = all /\ <<>> \o all = all
    BY <1>7, ConcatEmptySeq
  <2> QED
    BY <1>5, <2>1, <2>2, <2>3
<1> HIDE DEF flat
<1>9. CASE flat = all
  BY <1>7, <1>9 DEF flat, own, S
<1>10. CASE flat = all \o all
  <2>1. /\ flat \in Seq(S) /\ Len(flat) = Len(all) + Len(all)
        /\ \A i \in 1..Len(all) : flat[i] = all[i]
    BY <1>7, <1>10, ConcatMembers
  <2>2. Len(flat) \in Nat \ {0} /\ \A i \in 1..Len(all) : i \in 1..Len(flat)
    BY <1>7, <2>1
  <2>3. 1 \in 1..Len(all)
    BY <1>7
  <2> QED
    BY <1>7, <2>1, <2>2, <2>3 DEF flat, own, S
<1> QED
  BY <1>8, <1>9, <1>10

--------------------------------------------------------------------------------
(* The event of an action.                                                 *)

FieldSet == {Fields[i] : i \in DOMAIN Fields}

\* A function on 1..n is a sequence of length n.
LEMMA LenOfFunction ==
  ASSUME NEW S, NEW n \in Nat, NEW s \in [1..n -> S]
  PROVE  s \in Seq(S) /\ Len(s) = n
<1>1. s \in Seq(S)
  BY SeqDef
<1>2. Len(s) \in Nat /\ DOMAIN s = 1..Len(s)
  BY <1>1, LenProperties
<1>3. \A l, m \in Nat : 1..l = 1..m => l = m
  <2> SUFFICES ASSUME NEW l \in Nat, NEW m \in Nat, 1..l = 1..m, l < m PROVE FALSE
    OBVIOUS
  <2>1. m \in 1..m /\ m \notin 1..l
    OBVIOUS
  <2> QED
    BY <2>1
<1> QED
  BY <1>1, <1>2, <1>3

\* What the attributes of an event of an action give under any keys of a parser.
LEMMA ActionEventIs ==
  ASSUME NEW contract, NEW action, NEW who, NEW t
  PROVE  LET e == ActionEvent(contract, action, who, t) IN
         /\ ActionName(e) = <<action>>
         /\ \A keys : \A k \in keys :
              /\ k \in FieldSet => EventAttrs(e, keys)[k] = Value(who, t, k)
              /\ k = AttrContractAddress => EventAttrs(e, keys)[k] = <<contract>>
<1> DEFINE e == ActionEvent(contract, action, who, t)
           head == <<Attr(AttrContractAddress, <<contract>>), Attr(AttrActionName, <<action>>)>>
           rest == [i \in DOMAIN Fields |-> Attr(Fields[i], Value(who, t, Fields[i]))]
           S == {head[1], head[2]} \cup {rest[i] : i \in DOMAIN Fields}
<1>1. DOMAIN Fields = 1..14 /\ Len(Fields) = 14
  BY DEF Fields
<1>2. \A i \in 1..14 : Fields[i] # AttrContractAddress /\ Fields[i] # AttrActionName
  BY DEF Fields, AttrContractAddress, AttrActionName
<1>3. head \in Seq(S) /\ Len(head) = 2
  OBVIOUS
<1>4. rest \in Seq(S) /\ Len(rest) = 14
  <2>1. rest \in [1..14 -> S] /\ 14 \in Nat
    BY <1>1
  <2> HIDE DEF rest, S
  <2>2. PICK n \in Nat : n = 14
    OBVIOUS
  <2>3. rest \in [1..n -> S]
    BY <2>1, <2>2
  <2>4. rest \in Seq(S) /\ Len(rest) = n
    BY <2>3, LenOfFunction
  <2> QED
    BY <2>2, <2>4
<1>5. \A i \in 1..14 : rest[i] = Attr(Fields[i], Value(who, t, Fields[i]))
  BY <1>1
<1>6. head[1] = Attr(AttrContractAddress, <<contract>>) /\ head[2] = Attr(AttrActionName, <<action>>)
  OBVIOUS
<1>7. e = head \o rest
  BY DEF ActionEvent
<1> HIDE DEF e, head, rest, S
<1>8. /\ Len(e) = 16
      /\ \A i \in 1..2 : e[i] = head[i]
      /\ \A i \in 1..14 : e[2 + i] = rest[i]
  <2>1. /\ Len(head \o rest) = Len(head) + Len(rest)
        /\ \A i \in 1..Len(head) : (head \o rest)[i] = head[i]
        /\ \A i \in 1..Len(rest) : (head \o rest)[Len(head) + i] = rest[i]
    <3>1. head \in Seq(S) /\ rest \in Seq(S)
      BY <1>3, <1>4
    <3> QED
      BY <3>1, ConcatMembers
  <2>2. Len(head) = 2 /\ Len(rest) = 14
    BY <1>3, <1>4
  <2>3. Len(e) = 16
    BY <1>7, <2>1, <2>2
  <2>4. (\A i \in 1..2 : e[i] = head[i]) /\ \A i \in 1..14 : e[2 + i] = rest[i]
    BY <1>7, <2>1, <2>2
  <2> QED
    BY <2>3, <2>4
<1>9. \A i \in 1..16 : i = 1 \/ i = 2 \/ (i - 2 \in 1..14 /\ 2 + (i - 2) = i)
  OBVIOUS
<1>10. /\ e[1].key = AttrContractAddress /\ e[1].value = <<contract>>
       /\ e[2].key = AttrActionName /\ e[2].value = <<action>>
       /\ \A i \in 1..14 : e[2 + i].key = Fields[i] /\ e[2 + i].value = Value(who, t, Fields[i])
  <2>1. \A k, v : Attr(k, v).key = k /\ Attr(k, v).value = v
    BY DEF Attr
  <2>2. \A i \in 1..2 : e[i] = head[i]
    BY <1>8
  <2>3. \A i \in 1..14 : e[2 + i] = Attr(Fields[i], Value(who, t, Fields[i]))
    BY <1>5, <1>8
  <2> QED
    BY <1>6, <2>1, <2>2, <2>3
<1>11. \A i \in 1..Len(e) :
         \/ e[i].key = AttrContractAddress /\ e[i].value = <<contract>>
         \/ e[i].key = AttrActionName /\ e[i].value = <<action>>
         \/ e[i].key \in FieldSet /\ e[i].value = Value(who, t, e[i].key)
  <2> SUFFICES ASSUME NEW i \in 1..16
               PROVE  \/ e[i].key = AttrContractAddress /\ e[i].value = <<contract>>
                      \/ e[i].key = AttrActionName /\ e[i].value = <<action>>
                      \/ e[i].key \in FieldSet /\ e[i].value = Value(who, t, e[i].key)
    BY <1>8
  <2>1. CASE i = 1 \/ i = 2
    BY <1>10, <2>1
  <2>2. CASE i - 2 \in 1..14 /\ 2 + (i - 2) = i
    <3>1. Fields[i - 2] \in FieldSet
      BY <1>1, <2>2 DEF FieldSet
    <3>2. e[i].key = Fields[i - 2] /\ e[i].value = Value(who, t, Fields[i - 2])
      BY <1>10, <2>2
    <3> QED
      BY <3>1, <3>2
  <2> QED
    BY <1>9, <2>1, <2>2
<1>12. /\ AttrContractAddress \notin FieldSet /\ AttrActionName \notin FieldSet
       /\ AttrContractAddress # AttrActionName
  BY <1>1, <1>2 DEF FieldSet, AttrContractAddress, AttrActionName
<1>13. Len(e) \in Nat
  BY <1>8
<1>14. ActionName(e) = <<action>>
  <2>1. \E i \in 1..Len(e) : e[i].key = AttrActionName
    BY <1>8, <1>10
  <2>2. ASSUME NEW i \in 1..Len(e), e[i].key = AttrActionName PROVE e[i].value = <<action>>
    <3>1. e[i].key # AttrContractAddress /\ e[i].key \notin FieldSet
      BY <1>12, <2>2
    <3>2. \/ e[i].key = AttrContractAddress /\ e[i].value = <<contract>>
          \/ e[i].key = AttrActionName /\ e[i].value = <<action>>
          \/ e[i].key \in FieldSet /\ e[i].value = Value(who, t, e[i].key)
      BY <1>11
    <3> QED
      BY <3>1, <3>2
  <2> DEFINE v == <<action>>
             k == AttrActionName
             keys == {AttrActionName}
  <2>3. k \in keys
    OBVIOUS
  <2>4. \A i \in 1..Len(e) : e[i].key = k => e[i].value = v
    BY <2>2
  <2>5. \E i \in 1..Len(e) : e[i].key = k
    BY <2>1
  <2> HIDE DEF v, k, keys
  <2>6. EventAttrs(e, keys)[k] = v
    BY <1>13, <2>3, <2>4, <2>5, AttrOf
  <2> QED
    BY <2>6 DEF ActionName, v, k, keys
<1>15. ASSUME NEW keys, NEW k \in keys, k \in FieldSet
       PROVE  EventAttrs(e, keys)[k] = Value(who, t, k)
  <2>1. \E i \in 1..Len(e) : e[i].key = k
    <3>1. PICK i \in 1..14 : k = Fields[i]
      BY <1>1, <1>15 DEF FieldSet
    <3>2. 2 + i \in 1..Len(e) /\ e[2 + i].key = k
      BY <1>8, <1>10, <3>1
    <3> QED
      BY <3>2
  <2>2. \A i \in 1..Len(e) : e[i].key = k => e[i].value = Value(who, t, k)
    BY <1>11, <1>12, <1>15
  <2> QED
    BY <1>13, <2>1, <2>2, AttrOf
<1>16. ASSUME NEW keys, AttrContractAddress \in keys
       PROVE  EventAttrs(e, keys)[AttrContractAddress] = <<contract>>
  <2>1. \E i \in 1..Len(e) : e[i].key = AttrContractAddress
    BY <1>8, <1>10
  <2>2. \A i \in 1..Len(e) : e[i].key = AttrContractAddress => e[i].value = <<contract>>
    BY <1>11, <1>12
  <2> DEFINE v == <<contract>>
             k == AttrContractAddress
  <2>3. /\ Len(e) \in Nat /\ k \in keys
        /\ \A i \in 1..Len(e) : e[i].key = k => e[i].value = v
        /\ \E i \in 1..Len(e) : e[i].key = k
    BY <1>13, <1>16, <2>1, <2>2
  <2> HIDE DEF v, k
  <2>4. EventAttrs(e, keys)[k] = v
    BY <2>3, AttrOf
  <2> QED
    BY <2>4 DEF v, k
<1> QED
  BY <1>14, <1>15, <1>16 DEF e

--------------------------------------------------------------------------------
(* The tables.                                                             *)

\* Every field a parser reads is one of those the contract writes.
LEMMA ParserFields ==
  \A p \in DOMAIN Parsers : Parsers[p].fields \subseteq FieldSet
<1>1. \A p \in DOMAIN LoanParsers : LoanParsers[p].fields \subseteq FieldSet
  BY DEF LoanParsers, Row, Amounts, FieldSet, Fields
<1>2. \A p \in DOMAIN SettingParsers : SettingParsers[p].fields \subseteq FieldSet
  BY DEF SettingParsers, Row, Amounts, FieldSet, Fields
<1>3. \A p \in DOMAIN ExitParsers : ExitParsers[p].fields \subseteq FieldSet
  BY DEF ExitParsers, Row, Amounts, FieldSet, Fields
<1> QED
  BY <1>1, <1>2, <1>3 DEF Parsers, Joined

\* What a message with this builder makes the pool do is what the parser looks for.
Fits(uses) ==
  /\ uses.parse \in DOMAIN Parsers /\ uses.parse # "ParseCw20ReceiveResponse"
  /\ Variant[uses.build] # "receive"
  /\ Parsers[uses.parse].action = IF Variant[uses.build] = "send" THEN "withdraw" ELSE Variant[uses.build]

\* Every row of the table of methods, and of those on behalf of a granter.
LEMMA MethodsFit ==
  /\ \A m \in DOMAIN Methods \ {"Receive"} : Fits(Methods[m])
  /\ \A m \in DOMAIN ForMethods \ {"Receive"} : Fits(ForMethods[m])
<1>1. \A p \in DOMAIN LoanParsers : p \in DOMAIN Parsers /\ Parsers[p] = LoanParsers[p]
  BY DEF Parsers, Joined
<1>2. \A p \in DOMAIN SettingParsers : p \in DOMAIN Parsers /\ Parsers[p] = SettingParsers[p]
  <2>1. \A p \in DOMAIN SettingParsers : p \notin DOMAIN LoanParsers
    BY DEF LoanParsers, SettingParsers
  <2> QED
    BY <2>1 DEF Parsers, Joined
<1>3. \A p \in DOMAIN ExitParsers : p \in DOMAIN Parsers /\ Parsers[p] = ExitParsers[p]
  <2>1. \A p \in DOMAIN ExitParsers : p \notin DOMAIN LoanParsers /\ p \notin DOMAIN SettingParsers
    BY DEF LoanParsers, SettingParsers, ExitParsers
  <2> QED
    BY <2>1 DEF Parsers, Joined
<1> DEFINE Acts(p, a) ==
             p \in DOMAIN Parsers /\ p # "ParseCw20ReceiveResponse" /\ Parsers[p].action = a
<1>4. /\ Acts("parseLend", "lend") /\ Acts("parseBorrow", "borrow")
      /\ Acts("parseRepay", "repay") /\ Acts("parseAddCollateral", "add_collateral")
      /\ Acts("parseLiquidate", "liquidate")
  BY <1>1 DEF LoanParsers, Row
<1>5. /\ Acts("parseRemoveCollateral", "remove_collateral")
      /\ Acts("parseSetBorrowerRequiredAttrs", "set_borrower_required_attrs")
      /\ Acts("parseSetLenderRequiredAttrs", "set_lender_required_attrs")
      /\ Acts("parseSetLenderRequireCommitOnExit", "set_lender_require_commit_on_exit")
      /\ Acts("parseSetOperationalState", "set_operational_state")
      /\ Acts("parseUpdateContractConfig", "update_contract_config")
      /\ Acts("parseUpdateRateParams", "update_rate_params")
  BY <1>2 DEF SettingParsers, Row
<1>6. /\ Acts("parseUpdateSupportedCollateral", "update_supported_collateral")
      /\ Acts("parseWithdraw", "withdraw") /\ Acts("parseWithdrawReserve", "withdraw_reserve")
  BY <1>3 DEF ExitParsers, Row
<1> HIDE DEF Acts
<1>7. ASSUME NEW b, NEW p, Variant[b] \notin {"receive", "send"}, Acts(p, Variant[b])
      PROVE  Fits(Uses(b, p))
  BY <1>7 DEF Fits, Uses, Acts
<1>8. ASSUME NEW b, NEW p, Variant[b] = "send", Acts(p, "withdraw")
      PROVE  Fits(Uses(b, p))
  BY <1>8 DEF Fits, Uses, Acts
<1>9. \A m \in DOMAIN LoanMethods \ {"Receive"} : Fits(LoanMethods[m])
  <2>1. /\ Fits(Uses("execLend", "parseLend")) /\ Fits(Uses("execBorrow", "parseBorrow"))
        /\ Fits(Uses("execRepay", "parseRepay"))
        /\ Fits(Uses("execAddCollateral", "parseAddCollateral"))
        /\ Fits(Uses("execRemoveCollateral", "parseRemoveCollateral"))
        /\ Fits(Uses("execLiquidate", "parseLiquidate"))
    BY <1>4, <1>5, <1>7 DEF Variant
  <2> QED
    BY <2>1 DEF LoanMethods
<1>10. \A m \in DOMAIN SettingMethods : Fits(SettingMethods[m])
  <2>1. /\ Fits(Uses("execUpdateSupportedCollateral", "parseUpdateSupportedCollateral"))
        /\ Fits(Uses("execSetOperationalState", "parseSetOperationalState"))
        /\ Fits(Uses("execSetBorrowerRequiredAttrs", "parseSetBorrowerRequiredAttrs"))
        /\ Fits(Uses("execSetLenderRequiredAttrs", "parseSetLenderRequiredAttrs"))
        /\ Fits(Uses("execSetLenderRequireCommitOnExit", "parseSetLenderRequireCommitOnExit"))
        /\ Fits(Uses("execUpdateContractConfig", "parseUpdateContractConfig"))
        /\ Fits(Uses("execUpdateRateParams", "parseUpdateRateParams"))
        /\ Fits(Uses("execWithdraw", "parseWithdraw"))
        /\ Fits(Uses("execWithdrawReserve", "parseWithdrawReserve"))
    BY <1>5, <1>6, <1>7 DEF Variant
  <2> QED
    BY <2>1 DEF SettingMethods
<1>11. \A m \in DOMAIN Cw20Methods : Fits(Cw20Methods[m])
  <2>1. Fits(Uses("buildCw20SendWithdrawExecuteJSON", "parseWithdraw"))
    BY <1>6, <1>8 DEF Variant
  <2> QED
    BY <2>1 DEF Cw20Methods
<1>12. \A m \in DOMAIN ForMethods \ {"Receive"} :
         \/ m \in DOMAIN LoanMethods \ {"Receive"} /\ ForMethods[m] = LoanMethods[m]
         \/ m \in DOMAIN SettingMethods /\ ForMethods[m] = SettingMethods[m]
  <2> HIDE DEF Acts
  <2> QED
    BY DEF ForMethods, LoanMethods, SettingMethods
<1> QED
  BY <1>9, <1>10, <1>11, <1>12 DEF Methods, Joined

\* The actions that a receive may end in.
Hooks == {Parsers[ReceiveOrder[i]].action : i \in 1..4}

\* A call has a parser that fits its builder, or is a receive, or needs no block.
LEMMA CallCases ==
  ASSUME NEW call \in Calls
  PROVE  \/ Base(call) /\ call.for = "self"
         \/ /\ ~Base(call) /\ call.method = "Receive"
            /\ MethodOf(call).parse = "ParseCw20ReceiveResponse"
            /\ ActionOf(call) = call.hook /\ call.hook \in Hooks
         \/ /\ ~Base(call) /\ Fits(MethodOf(call))
            /\ Parsers[MethodOf(call).parse].action = ActionOf(call)
            /\ call.method = "WithdrawViaRepoCw20Send" => call.for = "self" /\ ActionOf(call) = "withdraw"
<1>1. \/ call \in [method : DOMAIN Methods, for : {"self"}, hook : {"none"}] /\ call.method # "Receive"
      \/ call \in [method : DOMAIN ForMethods, for : {"granter"}, hook : {"none"}] /\ call.method # "Receive"
      \/ call \in [method : {"StoreWasm", "InstantiateContract"}, for : {"self"}, hook : {"none"}]
      \/ call \in [method : {"Receive"}, for : {"self", "granter"}, hook : Hooks]
  BY DEF Calls, Hooks
<1>2. /\ Methods["Receive"] = Uses("execReceive", "ParseCw20ReceiveResponse")
      /\ ForMethods["Receive"] = Uses("execReceive", "ParseCw20ReceiveResponse")
      /\ Methods["WithdrawViaRepoCw20Send"] = Uses("buildCw20SendWithdrawExecuteJSON", "parseWithdraw")
  <2>1. /\ "Receive" \in DOMAIN LoanMethods
        /\ LoanMethods["Receive"] = Uses("execReceive", "ParseCw20ReceiveResponse")
    BY DEF LoanMethods
  <2>2. ForMethods["Receive"] = Uses("execReceive", "ParseCw20ReceiveResponse")
    BY DEF ForMethods
  <2>3. /\ "WithdrawViaRepoCw20Send" \notin DOMAIN LoanMethods
        /\ "WithdrawViaRepoCw20Send" \notin DOMAIN SettingMethods
        /\ "WithdrawViaRepoCw20Send" \in DOMAIN Cw20Methods
        /\ Cw20Methods["WithdrawViaRepoCw20Send"] = Uses("buildCw20SendWithdrawExecuteJSON", "parseWithdraw")
    BY DEF LoanMethods, SettingMethods, Cw20Methods
  <2> QED
    BY <2>1, <2>2, <2>3 DEF Methods, Joined
<1>3. /\ Variant["execReceive"] = "receive"
      /\ Variant["buildCw20SendWithdrawExecuteJSON"] = "send"
  BY DEF Variant
<1>4. \A uses : Fits(uses) =>
         Parsers[uses.parse].action = LET v == Variant[uses.build]
                                      IN  CASE v = "receive" -> call.hook [] v = "send" -> "withdraw" [] OTHER -> v
  BY DEF Fits
<1>5. \A b, p : Uses(b, p).build = b /\ Uses(b, p).parse = p
  BY DEF Uses
<1>6. CASE call \in [method : {"StoreWasm", "InstantiateContract"}, for : {"self"}, hook : {"none"}]
  BY <1>6 DEF Base
<1>7. CASE call \in [method : {"Receive"}, for : {"self", "granter"}, hook : Hooks]
  <2>1. call.method = "Receive" /\ call.hook \in Hooks /\ ~Base(call)
    BY <1>7 DEF Base
  <2>2. MethodOf(call) = Uses("execReceive", "ParseCw20ReceiveResponse")
    BY <1>2, <2>1 DEF MethodOf
  <2> QED
    BY <1>3, <1>5, <2>1, <2>2 DEF ActionOf
<1>8. ASSUME ~Base(call), Fits(MethodOf(call)), call.method = "WithdrawViaRepoCw20Send" => call.for = "self"
      PROVE  /\ ~Base(call) /\ Fits(MethodOf(call))
             /\ Parsers[MethodOf(call).parse].action = ActionOf(call)
             /\ call.method = "WithdrawViaRepoCw20Send" => call.for = "self" /\ ActionOf(call) = "withdraw"
  <2>1. Parsers[MethodOf(call).parse].action = ActionOf(call)
    BY <1>4, <1>8 DEF ActionOf
  <2>2. call.method = "WithdrawViaRepoCw20Send" => ActionOf(call) = "withdraw"
    BY <1>2, <1>3, <1>5, <1>8 DEF ActionOf, MethodOf
  <2> QED
    BY <1>8, <2>1, <2>2
<1>9. CASE call \in [method : DOMAIN Methods, for : {"self"}, hook : {"none"}] /\ call.method # "Receive"
  <2>1. Fits(MethodOf(call)) /\ call.for = "self"
    BY <1>9, MethodsFit DEF MethodOf
  <2>2. ~Base(call)
    <3>1. "StoreWasm" \notin DOMAIN Methods /\ "InstantiateContract" \notin DOMAIN Methods
      BY DEF Methods, Joined, LoanMethods, SettingMethods, Cw20Methods
    <3> QED
      BY <1>9, <3>1 DEF Base
  <2> QED
    BY <1>8, <2>1, <2>2
<1>10. CASE call \in [method : DOMAIN ForMethods, for : {"granter"}, hook : {"none"}] /\ call.method # "Receive"
  <2>1. Fits(MethodOf(call))
    BY <1>10, MethodsFit DEF MethodOf
  <2>2. ~Base(call) /\ call.method # "WithdrawViaRepoCw20Send"
    <3>1. /\ "StoreWasm" \notin DOMAIN ForMethods /\ "InstantiateContract" \notin DOMAIN ForMethods
          /\ "WithdrawViaRepoCw20Send" \notin DOMAIN ForMethods
      BY DEF ForMethods
    <3> QED
      BY <1>10, <3>1 DEF Base
  <2> QED
    BY <1>8, <2>1, <2>2
<1> QED
  BY <1>1, <1>6, <1>7, <1>9, <1>10

\* The events of the call's own message.
LEMMA OwnedIs ==
  ASSUME NEW t, Content(t) \in Calls
  PROVE  LET call == Content(t) IN
         /\ OwnEvents(t) \in Seq(Owned(t)) /\ OwnEvents(t) # <<>>
         /\ ~Base(call) =>
              /\ ActionEvent("pool", ActionOf(call), call.for, t) \in Owned(t)
              /\ \A e \in Owned(t) : \/ e = ActionEvent("pool", ActionOf(call), call.for, t)
                                    \/ e = ActionEvent("repo", "send", "self", t)
<1> DEFINE call == Content(t)
           own == OwnEvents(t)
           pool == ActionEvent("pool", ActionOf(call), call.for, t)
           repo == ActionEvent("repo", "send", "self", t)
<1>1. \/ Base(call) /\ \E e : own = <<e>>
      \/ ~Base(call) /\ own = <<repo, pool>>
      \/ ~Base(call) /\ own = <<pool>>
  <2>1. CASE call.method = "StoreWasm"
    BY <2>1 DEF OwnEvents, Base
  <2>2. CASE call.method = "InstantiateContract"
    BY <2>2 DEF OwnEvents, Base
  <2>3. CASE call.method = "WithdrawViaRepoCw20Send"
    <3>1. ~Base(call)
      BY <2>3 DEF Base
    <3>2. call.for = "self" /\ ActionOf(call) = "withdraw"
      <4>1. call.method # "Receive"
        BY <2>3
      <4> QED
        BY <2>3, <3>1, <4>1, CallCases
    <3>3. own = <<repo, ActionEvent("pool", "withdraw", "self", t)>>
      BY <2>3 DEF OwnEvents
    <3> QED
      BY <3>1, <3>2, <3>3
  <2>4. CASE call.method \notin {"StoreWasm", "InstantiateContract", "WithdrawViaRepoCw20Send"}
    <3>1. own = <<pool>>
      BY <2>4 DEF OwnEvents, SenderOf
    <3> QED
      BY <2>4, <3>1 DEF Base
  <2> QED
    BY <2>1, <2>2, <2>3, <2>4
<1>2. Owned(t) = {own[i] : i \in 1..Len(own)}
  BY DEF Owned
<1> HIDE DEF own, pool, repo
<1>3. \A x : /\ <<x>> \in Seq({x}) /\ <<x>> # <<>> /\ Len(<<x>>) = 1 /\ <<x>>[1] = x
  OBVIOUS
<1>4. \A x, y : /\ <<x, y>> \in Seq({x, y}) /\ <<x, y>> # <<>> /\ Len(<<x, y>>) = 2
                /\ <<x, y>>[1] = x /\ <<x, y>>[2] = y
  OBVIOUS
<1>5. CASE Base(call) /\ \E e : own = <<e>>
  <2>1. PICK e : own = <<e>>
    BY <1>5
  <2>2. Owned(t) = {e}
    BY <1>2, <1>3, <2>1
  <2> QED
    BY <1>3, <1>5, <2>1, <2>2 DEF own
<1>6. CASE ~Base(call) /\ own = <<repo, pool>>
  <2>1. Len(own) = 2 /\ own[1] = repo /\ own[2] = pool /\ own \in Seq({repo, pool}) /\ own # <<>>
    BY <1>4, <1>6
  <2>2. Owned(t) = {repo, pool}
    BY <1>2, <2>1
  <2> QED
    BY <2>1, <2>2 DEF own, pool, repo
<1>7. CASE ~Base(call) /\ own = <<pool>>
  <2>1. Owned(t) = {pool}
    BY <1>2, <1>3, <1>7
  <2> QED
    BY <1>3, <1>7, <2>1 DEF own, pool, repo
<1> QED
  BY <1>1, <1>5, <1>6, <1>7

\* What a parser makes of a transaction: the place of the transaction in the
\* block and, if no other contract reports the action, the contract's values.
Says(t, p, r, block) ==
  /\ block.height # 0 /\ r.height = block.height
  /\ r.index \in 1..Len(block.txs) /\ block.txs[r.index] = t
  /\ r.action = Parsers[p].action
  /\ Parsers[p].action \notin {executed[t].before, executed[t].after} =>
       /\ Parsers[p].action = ActionOf(Content(t))
       /\ \A k \in DOMAIN r.attrs :
            \/ r.attrs[k] = Value(Content(t).for, t, k)
            \/ k = AttrContractAddress /\ r.attrs[k] = <<"pool">>

\* The repo contract's own event is none that a parser looks for.
LEMMA NoParserSends == \A p \in DOMAIN Parsers : Parsers[p].action # "send"
<1>1. \A p \in DOMAIN LoanParsers : LoanParsers[p].action # "send"
  BY DEF LoanParsers, Row
<1>2. \A p \in DOMAIN SettingParsers : SettingParsers[p].action # "send"
  BY DEF SettingParsers, Row
<1>3. \A p \in DOMAIN ExitParsers : ExitParsers[p].action # "send"
  BY DEF ExitParsers, Row
<1> QED
  BY <1>1, <1>2, <1>3 DEF Parsers, Joined

\* A parser that answers says so, and the one that fits the call answers when the
\* transaction is in the block.
LEMMA ParsedIs ==
  ASSUME NEW t, Content(t) \in Calls, ~Base(Content(t)),
         NEW block, Len(block.txs) \in Nat, NEW p \in DOMAIN Parsers
  PROVE  LET r == Parsed(TxResponse(t), block, p) IN
         /\ r.err = "" => Says(t, p, r, block)
         /\ /\ block.height # 0 /\ \E i \in 1..Len(block.txs) : block.txs[i] = t
            /\ Parsers[p].action = ActionOf(Content(t))
            => r.err = ""
<1> DEFINE call == Content(t)
           tx == TxResponse(t)
           flat == FlatEvents(tx)
           action == Parsers[p].action
           keys == Parsers[p].fields \cup {AttrContractAddress}
           pool == ActionEvent("pool", ActionOf(call), call.for, t)
           e == FindAction(tx, action)
           n == TxIndex(block, t)
           r == Parsed(tx, block, p)
<1>1. tx.hash = t
  BY DEF TxResponse
<1>2. r = CASE block.height = 0 -> Failed("block")
            [] block.height # 0 /\ e = 0 -> Failed("event")
            [] block.height # 0 /\ e # 0 /\ n = 0 -> Failed("index")
            [] OTHER -> [err |-> "", action |-> action, height |-> block.height,
                         index |-> n, event |-> e, attrs |-> EventAttrs(flat[e], keys)]
  BY <1>1 DEF Parsed
<1>3. /\ pool \in Owned(t)
      /\ \A x \in Owned(t) : x = pool \/ x = ActionEvent("repo", "send", "self", t)
      /\ flat \in Seq(Owned(t) \cup Others(t)) /\ Len(flat) \in Nat
      /\ \A x \in Owned(t) : \E i \in 1..Len(flat) : flat[i] = x
  <2>1. /\ OwnEvents(t) \in Seq(Owned(t)) /\ OwnEvents(t) # <<>>
        /\ pool \in Owned(t)
        /\ \A x \in Owned(t) : x = pool \/ x = ActionEvent("repo", "send", "self", t)
    BY OwnedIs
  <2>2. /\ flat \in Seq(Owned(t) \cup Others(t)) /\ Len(flat) \in Nat \ {0}
        /\ \A x \in Owned(t) : \E i \in 1..Len(flat) : flat[i] = x
    BY <2>1, EventsAre
  <2> QED
    BY <2>1, <2>2
<1>4. /\ e # 0 => e \in 1..Len(flat) /\ ActionName(flat[e]) = <<action>>
      /\ (\E i \in 1..Len(flat) : ActionName(flat[i]) = <<action>>) => e # 0
  BY <1>3, FindActionIs
<1>5. /\ n # 0 => n \in 1..Len(block.txs) /\ block.txs[n] = t
      /\ (\E i \in 1..Len(block.txs) : block.txs[i] = t) => n # 0
  BY TxIndexIs
<1>6. ASSUME block.height # 0, e # 0, n # 0, action \notin {executed[t].before, executed[t].after}
      PROVE  flat[e] = pool /\ action = ActionOf(call)
  <2>1. flat[e] \in Owned(t) \cup Others(t)
    BY <1>3, <1>4, <1>6, ElementOfSeq
  <2>2. \A c, a, w : ActionName(ActionEvent(c, a, w, t)) = <<a>>
    BY ActionEventIs
  <2>3. ASSUME NEW c, NEW a, NEW w, flat[e] = ActionEvent(c, a, w, t) PROVE a = action
    <3>1. <<a>> = <<action>>
      BY <1>4, <1>6, <2>2, <2>3
    <3> QED
      BY <3>1
  <2>4. flat[e] \notin Others(t)
    BY <1>6, <2>3 DEF Others
  <2>5. flat[e] # ActionEvent("repo", "send", "self", t)
    BY <2>3, NoParserSends
  <2>6. flat[e] = pool
    BY <1>3, <2>1, <2>4, <2>5
  <2> QED
    BY <2>3, <2>6
<1>7. pool = ActionEvent("pool", ActionOf(call), call.for, t)
  OBVIOUS
<1>8. /\ ActionName(pool) = <<ActionOf(call)>>
      /\ \A k \in keys : /\ k \in FieldSet => EventAttrs(pool, keys)[k] = Value(call.for, t, k)
                         /\ k = AttrContractAddress => EventAttrs(pool, keys)[k] = <<"pool">>
  BY ActionEventIs
<1>9. keys \subseteq FieldSet \cup {AttrContractAddress}
  BY ParserFields
<1>10. DOMAIN EventAttrs(flat[e], keys) = keys
  BY DEF EventAttrs
<1> HIDE DEF e, n, r, flat, tx, pool, keys, action, call
<1>11. Failed("block").err # "" /\ Failed("event").err # "" /\ Failed("index").err # ""
  BY DEF Failed
<1>12. ASSUME r.err = "" PROVE Says(t, p, r, block)
  <2>1. block.height # 0 /\ e # 0 /\ n # 0
    BY <1>2, <1>11, <1>12
  <2>2. /\ r.height = block.height /\ r.index = n /\ r.action = action
        /\ r.attrs = EventAttrs(flat[e], keys)
    BY <1>2, <2>1
  <2>3. ASSUME action \notin {executed[t].before, executed[t].after}
        PROVE  /\ action = ActionOf(call)
               /\ \A k \in DOMAIN r.attrs : \/ r.attrs[k] = Value(call.for, t, k)
                                            \/ k = AttrContractAddress /\ r.attrs[k] = <<"pool">>
    <3>1. flat[e] = pool /\ action = ActionOf(call)
      BY <1>6, <2>1, <2>3
    <3> QED
      BY <1>8, <1>9, <1>10, <2>2, <3>1
  <2>4. /\ r.index \in 1..Len(block.txs) /\ block.txs[r.index] = t
    BY <1>5, <2>1, <2>2
  <2> QED
    BY <2>1, <2>2, <2>3, <2>4 DEF Says, action, call
<1>13. ASSUME block.height # 0, \E i \in 1..Len(block.txs) : block.txs[i] = t, action = ActionOf(call)
       PROVE  r.err = ""
  <2>1. n # 0
    BY <1>5, <1>13
  <2>2. \E i \in 1..Len(flat) : ActionName(flat[i]) = <<action>>
    BY <1>3, <1>8, <1>13
  <2>3. e # 0
    BY <1>4, <2>2
  <2> QED
    BY <1>2, <1>13, <2>1, <2>3
<1> QED
  BY <1>12, <1>13 DEF r, tx, action, call

\* The parsers that a receive tries are in the table.
LEMMA ReceiveParsers ==
  \A i \in 1..4 : ReceiveOrder[i] \in DOMAIN Parsers
<1>1. \A p \in DOMAIN ExitParsers : p \in DOMAIN Parsers
  BY DEF Parsers, Joined
<1>2. \A i \in 1..4 : ReceiveOrder[i] \in DOMAIN ExitParsers
  BY DEF ReceiveOrder, ExitParsers
<1> QED
  BY <1>1, <1>2

\* The same of the answer to a receive, which tries four parsers in turn.
LEMMA ParsedReceiveIs ==
  ASSUME NEW t, Content(t) \in Calls, ~Base(Content(t)),
         NEW block, Len(block.txs) \in Nat
  PROVE  LET r == ParsedReceive(TxResponse(t), block) IN
         /\ r.err = "" => \E p \in DOMAIN Parsers :
                            Says(t, p, r, block) /\ Parsers[p].action \in Hooks
         /\ /\ block.height # 0 /\ \E i \in 1..Len(block.txs) : block.txs[i] = t
            /\ ActionOf(Content(t)) \in Hooks
            => r.err = ""
<1> DEFINE tx == TxResponse(t)
           Good(p) == Parsed(tx, block, p).err = ""
           I == {i \in 1..Len(ReceiveOrder) : Good(ReceiveOrder[i])}
           n == SelectInSeq(ReceiveOrder, Good)
           r == ParsedReceive(tx, block)
<1>1. n = IF I # {} THEN Min(I) ELSE 0
  BY DEF SelectInSeq
<1>2. n = SelectInSeq(ReceiveOrder, LAMBDA p : Parsed(tx, block, p).err = "")
  BY DEF SelectInSeq
<1>3. r = IF n = 0 THEN Failed("receive") ELSE Parsed(tx, block, ReceiveOrder[n])
  BY <1>2 DEF ParsedReceive
<1>4. Len(ReceiveOrder) = 4
  BY DEF ReceiveOrder
<1>5. n # 0 => n \in I
  <2>1. I \subseteq Nat
    <3> HIDE DEF Good
    <3>1. \A i \in 1..4 : i \in Nat
      OBVIOUS
    <3> QED
      BY <1>4, <3>1
  <2> HIDE DEF I, n
  <2> QED
    BY <1>1, <2>1, FirstOf
<1>6. I # {} => n # 0
  <2>1. I \subseteq Nat /\ 0 \notin I
    <3> HIDE DEF Good
    <3>1. (\A i \in 1..4 : i \in Nat) /\ 0 \notin 1..4
      OBVIOUS
    <3> QED
      BY <1>4, <3>1
  <2> HIDE DEF I, n
  <2> QED
    BY <1>1, <2>1, FirstOf
<1>7. \A i \in I : i \in 1..4 /\ Parsed(tx, block, ReceiveOrder[i]).err = ""
  BY <1>4
<1>8. ASSUME NEW i \in 1..4, block.height # 0, \E j \in 1..Len(block.txs) : block.txs[j] = t,
             ActionOf(Content(t)) = Parsers[ReceiveOrder[i]].action
      PROVE  i \in I
  <2>1. Parsed(tx, block, ReceiveOrder[i]).err = ""
    <3>1. ReceiveOrder[i] \in DOMAIN Parsers
      BY ReceiveParsers
    <3> QED
      BY <1>8, <3>1, ParsedIs
  <2> QED
    BY <1>4, <2>1
<1>9. Failed("receive").err # ""
  BY DEF Failed
<1> HIDE DEF n, I, r
<1>10. ASSUME r.err = ""
       PROVE  \E p \in DOMAIN Parsers : Says(t, p, r, block) /\ Parsers[p].action \in Hooks
  <2>1. n # 0
    BY <1>3, <1>9, <1>10
  <2>2. n \in 1..4 /\ r = Parsed(tx, block, ReceiveOrder[n])
    BY <1>3, <1>5, <1>7, <2>1
  <2>3. ReceiveOrder[n] \in DOMAIN Parsers /\ Parsers[ReceiveOrder[n]].action \in Hooks
    BY <2>2, ReceiveParsers DEF Hooks
  <2>4. Says(t, ReceiveOrder[n], r, block)
    BY <1>10, <2>2, <2>3, ParsedIs
  <2> QED
    BY <2>3, <2>4
<1>11. ASSUME block.height # 0, \E i \in 1..Len(block.txs) : block.txs[i] = t,
              ActionOf(Content(t)) \in Hooks
       PROVE  r.err = ""
  <2>1. PICK i \in 1..4 : ActionOf(Content(t)) = Parsers[ReceiveOrder[i]].action
    BY <1>11 DEF Hooks
  <2>2. n # 0
    BY <1>6, <1>8, <1>11, <2>1
  <2> QED
    BY <1>3, <1>5, <1>7, <2>2
<1> QED
  BY <1>10, <1>11 DEF r

\* Of the answer to any call that reads its block.
LEMMA ParseIs ==
  ASSUME NEW c, Content(Tx(c)) \in Calls, ~Base(Content(Tx(c))),
         NEW block, Len(block.txs) \in Nat
  PROVE  LET r == Parse(c, block)
             t == Tx(c)
         IN
         /\ r.err = "" => \E p \in DOMAIN Parsers :
                            /\ Says(t, p, r, block)
                            /\ Parsers[p].action \in Candidates(Content(t))
         /\ block.height # 0 /\ (\E i \in 1..Len(block.txs) : block.txs[i] = t) => r.err = ""
<1> DEFINE t == Tx(c)
           call == Content(t)
           parser == MethodOf(call).parse
<1>1. CASE /\ call.method = "Receive" /\ parser = "ParseCw20ReceiveResponse"
           /\ ActionOf(call) \in Hooks
  <2>1. Parse(c, block) = ParsedReceive(TxResponse(t), block)
    BY <1>1 DEF Parse
  <2>2. Candidates(call) = Hooks
    BY <1>1 DEF Candidates, Hooks
  <2>3. LET r == ParsedReceive(TxResponse(t), block) IN
        /\ r.err = "" => \E p \in DOMAIN Parsers :
                           Says(t, p, r, block) /\ Parsers[p].action \in Hooks
        /\ /\ block.height # 0 /\ \E i \in 1..Len(block.txs) : block.txs[i] = t
           /\ ActionOf(Content(t)) \in Hooks
           => r.err = ""
    BY ParsedReceiveIs
  <2>4. ActionOf(Content(t)) \in Hooks
    BY <1>1
  <2> HIDE DEF parser, call
  <2> QED
    BY <2>1, <2>2, <2>3, <2>4 DEF call
<1>2. CASE Fits(MethodOf(call)) /\ Parsers[parser].action = ActionOf(call)
  <2>1. parser \in DOMAIN Parsers /\ parser # "ParseCw20ReceiveResponse"
    BY <1>2 DEF Fits
  <2>2. Parse(c, block) = Parsed(TxResponse(t), block, parser)
    BY <2>1 DEF Parse
  <2>3. Candidates(call) = {Parsers[parser].action}
    BY <2>1 DEF Candidates
  <2>4. LET r == Parsed(TxResponse(t), block, parser) IN
        /\ r.err = "" => Says(t, parser, r, block)
        /\ /\ block.height # 0 /\ \E i \in 1..Len(block.txs) : block.txs[i] = t
           /\ Parsers[parser].action = ActionOf(Content(t))
           => r.err = ""
    <3> HIDE DEF parser
    <3>1. Content(t) \in Calls /\ ~Base(Content(t)) /\ parser \in DOMAIN Parsers
      BY <2>1
    <3> HIDE DEF t
    <3> QED
      BY <3>1, ParsedIs
  <2>5. Parsers[parser].action \in Candidates(call)
    BY <2>3
  <2>6. Parsers[parser].action = ActionOf(Content(t))
    BY <1>2
  <2> HIDE DEF parser, call
  <2> QED
    BY <2>1, <2>2, <2>4, <2>5, <2>6 DEF call
<1>3. ~Base(call) /\ call \in Calls
  OBVIOUS
<1> HIDE DEF call
<1>4. \/ call.method = "Receive" /\ parser = "ParseCw20ReceiveResponse" /\ ActionOf(call) \in Hooks
      \/ Fits(MethodOf(call)) /\ Parsers[parser].action = ActionOf(call)
  BY <1>3, CallCases
<1> QED
  BY <1>1, <1>2, <1>4

\* The answer of StoreWasm and InstantiateContract.
LEMMA BaseReplyIs ==
  ASSUME NEW c, Content(Tx(c)) \in Calls, Base(Content(Tx(c)))
  PROVE  /\ BaseReply(c).err = ""
         /\ \A k \in DOMAIN BaseReply(c).attrs :
              BaseReply(c).attrs[k] = Value(Content(Tx(c)).for, Tx(c), k)
<1> DEFINE t == Tx(c)
           call == Content(t)
           key == IF call.method = "StoreWasm" THEN "code_id" ELSE AttrContractAddress
           flat == FlatEvents(TxResponse(t))
           v == FirstAttribute(TxResponse(t), key)
<1>1. call.for = "self"
  <2>1. Base(call) /\ call \in Calls
    OBVIOUS
  <2> QED
    BY <2>1, CallCases
<1>2. /\ OwnEvents(t) \in Seq(Owned(t)) /\ OwnEvents(t) # <<>>
      /\ flat \in Seq(Owned(t) \cup Others(t)) /\ Len(flat) \in Nat \ {0}
      /\ flat[1] = OwnEvents(t)[1]
  <2>1. OwnEvents(t) \in Seq(Owned(t)) /\ OwnEvents(t) # <<>>
    BY OwnedIs
  <2> QED
    BY <2>1, EventsAre
<1>3. /\ Len(OwnEvents(t)[1]) \in Nat \ {0}
      /\ OwnEvents(t)[1][1] = Attr(key, Value("self", t, key))
  <2>1. CASE call.method = "StoreWasm"
    BY <2>1 DEF OwnEvents
  <2>2. CASE call.method = "InstantiateContract"
    BY <2>2 DEF OwnEvents
  <2> QED
    BY <2>1, <2>2 DEF Base
<1>4. Attr(key, Value("self", t, key)).key = key
      /\ Attr(key, Value("self", t, key)).value = Value("self", t, key)
  BY DEF Attr
<1> HIDE DEF flat, key, t
<1>5. v = Value("self", t, key)
  BY <1>2, <1>3, <1>4, FirstAttributeIs DEF flat
<1>6. v # <<>>
  BY <1>5 DEF Value
<1> DEFINE a == [k \in {key} |-> v]
<1>7. BaseReply(c) = [err |-> "", attrs |-> a]
  BY <1>6 DEF BaseReply, key, t
<1> HIDE DEF v
<1>8. DOMAIN a = {key} /\ a[key] = v
  OBVIOUS
<1> HIDE DEF a
<1>10. BaseReply(c).err = "" /\ BaseReply(c).attrs = a
  <2>1. \A x : [err |-> "", attrs |-> x].err = "" /\ [err |-> "", attrs |-> x].attrs = x
    OBVIOUS
  <2> QED
    BY <1>7, <2>1
<1>9. call.for = Content(Tx(c)).for /\ t = Tx(c)
  BY DEF t
<1> HIDE DEF call
<1> QED
  BY <1>1, <1>5, <1>8, <1>9, <1>10

--------------------------------------------------------------------------------
(* The invariant of answers.                                               *)

\* The parts of LocatesOwnTx, ReportsOwnEvent and CommittedIsAnswered that are
\* about one caller.
Locates(c) ==
  Answered(c) =>
    /\ Tx(c) \in indexed /\ executed[Tx(c)].code = 0
    /\ ~Base(Content(Tx(c))) => blocks[reply[c].height][reply[c].index] = Tx(c)

Reports(c) ==
  Answered(c) /\ Unconfused(c) =>
    /\ \A k \in DOMAIN reply[c].attrs :
         \/ reply[c].attrs[k] = Value(Content(Tx(c)).for, Tx(c), k)
         \/ k = AttrContractAddress /\ reply[c].attrs[k] = <<"pool">>
    /\ ~Base(Content(Tx(c))) => reply[c].action = ActionOf(Content(Tx(c)))

Sound(c) ==
  Placed(c) /\ Locates(c) /\ Reports(c) /\ (gotBlock[c] => Answered(c))

\* The blocks, and where the executed transactions are.
Filed ==
  /\ blocks \in Seq(Seq(Txs))
  /\ \A t \in indexed : \E h \in 1..Len(blocks) : Contains(blocks[h], t)

\* AnswerInv, one caller at a time.
LEMMA AnswerInvParts ==
  AnswerInv <=> EffectInv /\ Filed /\ \A c \in Callers : Sound(c)
<1>1. LocatesOwnTx <=> \A c \in Callers : Locates(c)
  BY DEF LocatesOwnTx, Locates
<1>2. ReportsOwnEvent <=> \A c \in Callers : Reports(c)
  BY DEF ReportsOwnEvent, Reports
<1>3. CommittedIsAnswered <=> \A c \in Callers : gotBlock[c] => Answered(c)
  BY DEF CommittedIsAnswered
<1> QED
  BY <1>1, <1>2, <1>3 DEF AnswerInv, Filed, Sound

\* The last call of a caller, once it has one.
LEMMA ContentType ==
  ASSUME PoolTypeOK, NEW c \in Callers, ops[c] > 0
  PROVE  Content(Tx(c)) \in Calls
<1>1. calls[c] \in Seq(Calls) /\ Len(calls[c]) = ops[c] /\ ops[c] \in Nat
  BY DEF PoolTypeOK, TypeOK
<1>2. ops[c] \in 1..Len(calls[c])
  BY <1>1
<1>3. Content(Tx(c)) = calls[c][ops[c]]
  BY DEF Content, Tx
<1> QED
  BY <1>1, <1>2, <1>3, ElementOfSeq

\* A call that a step leaves alone, while blocks are added and what was executed
\* stays executed.
LEMMA SoundKept ==
  ASSUME NEW c \in Callers, Sound(c), Filed,
         stage'[c] = stage[c], reply'[c] = reply[c], gotBlock'[c] = gotBlock[c],
         ops'[c] = ops[c], calls'[c] = calls[c],
         \A t \in indexed : t \in indexed' /\ executed'[t] = executed[t],
         \A h \in 1..Len(blocks) : h \in 1..Len(blocks') /\ blocks'[h] = blocks[h]
  PROVE  Sound(c)'
<1>1. Tx(c)' = Tx(c) /\ Tx(c).by = c
  BY DEF Tx
<1>2. Content(Tx(c))' = Content(Tx(c))
  BY <1>1 DEF Content
<1>3. Answered(c)' = Answered(c)
  BY DEF Answered
<1>4. /\ Answered(c) => Tx(c) \in indexed /\ executed[Tx(c)].code = 0
      /\ stage[c] = "block" => Tx(c) \in indexed /\ executed[Tx(c)].code = 0 /\ ~Base(Content(Tx(c)))
      /\ Answered(c) /\ ~Base(Content(Tx(c))) => reply[c].height \in 1..Len(blocks)
      /\ stage[c] # "idle" \/ Answered(c) => ops[c] > 0
  BY DEF Sound, Placed, Locates
<1>5. Placed(c)'
  BY <1>1, <1>2, <1>3, <1>4 DEF Placed
<1>6. Locates(c)'
  <2>1. Answered(c) /\ ~Base(Content(Tx(c))) => blocks[reply[c].height][reply[c].index] = Tx(c)
    BY DEF Sound, Locates
  <2> QED
    BY <1>1, <1>2, <1>3, <1>4, <2>1 DEF Locates
<1>7. Reports(c)'
  <2>1. Answered(c) => (Unconfused(c)' <=> Unconfused(c))
    BY <1>1, <1>2, <1>4 DEF Unconfused
  <2> QED
    BY <1>1, <1>2, <1>3, <2>1 DEF Sound, Reports
<1>8. (gotBlock[c] => Answered(c))'
  BY <1>3 DEF Sound
<1> QED
  BY <1>5, <1>6, <1>7, <1>8 DEF Sound

\* A call that ends with an error, before its block is at hand.
LEMMA SoundError ==
  ASSUME NEW c \in Callers, stage'[c] \in {"idle", "tx"}, stage'[c] = "idle" \/ ops'[c] > 0,
         reply'[c].err # "", ~gotBlock'[c]
  PROVE  Sound(c)'
<1>1. ~Answered(c)'
  BY DEF Answered
<1> QED
  BY <1>1 DEF Sound, Placed, Locates, Reports

\* A call that is answered out of the whole block of its transaction, or is given
\* another block and no answer.
LEMMA SoundParse ==
  ASSUME PoolTypeOK, Filed, NEW c \in Callers, Sound(c), stage[c] = "block",
         UNCHANGED <<vars, calls, blocks, executed>>,
         NEW block, Len(block.txs) \in Nat, NEW got \in BOOLEAN,
         Answer(c, Parse(c, block), got),
         \/ block = FullBlock(c)
         \/ ~got /\ (block.height = 0 \/ Len(block.txs) = 0)
  PROVE  Sound(c)'
<1> DEFINE t == Tx(c)
           call == Content(t)
           r == Parse(c, block)
<1>1. /\ ops[c] > 0 /\ t \in indexed /\ executed[t].code = 0 /\ ~Base(call)
  BY DEF Sound, Placed
<1>2. call \in Calls
  BY <1>1, ContentType
<1>3. /\ r.err = "" => \E p \in DOMAIN Parsers :
                         Says(t, p, r, block) /\ Parsers[p].action \in Candidates(call)
      /\ block.height # 0 /\ (\E i \in 1..Len(block.txs) : block.txs[i] = t) => r.err = ""
  BY <1>1, <1>2, ParseIs
<1>4. stage'[c] = "idle" /\ reply'[c] = r /\ gotBlock'[c] = got
  BY DEF Answer, PoolTypeOK
<1>5. /\ UNCHANGED <<ops, calls, indexed, executed, blocks>>
      /\ Tx(c)' = t /\ Tx(c).by = c
  BY DEF vars, callVars, chainVars, Tx
<1>6. Content(Tx(c))' = call
  BY <1>5 DEF Content
<1> HIDE DEF r, call
<1>7. CASE block = FullBlock(c)
  <2> DEFINE h == HeightOf(t)
  <2>1. h \in 1..Len(blocks) /\ Contains(blocks[h], t)
    BY <1>1 DEF HeightOf, Filed
  <2> HIDE DEF h
  <2>2. block = [height |-> h, txs |-> blocks[h]]
    BY <1>7 DEF FullBlock, h
  <2>3. block.height = h /\ block.txs = blocks[h]
    BY <2>2
  <2>4. blocks[h] \in Seq(Txs)
    BY <2>1, ElementOfSeq DEF Filed
  <2>5. \E i \in 1..Len(blocks[h]) : blocks[h][i] = t
    BY <2>1, <2>4, LenProperties DEF Contains
  <2>6. h # 0
    BY <2>1
  <2>7. r.err = ""
    BY <1>3, <2>3, <2>5, <2>6
  <2>8. PICK p \in DOMAIN Parsers : Says(t, p, r, block) /\ Parsers[p].action \in Candidates(call)
    BY <1>3, <2>7
  <2>9. r.height = h /\ blocks[r.height][r.index] = t /\ r.action = Parsers[p].action
    BY <2>3, <2>8 DEF Says
  <2>10. Answered(c)'
    BY <1>4, <2>7 DEF Answered
  <2>11. Placed(c)'
    BY <1>1, <1>4, <1>5, <1>6, <2>1, <2>9, <2>10 DEF Placed
  <2>12. Locates(c)'
    BY <1>1, <1>4, <1>5, <1>6, <2>9, <2>10 DEF Locates
  <2>13. Reports(c)'
    <3>1. Unconfused(c)' => {executed[t].before, executed[t].after} \cap Candidates(call) = {}
      BY <1>1, <1>5, <1>6 DEF Unconfused
    <3>2. Unconfused(c)' => Parsers[p].action \notin {executed[t].before, executed[t].after}
      BY <2>8, <3>1
    <3>3. Unconfused(c)' =>
            /\ Parsers[p].action = ActionOf(call)
            /\ \A k \in DOMAIN r.attrs : \/ r.attrs[k] = Value(call.for, t, k)
                                         \/ k = AttrContractAddress /\ r.attrs[k] = <<"pool">>
      BY <2>8, <3>2 DEF Says, call
    <3> QED
      BY <1>4, <1>5, <1>6, <2>9, <3>3 DEF Reports
  <2> QED
    BY <1>4, <2>10, <2>11, <2>12, <2>13 DEF Sound
<1>8. CASE ~got /\ (block.height = 0 \/ Len(block.txs) = 0)
  <2>1. \A p \in DOMAIN Parsers : ~Says(t, p, r, block)
    <3>1. \A i \in 1..Len(block.txs) : Len(block.txs) # 0
      OBVIOUS
    <3> QED
      BY <1>8, <3>1 DEF Says
  <2>2. r.err # ""
    BY <1>3, <2>1
  <2> QED
    BY <1>4, <1>8, <2>2, SoundError
<1> QED
  BY <1>7, <1>8

\* The end of a transaction, for the caller whose transaction it is.
LEMMA SoundTransact ==
  ASSUME PoolTypeOK, Filed, NEW c \in Callers, Sound(c), Tracked(c), Transact(c)
  PROVE  Sound(c)'
<1> DEFINE t == Tx(c)
<1>1. /\ stage[c] = "tx" /\ reply[c].err = "none" /\ ops[c] > 0 /\ ~gotBlock[c]
  <2>1. stage[c] = "tx" /\ reply[c].err = "none"
    BY DEF Transact, Tracked
  <2> QED
    BY <2>1 DEF Sound, Placed, Answered
<1>2. /\ Proceed(c) /\ CodeChecked(c) /\ TypeOK /\ (pc[c] # "idle" => result[c] = "none")
      /\ UNCHANGED <<world, calls, blocks, executed>>
  BY DEF Transact, Tracked, PoolTypeOK
<1>3. UNCHANGED <<ops, indexed>> /\ (result'[c] = "ok" => PollFound(c))
  BY <1>2, TxFlow
<1>4. Tx(c)' = t /\ Tx(c).by = c
  BY <1>3 DEF Tx
<1>5. Content(Tx(c))' = Content(t)
  BY <1>2, <1>4 DEF Content
<1>6. Content(t) \in Calls
  BY <1>1, ContentType
<1>7. result'[c] = "ok" => t \in indexed /\ executed[t].code = 0
  BY <1>2, <1>3 DEF PollFound, CodeChecked
<1>8. CASE result'[c] = "none" /\ UNCHANGED <<stage, reply, gotBlock>>
  BY <1>1, <1>3, <1>8, SoundError
<1>9. CASE Answer(c, Failed(ErrorOf(c)), FALSE)
  <2>1. Failed(ErrorOf(c)).err = ErrorOf(c) /\ ErrorOf(c) # ""
    BY DEF Failed, ErrorOf
  <2>2. stage'[c] = "idle" /\ reply'[c] = Failed(ErrorOf(c)) /\ gotBlock'[c] = FALSE
    BY <1>9 DEF Answer, PoolTypeOK
  <2> QED
    BY <2>1, <2>2, SoundError
<1>10. CASE result'[c] = "ok" /\ Base(Content(t)) /\ Answer(c, BaseReply(c), TRUE)
  <2>1. stage'[c] = "idle" /\ reply'[c] = BaseReply(c)
    BY <1>10 DEF Answer, PoolTypeOK
  <2>2. /\ BaseReply(c).err = ""
        /\ \A k \in DOMAIN BaseReply(c).attrs : BaseReply(c).attrs[k] = Value(Content(t).for, t, k)
    BY <1>6, <1>10, BaseReplyIs
  <2>3. Answered(c)'
    BY <2>1, <2>2 DEF Answered
  <2>4. Placed(c)'
    BY <1>1, <1>3, <1>4, <1>5, <1>10, <2>1 DEF Placed
  <2>5. Locates(c)'
    BY <1>2, <1>3, <1>4, <1>5, <1>7, <1>10 DEF Locates
  <2>6. Reports(c)'
    BY <1>4, <1>5, <1>10, <2>1, <2>2 DEF Reports
  <2> QED
    BY <2>3, <2>4, <2>5, <2>6 DEF Sound
<1>11. CASE /\ result'[c] = "ok" /\ ~Base(Content(t))
            /\ stage' = [stage EXCEPT ![c] = "block"] /\ UNCHANGED <<reply, gotBlock>>
  <2>1. stage'[c] = "block"
    BY <1>11 DEF PoolTypeOK
  <2>2. ~Answered(c)'
    BY <1>1, <1>11 DEF Answered
  <2>3. Placed(c)'
    BY <1>1, <1>2, <1>3, <1>4, <1>5, <1>7, <1>11, <2>2 DEF Placed
  <2> QED
    BY <1>1, <1>11, <2>2, <2>3 DEF Sound, Locates, Reports
<1> QED
  BY <1>8, <1>9, <1>10, <1>11 DEF Transact

\* The three ways in which the query of the block ends.
LEMMA SoundFetch ==
  ASSUME PoolTypeOK, Filed, NEW c \in Callers, Sound(c), Fetch(c)
  PROVE  Sound(c)'
<1>1. stage[c] = "block" /\ UNCHANGED <<vars, world, calls, blocks, executed>>
  BY DEF Fetch, FetchBlock, FetchPartialBlock, FetchBlockErr
<1>2. LET full == FullBlock(c) IN
      /\ Len(full.txs) \in Nat
      /\ Len([full EXCEPT !.height = 0].txs) \in Nat /\ [full EXCEPT !.height = 0].height = 0
      /\ Len([full EXCEPT !.txs = <<>>].txs) = 0
  <2> DEFINE h == HeightOf(Tx(c))
  <2>1. Tx(c) \in indexed
    BY <1>1 DEF Sound, Placed
  <2>2. h \in 1..Len(blocks)
    BY <2>1 DEF HeightOf, Filed
  <2>3. blocks[h] \in Seq(Txs)
    BY <2>2, ElementOfSeq DEF Filed
  <2>4. Len(blocks[h]) \in Nat
    BY <2>3, LenProperties
  <2> HIDE DEF h
  <2>5. FullBlock(c) = [height |-> h, txs |-> blocks[h]]
    BY DEF FullBlock, h
  <2>6. Len(<<>>) = 0
    OBVIOUS
  <2> QED
    BY <2>4, <2>5, <2>6
<1>3. CASE FetchBlock(c)
  BY <1>1, <1>2, <1>3, SoundParse DEF FetchBlock
<1>4. CASE FetchPartialBlock(c)
  <2>1. PICK b \in {[FullBlock(c) EXCEPT !.height = 0], [FullBlock(c) EXCEPT !.txs = <<>>]} :
          Answer(c, Parse(c, b), FALSE)
    BY <1>4 DEF FetchPartialBlock
  <2>2. Len(b.txs) \in Nat /\ (b.height = 0 \/ Len(b.txs) = 0)
    <3> DEFINE first == [FullBlock(c) EXCEPT !.height = 0]
               second == [FullBlock(c) EXCEPT !.txs = <<>>]
    <3>1. Len(first.txs) \in Nat /\ first.height = 0 /\ Len(second.txs) = 0
      BY <1>2
    <3>2. b = first \/ b = second
      BY <2>1
    <3>3. 0 \in Nat
      OBVIOUS
    <3> HIDE DEF first, second
    <3> QED
      BY <3>1, <3>2, <3>3
  <2> QED
    BY <1>1, <2>1, <2>2, SoundParse
<1>5. CASE FetchBlockErr(c)
  <2>1. Failed("block").err # ""
    BY DEF Failed
  <2>2. stage'[c] = "idle" /\ reply'[c] = Failed("block") /\ gotBlock'[c] = FALSE
    BY <1>5 DEF FetchBlockErr, Answer, PoolTypeOK
  <2> QED
    BY <2>1, <2>2, SoundError
<1> QED
  BY <1>3, <1>4, <1>5 DEF Fetch

\* A block is added, and it holds the transactions that it executes.
LEMMA FiledStep ==
  ASSUME PoolTypeOK, Filed, Included
  PROVE  /\ Filed'
         /\ \A h \in 1..Len(blocks) : h \in 1..Len(blocks') /\ blocks'[h] = blocks[h]
<1>1. /\ mempool \in Seq(Txs) /\ committed \in Nat /\ blocks \in Seq(Seq(Txs))
      /\ Len(blocks) \in Nat /\ Len(mempool) \in Nat
  BY LenProperties DEF PoolTypeOK, TypeOK, Filed
<1>2. PICK n \in 1..Len(mempool) :
        committed' = committed + n /\ indexed' = indexed \cup {mempool[i] : i \in 1..n}
  BY DEF Included, Block
<1> DEFINE taken == SubSeq(mempool, 1, n)
<1>3. committed' - committed = n
  BY <1>1, <1>2
<1>4. PICK front \in {<<>>, <<Stranger>>} : blocks' = Append(blocks, front \o taken)
  BY <1>3 DEF Included
<1>5. front \in Seq(Txs)
  <2>1. Stranger \in Txs
    BY <1>1 DEF Stranger, Txs
  <2>2. \A S : <<>> \in Seq(S) /\ \A x \in S : <<x>> \in Seq(S)
    OBVIOUS
  <2> QED
    BY <2>1, <2>2
<1>6. taken \in Seq(Txs) /\ Len(taken) = n /\ \A i \in 1..n : taken[i] = mempool[i]
  <2>1. /\ 1 \in Nat \ {0} /\ n \in Nat /\ n <= Len(mempool) /\ 1 <= n + 1
        /\ n + 1 - 1 = n /\ \A i \in 1..n : 1 + i - 1 = i
    BY <1>1
  <2>2. /\ Len(taken) = n + 1 - 1 /\ DOMAIN taken = 1..(n + 1 - 1)
        /\ \A i \in 1..(n + 1 - 1) : taken[i] = mempool[1 + i - 1]
    BY <1>1, <2>1, SubSeqIs
  <2>3. taken \in Seq(Txs)
    BY <1>1, SubSeqProperties
  <2> QED
    BY <2>1, <2>2, <2>3
<1> HIDE DEF taken
<1> DEFINE new == front \o taken
<1>7. new \in Seq(Txs) /\ \A i \in 1..n : Contains(new, mempool[i])
  <2>1. /\ new \in Seq(Txs)
        /\ \A i \in 1..Len(taken) : Len(front) + i \in 1..Len(new) /\ new[Len(front) + i] = taken[i]
    BY <1>5, <1>6, ConcatMembers
  <2> QED
    BY <1>6, <2>1 DEF Contains
<1> HIDE DEF new
<1>8. /\ blocks' \in Seq(Seq(Txs)) /\ Len(blocks') = Len(blocks) + 1
      /\ \A h \in 1..Len(blocks) : blocks'[h] = blocks[h]
      /\ blocks'[Len(blocks) + 1] = new
  BY <1>1, <1>4, <1>7, AppendProperties DEF new
<1>9. \A h \in 1..Len(blocks) : h \in 1..Len(blocks')
  BY <1>1, <1>8
<1>10. Len(blocks) + 1 \in 1..Len(blocks')
  BY <1>1, <1>8
<1>11. ASSUME NEW t \in indexed' PROVE \E h \in 1..Len(blocks') : Contains(blocks'[h], t)
  <2>1. CASE t \in indexed
    <3>1. PICK h \in 1..Len(blocks) : Contains(blocks[h], t)
      BY <2>1 DEF Filed
    <3> QED
      BY <1>8, <1>9, <3>1
  <2>2. CASE t \in {mempool[i] : i \in 1..n}
    BY <1>7, <1>8, <1>10, <2>2
  <2> QED
    BY <1>2, <2>1, <2>2
<1> QED
  BY <1>8, <1>9, <1>11 DEF Filed
\* The parts of the invariant that each step touches.
LEMMA AnswersStep ==
  ASSUME EffectInv, Filed, \A c \in Callers : Sound(c), [PoolNext]_poolVars
  PROVE  Filed' /\ \A c \in Callers : Sound(c)'
<1> DEFINE Goal == Filed' /\ \A c \in Callers : Sound(c)'
<1>0. PoolTypeOK /\ TypeOK /\ \A c \in Callers : Tracked(c)
  BY DEF EffectInv, PoolTypeOK
<1>1. ASSUME NEW c \in Callers, UNCHANGED <<indexed, blocks, executed>>,
             \A d \in Callers : d # c =>
               /\ stage'[d] = stage[d] /\ reply'[d] = reply[d] /\ gotBlock'[d] = gotBlock[d]
               /\ ops'[d] = ops[d] /\ calls'[d] = calls[d],
             Sound(c)'
      PROVE  Goal
  <2>1. Filed'
    BY <1>1 DEF Filed
  <2>2. ASSUME NEW d \in Callers, d # c PROVE Sound(d)'
    <3>1. \A t \in indexed : t \in indexed' /\ executed'[t] = executed[t]
      BY <1>1
    <3>2. \A h \in 1..Len(blocks) : h \in 1..Len(blocks') /\ blocks'[h] = blocks[h]
      BY <1>1
    <3> QED
      BY <1>1, <2>2, <3>1, <3>2, SoundKept
  <2> QED
    BY <1>1, <2>1, <2>2
<1>2. ASSUME NEW c \in Callers, NEW r, NEW got, Answer(c, r, got)
      PROVE  /\ stage'[c] = "idle" /\ reply'[c] = r /\ gotBlock'[c] = got
             /\ \A d \in Callers : d # c =>
                  stage'[d] = stage[d] /\ reply'[d] = reply[d] /\ gotBlock'[d] = gotBlock[d]
  BY <1>0, <1>2 DEF Answer, PoolTypeOK
<1>3. ASSUME NEW c \in Callers, Refuse(c) PROVE Goal
  <2>1. /\ Answer(c, Failed("refused"), FALSE) /\ UNCHANGED <<vars, calls, blocks, executed>>
    BY <1>3 DEF Refuse
  <2>2. UNCHANGED <<ops, indexed>>
    BY <2>1 DEF vars, callVars, chainVars
  <2>3. /\ stage'[c] = "idle" /\ reply'[c] = Failed("refused") /\ gotBlock'[c] = FALSE
        /\ \A d \in Callers : d # c =>
             stage'[d] = stage[d] /\ reply'[d] = reply[d] /\ gotBlock'[d] = gotBlock[d]
    BY <1>2, <2>1
  <2>4. Failed("refused").err # ""
    BY DEF Failed
  <2>5. Sound(c)'
    BY <2>3, <2>4, SoundError
  <2> QED
    BY <1>1, <2>1, <2>2, <2>3, <2>5
<1>4. ASSUME NEW c \in Callers, Transact(c) PROVE Goal
  <2>1. Sound(c)'
    BY <1>0, <1>4, SoundTransact
  <2>2. UNCHANGED <<ops, indexed, calls, blocks, executed>>
    <3>1. Proceed(c) /\ (pc[c] # "idle" => result[c] = "none") /\ UNCHANGED <<calls, blocks, executed>>
      BY <1>0, <1>4 DEF Transact, Tracked
    <3> QED
      BY <1>0, <3>1, TxFlow
  <2>3. \A d \in Callers : d # c =>
          stage'[d] = stage[d] /\ reply'[d] = reply[d] /\ gotBlock'[d] = gotBlock[d]
    <3>1. \/ \E r, got : Answer(c, r, got)
          \/ /\ UNCHANGED <<reply, gotBlock>>
             /\ UNCHANGED stage \/ stage' = [stage EXCEPT ![c] = "block"]
      BY <1>4 DEF Transact
    <3>2. CASE \E r, got : Answer(c, r, got)
      BY <1>2, <3>2
    <3>3. CASE /\ UNCHANGED <<reply, gotBlock>>
               /\ UNCHANGED stage \/ stage' = [stage EXCEPT ![c] = "block"]
      BY <1>0, <3>3 DEF PoolTypeOK
    <3> QED
      BY <3>1, <3>2, <3>3
  <2> QED
    BY <1>1, <2>1, <2>2, <2>3
<1>5. ASSUME NEW c \in Callers, Fetch(c) PROVE Goal
  <2>1. Sound(c)'
    BY <1>0, <1>5, SoundFetch
  <2>2. /\ UNCHANGED <<vars, calls, blocks, executed>> /\ \E r, got : Answer(c, r, got)
    BY <1>5 DEF Fetch, FetchBlock, FetchPartialBlock, FetchBlockErr
  <2>3. UNCHANGED <<ops, indexed>>
    BY <2>2 DEF vars, callVars, chainVars
  <2>4. \A d \in Callers : d # c =>
          stage'[d] = stage[d] /\ reply'[d] = reply[d] /\ gotBlock'[d] = gotBlock[d]
    BY <1>2, <2>2
  <2> QED
    BY <1>1, <2>1, <2>2, <2>3, <2>4
<1>6. ASSUME NEW c \in Callers, NEW call \in Worlds[world].offered[c], Begin(c, call) PROVE Goal
  <2>1. /\ ops' = [ops EXCEPT ![c] = ops[c] + 1] /\ indexed' = indexed
        /\ calls' = [calls EXCEPT ![c] = Append(calls[c], call)]
        /\ stage' = [stage EXCEPT ![c] = "tx"]
        /\ reply' = [reply EXCEPT ![c] = None]
        /\ gotBlock' = [gotBlock EXCEPT ![c] = FALSE]
        /\ UNCHANGED <<blocks, executed>>
    BY <1>6 DEF Begin, Start, chainVars
  <2>2. /\ stage'[c] = "tx" /\ reply'[c] = None /\ gotBlock'[c] = FALSE /\ ops'[c] = ops[c] + 1
        /\ ops[c] \in Nat
        /\ \A d \in Callers : d # c =>
             /\ stage'[d] = stage[d] /\ reply'[d] = reply[d] /\ gotBlock'[d] = gotBlock[d]
             /\ ops'[d] = ops[d] /\ calls'[d] = calls[d]
    BY <1>0, <2>1 DEF PoolTypeOK, TypeOK
  <2>3. reply'[c].err # "" /\ ops'[c] > 0
    BY <2>2 DEF None
  <2>4. Sound(c)'
    BY <2>2, <2>3, SoundError
  <2> QED
    BY <1>1, <2>1, <2>2, <2>4
<1>7. ASSUME UNCHANGED <<calls, stage, reply, gotBlock, ops>>,
             \A t \in indexed : t \in indexed' /\ executed'[t] = executed[t],
             \A h \in 1..Len(blocks) : h \in 1..Len(blocks') /\ blocks'[h] = blocks[h]
      PROVE  \A c \in Callers : Sound(c)'
  BY <1>7, SoundKept
<1>8. CASE Included
  <2>1. /\ UNCHANGED <<calls, stage, reply, gotBlock, ops>>
        /\ \A t \in indexed : t \in indexed' /\ executed'[t] = executed[t]
    BY <1>8 DEF Included, Block, callVars
  <2> QED
    BY <1>0, <1>7, <1>8, <2>1, FiledStep
<1>9. CASE UNCHANGED <<calls, stage, reply, gotBlock, ops, indexed, executed, blocks>>
  BY <1>7, <1>9 DEF Filed
<1>10. CASE Dropped
  BY <1>9, <1>10 DEF Dropped, Evict, callVars
<1>11. CASE UNCHANGED poolVars
  BY <1>9, <1>11 DEF poolVars, vars, callVars, chainVars
<1> QED
  BY <1>3, <1>4, <1>5, <1>6, <1>8, <1>10, <1>11 DEF PoolNext, PoolDone

LEMMA PoolInitAnswers == PoolInit => Filed /\ \A c \in Callers : Sound(c)
<1> SUFFICES ASSUME PoolInit PROVE Filed /\ \A c \in Callers : Sound(c)
  OBVIOUS
<1>1. indexed = {} /\ blocks = <<>>
  BY DEF PoolInit, Init
<1>2. \A S : <<>> \in Seq(S)
  OBVIOUS
<1>3. Filed
  BY <1>1, <1>2 DEF Filed
<1>4. \A c \in Callers : reply[c].err = "none" /\ stage[c] = "idle" /\ ~gotBlock[c]
  BY DEF PoolInit, None
<1>5. \A c \in Callers : ~Answered(c)
  BY <1>4 DEF Answered
<1> QED
  BY <1>3, <1>4, <1>5 DEF Sound, Placed, Locates, Reports

\* AnswerInv is inductive: what an answer says of its transaction and block stays
\* so while the other callers go on and blocks are added.
THEOREM AnswerInductive == PoolSpec => []AnswerInv
<1>1. PoolInit => AnswerInv
  <2>1. PoolInit => EffectInv
    BY PoolInitType, PoolInitEffect DEF EffectInv, Distinct, Disjoint
  <2> QED
    BY <2>1, PoolInitAnswers, AnswerInvParts
<1>2. AnswerInv /\ [PoolNext]_poolVars => AnswerInv'
  <2> SUFFICES ASSUME AnswerInv, [PoolNext]_poolVars PROVE AnswerInv'
    OBVIOUS
  <2>1. EffectInv /\ Filed /\ \A c \in Callers : Sound(c)
    BY AnswerInvParts
  <2>2. EffectInv'
    BY <2>1, EffectInvStep
  <2>3. Filed' /\ \A c \in Callers : Sound(c)'
    BY <2>1, AnswersStep
  <2>4. (AnswerInv <=> EffectInv /\ Filed /\ \A c \in Callers : Sound(c))'
    BY AnswerInvParts, PTL
  <2> QED
    BY <2>2, <2>3, <2>4
<1> QED
  BY <1>1, <1>2, PTL DEF PoolSpec

\* An answered call is committed with code 0, and the height and index it reports
\* are those of its own transaction, whatever the other goroutines do
\* (broadcastAndWait, txIndexInBlock).
THEOREM AnswersLocateTheirTx == PoolSpec => []LocatesOwnTx
<1>1. AnswerInv => LocatesOwnTx
  BY DEF AnswerInv
<1> QED
  BY <1>1, AnswerInductive, PTL

\* The values of an answer are those of the contract's event in the call's own
\* transaction, and a receive is answered in the shape of its hook, unless another
\* contract reports an action that is looked for (findWasmActionEvent, the parsers
\* of responses.go).
THEOREM AnswersReportTheirEvent == PoolSpec => []ReportsOwnEvent
<1>1. AnswerInv => ReportsOwnEvent
  BY DEF AnswerInv
<1> QED
  BY <1>1, AnswerInductive, PTL

\* Every method's parser finds the event that its own message causes, in any layout
\* of the response and among any other events (the methods of execute.go with their
\* builders and parsers).
THEOREM CommittedCallsAreAnswered == PoolSpec => []CommittedIsAnswered
<1>1. AnswerInv => CommittedIsAnswered
  BY DEF AnswerInv
<1> QED
  BY <1>1, AnswerInductive, PTL
================================================================================
