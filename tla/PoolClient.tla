------------------------------ MODULE PoolClient ------------------------------
(***************************************************************************)
(* The contract client of demoprime: execute methods, their twins on behalf *)
(* of a granter, StoreWasm and InstantiateContract.                         *)
(* A call builds a message, runs the transaction of TxSequence to its end,  *)
(* fetches the block it is in and reads the answer out of the events        *)
(* (PoolEvents).                                                            *)
(*                                                                          *)
(* The contract is external.  Executing a message emits one event that      *)
(* holds, for each field of the response, a value naming whom the message   *)
(* was sent for, the transaction and the field.  Other contracts the        *)
(* transaction reaches may emit events before and after it, with actions of *)
(* the same names.                                                          *)
(***************************************************************************)
EXTENDS TxSequence, PoolEvents

CONSTANTS
  Worlds     \* what may happen, by name: the calls that each caller makes, and the
             \* actions that other contracts report

\* whom the call is for: "self", or the granter of a ...For method; and the
\* hook that a Receive carries, one of the four actions it may end in.
Calls ==
  LET Direct == [method : DOMAIN Methods, for : {"self"}, hook : {"none"}]
      Behalf == [method : DOMAIN ForMethods, for : {"granter"}, hook : {"none"}]
      Plain  == [method : {"StoreWasm", "InstantiateContract"}, for : {"self"}, hook : {"none"}]
      Hooked == [method : {"Receive"}, for : {"self", "granter"},
                 hook : {Parsers[ReceiveOrder[i]].action : i \in 1..4}]
  IN  {c \in Direct \cup Behalf \cup Plain : c.method # "Receive"} \cup Hooked

ASSUME PoolAssumption ==
  /\ \A w \in DOMAIN Worlds : Worlds[w].offered \in [Callers -> SUBSET Calls]
  /\ Waiting = Callers /\ Prior = 0

VARIABLES
  world,      \* the one at hand
  calls,      \* per caller: the calls that took a number, by operation
  stage,      \* per caller: "idle", "tx" or "block"
  reply,      \* per caller: how the last call was answered
  gotBlock,   \* history, per caller: the last call had its block at hand
  blocks,     \* chain: the blocks, sequences of transactions
  executed    \* chain: what execution gave for each indexed transaction

poolVars == <<vars, world, calls, stage, reply, gotBlock, blocks, executed>>

None == [err |-> "none"]

PoolInit ==
  /\ Init
  /\ world \in DOMAIN Worlds
  /\ calls = [c \in Callers |-> <<>>]
  /\ stage = [c \in Callers |-> "idle"]
  /\ reply = [c \in Callers |-> None]
  /\ gotBlock = [c \in Callers |-> FALSE]
  /\ blocks = <<>>
  /\ executed = <<>>

Base(call) == call.method \in {"StoreWasm", "InstantiateContract"}
MethodOf(call) ==
  IF call.for = "self" THEN Methods[call.method] ELSE ForMethods[call.method]
Content(t) == calls[t.by][t.op]

--------------------------------------------------------------------------------
(* What the chain makes of a transaction (external).                       *)

Attr(k, v) == [key |-> k, value |-> v]

\* Every field that some response has.
Fields == <<"address", "amount", "borrower", "borrower_required_attrs_json", "collateral_json",
  "lender", "lender_required_attrs_json", "liquidator", "recipient", "require",
  "scaled_amount", "state", "supported_collateral_removed_json",
  "supported_collateral_updated_json">>

\* The action the pool contract takes on a message.
ActionOf(call) ==
  LET v == Variant[MethodOf(call).build]
  IN  CASE v = "receive" -> call.hook
        [] v = "send" -> "withdraw"      \* the repo contract calls the pool's hook
        [] OTHER -> v

\* Mutant of SenderOf: MsgExec carries a message of the grantee itself.
SenderOfGrantee(call) == "self"

\* The sender of MsgExecuteContract: executeOnBehalfOf names the granter.
SenderOf(call) == call.for

Value(who, t, k) == <<who, t, k>>

ActionEvent(contract, action, who, t) ==
  <<Attr(AttrContractAddress, <<contract>>), Attr(AttrActionName, <<action>>)>>
    \o [i \in DOMAIN Fields |-> Attr(Fields[i], Value(who, t, Fields[i]))]

Foreign(t, action) ==
  IF action = "none" THEN <<>> ELSE <<ActionEvent("other", action, "other", t)>>

OwnEvents(t) ==
  LET call == Content(t) IN
  CASE call.method = "StoreWasm" -> <<<<Attr("code_id", Value("self", t, "code_id"))>>>>
    [] call.method = "InstantiateContract" ->
         <<<<Attr(AttrContractAddress, Value("self", t, AttrContractAddress)),
             Attr("code_id", <<"older">>)>>>>
    [] call.method = "WithdrawViaRepoCw20Send" ->
         <<ActionEvent("repo", "send", "self", t), ActionEvent("pool", "withdraw", "self", t)>>
    [] OTHER -> <<ActionEvent("pool", ActionOf(call), SenderOf(call), t)>>

Layouts == {"events", "logs", "both"}
Outcomes ==
  [code : {0}, before : Worlds[world].foreign \cup {"none"}, after : Worlds[world].foreign \cup {"none"},
   layout : Layouts]
    \cup {[code |-> 1, before |-> "none", after |-> "none", layout |-> "events"]}

\* A new contract and new code are reported before any other contract runs.
TxResponse(t) ==
  LET x == executed[t]
      before == IF Base(Content(t)) THEN <<>> ELSE Foreign(t, x.before)
      all == before \o OwnEvents(t) \o Foreign(t, x.after)
  IN  [hash |-> t,
       events |-> IF x.layout = "logs" THEN <<>> ELSE all,
       logs |-> IF x.layout = "events" THEN <<>> ELSE <<all>>]

\* A block also holds transactions of other accounts.
Stranger == [by |-> "free", op |-> Len(blocks)]

Included ==
  /\ Block
  /\ LET taken == SubSeq(mempool, 1, committed' - committed)
     IN  \E front \in {<<>>, <<Stranger>>} : blocks' = Append(blocks, front \o taken)
  /\ \E f \in [indexed' \ indexed -> Outcomes] :
       executed' = [t \in indexed' |-> IF t \in indexed THEN executed[t] ELSE f[t]]
  /\ UNCHANGED <<world, calls, stage, reply, gotBlock>>

HeightOf(t) == CHOOSE h \in 1..Len(blocks) : Contains(blocks[h], t)

Dropped == Evict /\ UNCHANGED <<world, calls, stage, reply, gotBlock, blocks, executed>>

--------------------------------------------------------------------------------
(* A call.                                                                 *)

Answer(c, r, got) ==
  /\ stage' = [stage EXCEPT ![c] = "idle"]
  /\ reply' = [reply EXCEPT ![c] = r]
  /\ gotBlock' = [gotBlock EXCEPT ![c] = got]

\* Mutant of Refuse: the number is taken before the signer is asked for.
RefuseLate(c) ==
  /\ stage[c] = "idle" /\ ops[c] < MaxOps
  /\ Sequence' = Sequence + 1
  /\ ops' = [ops EXCEPT ![c] = @ + 1]
  /\ Answer(c, Failed("refused"), FALSE)
  /\ UNCHANGED <<mu, current, pc, seq, answer, polls, result, chainVars, misses,
                 world, calls, blocks, executed>>

\* RequireSigner or the check of the arguments fails, before a number is taken.
Refuse(c) ==
  /\ stage[c] = "idle" /\ ops[c] < MaxOps
  /\ Answer(c, Failed("refused"), FALSE)
  /\ UNCHANGED <<vars, world, calls, blocks, executed>>

Begin(c, call) ==
  /\ stage[c] = "idle"
  /\ Start(c)
  /\ calls' = [calls EXCEPT ![c] = Append(@, call)]
  /\ stage' = [stage EXCEPT ![c] = "tx"]
  /\ reply' = [reply EXCEPT ![c] = None]
  /\ gotBlock' = [gotBlock EXCEPT ![c] = FALSE]
  /\ UNCHANGED <<world, blocks, executed>>

\* txr.Code decides how an included transaction ends.
CodeChecked(c) ==
  PollFound(c) => (result'[c] = "ok" <=> executed[Tx(c)].code = 0)

\* Mutant of ErrorOf: an error of WaitOnTx is taken for a failed transaction.
ErrorOfMerged(c) ==
  CASE pc[c] \in {"sign", "query", "set"} -> "sign"
    [] pc[c] = "broadcast" -> "broadcast"
    [] OTHER -> "failed"

\* "sign tx", "broadcast", "wait on tx" or "tx failed code=".
ErrorOf(c) ==
  CASE pc[c] \in {"sign", "query", "set"} -> "sign"
    [] pc[c] = "broadcast" -> "broadcast"
    [] pc[c] = "wait" /\ polls[c] = MaxPolls -> "wait"
    [] OTHER -> "failed"

\* StoreWasm and InstantiateContract read one attribute, and need no block.
BaseReply(c) ==
  LET key == IF Content(Tx(c)).method = "StoreWasm" THEN "code_id" ELSE AttrContractAddress
      v == FirstAttribute(TxResponse(Tx(c)), key)
  IN  IF v = <<>> THEN Failed("event") ELSE [err |-> "", attrs |-> [k \in {key} |-> v]]

Transact(c) ==
  /\ stage[c] = "tx"
  /\ Proceed(c)
  /\ CodeChecked(c)
  /\ \/ /\ result'[c] = "none"
        /\ UNCHANGED <<stage, reply, gotBlock>>
     \/ /\ result'[c] = "err"
        /\ Answer(c, Failed(ErrorOf(c)), FALSE)
     \/ /\ result'[c] = "ok" /\ Base(Content(Tx(c)))
        /\ Answer(c, BaseReply(c), TRUE)
     \/ /\ result'[c] = "ok" /\ ~Base(Content(Tx(c)))
        /\ stage' = [stage EXCEPT ![c] = "block"]
        /\ UNCHANGED <<reply, gotBlock>>
  /\ UNCHANGED <<world, calls, blocks, executed>>

Parse(c, block) ==
  LET parser == MethodOf(Content(Tx(c))).parse
  IN  IF parser = "ParseCw20ReceiveResponse"
      THEN ParsedReceive(TxResponse(Tx(c)), block)
      ELSE Parsed(TxResponse(Tx(c)), block, parser)

\* GetBlockByHeight at txr.Height.
FullBlock(c) ==
  LET h == HeightOf(Tx(c)) IN [height |-> h, txs |-> blocks[h]]

FetchBlock(c) ==
  /\ stage[c] = "block"
  /\ Answer(c, Parse(c, FullBlock(c)), TRUE)
  /\ UNCHANGED <<vars, world, calls, blocks, executed>>

\* The node answers without the header or without the transactions.
FetchPartialBlock(c) ==
  /\ stage[c] = "block"
  /\ \E b \in {[FullBlock(c) EXCEPT !.height = 0], [FullBlock(c) EXCEPT !.txs = <<>>]} :
       Answer(c, Parse(c, b), FALSE)
  /\ UNCHANGED <<vars, world, calls, blocks, executed>>

\* The query fails, though the transaction is committed.
FetchBlockErr(c) ==
  /\ stage[c] = "block"
  /\ Answer(c, Failed("block"), FALSE)
  /\ UNCHANGED <<vars, world, calls, blocks, executed>>

Fetch(c) == FetchBlockErr(c) \/ FetchPartialBlock(c) \/ FetchBlock(c)

PoolDone ==
  /\ \A c \in Callers : stage[c] = "idle" /\ (ops[c] = MaxOps \/ Worlds[world].offered[c] = {})
  /\ UNCHANGED poolVars

PoolNext ==
  \/ \E c \in Callers :
       \/ Refuse(c) \/ Transact(c) \/ Fetch(c)
       \/ \E call \in Worlds[world].offered[c] : Begin(c, call)
  \/ Included \/ Dropped
  \/ PoolDone

\* The goroutines run as in TxSequence, and the block query returns.  Nothing is
\* asked of the chain: no call waits for a block without end.
PoolFairness ==
  \A c \in Callers :
    /\ WF_vars(Proceed(c))
    /\ SF_vars(LockNext(c) \/ LockAuth(c) \/ LockSet(c))
    /\ WF_poolVars(Fetch(c))

PoolSpec == PoolInit /\ [][PoolNext]_poolVars /\ PoolFairness

--------------------------------------------------------------------------------
\* The type invariant.
PoolTypeOK ==
  /\ TypeOK
  /\ world \in DOMAIN Worlds
  /\ calls \in [Callers -> Seq(Calls)]
  /\ \A c \in Callers : calls[c] \in Seq(Worlds[world].offered[c])
  /\ \A c \in Callers : Len(calls[c]) = ops[c]
  /\ stage \in [Callers -> {"idle", "tx", "block"}]
  /\ gotBlock \in [Callers -> BOOLEAN]
  /\ DOMAIN executed = indexed
  /\ DOMAIN reply = Callers
  /\ \A c \in Callers : reply[c].err \in
       {"none", "", "refused", "sign", "broadcast", "wait", "failed", "block", "event", "index", "receive"}

Answered(c) == reply[c].err = ""

\* An answered call is committed with code 0, and the height and index it reports
\* are those of its own transaction, whatever else is in the block and whatever
\* the other goroutines of the client are doing (broadcastAndWait, txIndexInBlock).
LocatesOwnTx ==
  \A c \in Callers :
    Answered(c) =>
      /\ Tx(c) \in indexed /\ executed[Tx(c)].code = 0
      /\ ~Base(Content(Tx(c))) => blocks[reply[c].height][reply[c].index] = Tx(c)

\* The actions the parser of a call would take an event for.
Candidates(call) ==
  IF MethodOf(call).parse = "ParseCw20ReceiveResponse"
  THEN {Parsers[ReceiveOrder[i]].action : i \in 1..4}
  ELSE {Parsers[MethodOf(call).parse].action}

\* No other contract reports an action that the parser looks for.
Unconfused(c) ==
  LET x == executed[Tx(c)]
  IN  Base(Content(Tx(c))) \/ {x.before, x.after} \cap Candidates(Content(Tx(c))) = {}

\* Every value of an answer comes from the contract's event in the call's own
\* transaction and concerns the one the call was made for, and a receive is
\* answered in the shape of its hook, unless another contract reports one of the
\* actions that are looked for (findWasmActionEvent does not look at the contract).
ReportsOwnEvent ==
  \A c \in Callers :
    Answered(c) /\ Unconfused(c) =>
      LET call == Content(Tx(c)) IN
      /\ \A k \in DOMAIN reply[c].attrs :
           \/ reply[c].attrs[k] = Value(call.for, Tx(c), k)
           \/ k = AttrContractAddress /\ reply[c].attrs[k] = <<"pool">>
      /\ ~Base(call) => reply[c].action = ActionOf(call)

\* A committed call whose block was fetched whole is answered: every method looks
\* for the action that its own message causes, with whatever the other contracts
\* report and wherever the node puts the events.
CommittedIsAnswered ==
  \A c \in Callers : gotBlock[c] => Answered(c)

\* The errors that say the call did nothing are right about it: after "sign tx"
\* and "tx failed" the transaction has no effect, now or later.  The others
\* leave it open ("broadcast", "wait on tx") or come after it took effect.
NoEffectErrors ==
  \A c \in Callers :
    reply[c].err \in {"sign", "failed"} =>
      /\ ~Contains(mempool, Tx(c))
      /\ Tx(c) \in indexed => executed[Tx(c)].code # 0

\* The transactions that may still take effect, or took it.
Known == indexed \cup ToSet(mempool)

\* The transaction of the last call was not sent to the node, and will not be.
Unsent(c) == reply[c].err = "sign" \/ (stage[c] = "tx" /\ pc[c] # "wait")

\* What is known of the last transaction of a caller and of its error.
Tracked(c) ==
  /\ stage[c] = "tx" <=> pc[c] # "idle"
  /\ pc[c] # "idle" => result[c] = "none"
  /\ stage[c] # "idle" => reply[c].err = "none"
  /\ \A t \in Known : t.by = c => t.op <= ops[c] /\ (Unsent(c) => t.op < ops[c])
  /\ reply[c].err = "failed" => Tx(c) \in indexed /\ executed[Tx(c)].code # 0

\* The inductive invariant behind NoEffectErrors: the node has no transaction of
\* an operation before it is sent, and none twice; what failed stays failed.
EffectInv ==
  /\ PoolTypeOK
  /\ \A c \in Callers : Tracked(c)
  /\ \A i, j \in 1..Len(mempool) : mempool[i] = mempool[j] => i = j
  /\ indexed \cap ToSet(mempool) = {}

\* What is known of the block of the last transaction of a caller, while it is
\* fetched and once the call is answered.
Placed(c) ==
  /\ stage[c] # "idle" \/ Answered(c) => ops[c] > 0
  /\ stage[c] = "block" =>
       Tx(c) \in indexed /\ executed[Tx(c)].code = 0 /\ ~Base(Content(Tx(c)))
  /\ Answered(c) /\ ~Base(Content(Tx(c))) => reply[c].height \in 1..Len(blocks)

\* The inductive invariant behind LocatesOwnTx, ReportsOwnEvent and
\* CommittedIsAnswered: a block is fetched for a transaction that was executed and
\* is in one, and the blocks that answers speak of exist.
AnswerInv ==
  /\ EffectInv
  /\ blocks \in Seq(Seq(Txs))
  /\ \A t \in indexed : \E h \in 1..Len(blocks) : Contains(blocks[h], t)
  /\ \A c \in Callers : Placed(c)
  /\ LocatesOwnTx /\ ReportsOwnEvent /\ CommittedIsAnswered

\* Every call is answered, with a result or an error.
CallEnds == \A c \in Callers : stage[c] # "idle" ~> stage[c] = "idle"
================================================================================
