------------------------------ MODULE PoolEvents ------------------------------
(***************************************************************************)
(* How the pool client reads what a transaction did out of a TxResponse and *)
(* the block it is in: the search for the event with an action, the place   *)
(* of the transaction in the block, and the tables of execute methods,      *)
(* message builders and response parsers, under their names in the code.    *)
(*                                                                          *)
(* An event is a sequence of attributes [key, value]; a transaction         *)
(* response has events and logs, which are sequences of events; a block     *)
(* response has a height, 0 when the header is missing, and the hashes of   *)
(* its transactions.  Values are sequences, and <<>> is the empty string    *)
(* that a Go map gives for a key it does not have.  Indexes start at 1.     *)
(***************************************************************************)
EXTENDS Naturals, SequencesExt

AttrContractAddress == "_contract_address"
AttrActionName == "action"

\* Later attributes with the same key overwrite earlier ones.
EventAttrs(event, keys) ==
  [k \in keys |-> LET i == SelectLastInSeq(event, LAMBDA a : a.key = k)
                  IN  IF i = 0 THEN <<>> ELSE event[i].value]

\* Events first, then those of the logs.
FlatEvents(tx) == tx.events \o FlattenSeq(tx.logs)

\* The first event with the action, whichever contract it comes from; 0: none.
FindAction(tx, action) ==
  SelectInSeq(FlatEvents(tx),
    LAMBDA e : EventAttrs(e, {AttrActionName})[AttrActionName] = <<action>>)

\* Mutant of TxIndex: the hash is not compared.
TxIndexFirst(block, hash) == SelectInSeq(block.txs, LAMBDA h : TRUE)

TxIndex(block, hash) == SelectInSeq(block.txs, LAMBDA h : h = hash)

\* TxResponseFirstAttribute: the first attribute with the key in the first event
\* that has one.
FirstAttribute(tx, key) ==
  LET all == FlatEvents(tx)
      Find(e) == SelectInSeq(e, LAMBDA a : a.key = key)
      i == SelectInSeq(all, LAMBDA e : Find(e) # 0)
  IN  IF i = 0 THEN <<>> ELSE all[i][Find(all[i])].value

--------------------------------------------------------------------------------
(* The parsers: the action each looks for and the fields of its response.  *)

\* The two tables in one (@@ of TLC is a symbol that the prover does not unfold).
Joined(f, g) == [x \in DOMAIN f \cup DOMAIN g |-> IF x \in DOMAIN f THEN f[x] ELSE g[x]]

Row(action, fields) == [action |-> action, fields |-> fields]
Amounts == {"amount", "scaled_amount"}

LoanParsers == [
  parseAddCollateral |-> Row("add_collateral", {"borrower", "collateral_json"}),
  parseBorrow        |-> Row("borrow", {"borrower"} \cup Amounts),
  parseLend          |-> Row("lend", {"lender"} \cup Amounts),
  parseLiquidate     |-> Row("liquidate", {"liquidator", "borrower", "collateral_json"} \cup Amounts),
  parseRepay         |-> Row("repay", {"borrower"} \cup Amounts)]

SettingParsers == [
  parseRemoveCollateral         |-> Row("remove_collateral", {"borrower", "collateral_json"}),
  parseSetBorrowerRequiredAttrs |-> Row("set_borrower_required_attrs", {"borrower_required_attrs_json"}),
  parseSetLenderRequiredAttrs   |-> Row("set_lender_required_attrs", {"lender_required_attrs_json"}),
  parseSetLenderRequireCommitOnExit |->
    Row("set_lender_require_commit_on_exit", {"address", "require"}),
  parseSetOperationalState      |-> Row("set_operational_state", {"state"}),
  parseUpdateContractConfig     |-> Row("update_contract_config", {}),
  parseUpdateRateParams         |-> Row("update_rate_params", {})]

ExitParsers == [
  parseUpdateSupportedCollateral |->
    Row("update_supported_collateral",
        {"supported_collateral_updated_json", "supported_collateral_removed_json"}),
  parseWithdraw        |-> Row("withdraw", {"lender"} \cup Amounts),
  parseWithdrawExact   |-> Row("withdraw_exact", {"lender"} \cup Amounts),
  parseTransfer        |-> Row("transfer", {"lender", "recipient"} \cup Amounts),
  parseTransferExact   |-> Row("transfer_exact", {"lender", "recipient"} \cup Amounts),
  parseWithdrawReserve |-> Row("withdraw_reserve", {"recipient", "amount"})]

Parsers == Joined(LoanParsers, Joined(SettingParsers, ExitParsers))

ReceiveOrder == <<"parseWithdraw", "parseWithdrawExact", "parseTransfer", "parseTransferExact">>

Failed(e) == [err |-> e]

\* txMetadataFrom, with its errors in their order, and the response built on it.
Parsed(tx, block, parser) ==
  LET row == Parsers[parser]
      e == FindAction(tx, row.action)
      i == TxIndex(block, tx.hash)
  IN  CASE block.height = 0 -> Failed("block")
        [] block.height # 0 /\ e = 0 -> Failed("event")
        [] block.height # 0 /\ e # 0 /\ i = 0 -> Failed("index")
        [] OTHER ->
             [err |-> "", action |-> row.action, height |-> block.height,
              index |-> i, event |-> e,
              attrs |-> EventAttrs(FlatEvents(tx)[e], row.fields \cup {AttrContractAddress})]

\* ParseCw20ReceiveResponse: the first parser without an error; the errors of all
\* four are replaced by one.
ParsedReceive(tx, block) ==
  LET i == SelectInSeq(ReceiveOrder, LAMBDA p : Parsed(tx, block, p).err = "")
  IN  IF i = 0 THEN Failed("receive") ELSE Parsed(tx, block, ReceiveOrder[i])

--------------------------------------------------------------------------------
(* The message builders: the one variant of ExecuteRequestV1 each sets.    *)

Variant == [
  execLend |-> "lend", execRepay |-> "repay", execAddCollateral |-> "add_collateral",
  execReceive |-> "receive", execBorrow |-> "borrow",
  execRemoveCollateral |-> "remove_collateral", execLiquidate |-> "liquidate",
  execUpdateSupportedCollateral |-> "update_supported_collateral",
  execSetOperationalState |-> "set_operational_state",
  execSetBorrowerRequiredAttrs |-> "set_borrower_required_attrs",
  execSetLenderRequiredAttrs |-> "set_lender_required_attrs",
  execSetLenderRequireCommitOnExit |-> "set_lender_require_commit_on_exit",
  execUpdateContractConfig |-> "update_contract_config",
  execUpdateRateParams |-> "update_rate_params",
  execWithdraw |-> "withdraw", execWithdrawReserve |-> "withdraw_reserve",
  buildCw20SendWithdrawExecuteJSON |-> "send"]

(* The methods: builder and parser of each.                                *)

Uses(build, parse) == [build |-> build, parse |-> parse]

LoanMethods == [
  Lend             |-> Uses("execLend", "parseLend"),
  Receive          |-> Uses("execReceive", "ParseCw20ReceiveResponse"),
  Borrow           |-> Uses("execBorrow", "parseBorrow"),
  Repay            |-> Uses("execRepay", "parseRepay"),
  AddCollateral    |-> Uses("execAddCollateral", "parseAddCollateral"),
  RemoveCollateral |-> Uses("execRemoveCollateral", "parseRemoveCollateral"),
  Liquidate        |-> Uses("execLiquidate", "parseLiquidate")]

SettingMethods == [
  UpdateSupportedCollateral |->
    Uses("execUpdateSupportedCollateral", "parseUpdateSupportedCollateral"),
  SetOperationalState    |-> Uses("execSetOperationalState", "parseSetOperationalState"),
  SetBorrowRequiredAttrs |-> Uses("execSetBorrowerRequiredAttrs", "parseSetBorrowerRequiredAttrs"),
  SetLenderRequiredAttrs |-> Uses("execSetLenderRequiredAttrs", "parseSetLenderRequiredAttrs"),
  SetLenderRequireCommitOnExit |->
    Uses("execSetLenderRequireCommitOnExit", "parseSetLenderRequireCommitOnExit"),
  UpdateContractConfig   |-> Uses("execUpdateContractConfig", "parseUpdateContractConfig"),
  UpdateRateParams       |-> Uses("execUpdateRateParams", "parseUpdateRateParams"),
  Withdraw               |-> Uses("execWithdraw", "parseWithdraw"),
  WithdrawReserve        |-> Uses("execWithdrawReserve", "parseWithdrawReserve")]

Cw20Methods == [
  WithdrawViaRepoCw20Send |-> Uses("buildCw20SendWithdrawExecuteJSON", "parseWithdraw")]

\* Mutant of Methods: a parser left over from the method above.
MethodsMixed ==
  Joined([SetLenderRequiredAttrs |->
            Uses("execSetLenderRequiredAttrs", "parseSetBorrowerRequiredAttrs")],
         Joined(LoanMethods, Joined(SettingMethods, Cw20Methods)))

Methods == Joined(LoanMethods, Joined(SettingMethods, Cw20Methods))

\* Those with a twin ...For that runs on behalf of a granter.
ForMethods == [
  Lend             |-> Uses("execLend", "parseLend"),
  Receive          |-> Uses("execReceive", "ParseCw20ReceiveResponse"),
  Borrow           |-> Uses("execBorrow", "parseBorrow"),
  Repay            |-> Uses("execRepay", "parseRepay"),
  AddCollateral    |-> Uses("execAddCollateral", "parseAddCollateral"),
  RemoveCollateral |-> Uses("execRemoveCollateral", "parseRemoveCollateral"),
  Withdraw         |-> Uses("execWithdraw", "parseWithdraw"),
  WithdrawReserve  |-> Uses("execWithdrawReserve", "parseWithdrawReserve")]
================================================================================
