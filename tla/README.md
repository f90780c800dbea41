# prov-go: TLA+ models and proofs

prov-go is a Go client library for the Provenance blockchain: queries, signed
transactions, and the clients of two CosmWasm contracts (demoprime pool, CW20).
This directory models the parts of it that have state, concurrency or an order of
events, checks them with TLC on small instances, and proves the main results with
TLAPS for every value of the constants.

## 1. Inventory

| Component | Code | State it keeps | Operations | Interacts with | Hard behaviour |
|---|---|---|---|---|---|
| Paginated streams and collectors | `bank.go`, `attribute.go`, `staking.go` | page key, page, two channels | `Get*Stream`, `Get*` | node (paged queries), caller's context | producer and collector race; the chain changes between pages; cancellation; leaks |
| Account value | `marker.go`, `GetNAV` in `metadata.go` | WaitGroup, results and total channels | `GetAccountValue` | balances stream, shared worker pool | pool full, panicking tasks, closing order, nil error |
| Transaction numbering | `prov.go`, `simulate.go`, `contract/base_client.go` | `c.Sequence` under `c.mu` | `NextSequence`, `ResetSequence`, `SignTx`, `BroadcastTx`, `WaitOnTx`, `BroadcastMsgs` | node (check state, mempool, committed state), all callers | shared counter, stale resets, lost replies, timeouts |
| Scopes and registry operations | `metadata.go`, `registry.go`, `types.go` | none | `CreateScope`, `DeleteScope`, `UpdateRecords`, `RegistryBulkUpdate` | numbering, scopes on chain | check, then act |
| Registry loader | `examples/registry/loader.go` | position in the batch loop | `load` | registry, `WaitOnTx` | stops midway, is killed, is run again |
| AddAttributes | `attribute.go` | buffer, three channels | `AddAttributes` | `GetAttributes`, `SignTx`, `BroadcastTx`, caller, attributes on chain | two senders on one channel, partial last batch, failing batches, stale check |
| Client construction | `prov.go`, `grpc.go`, `config.go`, `keys.go` | sealed SDK configuration, key, address, lazy query clients | `NewProvenanceClient`, `Close`, eight `*Client()` getters | numbering (`ResetSequence`), other clients of the process | second client in a process, goroutines that find a nil field together |
| Grants | `contract/authz_query.go`, `contract/grants_tx.go` | none | grant queries, grant transactions | node, base client | pages over a changing chain, two clocks, a grant that is stale when used |
| Store, instantiate | `contract/store_instantiate.go`, `contract/txattrs.go` | none | `StoreWasm`, `InstantiateContract` | base client | which event is found |
| Pool client | `demoprime/pool/*.go` | none | execute methods, their twins on behalf of a granter, parsers | numbering, block query | a chain of steps that fails midway; which event is found; which transaction of the block |
| CW20, node, tendermint, group | rest of `pkg` | none | single queries | node | none |

What makes them correct:

* streams: every item that is there during the whole call is returned, once and
  in order; an error is reported; both goroutines end;
* account value: the total counts every NFT or there is an error; nothing is sent
  on a closed channel; nothing is left behind;
* numbering: no number is given out twice between resets; a failure costs a
  bounded number of operations; `c.mu` cannot deadlock; success means committed;
* scopes: what the check could see is never written over;
* loader: entries arrive in order and without gaps, and none more often than there
  were runs;
* AddAttributes: every attribute is reported on exactly once, in batches of the
  input's order; what was told to have failed before the broadcast never arrives;
  the channels close, and only when nobody can send any more;
* clients: one query client per kind; a client signs as its configuration says;
* grants: what was granted is found, and what was found can be used;
* contract calls: an answer is that of the call's own transaction; an error that
  says that nothing happened is right.

`PROJECT.json` lists every component with its status, and every hazard at the
line where it bites with the properties that watch it.

## 2. Modules

| Module | Models | Proofs |
|---|---|---|
| `PagedStream` | the producer goroutine of a paginated stream, its channels, the node's ordered items | |
| `Collector` (extends `PagedStream`) | `GetBalances` and its four copies | `StreamProofs` |
| `Listing` | abstract: what a listing query promises over a chain that changes | |
| `ListedCollector` (extends `Collector`) | maps `Collector` to `Listing` | `StreamProofs` |
| `AccountValue` (extends `PagedStream`) | `GetAccountValue` | `StreamProofs` |
| `TxSequence` | `NextSequence`, `SignTx`, `ResetSequence`, `BroadcastTx`, `WaitOnTx`, their callers, the node | `TxSequenceProofs` |
| `Scopes` (extends `TxSequence`) | `CreateScope`, `DeleteScope`, `UpdateRecords` over the scopes on chain | `ScopesProofs` |
| `OrderedLoad` | abstract: entries arrive from first to last, "loaded" means all | |
| `RegistryLoader` (extends `TxSequence`) | `load` of the registry loader, its stops, kills and repeated runs | `RegistryLoaderProofs` |
| `AddAttributes` | both goroutines of `AddAttributes` | `AddAttributesProofs` |
| `AttributeUpload` (extends `AddAttributes`) | the same over the attributes on chain | `AddAttributesProofs` |
| `Grants` | both grant queries, `GrantContractCommitFunds`, the grants on chain; maps to `Listing` | `GrantsProofs` |
| `PoolEvents` | the event search, the parsers, the table of methods | |
| `PoolClient` (extends `TxSequence`, `PoolEvents`) | execute methods, `StoreWasm`, `InstantiateContract` | `PoolClientProofs` |
| `QueryClients` | the eight lazy getters under `c.mu` | `ClientSetupProofs` |
| `ClientSetup` (extends `QueryClients`) | `NewProvenanceClient` and `Close`, several per process | `ClientSetupProofs` |
| `MC*` | constants for TLC | |

Definitions named "Mutant of X" are deliberate mistakes: each stands for a bug
that a property of the runs must find, and no specification uses them. History
variables, marked as such where they are declared, are never read by a guard of
the code.

### PagedStream, Collector, Listing, ListedCollector

The variables are those of the goroutine: `nextKey`, the part of the last answer
not sent yet (`page`) with its `Pagination.NextKey` (`resNext`, 0 for an empty
one), the buffered `dataChan` and `errChan`, and `pc`, which is `query` at the
RPC, `send` in the send loop, and `closeErr`, `closeData`, `done` in the deferred
closes, which Go runs in the reverse of the order they are written. `store` is
what the node has on chain; anyone may add and remove items at any time.
`stable` is a history variable: the keys present ever since the call began.
Items are identified with their keys. Every select is a disjunction: the two
cases of the send loop are `SendItem` and `SendCancelled`, the collector's are
`CollectDone`, `CollectItem`/`CollectClosed` and `CollectErr`/`CollectNilErr`.
An answer may arrive after the context has ended (`QueryOk` does not look at
`ctx`): an RPC in flight at the cancellation can go either way.

The other four stream/collector pairs run the same code: the page size is 50 for
balances and 100 for the others. `PageSize` is a constant of the module and the
theorems hold for all of its values.

`Listing` is the promise, without pages, channels or goroutines: the result grows
in key order out of items that were on chain during the call, and a call that
ends complete has every item that was there all the time. `ListedCollector` adds
the history `ever` that the promise speaks of. An end with a nil error while the
stream's error is unread is mapped to "truncated"; that this outcome exists at
all is the finding of `collector_error`. `Grants` implements the same `Listing`
without it (`MayTruncate <- FALSE`).

### AccountValue

The main loop of `GetAccountValue` is `mpc`: `loop` at the select, `submit`
inside `Pool.Submit`, `wait` at `wg.Wait`, `total` at the receive from
`totalChan`. `worker[k]` is the task of the NFT with key `k`; a task is at the
query (`nav`), at the send on `resultsChan` (`send`), or over. A panic in a task
runs the deferred `wg.Done` and is recovered by the pool (external: ants logs
it and keeps the worker). `total` is the set of NFTs summed; amounts are not
modelled. Only one call uses the pool.

### TxSequence

`pc[c]` follows a caller through one operation: `lockNext`, `read`, `inc` in
`NextSequence`; `sign`, which covers `SignTx` up to the encoded bytes; `lockAuth`,
`auth`, `query`, `lockSet`, `set` in `ResetSequence`; `broadcast`; `wait`. The
mutex is a variable of its own, so that holding it across the query would show.
The node is external: `committed` is the account's sequence in the last block,
`mempool` its pending transactions, and both the simulation and `CheckTx` demand
the number `committed + Len(mempool)`; the account query returns `committed`.
`SignErr` is any failure of `SignTx` other than the simulation: it does not
reset. `Waiting` separates the callers that poll for inclusion (`BroadcastMsgs`,
`broadcastAndWait`, the loader) from those that do not. `Reliable` switches off
lost broadcast replies, evictions, and blocks slower than `WaitOnTx` is patient.
`current` and `misses` are history variables. `Prior` is the number of
transactions an earlier process with the same key left pending: a restart.
`Start(c)` and `Proceed(c)` are the steps of one caller, which the modules that
extend this one conjoin with what their own code does around them.

### Scopes

`CheckAbsent` is the answer of `GetScope` that lets `CreateScope` go on, and
`Create` its `NextSequence`; the other operations check nothing. `msgs` says what
each operation carries, and `Execute` folds the transactions of a block over
`written`, the time each scope was written last. The chain writes a scope
whether or not there is one: so the check is all that protects it, and
`OverwritesOnlyUnseen` says exactly what it cannot see.

### RegistryLoader and OrderedLoad

The loader is the only caller of `TxSequence`; `Load` is one of that caller's steps
with what the batch loop makes of its outcome: `NextBatch` after success, `Stop`
(`log.Fatalf`) after an error, `Within` otherwise. `CodeChecked` ties success to the
execution code of the included transaction, which `Included` chooses for each one.
`Rerun` ends a process at any point and starts the command again on the same file
with a new client. `OrderedLoad` is the promise: entries arrive on chain in
order and without gaps, and "loaded" means all of them. The mapping takes the
entries of the successful transactions for `applied`, a set. A run starts again at
the first entry, so batches are applied a second time, which is a stutter of
`OrderedLoad`; `AppliedOncePerRun` is what bounds the repetition. It counts the
successful transactions that carry an entry, also those of a run that was killed or
gave up on them: there are at most as many as runs.

### AddAttributes and AttributeUpload

Attributes are the numbers `1..n`. `CheckAbsent` and `CheckFails` are the
outcomes of `GetAttributes`; the first one stands for an empty slice without an
error, the second one for an error and for an attribute that exists. A report on
an unbuffered channel is one step, because the caller is assumed to receive from
both channels. `AttributeUpload` gives each
entry a name and account (`key`), ties the two outcomes to the `chain`, executes
the broadcast batches later and in order, and lets others add attributes. The
chain keeps a second attribute beside the first. The check passes when there is
nothing (`Checked`), and also when `GetAttributes` misses the error of its stream
(`MissedError`): then the slice is empty and the error nil whatever is on chain, which
is the finding of `collector_error` in this caller. A broadcast may put its batch in
the node's hands or not, with an answer or with an error, for the answer may get lost
(`Broadcasted`). `seenAt` (what each check saw) and `refused` (the entries for which
the check or the signing gave an error) are history.

### Grants

One query, one `GrantContractCommitFunds` and one use of what was found, in any
order. `kind` says which of the two queries is made: the commitment query names a
message type and is answered by its one grant (`OnlyGrant`) or by "authorization
not found", which is no error (`NotFound`); the execution query goes through
`allGrants` page by page (`MorePages`, `LastPage`). `Filter` compares expirations
with the client's clock, which is `skew` ahead of block time, and drops what does
not unpack or names another contract. `BuildGrant` is the construction of the
message, which refuses an expiration the client's clock has passed; a block takes
it or not (`Deliver`, `GrantFails`), and the caller may give up first (`GiveUp`).
The chain, external, gives, replaces, revokes, expires and prunes grants.

### PoolEvents and PoolClient

`PoolEvents` has no state: events are sequences of attributes, and `FindAction`,
`EventAttrs`, `TxIndex`, `FirstAttribute`, `Parsed` and `ParsedReceive` are the
searches and parsers of `events.go`, `txattrs.go` and `responses.go`, with the
order in which they fail. `Parsers`, `Variant` and `Methods` are the tables of the
code under its names: which action and fields a parser reads, which message a
builder makes, and which builder and parser a method pairs. `PoolClient` runs a
call through `TxSequence` (`Begin`, `Transact`), the block query (`Fetch...`) and
the parser. The contract is external and emits one event per message, whose
values name whom it was sent for, the transaction and the field, so that an
answer from elsewhere would show; other contracts emit events around it
(`Outcomes`), and the events may come in `events`, in `logs` or in both. `Worlds`
names what may happen at a time: which calls are made and which actions other
contracts report.

### QueryClients and ClientSetup

A getter is `lock`, `check`, `create`, `return`, with the clients numbered as they
are made. `ClientSetup` runs any number of constructions, `stage` by stage;
`sdk` is the configuration that all clients of a process share. Two setters of a
sealed configuration panic (`Panic`), and so may two goroutines in a setter at a
time (`MapRace`: the SDK's map is written without a lock). A construction that
fails after the dial leaves its connection open, as in the code. One client is
shared: its constructor is the first to ask for its `AuthClient`, and the other
goroutines use it when it is ready.

## 3. Runs

| Run | Instance | Question | Answer |
|---|---|---|---|
| `collector` | 4 keys, pages of 2, failing queries, cancellation | order, completeness, both goroutines end, refinement of `Listing` | holds |
| `collector_error` | 5 keys | can an error get lost? | yes, finding |
| `value` | 3 NFTs and another balance, 2 workers, pages of 4 | no send on a closed channel, totals are whole, everything ends | holds |
| `value_nil` | 3 NFTs | does the error branch return an error? | no, finding |
| `tx_solo` | 1 waiting caller, 5 operations, reliable node | does a reset realign? is the check of `CreateScope` enough for one who waits? | holds |
| `tx_trio` | 3 callers with one call each, one waits, unreliable node, one scope | fresh numbers, what `CreateScope` cannot see | holds |
| `tx_pipelined` | 1 caller that does not wait, 4 operations | does a reset realign? | no, finding |
| `registry_load` | 5 entries, batches of 2, 3 runs, unreliable node | gaps, early success, runs that overlap, repeated application, termination | holds |
| `attributes` | up to 4 entries of 2 names, batches of 2, foreign attributes, lost errors and replies | reports, order, closing, does the chain agree with what the caller was told? | holds |
| `grants` | 2 message types, pages of 1, times 0 to 3, clock skew -1 to 1 | granted is found, found is usable, refinement of `Listing`, termination | holds |
| `pool` | 1 caller with any call among foreign events, or 2 callers with two calls | own answer, own place in the block, meaning of errors, termination | holds |
| `client` | 4 constructions, 3 goroutines on the first client, 2 kinds | identity, addresses, one query client per kind | holds |

Bounds. Four keys with pages of two give a full and a partial page, one that is
exactly full at the end, a full data channel, and items before, at and after the
paging key; the violation needs no more than that. Three NFTs with two workers
make `Submit` wait for a worker while the tasks wait for `resultsChan`; the
balance between them is not handed out. A page of four holds all the balances there, so
the stream of `value` is never blocked by a full channel (with smaller pages the run
takes too long); a full channel is in `collector`, with the same producer
(`NoGoroutineLeak`), and the safety theorems of `value` hold for every page size. In
`tx_solo` five operations allow a
failure of each kind between two wrong numbers; two polls let a transaction be
found at the first, at the last or never (ten in the code). Three callers race for
`c.mu`, for `c.Sequence` and for one scope in every order, with a reset while two
other numbers are in flight; two creations are the shortest history in which a
stale check matters, and a deletion between them the shortest in which it must
not. Five entries in batches of two
make the last of three batches partial; three runs let a transaction of one run be
pending, included or dropped during the next, twice; nine operations are three
batches for each of three runs. Four entries in batches of two give none, full
batches and a partial last one; with two names, two entries of a call may be
about the same attribute. At most two attributes on chain are not of the call, one
of them possibly there at first. In `grants` the query needs up to two pages, a grant may
expire at the last time or never, or be one that the call under way made with
any expiration in between, and the client's clock is behind, even with and ahead
of the chain's. In `pool` one call is enough for everything that is said of an
answer, and two goroutines for sharing a block; `Worlds` keeps the product of both
out of the run. The constructions of `client` have two prefixes, two coin types,
and one client without a mnemonic. State spaces are finite without a state
constraint: the named bounds (`MaxOps`, `MaxPolls`, `MaxRuns`, `MaxTime`,
`MaxForeign`, `MaxAttrs`, `MaxGets`) are guards.

Symmetry is used in two runs that check invariants only: of the two callers that
do not wait in `tx_trio`, and of the two goroutines in `client` that only use the
client.

Deadlock is checked in every run. The ends of the bounded instances are explicit
(`AllDone`, `ScopesDone`, `Finished`, `UploadDone`, `PoolDone`, `Over`); in the
stream modules and in `Grants` the chain or its clients can always move.

Fairness. Weak fairness of each goroutine: the Go scheduler runs every runnable
goroutine and every RPC returns. For the collector, whose select may take the
always ready nil case, it also says that the random choice of select does not
take it forever. Strong fairness for taking `c.mu`: a `sync.Mutex` hands the lock
to a waiter that starves. `AttributeUpload` in addition assumes the caller that
drains both channels. `TxSequence` and the loader have weak fairness of `Block`.
`CallEnds` of `pool`, `ChannelsClose` of `attributes` and `QueryEnds` of `grants`
ask nothing of the chain: the code gives up on its own. No fairness anywhere for
losses, failures, cancellation, other people's transactions, or for starting
operations.

### Findings

* `GetBalances` (and the four other collectors) can return a partial slice with a
  nil error: the error and the closed data channel become ready together, and
  select picks one at random (`collector_error`).
* `GetAccountValue` can return a nil total with a nil error at the end of a
  successful stream, for it does not test the error it receives for nil
  (`value_nil`).
* The reset in `SignTx` goes back behind the signer's own pending transactions,
  so for a caller that does not wait one failed simulation causes the very
  misalignment that the comment says it prevents (`tx_pipelined`).

Some properties that hold are exact about what the code does not promise.

* `TotalComplete` excepts the NFTs whose value could not be had: a total that lacks
  them is returned in spite of `marker.go:124` ("since we don't want to report any
  results if there is an error"), for the pool recovers the panic.
* `OverwritesOnlyUnseen` says when `CreateScope` writes over a scope in spite of
  `metadata.go:14` ("Verify that the scope doesn't already exist"): when that scope
  was committed after the check. For one caller that waits this never happens
  (`NothingReplaced`, which has no exception).
* `AddAttributes` may add a second attribute of a name and account: when the first one
  came on chain after the check, and when the check missed the error of its query. The
  theorem `NoSeenDuplicate` says that there is no other case. As a promise that
  leaves little, so the run checks `ArrivesAsTold`, which has no exception.
* `OrderedLoad` allows repetition; `AppliedOncePerRun` says how much.
* `FoundIsUsable` excepts grants that were replaced, revoked or expired between the
  query and the use: the code does not look again.
* `ReportsOwnEvent` excepts answers in a transaction where another contract reports an
  action that the parser looks for: the parsers take the first event of an action,
  whoever emitted it.

## 4. Proofs

Assumptions are the named ASSUMEs. `StreamAssumption`, `ValueAssumption`: keys
are positive naturals, NFTs are among them, page and pool size are positive.
`SequenceAssumption`: "free" names no caller, bounds are naturals. `ScopesAssumption`:
nothing of the key is pending at first, and "none" names no scope.
`LoaderAssumption`: the loader is the only caller, it waits, nothing of its key is
pending at first, file and batches are not empty. `BatchAssumption`: batches are
not empty. `GrantAssumption`: there are finitely many message types, pages are
not empty, and the expiration of a grant without one is later than either clock.
`PoolAssumption`: every caller waits, and the calls are calls of the client.
`QueryAssumption`, `SetupAssumption`: the shared client signs, and its constructor
is one of its users. Nothing bounds the number of keys, pages, workers, callers,
operations, polls, pending transactions, entries, runs, constructions or
goroutines.

`StreamProofs`, the collector. `InOrder` and `CompleteOnSuccess` are not inductive: whether the
next item is larger depends on where the producer is. `IndInv` adds the frontier
(everything delivered is below the rest of the page, which is below the next
key) and locates every stable key: delivered, in the page, or at or after the
key that will be asked for; this holds as long as no error was reported. The step
proof has one case per action; the sequence facts it needs are that receiving
moves an item along the flow without changing it and that sending appends to it.
`FromChain` adds that all of it was on chain during the call, and with it every
step is one of `Listing` or a stutter: `CollectorImplementsListing`.

`StreamProofs`, the account value. `ValueInv` counts: `wg` is the number of tasks that run, plus
the one being submitted, and the channel is closed only after it was 0. It places
every NFT that was there all the time: still to be asked for, in the page, in the
data channel, handed to a task, in `resultsChan`, or summed. The order of the
stream is needed there, for a key that came twice would reuse a task.

`TxSequenceProofs`. `NumberInv` strengthens mutex discipline and freshness by the
fact that the number read is still the current one when it is incremented.
`MutexHeldOnlyInside` and `SuccessIsCommitted` hold for any callers on any node; they
are parts of the argument, and no run checks them by themselves. `SoloRealigns` assumes a
single waiting caller on a reliable node. Its invariant `Settled` says that nothing
is pending but the transaction waited for, so the answer of a reset stays true
until it is written and until the next simulation; `tx_pipelined` shows that the
assumption cannot be dropped.

`ScopesProofs`. `OverwritesOnlyUnseen` speaks of executed creations only, which says
nothing about the next one. `UnseenInv` says it of every message a caller has
checked or submitted: a creation saw a chain no newer than the present one, and its
scope is absent or was written after that, for what was there then has been deleted
since. A block executes any number of transactions (`After`), and each keeps this of
the chain in the middle of the block, by induction over the transactions taken.
That no message changes once its number is taken, and that whatever is in the mempool
has one, comes from `Len(msgs[c])` in `ScopesTypeOK`.
`WaitingReplacesNothing` is the other half: a single caller that waits for each
transaction on a reliable node (`Alone`, as for `SoloRealigns`) writes over nothing at
all. `CheckHolds` says that nothing is executed between its check and its execution;
it rests on `Settled`, by which a block has one transaction to take.

`RegistryLoaderProofs`. `OneInFlight` is not inductive: nothing in it keeps a repeated
run from sending behind a transaction that is still pending. `FlightInv` adds that a
run never holds a number beyond the committed sequence. Its first number is the
committed one, it takes the next only after the transaction with this one is
found in a block, and every failure ends the run. A simulation succeeds only
when the number is the committed sequence plus what is pending, so only with an
empty mempool, and the broadcast adds the only pending transaction. `LoadInv` adds
that what is applied is a prefix of the file, that what is pending begins inside
or right after it, and that the loop has passed applied entries only; from both,
the loader implements `OrderedLoad`. `AppliedOncePerRun` counts transactions that are
executed at any time, so it follows from what was sent: `SentInv` says that no run sent
an entry twice, and that what lies beyond the current batch was sent by earlier runs
only.

`AddAttributesProofs`. `AttrInv` puts every entry in exactly one place (to be
checked, in the channel, in the buffer, in flight, reported) in the order of the
input, and ties the closed channels to where the goroutines stand. `SeenInv` keeps
what a check saw and passed on: a prefix of the chain that has no attribute of the
entry's name and account, which gives `NoSeenDuplicate`. For `ArrivesAsTold`,
`ArrivalInv` carries the order of `AttrInv` on to the node: what is on chain precedes
what is pending, and both precede what is being sent or packed; what was refused is in
none of these places.

`GrantsProofs`. `GrantInv` has `Paging` (what is collected lies below the key of the
next page, and a type granted ever since is collected or at that key or above) and
`Checked` (what was promised, collected or kept is on chain, or was pruned after
it expired, unless somebody replaced or revoked it). The first carries the
refinement of `Listing` by both queries, the second `GrantThenHas` and
`FoundIsUsable`.

`PoolClientProofs`. For `NoEffectErrors`, `EffectInv` says that the node has no
transaction of a call before it is sent, and none twice, and that a call that
failed on chain stays failed. `AnswerInv` adds what the answers rest on: a block is
fetched only for a transaction that was executed with code 0, every executed
transaction is in some block, and an answer keeps speaking of a block that exists. The
rest is about the search. Its lemmas say what `FindAction`, `TxIndex` and
`EventAttrs` return for lists of events and attributes and blocks of any length: the first hit, or 0 if
there is none. With them the proof goes through the tables: for each method the
action that its builder's message causes is the one its parser looks for, so the
own event is a hit and a committed call is answered (`CommittedCallsAreAnswered`);
the hit is the own one when nobody else reports that action
(`AnswersReportTheirEvent`), and for a receive the three parsers that do not match
the hook are ruled out first. The index is right whatever else is in the block,
since hashes are those of one call (`AnswersLocateTheirTx`).

`ClientSetupProofs`. `QueryInv`: what a getter handed out is still in its field.
`SetupInv`: past `Seal` the configuration stays, addresses show it and the
builder's own key, and without overlap it is that of the only builder that got
past the first setter.

Induction over a sequence or a block is done with `SetInduction` of `TxSequenceProofs`:
a set of naturals that holds 0 and the successor of each member holds them all. It
is enough for functions defined by recursion over an index (`After`) and for the
smallest index with a property (`SmallestOf`), which is what the searches of the
community modules choose.

Model-checked only: the liveness properties (`CollectorReturns`, `NoGoroutineLeak`,
`EverythingEnds`, `RunEnds`, `ChannelsClose`, `QueryEnds`, `CallEnds`), for the
prover does not handle fairness and ENABLED. Every invariant and every refinement
that a passing run checks is also a theorem.

## 5. Not modelled

* Message fields and JSON (`messages.go`, `query_types.go`, `types.go`), the
  values inside an event (`parseCollateralMapJSON`), key derivation, the codec:
  conversions without state. `UnpackAny` accepts or refuses nondeterministically.
* CW20, node, tendermint and group queries, the contract queries of the pool
  client, `GetMarker`, the scope lookups: single reads.
* The gas and fee arithmetic of `SignTx`; a fee that is too low is one of the
  reasons for `Rejected`. In the node, fees, gas and the effects of transactions
  other than those named above.
* The `generate` command of the loader and the other examples.
* That a failed construction leaves its connection open, and that a number may be
  given twice across a reset, are in the models, but no statement of the
  repository speaks against them, so no property does.

## 6. Plan

1. `GetAccountValue` called by several goroutines that share one pool.
2. Scopes and the loader with `Prior` transactions of another process, and two
   processes that sign with one key.
3. A theorem about what an error leaves open ("broadcast", "wait on tx"): at most one
   transaction per call, taken in the order of the numbers.
