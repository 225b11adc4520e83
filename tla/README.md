# Verification of oasis-chain

TLA+ models of the oasis-chain simulator (a single-node Ethereum-compatible
chain with a JSON-RPC gateway), TLC runs that check them on small instances,
and TLAPS proofs for every value of the constants. Paths such as
`blockchain.rs:311` are relative to the repository's `src/` directory.

## The system

| Part | State | Operations | Modelled in |
|---|---|---|---|
| `Blockchain`, `ChainState` (`blockchain.rs`) | best block number, blocks by hash, hash by number, transactions, receipts, state database, one `RwLock` | `send_raw_transaction`/`mine_block`, lookups, `logs`, `simulate_transaction`, `state` | `Blockchain` |
| `MemoryMKVS` (`storage.rs`) | key/value map shared through an `Arc` | get, insert, remove | `Blockchain` (`mkvs`) |
| `eth_*` methods (`impls/eth.rs`) | none | one request to `Blockchain` each | `ChainData!RequestType`, `Blockchain!Call` |
| Filters (`impls/eth_filter.rs`) | polls: id to kind, cursor and filter; a mutex | new, changes, logs, uninstall; expiry in the library | `EthFilter` |
| Broker (`pubsub.rs`) | `last_notified_block`, listeners | tick, notify, add listener | `PubSub` |
| Subscriptions (`impls/eth_pubsub.rs`) | three lists of subscribers | subscribe, unsubscribe, notify heads and logs | `PubSub` |
| Confidential context (`confidential/confidential_ctx.rs`) | peer, contract, cipher, session and storage nonces | activate, deactivate, encrypt and decrypt sessions and storage | `Confidential` |
| Payloads (`confidential/crypto.rs`), nonces and boxes (`ekiden_crypto`) | none | encrypt, decrypt, increment | `Crypto` |
| Key manager (`ekiden_keymanager`) | keys by contract, a mutex | get or create | `KeyManager` |
| `oasis_getPublicKey` (`impls/oasis.rs`) | none | one request to the key manager | `Confidential!PublicKey` |
| RPC statistics (`informant.rs`), middleware (`middleware.rs`) | ring of samples per session | tick, open, close, on_request | `RpcStats` |
| Gateway (`run.rs`), main thread (`bin/main.rs`) | owners of the chain, the runtime | start, shutdown | `Gateway` |
| API sets (`rpc_apis.rs`), servers (`rpc.rs`, `servers.rs`) | handlers that own the chain | start, failure to start | `Gateway` |
| Command line, configuration, constant answers | configuration | I/O | not modelled |

A transaction that reaches `send_raw_transaction` is checked and mined on the
calling task, one block per transaction, under the write lock. Queries take the
read lock, some of them several times. `state()` hands out the shared database
and drops the lock. The Broker and the filters watch the height of the chain from
their own tasks.

What is hard to get right here:

- `mine_block` changes the database, `block_number` and four maps in separate
  statements, and may fail or panic half way; only the lock and its poisoning
  keep others from seeing or building on the middle.
- `get_txn(Latest)` and `logs` release the lock between reads that belong
  together.
- `state()` handles read while later blocks are committed.
- `HashMap::insert` overwrites silently; only the nonce check keeps a
  transaction from being mined twice.
- A writer can be passed by readers for ever.
- Filter cursors are set from a block number read before the mutex was taken, and
  moved before the blocks are read, which panics on a poisoned chain.
- The rate calculator reuses its samples and reads the clock twice.
- Notification tasks look up subscribers long after the Broker found the blocks.
- Nested calls swap the contract a confidential context encrypts for, and must
  leave the session with the client alone.
- A contract's key is created on demand by a transaction or by a query, whichever
  comes first.
- Shutdown waits for the last owner of the chain, among servers, tasks and
  requests that end in any order.

## Modules

`ChainData` holds the vocabulary: transactions, blocks, receipts, requests and
replies, and the assumptions on the constants. Two abstractions matter. An
account is its nonce and the number of the block that last wrote it, so that
torn, lost and stale writes can be told apart and nothing else. A block's hash
is an injective function of its number, which is how `EthereumBlock::new`
computes it.

`Ledger` is the abstract specification: a sequence of mined transactions, and
every request answered in one step at some moment between call and return.
`get_txn(Latest)` and `logs` may resolve `Latest` at any height since the call.

`Blockchain` is the code. Each task has a program counter; taking the lock is a
step, and every statement of `mine_block` that changes shared state is a step.
`Execute` chooses the number of logs, `ExecuteErr` and `MinePanic` are the error
and the panic of the EVM (balances and gas are abstracted, so either may happen
to any transaction; a wrong nonce always is an error). A panic under the write
guard poisons the lock (`PoisonWrite`), one under a read guard does not.
`AcquireRead` lets readers in past a waiting writer, as the platform's lock does.
The block a simulation or a state read names is part of the request and ignored,
as the code's `_id` is, although `blockchain.rs:448` documents a simulation
"against a given block".

`BlockchainRefinement` maps `Blockchain` to `Ledger`: the chain is what
`block_number_to_hash` reaches, so a transaction is mined at the last insert.
`Refines` is checked for every kind of request except state handles and does not
hold with them: a handle reads after the lock is released, so it may show half a
commit (run `snapshot`), and it still answers after a panic has poisoned the lock,
when the ledger has halted.
`BlockchainInv`, `BlockchainAnswers` and `LedgerInv` are three inductive
invariants, each on top of the one before: the lock and the maps, what tasks
hold and what clients were told, the state database. `BlockchainProofs`
and `LedgerProofs` have the lemmas that the steps keep them, `RefinementSteps` those
that match a step with the ledger's; the theorems are in `BlockchainProofs` and
`RefinementProofs`.

`EthFilter` has one step per access to shared state of `filter_changes`: the
latest block is read at the call, the cursor moved under the mutex, the two ends
of a logs range resolved one after the other with the mutex held, the blocks
fetched after it is released. The library's `PollManager` is external: ids are
never reused and filters may expire at any moment. Every block carries one log
entry that matches; its number stands for it. Once a panic in `mine_block` has
poisoned the chain, each further look at it panics: a call that begins with
`get_latest_block` has no effect, and a poll that is resolving its range or fetching
its blocks dies without an answer and lets go of the mutex (`ReadPanics`). `lost` is
history: the blocks such a poll had taken, which the cursor has passed by then. A
successful reply is part of the step that makes it, and `reported` holds its blocks;
"block not found" is a state of the task.

`PubSub` has the Broker's tick in five steps, the tasks it spawns, and one
notification task per subscriber and block, delivered in any order. The chain
may be poisoned, the timer may fail (the process aborts), clients may go away,
the server may be dropped, and the runtime may be told to stop, after which it
drops its tasks. The chain is its height and its poisoned lock in `EthFilter` and
`PubSub`; that this is sound rests on `Refines` and `AppendOnly`.

`Gateway` composes `PubSub` with the main thread: `execute` with each of its early
returns, `shutdown`, `wait_for_drop`, the early returns of `main` that drop a running
gateway without `shutdown` (`Abandon`, `AbandonReturns`), and a request (or a batch,
which may mine several blocks) in one of the servers. `refs` holds the strong references to the
`Blockchain` that main and the servers own; `Holders` adds those of the Broker's
task, of tasks that fetch headers and of the request. A task that fetches logs
owns the state of the chain and not the `Blockchain`. External, and assumed from
how `run.rs` uses them: `shutdown_now` lets a poll in progress finish and then
drops every task; a stopping runtime may refuse a spawn; dropping a runtime stops
it and waits; dropping the WebSocket server returns and takes the handler along
unless a request is using it; the event loop of the HTTP server is a task of the
runtime. `enabled` is always true and both servers have the full list of APIs, as
the defaults of `rpc.rs` say.

`KeyManager` is the mutex and the map behind it, with a step for the lookup under
the lock and one for the insertion, and a generator that may panic in between.

`Crypto` has nonces, boxes and the payload layout as pure operators. A byte string
is a sequence of units: a public key, a length, a nonce and a tag are one unit
each. The cipher is ideal: what was sealed opens with the same key, nonce and
additional data and with nothing else. `CounterSize` is 2^32 in the code. A payload
is what `encode_encryption` made, whole or cut short, so its length fields are small.

`Confidential` composes both with the context of the transaction that is being
mined and with clients that ask for keys. The virtual machine is external. It is
assumed to activate the context for the contract it enters, to give `activate` what
it returned when the call is over, to open the request once, in the outermost
contract, and to fail the whole transaction when an operation of the context
fails. The storage nonce starts again from counter 0 whenever a contract is swapped
in, as in `swap_contract`; no property is stated about it. The stored location of a
cell is its encrypted key. `written` and `kept` are history: what each contract
wrote last.

`RpcStats` has the rate calculator, the session table and both middlewares. A request
is its number of calls, and a response its outcome, which is the same for every call of
a refused request. Time
is the age of a calculator's era in whole seconds and may advance between any two
steps, also inside `tick`. `counted`, `admitted`, `refused` and `fresh` are
history: what happened in a session's current second, and whether that second
follows one with a request. The width of a sample, the length of the ring and the
limits are constants.

## Runs

| Run | Checks | Instance |
|---|---|---|
| `serving` | `TypeOK`, `AnswersStayTrue`, `LatestTxnFound`, `Refines` | 2 threads, 2 blocks; 3 valid transactions (two compete for a nonce), 4 refused ones; 8 kinds of lookup |
| `reading` | `IInv`, `MapsAgree`, `DatabaseIsReplay`, `ExpectsHold`, `AppendOnly`, `Refines` | 2 threads, 2 blocks, up to 2 logs each; log ranges and simulations |
| `lock` | `QueriesFinish`, `SubmissionsFinish`, `Refines` | 3 threads, 1 block; one transaction everybody submits, simulations |
| `progress` | `QueriesFinish`, `StateNotOlderThanCall` | 2 threads, 2 blocks; `logs` over a growing range, state handles |
| `filter_polling` | `TypeOK`, `NoGap`, `FailsOnlyWhenQuiet`, `EveryBlockReported`, `MutexReleased` | 2 tasks, 2 blocks, 1 filter of any kind, with and without a limit |
| `gateway` | `GatewayTypeOK`, `AtMostOnce`, `NoHole`, `EventuallyNotified`, `ChainLetGo`, `ShutdownReturns`, `FailureReturns` | 1 subscription, 2 blocks, 1 request at a time, a timeout of one turn of the loop |
| `confidential` | `TypeOK`, `KMInv`, `ContextMatchesFrame`, `SessionKept`, `ReadsBack`, `MessagesOpen`, `NoncesFresh`, `RefusedOnlyWhenCut`, `PublishedKeyStands`, `KeyManagerAnswers` | 1 client and the miner, 2 contracts with 1 cell, 2 blocks, calls 2 deep, counters of 4 values |
| `snapshot` | `StateIsSnapshot`, violated | state handles beside mining |
| `filter_blocks` | `CurrentBlockNotIncluded`, violated | 1 task |
| `filter_logs` | `SavedNumberIsNext`, violated | 1 task |
| `limits` | `TypeOK`, `WithinLimit`, `SteadyClientsServed` | 2 threads, 1 session; ring of 3, samples up to 3, limit 2 |
| `current_second` | `RefusedOnlyAboveLimit`, violated | as `limits` |

Bounds. Two blocks are the least in which a transaction has a predecessor with
the same sender and a range has two ends; two threads give every pairwise
interleaving of a reader with a writer, and three give two writers with a reader
and two overlapping readers with a writer. One filter is enough because filters
share only the mutex. No symmetry is used: replies mix types and runs check
liveness. Subscriptions share only the task that fetches headers, and their safety
is proved for any number; one is enough to let every step of the gateway happen. A
counter of four values that starts at 2 wraps and runs out within a transaction;
two contracts two deep are a contract called by itself, by another one and by an
ordinary one; the second block reads what the first one stored. `RpcStats` needs a ring of three to have a sample that is neither
the current nor the next one, eras one second older than the ring, and one more
request per second than a sample can count; sessions share only a lock.

The violated properties are findings:

- `snapshot`: `state()` is documented as a snapshot at a block
  (`blockchain.rs:118`); read during a commit it shows one account of the new
  block and another of the old one. What does hold is `StateNotOlderThanCall`.
- `filter_blocks`: a new block filter skips the current block
  (`eth_filter.rs:80`), a polled one does not (`:122`): the last block is
  returned again by every poll.
- `filter_logs`: the cursor saved is meant to be the next block (`eth_filter.rs:135`);
  if a block is mined between the read of the latest block and `logs()`, it is a
  block just returned. `NoGap` shows that the error is on the safe side: blocks
  may be repeated, and none is skipped while the chain is not poisoned.
- `current_second`: `count_request` "returns number of requests in current second"
  (`informant.rs:104`), but only the next sample is ever cleared. After an idle
  second, or when `tick` itself spans several, a request is counted on top of an
  earlier round and may be refused below the limit. `SteadyClientsServed` tells
  when the count is right, and `WithinLimit` that it never is too low.

`FailsOnlyWhenQuiet` describes a behaviour worth knowing: polling a logs filter
when nothing new was mined returns the error "block not found", because the
cursor is one past the chain. So does the exception in `NoGap`: the blocks of a poll
that a poisoned chain kills are never reported, although the filter's cursor is past
them. The chain mines nothing from then on and every later poll panics too.

## Fairness

`Blockchain`: a task that can take a step does (tokio's and the simulator pool's
threads are scheduled by the OS); a lock that is free again and again is
eventually taken by each task that waits for it (strong fairness of
`AcquireRead` and `AcquireWrite`). Nothing is assumed about readers making room
for writers. Hence the exception in `SubmissionsFinish`; without it TLC finds two
simulations that overlap for ever.

`EthFilter`: tasks run and the mutex is handed over eventually (parking_lot). That
clients poll again and again is an assumption on clients.

`Gateway`: the interval keeps firing, tokio polls every spawned task and drops them
once it is stopping, and the main thread goes on. No request needs to end and no
clock needs to tick; `ShutdownReturns` has the clock of `wait_for_drop`, and
`FailureReturns` the end of requests, as a premise of its own, because there the
code does wait for them.

`Confidential`: threads inside the key manager are scheduled. Nothing is assumed of
the virtual machine or of clients.

## Proofs

Each theorem holds for every value of the constants that satisfies the
named assumptions of the module concerned (`BoundsAssumption`, `KeccakAssumption`,
...), which TLC evaluates in the runs of that module. No theorem assumes a bound on the number of threads, blocks or requests
beyond the constants that name it.

### Blockchain

`BlockchainProofs` and `RefinementProofs` prove:

- `Inductive`: `Spec => []IInv`
- `TypeCorrect`: `Spec => []TypeOK`
- `MapsAgreeAlways`: `Spec => []MapsAgree`
- `AppendOnlyAlways`: `Spec => AppendOnly`
- `AnswersInductive`: `Spec => []RInv`
- `ExpectsHoldAlways`: `Spec => []ExpectsHold`
- `AnswersStayTrueAlways`: `Spec => []AnswersStayTrue`
- `LatestTxnFoundAlways`: `Spec => []LatestTxnFound`
- `DatabaseInductive`: `Spec => []DInv`
- `DatabaseIsReplayAlways`: `Spec => []DatabaseIsReplay`
- `StateNotOlderThanCallAlways`: `Spec => []StateNotOlderThanCall`
- `StepsImplement`: `Spec => L!Init /\ [][L!Next \/ \E t \in Threads : Loose(t)]_(L!vars)`
- `RefinesLedger`: `Spec => Refines`, if no request is for logs or a state handle

**The maps.** `MapsAgree` speaks only of moments without a writer and is not
inductive. `IInv` adds, for each label of `mine_block`, which inserts have been
made (`EarlyInv`, `LateInv`), that the block under construction is the successor
of the best block (`BlockIs`), that the lock is held by exactly the threads whose
label says so (`LockInv`), and why inserts meet new keys: a mined transaction's
nonce is below its sender's (`TxnsInv`) while the one being mined has the
sender's current nonce until the commit (`MinerInv`), and `Keccak` is injective.
`Frame` covers at once all steps that leave the chain alone; each of the seven
others has a lemma of its own. `AppendOnly` then follows step by step.

**The answers.** What a client was told can only be kept true if it was true when
it was told, and that depends on what the task read under earlier acquisitions of
the lock. `RInv` adds it (`Progress`): the number that `get_txn(Latest)` picked
and the range of `logs` lie on the chain, a simulation has seen the accounts as
they are now, a transaction that reached the lock passed the check; and that a
poisoned lock is in nobody's hands (`PoisonInv`), so that no reader meets the
middle of a commit. `AppendOnly` carries an answer from the moment it is given
through every later step.

**The database.** `DatabaseIsReplay` speaks of moments without a writer.
`DInv` adds what every account is during a commit: as the chain left it if
`mine_block` has still to commit it, as the block under construction will leave it
otherwise (`AccountInv`); that the nonce of the transaction being mined is the one
the chain expects (`CommitInv`); that the blocks are as `mine_block` fills them in
(`FilledInv`, `BuiltInv`) and a stored transaction is in the block it names
(`PlacedInv`); and that even after a panic no account is behind the chain
(`NotBehind`), from which a handle's reads are never stale (`HandleInv`). The
account a chain leaves is a cardinality and a maximum. What the steps need of it is
`AccountLaws`: an empty chain, one more block, growth. `LedgerProofs` has these as a
hypothesis, and `RefinementProofs` discharges it (`AccountLawsHold`).

**The refinement.** In `RefinementSteps` each step is matched with the ledger's: a refused or failed
submission with `Refuse` (`CheckStep`, `ExecuteStep`), the last insert with `Mine`
(`MineStep`), a lookup, the second look of `get_txn(Latest)` and the end of a
simulation with `Query` (`QueryStep`), a poisoned lock and every panic with `Abort`
(`AcquireStep`, `PanicStep`); all other steps leave the ledger alone
(`HiddenStep`). The replies to lookups are compared with `Ledger!Replies` case by
case (`LookupAllowed`, `ReadTxnAllowed`, `SimulateAllowed`). Two replies are out of
the theorem. A handle of `state()` does not refine the ledger at all (run
`snapshot`). The reply of `logs` is a fold over the blocks of the range, and what a
fold computes needs an induction over data. `Loose` is what is proved of these two:
the reply comes from a task that serves such a request, is no panic, and changes
nothing else. TLC checks the replies of `logs` against the ledger (run `reading`).

### Filters

`EthFilterProofs` proves, for any tasks, filters, ids and blocks:

- `FiltersInductive`: `Spec => []FInv`
- `FiltersTyped`: `Spec => []TypeOK`
- `NoGapAlways`: `Spec => []NoGap`
- `FailsOnlyWhenQuietAlways`: `Spec => []FailsOnlyWhenQuiet`

`NoGap` accounts for a block that a cursor has passed by a reply or by a poll that is
still on its way, so the invariant has to know what polls on their way will return.
`FInv` adds that the range of a poll begins at the cursor it found and that its first
end is missing only if that cursor was past the latest block (`RangeInv`), that the
poll's limit is the filter's (`LimitInv`), and that all blocks before the range were
accounted for when it was taken (`PriorInv`), hence all blocks up to the call when the
poll has failed (`FailedInv`). What was accounted for stays so (`AccountedGrows`): a
poll that ends hands its blocks over, and one that dies leaves them in `lost`. That
blocks are lost on a poisoned chain only, the second half of `NoGap`, is inductive by
itself (`LossInv`).

### Rate limits

`RpcStatsProofs` proves, for any ring of at least two samples and any limit below
the largest sample:

- `SamplesInductive`: `Spec => []IInv`
- `WithinLimitAlways`: `Spec => []WithinLimit`
- `SteadyClientsServedAlways`: `Spec => []SteadyClientsServed`
- `SamplesTyped`: `Spec => []TypeOK`

Its `IInv` adds to the two properties what the samples mean (`SampleInv`): the
current one is at least the number of requests counted in this second or
saturated, at most that number in a fresh second, and the next one is zero once a
request was counted. `RingPositions` is the arithmetic of the two positions.

### Confidential contracts

`ConfidentialProofs` proves, for any callers, contracts, cells, values, depth of
calls and width of the counter:

- `OneKey`: `KMSpec => []KMInv`, the key manager by itself
- `ContextInductive`: `Spec => []CInv`
- `ContextTyped`: `Spec => []TypeOK`
- `ContextIsRight`: `Spec => []ContextMatchesFrame`
- `PublishedKeyStandsAlways`: `Spec => []PublishedKeyStands`
- `RoundTrip`: what `Encrypt` made, `Decrypt` opens
- `StorageReadsBack`: `Spec => []ReadsBack`
- `SessionInductive`: `Spec => [](CInv /\ StInv /\ SInv)`
- `SessionKeptAlways`: `Spec => []SessionKept`
- `NoncesFreshAlways`: `Spec => []NoncesFresh`
- `MessagesOpenAlways`: `Spec => []MessagesOpen`
- `RefusedOnlyWhenCutAlways`: `Spec => []RefusedOnlyWhenCut`

`ContextMatchesFrame` is not inductive: that a return restores the caller needs the
chain of `old` addresses (`CallChain`), and that the restored key is the caller's needs
`KMInv` and that a key never changes; `CInv` is their conjunction. `StInv` adds, for
the committed and the current store, that what lies at a location was sealed with the
contract's key for the cell of that location, with the nonce kept behind it. `SInv` adds
how far the session's nonce is from its start and which nonces the messages carry:
message `i` has counter start + `i`, modulo the width, and there are fewer messages than
counters.

### Gateway

`GatewayProofs` proves, for any subscriptions, blocks and timeout:

- `BrokerInductive`: `Spec => []PInv`, for the subscriptions alone
- `NotifiedOnce`: `Spec => []AtMostOnce`
- `NoneLeftOut`: `Spec => []NoHole`
- `GatewayPublishes`: `GatewaySpec => Spec`, so the composition has both
- `GatewayInductive`: `GatewaySpec => []GInv`
- `GatewayTyped`: `GatewaySpec => []GatewayTypeOK`

Its invariant `PInv` adds that the Broker notifies only of blocks above its cursor
(`Ahead`), that every spawned range and everything sent lies at or below the point the
Broker has reached on that list, cursor or current range (`OnceInv`), and that all
blocks up to that point are delivered or on their way (`HoleInv`). `GInv` adds which
statements of `execute` have which owners (`Starting`).

### Only model-checked

- `Refines` for the replies of `logs` (an induction over data, see above).
- `QueriesFinish`, `SubmissionsFinish`, `EveryBlockReported`, `EventuallyNotified`,
  `MutexReleased`, `ChainLetGo`, `ShutdownReturns`, `FailureReturns`,
  `KeyManagerAnswers`:
  liveness under fairness is outside the prover's reach.
- The violated properties of the findings, which are false.

## Not modelled

- The EVM and `ethcore`'s state trie, JSON conversion, timestamps, gas amounts and
  balances. `MaxBlock` bounds the length of a chain.
- Ciphers, curves, hashes and signatures (`ekiden_crypto`): arithmetic on bit strings,
  replaced by ideal operators. Nothing in the gateway signs or verifies.
- Payloads with length fields that `encode_encryption` did not write, and with them the
  width of the sum in `split_encrypted_payload`.
- `oasis_invoke` and `oasis_getExpiry` under their own names: they are
  `send_raw_transaction` and a read through `state()`, which `Blockchain` has.
- `ApiSet::from_str` and the error kinds of `rpc_apis.rs`: only tests call it.
- Command line, server configuration (hosts, origins, thread counts), sockets,
  constant answers (`net_*`, `web3_*`, `eth_sign*`): no state and no decision.
- `notify_completed_transaction`: nothing in the repository calls it.
- The order of notifications: each is a task of its own, and no order is promised.
