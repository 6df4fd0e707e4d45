# TLA+ models of the Kalon node and miner

This directory models the parts of the repository whose correctness depends on the order in which
things happen: how a node adds, stores and reloads blocks, how payments move through mempool,
templates, miner and chain, what the consensus rules make of a configuration, how the miners
find and submit blocks, and how the servers of a node handle peers and requests. The models are
checked with TLC on small instances, and the most important properties are proved with TLAPS for
every value of the constants. Line numbers refer to files under `src/`.

| Module | What it is |
|---|---|
| `DurableChain.tla` | abstract specification: what a node promises about its chain |
| `ChainStore.tla` | `BlockchainV2` over `BlockStorage`: adding, storing, loading blocks, with crashes |
| `MCChainStore.tla`, `Chain*.cfg` | its three runs, one of them a finding, and two more instances |
| `ChainStore_proofs.tla` | types, safety and refinement of ChainStore, proved |
| `Ledger.tla`, `MCLedger.tla`, `Ledger*.cfg` | UTXO set, mempool, templates, payments, and three runs, two of them findings, and two more instances |
| `Ledger_proofs.tla` | that no balance is too low, payments are neither lost between restarts nor confirmed twice, outputs are kept and restarts rebuild the UTXO set, proved |
| `Consensus.tla`, `MCConsensus.tla`, `Consensus*.cfg` | difficulty, reward, target and proof of work, and two runs, one of them a finding, and one more instance |
| `Consensus_proofs.tla` | its properties, proved for every reasonable configuration |
| `MinerClient.tla`, `MinerClient.cfg` | kalon-miner-v2 and its node, and one run |
| `MinerClient_proofs.tla` | that retries add no block twice and that what the miner logs is true, proved |
| `P2PNetwork.tla`, `P2P*.cfg` | peer table, connections, goroutines and `Stop` of the P2P network, a run, and one more instance |
| `P2PNetwork_proofs.tla` | that the table lists what is served and `Stop` reaches all of it, proved |
| `RpcServer.tla`, `RpcServer.cfg` | slots, rate limit, requests and shutdown of the RPC server, and one run |
| `RpcServer_proofs.tla` | that slots are accounted for and the rate is limited, proved |
| `LegacyMiner.tla`, `MCLegacyMiner.tla`, `LegacyMiner*.cfg` | the miner of package `mining`, a run, and one more instance |
| `LegacyMiner_proofs.tla` | its types, and that workers share out the nonces, proved |
| `FoldFacts.tla` | what folds and sums compute, for every input, proved; used by the proofs of Ledger and Consensus |

`PROJECT.json` lists components, runs, mutants, the source lines of every definition, findings,
hazards and theorems. A run is repeated with `tlc -config <cfg> <module>`, a proof with
`tlapm <module>.tla`. Seven configurations are no runs of `PROJECT.json`: TLC finds their property violated, and
section 3 says what they show.

## 1. The system

### Components, their state and operations

* **Blockchain in memory** (`core/blockchain.go`). State: `blocks`, `height`, `bestBlock`, `utxoSet`,
  `mempool`, behind `bc.mu` and two locks of their own. Operations: `NewBlockchainV2` with
  `loadChainFromStorage`, `addBlockV2` with `validateBlockV2` and `processTransactionUTXOs`,
  `CreateNewBlockV2`, `CreateTransaction`, getters. Correct when the chain is linked from the genesis
  block on, when UTXO set, height and best block are those of the chain, and when nothing that was
  acknowledged gets lost.
* **Storage** (`storage/leveldb.go`). State: the keys `block_hash_<hash>`, `block_number_<n>` and
  `best_block`. `StoreBlock` writes them one after the other, without a batch and without a lock, after
  `addBlockV2` has released `bc.mu`. Correct when, whatever the moment of a crash, the next load finds
  a linked chain with every acknowledged block.
* **UTXO set and mempool** (`core/utxo.go`, `core/blockchain.go`). State: outputs by transaction hash and
  index; pending transactions by hash. Correct when balances are those of a ledger of accounts, a
  payment is confirmed as often as asked for, and none that was answered with "pending" is lost while
  the node runs (the mempool is never stored).
* **RPC server** (`rpc/server_v2.go`). A goroutine for each HTTP request; `submitBlock`,
  `createBlockTemplate`, `sendTransaction`, `getBalance`, `getHeight`, `getBestBlock`; 50 slots for
  requests, a counter of requests for each address. Correct when every slot is given back and no address
  gets much more than its share.
* **Consensus rules** (`core/consensus.go`, `core/blockchain.go`, `core/types.go`, genesis files). No
  state of their own beyond the configuration; the difficulty is carried from block to block. Correct
  when templates can be mined, when what miners find is accepted, and when rewards follow the schedule.
* **Miner** (`cmd/kalon-miner-v2/main.go`). Three goroutines (worker, event processor, statistics), a
  bounded event channel, a stop channel, and `callRPC`, which sends a request up to three times.
  Correct when repetitions do no harm, when its log says what happened, and when `Stop` returns.
* **Node** (`cmd/kalon-node-v2/main.go`). Opens storage, blockchain, RPC server and P2P network, and
  stops them; the shutdown of the RPC server is not awaited before the database is closed.
* **P2P network** (`network/p2p.go`). Peer table, a goroutine for each connection, goroutines that accept,
  dial seed nodes and clean up, two channels for received blocks and transactions that nothing in the
  node reads; the node configures no seed nodes. Correct when the table lists the connections that are
  served, and when no goroutine outlives `Stop`.
* **Legacy miner** (`mining/miner.go`, `mining/randomx.go`). Workers, a loop that asks for templates,
  and one more goroutine for each template that waits for results; a channel of templates and one of
  results; it mines for a `Blockchain` interface that nothing in the repository implements. Correct
  when workers share the nonces, results are taken from them, and `Stop` ends every goroutine.
* **Others**: wallet, explorer, cryptography, logger.

### How they interact

Miners poll the node over HTTP: template, height and best block, then `submitBlock`. Handlers call
`BlockchainV2` concurrently; `bc.mu` orders additions, but storage is called outside of it, and UTXO
set and mempool are reached both with it (additions) and without it (`sendTransaction`, the mempool
part of a template). Storage is read only by `NewBlockchainV2` and by `StoreBlock` itself.

### What is hard

Handlers interleave between `bc.mu` and storage; a crash may fall between any two keys; a `Put` may
fail and the error is only logged; templates are mined for seconds while the chain moves on, and are
submitted late, repeatedly, or with the answer lost; a template mixes a best block and a mempool that
were read at different times; transactions are keyed by a hash that does not cover their inputs; and
difficulties come out of a multiplication that nothing bounds. `PROJECT.json` lists these hazards at
their lines, each with the properties that watch it.

## 2. Modules

### ChainStore

A *handler* is an RPC goroutine in `handleSubmitBlockV2`; `Boot` is the goroutine in
`NewBlockchainV2`. The part of `addBlockV2` under `bc.mu` is one action (`AddBlock`), since nobody sees
what is inside. `StoreBlock` is four (`PutHash`, `PutNumber`, `ReadBest`, `SetBestBlock`), one for each
access to LevelDB; `Reply` is the return of `addBlockV2` and the answer. `PutFails` is a `Put` that
returns an error: `StoreBlock` gives up and `addBlockV2` only logs it. `Crash` is the end of the process
at any moment, which keeps what is in LevelDB; `CloseStorage` is `NodeV2.Stop` closing the database
under handlers that still run; `NewBlockchain` loads the chain and, at height 0, adds the genesis block
and stores it like any other. A load that meets a number for which there is no block is given up: the
chain is emptied, the UTXO set keeps what was applied to it so far. `Mine` gives a miner a template on
the best block and seals it; miners submit blocks when and as often as they like, and only blocks that
were made for a template, which have numbers from 1 on. (The early return of `validateBlockV2` for number
0 is modelled, but only the genesis block takes it.) A block is its hash, number, parent and timestamp;
the UTXO set is the sequence of the blocks that were applied to it.

`DurableChain` knows no keys, locks or goroutines: a chain that only grows at its end by blocks that
follow, and restarts that may forget a tail but no confirmed block. ChainStore maps to it with
`chain <- blocks` while the node is up and `chain <- what a restart would load` while it is down. So a
crash is a `Recover` of the abstract specification at the moment it happens.

| Property | Kind | Says |
|---|---|---|
| `TypeOK` | invariant | types; no nil in the loaded chain |
| `ChainLinked` | invariant | memory is a linked chain from the genesis block; best block and height are its end |
| `UtxoIsLeftoverThenChain` | invariant | every block of the chain is applied once and in order; what comes before is what one load that was given up had read |
| `AckedSurvive` | invariant | an acknowledged block is in the chain, and would be after a restart now |
| `BestKeyResolves` | invariant | `best_block` never names a block that is not stored |
| `QuietStoreComplete` | invariant | when no store is under way, what was not reported as unsaved is stored under its number |
| `ImplementsDurableChain` | refinement | the node keeps DurableChain's promise |

Runs:

* `chain_restart` (78,543 states): `TypeOK`, `ChainLinked`, `AckedSurvive` and `ImplementsDurableChain`
  for one handler, three starts, hashes up to 5 (so four mined blocks, one
  of them without proof of work, two times on the clock), no failing `Put`. Crashes fall between all
  keys of the genesis block and of up to three later blocks, and on two loads, of which the second
  reads what the first left behind: nothing new can happen with a further one, as the proofs confirm.
* `chain_concurrent` (2,206,700 states up to symmetry of the handlers): `BestKeyResolves`, `QuietStoreComplete` and
  `UtxoIsLeftoverThenChain` for two handlers, `Put`s that fail, the database closed under handlers, three mined
  blocks and three starts. Two handlers suffice for every order of two stores, which is what the code does not
  serialise; with three blocks above the genesis block a load can read one of them before it meets a missing number
  and is given up, and a further load reads what the new chain and the old one have left in the store together.
  `QuietStoreComplete` rules out silent losses only: a block whose `StoreBlock` failed is reported in the log, and
  lost all the same (`AckedSurvive` is about the loss).
* `chain_ack_lost`: a finding, section 3, where two more instances show why the UTXO set is not said to be that of
  the chain, and `ChainLinked` is checked for one handler only.

That a submission is answered needs no property: `StoreBlock` is straight-line code without a lock.

### Ledger

The same `addBlockV2`, now seen from the UTXO set and the mempool: as both have locks of their own, each
access is a step. `CreateTransaction` and `AddTransaction` are the two halves of `sendTransaction`;
`submitBlock` is `SubmitBlock`, `SpendInput` for each input, `CreateOutput` for each output,
`RemoveTransaction` and `AppendBlock`, with `adding` for the block whose `addBlockV2` holds `bc.mu` and how far it is.
`CreateNewBlock` reads the mempool now and has read the parent before, so any block that was once the best may be
its parent. An output's key is `<<transaction hash, index>>` and the hash of a payment is its parties, amount and
fee, because the code sets no nonce and hashes no inputs. `ParseInputs` is what `parseBlockData` makes of the two
ways to write an input's hash. Amounts may be 0 (the server turns 0.5 into 0), and stay far below 2^64.

A restart loses mempool and calls. After `Restart` the node has a prefix of its chain (ChainStore and
DurableChain say which) and its UTXO set is the replay of it; after `RestartGivenUp` it has the genesis block and the
UTXO set of the blocks that were read before the load was given up. `pending` remembers what was answered with
"pending" and before which restart. After a load that was given up there is no further restart here (a bound: what
the store then has is in ChainStore), and the properties about balances and outputs, which say nothing of a chain
under which foreign outputs lie, except it (`givenUp`).

| Property | Kind | Says |
|---|---|---|
| `TypeOK` | invariant | types; no negative change, no change of nothing |
| `BalancesAreAccounts` | invariant | as long as the chain's inputs are in order (`InputsInOrder`), the balance of `getBalance` is that of a ledger of accounts after the same chain |
| `BalancesCoverAccounts` | invariant | in order or not, it is never less |
| `RestartKeepsUtxos` | action property | a restart that forgets no block computes the UTXO set that the additions had made |
| `ConfirmedAsOftenAsAsked` | invariant | no payment is in the chain more often than it was asked for |
| `PendingIsNotLost` | invariant | what was answered with "pending" since the last restart stays in the mempool until it is in the chain |
| `OutputsAreKept` | action property | an output keeps owner and amount, and a spent one stays spent |
| `InputsAreSpent` | invariant, violated | inputs of confirmed payments are outputs of the chain, and spent |

* `ledger_payments` (573,058 states): two accounts with three payments (two that can take the same output, one
  of which pays nothing but a fee and the other needs several outputs, and one back), wallets that do not wait for a
  payment to be confirmed, submitters that write inputs in hex and those that do not, four templates, rewards of 4,
  and a restart, of either kind, which may forget a block: enough for change, for payments that spend outputs of
  payments, for the same output taken twice, for templates that outlive their parent or overlap an addition, and for
  a block with two payments. The one assumption is that no payment is asked for twice with the same amount and fee
  (`PaymentsRepeat`); `ledger_repeated_payment` is what happens otherwise.
* `ledger_miner_format` and `ledger_repeated_payment`: findings, section 3.

Balances are those of a ledger of accounts only as long as what payments of the chain name as inputs are outputs from
further down, none of them named twice (`InputsInOrder`). The code does not see to it: two payments may take the same
output, kalon-miner-v2 submits inputs that the node cannot read, and when the node dies and forgets a block, a template
that was made for the forgotten one may fit again, with payments whose inputs are gone. So the property says that
nothing else can put a balance wrong, neither the order of the accesses nor templates, mempool or restarts; and
`BalancesCoverAccounts` is what is left for a wallet in any case: that it never has too little.

### Consensus

`genesis` is one of a set of configurations; `CreateNewBlock` gives out a template with
`CalculateDifficulty` and `CalculateBlockReward`. `MineBlock` is kalon-miner-v2, which finds a hash by its
own target (`MeetsTarget`) and reports the template's difficulty and reward; `SubmitBlock` is anybody else, who
reports whatever difficulty and reward `Reported` has, as `parseBlockData` takes both from the request. For both
the node only asks `ValidateBlock`. Of a hash, only the number of
leading zero bits matters, and so a word keeps its real width of 64 bits.

| Property | Kind | Says |
|---|---|---|
| `TypeOK` | invariant | types; no template is for a block beyond the next |
| `TemplateCanBeMined` | invariant | some hash meets the target of every template |
| `MinedIsAccepted` | invariant | what kalon-miner-v2 takes for a block the node accepts, and its header `ConsensusManager.ValidateBlock`, too |
| `RewardFallsAtHalvings` | invariant | rewards of templates never rise, and fall only above the blocks that the schedule names |

`consensus_rules` (104,320 states) takes eight configurations: difficulties 1, 20, 21, 23 and 64 around
the limit of easy blocks (20) and the last with a target, with and without a launch guard that raises
or lowers them; six blocks, with guard, window and two halvings in between; and two pairs of reported values,
easier and harder than the templates, one with a higher reward. `RewardFallsAtHalvings` is about
what templates pay: nothing checks the reward of a block that somebody submits. It does not say by how much a reward
falls. The schedule multiplies: 0.5, 0.25, 0.125, as in `genesis/mainnet.json`, leaves 1/64 of the
reward. `consensus_default_genesis` is a finding, section 3. The launch guard's
`initialReward` and the split of fees are computed by functions without
callers and not modelled. `ManagerValidates` has the checks of `ConsensusManager.ValidateBlock` that
concern a header, with the target as a number of 256 bits (`IsValidHash`) where `validateBlockV2` compares 64.

### MinerClient

`worker` is the control state of `miningWorker` with `mineBlock`, `handleBlockFound`, `AddBlock` and
`callRPC`; the event processor, the statistics goroutine and `Stop` are actions of their own. Calls that
only read the node are one step, in which the call may also fail: then the check for outdated work is
passed (`CheckHeight`, `CheckBestBlock`), as in the code. `submitBlock` is not: every attempt puts a
request into `submissions`, which the node handles at any later time or never, also when the miner has
given up waiting; the answer reaches the worker only if it still waits for this attempt. Other miners
extend the chain at any time. The node does not restart here (ChainStore has that).

| Property | Kind | Says |
|---|---|---|
| `AddedOnce` | invariant | no block is twice in the chain, in spite of repeated and late submissions |
| `ReportsAreTrue` | invariant | "submitted" means in the chain; a rejection of the first attempt means never in the chain |
| `FoundIsReported` | liveness | a block that was found is submitted and its fate logged |
| `StopReturns` | liveness | `Stop` returns wherever it finds the worker, unless the event channel is full |
| `NothingAfterStop` | action property | after `Stop` nothing is found, sent or logged |

`miner_client` (327,510 states) has three blocks to find, two attempts of each (three in the code: the
second is a repetition, a third adds nothing to what it may do), and a channel of one event (100 in
the code). Fairness: weak, for the worker, for each of the two other goroutines and for `wg.Wait`, as the Go
scheduler justifies; the HTTP client's timeout of 30 s ends every attempt. None for the node, for finding
a hash, or for the call of `Stop`.

The exceptions in the two liveness properties are needed: the event processor ends as soon as the stop
channel is closed, whatever is in the event channel; a worker that has just found a block and finds the
event channel full then waits for ever, and `Stop` with it. `ReportsAreTrue` says nothing of a rejection of
a later attempt, as the first may have added the block: the miner then logs a failure for a block that
is in the chain.

### P2PNetwork

A connection is what its goroutine does next (`step`) and whether its socket is open at this end. Its
actions follow `handleConnection` (or `connectToPeer`, for a seed node) through `addPeer`, the select of
`handlePeerCommunication`, `ReadBytes`, the send on `blockChan` and the deferred calls. The goroutines of `Start` have
a state each: `accept` is in its select (`AcceptSelect`), in `listener.Accept` (`Accept`, `AcceptFails`), or in the
`IsRunning` of its error path (`AcceptIsRunning`), which waits for `mu` while `Stop` has it; `discover` dials
(`Discover`, `ConnectToSeed`) and `maintain` cleans up (`CleanupInactivePeers`) until they find the stop channel closed
(`EndDiscover`, `EndMaintain`). `peerMutex` is held
within one step, except by `GetNetworkInfo`, which calls `IsRunning` and so waits for `mu` while it holds
`peerMutex`; `Stop` has `mu` and waits for `peerMutex`. The two can block each other for ever (section 3), and the
liveness properties except this case, `Deadlocked`, and no other. Nothing in the node calls
`GetNetworkInfo` today.

Three things are assumed. A dial, which ends after 10 s, is over at the next tick of `discoverPeers` after
30 s (guard of `Discover`); without this two goroutines could dial the same seed node. An address and
port connect again only when their last connection is closed here. And any peer in the table may be
inactive: `LastSeen` is only renewed by lines that are messages, so an open connection may be cleaned up.

`removePeer` deletes by ID. A goroutine whose connection was cleaned up finds out late, and removes
whichever connection has the ID by then; the history variable `cleaned` names the IDs for which this is
possible, and the properties except them. Without the exception TLC shows a peer that is connected and
served but not in the table, so that `Stop` does not close it.

| Property | Kind | Says |
|---|---|---|
| `TypeOK` | invariant | types; a peer stands under its own ID; the channel holds no more than it can |
| `ListedIsServed` | invariant | each peer in the table has a goroutine that serves or is about to remove it |
| `OpenIsListed` | invariant | each connection that is open and served is in the table |
| `OneConnectionPerID` | invariant | an ID has one connection at a time, dialled or accepted |
| `StopClosesReaders` | invariant | after `Stop` no goroutine reads from, or forwards from, an open connection |
| `NetworkEnds` | liveness | after `Stop` the goroutines that accept, dial and clean up end, and those of all connections; the table is empty, accepted connections are closed |
| `ClosedEnds` | liveness | the goroutine of a closed connection ends, although nothing reads `blockChan` |

`p2p_network` (118,352 states) has one remote peer, one seed node (the package takes any; the node gives
none), a channel of one block (100 in the code) and two connections: of one address one after the other,
or of both at once. Connections meet only in the table, under one ID, and there two are enough for a replaced entry;
the proofs have no bound on them. The channel is full after one block, and every later one meets the default of the
select. Sockets to seed nodes are closed by `Stop` or the clean-up only, which `NetworkEnds` allows.

Fairness: weak for each connection's goroutine, for dialling, and for accepting, except that nobody need
connect (a closed listener ends a call of `Accept`); strong for those that want `peerMutex`,
since a blocked `Lock` of Go's `RWMutex` keeps new readers out; strong for reading from a closed connection,
which has finitely many lines left in its buffer; strong for the ends of `discoverPeers` and `maintainPeers`, for
which the closed channel is ready at every look and a tick only every 30 or 60 s. None for peers or callers.

### RpcServer

A request is a goroutine of `net/http`. `Enter` takes a slot in `limitConnections` (a request that finds none
is answered at once, and is no step), `Admit`, `Refuse` and `AdmitLocalhost` are `checkRateLimit`, atomic
under `s.mu`, `Health` is the path without it, `Handle` is the rest of `handleRequest` however it ends, and
`Leave` is the deferred receive. `clock` advances between any two steps. `Stop` only cancels a context;
`Shutdown` is the goroutine that waits for it; and `Exit` is `NodeV2.Stop` with the return of `main`, which
awaits neither: requests end where they are. That is the `CloseStorage` and the `Crash` of ChainStore, and
why an addition may be neither finished nor answered.

| Property | Kind | Says |
|---|---|---|
| `TypeOK` | invariant | types; as many slots are in use as requests are in a handler |
| `AtMostTwicePerMinute` | invariant | in any minute an address gets at most twice its limit, in spite of resets at fixed times |
| `RoomAgain` | liveness | when all slots are in use, one is given back, however its request ends |

`rpc_server` (268,138 states) has one address and localhost, two slots, a limit of two requests per
minute of two ticks, and time for three periods of the counter: two meet in a minute, and a third may
not. `AtMostTwicePerMinute` is the bound that holds; the limit itself does not, since a full period may end
just after its requests and the next begin with as many. Fairness: weak for each request, as methods
return and `ReadTimeout` and `WriteTimeout` end what waits for the client.

### LegacyMiner

`Start`, `Stop` and `SetThreads` are one step each, as both locks are held throughout. A worker
(`miningWorker`, `mineBlock`) takes templates, searches its range and sends what it found, or gives up when
`stopChan` is closed. `stopChan` is a field that `Start` replaces: a send that has begun waits for the
channel it read (`stopChan` of the worker), every other look is at the newest. `loops` has a `miningLoop`
for each `Start`, `handlers` the goroutines of `handleMiningResults`.

`SetThreads` takes any `int`, changes `threads` and starts no worker; a worker reads the field twice without a
lock, for the size of the ranges (`BeginSearch`) and for whether it is the last (`SetRange`). For 0 the
division ends the process (`Panic`); a negative number becomes a large `uint64` (`Word`). Which nonces of its range
(`nonces`) win does not matter: any may, or none, so the channels count templates and results and
forget their content. The blockchain that this miner works for is an interface that nothing in the
repository implements: `HandleFoundBlock` is the time its calls take, and what becomes of a block is not said here.

| Property | Kind | Says |
|---|---|---|
| `TypeOK` | invariant | types; channels within their capacity |
| `RangesPartitionNonces` | invariant | until `SetThreads` is called, the workers of a `Start` search no nonce twice, and leave out only the last when all of them search, in 64-bit arithmetic |
| `StopEndsAll` | liveness | after `Stop` every goroutine ends, also those of earlier `Start`s, unless `Start` follows |
| `ResultsAreTaken` | liveness | a full channel of results is read again while the miner runs |

`legacy_miner` (212,945 states) has two calls of `Start`, at most two workers altogether, `SetThreads` of -1, 0 and
2, channels of one element, and six nonces, which two workers do not share evenly. They are both of one `Start`, or
an old one meets a second `Start` with one of its own. One handler can wait while results fill the
channel. The unbounded handlers of the code are at most `MaxHandlers` here: a template for which there is no room
starts none. After `SetThreads`, which starts no worker, the ranges of those that run may leave out any nonces
(section 3).

Fairness: weak for each goroutine, and strong for `MineBlock`, since the
blockchain is taken not to refuse every template; without that assumption no handler need ever be started.

## 3. Findings

Each is a run in which TLC finds the property violated; `PROJECT.json` quotes the text it contradicts.

| Run | Property | What happens |
|---|---|---|
| `chain_ack_lost` | `AckedSurvive` | blocks n and n+1 are stored at once, without a lock; n+1 is named by `best_block` and acknowledged while n has no key yet; after a crash the load meets a missing number and starts from the genesis block (`core/blockchain.go:196`) |
| `ledger_miner_format` | `InputsAreSpent` | the miner writes input hashes as arrays, the node reads hex strings: inputs stay unspent (`rpc/server_v2.go:732`) |
| `ledger_repeated_payment` | `OutputsAreKept` | the same payment again has the same hash, and its outputs replace the first ones (`core/types.go:333`) |
| `consensus_default_genesis` | `TemplateCanBeMined` | without a genesis file templates have difficulty 20000, whose target is 0 (`cmd/kalon-node-v2/main.go:195`); `genesis/genesis.json` leads to difficulty 0, with the same effect |

Others are seen with configurations that are no runs of `PROJECT.json`. TLC finds the property violated in each:

| Configuration | Property | What happens |
|---|---|---|
| `ChainLoadGivenUp.cfg` | `UtxoMatchesChain` | the load that meets a missing number empties the chain but not the UTXO set, to which it has applied the blocks below: their outputs stay (`core/blockchain.go:580`, "Reset and start fresh") |
| `ChainMixedLoad.cfg` | `ChainLinked` | after such a load the node stores a new block under the missing number, below `best_block`, which keeps its higher number; the load after the next crash reads old, new and old blocks in one chain, as it compares no parent hashes (`core/blockchain.go:575`) |
| `LedgerDoubleSpend.cfg` | `InputsInOrder` | two payments take the same output, since nothing reserves it; both are confirmed, since the result of `SpendUTXO` is ignored, and more is paid out than was mined (`core/blockchain.go:277`) |
| `LedgerPendingLost.cfg` | `PendingSurvives` | a payment answered with "pending" is gone after a restart, as the mempool is never stored (`core/blockchain.go:82`); `docs/NETWORK_ARCHITECTURE.md:299` says that LevelDB stores everything for good |
| `ConsensusDifficulty.cfg` | `DifficultyIsChecked` | a block names its own difficulty, the node asks for no other, and the next template carries it on (`core/blockchain.go:336`); `docs/DIFFICULTY_ANALYSIS.md:54` says that block validation checks it |
| `P2PStop.cfg` | `StopReturns` | `Stop` has `mu` and waits for `peerMutex`, `GetNetworkInfo` has `peerMutex` and waits for `mu` (`network/p2p.go:157`) |
| `LegacyMinerThreads.cfg` | `RemainingNoncesSearched` | after `SetThreads(2)` the one worker that runs searches half of the nonces and nobody the others (`mining/randomx.go:117`), though the last worker is said to get those that remain |

Two relatives have no configuration. With `StorageMayFail = TRUE` one handler loses an acknowledged
block as in `chain_ack_lost`, since `addBlockV2` only logs the error of `StoreBlock` (`core/blockchain.go:200`). And two
handlers may both compare with the older best block, so that `best_block` ends at the lower one
(`storage/leveldb.go:188`).

## 4. Proofs

**ChainStore_proofs.** For all constants (any number of handlers, failing `Put`s, crashes, bounds):

* `TypeCorrect`: `TypeOK`, and `BestKeyAlwaysResolves`. The inductive invariant is
  `TypeInv == TypeOK /\ KnownInv /\ StoreInv /\ JobInv`: a hash identifies one known block and its number
  is below it (so that the bound on hashes bounds heights), a key holds the block it names, and a
  goroutine past `PutHash` has its block stored. `TypeOK` alone is not inductive: that a load puts no
  nil into the chain needs the first.
* `QuietStoreAlwaysComplete`: `QuietStoreComplete`, for stores that overlap in any order. `QuietInv` says that
  blocks stand at their numbers, in the chain and at the goroutines, so that `PutNumber` only ever writes
  the block of the chain; and that a block which is neither stored under its number nor reported has a
  goroutine that has yet to store it. It needs that `best_block` never names the genesis block, or a load
  could add that block to a chain that is not empty.

* `UtxoAlwaysLeftoverThenChain`: `UtxoIsLeftoverThenChain`, through any loads. What a load reads stands at its
  number (`LoadLeavesBlocksInTurn`), so the leftover of one that was given up begins with number 0 and has no gaps,
  and every block since was applied once, behind it.

With one handler and no failing `Put` (`Serial`, `StorageMayFail = FALSE`: one miner, which waits for
its answers):

* `ChainAlwaysLinked`, `AckedAlwaysSurvive`. The invariant is `SerialInv`:
  the stored chain up to `best_block` is linked and without holes (`StoredChain`), a node that boots has
  nothing but the genesis block (`BootInv`), a serving node has the stored chain and at most the one block
  under way beyond it (`ServeInv`), and acknowledged blocks are in the stored chain (`AckInv`). The lemma
  `LoadIntact` shows that a load then returns exactly that chain.
* `Refinement`: `Spec => Abstract!Spec`, one lemma for each action: `AddBlock` is `Extend`, `Reply` is
  `Confirm`, `Crash` is `Recover` of what is stored, everything else stutters.

Both assumptions are needed: section 3 has what happens without the first, and ends with what happens without the
second.

**Consensus_proofs.** For every configuration unless stated otherwise, and chains of any length:

* `TypeCorrect`: `TypeOK`. The inductive invariant `IInv` says that blocks have their numbers, templates theirs with
  the rewards that follow from these, and templates the difficulty that follows from the block below.
* `RewardAlwaysFalls`, under `Falling`: no entry of a halving schedule multiplies the reward by more than 1.
  The schedules under `genesis/` and the default are of this kind; the type `GenesisConfig` asks for nothing.
  The reward of each number is a fold over the schedule, in the order of its entries, with a
  division in each. `RewardFalls` compares the folds of two numbers entry by entry: the one of
  the larger number is never ahead, since every entry is monotone in the reward and passes it on or
  lowers it. `RewardStays` says that both are equal unless an entry names the lower number.
* `TemplatesAlwaysMineable`, under `Mineable`: initial and guarded difficulty of
  every configuration between 1 and 64, which the default of `loadGenesis` is not, and no submitter reports
  difficulty 0, which the node would take. `MineableInv` says that the difficulties of templates and
  blocks have a target; for one that is more than 64 the target is 0, and the node refuses the block.
* `MinedAlwaysAccepted`: by `IInv`, what is left is to compare the three computations of the target.

**MinerClient_proofs.** `TypeCorrect`, `AlwaysAddedOnce`, `ReportsAlwaysTrue` and `StopIsFinal`, for every
size of the event channel, every number of attempts and of blocks, and with no fairness. The inductive
invariant `Inv` adds to the types: hashes are handed out in order (`HashInv`); all submissions of a block
have one parent, and a block in the chain stands above that parent (`ParentInv`), which is why the node's
check of the parent alone refuses a block for the second time; what an answer to the first attempt says
(`CallInv`), and that a block which was refused at once has no other submission on its way (`ReportInv`).

**P2PNetwork_proofs.** `TypeCorrect`, `ListedAlwaysServed`, `OpenAlwaysListed`, `AlwaysOnePerID` and
`StopReachesReaders`, for any number of addresses and connections. The invariant `Inv` adds `ConnInv` (before
`Stop` returns, and apart from cleaned IDs, a connection is open until its goroutine ends, in the table
from `addPeer` to `removePeer`, and not to be dialled while it is on its way there) and `CloseInv` (only
accepted connections are closed by their goroutine). `OneConnectionPerID` needs the first: a seed node is
not dialled because it is in the table, and it is in the table because its connection is served.

**RpcServer_proofs.** `TypeCorrect` and `TwiceAtMost`, for every limit, every number of slots and requests and
every length of a minute. `TypeOK` is inductive as it counts slots by the requests in a handler.
`AtMostTwicePerMinute` needs `Fits`: all requests admitted but the last `count` came before the counter's
period began, and all but these and one limit's worth more came over a minute before that.

**LegacyMiner_proofs.** `TypeCorrect` and `NoncesShared`, for any number of threads, starts, handlers and nonces,
and for any arguments of `SetThreads` up to `MaxThreads` (negative ones down to the number of nonces). `WorkerInv`
says that while `SetThreads` has not been called since the last `Start`, the workers of that `Start` are as many as
`threads`, and what each has read of it, at either time, is that number. The rest is arithmetic: no product or sum
of the ranges reaches 2^64 when there are as many workers as threads (`RangeBounds`), neighbouring ranges meet
(`RangesCover`) and others do not (`RangesDisjoint`).

**Ledger_proofs.** For any number of accounts, miners, payments, templates and restarts, any wallets, and submitters of
either format:

* `TypeCorrect`: `TypeOK`. `TypesInv` types what the calls under way hold as well; that change is
  never negative, and never an output worth nothing, is a fact about sums over the outputs that `CreateTransaction`
  takes.
* `RestartsKeepUtxos`. `UtxosInv` says what the UTXO set is between any two steps of an addition, as long as no
  load was given up: the replay of the chain, then of the transactions that were gone through, then of the inputs and
  outputs of the one at which it is. No other call writes to it, so nothing else can show in it.
* `PendingNeverLost`, between restarts. `ShapeInv` says what blocks, templates, mempool and calls are made
  of: every block of the chain, and the one being added, was read from a template, which has its own
  reward and otherwise payments with different hashes. `PendingKept` is the property by blocks instead
  of positions, and inductive with it.
* `ConfirmedOnce`, when no payment is asked for twice (`~PaymentsRepeat`). That a
  payment leaves the mempool when it is confirmed is not enough, because it stays in templates that were
  made before, and a restart may forget the block that confirmed it. The invariant `UniqueInv` therefore
  has a ghost, `anc`: the ancestors of every template ever made, of which there is no variable. A template
  never has a payment in common with an ancestor (`AncestorsOK`), because what it takes from the mempool
  is in no block of the chain it continues (`WhereHashesAre`); and no two blocks of one chain do.
* `OutputsNeverChange`, under the same assumption. Between the steps of
  an addition the UTXO set has outputs of the transactions gone through only, and the next transaction's hash
  is not among theirs, so that its outputs have new keys.
* `BalancesAlwaysCover`, under the same assumption. The invariant `OutInv` has another ghost, `out`: all outputs
  ever made, with owner and amount, in whatever chain. It only grows, the UTXO set is always among them (`Fits`), and
  every transaction there is takes from it only outputs of its sender, worth no more than it
  pays, its fee and its change together (`Good`): `CreateTransaction` saw to that, and what becomes of the outputs
  afterwards does not change what they are worth. So a transaction lowers the sum of an account's unspent outputs
  by no more than a ledger of accounts does (`BalanceOfTx`), and less if an input is not found, was spent before, or
  was never read; and so does a chain of transactions (`ChainCovers`).

`ledger_repeated_payment` is what happens without the assumption on repetitions.

**FoldFacts.** The provers instantiate no theorem that has an operator among its parameters, neither the
library's induction rules nor anything about folds with any operator. So this module states induction for sets
(`NumberInduction`: a set that has 0, and n + 1 with each n, has all numbers; `SubsetInduction` for finite sets),
from the well-foundedness of `<`; and has the operator of a fold as its constant `Op`, so that each fold
is an instance of the module. `FoldHasRun` and `RunIsFold` turn a fold into the sequence of its intermediate
values, `FoldOfNone` and `FoldOfOneMore` are its two equations, and `SumOfNone`, `SumOfOneMore`,
`SumOfEqual` and `SumOfUnion` are those of sums over finite sets. All follow from the definitions of the
community modules.

Liveness (`FoundIsReported`, `StopReturns`, `NetworkEnds`, `ClosedEnds`, `RoomAgain`,
`StopEndsAll`, `ResultsAreTaken`) is only model-checked, being out of reach of TLAPS here, as is everything about
`ENABLED`. So is `BalancesAreAccounts`, which rests on inputs being in order, to which the code does not see: what
holds of balances in any case is proved as `BalancesAlwaysCover`.
Every other property of a passing run is stated by a theorem, under the assumptions named above.

## 5. Mutants

A definition `X_Y` is `X` with one plausible mistake, and is defined before `X`. Every property of a
passing run has one that, put in the place of `X`, makes TLC find the property violated in the same run.

## 6. What is not modelled

* A node without storage (LevelDB could not be opened): ChainStore without its keys.
* Two blocks with the same hash: the node takes a block's hash from its submitter, and miners are
  assumed to compute it. Nor blocks with number 0, which the node would take from anybody.
* Amounts and fees near 2^64, which `sendTransaction` adds without a check: amounts are those of the coins
  there are.
* What the blockchain of the legacy miner does with a found block: nothing implements its interface.
* `EventBus` and `StateManager`: nothing in the node reads what they hold.
* The wallet, key and address code, signatures (the node verifies none), the explorer, the logger:
  sequential code or pure output.
* Power failure: LevelDB's `Put` without sync may lose its last writes; a crash of the process does not.
* P2P broadcasts and getters, which nothing calls, and a second `Start` of a network that was stopped.
* The RPC server's map of connections, which nothing reads, and its whitelist and tokens, which nothing
  fills.
* `ValidateTransaction` and the Merkle root of `ConsensusManager.ValidateBlock`: templates of the node set no
  Merkle root and pay rewards from a zero address, so they would refuse every block; nothing that runs
  calls them.
* Statistics of both miners, and the hash functions: a hash is whether it meets its target.

## 7. Open ends

For overlapping stores with crashes `ChainLinked` does not hold (section 3), so that `ChainStore_proofs` proves
it for one handler whose `Put`s do not fail, and cannot have it for all constants. `BalancesAreAccounts` is
model-checked only; half of it, that no balance is too low, is proved without its condition.

Ledger ends with the first load that is given up: what payments mean to a chain under which the outputs of
another one lie is not examined. ChainStore goes on, with blocks only.

Two parts would be worth a model if they were wired up: `ConsensusV2` with its difficulty of weighted
solve times (LWMA), which nothing calls, and the P2P network's blocks and transactions, once something
reads the channels they go to.
