# Verification of the devnet control API and its debugger

This directory holds TLA+ models of this repository: the control API (`app/api`, `lib`,
`instrumentation.ts`), the database under it, the addresses `devnet.sh` publishes, and the hooks and
the trace debugger of the explorer overlay (`stack/explorer-overlay/src/features/devnet/api`).
Beside them are the TLC configurations that check them and proofs that TLAPS checks. Source paths
are relative to the repository's root. `PROJECT.json` lists every definition that stands for code
with the lines it models, every run, every property with a fault in the code that breaks it, and
the hazards the properties are for.

To check a run: `tlc -config AnvilConcurrent.cfg MCAnvilProcess.tla`. To check the proofs of a
module: `tlapm ProjectControlProofs.tla`.

## The system

The control API is one Node.js process (a Next.js server) beside a SQLite file, a set of `anvil`
child processes, and a Blockscout stack in docker. The server is single threaded and SQLite is
called synchronously: a request, timer or child-process event runs undisturbed up to its next
`await`. All concurrency in the models is therefore of one kind: anything may happen while a
call is suspended at an `await`, and nodes and containers move on their own meanwhile. An action
of a module is one uninterrupted stretch of code, including everything it calls and writes.
The exceptions are crashes, which may come between two SQL statements of one stretch: in
`Database` an action is a statement.

### Inventory

| Component | State | Operations | Talks to | Module |
|---|---|---|---|---|
| Node life cycle, `lib/anvilProcess.ts` | `instances`: a ChildProcess handle and a configuration per project; readiness polls, SIGKILL timers | `startAnvil`, `stopAnvil`, `killAnvilProcess`, the `exit` and `error` handlers, the orphan sweep | the operating system's processes and ports | `AnvilProcess` |
| Project control, `lib/projectStore.ts`, `app/api/projects/**`, `app/api/anvil/{start,stop,processes}` | the `projects` table: port and status per project | create, edit, delete, list (which reconciles), start, stop, kill by pid | awaits the life cycle, writes the row when the call settles | `ProjectControl` |
| Active target, `lib/activeProject.ts` | a 1 s cache of rows, a 2 s cache of the process listing | resolve a request without a project to a node | instances, listing, rows | `NodeStatus`; `ActiveTargets` in `ProjectControl` |
| Node observation, `app/api/anvil/status`, `lib/nodeObserver.ts`, the polling hook `useDevnet.ts` | the last block time by port and chain; the last answer of a polled resource | resolve, probe ports, sample blocks; poll, refetch | the nodes, the page | `NodeStatus` |
| Live indexer, `app/api/stream/route.ts`, `lib/txStore.ts`, `lib/indexer.ts` | a cursor per event stream; tables `blocks`, `transactions` | poll: height, blocks, receipts, one write; the pages of blocks and transactions | the node of the resolved project | `ChainIndexer`, `BlockIndex` |
| Reset, `app/api/anvil/reset/route.ts` | none of its own | stop, delete rows and state file, sync the explorer | life cycle, tables, explorer sync | in the modules it acts on |
| Explorer sync, `lib/explorerStack.ts`, `instrumentation.ts` | a promise chain of jobs, one reported state, the watcher's memory, cooldown and cache | `syncExplorer`, `followNode` | docker compose, the node, the UI | `ExplorerSync` |
| Simulation and snapshots, `app/api/simulate`, `app/api/anvil/{snapshot,revert}`, `detectBalanceSlot` | the node's snapshot stack; table `snapshots` | snapshot, write, revert | the node | `Snapshots` |
| Patches, `lib/patcher.ts`, `lib/codePatcher.ts`, `lib/tokenBalances.ts`, `app/api/patches/**` | tables of scripts and of patch history | fund, code, storage, token balance; save, list, delete, run a script | the node | `Patches` |
| Database, `lib/db.ts`, `lib/sqlite.ts`, `scripts/resetDb.ts` | the handle of the process, the schema of the file | upgrade at open, transactions, deletion | the file | `Database` |
| ABI registry, `lib/abiRegistry.ts`, `app/api/contracts/**`, `app/api/abi/batch` | table `contracts`, a cache, a memory of misses | save, delete, list, fetch | Sourcify, Etherscan, the database | `AbiRegistry` |
| Debugger algorithms, `traceEntries.ts`, `traceAnalysis.ts` | a stack of contexts and a memory of slots during one walk | `structLogsToEntries`, `netStorageDiff`, `profileGas`, `analyzeRevert` | the trace the node logged | `TraceWalk` |
| Transactions and traces, `app/api/tx/**`, `app/api/explorer`, `useTxTrace.ts` | table `tx_traces` | trace a transaction, list internal transactions, build the page | the node's two tracers, the registry | `TraceViews`; lists in `ChainIndexer` |
| Chain profiles, EVM controls, RPC proxy, token watchlist, pages, the rest of `devnet.sh` | small tables or none | sequential or pass-through | the node, docker | not modelled, see below |

### What is hard in each, and what makes it correct

* **Node life cycle.** `startAnvil` awaits a port probe and a block lookup between its "already
  running" test and the spawn; `stopAnvil` waits for an `exit` event that another handler also
  hears; a node may ignore SIGTERM; a reload forgets every handle but kills no child. Correct
  means: a handle is the instance's own live child, a stop hears the exit and frees the port,
  every call ends, and a child in hand is not lost.
* **Project control.** Row and node are two states written at two times. Correct means: rows and
  nodes agree once nothing is under way, ports stay unique, no project is stuck in a status.
* **Node observation.** The status handler awaits probes, a batch of blocks and a balance while
  nodes are replaced, four caches age and the page asks again. Correct means: an older answer
  never replaces a newer one, a block time shown of a node that was started with one is that, and the page
  comes to the truth.
* **Live indexer.** Rows are written two or three answers after the height they were computed
  from; reset, restart, a change of project, and the rollbacks of reverts and dry runs may come between, and items
  of a batch may come back as errors. Correct means: a row is a block its project's own chain has, or has lost to one of these,
  what a batch leaves out is what did not come, the pages agree where nothing was lost, and the stream reaches the tip.
* **Explorer sync.** Jobs of several docker commands queue behind each other, the reported state
  is one variable, and a watcher compares cached configuration with an identity it asked for
  earlier. The public addresses live only in the containers that a sync recreates. Correct means:
  "ready" is true, the database holds one chain, the explorer ends up on the node that stays, at
  the address where it was published.
* **Snapshots.** One stack in the node is shared by dry runs, slot probes and users; its numbers
  begin again with every node, while the table keyed by them lives on; requests overlap and fail half-way.
  Correct means: a dry run leaves nothing, a live snapshot is listed, a listed one is what it was.
* **Patches.** A patch is a chain of calls, of which some are probes that must leave nothing, and
  a script is a chain of patches that may stop half-way; any call may fail, and several failures are passed over. Correct
  means: what the history records is what happened, and no token that answered is replaced.
* **Database.** An upgrade is a dozen statements that commit one by one. Correct means: from
  whatever an earlier build or a crash left, the next open ends in the present schema with every
  row.
* **ABI registry.** A lookup asks three sources one after another while the user saves and deletes
  the same contract, and its answer is written to a table and two caches. Correct means: the
  cache says what the table says, a user's ABI stands, and a miss is not for ever.
* **Debugger.** The walk rebuilds call contexts from depth changes alone, and must agree with an
  EVM it does not see. The page falls back on a tree of calls when there is no opcode trace.
  Correct means: the rows, the diff and the gas are those of the execution, the banner blames what ended it, and
  either trace shows the same calls.

## Modules

| Module | Models | State and its code |
|---|---|---|
| `AnvilProcess` | `lib/anvilProcess.ts` | `proc`, `config`: the fields of `instances`. `node`: what the operating system knows, with the key of the server that holds the child and, as history, `home`, the key it was started for. `exited`: exit events on their way. `killed`: `ChildProcess.killed`. `doomed`: SIGKILL timers of `killAnvilProcess`. `call`: where `startAnvil` and `stopAnvil` calls are suspended. |
| `ProjectControl` | the routes over it | `row`: table `projects`. `route`: which route awaits a call. `edits`: a PATCH that awaits its body. Extends `AnvilProcess`; every route step is a step of it with the row's write. |
| `NodeStatus` | the status route, the target it resolves, the observer, the hook that polls | `instance`: `instances`. `listing`: the cached listing. `lastBlockTime`: the observer's memory. `request`: where handlers are suspended, in one slot per poll. `shown`: the page. `node` is the environment. |
| `BlockIndex` | abstract specification of the index | `chain`, `lost` (the blocks it has lost) and `rows`; a row is stored for a block the chain has or has lost, a rollback leaves rows behind, and a wipe leaves nothing but what polls still carry. |
| `ChainIndexer` | the poll, the reset, the pages, the nodes' chains | `stream`: `lastBlock`, `lastKey` and the suspended tick; of it `since`, `missed` and `stale` are history. `rows`, `txs`: the tables. Implements `BlockIndex` with the identity on `chain`, `lost` and `rows`. |
| `ExplorerSync` | `lib/explorerStack.ts`, the watcher, the callers, what `devnet.sh` published | `state`, `queue`, `stage`: `store.state`, `store.pending` and what the running job awaits. `backend`, `index`, `frontend`, `door`: what docker holds. `published`: how `devnet.sh` published the explorer. `lastSeen`, `cooling`, `cache`, `tick`: the watcher. `owed`: the sync a route has yet to ask for. |
| `Snapshots` | dry runs, slot probes, snapshot and revert routes | `taken`: the node's snapshots by number. `content`: the writes its chain holds. `rows`: table `snapshots` by id, with `clock` for `created_at`. `req`: suspended requests. `due` and `stamp` are history: what the users' own actions left, and when the row of a snapshot of this run was stored. |
| `Patches` | the patch routes and what they call | `content`: what the node holds. `run`: the request under way, one call of the node per action; its `before` and `lost` are history: the content its operation found, and whether a failure was passed over. `history`, `scripts`: the tables. `shown`: the list of scripts a page read. |
| `Database` | `lib/db.ts`, transactions, the reset script | `disk`: the tables by shape and rows. `handle`, `stage`, `todo`: `_db` and the next statement of `migrate`. `pending`, `batch`: the open transaction. `due` is history: the rows committed so far. |
| `AbiRegistry` | `lib/abiRegistry.ts` and its routes | `contracts`: the table. `abiCache`, `missCache`: the caches. `lookup`: where `autoFetchABI` is suspended. Extends `Database`. |
| `TraceWalk` | the trace walk and three views of it | `frames`, `storage`: an EVM (external), one operation per action. `contextStack`, `storageSeen`, `entry`: the walk. `rows`, `execution`, `blamed`: diff, gas profile, revert search. |
| `TraceViews` | the trace route, its cache, the page and the list of internal transactions | `log`: the rows of calls the walk emits. `tree`: the tree the node's callTracer reports (external), a sequence of nodes that name their calls by index; `open`: the nodes under way. `made` is history: the calls the EVM made. `cache`: the row of `tx_traces`. `page`. Extends `TraceWalk`. |
| `MC*` | instances for TLC | symmetry sets and structured constants only. |
| `*Proofs` | theorems about the module they extend and those below it: `ProjectControlProofs` also `AnvilProcess`, `ChainIndexerProofs` also `BlockIndex`, `AbiRegistryProofs` also `Database`, `TraceWalkProofs` also `TraceViews` | |

Components are composed by extension. `ProjectControl` conjoins each life cycle action with the row's
write that the code does in the same turn; `LifecycleSpec` states that this adds no behaviour. `AbiRegistry`
runs over `Database`: a request needs its handle, a restart loses the caches but not the table, a
deleted file loses the table; `AbiRegistryProofs!RegistryKeepsDatabase` shows that the database below behaves as
`Database` says. `TraceViews` adds to each step of `TraceWalk` the row and the tree node that
the step makes. `Snapshots`, `Patches`, `ChainIndexer` and `NodeStatus` share no state with the others but
the nodes, whose starts and ends are environment there; `ExplorerSync` sees routes as the calls they make.

## Runs

Each run answers one question. Model values are small sets; every bound is a constant named in the
configuration. Where a run sets `SYMMETRY`, the permuted sets are ones the module treats alike, and
it has no liveness property. Deadlock is not checked: bounded chains, processes, scripts and gas run out, and
a finished system may stop. Every module but the abstract one states a type invariant, which is proved (below).

| Run | Instance | Checks |
|---|---|---|
| `anvil_concurrent` | 2 keys, 2 ports (one squatted by a foreign server), 2 processes, 2 calls, no discipline | `HandleIsOwn`, `StopHearsExit`, `StopFreesPort`; `StartSettles`, `StopReturns`, `KillTakesEffect` |
| `control_serial` | 2 projects and the legacy instance, 2 ports, 2 processes, 2 calls, reloads, one call at a time per project | `NodesAreKept`, `PortsUnique`, `RowsMatchNodes`, `StopSparesOthers` |
| `control_concurrent` | 1 project and requests without a project, 2 processes, 2 calls overlapping freely, no reloads | `LifecycleSpec` (refinement); `StartingEnds`, `RunningIsReal` |
| `status` | the conventional port and another, the default chain and another, 3 samples, a poll and one left over from a stopped effect | `AnswersAreTrue`; `StatusSettles` |
| `index_polls` | 1 stream over 2 projects that share transaction hashes, heights to 2, batches of 1, 3 blocks mined, rolled back and reset at any time, items lost | `IndexExplained`, `CursorCovered`, `KeepsPromise` (refinement of `BlockIndex`) |
| `index_rewind` | 1 project, heights to 3, batches of 2, 4 blocks mined, rolled back and reset at any time | `PagesAreTrue`, `FollowsTip` |
| `explorer_sync` | 2 identities on 2 ports, published from a terminal or on a domain behind the front door, 2 starts or requests, one failing command or API restart | `ReadyIsTrue`, `ServesOneChain`; `FollowsNode` |
| `snapshots_serial` | 1 project, 2 writes, 2 requests, 3 snapshots, 2 runs of the node | `ZeroEffect`, `LiveIsListed`, `RevertRestores` |
| `snapshots_shared` | 2 projects, a write, 2 requests | `EveryLiveIsListed`, which is violated |
| `patches` | 1 token address, 1 wallet, either layout, slots 0 and 1 probed, values to 2, scripts of two operations under one name and two ids, single patches of what a script cannot hold, any call failing and the node started again at any point | `PatchesAreExact`, `HeardTokenKept`, `RunsWhatWasShown` |
| `registry` | any older file with 1 block number and 1 project, 1 address, 1 chain, 2 lookups at all three sources | `UpgradeIsSound`, `RowsKept`, `CacheIsTable`, `UserAbiStands`; `VerifiedIsFound` |
| `trace_views` | 2 contracts, 1 slot of 2 values, 4 gas, depth 3, either tracer failing | `ContextIsTrue`, `PreviousIsTrue`, `NetDiffIsTrue`, `GasAdds`, `PageIsTrue` |

### What the runs show

**Life cycle.** However starts, stops, kills, crashes and reloads overlap, an instance's handle is its own
child, alive or with its exit event still to come. Every stop waits for an event still to come and
leaves no anvil on its port. Every call ends, even if the node ignores SIGTERM. Two calls
and two processes are enough for every race between two operations on one key; a third process adds only
repetition of a pair. The squatted port makes a readiness poll answered by the wrong server happen.

**Routes.** `Serial` says that a call on a project begins when no other call or edit of that project is suspended: the
discipline of the UI, which disables its buttons while a request runs. The API itself does not impose it. It says nothing of processes: one
that was killed by pid may still be dying when the next start comes, since `killAnvilProcess` returns at once. Under it the server loses a
child it holds in one way only, to the late exit of one it had let go of before, by a kill by pid or in this way itself (`NodesAreKept`); the port of a row is that of the
node the server holds, no held node is without a row, and a stopped project holds none (`RowsMatchNodes`); and a stop kills no other
project's held node. "Held" is the word: a node that a reload forgot, or that a late exit let go of, is out of the API's reach, and the properties
about it are among those the code breaks (below). Without the discipline the routes still do only what
the life cycle allows, a row leaves "starting", and a row shown as running without a node is put right. The concurrent run has no reloads, since one that
interrupts a start leaves the row at "starting" (below). Two processes make a kill, the start after it and the late exit happen.

**Status.** Whatever nodes come and go, whatever is cached and however requests cross, the page never goes back to an
older answer, and the block time it shows of a node that was started with one is that. Once the nodes are left alone it comes to
show the node that is there. Of a node that mines on demand `AnswersAreTrue` says nothing; what the code does there is
among the differences below (`OnDemandStaysBlank`). Two ports make the listing, the probe of the conventional port and a resolved port that
nobody listens on disagree; three samples are the fewest that tell equal gaps from one gap; a second slot
holds the request of an effect that was stopped. `Holes = FALSE` says that a batch that comes back in part
lacks blocks at one end: one that lacks a block in the middle is a behaviour below.

**Indexer.** Chains are rolled back at any time, as the API's own routes do by `evm_revert` without touching the tables, nodes restart and
are reset with polls under way, and single items of a batch are lost. Through all of it a row is a block that its own project's chain has
at that height, or has lost there since the last reset, or that a poll carried over that reset; the promise of `BlockIndex` says
of every step what `IndexExplained` says of every state. From the cursor's first value on, every height up to the
cursor has a row, save those whose items came back null or as errors and those a reset deleted. For a project whose chain has
lost nothing the pages agree: its blocks with their transaction counts, its transactions with their blocks. The
stream reaches the tip in any case. Batches of 1 under chains of 2 are capped batches over two projects; height 3 with batches of 2
makes a capped batch, a second batch and a shrunken chain happen.

**Explorer.** A reported "ready" is the configuration that runs, and a chain the API started or reset is alone in the
database, also when nodes were started from a terminal before, commands fail and the API restarts. If no command fails,
the explorer ends up on the node that stays, with the public addresses and the front door it had. Two runs of a
node are one change of chain, the only event these properties are about, and make one job queue behind another.
The two ways of publishing are the two ends of what `devnet.sh` does: everything on the host with ports, and everything in
containers behind one domain.

**Snapshots.** `Serial` says what the users of a node keep apart. Between the first and the last call of a dry run or slot probe
nothing else is done to the node except snapshots. A revert, a restart and a reset begin when no request is under way on the node, a snapshot
request that waits for its block number included, and nothing comes between a revert and its deletes. Snapshot requests overlap each other
and dry runs, and fail between snapshot and row. Then a dry run leaves
nothing behind, also when its send fails and when snapshots are taken inside it. A row that was stored in this run of the node
restores what it was stored for, or is refused, whatever rows of earlier runs lie about. A live snapshot stays in the list as long as none
that was taken after it was stored before it or reverted to by an older row (`InOrder`): what happens otherwise is among the
differences below. Three snapshots are a session's, one inside it
and one before it. The clock of `created_at` ticks at every insert: two rows of one millisecond are not modelled.

**Patches.** Any call of the node may fail, also at a node that works, and the node may be started again in mid-request. An operation that was recorded
and of which the code passed over no failure (`run.lost`) was done and nothing else was: probes are rolled
back, a deployment that was only simulated leaves no account, a script that stops half-way has recorded exactly
the operations before. For ERC-20 this is claimed where the code can do it (`Feasible`): the contract answers
with data, its mapping has the Solidity layout and a probed slot, and the balance is not the probe's amount already, in which case slot 0 is
taken for a hit. A token is replaced by the mock only after the question for its code or for its balance failed (`HeardTokenKept`), never because
of a balance of zero, of the probes or of their revert. A script
runs the operations its page showed, or is refused. One token and one wallet suffice, since operations
on different addresses touch different keys; slot 1 makes a probe that misses first happen, the slot after it a mapping
out of the probes' reach; two ids make an id that was deleted and one that came after it.

**Database and registry.** Whatever an older build left, and wherever an upgrade was cut off by a crash or a locked statement, the
next one fails on nothing it finds, ends in the present schema and drops no row: those an upgrade was moving when it was cut
off stay in the table it had renamed. Above it the
cache agrees with the table through saves, deletes, late answers, restarts and the deletion of the file; a user's ABI
gives way only to a lookup that began before it was saved; and a verified contract is found although earlier
lookups missed it. Two rows of one number in two scopes are what the last rebuild of the key is about, and one number
with one project gives them; two lookups of one address cross each other and the user.

**Debugger.** As long as a program uses no CREATE and no CALLCODE, rows name the right contract through calls, delegate calls, calls of
accounts and failures. Values before writes and the storage diff are right until a frame is rolled back or a slot is
written without having been read. Attributed gas adds up until a call has no code to trace or a frame
loses its gas. The banner looks for the last REVERT or INVALID before anything else, and so blames one that was survived when the
transaction then runs out of gas (below): no property of a passing run is about it. The page shows the calls that were made, from the opcodes or
from the tree, and asks for the ABI of every contract in them; the internal transactions of an address
are the calls it made and got. Depth 3 with 4 gas holds a call, a nested
delegate call and a write after a return. `Touching = FALSE` opens pages only for executions that use no storage, since rows of calls do not
depend on it; the walk itself goes through storage in the same run.

### Fairness

* `AnvilProcess`, `ProjectControl`: weak fairness of each suspended call's next step, of the
  SIGKILL timers and of exit events. Node's event loop runs what is due, and the kernel reports
  children. Nothing is assumed of nodes (they may hang in boot or ignore SIGTERM), users or crashes.
  `ProjectControl` adds that projects are listed again and again, as an open UI does; this is where
  `reconcileProjectStatuses` runs.
* `NodeStatus`: the page's interval fires, a handler goes on (every call of a node has a timeout), exits are reported and
  the listing ages. `StatusSettles` assumes in its statement that the nodes are left alone.
* `ExplorerSync`: awaited docker commands return (each has a timeout), watcher timers fire, a route that saw its
  node up goes on to its sync. `FollowsNode` assumes in its statement that nothing fails and that the node stays.
* `ChainIndexer`: the poll timer fires, and a request is answered or fails (it has a timeout).
  `FollowsTip` assumes in its statement that the stream stays open, the node stays up, and requests stop failing.
* `AbiRegistry`: a started upgrade or transaction goes on, a fetch ends by its timeout at the latest, misses expire. Strong
  fairness of asking, as a page that shows the address does whenever it may, and of hits: a source that has the contract
  does not fail every time. `VerifiedIsFound` assumes in its statement that the database stays usable.
* `Snapshots`, `Patches` and `TraceViews` have no liveness property.

### Where the code differs from what is said of it

`snapshots_shared` ends in a counterexample (`findings` in `PROJECT.json` quotes the lines): the table is
keyed by the node's snapshot number, and a second project's first snapshot takes over the row of the first project's.

The same disagreement of code and words is stated, at other places, by properties that are defined beside those of the
runs and that TLC finds violated when they are checked in place of the run's own:

| What the code does | Where | Violated |
|---|---|---|
| two overlapping starts of a project both spawn; the first child is in nobody's hands. A comment: "Anvil is already running for this project" (:111) | `lib/anvilProcess.ts:113` | `OneNodePerKey` in `anvil_concurrent` |
| one call at a time: kill by pid, start, then the old child's exit clears the handle of the new one, and a third start is not refused | `lib/anvilProcess.ts:183` | `OneNodePerKey` in `control_serial` with a third process |
| a PATCH whose body arrives after a start changes the port of a running project, where :41 says "Stop the project before editing it" | `app/api/projects/[id]/route.ts:44` | `RowPortMatchesNode` in `control_concurrent` with a second port |
| a DELETE during a start's port probe leaves a node without a row, where `README.md:672` says "delete a project and all its data" | `app/api/projects/[id]/route.ts:66` | `NoNodeWithoutRow` in `control_concurrent` |
| after a reload a project whose node still listens is put at "stopped", where :92 says "Reconcile `status` with reality" | `lib/projectStore.ts:101` | `ListingIsReal` in `control_serial` |
| a reload during a start leaves the row at "starting" until the next start or stop | `lib/projectStore.ts:101` | `StaleStartEnds` in `control_concurrent` with `Reloads = TRUE` |
| a poll that waits for receipts in a reset writes rows of the wiped chain, where the reset says "Wipes indexed data" | `app/api/stream/route.ts:133` | `RowsTrue` in `index_rewind` with `Rewinds = FALSE` |
| a poll stores a block of a dry run that is then rolled back, where :90 says "a simulation must not leave state behind" | `app/api/simulate/route.ts:91` | `RowsTrue` in `index_rewind` |
| a chain that was wiped and outgrew the cursor is taken for the old one, where `README.md:714` promises "`reset` when the node restarts or the chain is wiped" | `app/api/stream/route.ts:91` | `NoSilentReset` in `index_rewind` with `Rewinds = FALSE` |
| projects on one chain id with the same accounts share transaction hashes, hence rows, where :98 says "Hash is globally unique" | `lib/txStore.ts:38` | `PagesAreTrue` in `index_polls` |
| of two snapshot requests that wait at once the older stores last, and a revert to the younger deletes its row | `app/api/anvil/revert/route.ts:24` | `EveryLiveIsListed` in `snapshots_serial` |
| a request that fails after `evm_snapshot` leaves its number to a row of an earlier run, which then restores what it never named | `app/api/anvil/snapshot/route.ts:15` | `ListedRestores` in `snapshots_serial` |
| overlapping dry runs consume each other's snapshots, and a write stays | `app/api/simulate/route.ts:91` | `ZeroEffect` in `snapshots_serial` with `Serial = FALSE` |
| a question that fails is read as a token that does not work, and the mock is installed over it, where :198 says "existing token works — leave it alone" | `lib/tokenBalances.ts:197` | `WorkingTokenKept` in `patches` |
| the slot of a Vyper mapping is found, and the balance is written under the Solidity key | `lib/tokenBalances.ts:266` | `BalanceIsSet` in `patches` |
| a contract that answers with no data is taken for a working token, where :178 says "Guarantee a usable ERC20" | `lib/tokenBalances.ts:198` | `TokenIsUsable` in `patches` |
| one gap between two blocks of an on-demand node is shown as its block time, where `README.md:565` says "the field stays blank rather than inventing a number" | `lib/nodeObserver.ts:56` | `OnDemandStaysBlank` in `status` |
| a survived revert is blamed when the transaction later runs out of gas, where :123 says "the revert (or invalid opcode / gas exhaustion) that ended the transaction" | `traceAnalysis.ts:131` | `FailureIsFound` in `trace_views` |

Other behaviours the models reach, by changing a constant or a condition:

| Behaviour | Where | How to see it |
|---|---|---|
| A stop's port sweep hits a legacy node on the port of a stopped project | `lib/anvilProcess.ts:283` | `StopSparesOthers` without `Legacy` |
| A batch that lacks a block in the middle is read as a block time of twice the length | `lib/nodeObserver.ts:48` | `Holes = TRUE`, `BlockTimeIsTrue` |
| A request older than the first block clears the remembered block time, and the page loses it for a poll | `lib/nodeObserver.ts:60` | `MaxEvents = 2`, `BlockTimeIsSteady` |
| A forked project's start syncs without the fork block, and the watcher, which compares chain and port only, leaves it so: the fork is indexed from 0 | `app/api/projects/[id]/start/route.ts:43` | `Fork = {TRUE, FALSE}`, `ForkBlockKept` |
| After a failed `compose up` the watcher never tries again, and the front door is gone for good | `lib/explorerStack.ts:119` | `FollowsNode` without `failed = 0` |
| A failed inspection, or a failed recreation of the UI, falls back to the compose file's addresses on localhost | `lib/explorerStack.ts:200` | the same |
| An earlier job's "ready" is reported while a later one is queued | `lib/explorerStack.ts:442` | `ReadyIsTrue` without its condition on `stage` |
| A node restarted from a terminal under the same identity is not followed | `lib/explorerStack.ts:122` | `ServesOneChain` without `node.told` |
| An item of a batch that comes back as an error is skipped for good | `app/api/stream/route.ts:116` | `CursorCovered` without `missed` |
| A snapshot request that waits for its block number over a reset stores a row of the old chain under a number of the new | `app/api/anvil/snapshot/route.ts:19` | `Serial = FALSE`, `RevertRestores` |
| A user's transaction mined during a dry run is rolled back with it | `app/api/simulate/route.ts:51` | `Serial = FALSE`, `ZeroEffect` |
| A balance that is the probe's amount already makes slot 0 a hit, and the balance is written there | `lib/tokenBalances.ts:158` | `PatchesAreExact` without `Feasible` |
| A lookup that began before a user saved the contract's ABI replaces it | `lib/abiRegistry.ts:139` | `UserAbiStands` without its condition |
| Rows an upgrade was moving when the process died stay in `blocks_legacy` or `blocks_old`, which nothing reads again | `lib/db.ts:104` | `RowsKept` without its case for the two tables |
| The walk pushes no context for CREATE: a constructor's steps are shown as its creator's | `traceEntries.ts:371` | `Untracked = TRUE`, `ContextIsTrue` |
| Writes of a reverted call stay in the walk's memory of slots and in the storage diff | `traceEntries.ts:399`, `traceAnalysis.ts:358` | `NetDiffIsTrue` without its condition |
| Gas forwarded to an account without code is counted as spent by the call | `traceAnalysis.ts:288` | `GasAdds` without its condition |

Seen while reading, and outside the models:

* An upgrade that throws leaves the handle assigned, and later requests use the half-upgraded file
  (`lib/db.ts:18`; the model has the handle "broken", and claims only that no row is lost).
* `extractStorageWrites` keys writes by the slot alone, whichever contract owns it (`trace.ts:64`).
* A trace of which one half failed is cached without an error and never completed; `tx_traces` is
  keyed by hash and survives a reset, so that the same transaction on the new chain shows the old trace;
  `pruneTxTraces` has no caller (`lib/txStore.ts:141`).
* With the API on the host and a front door, a sync brings the door up without the address of the host's UI and "/" then
  leads to a container that does not exist (`stack/devnet-proxy.yml:14`, `devnet.sh:556`): `MCWays` leaves this way out.
* The UI container is recreated after the proxies that resolved its address were restarted (`lib/explorerStack.ts:432`).
* `tokentx` lists a transfer to oneself twice (`app/api/explorer/route.ts:79`).
* Saving the chain profile that is active makes none active (`lib/chainProfiles.ts:23`).

## Proofs

The theorems hold for every value of the constants that meets the modules' `ASSUME`s: any number
of projects, ports, processes, calls, streams, chains, requests, contracts, lookups, tables and values.

| Module | Theorem | Says | Under |
|---|---|---|---|
| `ProjectControlProofs` | `TypeCorrect`, `HandlesAreOwn`, `StopsHearTheExit`, `StopFreesItsPort` | `TypeOK`, `HandleIsOwn`, `StopHearsExit`, `StopFreesPort` of the life cycle | nothing more |
|  | `NodesStayKept` | `NodesAreKept` | `Serial` |
|  | `RoutesRefineLifecycle` | the routes implement the life cycle | nothing more |
|  | `PortsStayUnique`, `ControlTypeCorrect` | `PortsUnique`, `ControlTypeOK` | nothing more |
|  | `RowsAndNodesAgree`, `StopsSpareOthers` | `RowsMatchNodes`, `StopSparesOthers` | `Serial` |
| `NodeStatusProofs` | `TypeCorrect`, `NewestIsShown` | `TypeOK`, `NewestAnswerShown` | nothing more |
|  | `AnswersStayTrue` | `AnswersAreTrue` | `~Holes` |
| `ChainIndexerProofs` | `TypeCorrect`, `PollsKeepPromise`, `RowsAreExplained`, `CursorStaysCovered` | `TypeOK`, `KeepsPromise`, `IndexExplained`, `CursorCovered` | nothing more |
| `ExplorerSyncProofs` | `TypeCorrect`, `ReadyIsKept`, `OneChainServed` | `TypeOK`, `ReadyIsTrue`, `ServesOneChain` | nothing more |
|  | `PublishedWhereItWas` | `AddressesCarried`: while no command has failed, the UI and the door are where `devnet.sh` put them | nothing more |
| `SnapshotsProofs` | `TypeCorrect` | `TypeOK` | nothing more |
|  | `DryRunsLeaveNothing`, `RevertsRestore` | `ZeroEffect`, `RevertRestores` | `Serial` |
|  | `LiveStaysListed` | `LiveIsListed` | `Serial`, `OneProject` |
| `PatchesProofs` | `TypeCorrect`, `ScriptsRunAsShown`, `RecordedIsDone`, `TokensAreKept` | `TypeOK`, `RunsWhatWasShown`, `PatchesAreExact`, `HeardTokenKept` | nothing more |
| `AbiRegistryProofs` | `UpgradesAreSound` | `UpgradeIsSound`, `RowsKept` of the database alone | nothing more |
|  | `RegistryKeepsDatabase` | the registry implements `DatabaseSpec` | nothing more |
|  | `UpgradesBelowAreSound`, `RowsBelowAreKept` | `UpgradeIsSound`, `RowsKept` with the registry above | nothing more |
|  | `RegistryTyped`, `CacheAgrees`, `UserAbisStand` | `TypeOK`, `CacheIsTable`, `UserAbiStands` | nothing more |
| `TraceWalkProofs` | `TypeCorrect`, `GasAddsUp` | `TypeOK`, `GasAdds` | nothing more |
|  | `ContextsAreTrue`, `PreviousValuesAreTrue`, `NetDiffsAreTrue` | `ContextIsTrue`, `PreviousIsTrue`, `NetDiffIsTrue` | `~Untracked` |
|  | `ViewsTypeCorrect` | `ViewsTypeOK`, and with `ViewsWalk` what is proved of the walk holds below the page | nothing more |
|  | `InternalsAreTheCalls` | `InternalsAreCalls`, the last part of `PageIsTrue` | nothing more |
|  | `PagesShowTheCalls` | `PageIsTrue` | `~Untracked` |

The assumptions are the ones under which the runs check the same property, and each marks the edge of what is true: the tables
of the last section say what happens beyond it. `Serial` is, in the life cycle and its routes, one call at a time on a project; in
`Snapshots`, what the users of a node keep apart; both are described with the runs. `OneProject` is needed because the table of
snapshots is keyed by the node's numbers (`snapshots_shared`). `~Holes` says that a batch that came back in part lacks blocks at one end;
`~Untracked`, that a program uses no CREATE and no CALLCODE. Conditions that a property states itself, such as `Feasible`, `InOrder` or the
node's block time, are part of what is proved, and are named with the runs.

**Life cycle.** `HandleIsOwn` alone is not inductive: the exit handler clears the instance of the
child's key, whichever child it holds by then. `IInv` adds to it that suspended calls have the shape of their step
(`CallShape`), that only processes that exist have an owner, a signal or an exit (`Born`), that a stop
waits for a child still to exit (`StopHearsExit`), and that no instance holds this child any more (`StopOwnsChild`).
`NodesStayKept` adds, under the callers' discipline, that a key has one suspended call (`OneCallPerKey`) and that the instance
holds no child while a start of its key has none yet or a stop waits (`CallsAlone`), so that neither a spawn nor its error lets go of one.
Children of the key that a kill by pid left dying are allowed all along, and their exit events are the exception the property names.

**Routes.** Each route step is shown to be a step of `AnvilProcess`, so its theorems hold of the whole
control API, whatever overlaps. `PortsUnique` needs the types of rows and the port checks of
create and edit; an edit makes its check after its body has arrived, in the turn in which it writes.
`RowsMatchNodes` says nothing of requests, and is not inductive: it is the suspended calls that know the port a node
will come up on. `RowInv` adds them (`CallsMatch`: a call works on its row's port, and the row says "starting" until there is a
child), rows of instances (`HandlesMatch`), and that an edit that awaits its body has its project for itself (`EditsAlone`).
With `SInv` of the life cycle, `StopSparesOthers` follows from ports being unique: a child that the server holds and that
listens on a row's port is the row's or the legacy instance's.

**Status.** The page is never out of date because the effect's own poll, in slot 0, never is (`Newest`): only an answer shown makes the
others outdated, and it empties that slot. For the block time, `Mines` says that a node's timestamps are equally spaced,
and `Unchanging` follows the number through the handler while no node comes or goes: the samples of a request are
neighbouring blocks (two consecutive ones differ by the block time, unless the batch has holes), and what is remembered of a port, held
by an instance, answered or shown is the node's block time or none. All of this is about a node that was started with a block time.

**Index.** `PollsKeepPromise` is a refinement: a poll's write must be a `Store` of blocks the chain has or has lost, and a wipe may leave in `lost`
only what polls carry. The invariant (`Traced`) says that every block a poll carries is one its project's chain has or
has lost, at the height the poll has it; a rollback moves blocks from the one to the other, and a reset keeps of them those that are carried.
`RowsAreExplained` says it of the rows (`RowsKnown`), and of the transactions that each names a block that is known and holds it (`TxsKnown`), which an upsert
over another project's row keeps because it replaces the row whole. `CursorCovered` is about heights alone: `Covered` is the property, stream by
stream, and `Full` adds that a batch under way holds an item for every height from the cursor to its end; what came back null is in `missed`.

**Explorer.** A job is ready only for the configuration it brought up itself (`Built`), and nothing but a job touches the
backend. For the database, `Wiping` says that blocks of an older chain are left only while someone still has to wipe them: a sync
owed by a route, a job queued behind the running one or the running one before its wipe, or after a job that failed.
`AddressesCarried` is the safety part of `FollowsNode`: what a job reads of the old containers is what was published, between any two of its
commands.

**Snapshots.** A revert restores what its snapshot holds, so it must hold no dry run's write. A snapshot taken by a user
*inside* a session does hold one, and the invariant `Taints` says that such a snapshot is younger than the
session's own, which the session's revert therefore consumes. With it go: the open session's snapshot is live and
clean (`Returning`), there is one session per node (`OneOpen`), none beside a revert (`NotBoth`), and its chain is clean until
it writes (`NotYet`). `RevertsRestore` is about numbers given again: `SavedInv` says that a row stored in this run of the
node (`stamp`) holds what the snapshot of its number holds, also while its request waits (`RowsAreTrue`, `StoresAreTrue`), and that only
numbers given in this run have a stamp (`StampsInRun`); of a row of an earlier run the property says nothing. `LiveStaysListed` is about the
deletes by time of a revert, which take every row younger than the one reverted to. `ListInv` says that a row is as old as its stamp (`RowsStamped`),
that a request that waits has none (`StoresAreNew`), and that a revert about to delete has consumed every snapshot above its own
(`DeletesAreAbove`): what it deletes and the node still has was stored after a younger one, which `InOrder` excludes.

**Patches.** The invariant goes through the request call by call, as long as no failure was passed over and the operation is feasible (`Clean`).
`run.before` is the content an operation found. Until its first write the content is that
(`Untouched`); a request to fund deploys only where it heard that there is no token (`NoToken`); a deployment holds the code and the storage slots written so far (`Deploying`); a probe
differs from it at most in probed slots, knows whether its last one hit, and its revert restores all of it (`Searching`). The operation is
then the abstract one, `Apply`, of which `PatchesAreExact` speaks. `HeardTokenKept` needs that code is written for a request to fund only where
there was no token or a question was lost. `RunsWhatWasShown` rests on ids of scripts being used once.

**Database.** No statement may fail on what an upgrade that was cut off has left. `Leftovers` says, of the file whatever the
process does, which shapes can stand beside each other (an old table beside its copy, with rows the copy lacks). `Reached` says, of a running
upgrade, what the statements before the next one have made sure of: nothing is "plain" once the renames are past
(`FromPlain`), every table has its scope once they are added (`ToScoped`), `blocks` has its key (`ToKeyed`), and
a table about to be dropped has been copied (`Moved`). `Counted` says that every committed row is in one of the
tables `blocks` is made of, hence in `blocks` itself where no upgrade was cut off.

**Registry.** Each step of `AbiRegistry` is one of `Database` or leaves it alone, so what is proved of the
database holds below it. `CacheIsTable` needs that a process whose upgrade is not over has cached nothing: the
table may be another one by then, since its file may have been deleted (`Agrees`). `UserAbiStands` is an action property: a lookup that was asked for when the
table had no ABI finds none of the user's when it answers, unless the user came between (`Uncrossed`, `Asking`).

**Debugger.** The walk pops lazily, at the next step's depth. `Follows` says that the stack agrees with
the frames up to the depth and may be longer. `Remembers` says that what the walk knows of a slot is what it holds
and that a diff row spans from the first value to the present one; it holds until a rollback or an unseen write.
`GasAdds` is a fold over the frames. `GasIsTotal` relates the fold to the sequence of its partial sums, and from there on a step that changes the
top, pushes or pops one frame is arithmetic (`GasExtends`); `GasInv` adds that frames never hold more than the transaction, which is
what types them.

**Pages.** callTracer's tree and the walk's rows grow one call at a time, and `callTraceToEntries` takes the tree apart
recursively. `TreeInv` says that the node of a call says of it what the EVM knows, and that the nodes are
arranged by their order alone: the calls made under a node are the ones that follow it up to a last one, and the spans of
its own calls are adjacent (`Spanned`); the calls under way lead from the root to the last call that was
made, and have the EVM's depth (`UnderWay`). From that it follows that the rows of a node are a piece of the calls made
(`RowAndCalls`), hence that those of the root are all of them (`WalkShows`), whatever the programs call. `Logged` says the same of the walk's rows, and
needs that the context is the caller, `ContextIsTrue`. Both are kept by every step, so a page opened at any time, from either trace, shows
the same. `callTraceToEntries` is a recursive function of the node: that its recursion has a solution is shown by giving one, the
pieces of the calls made, and that it has no other by looking at the last node on which two would differ.

Facts by induction over lengths and numbers (that partial sums exist, that a fold is the last of them, that a set of heights has a
least and a greatest element) are proved by looking at the least number for which they fail, `LeastNatural`, since the library's
induction rules cannot be instantiated by the provers used.

### Checked only by TLC

* Liveness under fairness, which is beyond the proof system: `StartSettles`, `StopReturns`, `KillTakesEffect`,
  `StartingEnds`, `RunningIsReal`, `StatusSettles`, `FollowsTip`, `FollowsNode`, `VerifiedIsFound`.
* `PagesAreTrue`, on one project.

Every other property of a passing run is stated by a theorem. The properties that the last section of the runs names as violated are not claimed. No module uses a recursive operator.

## What is not modelled, and why

* Arguments, logs, wording and state file names of nodes; labels; decoding of calldata and events;
  formatting and filters of the debugger, slot labels, calldata views.
* `stopAllAnvils` and `clearAbiCache` have no caller.
* The reset of a node the API has no handle for deletes the rows and leaves the node running. That is modelled in `ChainIndexer`; that such a node
  dumps its state file again, and the chain id a request may name in its body (`app/api/anvil/reset/route.ts:17`), are not.
* A poll asks one port throughout. That the port stays its project's while the poll is under way is assumed: an edit that moves a
  project to another's old port in mid-poll is left out.
* Two snapshots stored in one millisecond have one `created_at`. An explicit project id that is not live, and an orphan on a
  conventional port that no instance knows, are not among the targets of `ProjectControl`.
* The announcement of a patch costs the dev account gas (`lib/patcher.ts`), which no property is about.
* What the properties exempt, and the code does wrongly, is not checked to be put right: a failed `compose up` is not retried (`FollowsNode`), an
  ABI saved during a lookup is replaced (`UserAbiStands`), rows in a renamed table are not read again (`RowsKept`), values of a reverted call stay
  (`PreviousIsTrue`).
* The two timers of an event stream that is cancelled and not aborted (`app/api/stream/route.ts:153`), and the event payloads.
* The RPC proxy, EVM controls, reads of balances, logs and receipts, and input checks keep no state. Chain
  profiles and the token watchlist are single synchronous updates of one table that nothing else writes. The fallback
  of a pure port choice and the addresses of containers are configuration.
* Pages are presentation over the hooks that are modelled. `devnet.sh`, beyond the addresses it publishes, is
  installation and docker choreography run by hand, whose reconnections after a recreation (`devnet.sh:170`) depend on
  docker's name resolution.

## Plan

What is planned is modelled and proved. What could follow, in order: the safety part of `StatusSettles` and of `FollowsTip` as
invariants (what a poll writes brings the page, or the cursor, towards the truth), of which only the fairness would then be TLC's;
`PagesAreTrue` as a theorem, for projects that differ in chain id or accounts; and, of the code, the reset's chain id and the ports of projects
in mid-poll.
