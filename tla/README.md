# A verification of taiko-preconfer

taiko-preconfer is a preconfirmation client for Taiko: while the L1 whitelist
elects its operator it builds L2 blocks, publishes them, and later proposes them
in batches to the inbox contract on L1. These modules model the parts of it
whose correctness depends on the order of events: who builds in which slot, on
what knowledge, and what the client believes of the L2 chain. TLC checks small
instances; TLAPS proves the safety of seven of them for every value of their
constants.

Check a configuration with `tlc -config X.cfg M` (PROJECT.json names the module
of each), the proofs with `tlapm M.tla` for `PreconfLoopProofs`, `PreconfLoopTurns`,
`WhitelistMonitorProofs`, `BuildingProofs`, `L2HeadProofs`, `ConfirmationProofs`,
`AnchorProofs` and `ProposalProofs`.

## The system

One process runs three loops under one `join!` (`taiko-preconfer/src/main.rs`).
They share memory; everything else is an RPC call, a websocket or the clock.

| part | state | operations | talks to |
|---|---|---|---|
| preconfirmation loop (`preconfirmation_loop.rs`) | active epoch, list of operators, the flag `waiting_for_previous_preconfer` | an iteration per L2 slot: change epoch, become active, refresh the anchor, wait for the previous preconfer, build, ask for the next operator | whitelist, anchor, sequencing monitor, block builder |
| WhitelistMonitor (`util.rs`) | `Vec` of (epoch, operator) | `change_epoch`, `update_current_operator`, `update_next_operator`, two reads | the whitelist contract |
| preconfirmation slot model (`preconf/slot_model.rs`) | active epoch | the predicates about handover windows | both loops |
| slot model (`slot_model.rs`) | none | timestamps to slots and back | all loops |
| sequencing monitor (`preconf/sequencing_monitor.rs`) | the last status, the read guard of the header | polls the status endpoint until it agrees with the last L2 header | the shared header, the flag |
| block builder, L2 client (`preconf/block_builder.rs`, `taiko/taiko_l2_client.rs`) | the parent and the nonce of the block being built | read header, anchor, nonce and mempool, sign, publish | L2 node, shared header |
| ValidAnchor (`taiko/anchor.rs`) | L1 head, last anchor id, current anchor | refresh, update of its inputs | preconfirmation loop, tracking loop, verification |
| onchain tracking loop (`onchain_tracking_loop.rs`) | none of its own | stores L1 timestamp, L1 head, L2 header | all |
| L2 head stream (`stream/l2_head_info_stream.rs`) | last confirmed id, first confirmation | handles blocks and confirmations, refetches replaced blocks, verifies batches | block and id streams, TxCache, verification |
| block and header streams (`stream/header_stream.rs`) | the last item | subscription and polling, merged, repeated items dropped | L1 and L2 nodes |
| TxCache (`tx_cache.rs`) | the unconfirmed blocks | add, retain, clear | L2 head stream, confirmation strategy |
| verification (`verification.rs`) | none | compares cached blocks with the latest batch | inbox |
| confirmation loop (`confirmation_loop.rs`) | active epoch and list of its own | an iteration per L1 slot: send, or not | confirmation strategy, the flag |
| confirmation strategy (`preconf/confirmation_strategy.rs`) | none | prunes the shared cache, forms a batch | TxCache, L1 client |
| L1 client (`taiko/taiko_l1_client.rs`) | the handle of its thread | a thread per proposal, which reads the blocks and forms the batch | inbox, L2 node |
| compression and blobs (`compression.rs`, `blob.rs`) | reader and writer of the blob being written | compress, encode as field elements | L1 client, verification |
| startup (`main.rs`) | none | reads head, batch and own unconfirmed blocks, opens the streams | all |

What makes it hard:

- **Time.** Whole decisions hang on one iteration (the first of an epoch, the
  first of a handover window), and an iteration that is late does not happen.
- **Failing calls.** A failed query leaves a list as it was, which is then the
  list of an epoch before.
- **Order.** Blocks and confirmations reach the client over four streams with no
  order between them, and the L2 chain is replaced while the client reads it.
- **Shared state.** The flag, the anchor, the header and the cache are used by
  several loops between whose awaits anything may happen. The header's lock is
  held by a task that sleeps.
- **Encodings at their limits.** A batch is cut by widths of its fields and by the
  room in a blob, and what does not fit vanishes without an error.

What makes each part correct: the preconfirmation loop builds in its windows,
in no other and in all of them, on a fresh anchor and not before its
predecessor has ended; the WhitelistMonitor names one operator per epoch; the
L2 head stream keeps exactly the unconfirmed blocks of the chain and reports a
mismatch when there is one; the block builder replaces no block of its own and ends
the window with a block that says so; the confirmation loop proposes each
preconfirmed block once, in order and in time, as a batch from which the rollup
derives the same blocks; the anchor is one the inbox accepts; startup resumes where
the process before it stopped.

`PROJECT.json` lists every component with its status, and under `hazards` what
in this code is hard to test, each at its line.

## The modules

| module | models | role |
|---|---|---|
| `SlotWindows` | `preconf/slot_model.rs` | the predicates, as operators on a position in time |
| `WhitelistView` | `util.rs` | the list of operators as a function of the epoch |
| `WhitelistSpec` | | the state machine over that function: what a WhitelistMonitor promises |
| `WhitelistMonitor` | `util.rs` | the `Vec` itself, shown to implement `WhitelistSpec` |
| `WhitelistMonitorProofs` | | the theorems about `WhitelistMonitor` |
| `PreconfLoop` | `preconfirmation_loop.rs` | the loop, its clock, its monitor and its environment |
| `PreconfLoopProofs`, `PreconfLoopTurns` | | the theorems about `PreconfLoop` |
| `Building` | `sequencing_monitor.rs`, `block_builder.rs`, `taiko_l2_client.rs`, the wait and the build in `preconfirmation_loop.rs`, `store_header_l2` | the handover between two preconfers and the blocks of a window |
| `BuildingProofs` | | the theorems about `Building` |
| `L2Head` | `l2_head_info_stream.rs`, `header_stream.rs`, `tx_cache.rs`, `verification.rs`, the L2 half of `onchain_tracking_loop.rs`, the first reads of `main.rs` | the stream, what feeds it and what it changes, from startup on |
| `L2HeadProofs` | | the theorems about `L2Head` |
| `Confirmation` | `confirmation_loop.rs`, `confirmation_strategy.rs`, the proposing half of `taiko_l1_client.rs` | what is proposed to L1, composed with the cache and the verification of `L2Head` |
| `ConfirmationProofs` | | the theorems about `Confirmation` |
| `Anchor` | `anchor.rs`, the L1 half of `onchain_tracking_loop.rs`, the anchor in `preconfirmation_loop.rs`, `block_builder.rs`, `verification.rs` and `main.rs` | the anchors of all operators and of the blocks they build |
| `AnchorProofs` | | the theorems about `Anchor` |
| `Blob` | `blob.rs` | the encoding of bytes as field elements, and its inverse |
| `Proposal` | `compression.rs`, the forming of a batch in `taiko_l1_client.rs` and `contracts.rs`, `compute_batch_meta_hash` in `verification.rs` | from blocks to a batch, to the blocks the rollup derives and to the hash the verification expects |
| `ProposalProofs` | | the theorems about `Blob` and `Proposal` |
| `MCPreconfLoop`, `MCBuilding`, `MCL2Head`, `MCConfirmation`, `MCAnchor`, `MCProposal` | | values of the constants for TLC |

Definitions marked *Mistake* are slips the code could have had. They are part of
no specification; each breaks a property if it is put in the place of the
definition after it, which is how we know that the property says something
about the code (`mutants` in PROJECT.json pairs them).

### PreconfLoop

A state is one point between two awaits of `run`. `pc` says which:

| `pc` | the loop is at |
|---|---|
| `bootCurrent`, `bootNext` | the two queries before the loop (lines 48, 49) |
| `top` | the sleep, or a `continue` on its way back to line 65 |
| `anchor` | the refresh of the anchor (102, 104) |
| `hold` | the poll of the flag (127-135) |
| `build` | `build_block` (141-148) |
| `next` | `update_next_operator` (154) |
| `stopped` | ended by the `?` of 102 or 104 |

`clock` is the true time in L2 slots, `slot` what the last iteration read of it,
`behind` the difference. `StartIteration` is everything from the reading of the
clock to the next await: the change of epoch, the activation, the decision and
either the anchor refresh, the spawning of the monitor or the start of
`build_block`. After a `continue` there is no sleep, so that an iteration may
run twice in an L2 slot, as it does in the code (also after
`remaining_until_next_slot` returned zero).

`schedule` is the whitelist: one operator per epoch, chosen initially. It
answers for the epoch of the chain at the time of the call, while the loop
files the answer under the epoch it read before.

`env` says what may go wrong in a behaviour: how many ticks may pass in startup
and while an iteration works (`bootLag`, `maxLag`), and whether calls fail.
Bounds on lateness are assumptions about RPC servers and the executor that the
code makes too; each property names the ones it needs (a third kind, `SlowBootEnv`,
lets the epoch end during startup, see `RecoversFromSlowStart`):

- *Timely*: nothing is late. Calls may fail.
- *Prompt*: L2 slots may be missed, but every L1 slot gets an iteration; no call
  fails, and the handover window is neither empty nor the whole epoch.

`monitored` is a history variable. `anchorAge` counts up to the age at which an
anchor is too old, `waited` up to the timeout of the monitor.

`RecoversFromSlowStart` limits what a slow startup can do: whenever it begins and however
long it takes, from the window of the next epoch on the loop builds in no window but
its own, whatever calls fail. Answers that are filed under the wrong epoch, and the
epoch wrongly set active by them, are gone by then.

Fairness: `WF(LoopStep)` and `WF(MonitorDone)`, since the executor polls the loop,
its awaits end (block building and the monitor have timeouts) and the monitor
clears the flag in each of its outcomes; `SF(Tick)`, since a loop that `continue`s
without a sleep interleaves with the clock but does not stop it. `WF(MonitorDone)` takes an
executor with a second worker: the spinning loops do not yield the one they run on.

### WhitelistMonitor

A loop passes epochs it read from the clock, so that they never decrease. A
failing call changes nothing and is a stuttering step. `Retain` is `Vec::retain`, written
as a recursive function that the proofs can unfold. `ImplementsSpec` is the
refinement: under `Known`, the function the `Vec` stands for, every call is the
operator of `WhitelistView` that `PreconfLoop` uses.

### Building

Which slots the loop builds in is decided in `PreconfLoop`; this module is about what it
builds on. Time is counted in L2 slots of one window; slot 0 is before it. Five actors
take steps:

- the **preconfer before** (`OtherBuilds`) publishes its last blocks, of which the very
  last may carry the end-of-sequencing mark, and may be late with them;
- the **tracking loop** (`ReceiveHeader`, `StoreHeader`) stores headers in the order the node
  took the blocks. The header's lock is a tokio `RwLock`, which is fair: a reader that
  comes after a writer waits for it;
- the **sequencing monitor** (`AskStatus`, `Compare`, `Wake`): `monitor` is `asking` at the call,
  `locking` at the read lock, `sleeping` in the sleep of the poll, where the guard of
  that lock is still alive (`GuardHeld`). It ends when the status agrees (`synced`), by its
  timeout, or by a call that fails: `timeout` then returns `Ok(Err(..))`, which counts
  as a success;
- the **confirmation loop** (`ConfirmationSpins`), as far as it holds up the others;
- the **loop** with the block builder:

| `pc` | the loop is at |
|---|---|
| `top` | the beginning of an iteration |
| `hold` | the wait after the monitor was spawned |
| `spin` | the beginning of an iteration after a `continue` (lines 76, 134) |
| `header` | the read lock of the last header, the parent of the block |
| `nonce` | the calls for base fee and nonce of the golden touch account |
| `mempool` | the call for the transactions; without any only the last block of the window is built |
| `publish`, `answer` | the call that sends the block, before and after it is sent |
| `asleep` | the sleep until the next L2 slot |
| `done` | after the window |

The node (`Fits`, `Take`) is external: it takes a block on any parent it has if the nonce of
the anchor transaction is the one after that parent, and drops the blocks on top of it.
A request that was given up after 1.5 s is still on its way (`requests`).

`main` joins the two loops and the tracking loop in one task (`main.rs:252`). A loop that
finds the flag set begins its iteration anew without an await (lines 74-77, and 69-72 of
the confirmation loop), so that the task does not yield until the flag is cleared:
`Stuck`. No header is received or stored then, and only the monitor, which is spawned as a task of
its own, and the clock go on. The preconfirmation loop spins from the end of its wait on
(`pc` = `spin`), the confirmation loop from any moment after the flag is set (`spins`). In the
first L2 slot of the window the loop spawns another monitor whenever the one before has
ended by then, and goes on spinning.

`env`: `monitored` (the layout in which the monitor is spawned, a handover window as long as
the epoch), `startEnds` and `otherEnds` (which blocks before carry the mark), `late`, `lagging`,
`slow` and `fails`.

In the monitored layout no block of this code carries the mark: the slot before the handover
window, `slots_per_epoch - handover_slots - 1`, wraps in a release build (a debug build panics
there, which is not modelled). `EndOfSequencing` is false there, and `otherEnds` then
stands for a preconfer that runs other software. So the monitor and the mark, which are
made for each other, never meet in one layout of this code: in the others it is set and
nobody waits for it, in this one it is waited for and nobody sets it. `HandsOverIfCalm` is
stated for the layouts that set it.

`SyncComes` says what the wait is worth. If the preconfer before ends its window with a
block that says so while the monitor runs, the monitor finds out, unless the loops begin to
spin before the header of that block is stored: `status_sync_max_delay` after the first L2
slot began, or as soon as the confirmation loop has an iteration. From then on the wait
cannot succeed, and the monitor ends by its timeout.

Fairness: `WF` of the tracking loop (whose steps are disabled while the task is stuck), of the
monitor and of the loop, since the executor polls a task that yields and what it awaits
comes; `SF(Tick)`, since the clock goes on beside the monitor's polls. None of the other preconfer. That
the monitor runs while the other task spins takes a second worker of the executor: with one worker
nothing would ever go on.

### L2Head

The environment is an L2 node (`NewBlock`, `Reorg`, `Derive`) and the inbox
(`ProposeChain`, `ProposeForeign`). A block is its number and a fork, so that a
block that was replaced differs from the one in its place. A foreign batch
holds other blocks than the chain, and the node then derives its chain from it.

Two streams carry blocks. The websocket delivers every head in order
(`subscribed`), the poll the latest one (`polled`, at most one, because the
polling goes on only when its item was taken). `LetThrough` is the filter of the
merged stream. Confirmed ids come the same two ways. The stream handles an item
to its end, and `pc` is where it awaits a call:

| `pc` | the stream is at |
|---|---|
| `readHead`, `readBatch` | the first reads of `main` (`main.rs` 156-203): head and latest batch |
| `readBlocks` | the blocks after that batch, up to that head, of which it keeps its own |
| `subscribeIds` | between the two subscriptions |
| `idle` | the next item of the merged streams (line 80) |
| `fetchLatest` | `get_block(None)` (112) |
| `fetchId` | the loop over the blocks in between (115-122), then the latest block |
| `verify` | the verification (137) |
| `fetchConfirmed` | `get_block(Some(id))` (146) |
| `ended` | after the `?` of 137; the loops go on without the stream |
| `exited` | a startup that failed |

The cache has another writer. The confirmation strategy (`Prune`) runs in a loop of its own, at
any await of the stream and after its end, and removes from the shared cache what has
expired and what another preconfer has built; the model lets any own block be expired.
What it removes is not read again. `CacheUnconfirmed` and `ConfirmedGrows` hold with any removal.
`AlarmIsTrueIfCalm` and `ComesToMirror` are stated for behaviours in which it has
removed nothing: this preconfer does not confirm, or all cached blocks are its own and none has
expired. They are false without that condition, which is finding 2: a preconfer whose turn of
confirming begins while blocks of the one before are unconfirmed removes them from its cache.

While `main` reads, blocks are built and replaced and batches are proposed as at any
time. `whole` records whether the cache has missed nothing: `main` ended up with every
unconfirmed block but the head, which the first poll delivers (a block built in between, or
one of another preconfer, is not read again), and the strategy has removed none since.
The meta hash of a batch is modelled as the blocks it is computed from; that equal blocks
give equal hashes is in `Proposal`. The update of the last anchor id that the verification
makes is in `Anchor` (`Verify`).

`env` again says what may happen: `keepsUp` (the poll sees a head before the next
one), `settled` (the blocks of a batch have been handled when it is proposed),
`spaced` (a batch is proposed when the one before it is confirmed), `fails`, `confirms` (the
strategy runs beside the stream), and
how often blocks are replaced. *Calm* is the first three and no failing call: an L2
block lasts 2 s, an L1 slot 12 s, a poll 50 ms. `own` are the numbers this preconfer
builds, which are the ones read at startup.

Fairness: `WF(StreamStep)`, since the executor polls the stream and its calls
return, and `WF(Derive)`, since the node derives what the inbox holds. No
fairness is assumed of blocks and batches.

### Confirmation

Time is counted in L1 slots: the confirmation loop has one iteration in each. A
slot has four things to happen in any order before `Tick` ends it: the operator
whose window it is builds (`Build`), the loop iterates (`Iterate`, or `Boot` in its
first slot), L1 gets a block (`L1Block`), and the batches in it are handled
(`HandleBatch`). Beside them runs the proposing thread:

| `thread.at` | the thread of `TaikoL1Client::send` is at |
|---|---|
| `started` | `get_latest_confirmed_batch` (line 238) |
| `pricing` | the `join!` of nonce, gas and fees (273), then `send_transaction` (307) |
| `waiting` | `get_receipt` (315): two confirmations, or the timeout |
| `ended` | finished, or there was none |

The cache is the one of `TxCache`, shared by the strategy that prunes it (`Kept`) and
the tracking that verifies with it (`Verified`). The list of operators and the active
epoch are the confirmation loop's own. The flag of the sequencing monitor is left
out: `NeverWaits` in `PreconfLoopProofs` proves that nobody sets it in the layouts this
module assumes (`ConfirmationAssumption`: the handover window is shorter than the
epoch).

External are the inbox (`Accepts`: a batch names the latest one as its parent, or none;
the blocks of a batch get the next numbers), the router (`InTurn`: only the operator of
the epoch proposes), L1 (`Include`, `LeaveOut`), and the other operators
(`ProposeOthers`), who propose all their blocks by the end of their epoch as this one
is meant to.

`env` says what may go wrong: `rpcFails` (a call fails before a proposal is sent, `CallFails`),
`losesAnswers` (`send_transaction` fails although L1 has got the transaction, `SendFails`, or
`get_receipt` does, `ReceiptFails`: both end the thread with the proposal pending), `slowThread` (the thread may
take more than a slot to get to `waiting`), `slowTracker` (batches may be handled in a later slot),
`congested` (L1 may leave a proposal out) and `crash` (the process may end, `Crash`, and
`Start` again at once or slots later: it recovers its unconfirmed blocks from the chain
and knows nothing else) and `missed` (a slot without an iteration). In the *calm* environment nothing does.

`InSequenceIfTracked` is stated for a thread that learns what became of its proposal. If an
answer is lost, L1 leaves a proposal out for longer than the timeout, or the process ends with
one pending, the next proposal takes the same blocks and both may be accepted (finding 3; TLC has
the counterexample for `LosingEnv`, a block in two batches). The environments with lost
answers are in the run `Confirmation` for `ProposesInTurn` and the types.

There are no liveness properties in this module: time is bounded, and `AllProposed` is
the bounded form of "every block is proposed"; it is proved for every layout that leaves
time for the batches.

### Blob and Proposal

A batch passes through three hands: the thread of the L1 client forms it, the nodes of
the rollup derive blocks from it, and the verification of every client computes its
hash from the blocks it has. `Proposal` has one action per part of the thread's work,
`ReadBlock` (an iteration of `read_blocks`), `Compress`, `PackBlobs` and `Propose`, and
operators for the two other hands (`Derived`, `ComputedMeta`). `PackBlobs` is `Encode` of
`Blob`: `WriteIteration` writes four field elements and spreads the bytes x, y and z over
their first bytes, `FinishBlob` goes on to the next chunk. `blob` is what the
`ByteWriter` has written, `read` the count of the `ByteReader`; bytes are integers and
the arithmetic on them is that of the code, as are the widths: `timeShift` (a u8 of
`TimeShiftWidth` values here), `numBlobs`, the size of 24 bits.

zlib is external: the compression may return any bytes of `Streams`, and only all of them
inflate to the transactions again. Commitments stand for their blobs and hashes for
what is hashed. External are the nodes of the rollup (`DecodeBlob`, `Derived`: timestamps
backwards from the last one, transactions counted off the list, none at all if the list
does not inflate) and the inbox (`InboxMeta`). Which blocks are proposed, and when,
is the subject of `Confirmation`; `use_blobs` is one choice of the proposer and one of
the operator that verifies. The blocks are those of a chain: not empty, each with its
anchor transaction, no timestamp before the one before (`ChainsAssumption`).

### Anchor

The anchor of an L2 block is the L1 block whose state it sees. The inbox accepts one
that is neither too old nor before that of the parent block, while the code
chooses it from three numbers that each come from somewhere else: the L1 head
(`Receive`, from the merged header streams), the anchor of the latest batch
(`Verify`) and the maximal offset. Time is counted in L1 slots. In each L1 may get a
block (`Mine`), and the operator of the window has an iteration: it chooses an id and
asks for its header (`Refresh`) in the slots where a refresh is due, stores it when it
came and builds a block or none (`Build`). A failing refresh ends the loop, which is
the subject of `PreconfLoop`; the process may then be started again (`Restart`).

Every operator runs this code with a `ValidAnchor` of its own, so that the model has
one for each. The batches (`Propose`) are any that the rules of one anchor and of the
epoch allow; which of them the code forms is the subject of `Confirmation`.

`env`: `missed` (L1 slots without a block), `late` (the header of the last block may
come in a later slot), `restarts`. They are checked one at a time. `missed` and
`restarts` together also keep both properties (3 minutes, no run of its own). **Late
headers together with either of the others break `AnchorsGrow`**: an operator that
has the newest header, or read the head when it started again, builds on a higher
anchor than the next one can know of, who does not look at the anchor of the parent
block. The lag between head and anchor covers one such delay, not two.
So does a refresh in every slot (`AnchorIdLag` = 1) with late headers alone.
`AnchorsGrow` also needs an epoch that is a multiple of `AnchorIdLag`, so that every
window begins with a refresh, and neither is promised for a reorganised L1.
With an empty handover window the first refresh of an epoch takes the head itself
(`RefreshedId`), which no configuration checked here has; `AnchorsGrowCorrect` excludes
it.

## The runs

| run | checks | shows |
|---|---|---|
| `PreconfLoop` | types, `BuildsInTurnIfTolerable`, `AnchorFresh`, `TimelyInv`, `PromptInv`, `DecidesByWindow`, `TakesItsTurn`, `RecoversFromSlowStart` | 6 slots an epoch, 2 of them handover, 3 L2 slots each, anchor refreshed every 3 slots; timely, clean and prompt environments, and a slow startup |
| `PreconfLoopWide` | `BuildsInTurnIfTolerable`, `HandoverWaits`, `WaitCostsNoTurn` | the window is the whole epoch: the only layout in which the monitor is ever spawned |
| `WhitelistMonitor` | types, `OnePerEpoch`, `ReadsAgree`, `ImplementsSpec` | the `Vec` is the function |
| `Building` | types, `BuildsOnEndIfSynced`, `HandsOverIfCalm`, `KeepsItsBlocksIfPrompt`, `HeaderIsStored`, `SyncComes` | a window of 3 L2 slots after the last 2 blocks of another preconfer; with and without a monitor; loops that spin, late blocks, a lagging tracker, builds that time out, failing calls, any two of the last four together |
| `L2Head` | types, `CacheUnconfirmed`, `ConfirmedGrows`, `AlarmIsTrueIfCalm`, `ComesToMirror` | from the first read of `main` on: 3 block numbers, 2 replacements, 2 batches; calm, late polls, late blocks, a strategy that removes blocks in a calm and in a late environment |
| `Confirmation` | types, `InSequenceIfTracked`, `AllProposed`, `ProposesInTurn` | 5 slots an epoch, 3 of them handover, 11 slots, 3 blocks; calm, failing calls, lost answers, slow thread, late batches, one restart, one missed iteration |
| `Proposal` | types, `FieldsCanonical`, `DerivesBlocksIfFit`, `VerifierAgreesIfAlike` | three blocks, compressed to every length up to two blobs |
| `Anchor` | types, `AnchorsGrow`, `AcceptableToTheEnd` | 4 slots an epoch, 1 of them handover, a refresh every 2 slots, 8 slots, 2 blocks; missed L1 slots, late headers, restarts |
| `PreconfLoopStale` | `BuildsInTurn` fails | finding 1 |
| `ConfirmationAlarm` | `AlarmIsTrue` fails | finding 2 |
| `ConfirmationTimeout` | `OneProposal` fails | finding 3 |
| `ProposalTruncated` | `DerivesBlocks` fails | finding 4 |

Bounds. `LastEpoch` = 2 gives three epochs and four operators to ask for: a turn
that begins, one that goes on over two epochs and one that ends, with a startup
at any tick before or in them. A list can hold the epoch before, the current and
the next one, which takes three. Two operators are enough, as the code only
compares an operator with its own address. Six slots leave slots before, at and
after each moment the code names, and an anchor period that does not divide the
window. Three L2 slots let an iteration miss the first, the last or all but one.
In `Building` three L2 slots are one in which the monitor may run, one in between and
the last, which carries the mark; one L2 slot for the monitor (`Buffer`) lets it end by
its timeout or before; two blocks of the other preconfer are one that is the end and
one that is not, early, late or never seen. At most two of the four things that may go
wrong do in one behaviour (`UsualEnvironments`); the theorems have no such limit.
In `L2Head` three numbers leave a block to replace, one after it to refetch and one
in between; the second replacement may hit while the first is being handled.
In `Confirmation` eleven slots hold a whole window (slots 2 to 6), the epoch in which it
is confirmed (5 to 9) and the first slot of the epoch after; three blocks make two
batches of this preconfer with another operator's between, before or after them,
and a batch that is full with two. A handover window of three slots is the shortest
in which a batch that was sent just before it, and may occupy the thread for up to
three slots, leaves time for the leftovers; the anchor is refreshed once an epoch,
so that they are one batch. With a period of two or three slots, or one that does not
divide the epoch, `AllProposed` fails: a proposal takes two to three slots, and a
short window has time for one or two. With a period of at least four that divides the
epoch there is time, as in the sample configuration (32 slots, 4 of them handover, a
period of 8); see `AllProposedCorrect` below. `ProposeTimeout` = 3 is the shortest that a calm L1 never
reaches; `MaxTimeShift` = 3 cuts batches that hold the first and last slot of a
window, which `NoGap` excludes in `AllProposed` only; `MaxOffset` = 8 lets blocks of the
first slots expire. The process starts in the slot before the handover window or in
the middle of it (`FirstSlots`), and by a restart in any slot.
The slot whose iteration is missed is any one.
In `Proposal` a field element has 5 bytes after the first (31 in the code) and a blob 2
iterations (1024): the first iteration has the metadata before its data and the last
one ends in the middle, as in the code, and bytes of 1 to 88 fill none, a part or all
of two blobs. The bytes are all ones, or go through all residues. Four values of the
time shift (256) and distances of 0, 1, 3 and 4 are equal timestamps, the widest
distance and one more; a block has no transaction or two.
In `Anchor` eight slots hold a whole window (3 to 6) with slots of the windows before and
after it, up to the end of the epoch in which it is proposed (7); two blocks are a
parent and its child, in one window or in two. `MaxOffset` = 8 is the smallest that
`AcceptableToTheEnd` holds for in this layout (with 7 it fails), so that one slot more
of delay would show. The L1 head begins below `MaxOffset`, where the bound of the id is
zero. Operators are symmetric.
`L2Head` and `Confirmation` are the large runs (two to three minutes, 2.9 and 9.0 million
states).

Behaviours stop at the bounds in a state in which the polls go on with nothing
new (`NothingNew`), or the clock has reached its end, so that deadlock is checked.

### Where the code does not do what it says

1. **A stale list** (`PreconfLoopStale`). `is_current_and_next` does not ask which two
   epochs the list is about. If the first L2 slot of an epoch is missed and the
   query for the next operator fails, the list is about the epoch before and the
   current one, and in the handover window the loop builds in the turn of another
   operator. Either failure alone does no harm: that is `BuildsInTurnIfTolerable`.
2. **A false alarm** (`ConfirmationAlarm`). Before it chooses a batch the
   confirmation strategy removes the blocks of other operators from the cache. The
   cache is shared: when the next operator has begun to build while this one still
   confirms, some of its blocks are removed, later ones are not, and its first
   batch does not verify. The alarm clears the cache. `AlarmIsTrueIfCalm` and `ComesToMirror` of
   `L2Head` are therefore stated for a strategy that has removed nothing.
3. **A proposal that times out** (`ConfirmationTimeout`). The client takes a thread that
   has ended for a transaction that has finished. After a timeout the transaction may
   still be pending while the next proposal with the same blocks is prepared. If L1
   includes the first before the second reads its parent and nonce, both are
   accepted (`InSequence` fails in `CongestedEnv`, and if the process ends with a
   proposal pending and is started again). An error of `send_transaction` or `get_receipt`
   ends the thread with its transaction pending as the timeout does (`LosingEnv`).
4. **A blob without its last bytes** (`ProposalTruncated`). The number of iterations
   of `create_blob` leaves out the four bytes of metadata. If the length of a
   chunk modulo 127 is 124, 125 or 126, its last one to three bytes are not written,
   and what the nodes read does not inflate: the batch has empty blocks in place of
   the preconfirmed ones. In all other cases
   the blocks come out as they went in (`DerivesBlocksIfFit`).

What the properties with a condition exclude, without a run of its own:

- *A missed L2 slot.* The preconfer becomes active in one L2 slot of an epoch only.
  Missing it, for instance because the query awaited just before it was slow,
  costs the whole turn; `TakesItsTurn` is stated for no missed slot.
- *The handover.* The sequencing monitor is spawned in the first L2 slot of the epoch
  instead of the first of the handover window, which is another one unless the
  window is the whole epoch. In all other layouts the first block is built without
  waiting (`NeverWaits`), and `Building` with `monitored` describes `PreconfLoopWide` only. In
  that one nobody sets the mark the monitor waits for (`EndOfSequencing`), and the loops
  that spin on the flag keep the header from being stored (`SyncComes`).
- *A failing status* ends the monitor as if it were in sync, and *an older end* that is
  still the newest block (`startEnds`: the preconfer before has been quiet, or its
  blocks come late) is taken for the end of the window before. `BuildsOnEndIfSynced`
  speaks of neither.
- *A lost end.* A tracker that lags, a build that fails or one that is late in the last L2
  slot leaves the window without the block that ends it. A build that timed out may
  be taken by the node after the next one was built on the same parent: a block is
  replaced (`KeepsItsBlocksIfPrompt` excludes it).
- *Crowded batches.* A batch is verified against all cached blocks up to the end of the
  latest batch. Two batches before the first verification look like a mismatch
  (`AlarmIsTrue` of `L2Head` fails in `CrowdedEnv` of `MCL2Head`, and in `ConfirmsEnv` for
  finding 2).
- *A gap at startup.* The blocks built between the read of the head and the opening of
  the streams, other than the newest, and unconfirmed blocks of other preconfers are
  never cached. The first batch is not verified; the one after it is, against a part
  of its blocks, and does not match (`whole` excludes it).
- *A slow startup.* If the epoch ends between the reading of the slot and the two queries,
  the answers are filed under the wrong epoch and the loop may build in the turn of
  another operator, though not beyond the window of the epoch in which it comes to its
  first iteration (`RecoversFromSlowStart`).
- *A block that comes too late.* A block whose anchor has expired is pruned from the
  cache, and one of another operator whose epoch is over may be left over in it. The
  strategy chooses the blocks after it, so that the batches then have a gap
  (`InSequenceIfTracked` excludes behaviours with a block that is too late and not in a
  batch).
- *Different `use_blobs`.* The verification packs with the setting of its own operator;
  the batches of one with the other setting are all reported out of sync.
- *Late headers* with missed L1 slots or a restart: see `Anchor` above.

## The proofs

Eight modules of proofs, all checked to the last leaf:

| module | theorem | says |
|---|---|---|
| `PreconfLoopProofs` | `TypeCorrect` | `Spec => []TypeOK` |
| | `TimelyCorrect` | `Spec => []TimelyInv` |
| | `PromptCorrect` | `Spec => []PromptInv` |
| | `BuildsInTurnCorrect` | `Spec => []BuildsInTurnIfTolerable` |
| | `NeverWaits` | `HandoverSlots < SlotsPerEpoch => (Spec => []~waiting)` |
| `PreconfLoopTurns` | `DecidesByWindowCorrect` | `HandoverSlots \in 1..(SlotsPerEpoch - 1) => (Spec => DecidesByWindow)` |
| | `HandoverWaitsCorrect` | `HandoverSlots = SlotsPerEpoch => (Spec => []HandoverWaits)` |
| | `AnchorFreshCorrect` | `DueAtHandover => (Spec => []AnchorFresh)` |
| | `RecoversCorrect` | `Spec => RecoversFromSlowStart` |
| `WhitelistMonitorProofs` | `TypeCorrect` | `Spec => []TypeOK` |
| | `OnePerEpochCorrect` | `Spec => []OnePerEpoch` |
| | `ReadsAgreeCorrect` | `Spec => []ReadsAgree` |
| | `Implements` | `Spec => ImplementsSpec` |
| `BuildingProofs` | `TypeCorrect` | `Spec => []TypeOK` |
| | `KeepsItsBlocksCorrect` | `Spec => KeepsItsBlocksIfPrompt` |
| | `BuildsOnEndCorrect` | `Spec => []BuildsOnEndIfSynced` |
| | `HandsOverCorrect` | `Spec => []HandsOverIfCalm` |
| `L2HeadProofs` | `TypeCorrect` | `Spec => []TypeOK` |
| | `CacheUnconfirmedCorrect` | `Spec => []CacheUnconfirmed` |
| | `ConfirmedGrowsCorrect` | `Spec => ConfirmedGrows` |
| | `AlarmIsTrueIfCalmCorrect` | `Spec => AlarmIsTrueIfCalm` |
| `ConfirmationProofs` | `TypeCorrect` | `Spec => []TypeOK` |
| | `ProposesInTurnCorrect` | `Spec => ProposesInTurn` |
| | `InSequenceCorrect` | `TimeToInclude => (Spec => []InSequenceIfTracked)` |
| | `AllProposedCorrect` | `RoomForBatches => (Spec => []AllProposed)` |
| | `InSequenceInCalm` | `RoomForBatches => (Spec => [](Calm /\ NoGap /\ ~alarmed => InSequence))` |
| `AnchorProofs` | `TypeCorrect` | `Spec => []TypeOK` |
| | `AnchorsGrowCorrect` | `Aligned /\ HandoverSlots # 0 /\ LateIsCalm => (Spec => []AnchorsGrow)` |
| | `AcceptableCorrect` | `Aligned /\ Roomy => (Spec => []AcceptableToTheEnd)` |
| `ProposalProofs` | `TypeCorrect` | `Spec => []TypeOK` |
| | `FieldsCanonicalCorrect` | `Spec => []FieldsCanonical` |
| | `VerifierAgreesCorrect` | `Spec => []VerifierAgreesIfAlike` |
| | `DerivesBlocksCorrect` | `SizesFit => (Spec => []DerivesBlocksIfFit)` |

They assume what the modules assume of their constants, and nothing else: at least
one slot in an epoch, a window within the epoch, a monitor shorter than an L1 slot
and an anchor lag of at least one (`SlotsAssumption`, `LoopAssumption`); a buffer within
the window (`BuildingAssumption`); natural numbers as bounds (`HeadAssumption`); a handover
window shorter than the epoch, and a process that starts within the behaviour
(`ConfirmationAssumption`); an L1 that is older than the lag (`AnchorAssumption`); an
address that is no operator's (`MonitorAssumption`); a field element with room for the metadata, a blob of at least one iteration, non-empty
bytes, blocks of a chain (`BlobAssumption`, `ProposalAssumption`, `ChainsAssumption`).
Operators, environments, chains and bytes are any. Where a theorem has a condition of
its own it is part of its statement.

In each module an inductive invariant is shown to hold initially and to be kept by
every action, one step of the proof per action; TLC was asked first.

*PreconfLoopProofs.* `BuildsInTurn` is not inductive: that the loop decides rightly
follows from what the list and the active epoch hold, and what they hold from when
the last iterations were. Two invariants say so, one for each kind of environment,
and both are invariants of the run `PreconfLoop`.

- `TimelyInv`: the clock is that of the iteration (`OnTime`), a monitor ends within the
  first slot of its epoch so that no iteration that matters is skipped
  (`WaitsInFirstSlot`), every entry of the list and the active epoch are true of the
  schedule, and the list is about the current and the next epoch (`ListOfNow`). Two
  entries of such a list are both of them, so that `is_current_and_next` is right
  (`CurrentAndNextInTurn`), and `can_preconfirm` is right because the active epoch is
  (`CanPreconfirmInTurn`). Whether calls fail does not matter: the list may be
  shorter, not wrong.
- `PromptInv`: the first iteration of an epoch may be missed, so that the list may be
  about the epoch before and the current one. Up to the handover window that is
  harmless (`BeforeAndCurrentInTurn`: the current epoch is one of the two). The last
  slot before the window has an iteration, which asks for the next operator and
  thereby replaces the list (`ListOfBeforeUntilHandover`). That no call fails is used
  exactly there, and that the clock is less than an L1 slot ahead (`WithinSlot`)
  wherever an answer is filed.
- `NeverWaits`: the slot in which a monitor is spawned would have to be the first of the
  epoch and the first of the handover window. It is what lets `Confirmation` leave the
  flag out.

*PreconfLoopTurns.* The converse, that the loop builds in all of its windows, needs a
list without gaps, not only one without wrong entries. `CleanInv` says where there is
none: the next operator is known from the end of the last slot before the handover
window on (`KnowsNext`), the next epoch is then active if it is this preconfer's
(`ActiveInHandover`), and before the window the current epoch is, or the loop was
started between two epochs of its own and the list says so (`CoversCurrent`).
`AnchorFresh` follows from `FreshInv`: an anchor is refreshed only by a loop that is
about to build, so it is fresh if the loop has wanted to build in every iteration since
the refresh was due, or since startup. That holds because what the list says of this
preconfer is acted on (`ActsOnCurrent`, `ActsOnNext`), so that wanting to build begins only
where a handover window does, or with the process. There a refresh must be due: the
theorem asks for a handover window and an epoch that is a multiple of the lag
(`DueAtHandover`, as in the sample configuration: 32 slots, 4 of them handover, lag 8).
`RecoversFromSlowStart` follows from `StartInv`. A slow start may leave wrong entries
for the epoch it lives in, but what is known of the next one is right (`NextIsRight`), and
with the epoch after the first everything else has been replaced (`RightAfter`).
`HandoverWaits` follows from `Monitored`: where the window is the whole epoch, a loop that
polls the flag or builds in the first slot of its turn has spawned a monitor in that
iteration.

*WhitelistMonitorProofs.* `ListInv`: the list is ordered by epoch and never has more than two
entries, so that the recursion of `Vec::retain` unfolds to two steps, without induction.
Each call is then reduced to what it does to the set of entries, from which the function
`Known` and the refinement follow.

*BuildingProofs.* `OneInFlight`: as long as no build is given up, at most one block is on
its way to the node, and no own block comes after the nonce that was read for it. A
block that the node takes with this nonce therefore replaces none. `SyncInv` follows
the end of the window before on its way through the tracking loop: of all blocks that
are not this preconfer's it comes last (`EndComesLast`), until it has come the loop
has built nothing if it was waiting (`NothingBuilt`), and so a header that equals the
end the node names is the newest block of the other preconfer, and stays below the
first own one (`BuildsOnEnd`). `CalmInv`: the tracking loop gets every block in order
(`NewestStep`), so in a calm window each iteration begins with the header of the node, reads
a nonce that belongs to it, and its block fits; the last one carries the mark, also
without transactions, in the layouts that have the mark.

*L2HeadProofs.* For the types the batches must cover the numbers up to the last one
without a gap (`InboxOK`), or the node could not derive its chain. `ConfirmInv`: the cache
holds no confirmed block anywhere (`NoneConfirmed`), since what the stream asks the node
for is after the block it is handling, which is not before the confirmed ones
(`AsksAfter`, and `StartsAfter` for `main`), and what it confirms is new (`ConfirmsAfter`).

That the stream gives no false alarm is a statement about the cache at one moment, but
what is cached then depends on everything that is on its way to the stream.
`MirrorInv`, for a calm environment, a startup that has missed no block, a strategy that has
removed none (`Pruned`: otherwise the behaviour is not whole), and batches of the chain's own
blocks: of what the subscription has still to deliver, the last block
that touches a number of the chain is the block of that number (`Replays`), a poll that is
not delivered is of the head (`PollsHead`), and every block of the chain that nothing on its
way will change is cached already (`UntouchedCached`), also while the stream waits for the
node's answers (`FetchesHead`). When a batch is proposed everything before it has been
delivered, and the batch before it confirmed (`OneUnconfirmed`); so when its id arrives, in
whichever stream, the cached blocks up to its end are the chain's, and those are the
batch's (`DerivedInv`). The head is the exception: `main` does not read it, the first
poll delivers it (`lastSeen = Genesis`). TLC has checked the invariant with 3 numbers,
2 replacements and 3 batches (2.6 million states).

*ConfirmationProofs.* `TurnInv`: what is stored is true of the schedule, a process that starts
anew knows nothing, and the list is about this epoch and the next one
(`ListOfItsTime`). An older list remains only until the first iteration of an epoch,
or for the slot of the one iteration that is missed, and an old list says nothing
about this epoch that would be wrong. TLC has checked each environment by itself; the
theorem covers behaviours in which calls fail, an iteration is missed and the process
restarts.

That the batches hold the blocks in sequence takes an invariant that follows a block from
the chain to the inbox, `SeqInv`: the cache holds the blocks that L1 does not have
(`CacheInv`), a batch is handled before the next one can come (`BehindInv`), a pending
transaction is included before its thread gives up (`PoolInv`), and what the thread or
the pool hold are the next blocks after the inbox (`FlightInv`), or a block has been left
out because it was too late (`InboxInv`). `TimeToInclude` asks for a timeout of two
slots (60 s are five); with one, a transaction may be included in the slot in which the
thread has given it up. The attempt to prove it with only this preconfer's blocks in the
condition failed for a reason: where the maximal offset is greater than an epoch and a
handover window, the blocks another operator has left out may still be cached two
epochs later, when this one proposes blocks after them. `TooLate` therefore speaks of
the blocks of all operators. The width of the time shift does not matter.

That no block is left (`AllProposed`) is a question of time, which `SeqInv` says nothing of.
`RoomInv` keeps the time, in a calm environment, while batches fit their u8 (`NoGap`) and
before a false alarm of the verification (the finding `AlarmIsTrue` of `L2Head`):

- `KnowsTurn`: who is elected is known early enough to act on it.
- `LoopPace`, `PoolPace`, `ThreadPace`: how far a proposal can be, given when it was started. The
  next can be started at `NextChance`, at most three slots after the one before.
- `BlocksOfAnchor`: own blocks with an anchor before the current one were built before the
  refresh, and blocks of the window that has begun have the current one.
- `Deadline`: before the handover window, own blocks with an older anchor are a reason to
  propose at once and leave in one batch within two slots of the refresh (`BeforeHandover`);
  within the window, what is left leaves in one batch in its first or second slot, which
  leaves time for the thread to end by the last one (`WithinHandover`).
- `NothingLeft`: all blocks of the windows before are in the inbox when the epoch begins.

`RoomForBatches` names what this takes: an anchor period of at least four that divides the
epoch, a handover window from three slots up to the anchor period, a timeout of at least two
slots, and a maximal offset of at least an epoch and a handover window. The sample
configuration satisfies it, and so does the run. Almost all of it is needed; TLC finds a
block left with a handover window of two (epochs and anchor periods of 5), with an
anchor period of 3 (epochs of 6) or of 2 (epochs of 4), with a period of 5 that does not
divide the epoch of 6, and with a timeout of one slot. The upper bound on the handover
window and the lower one on the maximal offset are what the argument uses:
TLC found no violation with a handover window longer than the anchor period (10, 6 and 5),
nor with a maximal offset smaller by one. Before the proof TLC checked the invariant in four
layouts (epoch, handover, period, offset, timeout: 5, 3, 5, 8, 3; 4, 3, 4, 7, 2; 8, 3, 4,
11, 2; 8, 4, 4, 12, 2), in up to 6.7 million states. That the anchor period must not be short is
worth knowing: every refresh forces a batch of its own, and only one batch can be on
its way at a time.

*AnchorProofs.* Slots are positions in windows (`WindowBounds`, `EpochOfWindowEnds`), and
where epochs are a multiple of the lag (`Aligned`) every window begins with a refresh
(`WindowsBeginDue`). `HeaderInv` bounds what an operator may not know of L1: the block of this
slot and, if headers come late, the one before.

- `AcceptableToTheEnd`: `FreshInv` says that an anchor is at most as old as the lag, one late
  header and the slots since its window began make it. A block may be proposed for an
  epoch and a handover window after that, whence `Roomy`: the maximal offset is at least
  `SlotsPerEpoch + HandoverSlots + AnchorIdLag + 1`. That is 8 in the run, where
  TLC finds a violation with 7, and 45 for the sample configuration. The environments
  may go wrong in all ways at once.
- `AnchorsGrow`: no anchor is above the one chosen at the head (`BoundInv`), and none above
  the one that the next block is built on (`CoverInv`). What makes a refresh at the
  beginning of a window choose one that covers all blocks depends on the environment.
  Where headers come in their slot, everybody knew the head at the end of the slot before
  (`EarlierInv`). Where they come late and every slot has its block, all anchors are from
  the last refresh or before, which is at least two slots ago (`LateInv`). `LateIsCalm` is
  this condition: late headers only without missed slots, without restarts and
  with a lag of at least two. Each of the three is needed (TLC has a counterexample
  without it).

*ProposalProofs.* `BlobInv`: every field element written so far has a first byte below 64,
which for the elements of y and of the rest is arithmetic on the bits. `ParamsInv`: the
parameters are those of the first blocks, and each distance fits its u8, so that
cutting it to a u8, which the verification does without looking, changes nothing.

That the nodes derive the blocks again needs more (`DerivInv`). `PackInv` says what the
fields hold: a node that decodes one iteration reads the piece of the blob's stream
(metadata, chunk, zeros) that was written in it (`Stream`, `Piece`, `Holds`), which is the
arithmetic of the four sixes that three bytes are spread over, and each finished blob
holds its chunk (`BlobHolds`). `TxsInv` says where in the list the transactions of each
block end (`Ends`). What remains is about whole lists: the nodes concatenate what they
decoded (`FlattenSeq`) and add up counts and distances (`SumOf`), recursive functions
both. The library's induction theorems take an operator and cannot be used, so
`SumIs` and `FlattenIs` show that a function which grows step by step in the same way is
the recursive one, for there is no first place where they differ (`AllFromFirst`, from
the well-foundedness of the naturals). `SizesFit` is what the code takes for granted: the
size of a blob fits 24 bits and the number of blobs a u8, neither of which it checks (a
blob holds 130044 bytes and a block of L1 takes nine blobs at most). That the bytes of
each blob fit into the iterations made for them is part of the property itself
(`AllFit`; finding 4 is what happens otherwise).

Only model-checked: the liveness properties (`TakesItsTurn`, `WaitCostsNoTurn`,
`HeaderIsStored`, `SyncComes`, `ComesToMirror`), which are outside TLAPS's reach, as is
ENABLED. Every invariant and every action property of the passing runs is stated by a
theorem.

## Not modelled, and what could come next

Signing (`sign.rs`) and secrets (`secret.rs`) are cryptography on single values and
memory that is zeroed. RPC clients, contract bindings, configuration, errors and the
time provider are I/O and plain data: their failures are choices in the modules that
call them. Partly modelled are the conversion of seconds to slots (time is counted in
slots here), the header streams of L1 (`Anchor` has what they deliver, the merging is that
of `L2Head`), and a refresh of the anchor that fails (it ends the loop, in `PreconfLoop`).

1. `Turn`: an abstract specification of a turn (who may build, who may propose, what
   is left at its end) that `PreconfLoop` and `Confirmation` implement.
2. `Confirmation` extended: replaced blocks, and the composition with the two streams of
   `L2Head` instead of `HandleBatch`.
3. `Anchor` extended: failing refreshes and reorganised L1 blocks, the batches that
   `Confirmation` forms, and `AnchorsGrow` for the combined environments if the parent's
   anchor is read.
4. `AllProposed` for a handover window longer than the anchor period: the blocks of such a
   window have two anchors and need two batches, which `WithinHandover` does not allow.
