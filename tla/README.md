# TLA+ models of the vllm-neuron plugin

vllm-neuron is a vLLM platform plugin for AWS Neuron devices. It replaces vLLM's
scheduler, worker, model runner, KV connector and encoder-cache connector by its
own and leaves the engine loop, the base classes and the transport to vLLM and
NIXL. This directory models the parts of the plugin that carry state of their own
across calls, processes or hosts, checks them with TLC on small instances and
proves the central invariants with TLAPS for every instance.

Line numbers below are those of the repository at the modelled commit; the exact
lines of each definition are in `PROJECT.json` under `map`.

## 1. Inventory

What each part of the system keeps, does, and has to get right. "Hard" names the
behaviour a test would hardly reach.

### NeuronScheduler / NeuronAsyncScheduler (`vllm/core/scheduler.py`)

- State: the base scheduler's `waiting`, `skipped_waiting` and `running` queues,
  edited around every base call; a local hold-back queue inside `schedule()`; the
  send-lane `_pending_kv_send`; `_state`; the cached concurrency cap of the KV
  pool; with the asynchronous pipeline, `num_output_placeholders` per request and
  the batches in flight.
- Operations: `add_request`, `schedule` (drain, restore admissible waiters, choose
  a branch, hide decodes, override `max_num_running_reqs`, call the base, restore,
  check the batch, park dispatched producers, update the state),
  `update_from_output`, `get_num_unfinished_requests`, `finish_requests` (base).
- Talks to: the engine loop (batches and outputs, one batch behind when
  asynchronous), the grammar compiler (a waiter becomes ready at any moment), the
  KV connector (a pull or a send completes at any moment).
- Hard: everything the pre-check of step 3 reads may change before the base
  scheduler reads it; queues are temporarily wrong during the base call; prefills
  hide decodes and decodes defer prefills; a producer's blocks outlive its slot.
- Correct when: a batch never mixes prefills and decodes, at most one prefill
  per batch, `max_num_seqs` and the KV cap are never exceeded, no request is lost,
  duplicated or overtaken, no running request is preempted, every request ends.

### EncoderCacheBlocks (`vllm/worker/encoder_cache_blocks.py`)

- State: `_slot_map` (item to blocks, with a write time), `_held_blocks` (evicted
  items whose hold time is not over), `_free_queue`, the tag of every block.
- Operations: `allocate` (with the reclaim of the item's own hold, of expired
  holds, and a bounded wait), `mark_written`, `put`, `free`, `reclaim_held`,
  `clear`.
- Talks to: the model runner that encodes into the blocks, and remote readers
  that no call announces.
- Hard: evict, re-allocate, wait and reclaim in any order; time.
- Correct when: no block is leaked or shared, tags follow ownership, nothing is
  reused before its hold time, `allocate` comes back.

### NeuronNixlECConnector and the runner's encoder-cache life cycle (`vllm/ec_connector/neuron_nixl_ec_connector.py`, `vllm/worker/neuron_model_runner.py`)

- State: on the vision engine (VE) the cache above; locators in responses; on the
  prefill engine (PD) the load list, the transfers in flight, the landed
  embeddings and tags.
- Operations: attach a locator, start the loads of a step, poll and drain the
  transfers, read and validate the tags, fail the engine.
- Hard: the VE evicts, encodes and reuses while a locator travels and while a
  READ is in progress; a READ that fails or never ends.
- Correct when: what the PD accepts is the item it asked for, the PD dies only
  for a reason, a load ends.

### NeuronNixlConnector (`vllm/kv_connector/neuron_nixl_connector.py`)

- State: per remote engine its TP, DCP, block size, head ratio and transfer
  handles; per request the transfers in flight; on the producer the count of
  notifications against a fan-in and a lease.
- Operations: handshake and `add_remote_agent`, `_read_blocks_for_req` (whole
  blocks or fragments), `_producer_fanin_map`, `get_finished`, heartbeats, engine
  clean-up, the scheduler side's sliding-window correction.
- Hard: block lists laid out by two different (TP, DCP, block size) topologies and
  a prefix cached on one side only; a producer that must know how many readers it
  has without being told who they are; handshakes on a background thread.
- Correct when: every local block gets the tokens and heads it stands for, the
  producer frees neither before the last READ nor only by the lease, every rank
  reports.

### Internal data-parallel load balancer (`vllm/patches/dp_load_balancer_patch.py`)

- State: per API worker the queue lengths last received, which request it sent to
  which engine, and local counts; between workers an array of requests in flight,
  in shared memory behind a lock; per engine what it last published.
- Operations: choose an engine and reserve, release when the engine reports a
  request finished or aborted, publish queue lengths before and after a step,
  take in what the coordinator spreads.
- Hard: statistics are late, a burst arrives before any of them, a client leaves
  before the engine knows its request, two workers choose at once.
- Correct when: the counts are exactly the reservations outstanding, an engine is
  never busier than its count, a burst is spread, everything is released.

### Core allocator (`utils/core_allocator.py`)

- State: a JSON file of aligned core ranges by process id, under `flock`, written
  in place; a process knows the range it was given.
- Operations: `acquire` (lock, read, reap the dead, choose, write; poll until a
  deadline), `release`.
- Hard: a process is killed anywhere, also between truncating and writing the
  file; its id is given out again.
- Correct when: no two live processes hold a core, a dead one's come back.

### Port rendezvous (`vllm/patches/port_hold_patch.py`)

- State: ports bound on the host, one file per (port, process group), what a rank
  has read from it.
- Operations: rank 0 unlinks a stale file, binds (its port or a fresh one),
  writes and renames, unlinks after the barrier; the others poll and dial.
- Hard: the file of a killed server, a port taken by the Neuron runtime, a
  process group id used again.
- Correct when: a rank joins the store of its own rank 0 only, every server
  assembles.

### Encoder disaggregation: pool, shared memory, router (`vllm/disaggregated_encoder/`, `vllm/patches/epd_shm_patch.py`)

- State: per pool worker a ring of slots in shared memory with a count of readers
  to come; per encoder the segments it has attached; per request the render
  awaited, the calls in flight and the locators received.
- Operations: warm up, submit and render, stage an item (or fall back to base64),
  time out a render, group items by encoder, call the encoders in parallel, read a
  descriptor, drive the prefill/decode server, fail or cancel a request.
- Talks to: clients, pool processes that die and are replaced, encoders, the
  prefill/decode server.
- Hard: a render that ends after its timeout, a call that fails while its
  siblings still read, a worker whose successor counts from 0 again, slots that
  nobody will ever read.
- Correct when: an encoder encodes the pixels staged under the hash, a slot
  outlives its descriptors and is held for nothing else, the decoder is driven
  with encoded items only, every request ends once.

### Asynchronous speculative decoding (`NeuronAsyncScheduler`, `vllm/worker/neuron_model_runner.py`, `functional/spec_decode_correction.py`)

- State: placeholders per request, and the request's sticky end of speculation
  near `max_model_len`; on the worker the device outputs of the last step, kept for
  the next, with the rows they belong to and the cache for a change of
  composition.
- Operations: plan a step as if all drafts of the one before were accepted,
  choose its inputs, correct its positions on the device, verify, report.
- Hard: the host never knows how many tokens a sequence has; requests join, leave
  and come back while a step is in flight.
- Correct when: each step feeds the right tokens at the right positions in a shape
  that was compiled, and the books of scheduler and worker balance.

### Sampling and rejection sampling (`nn/rejection_sampler.py`, `vllm/sample/rejection_sampler.py`)

- Pure functions over flattened rows of unequal length: index arithmetic at each
  end, clamped gathers, placeholders.
- Correct when: both give what the target model alone would have produced.

### Model runner v2 (`vllm/worker/neuron_model_runner_v2.py`, `neuron_request_state.py`, `neuron_input_build.py`, `neuron_forward_adapter.py`)

- State: per tensor-parallel rank the slots and their owners, the graphs in
  flight, the slots awaiting one; block rows per slot; on the device the token
  history, counts and next token per slot.
- Operations: admit (choose a slot, wait for graphs in flight over it), remove,
  build the operands of a step (context lengths, block rows, the sliding window,
  the slot map), submit, commit on the device, resolve outputs.
- Talks to: the scheduler, which plans a step ahead; the device, which runs graphs
  in order; the KV connector, whose loads fill blocks.
- Hard: ranks decide alone and see completions at different times; a slot or a
  block changes hands with a graph in flight; a preempted request comes back.
- Correct when: ranks agree, no graph in flight touches a free slot, each request
  is fed its own text and is answered to the end.

### The rest

*Bucketing, worker, platform, executors, parallel state, weight loading, snapshot
and manifest tools, the benchmark connector, models and kernels, accuracy
tools*: see "Not modelled" below.

## 2. Modules

| module | models | role |
|---|---|---|
| `NeuronScheduler` | the scheduler | queues, batches, KV units, roles |
| `EncoderCacheBlocks` | the encoder cache allocator | blocks, tags, hold time |
| `BlockLeases` | what that allocator promises its readers | abstract specification, implemented by `EncoderCacheBlocks` |
| `EcTransfer` | EC connector, runner life cycle | EXTENDS `EncoderCacheBlocks`: VE allocator composed with a reading PD |
| `KvPull` | KV connector | one request's pull over a pair of topologies |
| `SlidingWindowPull` | KV connector, scheduler side | the arithmetic of a pull for sliding-window layers |
| `DpLoadBalancer` | load balancer | API workers, engines, messages |
| `CoreAllocator` | core allocator | processes, lock, file |
| `PortRendezvous` | port rendezvous | servers, ranks, ports, files |
| `ShmStaging` | shared-memory transport | rings, descriptors, readers |
| `EpdRouter` | preprocessing pool and router | EXTENDS `ShmStaging` |
| `RejectionSampling` | both greedy samplers | operators and their reference |
| `AsyncDecode` | asynchronous speculative decoding | EXTENDS `RejectionSampling`: scheduler and worker |
| `RunnerV2` | model runner v2 | ranks, device, scheduler |
| `..._proofs` | | theorems about the module they are named after; `Transfers_proofs` about `EncoderCacheBlocks`, `EcTransfer`, `KvPull` and `SlidingWindowPull`, `HostProcesses_proofs` about `DpLoadBalancer`, `CoreAllocator` and `PortRendezvous`, `EpdRouter_proofs` about `ShmStaging` and `EpdRouter`; `RunnerV2Tokens_proofs` continues `RunnerV2_proofs` |
| `ListLemmas` | | facts about numbers and about lists without repetitions, for the proofs |
| `MC...` | | the small sets TLC needs |

A TLC run that covers several components (`MCTransfers`, `MCHostProcesses`,
`MCModelRunner`) chooses in the initial state which of them the behaviour is about
(`part`) and leaves the others where they are; `MCNeuronFleet` chooses one of three
engines (`engine`) likewise. The parts share no state, so their product would
add interleavings and no behaviour of either.

### NeuronScheduler

One step of the model is one call of the engine: `Schedule` is the whole of
`schedule()`, from the drain of `waiting` to `_update_state`, the base scheduler's
call included; `UpdateFromOutput`, `AddRequest` and `Abort` are the other calls.
`CompileGrammar` and `TransferDone` are the two outside threads.

- Tokens are steps: a prompt is `PromptChunks[r]` prefill chunks, an output is one
  step, and one step needs one unit of KV. The prompt of a pull resumes at its last
  unit, as the connector leaves one token to compute.
- `Restored`, `Hidden`, `VisibleGrammar`, `MaxRunning` and `RunningRestored` are
  the results of steps 2, 3, 3.5, 4 and 5 of `schedule()`; the temporarily edited
  queues never outlive the action, as in the code.
- The base scheduler (`BaseRun`, `BaseAdmit`) is external: any choice of victims
  and admissions it may make on the queues it is shown. The order of the token
  budget (running, skipped waiters, waiters), the limit `max_num_running_reqs`,
  the stop after a preemption and the parking of asynchronous pulls are kept.
- A grammar may compile *inside* the call (`late`), which is the gap between the
  pre-check of step 3 and the base scheduler's own look.
- `inflight` holds the batches scheduled and not yet processed; `MaxInFlight` is 1
  for the synchronous scheduler and 2 for the asynchronous one. Outputs of a
  request that was preempted are discarded.
- `life` tells a request that is over but pinned by a transfer ("finished") from
  one that is gone ("freed").

Speculative placeholders are in `AsyncDecode`. Not in it: jump-forward tokens,
bucket padding, encoder locators, priorities, LoRA.

### EncoderCacheBlocks

`allocate()` is three actions, because it sleeps: `AllocateBegin` (own hold, then
expired holds), `Sleep`/`Wake` per turn of `_wait_and_reclaim`, `AllocateEnd`. The
engine thread is inside the call meanwhile, so no other operation is enabled, but
`Tick` is. Time is only the age of a block since its item was marked written,
saturating at `HoldTime`, which is all `free` and `reclaim_held` compare. The age
of a block of an item that is not yet written is `HoldTime`, as its `write_time`
0.0 makes it long expired in the code. `put` is `allocate` and `mark_written` in
sequence. A held block of an item that is allocated again goes back to the queue
before its hold time is over, tag and all, and from there possibly to another
item: the code does this on purpose, and `HeldUntilExpiry` names the exception.

`BlockLeases` says what a reader may rely on, in four variables and without a
queue, a wait or a tag: a block is nobody's or an item's, and what an item holds it
keeps until its hold is over, or it is asked for again, or the cache is cleared.
`ImplementsLeases` is its specification with each of its variables defined over
the allocator's.

### EcTransfer

The VE's allocator runs as in `EncoderCacheBlocks`, between an encoder that writes
one block at a time (`Encode`) and evictions at the start of a step. A PD takes
any set of locators that have arrived, reads embeddings block by block, then
tags, and `FinishLoad` accepts or dies. `landed` and `gotTag` record only whether
what was read was right. `reencoded` is a history bit of a locator: it is in no
guard and serves the properties.

### KvPull

The initial state chooses a pair of topologies, a prompt length in pages (the
prefill engine's block size), the length of the prefix cached on the decode side,
and whether the pull has no local block at all. `ValidTopology` is what the handshake
accepts; its last assertion, that the block lengths divide each other, is there the
heads in a block of each engine. `Moves` is the read map: which
local block (and fragment of it) receives which entry of the remote list.
`GatherMoves`, `StrideMoves` and `FragmentMoves` are the three branches of
`_read_blocks_for_req` and `dcp_seq_ratio_fragments`; `HeadRanksRead` and `RankId`
the routing over heads and replicas; `Fanin` the replay of `_producer_fanin_map`.
Steps: a rank posts its READs, each lands (with its notification) or fails, the
rank reports when nothing is outstanding, a producer rank counts notifications,
and leases end. `Written` interprets what has landed, per head slot, as (page,
head) pairs.

### SlidingWindowPull

Operators, and a state that stays as it is: a pull, of the constant set `Pulls`, is a
record of the prompt's length, block size, window, the decode engine's cached prefix
and where the last prefill step begins, and the
module says which blocks each engine lists and which is READ into which. `ValidPull`
is what vLLM guarantees of these numbers: a cache hit is of whole blocks and never of
the whole prompt, and the last step of a prefill computes a token.
`PromptComputed` is the producer's dropped last token, `Matched` the consumer's
admission of one token less, `StripLeadingNull` the correction of the base's cut.
Block tables and the cut itself are vLLM's. `WindowComplete` compares the result
with what the first decode reads.

### DpLoadBalancer

A request's way: `Route` (choose and reserve under the lock), the engine's input
(`ProcessInput`), its scheduler (`EngineStep`, `MaxRunning` at once, external), the
finished report, `PopFinished` and, as the lock is taken later, `ReleaseShared`.
Messages are sets that a step of their own takes from, so that each may be late.
With `ClientCount` 1 there is no array and the local queue lengths take its place.
Not in it: the KV-usage term of newer statistics and the bypass for
mixture-of-experts models.

### CoreAllocator

A step is what a process does between two points at which it can be killed:
take the lock, read, truncate, write, unlock. A kill drops the lock and leaves a
truncated file torn, which the next reader takes for empty, as the code does. A
process id may come back as an allocator's or as a foreign process, which is
alive and holds nothing. The history bit `tornOnce` records that a file was torn;
exclusion is claimed without it only, because the code reads a torn file as empty.

### PortRendezvous

Rank 0 of a server: unlink, bind, write and rename, listen, barrier, unlink. Other
ranks poll the file and dial. Kills, ports stolen by the Neuron runtime and process
groups used again are actions of the environment.

### ShmStaging and EpdRouter

A segment is a ring of `Slots` cells; `first` and `next` move as vLLM's store moves
them, and a cell counts the reads it still expects. `HandOut` counts one for each
descriptor. `PutItem` is the store's put with its fallback to base64. `EpdRouter`
adds the pool (a queue of tasks, a worker that stages item by item and may die in
between), the router's coroutine as the state `st` of a request with one call per
encoder, and the encoders that read descriptor by descriptor. `waste` names the
descriptors that will never be read: it is a history variable that the
properties use.

### RejectionSampling and AsyncDecode

`RejectionSampling` has the tensor version (index arithmetic over flattened rows),
the host's loop and the definition of what both should give, as operators.
`AsyncDecode` composes the scheduler's side (`Schedule` with its placeholders and
margin, `UpdateFromOutput`) and the worker's (`Execute`: the rows of a step, their
inputs from the last step's outputs or from the host, the correction of positions,
verification by the sampler's counts). A token is the index it has in its
sequence, so that "right" is a comparison of numbers. `mixed` steps, whose rows differ in width,
are scheduled but what they compute is left open: the finding says why.

### RunnerV2

`SchedulePrompt`, `ScheduleDecodes` and `ScheduleNothing` plan (external: a prompt
chunk of one request, one token of several, or only removals); `ExecuteModel(k)` is a
rank's step (removals, the join of a new admission with the graphs in flight,
admissions, operands); `Run` is the device, which takes graphs in order once every
rank has submitted them, and commits; `Materialize` resolves the outputs and
`Deliver` hands them to the scheduler. The device state of the slots is kept for
the output rank only, as all ranks run the same graph on the same slots, which is
the first thing `SlotsSafe` claims. It also claims that there is a slot for each
new request of the next step of a rank: `ExecuteModel`'s guard stands for an
assertion of the code and must never hold a step back. `Engines` are the configurations: depth 1 or 2,
blocks of the cache, chunk, cached prefixes, pulled prompts. A token is <<request,
index>>, and a graph's answer is right only if the history it saw in its slot is
exactly the request's text, so every wrong slot, length, block or order shows in
what a request is told.

## 3. Runs

All passing runs end with the state space exhausted. Deadlock checking is off in
every one because each system really stops: the engine idles once all requests
are served (or dies when `schedule()` or `allocate()` raises), a pull is over, the
servers of a host are up.

| run | question | instance |
|---|---|---|
| `scheduler` | pure batches, one prefill, FIFO, no loss, roles kept, everything ends | three engines, 3 requests each, `max_num_seqs` 2, pipeline 2, `max_model_len` 4: colocated (a two-chunk prompt, a short one, a grammar); producer (a sender, two that grow to the limit, a pool for two); consumer (three pulls, one with a grammar) |
| `transfers` | what a PD accepts and why it dies; every block right, release after the READs; the window complete; everything ends | embeddings: 2 items (one of 2 blocks), 2 allocatable blocks, hold of 1 tick, 1 locator; KV: 9 pairs of topologies, prompts up to 5 pages, every cached prefix; sliding window: prompts up to 11 tokens, blocks of 2 to 4, windows of 2 to 12 |
| `host_processes` | exact and honest load counts, exclusive cores, own store only; all settle | 2 API workers, 3 requests (one impatient), 2 engines, and 1 worker with a pinned request; 3 process ids, 3 cores, 1 restart; 3 servers on one port, 4 ports, 1 of them stealable |
| `epd_router` | right pixels, slots outlive descriptors and are not leaked, each request ends once | 3 requests, 1 pool worker that may die once, 2 slots, 2 encoders, 4 hashes (1 oversized), with and without the warm-up's item |
| `model_runner` | no block lost or shared, leases kept; full shapes and exact inputs; samplers right; slots safe and texts exact; all ends | cache: 3 items (one of 2 blocks), 3 allocatable blocks, hold of 2 ticks; decoding: 2 requests, 2 drafts, `max_model_len` 15, depth 2; samplers: up to 2 requests of up to 2 drafts over 2 tokens, 3 of one token; v2: 2 ranks, 2 slots, 3 requests, 3 engines |
| `sched_both_mixed` | *violated*: a batch is never mixed, role both | synchronous pipeline |
| `sched_consumer_preempts` | *violated*: no preemption, role consumer | pool for 2, `max_num_seqs` 3 |
| `ec_tag_proof` | *violated*: a matching tag proves the embedding | as in `transfers` |
| `kv_prefix_hit` | *violated*: every local block is right | decode DCP 2 over prefill DCP 1, prompts up to 6 pages |
| `kv_fanin` | *violated*: the fan-in equals the readers | decode DCP 2 over prefill DCP 1, prompts up to 4 pages |
| `epd_fallback` | *violated*: an item is sent inline only when slots are in flight | distinct items, no deaths; the property allows for failed requests |
| `decode_mixed_width` | *violated*: every row of a speculative step gets its tokens | 2 requests near `max_model_len` |

What the properties of the passing runs say:

- `scheduler`: `BatchSeparated`, `WithinCapacity`, `OnePrefillPerBatch`,
  `NoRequestLost`, `NoOvertaking` (first come, first served but for what cannot
  start), `RolesKept` (a producer preempts nothing, a consumer holds no runnable
  decode back for a pull), `EveryRequestEnds`.
- `transfers`: `ReceiptSound` (an accepted embedding is right but for an item that
  was encoded again), `DiesOnlyOfReuse`, `PulledRightButForTail`, `GivenUpInTime`
  (blocks neither before the last READ nor by the lease alone), `WindowPulled`,
  `TransfersEnd`.
- `host_processes`: `ReservationsExact`, `LoadNeverUnderstated`, `BurstSpread`,
  `CoresExclusive`, `OwnStoreOnly`; `BooksSettle` and `HostGoesOn` for the ends.
- `epd_router`: `DrivenWithEncoded`, `AwaitedStaysReadable`, `HeldForAReason`,
  `NoWorkForEnded`, `EveryRequestAnswered`.
- `model_runner`: `BlocksPartitioned`, `TagNamesOwner`, `ImplementsLeases`; `FullShapes`,
  `InputsExact`, `BooksBalance`; `SamplersExact`; `SlotsSafe`, `TokensExact`;
  `RunnerGoesOn`.

Each run has one type invariant beside these. Every property is broken by at
least one small change to the modelled code (the operators marked "Mutant").

### Why the bounds are enough

- Scheduler: the conflicts it manages are between a request in prefill, one in
  decode and one that waits. Three requests with two slots (or a pool for two)
  give each branch of step 3 a case, with a queue behind it; a chunked prompt keeps
  a prefill in `running` across steps; two outputs make a decode that outlives a
  prefill; pipeline depth 2 is what the asynchronous scheduler uses.
- Encoder cache: the items together need one block more than there is, so that
  each of allocate's three sources (free, own hold, expired hold) and its failure
  are reached; a hold of two ticks has a state strictly between written and
  expired; a two-block item makes partial overlap possible.
- EC transfer: two items over two blocks, so that either can take over the
  other's blocks, in either order. One locator in flight is enough as the PD loads
  any set at once and locators do not interact on the VE; a stale one can coexist
  with a load.
- KV pull: the pairs cover head split, merge, replication on either side, and
  prefill DCP above, equal to and below decode DCP, with and without fragments.
  Ratios are 2 (one pair 4 over 1 in TP), the first value that separates
  multiplication, division and remainder by them; five pages give a short, an
  exact and an uneven last stride and a cached prefix of more than one block.
- Sliding window: the code adds or drops single tokens and blocks, so what
  matters is the prompt's length, the cached prefix and the window modulo the block
  size; eleven tokens give every remainder for blocks of 2, 3 and 4, with windows
  below, at and above the prompt.
- Host: two API workers race for the array; three requests make a burst over
  two engines uneven; one pinned request leaves the balanced path. Three processes
  and three cores, one of them wanting an aligned pair, make a granted range block
  one that asks and leave a core that fits nobody; one restart reuses an id. Three
  servers, two of them in one process group, on one port: the second finds the
  first's file, the third another group's.
- EPD: two slots and four hashes, so that the ring wraps and fills; one death
  gives a successor beside descriptors of its predecessor; two encoders make calls
  that fail apart.
- Asynchronous decoding: a step in flight and one being planned is all the code
  allows; two requests are one that stays and one that comes, leaves or stops
  speculating; `max_model_len` 15 leaves several speculative steps before the margin
  and two after it.
- Samplers: rows interact through flattened indices only, so a short row before
  and after a longer one, and an empty one, are the cases.
- Runner v2: two slots and three requests force a slot to change hands; two ranks
  are a rank that is ahead and one that is behind; the window is narrower than the
  longest text; the consumer has fewer blocks than two requests may need.

### Fairness

- Scheduler: weak fairness of `Schedule` and `UpdateFromOutput`, because the engine
  loop steps while `get_num_unfinished_requests` is positive and processes every
  batch it started; of `CompileGrammar` and `TransferDone`, because compilations end
  and a transfer completes or its lease expires. None for arrivals and aborts.
- Embeddings: of the PD's steps that end a phase, where `ReadFails` stands for
  the error state of a transfer and for the deadline of `_drain_recving`. READs
  themselves are not fair: a load ends even if none ever lands.
- KV pull: both engines poll; a posted READ lands or fails; a lease ends.
- Host: each process by itself: a worker's event loop (`LbRelease`), the arrival of
  statistics (`ObserveStats`), an engine's busy loop; a process of the allocator that
  is in a call (it polls, and a lock that is free is given); rank 0 and the polling
  ranks. Not fair: routing, aborts, kills, restarts, ports taken.
- EPD: of the steps of the router and of the encoders it has called, the render
  timeout among them (`RouterStep`). Pool workers need not run and clients need not
  leave.
- Model runner: the steps of an `allocate` in progress, and `Tick`, which is time;
  the engine loop and the worker's loop of asynchronous decoding; of runner v2 any
  step, as the engine loop blocks on the oldest step's result while ranks and
  device work on it.

## 4. Findings

Each is a run whose property TLC violates, and quotes the statement it
contradicts; details are in `PROJECT.json`.

1. `sched_both_mixed` -- with `kv_role` both, a pull that completes while a local
   prompt is admitted joins it in one batch, and the check at
   `scheduler.py:1062` raises. Step 3 looks at `waiting` and at grammar waiters,
   not at requests in `WAITING_FOR_REMOTE_KVS`.
2. `sched_consumer_preempts` -- `_kv_in_use` does not count pulls parked for their
   transfer, whose blocks are already allocated; with a pool smaller than
   `max_num_seqs` a running decode is preempted, which the comment at line 832
   rules out. (On a producer, where nothing is parked, `NoPreemption` holds.)
3. `ec_tag_proof` -- the tag names the item, not the write. An item evicted and
   encoded again carries matching tags before its embedding is there. What the
   tags do prove is `ReceiptSound`.
4. `kv_prefix_hit` -- with decode DCP above prefill DCP and a prefix-cache hit, a
   rank whose last block lies past the prompt's end has a stride one entry shorter
   than expected, is not seen as a hit, and copies the cached prefix into its tail.
   `PulledRightButForTail` shows that this is the only case but the one the source
   itself leaves undone (line 991, `KnownFrontAligned`).
5. `kv_fanin` -- a decode rank with nothing to read sends no notification but is
   counted in the fan-in, so the producer's blocks wait for the lease.
6. `epd_fallback` -- `_warmup` (`preproc_pool.py:52`) stages an image whose
   descriptor is dropped. The ring frees in order and stops at it, so a worker
   that took a warm-up frees no slot ever, and once its segment has filled, every
   item goes inline as base64.
7. `decode_mixed_width` -- near `max_model_len` speculation ends request by request,
   so a step may have rows of different width. The device's sampler then returns
   nothing for a row without drafts, and no bonus token for one shorter than the
   widest. The strip that exists for such batches acts on KV consumers only.

Also seen, without a run of its own: in step 3.5 (line 1232) the cap is compared
with the visible running requests only, so a grammar that compiles inside the
call may be admitted above the KV cap; only the first grammar waiter stays
visible, so a ready one behind it hides the decodes for steps that run nothing.
`docs/design/parallelism/dcp.md` describes an older rank layout than the comment
at `neuron_nixl_connector.py:1042` and the code. A producer rank that is not
replica 0 of its heads is never notified and relies on the lease.

## 5. Proofs

TLAPS proves, for every value of the constants that satisfies the assumptions of
the module:

| theorem | statement |
|---|---|
| `CapacityRespected` | the running queue never exceeds `max_num_seqs` |
| `TypesCorrect` | the scheduler's type invariant, no request past `max_model_len` in tokens or KV |
| `BatchesPure` | no batch mixes prefills and decodes, on an engine with no pulls or with pulls only |
| `OnePrefillAtATime` | a step advances one prompt at most |
| `FirstComeFirstServed` | no request overtakes another in the hold-back queue |
| `RequestsKept` | no live request is lost or is in two queues at once |
| `NoBlockLostOrShared` | the blocks are partitioned between queue, slots and hold |
| `TagsNameOwners` | a block's tag names its owner or last owner in the hold |
| `HoldTimeKept` | no early return to the queue but the item's own or `clear` |
| `CacheTypeCorrect` | the type invariant of the encoder cache |
| `AllocatorImplementsLeases` | the allocator implements `BlockLeases` |
| `RanksJoinTheirOwn` | a rank joins its own rank 0's store only |
| `CoresAreExclusive` | no core is two live processes' while no file was torn |
| `CoreTypesCorrect` | the type invariant of the core allocator |
| `ReservationsAreExact` | the in-flight counts are the reservations outstanding |
| `LoadIsNeverUnderstated` | no engine has more requests than its count |
| `BurstIsSpread` | engines differ by one request at most until a reservation is released |
| `LbTypesCorrect` | the type invariant of the load balancer: no count below zero |
| `AcceptedIsWhole` | an accepted embedding is the whole item, unless the item was encoded again |
| `EngineDiesOfReuse` | validation kills the engine for a lost READ or an item that moved only |
| `BlocksGivenUpInTime` | a prefill rank releases blocks after the last READ, and waits for the lease only for a lost READ or a silent rank |
| `SuccessIsRight` | a pull that reports success has put into every local block its own tokens and heads, but for a short tail (finding 4) and the case the source names |
| `WindowIsPulled` | a pull for sliding-window layers fills every block that is read first and the cache lacks, and no other block is written from the wrong place |
| `DescriptorsStayReadable` | what a descriptor on its way names is still in its slot |
| `SlotsHeldForReaders` | an unread slot has a reader on its way or a descriptor that was given up |
| `DrivenWithWhatWasEncoded` | the decoder is driven with every item encoded from its own pixels |
| `EndedStartsNothing` | a request that ended stays so, and no call is begun for it |
| `StagingTyped` | the type invariant of staging and router |
| `SlotsAreSafe` | ranks agree on slots, none that a graph will touch is free, and one is there for every admission |
| `TokensAreExact` | a request is given its own text, token by token, where the blocks kept for a sliding window cover it |
| `ShapesAreFull` | a decode step has all of a request's drafts or none, below `max_model_len` |
| `TokensAccounted` | placeholders are those of the steps in flight, and no token produced is lost or counted twice |
| `StepsFedRight` | a decode step starts at the last token produced, with that token and drafts proposed after it |

*CapacityRespected.* The inductive invariant is `CapacityInv`: the queues hold
requests (of which there are finitely many) and the property itself.
`MaxRunningBound` is the heart: in each of the branches of step 4 the slots given
to the base scheduler and the requests hidden from it fit `max_num_seqs`
together. `HiddenSplit` then adds the two parts of the running queue up again.
The base scheduler is used only through "it does not exceed
`max_num_running_reqs`".

*RequestsKept.* `HomeInv` says that each queued request is in exactly one of the
three queues and the send-lane, once, and is no newcomer, and that each waiting or
running request is queued. It speaks of all queued requests and not only of the
live ones `NoRequestLost` is about: an aborted sender stays in the send-lane until
the next `update_from_output`, and must not be queued a second time. `ScheduleMove` lists what
one `schedule()` may move from where to where (admitted, parked, preempted,
dispatched), `ScheduleMoves` shows that every branch of the call is such a move,
and `MoveKeepsHome` that such a move keeps `HomeInv`; each other action has a
lemma of its own.

*TypesCorrect.* Beside the types, the bounds: what runs or starts has room for one
more step (`RoomForStep`). For a running request this follows from the limit by
its outputs in flight, for a resumed pull from the prompt's length; for a waiter it
needs that a request in `waiting` or `skipped_waiting` has computed nothing, which
holds because preemption resets it, and which is inductive only together with
`HomeInv`: a request that ran and waited at once would break it.

*BatchesPure.* `BatchIsPure` goes through the branches of step 3: an ongoing prefill
runs alone because nothing is restored beside it; a new prefill runs alone because
every running request is hidden; otherwise nothing is restored and a grammar
waiter is visible only when nothing else is. That what is restored *is* a prefill
is the last part of `Amounts`. The condition `Uniform` cannot be dropped: with pulled
and local prompts on one engine the property fails (`sched_both_mixed`), because a
completed pull reaches the base scheduler in every branch.

*OnePrefillAtATime.* `OnePrefill`: of the running requests at most one is in its
prompt, and a parked pull has all of its prompt but the token it resumes with.
`OneIsShown` is the case split on what the base scheduler is shown: an ongoing
prefill keeps every waiter hidden, a restored waiter keeps the grammar queue
hidden, and without either only the first grammar waiter is visible. The invariant
is about what stays running as well as about the batch, because a chunked prompt
is still there in the next step; it needs `HomeInv`, as a preempted or resumed
request that was in two places would be advanced twice.

*FirstComeFirstServed.* From `HomeInv` alone: each action changes `waiting` in a way
that keeps the order of what is left (`KeepsOrder`, in `ListLemmas`: appending,
taking one out, taking the head off and putting the preempted before it), and what
leaves it for another place was at its head. The second needs that the five places
are disjoint and that no request is queued twice.

*The encoder cache.* `CacheInv` is the types, the partition, the tags and
`OneEntry`: no item has both a slot and a hold, and an item being allocated has
neither. Without `OneEntry` the partition is not inductive, as an eviction could
overwrite a held entry and leak what it listed. The proofs work on the sets of
blocks per item (`SharedOut`, `Tagged`); one lemma per kind of move (hold to
queue, queue to slot, slot to hold, slot to queue) shows that it keeps them, and
one lemma about lists per way the queue changes (in `ListLemmas`: `AppendLists`,
`SplitList`, `OrderList`). `HoldTimeKept` is an action property proved from `CacheInv` and the
range of the ages; `CacheTypeCorrect` adds the sizes of the entries.

*AllocatorImplementsLeases.* The mapping takes an item's blocks from its slot, its
hold, or the allocation that is under way, whichever it has. Each action of the
allocator is then a step of the leases or leaves them alone: reclaims and
evictions move blocks between the sources of one owner. The proof rests on
`CacheInv`: without the partition "the owner of a block" is no function.

*RanksJoinTheirOwn.* `PortInv` adds to the types and the property: two live servers
are of different groups (`GroupsApart`), rank 0 has its port from its bind to its end
(`PortWhileUp`), a file that was not left by a dead server says what its living rank 0
listens on (`FileOfTheLiving`), and a rank dials its own (`DialsOwn`). The exception in the property is in the code: a file of a killed
server of the same group, read before the new rank 0 unlinks it.

*CoresAreExclusive.* `CoreInv` says who may be inside the lock (`LockHolder`), that
what the holder works on is what the file says (`ReadTrue`), that only the living use
cores (`UsersAlive`), and, while no file was torn, that the books -- the file, or the
holder's copy while it writes -- give no core twice and name all that processes use
(`Booked`). Each write of the file needs a lemma of its own.

*ReservationsAreExact, LoadIsNeverUnderstated.* `LbInv`: each request on its way is
reserved by its home worker (`Owned`), a notice or a pop means the engine is done with
it and what is not ended is reserved (`Truthful`), and the counts are cardinalities (`Exact`). The arithmetic is in the
lemmas on cardinalities of a set with one member more or less.

*BurstIsSpread.* On top of `LbInv`: a request that was not routed has no engine
(`Unrouted`), scores are pairs of naturals (`LoadTypes`), and the property itself. Under
its premise no worker is between popping and releasing, so the array is the number of
requests routed (`ArrayIsRouted`). The balancer's scan goes round all engines from
wherever it starts (`ScanVisitsAll`), so the `CHOOSE` of `Balanced` finds an engine with
a least score (`BalancedIsLeast`); the first part of a score is the array's count,
hence the chosen engine has no more requests than any other and may have one more. The
observed queue lengths, the second part, decide between equals only: this is why their
staleness does no harm.

*AcceptedIsWhole, EngineDiesOfReuse.* The tags prove something only together with what
happened since the locator was issued, so the invariant `TransferInv` is about
locators: one whose item was not encoded again proves (`Truth`) of each block it
lists that, while the block carries the item's tag, the item's part is in it. A tag
once lost comes back only with a new allocation of the item, which sets
`reencoded`. Hence (`ReadSoFar`) a part that was read wrong has lost its tag for
good, and the tag read afterwards cannot be right. The second theorem is the
converse: a tag that was read wrong means that the item's entry has left slot
and hold. Both rest on `CacheInv`.

*BlocksGivenUpInTime.* The fan-in is arithmetic on two topologies, done on the producer;
the READs are arithmetic on the same topologies, done on the consumer. The lemma
where they meet is `MovesOneFragment`: what a decode rank moves from one prefill
context rank is one fragment, the one named by `FragmentOf`. So a decode rank
notifies a prefill rank once at most, by its one READ or by its bare
notification; notifications heard are as many as readers that have been heard
(an injection), and when they reach the fan-in, every reader has been.

*SuccessIsRight.* `PullInv` says that when a rank has reported success all its READs
have landed; the rest is arithmetic on the two topologies, in two halves that meet in
`ArrivedIsRight`. For the pages (`PagesMatch`), each of the three branches of the read map has
a lemma that what it puts into a local block is that block's page and that something is:
`GatheredPages` when prefill DCP is above decode DCP, `FragmentPages` when a decode
block is several prefill blocks, and `StridedPages` when decode DCP is above, where
`StrideLength` counts the stride and `StrideSkipsCached` shows that reading its last entries
skips exactly the cached blocks, unless the rank's tail is short (`TailShort`, the
finding). For the heads (`HeadsMatch`): the ranks read, in order, hold the reader's heads,
which needs that the head counts divide each other, as the handshake asserts.

*WindowIsPulled.* Block tables, the cut to the window, the strip of null blocks and the
list to be filled all have one shape (`Lists`): some null blocks, and then a run of
places up to the last block. `CutKeepsReach`, `PlacesAreLeft` and `FillLists` say where
the run begins after each of them. Both engines count the same tokens when anything is
pulled (`TokensCounted`: the token the prefill engine drops is the one the decode engine
does not admit), so both runs end at the same place, and pairing them from their ends
pairs each place with itself (`ReadsPairUp`), as the prefill's run never begins after
the decode engine's. `FirstReadsHeld` then compares that run with what the first
decode reads.

*The router and its shared memory.* No step pairs a write with a read: an item is
staged by a pool worker, handed on by the router and read by an encoder, and
worker, render, call and client may each fail in between. `Accounts` is the
pairing: for each live slot, its reads and the places at which its descriptor is
on its way (entries of workers' lists, calls) are as many as its writes, or fewer
if the descriptor was given up. `StagesAccounts`, `RenderedAccounts`,
`ReadsAccounts` and `AccountsDropped` are its four kinds of step. A descriptor on
its way therefore sees a slot with reads to come, which the ring does not free, so
it keeps the id and the item it promises (`Kept`, in `Lists`); ids are in order
around the ring (`InOrder`), which is why a slot written anew is a free one.
`DescriptorsStayReadable` and `SlotsHeldForReaders` read the accounts in the two
directions. `DrivenWithWhatWasEncoded` adds `Flow` (a worker's list is a prefix of
the request's media, a request has calls once it is rendered) and `Answers` (what was
asked for is encoded, still in a call, or lost with it), with the deduplication of
`encode_request` as lemmas about `Unique` and `Picked`.

*SlotsAreSafe.* Ranks submit the same steps at different times and hear of graphs that
ran at different times, so their tables of slots differ at every moment. The
invariant `SlotInv` is a chain of tables, one after each step of the queue
(`Chain`): a rank that has submitted i steps has the i-th table. A step maps a table
to the next by a function of the step alone (`After`: a new request takes the
lowest slot that nobody keeps), so ranks choose alike. That a rank may choose so is
`AvailableSlots`: a step with new requests joins the graphs in flight first, so it
finds no slot withheld, and all that is not kept is there. What a rank has not been
told to be done with is not free on it (`Withholds`). The last table holds exactly
the requests the scheduler takes for running and those whose end the runners are yet
to be told; so there is a slot for each request it plans to admit.

*TokensAreExact.* Four parties see a request at four times: the scheduler counts
ahead of everybody, the output rank has submitted the first m steps of the queue, the
device has run the first f of them, and the texts end before the oldest. `TokenInv`
joins to `SlotInv` a *ledger* (`Ledger`): for each request, what the scheduler counted
of it and which blocks it had after each step of the queue. Each part of the state is
then compared with the ledger at its own place, and never with another part:

- `Shapes`: each step carries one place of the ledger to the next, so what it computes
  begins where the last one ends, and a block once given stays where it is in the list;
- `PlanAgrees`: the last place is the scheduler's own plan, in which no two requests
  hold one block; `Room`: so it is for every step that has not run, for which the
  blocks of a request that has ended since, and is computed all the same, count too;
- `HostRows`: the output rank's rows of blocks, and the operands of the steps it
  submitted, are those at m;
- `Cache`, `Device`: at f the cells of each live request hold its tokens, and its
  slot has its history, its count and its next token; this needs the
  chain of tables, as the slot a request has at m may have been another's at f;
- `Answers`, `Results`: a text plus what the steps in the queue owe it is what the
  scheduler counts, and a step that ran sampled exactly what it owes.

There is a lemma per action: planning adds a place (`PlanLedger`), a submission moves m
(`ExecuteLedger`), a run moves f, past a step of removals too (`RunLedger`), reading the outputs
changes the form of a step (`MaterializeLedger`), and a delivery drops the first place
(`DeliverLedger`). `RunLedger` is the heart: a row of the step sees exactly its
request's text (`RowRead`), so it samples the next token, and what it writes it writes
in cells (`WriterKnown`, `CacheRuns`) and in a slot (`SlotRuns`) of its own. A late step
of a request that has ended still runs; `Room` says that its blocks are nobody else's
at that place of the ledger, because a step that takes them over is planned, and so runs,
after it. `GivenBlocks` shows of
the pool what this rests on: what a step is given is free, and no block is given twice.

The theorem has one hypothesis, `WindowCovered`: the row of blocks that a decode keeps
for a sliding-window layer holds, before the block of the new token, the rest of its
window (or is as wide as a whole request). It is a property of the deployment and not of
the protocol, and the code does not check it. It holds whenever the block size divides
`sliding_window`, and when the rounding to the kernel's tile leaves a block to spare. It fails
when the remainder is two or more and nothing is rounded up: `compute_swa_num_blocks`
(`neuron_input_build.py:321`) says that a window needs
`sliding_window // block_size + 1` blocks, but such a window may reach over one more
(blocks of 3 and a window of 2: token 3 begins a block and its window ends in the one
before). TLC confirms it: with `BlockSize`, `Pmax` = 3, `Window` = 2 and `ModelLen` = 9,
`TokensExact` fails, and with `Window` = 4 it holds. `model_runner` is within the
hypothesis. The module's own assumptions say that `PromptLen` is at most `ModelLen`
(vLLM refuses longer prompts) and `BlockSize` at most `Pmax` (the code divides by
`SWA_ATTENTION_PMAX // block_size`).

*ShapesAreFull.* `DecodeInv`: the books of `BooksBalance` in the form `num_computed` is
ahead of the known tokens by the placeholders (`Ahead`), a request that drafts has
room for a full step and the one after (`DraftersHaveRoom`), and each step in the
queue is full (`FullStep`). The margin `MaxModelLen - 3 - 2 * NumSpec` is exactly what
makes the second inductive.

*TokensAccounted, StepsFedRight.* `PipelineInv` joins the scheduler's books to what the
device has produced. A position is planned two steps before it is used, with every
draft counted as accepted; `Upcoming` and `BooksBalance` give its distance from the
last token produced, `Returned` what the worker's outputs say of that distance, and
`Aligned` that the one takes off the other. A draft is real because of a chain of three:
the scheduler leaves placeholders to a request that is below the margin
(`Promised`); the step in between, whether or not it has the request, keeps its row and
runs the draft model, as the worker's limit `Past` is, for a step with the request, the
scheduler's `Margin` (`Promises`); so the row is there and begins with the last token
(`Proposed`). The chain breaks when one request of a step is past the margin and another
is not: the draft model is then skipped for both, and `InputsExact` claims nothing
from there on (`apart`). `NoneLeftOut` is the part of the books that is
about progress: the engine takes in the last step of its queue only when no running
request can be planned for, and all of them then end.

Only model-checked: all liveness (`EveryRequestEnds`, `TransfersEnd`, `BooksSettle`,
`HostGoesOn`, `EveryRequestAnswered`, `RunnerGoesOn`), which TLAPS does not reach under
fairness; the samplers (`SamplersExact`), which are operators over bounded
inputs and use folds over them; `RolesKept`, which rests on sums of blocks over sets of requests (folds, so
induction over data). `TransfersTypeOK`, `HostTypeOK` and `RunnerTypeOK` join the type
invariants of the modules a run covers; those of the encoder cache, the core
allocator, the load balancer, the scheduler and the router are proved one by one.

## 6. Not modelled

Left out of the system:

- *Bucketing and padding*: arithmetic on configuration that picks a compiled
  shape; the models see shapes only where a property depends on one (`FullShapes`).
- *NeuronWorker, platform, executors, compilation cache*: start-up code, run once
  in order, whose outcome is decided by device, compiler and file system.
- *Parallel state*: builds process groups; the layout of ranks under DCP is in
  `KvPull`.
- *Shared-memory reader spin patch*: changes how a reader of vLLM's queue waits,
  and not its protocol.
- *Weights, snapshots, manifests, benchmark connector, accuracy tools*: input and
  output.
- *Models, kernels, functional layers*: numeric code. They are most of the
  repository's lines, which is why the modelled share of lines is small.

Left out of components that are modelled in part:

- Scheduler: jump-forward tokens, bucket padding, encoder locators, priorities.
- EC connector: handshake, memory registration, the PD's own cache.
- KV connector: handshakes on the background thread, heartbeats, engine clean-up
  and registration anew, several requests at once. In `SlidingWindowPull` both
  engines have one decode-context rank.
- EPD: a pool that fails to start and its close (either ends the router), the cycle
  over decoders, the format of streamed frames, detokenization.
- Model runner (v1): data-parallel padding, jump-forward tokens, the in-graph
  reorder, multimodal inputs, tensors for compiled graphs.
- Sampling: random acceptance, whose correctness is about probabilities.
- Runner v2: data-parallel dummy batches and shape agreement, log-probabilities,
  snapshots, warm-up, the opt-in depth of 4, block lists per KV group (one list
  serves both attention types here); a preempted request's history is prefilled
  in one step.

Hazards without a property:

- `neuron_nixl_connector.py:801`: a remote engine evicted and registered again with
  another topology (needs engine registration in `KvPull`).
- `neuron_model_runner.py:8652`: a step stripped of its drafts followed by a
  speculative one; the strips are those of KV consumers and data-parallel peers.
- In `RunnerV2` a pulled request's `Load` waits for the graphs in flight; whether a
  READ may land in blocks that a late step still writes
  (`neuron_model_runner_v2.py:1431`) is therefore not checked.

## 7. Plan

In order of importance.

1. *Prove.* `RolesKept`, with the blocks of a batch counted as a set (as `Wanted` and
   `Fits` of `RunnerV2` do) and not as a sum; then the samplers, as lemmas about a step
   of the folds.
2. *Model.* Several pulls and engine clean-up in `KvPull`; a landing READ against a
   late step in `RunnerV2`; strips of drafts in `AsyncDecode`; bucket choice as
   operators against a definition.
3. *Abstract specifications.* For the scheduler, a first-come-first-served server
   with a capacity, implemented when the role is "none"; for the in-flight array,
   a count of outstanding requests.
