# A TLA+ model of the nml server, its parameter loader and its device-contract controller

This directory holds a formal model of the parts of `nml` that are hardest to get
right by testing: the serving engine under `products/serve/src/server/`, the
generator, its device submissions and the parser of completions under
`products/serve/src/gpt_oss*`, the paged attention that those submissions launch
(`crates/nml-ir`, `nml-kernel-triton`), the loading of parameters from a file to the shards
of a mesh (`crates/nml-checkpoint`, `nml-runtime`, `nml-sharding`), and the controller
that rents a GPU pod, runs device contracts on it and must give it back
(`tools/runpod`, `tools/device-contracts`). Paths below are relative to
`src/`. It contains TLA+ modules translated from the Rust and Python source, TLC
configurations that check them on small instances, and machine-checked proofs
(TLAPS). `PROJECT.json` lists the components, runs, mutants, hazards and
theorems, and maps every definition to the lines it stands for.

- [1. The system](#1-the-system)
- [2. Modules and how they correspond to the code](#2-modules-and-how-they-correspond-to-the-code)
- [3. What the runs check](#3-what-the-runs-check)
- [4. What the model found](#4-what-the-model-found)
- [5. What is proved](#5-what-is-proved)
- [6. What is only model-checked, and what is not modelled](#6-what-is-only-model-checked-and-what-is-not-modelled)
- [7. Plan](#7-plan)
- [8. Running it](#8-running-it)

## 1. The system

`nml` is a Rust library that builds tensor programs, compiles them through
MLIR/XLA and runs them with PJRT, and one product on top of it: a server for
GPT-OSS models with an OpenAI-compatible HTTP API.

```
 HTTP tasks (tokio)                 model engine (one OS thread)
 http.rs  ── Submit/Cancel ──▶  bounded command channel ──▶  run_loop (engine.rs)
   ▲                                                          │  owns
   └──────── bounded event channel, one per request ◀─────────┤
             cancellation token (shared) ◀───────────────────▶│
                                              ┌───────────────┼────────────────┐
                                        Scheduler       Generator         PageManager
                                      (scheduler.rs)  sessions (gpt_oss.rs)  (cache.rs)
                                                            │
                                                    execution.rs ─▶ nml-runtime ─▶ PJRT

 start-up ─▶ nml-checkpoint ── worker threads read, main thread uploads (CPU)
                └─ one component at a time, streamed through DMA lanes (CUDA):
                   nml-runtime over the regions and spans of nml-sharding ─▶ PJRT

 operator ─▶ controller (tools/runpod) ── creates, polls, terminates ──▶ provider
                │  lease in memory, lease on disk                           │ runs
                └───────── POST /run, GET /state, /result ─────▶ contract runner (in the pod)
```

### Components with state

| Component | State | Operations | Interacts with | What makes it correct |
|---|---|---|---|---|
| Page manager `server/cache.rs` | a descriptor per physical page, the FIFO of free pages, a reservation (page table and two lengths) per sequence, checkpoints held by callers | reserve, append, commit, checkpoint, rollback, truncate, seal, share, release | called by the generator | no page lost, freed twice or owned twice; a sealed page never changes; a reservation never runs out |
| Scheduler `server/scheduler.rs` | map of sequence states, three FIFO queues, the active counter | enqueue, admit, plan, complete prefill/decode, cancel, remove | called by the engine loop | each sequence in the one queue its phase names; counter exact; each prompt token processed once; no starvation; a plan always fits |
| Model engine `server/engine.rs` | pending queue, map of active requests, rows being executed, readiness | command drain, expiry, admission, plan, decode (plain and stable), prefill, shutdown | HTTP tasks through channels and tokens; scheduler, generator | the registries agree at every step; every accepted request ends; one terminal event; shutdown completes clean |
| Response tasks `server/http.rs` | position in the event stream, response events not yet sent and their channel, the armed `CancelGuard` | readiness check, submission, translation, cancellation on drop | engine, parser, client | the client gets the completion in full and in order, or is told that it does not; a task that goes away tells the engine |
| Generator sessions `gpt_oss.rs` | one `ServerSession` per request, the stable lane, the page manager | prepare, prefill batch, decode batch, release | engine, page manager, execution | the cache length equals the visible tokens; the lookahead never runs out of pages; a failed batch leaves nothing half committed |
| Execution `gpt_oss/execution.rs` | layer caches that are donated to a launch and come back, the pipelined prefix of the next step | submit, await, recycle | nml-runtime | a cache is never used while it is away, and its loss is noticed |
| Harmony protocol `gpt_oss/protocol.rs` | parser state per response | feed token, finish | HTTP tasks | the parse of a token stream does not depend on how it is cut |
| Runtime `crates/nml-runtime` | argument slots, donated buffers; during an upload its DMA lanes, the transfers in flight from them, a transfer manager per shard | bind, run, take results; upload a component | execution, loader, PJRT | a donated buffer is unusable afterwards; a lane is not touched while a transfer reads it; every shard gets its bytes |
| Paged attention `crates/nml-ir/src/paged_attention.rs`, `nml-kernel-triton` | none between launches; in a launch, the partial softmax of each program | choose a launch, walk pages or tiles, combine segments, append to the cache | execution, through compiled programs | every program that may be chosen computes the same attention; each output is written by one lane of one program |
| Logical meshes `crates/nml-sharding` | none (axes and partitions) | regions, device order, spans of a shard in the file | runtime, loader | every device holds the block its place in the mesh gives it |
| Checkpoint and parameters `crates/nml-checkpoint`, `nml-parameter` | the plan of a load, a counter shared by the worker threads, a rendezvous channel, the transaction's resident components | plan, read (workers), upload (main thread), commit or drop | product start-up, runtime | each component once, all or nothing, within its memory bound; a load returns whatever fails |
| RunPod leases `tools/runpod/*.py` | the lease in memory and its file, the pod at the provider, the signal handlers | create, record, wait, submit, result, terminate and confirm, recover | provider API, contract runner, operator | no known pod outlives its lease; the selection runs once; a lease tells the truth |
| Device contract runner `tools/device-contracts/src/lib.rs` | the one execution: idle, running, terminal | serve, run, result, shutdown | controller over HTTP; child processes | accepts one selection ever; reports success only if every contract succeeded |
| Artifact materialisation `tools/artifact/materialize.py` | files being downloaded and installed | fetch, verify, install | file system | a destination is complete or absent |

Stateless or out of reach of a model checker: the tensor IR, types, derive
and compiler crates (construction and lowering of graphs) but for the lowering of
attention, the MLIR, XLA and PJRT bindings (foreign functions), the other kernels
(numerical code without control of its own), the
tokenizer (a wrapper), the serving contracts (validation at start-up), the API
types, metrics, build rules and packaging. Each has its entry and reason in
`PROJECT.json`.

### Where the difficulty is

In the server, only one thread mutates the scheduler, the pages and the map of active
requests, so there are no locks. What is left is subtle for other reasons:

- **Interleaving.** HTTP tasks submit, cancel, disconnect and stop reading at
  any point of the engine's loop, over bounded channels whose overflow is
  silently ignored (`try_send`). Readiness is checked before a command is sent.
- **Duplicated bookkeeping.** A request is known to the engine's map or rows, to
  the scheduler's map, to one of its queues, to its counter and to the page
  reservations. About ten exits (complete, cancel, deadline, admission wait,
  overflow, failed submission, undeliverable row, shutdown, ...) must update
  all of them.
- **Rows out of the map.** While a submission runs its rows are in local
  variables; the stable decode lane keeps them there for many tokens, without
  consulting the scheduler.
- **Sleeping.** The loop blocks on the command channel when it believes that
  nothing is left to do.
- **Partial failure.** Page operations walk a table and stop at the first page
  they dislike, after having rewritten the ones before.
- **Speculation.** The first layer groups of the next token are submitted before
  the current token is read. They write K/V entries that may never become part of
  a visible sequence, and a later call continues them, or starts from the caches
  they touched.
- **State that lives elsewhere.** The decode lane keeps positions, tokens and
  page tables on the device; the host must know, without looking, that they are
  still those of its sessions. Caches and slab are moved into a launch and may
  not come back.
- **Lost answers, signals, crashes.** The controller must not create, run or bill
  twice although any answer may be lost, any save may fail, and it may be
  interrupted between any two statements.
- **Transfers behind the host's back.** A DMA lane is read by the device after the
  call that handed it over has returned. Only handles say when it may be
  filled, unmapped or forgotten, and every early return drops some of them.
- **Threads around a rendezvous.** The workers of a load block in `send` until the main
  thread receives; the main thread, once it fails, waits for the workers.
- **One meaning, several programs.** The machine and the shape of a call decide whether
  attention is a loop over pages, a kernel over tiles, a split of the sequence into
  segments, or a vendor's kernel with a correction. Masked tiles, pages that are not
  there, padded lanes and empty segments differ from one to the next.
- **Four meanings of an offset.** A byte of a parameter has an offset in the file, in a
  span, in a DMA chunk and in a shard.
- **Fairness of the plan.** Decode has priority, prompts must progress, and both
  share one token budget.

`PROJECT.json`, "hazards", lists each such place with its line and the
properties that watch it.

## 2. Modules and how they correspond to the code

| Module | Models | Notes |
|---|---|---|
| `PageManager` | `server/cache.rs`, `PageManager` | every method that changes state is one action |
| `CacheLedger` | what the engine relies on of it | abstract specification, names no page |
| `Scheduler` | `server/scheduler.rs`, `Scheduler` | every method that changes state is one action |
| `SchedulerProofs` | | theorems about `Scheduler` and their proofs |
| `Engine` | `server/engine.rs` `run_loop`, and the side of `server/http.rs` and `gpt_oss.rs` it talks to | composes `Scheduler` (INSTANCE) with the loop, the channels and the tasks |
| `AdmissionLine` | what the engine promises about admission | abstract specification |
| `EngineProofs` | | theorems about `Engine` and their proofs, from those of `SchedulerProofs` |
| `LayerCaches` | the submissions of `gpt_oss/execution.rs` over the argument slots of `nml-runtime` | layer caches, control slab, which K/V entries are right |
| `Generator` | `gpt_oss.rs`, `Generator` and its sessions | EXTENDS `LayerCaches`; uses the page manager as `CacheLedger` (refinement) |
| `GeneratorProofs` | | theorems about `Generator` and about the launches of attention, and their proofs |
| `AttentionLaunch` | `nml-kernel-triton`: grids, query blocks, segments; `nml-ir`: the choice of a launch | operators only |
| `PagedAttention` | the attention that each of these programs computes | EXTENDS `AttentionLaunch`; operators only |
| `PageManagerProofs` | | theorems about `PageManager` and their proofs |
| `ContractRunner` | `tools/device-contracts/src/lib.rs` | |
| `RunPod` | `tools/runpod/controller.py`, `lease.py`, `api.py` | EXTENDS `ContractRunner`; adds the provider, the network and the operator |
| `RunPodProofs` | | theorems about `RunPod` and their proofs |
| `HarmonyParser` | `gpt_oss/protocol.rs`, `HarmonyParser` | a value and its operations, no variables |
| `Response` | `server/http.rs`: `translate`, `CancelGuard` and the two readers of its channel | EXTENDS `HarmonyParser`; the engine is its environment |
| `ChatStream` | what a client of `/v1/chat/completions` is promised | abstract specification |
| `ResponseProofs` | | theorems about `Response` and their proofs |
| `Sharding` | `nml-sharding`, and `for_each_shard_span` of `nml-runtime` | operators only; beside the loops of the code, the same by closed formulas |
| `ComponentUpload` | `nml-runtime`, `Platform::upload_component_from` and `upload` | EXTENDS `Sharding`; the device is PJRT's |
| `ComponentUploadProofs` | | theorems about `ComponentUpload` and their proofs |
| `ParameterLoad` | `nml-checkpoint`, `load_parameters` with its plan, its workers and its transaction | an upload is one step that succeeds or fails |
| `LoadTransaction` | what the caller of a load is promised | abstract specification |
| `ParameterLoadProofs` | | theorems about `ParameterLoad` and their proofs |
| `MCPageManager`, `MCScheduler`, `MCEngine`, `MCGenerator`, `MCRunPod`, `MCResponse`, `MCComponentUpload`, `MCParameterLoad` | | add the symmetry sets, to `Generator` the attention that a layer group launches (INSTANCE), to `Response` its vocabulary, to the uploads their tensors and meshes, to the loads their models; the other bounds are in the `.cfg` files |

Definitions have the name of the function, field or variant they translate
(`reserve_pages` is `Reserve`, `shrink_private_tail` is `ShrinkPrivateTail`).
Definitions introduced by a comment that calls them a *slip* are plausible
errors of the definition next to them; no action uses them, and each is there to
show that a property notices the error (section 3).

### PageManager

`descriptors`, `free` and the triple `pages`/`committed`/`tentative` are the
three fields of the struct; `reserved` is the key set of `reservations`.
`checkpoint` is the last `CacheCheckpoint` value handed out: the type is `Copy`
and a caller may use it after the reservation has moved on, so it lives apart
from the reservation it names. All methods take `&mut self`, so a call is one
step. A call refused before it wrote anything is a stuttering step, and the
model has no action for it. A call that fails half-way leaves what it had
written: `AppendTentative` and `Commit` quantify over how far the call came and
require that it stopped only at the first token it could not place;
`ShrinkPrivateTail` rewrites every descriptor up to the page it refuses and
moves the lengths only when it got through; `Release` stops at the first page
that is neither private to the caller nor sealed. `truncate`, `share_sealed` and
`seal_complete_pages` have no caller in the engine yet; they are modelled because
their interplay with rollback is where the code is most delicate.

### Scheduler

`phase` is the state map (`"Absent"` = no entry), `remaining` and `planned` the
payload of a state, `waited` the time since `admitted_at` counted in ticks and
capped at `MaxPrefillWait` (the code only compares it with `max_prefill_wait`).
`plan` holds the value returned by the last call if that was a plan, and
`NoPlan` otherwise, so that properties can speak of what was returned. `Plan`
is the whole function: the reserve of one token for an aged prompt, the decode
rows, the aged prompt first, the others in queue order, the chunk of each, the
families and `stable_all_active_decode`. `Chunk` and `Takes` describe the
budget after each row by a function `left` that the rows determine, so that no
recursion is needed. The methods that only read (`can_admit`, `waiting`, ...) are
guards of the engine.

### Engine

`pc` is the point `run_loop` has reached. A step is at most one channel operation
or one test of a token, the granularity at which the tasks can interfere:

```
drain ──▶ expire ─▶ expiring* ─▶ admit ⇄ admitting ─▶ plan ─▶ decode ─▶ decodeRows ⇄ checkRow/finish
  │                                                     │        │            └─▶ return* ─┐
  │                                                     │        └─▶ failing* ─────────────┤
  │◀──────────── end ◀── prefillRows ⇄ remove/finish ◀── prefill ◀─────────────────────────┘
  │               └─▶ blocked ─▶ drain
  └─▶ stopping* ─▶ stopped
```

`commands`, `events`, `cancelled` are the channels and tokens; a full or closed
channel drops what is sent, as `try_send` does. `queue` is the pending queue,
`activeRequests` the key set of the `active` map, `rows`, `survivors` and
`nextPrefill` the local vectors of the execute functions. `held` is the set of
page reservations and `need` the pages each takes: `CacheLedger` is the licence
for counting instead of naming them (a grant is all or nothing, and everything
comes back). Device work is a success or a failure; a token is or is not the
last one, with `left` bounding how many a request may get.

A client is `New`, `Checked` (it saw readiness `Ready` and has not sent yet),
`Reading`, and then `Refused`, `Told` (got a terminal event), `Closed` (found its
channel closed without one) or `Gone` (disconnected). Leaving `Reading` other
than by a terminal event runs `CancelGuard`: the token is cancelled and a Cancel
command tried. Time is three flags that may be raised at any moment: a request's
deadline, its admission wait, and the scheduler's tick. `RequestShutdown` is
taken at most once, since `EngineOwner` is consumed by it.

### LayerCaches

A component is the embedding, a group of layers, or the head; the groups are the
unit in which buffers move (`Groups` and `LookaheadGroups` stand for the six and
five of the code; a prefill moves single layers, which fail in the same way).
`home` is the set of groups whose K/V buffers are installed in their
`LayerCache`: `take` moves them into argument slots, a successful launch installs
its outputs, and a failed one leaves them in the slots (`HomeAfterFailure`).
`slab` is who refers to the control slab, `Arc` by `Arc`: the lane, the call, and
the slots of components; the head donates it, for which `enqueue` demands a
unique owner.

`written[s][g]` is the set of positions of a session whose K/V entries in group
`g` are those that its tokens imply. Launching a group over some positions makes
them right if all earlier positions are right in this group and these positions
are right in the group before, and makes them wrong otherwise. That is all that
the properties need of the arithmetic, and it lets a token be represented by
what it was sampled from: `[of, index]`, or `Garbage`.

### Generator

A call of the generator is a sequence of steps `reserve* bind launch* head
prefix* download commit*`, and `pc`/`at` say how far it has come. Calls do not
overlap (one thread), but every step may fail, and then the rows are rolled back
one by one, or the session is cancelled. The engine's obligation, to release all
rows of a failed call before anything else (`fail_rows`), is `doomed`: it was
read off `engine.rs:1018-1036` and is what `Engine.FailRow` models. A commit that
meets the padding sentinel fails with the rows before it committed and the lane
in place (`CommitFails`).

`capacity`, `committed`, `tentative`, `unclaimed` are the state of `CacheLedger`,
so that `UsesLedger` is a refinement check: what the generator does to the page
manager are steps of the ledger, which in turn `PageManager` implements (run
`pages`). `lane` holds the members of the stable lane, the positions that the
device counts for them, and whether a prefix is in flight. `PrefillBatch` and
`ReleaseServerSession` clear the lane, as the code does.

The diagnostic command line drives one session through `prefill_step` and
`decode_step` with other code over the same caches. `mode` chooses the program
once, at the start. There the prefix is submitted only when another token may
follow it (`WantsLookahead`); the place of the prompt, which `prepare_tokens`
appends, is appended in the first step of `PrefillStep`, which always follows.

Left out as data: which bytes are packed into the slab, sampling states, page
tables on the device (fixed from reservation to release), family selection,
and the contents of the padding rows.

### AttentionLaunch and PagedAttention

`AttentionLaunch` is integer arithmetic: `Launch` chooses between one program per query
block (`TwoDimensional`) and a split of the sequence (`SplitK`), as
`select_attention_launch` does; `FindSequence` is the binary search by which a program
finds the row that its block belongs to; `Stored` is the mask of its stores;
`Produced` and `ActiveSegments` are the segments that are computed and those that the
reduction reads, which two kernels work out by different divisions.

`PagedAttention` runs the programs for one query and one head. A value of the cache is
represented by its cell, so that an accumulator says how much of which cell it holds. A
score is a small integer and a weight a power of two that underflows to zero, so that a mean
is exact, and a maximum that is too high makes weights vanish, as in the machine.
`Portable` folds over the pages of the table, `TwoDimensionalKernel` and `Segment` over
tiles, `SplitKKernel` combines segments and adds the sink, `Flash` is what the code
makes of the output of the vendor's kernel, which is external. Buffers that no program
has written hold `Leftover`, and a page that the host does not give is -1 in the table.

### ContractRunner and RunPod

The runner holds one execution in memory and accepts `POST /run` only when idle;
a restarted container starts idle again. `Continues` and `FinishContract` are the
loop of `execute`. `serve` cancels a running contract only after its listener has
closed, so that no client ever reads an interrupted result: `Stop` covers
SIGTERM and a crash.

`step` is the statement that `execute_contracts` has reached; `except`,
`finally`, `pending`, `terminate`, `confirm`, `orphan` are its handlers and
`terminate_and_confirm`. `lease` and `disk` are the lease as the process and as
the file know it, reduced to the state and to whether the pod's id is in it.
`save` replaces the file atomically, so that a save that fails leaves the old
one. A request to provider or runner takes effect or not, and its answer comes
or not, independently; a `POST` whose sender has given up may still arrive
(`post`). `runner_request` reports a lost answer as a `URLError` or as another
error of the connection, and only the first leads to the question for `/state`.
The loop over GPU types of `create_device_contract_pod` goes on only after a
capacity error, which created nothing, and is one step.

`Interrupt` raises at any statement until signals are masked. In the two loops
that poll the runner the exception is one of those that are polled over, since
`ControllerInterrupted` is a `ControllerError`. `Recover` is
`nml-runpod terminate <lease>`: it knows only the file.

### HarmonyParser, Response and ChatStream

A parser is a record, as the enum `ParserState` is, and `Process`, `Finish` and
`Truncate` return the parser they leave with events or an error. What a token spells
is abstracted to what the parser can tell apart. In a header a token stands for one
field (`final`, ` to=`, ...); the code concatenates the text of the tokens and splits
it again. In a body a token is a character, or half of a character whose encoding
is split over two tokens (`lead`, `trail`; `seam` ends one and begins the next).
Incomplete characters can wait in two places, in the tokenizer's decoder (`held`)
and in `pending_utf8` (`pending`). The decoder is a library: whether it holds a
partial character back, and what it makes of one at the end, is its choice, and so
`Process` returns a set. What `serde_json` accepts is the constant `Json`.

`Response` is one request seen from `translate`. `task` says whether it waits for an
engine event, sends, or has ended; `outbox` are the response events that the last
engine event led to and that it still has to send, and `ending` is the exit it takes
behind them. Each send is a step: `Send` waits for room in the channel, and
`SendFails` is the only place where the task notices that its reader has gone. The
model writes any token that is legal for some header of `Headers`, and others, up to
the budget or a stop token; `Complete` is what the engine sends then, `Told` is
Cancelled or Failed, `Dropped` is a channel closed without a terminal event. An
engine event is produced when the task receives it, because what waits in the
engine's channel changes nothing for the task; how that channel overflows is in
`Engine`. The readers are the SSE body, which is as fast as the client, and
`non_stream_response`, which collects everything and answers once.

`ChatStream` is the sequence of stages a reader may see, and its link with the answer
of a request without stream. `ImplementsStream` checks that what the reader has read
goes through them.

### Sharding and ComponentUpload

`Sharding` has the arithmetic of the code as it is there: `Digits` is the loop that
counts through a mixed radix, which `ranges` runs over mesh axes and
`for_each_shard_span` over the leading axes of a tensor; `Linear` is the fold that turns
coordinates into a place in the file. `Region`, `Spans` and `ValidShape` are built on
them, and so are `Viewed` and `RegionBytes`, the strided view of `region_view` that
`UploadShard` copies on the host path. `Along` and `MeantFor` say by divisions which bytes a
shard should have, and `ShardsHoldTheirRegion` compares what has arrived with that.

`ComponentUpload` is one call. `pc` goes through it, and every call of PJRT on the way
may fail, which leads to `unwind`, the drops of an early return in Rust's order:
`pending` first, whose handles wait for their events, then lanes, then managers.
A byte of the file is its position, so `memory`, what the shards hold, says where each
byte came from. A transfer reads its lane at the moment the device carries it out
(`Land`), so that a lane that is filled or unmapped too early shows in `memory`.
`Land` and `Break` may happen at any time after the transfer was issued. On the CPU, and
for a component without bytes, the code reads the whole component and uploads it shard
by shard (`ReadWhole`, `UploadShard`).

### ParameterLoad and LoadTransaction

A model is the sequence of parameters that the visitor meets, each with the artifacts
of its components; tied parameters name the same artifact. `Plan` is the pass over
it that must refuse contradictions before anything is allocated. `worker` is where
each thread stands; `TakeRecord` is `fetch_add`, `Receive` is the meeting of `send` and
`recv` on the channel without room, and `SendFails` is the `send` that finds the
receiver gone, the only way out for a worker once the main thread has left its loop.
`Join` is the end of `thread::scope`. On CUDA the main thread streams one record after
the other (`Stream`); what that does is `ComponentUpload`.

`LoadTransaction` is the promise: components of a plan are inserted once each, and all of
them are committed or none is kept.

## 3. What the runs check

Every property of a passing run has a *mutant* in `PROJECT.json`: one definition
replaced by a plausible slip of the code, under which TLC finds the property
violated. So none of them holds by the shape of the model alone. An invariant that is a
conjunction is listed with its parts; the type invariant of a module is one of them.

| Run | Module / cfg | Instance | Properties |
|---|---|---|---|
| `pages` | `MCPageManager.cfg` | 2 sequences, 3 pages of 2 tokens, calls of up to 2 tokens, tables of up to 2 pages for sharing | `PagesExact` (`TypeOK`, `FreeListExact`, `OwnershipExact`), `ReservationHonoured`, `SealedUntilReleased`, `ImplementsLedger` (refinement of `CacheLedger`) |
| `scheduler` | `MCScheduler.cfg` | 3 sequences, all of which may be active, buckets 1 and 2, budget 2, chunk 2, prompts of up to 2, wait 1 | `SequencesExact` (`TypeOK`, `QueuesMatchPhases`, `ActiveExact`, `PromptAccounted`), `PlanFits`, `AgedPrefillServed`, `DecodeKeepsPriority`, `NobodyStarves` |
| `engine` | `MCEngine.cfg` | 2 requests that take 1, 2 or 3 of 2 pages and 0 or 3 tokens, prompts of up to 2, channels and pending queue of 1, one command per drain | `RegistriesAgree` (with `TypeOK`), `TerminalIsLast`, `RestsOnNothing` |
| `engine_line` | `MCEngineLine.cfg` | 3 requests over one page, pending queue of 3, two commands per drain | `AdmissionInOrder` (refinement of `AdmissionLine`) |
| `engine_live` | `MCEngineLive.cfg` | 2 requests over one page, 3 tokens each | `AcceptedEnds`, `ShutdownCompletes` |
| `engine_stable` | `MCEngineStable.cfg` | the same with prompts of up to 2 | `StableYieldsToDeadlines`, violated (section 4) |
| `generator` | `MCGenerator.cfg` | 3 sessions, prompts of 1 or 3, budgets of 0, 1 or 4, 7 pages of 2, batches of up to 2 rows, 3 layer groups of which 2 are speculated; attention: 2 pages of 3 keys, windows of 1, 3 and none, tiles of 2 and 4, 1, 2 and 4 segments; launches: batches of 1, 3 and 65, of 1, 5 and 256 queries, 1, 2 and 6 heads, pages of 16, 24 and 256, 8 and 132 cores, up to 2000 outputs | `SessionsExact` (`TypeOK`, `CacheMatchesVisible`, `LaneInStep`), `TokensReachTheirSession`, `NothingRefused`, `AttentionAgrees`, `LaunchIsExact`, `LossStopsTokens`, `UsesLedger` (refinement of `CacheLedger`) |
| `runpod` | `MCRunPod.cfg` | 2 contracts, 1 restart of the container, 2 signals, 1 crash | `AtMostOneExecution`, `SuccessMeansAllPassed`, `TerminatedMeansGone`, `TerminationAttempted`, `KnownPodGoes` |
| `response` | `MCResponse.cfg` | 10 headers, of which some are illegal, bodies of up to 2 tokens out of 4, budgets of 0, 5 and 14 tokens, a channel of 2 | `StreamExact` (`TypeOK`, `StreamIsText`, `ToolCallIsWhole`), `ParserAgrees`, `GuardIsExact`, `ImplementsStream` (refinement of `ChatStream`), `ResponseEnds` |
| `upload` | `MCComponentUpload.cfg` | 2 lanes of 2 bytes; 8 tensors (rows, tiles, columns, empty, scalar, and two that are refused) on one device, on 2, on a 2 by 2 mesh, on 0, 3 and 5 devices, with and without CUDA | `LanesOutliveTransfers`, `UploadExact` (`TypeOK`, `ShardsHoldTheirRegion`, `ReadOnce`), `LastIsTheLast`, `Returns` |
| `load` | `MCParameterLoad.cfg` | 3 artifacts, 7 models (tied, visited twice, contradicting, empty), 2 workers | `HoldersExact` (`TypeOK`, `OneHolder`), `LoadIsWhole` (`LeavesNothing`, `LoadedAsDeclared`), `IsTransaction` (refinement of `LoadTransaction`), `LoadReturns` |
| `load_staging` | `MCParameterLoadStaging.cfg` | the same | `LiveWithinWorkers`, violated (section 4) |

What they show, in words:

- **Pages.** No order of legal calls loses, leaks or doubles a page. A sealed page
  stays what it was until its last reference goes, and no length can fall back
  into it. A reservation can always be filled to its end: the promise that "a
  request therefore cannot encounter a later allocation failure".
- **Ledger.** Seen from engine and generator, the page manager is a counter of
  unclaimed pages and two lengths per sequence.
- **Scheduler.** Queues, counter and prompts are exact under every interleaving
  of completion, cancellation and planning. A plan never overdraws its budget,
  always finds a compiled family (its error path, which would strand rows
  already dequeued, is unreachable), is empty only if there is nothing to do,
  serves the longest-aged prompt, and gives a decode row that lacks budget
  precedence over all but one prompt token.
- **Engine.** At every point of the loop the map, the rows, the scheduler and the
  reservations name the same requests; a request is in one place; its terminal
  event is its last; the loop sleeps only when it holds nothing, and after shutdown
  nothing is left and no client waits on a live channel (`RestsOnNothing`).
- **Line.** No request overtakes an older one on its way to residency, whatever
  waits, expires, is cancelled or does not fit.
- **Generator.** Whatever batches are formed in whatever order of rows, whichever
  call fails at whichever step, and whoever is released in between: each visible
  token was sampled from its own session's complete context at its own position;
  between calls the committed length counts exactly what was fed, and all of it
  is in place in every layer; a lane that may be continued stands where its
  sessions stand; the device writes only reserved positions; and nothing is
  refused after admission. Once a failed launch has stranded a group's caches,
  no session gets another token.
- **Attention.** Whichever program is chosen for a layer group, a query within its sequence
  gets the softmax that the device tests compute for reference, whatever is left in stale
  cells and whichever tiles are masked as a whole. Every output of a launch is written by
  one lane of one program, and the reduction reads the segments that were computed and
  no others. The two do not depend on the state of the generator; they are stated of the
  states in which it launches a group.
- **Controller.** The selection starts at most once per lease and a run returns
  success only if every contract passed; a lease that says `terminated` is right;
  unless the cleanup itself is cut short, the termination of a known pod is
  requested; and a pod whose id reached the disk goes in the end.
- **Response.** Whatever tokens the model writes and wherever characters are cut, the
  chunks together are the text that one would read off the whole completion:
  nothing lost, doubled or under the wrong heading, and nothing of a body that is
  meant for a tool. A tool call is handed over whole or not at all. Parser and engine
  agree on how a completion ended. What the engine still works on when the task ends
  is cancelled, and no client who is being served is cancelled.
- **Upload.** Whenever the device carries out a transfer, its lane holds the bytes it
  was issued for. A buffer that is handed out holds on every device the block that its place in
  the mesh gives it, byte for byte, and no byte of the file is read twice. A
  manager learns which transfer is its last exactly then. An early return takes neither
  the lane nor the manager from a transfer.
- **Load.** The bytes of a component are with one thread at a time. A load that returns has
  joined its threads, and has all components or none; what it hands out is, in every
  place of the model, what the model declares there.
- **Liveness.** An upload and a load return whatever fails: no thread waits for ever in
  a channel or for an event. Every accepted request ends and every requested shutdown completes,
  even when all clients stop reading; no prompt and no decode row starves; a
  response task ends unless somebody holds on to a stream without reading it.

**Bounds.** Two sequences and three pages are what it takes for a page to be
shared, for its first owner to leave, and for a free page to remain; pages of two
tokens have a first, an inner and a last position. Three sequences, buckets up to two
and a budget of two let decode rows fill the budget beside a prompt that ages, leave
decode rows and prompts over, and have waiters beside a batch that would be stable;
prompts of two are taken in one chunk or, beside a decode row, in two. A system that is
full before all sequences are in it is left to the proof of `SequencesExact`. Two requests already reach every ordering
of a submission, a cancellation and a shutdown on a channel of one; demands of 1,
2 and 3 pages on 2 give requests that fit, fit alone, and never fit; a budget of
3 tokens lets the stable lane run more than one round and 0 ends a request at its
first token. Three requests are needed for an overtaking behind a blocked
head. Three sessions in batches of two are what it takes for a lane to be
abandoned for another pair and for rows to change places; a budget of four gives
a lane that is continued with a prefix more than once and a prefix behind the
last token; prompts of three over pages of two are chunked unevenly and cross a
page; seven pages refuse the third large session. Two speculated groups of three
leave one that is not. Pages of three keys under tiles of two and four give tiles that cross a
page, end inside one, or lie behind the sequence; windows of one and three over six
positions mask whole tiles at either end; four segments are more than there are tiles, so
that some stay empty. 65 rows on two heads are the first that are not split; 256 queries
begin the large blocks; six heads over one or two leave padded lanes; pages of 24 are
no power of two. One crash and two signals reach each of the controller's
handlers from each of its statements (the second signal is the one that meets
the cleanup), and two contracts give a selection that fails after a success.
Budgets of 14 let the model write an analysis message, a second one and its stop
token; 5 cuts it inside a body and 0 before its first token. Bodies of two tokens
hold a character split over two tokens, and one that is cut; a channel of two is
full behind the role and one chunk. `BodyTokens` and `Headers` limit what the model
writes, not what the parser is given to refuse: a delimiter may come anywhere.
Two lanes of two bytes under rows of five, tiles of two by two elements and spans of
three bytes give chunks that end inside a span and spans that end inside a chunk, a lane
that is filled a second time while the other is in flight, and a last chunk that is short;
a 2 by 2 mesh with one axis used has groups of two replicas, with both used none. Three
artifacts and two workers let one worker wait in `send` while the other reads and the main
thread uploads, which is also the least that exceeds the staging bound.
The bounds `MaxTokens`, `MaxTable`, `MaxPrompt`, `PageDemands` and
`TokenBudgets` limit only inputs; everything else is a configuration value of
the code. Page manager and scheduler let sequences come and go for ever; a request of
`Engine` comes by once, since the code never reuses a request identifier; `Response`
is one request, `ComponentUpload` and `ParameterLoad` are one call.

**Symmetry** is used in the safety runs that have interchangeable elements, and not in
`scheduler`, `engine_live`, `runpod`, `response`, `upload`, `load`
and `load_staging`, which check liveness or have no such elements.

**Deadlock** is checked everywhere. The engine's end (`stopped`, all tasks over)
is the explicit stuttering action `Over`, as is that of `Generator`, whose
sessions come by once, and that of `Response`; the end of a lease that names no pod
is `Closed`, and a call that has come back is `Returned`.

**Fairness.** `Scheduler!LiveSpec` assumes that the loop plans again and again,
that the results of a submission are applied, and that the clock runs: the
body of `run_loop`. Nothing is assumed of arrivals, admissions and
cancellations. `Engine!LiveSpec` is weak fairness of the engine's step alone:
the thread is scheduled and device calls return. No step of a client, of time or
of the shutdown requester is assumed to happen. `RunPod!FairSpec` assumes that the
controller goes on (each of its loops has a deadline), that the provider carries
out a termination it has accepted, that the operator follows the controller's
advice "recover with terminate" (or repeats it after a failure), and, as strong
fairness, that neither the disk nor the way to the provider fails for ever. It
assumes nothing of the pod, the runner, or the time of signals and crashes.
Without the operator `KnownPodGoes` does not hold, and the code does not claim
it. `Response!FairSpec` assumes that the task is run by its executor, that the server
itself reads the channel of a request without stream (that loop is its own code),
and that the engine admits and writes; it assumes nothing of the reader of a stream,
who may neither read nor leave for ever. `ComponentUpload!Spec` assumes that
the host's thread runs and that PJRT signals every transfer that it accepted, with
success or with an error; `ParameterLoad!Spec` that every thread is scheduled and that
reads and uploads come to an end.

## 4. What the model found

Most of what the code intends holds. Four places differ from what a document or
comment says. A run shows the counterexample of the first two; the other two are read off
states that the models reach.

1. **The stable lane does not look at pending deadlines** (`engine_stable`). It
   runs on while its rows survive and the command channel is empty
   (`engine.rs:821`). A pending request that waits for pages keeps the client
   waiting past its deadline until a row ends or a command arrives, while
   `PRODUCT.md:251-254` and the comment at `engine.rs:722-726` call for
   re-entry. `AcceptedEnds` still holds: the rows end some time.
2. **One component more than the workers is alive during a load** (`load_staging`). A
   worker takes its next record as soon as the main thread has accepted the last one, and
   reads it while the main thread still holds those bytes for their upload. The comment at
   `nml-checkpoint/src/lib.rs:774-776` says that the channel "bounds live host components
   to the worker count", and `peak_staging_bytes` (lines 720-730) adds up so many.
3. **A disconnect may cancel nothing**. `translate` waits for the
   next event of the engine (`http.rs:377`) and learns that its reader has gone only
   when a send fails. While the request is queued or prefilling there is nothing to
   send, and the guard is not run; the same holds while the model writes a header or
   the arguments of a tool call. `TASKS.md:173-174` asks that a "client disconnect
   cancels queued, prefilling, or decoding work". The request is cancelled at the
   next chunk, or ends by its deadline or its budget.
4. **A lost answer leaves an orphan nobody can name**. The pod's
   id is known only from the answer to the creation (`controller.py:105-121`).
   When that answer is lost, or a signal arrives between it and the save, a
   billable pod exists and the lease says `controller_failed` without an id;
   `recover_termination` refuses it (`controller.py:369-370`). `SYSTEM.md:837-839`
   says that lease records "retain enough information to identify and terminate
   a possibly billable orphan after partial failure". (The name given to the
   pod, derived from the lease's id, would identify it, but no code looks for it.)

Observations made while modelling, which no run shows:

- `shrink_private_tail` (`cache.rs:800-854`) writes the lengths into the private
  pages as it walks, and may then meet a sealed page, shared into the table behind
  them, that it must refuse (`cache.rs:844`). The descriptors then no longer agree
  with the reservation. Nothing calls `truncate` or `share_sealed` today, and the
  proofs show that neither a sealed page nor a reservation suffers from it.
- With a budget of one the token kept back for an aged prompt (`scheduler.rs:363`)
  is the whole budget: while prompts keep ageing no decode row is served.
  `SchedulerConfig::validate` accepts it; the default is 4096, and
  the run `scheduler` shows that a budget of two suffices for its instance.
- A response that ends because its client has gone is counted as cancelled nowhere
  (`http.rs:395`); the counter's description is "Requests cancelled before normal
  completion." (`metrics.rs:77-81`).
- After a failed launch has stranded the caches of a layer group
  (`execution.rs:1989-2002`), no later submission can succeed
  (`LossStopsTokens`), but the engine stays `Ready` and fails each request in turn.
- In `wait_for_readiness` and `wait_for_result` a signal is polled over
  (`controller.py:212`, `:249`): the cleanup starts only when the deadline
  expires or another statement is interrupted.
- `terminate_and_confirm` saves the lease before its `try` (`controller.py:260`),
  and a signal may arrive in `finally` before the handlers are replaced
  (`controller.py:166`): either skips the request for termination. The
  variable `bypassed` marks these executions, which `TerminationAttempted`
  excludes and `KnownPodGoes` leaves to the operator.
- Under causal attention a padded query slot, whose position lies behind its
  sequence, sees in the last Triton tile keys that were masked when they were loaded: zeros
  that count in its softmax. The portable loop and the tests' reference exclude them,
  and the comment at `nml-ir/src/paged_attention.rs:43-45` says that "target selection never changes
  model meaning". The product discards the outputs of such slots, and
  `Queries` leaves them out.

## 5. What is proved

Eight modules hold theorems, each about the module whose name it extends. All
are proved for every value of the constants that the named assumption allows;
TLC evaluates those assumptions in the runs.

### SchedulerProofs

`SchedulerProofs` proves, for every set of sequences, every configuration that
`SchedulerConfig::validate` accepts and every bound on prompts:

| Theorem | Statement |
|---|---|
| `SequencesCorrect` | `Spec => []SequencesExact`; in particular the active counter never wraps below zero |
| `StableCorrect` | `Spec => []StableCoversAll`, a part of `PlanFits` |
| `PlanCorrect` | `Spec => []PlanFits`: no plan overdraws its budget, and each finds its families |
| `AgedCorrect` | `Spec => AgedPrefillServed`, an action property |
| `DecodeFirst` | `Spec => DecodeKeepsPriority`, an action property |

**Assumption.** `SchedulerAssumption`, that is `IsValid`: what `validate` checks, and that
sequence identities are finite in number (they are 64-bit). TLC evaluates it in
each scheduler run.

**Argument.** The inductive invariant `Inv` has the conjuncts of
`SequencesExact`: `TypeOK`, `QueuesMatchPhases`, `ActiveExact` and `PromptAccounted`. None
of its parts is inductive alone: that `active` remains natural when
`cancel` subtracts from it follows from `ActiveExact`; that
`ActiveExact` survives `admit_reserved` needs the head of `waiting` to be in
phase `Waiting`, which is `QueuesMatchPhases`; that `complete_prefill` leaves a
positive remainder or none is `PromptAccounted`, which in turn needs the queues
to know that a row taken by `plan` was in phase `Prefill`. `StableCoversAll` is
not inductive, since it speaks of the plan just made: it follows from
`Inv` before the step, because a plan that takes every active sequence into
decode leaves, by the count in `ActiveExact`, no sequence in any other phase.
The module is laid out as

1. lemmas about a queue that lists a set (`ListsAppend`, `ListsCut`,
   `ListsTail`, `ListsConcat`, `ListsWithout`, `ListsMoved`): how each queue
   operation of the code moves the set that is listed;
2. one lemma per action (`EnqueueInv`, ..., `TickInv`); `PlanFacts` and `PlanInv`
   for `plan`, whose rows are a prefix of each queue;
3. *Sums*, and what a plan spends (below);
4. `StepInv` and `StutterInv`, then the theorems.

`PlanFits` and `DecodeKeepsPriority` speak of the sum of a plan's chunks, which the
community modules define by a fold over a set, and induction is not available. The
section *Sums* does without. `Units` are the pairs of an element and a number below its
value; counting them gives a function that satisfies the recursion of the fold (`Fold`),
and it is the only one, because on the smallest set where another differs both would
be determined by a smaller one (`SmallestSet`, from the library's well-founded minimum). So
a sum is a cardinality (`Counted`), and `TotalWith`, `TotalWithout`, `TotalSame`, `TotalLess`
follow from those of finite sets. `Telescope` shows that chunks that bring a budget
down step by step add up to the difference; with the function `left` by which the model
describes the budget (`PlanSpends`) that is `PlanBudget`: what a plan takes is what it
was allowed. `PlanKeepsToBudget` and `PlanPrefersDecode` are the two properties for
the step that plans.

### PageManagerProofs

For every number of pages, every page size, every set of sequences and every
bound on tokens and on the length of a table:

| Theorem | Statement |
|---|---|
| `PagesAreExact` | `Spec => []PagesExact` |
| `SealedIsCommitted` | `Spec => []SealedBelowCommitted` |
| `SealedIsImmutable` | `Spec => SealedUntilReleased`, an action property |
| `ReservationIsHonoured` | `Spec => []ReservationHonoured` |
| `LedgerIsImplemented` | `Spec => ImplementsLedger`, the refinement of `CacheLedger` |

**Assumption.** `PageManagerAssumption`: there are pages and a page holds tokens;
the two bounds are natural numbers.

**Argument.** The inductive invariant is
`IInv == TypeOK /\ FreeListExact /\ Fits /\ SlotsRight /\ Placed /\ Counted`.
The properties of the runs speak of descriptors and tables apart; `SlotsRight` ties
each slot to the lengths of its sequence, and that is what makes the calls that
can stop half-way provable:

- `Fits`: committed is at most tentative, and tentative at most what the table
  holds. Without it `append_tentative` could ask for a slot that is not there.
- `SlotsRight`: a private page is written as far as the tentative length says,
  and committed no further than the committed length. So `commit` never meets a
  page that it cannot write (`CommitStep`: it does all or nothing), although the
  code would leave half of its work behind if it did. A sealed page
  lies below the committed length; so a `shrink_private_tail` that is refused at a
  sealed page had rewritten only committed pages, with the values that
  they had or smaller ones (`RewrittenPages`, `Rewritten`, `ShrinkStep`).
  The condition on tentative counts is restricted to pages that are not full:
  after a refused shrink the others may be left with a smaller count, which keeps
  `seal_complete_pages` from sealing them.
- `Placed`: a private page is in its owner's table. It gives `release` the pages it
  must return.
- `Counted`: the reference count is the number of slots that refer to the page, over
  all tables. `share_sealed` may put a page twice into one table, so it is a count
  of slots, not of sequences; `ReleasedPage` shows that the last of them frees
  the page once (`FreedOnce`).

`SealedIsImmutable` and `ReservationIsHonoured` follow from `IInv` and the step
lemmas. The refinement needs, beyond `IInv`, that pages leave the free list only
in `reserve` (`AllFree`: when nobody holds pages all are free) and that somebody
holds a sealed page below its committed length (`SealedHeld`). The module goes from
arithmetic of positions (slots are compared by the position of their first token, so
that no later step multiplies) over descriptors and slots to one lemma per action
(`ReserveStep`, ..., `ReleaseStep`), `NextInv` and the theorems, then one lemma
per action for the ledger (`LedgerReserve`, ..., `LedgerRelease`).

### EngineProofs

For any number of requests, any bounds of channels, queue and arena, any demands and
budgets, and every valid configuration of the scheduler:

| Theorem | Statement |
|---|---|
| `TypeCorrect` | `Spec => []TypeOK` |
| `RegistriesCorrect` | `Spec => []RegistriesAgree` |
| `ArenaSuffices` | `Spec => []Enough`, the part of it that counts pages |
| `NothingAfterTheEnd` | `Spec => []TerminalIsLast` |
| `RestsClean` | `Spec => []RestsOnNothing` |
| `UsesScheduler` | `Spec => S!Spec`: the engine's steps are steps of the scheduler it holds |
| `InOrder` | `Spec => AdmissionInOrder`, the refinement of `AdmissionLine` |

**Assumption.** `EngineAssumption`: the capacities are positive, and the configuration
of the scheduler is valid (`S!IsValid`).

**Composition.** `SchedulerProofs` is instantiated as the engine instantiates
`Scheduler`, and its lemmas about single calls (`EnqueueInv`, ..., `PlanInv`) carry over:
`EnqueueEffect`, ..., `PlanEffect` say what a call does to the phases, which is all that
the engine is compared with. `UsesScheduler` closes the circle: the engine calls the
scheduler only as `Scheduler!Next` allows.

**Argument.** The inductive invariant `IInv` is made of the types, the scheduler's
invariant, `OnePlace`, and

- `Where`: which of `rows`, `survivors`, `nextPrefill` and `todo` may hold anything at
  which point of the loop. Everywhere else the engine owns just the map of active
  requests (`AtRest`), so that a cancellation there cannot miss a request that is
  in a local variable.
- `NamesActive`: the prefill that is still to run, and the expired requests still to be
  cancelled, are active; nobody has taken them out of the map in between.
- `Registered`: `SameRequests` with the exact points at which a row is ahead or behind:
  a head that is admitted is still waiting in the scheduler, and a row that is being
  completed has left it.
- `TokensLeft`: a resident request may generate at least one more token, except in its
  last row. That `left` does not fall below zero follows.
- `Heard`: who has a sender has a task that waits or has gone, and a terminal event is the
  last in its channel and has no sender behind it.
- `Resting`: the pending queue is empty when nobody is active and the loop is about to
  plan or to sleep. It needs `ActiveExact`: when admission stops because the limit of active
  sequences is reached, somebody is active (`FullOfActive`), so a submission will follow.

`Enough` is a second invariant over `IInv`: the pages reserved fit the arena. A step
reserves for one request that fits, releases, or learns what a request needs that holds
nothing (`StepReserves`); what that does to the sum are the lemmas of `SchedulerProofs`
(`EnoughInv`).

**The refinement.** The line is the pending queue followed by the requests of the
submissions in the command channel. `Submits` reads them off by a recursive function,
which is handled without induction: two functions that follow the same recursion are
equal (`FollowsOnce`: the least place where they differ has none before it), and one
exists for a longer channel when one exists for a shorter (`FollowsExists`), so a command
that is sent or taken changes the line as expected (`SubmitsAppend`, `SubmitsTail`).
`LineFacts` is what `IInv` says of the line: it repeats nobody, and nobody in it is
resident or has gone. A step of the engine is then one of a few things for the line, each a lemma:
somebody joins (`LineJoins`), leaves from some place (`LineLeft`), is admitted from the head
(`LineAdmits`, which takes its limits from `ActiveExact` and `Enough`), finishes
(`LineFinishes`), or the whole line is sent away at the end (`LineCloses`, where
`RestsOnNothing` shows that nobody is resident); all others leave it as it is.

The module has lemmas on sequences without repetition, on the two kinds of channel
(`CommandTaken`, `CommandSent`, `Said`), on what happens to the first row (`RowDropped`,
`RowReturned`, `RowSurvives`), and one lemma per action.

### GeneratorProofs

For any number of sessions, pages, layer groups and rows of a batch, every page size, and any
prompts and budgets:

| Theorem | Statement |
|---|---|
| `SessionsAreExact` | `Spec => []SessionsExact`, with `CacheMatchesVisible` and `LaneInStep` |
| `TokensAreTheSessions` | `Spec => []TokensReachTheirSession` |
| `NothingIsRefused` | `Spec => []NothingRefused` |
| `LossIsSilent` | `Spec => LossStopsTokens`, an action property |
| `LedgerIsUsed` | `Spec => UsesLedger`, the refinement of `CacheLedger` |
| `EveryLaunchIsExact` | `\A g \in Geometries : Attention!LaunchExact(g)` |
| `LaunchesAreExact` | `Spec => []LaunchIsExact` |

**Assumptions.** `GeneratorAssumption`: there are pages, a page holds tokens, a batch has room
for a row, and prompts are not empty. `CachesAssumption`: there is a layer group, and
fewer are speculated than there are. `Geometries`, of the launches, are all shapes with
positive counts in which the heads are a multiple of the heads of the caches; the heads
per cache head, the page size and four times the number of cores are at most 4096, the
largest of `PowersOfTwo`, the model's named bound for `next_power_of_two`.

**Argument.** Three parties count the same tokens: the session (`cursor`, `visible`), the page
manager (`committed`, `tentative`) and the device (`lane.position`, `written`). The
inductive invariant `IInv` says how far apart they may be, at each step of a call.

- `OwnExact` and `InStep`: what a session's own lengths are, between calls. The second is
  said only of sessions that no failed call has left behind (`doomed`), and of the
  tentative length only outside of the call that moves it (`Busy`).
- `AtExact`, `CallExact`, `RowsDue`, `Checkpoints`: the call. Its rows are live, different,
  and owed what they were taken for; the lengths saved for a rollback lie between the
  committed and the tentative length. It is `RowsDue` that shows that an append within a call
  is never refused, and `Checkpoints` that a rollback succeeds.
- `LaneExact`, `PrefixExact`, `LaneOfCall`: the device stands at the committed length, or
  one ahead from the end of a launch to the commit of the row (`Ahead`); a prefix that is
  in flight has written the next position in the groups it covers; and the lane is that of
  the running call. A lane whose members are doomed is excused: no call continues
  it, since the release of a member drops it.
- `SlabExact`: who holds the control slab, so that it can be donated to the head.
- `LaunchExact`: which groups have the positions of the call in place by now, and that
  the result is that of its rows. With `OwnExact` it gives, at the head, that each row
  is sampled from its own complete context (`HeadSamples`).
- `CliExact`: what the diagnostic command, which shares the caches, does not do.
- `Accounted`: there is an assignment of the pages to sessions whose counts are the
  capacities and the unclaimed pages. The model counts pages without naming them; a
  witness for who has them keeps the sum of all capacities within the arena without
  a sum over sessions.

`TokensReachTheirSession` and `CacheMatchesVisible` are then parts of `IInv`, and
`NothingRefused` follows from it step by step of a call (`ReserveFits`, `WritesFit`). For
`LossStopsTokens`, a token is shown at a commit, where `LaunchExact` says that all groups
are there. For `LedgerIsUsed` each action that touches lengths is a step of the ledger for one session
(`PrepareKeepsLedger`, `RowsKeepLedger`, `FreeKeepsLedger`), and the others leave it
alone. The module goes from pages and the arithmetic of their number
(`AccountGrant`, `AccountReturn`) over lemmas on what a call knows of its rows
(`DueFacts`, `BatchFacts`, `CommitFacts`) to one lemma per action, and the theorems.

The launches have no steps: `LaunchExact` is arithmetic on one shape.

- `SearchFinds`: on boundaries that are at most the wanted value exactly below a place `p`,
  the binary search returns `p - 1`. A closed form of the recursive function, clamped
  between its bounds, satisfies its equation, and so the chosen function does; that it is
  the only one is shown by a least counterexample (`NatMin`), without an induction rule.
- `FirstRises`, `RowFound`, `RowThere`: the first block of each row, with a spare block per
  row, rises strictly and leaves a block for each slot. Hence the search gives each block
  its row, and the blocks past the end of a row store nothing.
- `LaneHasOutput`, `OutputHasLane`: lanes of a block and outputs of a row are quotient and
  rest of each other (`Parts`, `PartsAre`), for head counts that are no powers of two too.
- `WritersExact`: so the writers are the outputs, one to one, and as many.
- `SegmentsAgree`: the kernel and the reduction divide a length by the segments in two
  different ways, and get the same number of active segments for every length.
- `PowerIs`, `LanesDivide`, `LaunchIs`: what the choice of tile, lanes and segments gives.

The property and the instance `Attention` are declared in `MCGenerator`, so the module
extends it; `LaunchesAreExact` alone uses numbers of that module (`ShapesAreGeometries`).

### RunPodProofs

| Theorem | Statement |
|---|---|
| `ExecutedOnce` | `Spec => []AtMostOneExecution` |
| `SuccessIsOfAll` | `Spec => []SuccessMeansAllPassed` |
| `TerminatedIsTrue` | `Spec => []TerminatedMeansGone` |
| `NoRunEndsUnasked` | `Spec => []TerminationAttempted` |

They hold for any bounds on faults, restarts and signals and any number of
contracts.

`ExecutedOnce` rests on `OneRequest`: until the controller has come to `submit`
there is neither a request on its way nor an execution, and an execution uses the one
request up. The runner alone does not give this, since it accepts a second request
after a restart; that the controller sends its request once does.

`SuccessIsOfAll` rests on `ProgressCounted`: contracts that have passed are counted over all
lives of the container, and the progress of the running selection is counted from its
start. The two agree only because the selection starts once, so `OneRequest` is part of it.

`NoRunEndsUnasked` rests on `AskedBeforeTheEnd`: whoever waits for the confirmation, or
records an orphan, has asked for the termination.

`TerminatedIsTrue` rests on `WordIsKept`: neither the lease in memory nor the
one on disk says `terminated` before the provider has said that the pod is gone,
there is no pod while it is still to be created, and what is gone stays gone. The file
must be part of it because recovery starts from the file, whatever state it was
saved in.

### ResponseProofs

For any vocabulary of bodies and headers, any budgets and any capacity of the channel:

| Theorem | Statement |
|---|---|
| `ParserAlwaysAgrees` | `Spec => []ParserAgrees` |
| `GuardIsAlwaysExact` | `Spec => []GuardIsExact` |
| `StreamIsImplemented` | `Spec => ImplementsStream` |
| `StreamIsExact` | `Spec => []StreamExact` |

**Assumption.** `ResponseAssumption`: the channel holds at least one event, budgets are
natural numbers, and the bounds are made of tokens. Nothing is assumed of `Json`.

**Argument.** The inductive invariant `IInv` says that three variables are sequences,
and has three more parts.

- `Agree`: the engine judges by the last token it wrote, the parser by the message it
  closed. `ProcessedAsJudged` shows that a call that succeeds leaves the parser
  terminal exactly behind a stop token, with its `Done` as the last event, whichever
  choice the decoder made; so both say the same as long as nothing has failed.
  `CutOff` and the part of `Complete` that follows it show that the parser can always
  be finished or truncated as the engine says: the branch at `http.rs:438` for
  a disagreement is never taken.
- `Endings`: a task that waits has not decided how to end; one that fails still has
  its failure to send; one that leaves the guard disarmed has had the engine's
  last event.
- `Guarded`: the task ends with the guard run or the engine over, and the guard runs
  only for a client who has gone or who is told of a failure. The proof of `Read` needs
  to know that a client without stream has its answer only from a failure or when the
  task is over, which is why that is a part.

The refinement of `ChatStream` needs a stronger invariant, `Spoken`: what was read, what
is in the channel and what the task has yet to send, put together, is a stream `InOrder`,
which opens with the role, in which each event may follow the one before it, and in which
nothing but usage and `[DONE]` follows a reason. As long as the task has not decided how to
end, `Saying` links the last event of it to the parser: it is a tool call exactly when
the parser is terminal with one, and text or the role otherwise. Without that link one cannot
show that the reason given is `tool_calls` exactly behind a call. `InOrder` is about
neighbours, so that a send and a read, which move an event from one place to the next,
leave it alone (`MovingOn`), and whatever the task takes on extends it (`Extends`, `Talking`,
`Calling`, `Failing`, `Closing`). What the parser's events become is
`Chunks`, a `FlattenSeq`, which is a recursive function; a call of the parser returns at
most three events, and for so few it is written out (`FlattenFew`). From there `ClosedSpeaks`,
`ProcessedSpeaks` and `CutOffSpeaks` show that a call says a tool call, or at most one
text. In the refinement itself a read is a step of `ChatStream`, or none when it only adds to
a text; `ReasonsGiven` shows that a reason is given once; `Assemble` is `Answer` for a
client without stream, and every other action leaves the stream as it is.

`StreamIsExact` relates two sequences of any length: the tokens that the model has written, and the
events that the reader has been sent, in three places and not all of them read. Its
inductive invariant is `Exact == Spoken /\ TypeOK /\ Placed /\ Answered /\ Reported`.

- `Placed` finds the parser's place in the tokens written so far: a header holds what stands
  behind the last `START`, a message what stands behind the last `MESSAGE`, and what the message
  has given out, what waits in `pending` and what the decoder holds are together
  the text of that body.
- `Reported`, as long as there is a reader, is `Account` and `Called`. `Account` says that what was
  shown, with what is `missing`, is the text as it reads when the completion is taken as a whole; and
  that what is missing is what the parser has not given out, or, once it has been cut
  off, at most the beginning of one character. `Called` says that there is a tool call exactly behind
  the token that closed it, with the whole body.
- `Answered` keeps a reader who has had the answer apart from what is still to be sent.

`StreamExact` itself is not inductive: it allows any beginning of a character to be missing, so that
it does not say which bytes the next token has to complete. `Unread` does, and each
way of the parser (`CloseStep`, `HeaderStep`, `StartStep`, `ContentStep`, put together in `ProcessStep`)
`Accounts` for one token: what could not be shown before, and what the token spells, is
what is shown now and what cannot be shown yet, whatever the decoder chose to hold back.
`CutOffStep` does so for a completion that ends in the middle of a message.

The texts are `FlattenSeq`s, which the community modules define by a recursive function.
`FlattensExists` and `FlattensIs` give such a function for every number of parts, from the
least number for which there would be none; `FlattenNone` and `FlattenMore` say that another
part is another piece of text at the end, and carry all the steps. The
headings of a body depend on the tokens before it only, so that a token written later does not change them
(`SegmentStays`).

### ComponentUploadProofs

For any number of lanes of any size, any tensors, meshes and devices:

| Theorem | Statement |
|---|---|
| `LanesOutlive` | `Spec => []LanesOutliveTransfers` |
| `UploadIsExact` | `Spec => []UploadExact` |
| `LastIsLast` | `Spec => []LastIsTheLast` |

**Assumptions.** `UploadAssumption`: there is a lane, and it holds a byte.
`JobsAssumption`: a tensor has natural dimensions and elements of at least one byte, a
sharding is single, replicated or a mesh, the axes of a mesh are not empty, and a
platform has a number of devices: dimensions are unsigned numbers, every data type of
`nml-types` has a width of at least one byte (`DataType::byte_width`), `Sharding` has
these three kinds, and `Sharding::mesh` refuses an axis of size zero.

**Argument.** The inductive invariant is `IInv == PcRange /\ HandlesHold /\ LanesInStep /\
Owned`: every transfer in flight has its handle in the list of its lane; the lane that is
being filled has none; while a chunk is issued the handles of its lane are of this very
chunk; and managers exist from their opening to their retrieval. What makes it inductive
is that a lane is filled only with its list empty, and that the list is emptied only
handle by handle, each after its event. `LanesOutlive` needs nothing of the arithmetic of
`Sharding`.

`LastIsLast` does. Its invariant `CInv` says where the cursor stands: the bytes written to
every shard are those of the spans that are behind it, so that the last chunk of the last
span ends exactly at the size of the shard, and no earlier one does. For this all spans
must have the same length, and as many of them as there are must make up the shard
(`SpansEven`, `FileSpansEven`), which in turn needs that a product splits at its last factor
(`ProductFront`) and that the region of a shard is empty only if the tensor is (`RegionHasBytes`).
`Product` is a recursive function; `Recursion`, proved from the least counterexample, says that
it is what its definition says.

`UploadIsExact` is about where every byte is. It has a part about numbers and a part about
the call.

- *Numbers.* The loops of the code are folds, and induction over data is not to be had; so
  `FoldExists` gives the function by which the community modules define a fold, and what
  is to hold at its end is shown by the least place where it would not. `DigitIs` says that a digit
  of `Digits` is the division by a stride that `MeantFor` uses, and `LinearDigits`,
  `LinearFits` and `LinearOrder` that `Linear` undoes `Digits`, stays within the tensor and
  keeps the lexicographic order. Hence the view of a region is one byte of the file for each byte
  of the shard, all of the region, in the order of the file (`ViewedFits`, `ViewedOnto`,
  `ViewedOrder`); the region of a shard is what the divisions mean for it
  (`MeantIs`); two different regions of a mesh share nothing (`RegionsApart`); and byte `c` of
  span `k` is byte `(k - 1) * l + c` of the region, `l` being the length of a span
  (`SpanPlace`, `ChunkPlace`).
- *The call.* `DInv` follows the bytes: the memory of a shard has the size of its region
  (`Sized`); a transfer has the addresses that its bytes have in the file (`Addressed`), which
  the cursor gave it when it was issued (`ChunkLands`); of the group in hand each byte that was sent has arrived
  or its transfer is on its way (`Underway`); the groups behind have arrived (`Finished`);
  on the host path the shards that were uploaded have (`Uploaded`); and with the buffers retrieved all
  have (`Delivered`). `ShardsHoldTheirRegion` says nothing before the end of the call, so that none of this follows
  from it. `RInv` says that a byte that was read belongs to a group behind, or to
  the current one and lies before the cursor: since the groups are disjoint and the spans ascend,
  none is read twice. `TInv` has what is left of the types. The steps of
  `DInv` need `IInv`: a byte arrives as it was meant because its lane is not filled
  again before.

### ParameterLoadProofs

For any checkpoint, any models and any number of workers:

| Theorem | Statement |
|---|---|
| `HeldOnce` | `Spec => []HoldersExact` |
| `EndsWhole` | `Spec => []LoadIsWhole` |
| `TransactionIsImplemented` | `Spec => IsTransaction`, the refinement of `LoadTransaction` |

**Assumptions.** There is a worker, and a model has finitely many components
(`ModelAssumption`).

**Argument.** The inductive invariant is `IInv == PlanIsMade /\ HandedOut /\
WorkersHaveRecords /\ OneHolder /\ Counted`. `PlanIsMade` says that the records are the planned
artifacts, each once, and that the model was found consistent. `WorkersHaveRecords` says
that the indexes below the counter are those that somebody has taken. `Counted` says that
the resident components are as many as were received, so that when all are received and
the threads have ended, every component is resident: a subset of a finite set with the
same number of elements is the set.

## 6. What is only model-checked, and what is not modelled

Model-checked and not proved:

- Liveness (`NobodyStarves`, `AcceptedEnds`, `ShutdownCompletes`, `KnownPodGoes`,
  `ResponseEnds`, `Returns`, `LoadReturns`): it rests on fairness and ENABLED, which are out of this
  prover's reach.
- `AttentionAgrees`: three folds over pages, tiles and segments, with a running maximum and
  weights that are rescaled at every step. That they compute the same sum for every length
  is an induction over data.

Left out of the modelled components:

- `Engine`: the Snapshot command and the counters it reports; a command channel
  closed without a Shutdown (the owner always sends one); preparation errors
  other than missing capacity, which answer the request like the modelled refusal
  does; `fail_everything`, which runs only if `plan` returns an error (`PlanFits`:
  it does not) or at start-up; metrics; the short idle pause for batch formation;
  model loading in `spawn`.
- `Engine` counts pages and does not follow the lengths within a reservation;
  `Generator` follows the lengths and leaves the choice of batches to chance. The
  two meet in what each assumes of the other: that a failed call's rows are
  released first (`doomed`), and that rows are due (`PrefillDue`, `DecodeDue`).
- `Generator` and `LayerCaches`: compilation, residency and families; the bytes of
  slabs and tables; sampling states; errors that the device reports later than at
  the download; `generate`, the command-line driver, which calls the operations and
  prints.
- `AttentionLaunch` and `PagedAttention`: number formats and rounding, head dimensions
  and strides, the order of the threads within a program, and which of the vendor's
  kernels runs.
- `HarmonyParser` and `Response`: rendering of conversations and tool schemas, routing,
  validation of requests, the wording of errors, metrics, and ids and timestamps of
  chunks. The text of header fields is not put together from tokens and split again.
- `RunPod`: templates, SSH job pods, the command line and the shapes of requests;
  several leases at once, which share nothing but a directory. `RunPod` has no
  type invariant of its own: its theorems' invariants contain what is needed.
- `ComponentUpload`: the alignment and mapping of DMA memory, which PJRT call fails how
  (a call succeeds or fails), the order in which the handles of one lane are waited for.
- `ParameterLoad`: the parsing of safetensors headers and indexes; how a plan's bytes are
  accounted for, except for the number of live components; a worker that panics; and the
  choice of the number of workers from the number of processors.
- `PageManager`: `compact_metadata`, `validate_metadata` and `stats` only read;
  arithmetic overflow of `usize` in the capacity computations is not modelled
  (page counts are far below it).
- Everything listed as `not_modelled` in `PROJECT.json`.

## 7. Plan

The order is that of importance to the running server.

1. *Done.* `PageManager` with `CacheLedger`; `Scheduler`; `Engine` with
   `AdmissionLine`; `SchedulerProofs`.
2. *Done.* `Generator` over `LayerCaches`, with the refinement of `CacheLedger`.
3. *Done.* `RunPod` over `ContractRunner`, with `RunPodProofs`.
4. *Done.* `PageManagerProofs`, with the refinement of `CacheLedger`.
5. *Done.* `EngineProofs`, which uses `SchedulerProofs`.
6. *Done.* `Response` over `HarmonyParser`, with the refinement of `ChatStream` and
   `ResponseProofs`.
7. *Done.* `ComponentUpload` over `Sharding`, with `ComponentUploadProofs`;
   `ParameterLoad` with the refinement of `LoadTransaction` and `ParameterLoadProofs`.
8. *Done.* `AttentionLaunch` and `PagedAttention`.
9. *Done.* `GeneratorProofs`, with the refinement of `CacheLedger`; the rest of
   `RunPodProofs`; sums in `SchedulerProofs` and `EngineProofs`.
10. *Done.* The refinement of `ChatStream`, proved in `ResponseProofs`.
11. *Done.* The refinement of `AdmissionLine`, proved in `EngineProofs`; `LastIsTheLast`, with
   lemmas about products and spans.
12. *Done.* `StreamExact`, with lemmas about `FlattenSeq` obtained as those about sums were.
13. *Done.* `UploadExact`, with the arithmetic of `Sharding`.
14. *Done.* `LaunchIsExact`, for launches of every shape.
15. `Materialization` (`tools/artifact`) with the server's check of its receipt, and the
   families and argument slots of `nml-runtime` in full, as independent modules; the
   validation of a serving profile (`contracts.rs`).

## 8. Running it

```
tlc -workers 2 -config MCScheduler.cfg MCScheduler      # one run
tlapm SchedulerProofs.tla                               # the proofs of one module
```

The modules use the TLA+ community modules (SequencesExt, Functions) and the
TLAPS library. On two workers the longest runs, `engine` and `engine_live`, take
between two and three minutes. The proofs of `EngineProofs` take thirteen minutes, those of
`ComponentUploadProofs` seven, of `ResponseProofs` six, of `GeneratorProofs` eight, of `PageManagerProofs` four, of `SchedulerProofs` three, of
`ParameterLoadProofs` one to two, the others less than one.
