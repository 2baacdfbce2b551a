# A TLA+ model of petal's incremental frames

Petal is a language for interfaces that re-run on every frame: a host binds
inputs (mouse, time, window size), runs the program on a stack, and draws the
commands it left. Much of the code exists so that a frame, a scope, a query or a
value is **not** computed again when nothing it depends on has moved, and so that
a running program can be forked, wound back and edited under way. Everything of
that kind has the same two obligations, and they pull apart:

- *never stale*: what is shown, kept or restored is what computing it again would
  give now;
- *not busy*: when nothing has moved, nothing runs.

The modules here model that machinery, from the gate that decides whether a frame
runs at all down to the slots of the heap, and check both obligations under every
order of host operations, script steps, edits, messages and failures the code allows.

## 1. Inventory

Paths are below `src/`. "Status" is what this project has today; the components
of `PROJECT.json` say of each what is left out.

| component | state it keeps | operations | what is hard | correct when | status |
|---|---|---|---|---|---|
| frame gate (`core/src/run_deps.rs`, `env/run.rs`) | per stack: reads, fingerprints, revisions, `forced`, `valid` | `run_needed`, `force`, begin and finish of a run, notes from natives | inputs move during a run, a run fails half way, a fork brings older records back, values without a fingerprint | a skipped run would have seen what the last one saw; a quiet program stops | `FrameGate` |
| execution context (`core/src/execution_context.rs`) | bindings and their serials, RNG, resource table, heap | bind, clear, seed, resolve, restore | serials across forks: one serial must never name two contents | decoded values kept under a serial are current | `FrameGate`, `HeapFork` |
| heap and closures (`heap.rs`, `closure_table.rs`, `env/gc.rs`, `env/fork.rs`) | slots, generations, free lists | alloc, mark, sweep, clear, fork, inherit | an id outlives its object in a fork, a host, a cache; two stores that refer to each other | a live id names the object it was given for; what a stack reaches is there | `Slab`, `HeapFork` (proved) |
| memoized scopes (`memo.rs`, `vm/memo.rs`, `stack.rs`) | per scope: inputs, outputs, effects, retained touches | open, close, fold, validate, re-execute, replay, sweep | reads and writes in nested scopes, commands in the same run, touches of replayed scopes | a frame with memoization is the frame without it | `Memo` |
| static value cache (`static_cache.rs`, `env/static_follow.rs`) | values kept across runs, what they held before, what a drag put off | sync, skip, build, store, follow an edit, flush | values hold each other, rebuilds put off, several stacks, forks | a kept value is what its expression gives, with the sharing a rebuild would give | `HotReload`, `HeapFork` |
| hot reload (`env/reload.rs`, `env/static_follow.rs`, `transfer_state.rs`) | the program, its lowering, the constants' revision; the stacks of the program | patch, drag, recompile | several stacks of one program, forks of older text | no stack skips a frame or keeps a value over a text that is gone | `HotReload`; `TransferState` in `FrameGate`, closures in `HeapFork` |
| desktop timeline (`integrations/petal-desktop-sdl/src/timeline.rs`, `game_loop.rs`, `protocol.rs`) | ring of forks, cursor, clock | record, evict, freeze, scrub, resume, rewind, replay, write, reload, switch | eviction while scrubbed, replays that replace forks one by one, writes to the past | the game on screen is the one the log of frames leads to | `Execution`, `History`, `Timeline` (proved) |
| query cache (`core-libs/petal-query/src/cache.rs`, `gpp/src/cache_control.rs`) | entries, in-flight marks, outbox | lookup, resolve, invalidate, take_outbox, next_revalidation | answer against invalidate, staleness nobody looks at | a key is asked for once, and again when needed | `QueryCache` |
| panel pump and process pane (`garden/garden-app/src/panel_view.rs`, `script_client.rs`, `process_pane.rs`; `garden-script/src/query.rs`) | pending requests by id, revision seen, wake window, resource table | poll, pump, flush, tick, mutate and wait, reload | messages in any order, a bounded wait that drains others' messages, sleep, a dead client | the pane comes to show the client's data, and shows nothing older than the gate knows | `QueryPane` |
| query providers (`petal-query/src/gpp.rs`, `provider.rs`, `garden/gpp-python/`) | serve loop, background jobs | answer, mutate, push | pushes from threads | one answer per request, an invalidate for each change | client half of `QueryPane` |
| state slots (`core/src/stack.rs`, VM state instructions) | slots by call path, touched set, `state var` cells | init, read, write, cell set, capture, sweep | sweep after a run that skipped, replayed, yielded, failed or was entered by the host | a slot lives exactly as long as a completed run reaches it | in `FrameGate` and `Memo`; `StateSlots` planned for the rest |
| env API and host calls (`core/src/env/`) | programs, stacks, contexts | run, run_bounded, call_function, set/restore state, fork, restore, reload | calls between two slices of a run | gate, slots and heap stay consistent after each call | in `FrameGate`, `HeapFork`, `HotReload` |
| petal-ui frame core (`core-libs/petal-ui/src/frame_core.rs`) | last commands, input edges | `frame()` | order of bind, gate, reset, run | commands are the last run's, and the gate's answer covers all it binds | host order covered by `FrameGate` |
| bytecode VM | frames, registers | instructions | - | - | only instructions that touch state, cells, inputs, RNG, resources, closures, scopes and kept values |
| gpp wire format (`core-libs/gpp/src/lib.rs`) | none | encode, decode | - | round trip | not modelled |
| garden shell (`garden/garden-app`) | panes, focus, debug queue, LSP client | windows, debug socket | threads over channels | each debug request answered once | not modelled |
| watcher and control protocol (same crate as the timeline) | channels | forward events | debounce | - | not modelled, but the loop that answers them is in `Timeline` |
| compiler, IR, lowering; builtins; package manager; CLI, LSP server; C and web bridges | - | - | size | output = meaning | not modelled (section 7) |

Interactions. The host (petal-ui's `frame()`, Garden's `PanelHost`, the SDL loop)
binds into the context, asks the gate, then resets and runs the stack. The
VM's natives report reads to the dependency record. A run skips the segments whose
values the stack keeps and replays the scopes whose records hold; both leave values
on the heap that the collector must find, and slots that the sweep must spare. A
fork copies all of it; a restore copies it back under ids a host already holds. An
edit reaches the program once and every stack of it. Garden's panes share one
query cache with their script: the script's `query` looks up, the pane sends the
outbox over a pipe, a reader thread queues what comes back, the main loop applies
it and tells the gate through a revision. `PROJECT.json` lists the hazards, each at
its line, with the property that watches it.

## 2. Modules

| module | models |
|---|---|
| `FrameGate`, `MCFrameGate`, `FrameGateProofs` | one stack, its context and one fork: `run_deps.rs` and every operation that moves an input |
| `Slab` | one store of objects: slots, generations, free list (`heap.rs`, `closure_table.rs`) |
| `HeapFork`, `MCHeapFork`, `HeapForkProofs` | stacks, contexts and forks over `Slab`: what is held, collected, restored; shown to implement `Objects` |
| `Objects` | the same programs and hosts without a heap (the abstract specification) |
| `Memo`, `MCMemo` | memoized scopes against the same program without them |
| `HotReload`, `MCHotReload` | several stacks of one program, their kept values, memo and verdict, and edits |
| `Execution` | the deterministic program a timeline runs, as constants |
| `History` | the log of frames a timeline promises (the abstract specification) |
| `Timeline`, `MCTimeline` | the ring of forks and the live execution, shown to implement `History` |
| `SequenceFacts`, `HistoryProofs`, `TimelineProofs` | TLAPS proofs about the three |
| `QueryCache`, `QueryPane`, `MCQueryPane` | the cache, and the pane, the pipe and the client over it, shown to implement `Feed` |
| `Feed` | what a script may be shown of its data (the abstract specification) |
| `QueryPaneProofs` | TLAPS proofs about the three |
| `FoldFacts`, `HotReloadProofs` | a fold unrolled step by step, for any operator; TLAPS proofs about `HotReload` |

The `MC` modules bound behaviours or give an instance its program; the
specifications themselves are parameterised by CONSTANTS.

### FrameGate

*State.* `ctx` is the execution context (contents and serial of each binding, RNG
position, resource table), `serial` the process-wide serial, `world` the host's
sources outside the binding table (one counter for each class revision and for host
data), `state`, `touched` and `cells` the stack's slots, `deps` the `RunDeps`
record, `fork` a kept fork, `kept` what a native decoded from a binding. The
variables `saw...`, `commanded`, `moved` and `quiet` are history: they record what
the run in progress really read, so that a property can compare it with what the
record says. No action reads them in a guard or writes them into program state.

*Actions.* `HostStep` has one disjunct for each host operation (`set_binding`,
`clear_binding`, `note_host_data_changed` and `note_class_changed`, resolving a
resource, `set_seed`, `call_function`, `set_state`, `restore_state`,
`invalidate_run`, the transfer of a reload, `fork_execution`, `restore_execution`,
`reset_stack`). `ScriptStep` has one for each thing a script can do to an input.
`BeginRun`, `Complete` and `Fail` bracket a run. A script is a free sequence of
steps, so every program is covered. `HostInterleaves` allows host operations
between two `run_bounded` slices; the in-tree hosts call `run`, which is FALSE.
The order petal-ui uses (`frame_core.rs:325-378`) is one of the orders.

*Abstractions.* Contents are abstract: two that have a fingerprint never collide, an
`Opaque` one has none. `Done` stands for both Complete and Error. Left out:
comparison budgets (past 256 nodes the code runs, which is safe), activity counters.

### Slab and HeapFork

*State.* `Slab` is a store as a record: for each slot its generation, high-water mark,
whether it is alive and what it holds, and the free list. `HeapFork` gives each
context two (heap objects and closures) in `stores`; `live` says which stacks there
are, `reg`, `state` and `kept` what each holds in its registers, its state slots and
the values it keeps between runs, `running` which one is in a run. `minted`,
`doubled` and `made` are history: which object an id was given for, which ids a
context and a fork of it had both issued when the fork was restored, and of every
object its store and what it was made of. `Runners` are the stacks the host runs; a
fork that is none of them is a snapshot, as in the SDL loop's ring.

*Actions.* `Begin` and `EndRun` bracket a run; in it `Make` allocates (a closure or an
object, over a child held in a register), `Open` reads a child, `LoadState`,
`StoreState`, `Keep` and `LoadKept` move ids, `CollectGarbage` marks from every root
of every stack of the context, over both stores, and sweeps both. `SetState` is the
host's write to a slot (`env/state_json.rs:93-141`), which allocates in the stack's own
context, a snapshot's too: so a frozen timeline writes to a frame
(`timeline.rs:348-357`) and restores it later (`:225`, `:280`). `ForkExecution`,
`DropFork`, `RestoreExecution` (with `inherit_generations`, the clearing of the closure
table, the transfer of the state and what is dropped from the other stacks of the
context) and `Reload` are the host's.

*Abstractions.* An object has one child at most. What the host sends is a number or a
list, whose parts a number stands for; the cell of a `state var` is taken for its slot.
Left out: interning, the string table,
scratch arenas, frozen and permanent objects, sizes and the threshold of a collection
(it may happen at any step of a run).

*The refinement.* In `Objects` a value is the number of an object; an object is what it
was made as for ever, a fork has the objects of the stack it was made from, and nothing
is collected, moved or found again. `HeapFork` maps onto it by what the ids a stack holds
were minted for (`Held`, `HeldSlots`); a collection is a step in which nothing happens.
So `Open` must find in a slot what the object was made of, after any reuse of the slot,
and `Reload` must drop the slots whose object has a closure *in it*, which the code finds
by looking through two stores.

*What a host owes.* A restore of a fork whose state holds a function is only right when
the host keeps a rule, and is a constant, `FnSnapshots`. The state of *other* stacks
bound to a restored context cannot be helped, as `fork.rs:103-107` says:
`RestoreAllowed`. A fork may be restored whatever was done to it: run, collected, or
written to by the host. It goes on from the generations of the moment of the fork, and
so does the context, so both may issue one id, for two objects: those are in
`doubled`, which is what `NoAliasing` cannot promise. Section 5 has both.

### Memo

*State.* `prog` is the program of the behaviour, a set of functions whose bodies are
lists of statements (read or write a slot, read a binding or a class of data, emit,
command, call); `host` the bindings and classes, `st` the slots and `tab` the memo
table of the stack that memoizes, `serial` its record counter, `last` what the last frame did
with memoization and without. `frames` and `steps` bound a behaviour.

*Actions.* `Frame` runs the program twice, on the machine of `vm/memo.rs` and on the
same machine without memoization, from the same slots: scopes are opened, noted
into, closed into a record, folded into the parent or given up; a call looks its
record up, validates its dependencies in order against live slots *and the record's
own earlier writes*, verifies children, re-executes one speculatively where only that
can tell, replays outputs, effects and touches. The two sweeps end it. `Bind`,
`ClassChanged` and `SetState` are the host's.

*Abstractions.* What a site's statistics decide (too cold, too small, too deep) and
whether the table has room are free choices of each frame. Programs keep the rules of
`docs/dev/memo-scopes.md`. Left out: `var` cells, observations, host and resource
revisions, segmented output, compile-time hints, structural comparison of values.

### HotReload

*State.* `program` is the text (a version for each top-level declaration), the lowering
in force (0: none) and the revision of the constants. `stack` maps each live stack to
what it keeps: the stamp of its table, `slot` (kept values), `prior` (what an emptied
slot held), `deferred` and `redo`, whether a tick of a drag is `recent`, which slow
values have been `timed`, the gate's verdict, the memo record of one scope, and what
is `shown`. A value is what it `is`, an identity, and the identities it `holds`.

*Actions.* `Run` is a whole frame: the flush that may be due, `ensure_bytecode`, `sync`,
each segment skipped, built and stored or raising, the scope replayed or called.
`Patch` is `apply_change` (a drag's tick when `live`; `retargeted` is FALSE when the
lowering had to be dropped), `Recompile` is `reload_program` past it (`cleared` when the
diff cannot be followed), both with `begin_static_follow` and `finish_static_follow`.
`Quiet` is the debounce's time; `FlushStaticRebuilds`, `CreateStack`, `ForkExecution`,
`DropStack` and `RestoreExecution` are the host's.

*Abstractions.* An edit is given by the declaration it changes; how the diff locates and
classifies it is left out, as are values built inside function bodies, enum data,
observation logs and rejected slots. A literal is always there, mentions nothing and
cannot raise; a scope is called with kept values. Lowerings, like ids, are numbers nobody holds.
What a frame shows is forgotten once the gate no longer lets it stand. `Snapshots`
and `Bounded` say how the host uses the API (section 5).

### Execution, History and Timeline

`Execution` is what passes between two frames: `Run`, a constant operator, is what a
program makes of an execution, an input and a frame number (determinism is the
assumption time travel rests on), and the host's writes over it. `History` is what time
travel promises, with no forks and no live stack: the frames done (`past`), those a
rerun has still to do (`future`), the one on screen (`at`), the execution the next
frame runs from (`now`), and the actions `Play`, `Look`, `Resume`, `Rerun`,
`Rerunning`, `Edit`, `WriteState`, `Forget`.

*State of Timeline.* `frames` is the ring, each frame with the key of its fork; `execs`
the forks the Env holds, by key; `live` the live execution; `cursor` the frame on
screen while frozen (0 otherwise); `generation` the program loaded; `clock` the loop's
frame counter; `replaying` the frame a replay does next; `mode` the loop (`window`,
`agent`, `headless`) and `paused` the agent's pause.

*Actions.* `LiveFrame`, `Step` and `LaunchFrame` record a frame, with the eviction of
the oldest and the truncation of what follows the cursor; `Freeze`, `Unfreeze`,
`Escape`, `Scrub` and `Rewind` move over the ring; `Replay` begins a replay and
`ReplayFrame` does one frame of it, replacing that frame's fork; `Reload` and
`SetState` change the program and the state, live or in the past; `Pause` and `Resume`
are the agent's. What differs between the three loops is in the guards.

*The refinement* maps `past` to the frames up to where the replay has come, each with the
execution of its fork; `future` to the frames it has still to do; `at` to the cursor, or
the last frame; `now` to the fork at the cursor when the game is frozen and no replay is
on, else to the live execution.

*Abstractions.* Pictures, trails, the overlay and screenshots are left out. A reload
keeps the state it finds. `time()` is part of a frame's input.

### QueryCache and QueryPane

*State.* `QueryCache` is a record of entries, in-flight marks (`requested`) and
the outbox. An answer is a kind (ready or errored) and the version of the data it
was made from; an entry adds the policy and the time it landed. Ages are truncated
to whole milliseconds by `FreshnessAt` as in the code, and not by
`RevalidationDue`. In `QueryPane`, `main` is where the main thread is: `poll`, then
`pump` (apply the drained envelopes one by one), `flush` (send the outbox), `tick`;
or `await` and `rest` in a mutation's bounded wait. `gate` is the part of the frame
gate that host data moves (that part is checked in full by `FrameGate`),
`resources` the resource table behind `query`, `shown` what the last run was given
for each key, `unseen` that the query revision is ahead of the one the pane noted.
`pending` is the pane's table of requests by id, `toClient` and `toHost` the pipe,
`serving` the answer the client has made and not yet written, `working` its
background jobs, `owed` the invalidates it has yet to push.

*Actions.* `RunFrame`, `SkipFrame` and `TickAsleep` are `tick` and `run_frame`;
`StartPump`, `ApplyNext`, `StartFlush`, `FlushNext`, `EndPump` are `pump_client` and
its caller; `StartMutate`, `AwaitDrain`, `AwaitOver` are `client_mutate` with
`await_response`: `AwaitOver` is possible at any time, which is the timeout, and a
late answer is then dropped. The client is written from the serve loop of
`petal-query/src/gpp.rs` and, with `Threaded`, from the background threads of
`gpp-python`. A single-threaded client pushes only between two responses. A script
asks for any keys when it sees something new, and for the same ones when it does
not; only input makes it call `invalidate`.

*The refinement* to `Feed` maps its data to `world` and `shown` to itself. `reach`, the
version of a key a run may be given next, is the oldest of those the pane may still meet:
the cached answer's, those of the answers on the pipe or made and not written, and the
data's own. A run is a `Frame`: a value it is given is of that version; an error may be an
earlier one, which the resource table keeps while its key loads. Every other step is a
`Change`: what is within reach moves on, and not past the data.

*Abstractions.* Request ids come from a small set and an id is used again once
nobody holds it: the code only compares ids, so a longer counter gives the same
behaviours. Time is a counter. The wake window is `active` (activity since the last
tick), `idle`, `asleep`. Left out: `navigate` and the history of screens, `emit`,
priming, pause, frames that ask for the next frame, the value of a mutation's
result, errors raised by the script.

## 3. Runs

| run | question | instance | distinct states | result |
|---|---|---|---|---|
| `gate_inputs` | is a skip over bindings, classes, host data, resources and RNG sound, and does a quiet program stop? | one binding, one plain and one opaque content, one class; 3 host operations, 2 runs, 3 script steps each | 3.0 M | holds |
| `gate_state` | the same for a state slot and a `state var` cell | two slots, two contents; 2 host operations, 2 runs, 3 steps each | 0.96 M | holds |
| `gate_opaque` | is "None means unchanged" true of opaque values? | atomic frames | small | violated |
| `pane_safety` | is a key in flight ever forgotten, a frame skipped over news, an outdated answer kept, and does what is asked for come to be shown, in order? | one key, 3 events of 8 kinds, single-threaded client, fair steps | 0.32 M | holds |
| `pane_fresh` | and with answers that age, a clock, and background threads? | one key, policies "1 ms, then stale for 1 ms" and no-store, 3 events of 5 kinds | 1.4 M | holds |
| `pane_race` | is an outdated answer dropped when threads push? | one key, data changes only | small | violated |
| `heap` | does an id ever name another object, or nothing, for as long as something holds it, and can a program tell that it has a heap? | a stack, another that keeps a value on the same context, a snapshot of either which the host may write to; one index with two generations, three objects | 0.29 M | holds |
| `heap_restore` | is a function in a restored slot dropped, as a reload drops it? | the fork's state may hold a function | small | violated |
| `timeline` | is the game on screen the one the log leads to, whatever is done to it? | a ring of three, four forks, 4 frames, a reload, two inputs, writes; the three loops | 0.14 M | holds |
| `memo` | is a frame with memoization the frame without it? | the programs of `MCMemo` with any one function given up, two table sizes, 4 frames | 26 k | holds |
| `memo_command` | does a command of a replayed scope reach the host once? | a program three scopes deep | small | violated |
| `hot_reload` | does a frame show, and keep, what the text now says, and is what a drag put off built? | seven declarations, four of them edited; a stack and one created or forked; 3 edits | 0.14 M | holds |

Properties, by hazard:

- `GateSound`: when `run_needed` says None, each input is as the last run *read*
  it. Two exceptions are part of the statement, because the code has them: an input
  that moved after this run read it and before it ended, and one opaque content
  bound in place of another. `SkipReproducesRun` is the documented contract without
  them, and is what `gate_opaque` refutes.
- `QuietRunsSkipped`: the other obligation, so that a gate that always runs fails.
- `SerialNamesContent`: across forks and restores a serial names one content.
- `ForcedUntilBegin`: only a run that *begins* after a `force` answers it.
- `InFlightBacked`: while the client lives, something is on its way for every key
  marked in flight. Nothing else clears the mark, so a mark without it is a
  spinner for ever.
- `SkippedFrameIsCurrent`: a frame is skipped only when another run would be given
  the same answers and start no fetch.
- `OutdatedIsInvalidated`: an answer older than the data still has an invalidate
  to come.
- `ShowsLatest` (liveness): a key the script goes on asking for comes to show the
  client's present data.
- `ImplementsFeed`: what a run is given for a key is what its data was at some time, and
  never a value from before an answer already shown: a key may be asked for twice, its
  first request answered after the second was sent, its entry expire or be invalidated
  and the old answer land after that, and still the screen does not go back.
- `NoAliasing`: an id of a context that finds something finds the object it was
  minted for, across collections, forks and restores that rewind the store, unless the
  context and a fork had both issued it when the fork was restored. What holds an object
  strongly is spared that exception: `RootsResolve` and `ImplementsObjects` have none.
- `RootsResolve`: all that registers, slots and kept values reach, over both stores,
  is still there: neither a sweep nor a restore takes what is held.
- `FreeListExact`: the free list holds the slots that are neither live nor retired. One
  that is missing is lost for good; a live one that is there is given out again.
- `ImplementsObjects`: every step of a context that is collected, written to by the
  host, forked, restored and reloaded is a step of programs that have no heap, or none.
- `ForksAccounted`: the forks the Env holds are those of the ring, each once.
- `Reproducible`: each recorded frame is what its input makes of the frame before
  with its writes, outside the part a replay has not reached.
- `ImplementsHistory`: every step of the loop is a step of `History`, or none.
- `OutputExact`, `StateExact`, `CommandsExact`: a frame's output, the slots it leaves
  (present and absent) and the commands the host gets are those of the same frame
  without memoization.
- `IdleFrameReplays`: a second frame over the same inputs runs nothing but
  scopes that cannot be recorded; without it, a memo that never replays would pass.
- `SkipShowsPresent`: a stack the gate lets rest shows what a rebuild over the present
  text would give.
- `SharingExact`: a kept value holds the very objects kept beside it, as after a run
  that builds everything, unless a drag has put it off.
- `RebuildComes` (liveness): a value a drag put off comes to be built, or the host parks
  the stack.

*Bounds.* In `FrameGate`, `MaxSerial` and `MaxClock` bound the counters in the
guards. What can go wrong takes: an operation before the first run, that run with a
read and a write, an operation inside or after it, a second run. `MCFrameGate` allows
that and one step more, and a fork of the new stack on top of it, not counted; every
mutant is caught within these bounds, and the proofs have none. `QueryPane` needs no bound on steps: only *events* (input, sleep,
time, mutations, slow answers, edits, data changes, pushed scripts, the client's
death) are counted; whatever the program and the client do by themselves goes on
for ever, and three events can meet any of its states. One key is enough for these
properties because keys meet only in the gate's one flag, the batch of envelopes
and the table of ids, and a second request is on the way with one key too (a
mutation, or a query sent again after an invalidate); with two keys and two events
the same invariants were found to hold in 1.4 M states, too slow to keep as a run.
`Ids` has four members; deadlock is checked, and would be found if they ran out.

In `HeapFork` what matters is that an index is used again, so one index with two
generations (`MaxIndex`, `MaxGen`) and three objects (`MaxObj`) meet every case of
reuse, retirement and rewinding, an id issued on both sides of a fork among them. In
the run the fork is a snapshot, which the host may write to, and which is collected
and restored; the proofs have no bounds and let the host run any of them. `Timeline` has a ring
of three and four frames, so that one is evicted while there are others to scrub to,
cut and replay; a fork key for each frame and one for the frame being recorded. Four
frames of `Memo` are: run, replay, one with something changed, and one more that would
show what the third recorded wrongly; `MaxCold` and `Rooms` bound which sites may stop
recording and how full the table may be. `HotReload` has three edits: two ticks of a drag
and one more edit, before, between or after them.

`CHECK_DEADLOCK FALSE` appears only for `FrameGate` and `Memo`, whose bounded
behaviours end. Each property has a mutant in `PROJECT.json`: a small change to a
modelled definition, of the kind a slip in the code would make, that the run must catch.

*Fairness.* None in `FrameGate`, `HeapFork`, `Timeline` and `Memo`: nothing obliges
a host to run frames, and they state no liveness property. In `QueryPane`: weak fairness
of the pump and of the tick that follows it (the main loop polls and ticks on a timer for
as long as the window is open), of the bounded wait (it has a deadline), of the serve loop
(it reads as long as its input is open) and of the pushes the client owes (its jobs
end). Nothing is assumed of the user, the data or the clock; a mutation may time
out; the client may die, which is an outcome of `ShowsLatest`. In `HotReload`: the
debounce's time passes once edits stop, and a host draws a stack whose gate goes on
asking for a run, which is what `run_needed` is for (`Asked`: weak fairness written out). Edits, forks and restores need not happen.

## 4. What is proved

For every value of the constants, from the assumptions named; lemmas are not listed.

| module | theorem | statement |
|---|---|---|
| `FrameGateProofs` | `TypeCorrect` | `Spec => []TypeOK` |
| | `Invariance` | `Spec => []GateInv` |
| | `GateSoundness` | `Spec => []GateSound` |
| | `SerialsNameContents` | `Spec => []SerialNamesContent` |
| | `ForcedStays` | `Spec => ForcedUntilBegin` |
| | `SkipSound` | with no opaque content and atomic frames, `SkipReproducesRun` always holds |
| | `QuietSkipped` | `Spec => []QuietRunsSkipped` |
| `QueryPaneProofs` | `PaneTypeCorrect` | `Spec => []TypeOK` |
| | `InFlightNeverForgotten` | `Spec => []InFlightBacked` |
| | `SkippedFramesCurrent` | `Spec => []SkippedFrameIsCurrent` |
| | `OutdatedDropped` | unless `Threaded`, `Spec => []OutdatedIsInvalidated` |
| | `PaneImplementsFeed` | `Spec => ImplementsFeed`, for threaded clients too |
| | `ScreenNeverGoesBack` | once a key's answer of version `v` has been shown, no value of it older than `v` is |
| `HeapForkProofs` | `HeapTypeCorrect` | `Spec => []TypeOK` |
| | `FreeListsExact` | `Spec => []FreeListExact` |
| | `IdsNameTheirObjects` | `Spec => []NoAliasing` |
| | `ReachableStaysResolved` | unless `FnSnapshots`, `Spec => []RootsResolve` |
| | `HeapImplementsObjects` | unless `FnSnapshots`, `Spec => ImplementsObjects` |
| `HistoryProofs` | `HistoryReproducible` | the log of `History` is always reproducible |
| `TimelineProofs` | `TimelineImplementsHistory` | unless `StepFails` or `ResumeFrozen`, `Spec => ImplementsHistory` |
| | `TimelineTypeCorrect` | `Spec => []TypeOK` |
| | `TimelineForksAccounted` | `Spec => []ForksAccounted` |
| | `TimelineReproducible` | `Spec => []Reproducible`, unless either of those two |
| `HotReloadProofs` | `TypeCorrect` | `Spec => []TypeOK` |
| | `SkippedFrames` | where a stack is only a snapshot once another has recompiled its program (`Snapshots`), `Spec => []SkipShowsPresent` |
| | `SharedExactly` | when no slow value holds one stored with it (`SlowApart`), `Spec => []SharingExact` |

*FrameGate.* `GateSound` speaks only of moments at which the gate would answer
None, so it is not inductive: nothing in it says that a record under construction
matches what the run has read. `GateInv` adds that:
`SerialsOK` (every serial in the context, the record, the fork and the kept values
is at most the process-wide one, and equal serials mean equal contents),
`RecordsFit` (a fingerprint recorded under the serial a binding still has is that of
its present content, and no recorded counter is ahead; for the fork's record and the
fork's context too), `InputsSeen` and `StateSeen` (while a run is on, each input it read is
in the record and either unmoved or marked, each slot it touched is as found or the
run is marked unsettled), `RecordSeen` (a valid record's fingerprints, revisions and
slots are those the run saw). Each has a lemma with one step per action;
`InvImpliesSound` concludes. `SkipSound` adds that `moved` stays empty when neither
the host nor a native moves an input during a run. `QuietRunsSkipped` is the converse of
`GateSound` (nothing is run for nothing) and needs `QuietInv`: while a quiet run is on,
what it read is as it saw it and the run is not marked; after it the record holds the
present fingerprints and revisions, and asks for no new random number.

*QueryPane.* The pane, the pipe and the client share nothing but messages, so its
invariants are about what is on its way. `PaneInv` adds to `TypeOK` that ids are
distinct across both directions and the serve loop, and that a request on its way is
what `pending` says of its id; without it an answer could be filed under another key.
`BackedInv` says what is on its way for each key in flight, where an answer "still
loading" counts for nothing, since the host keeps the key in flight when it comes.
`FrameInv` says that a record the gate was not told anything about agrees with the
cache and the resource table key by key; with the lemma that no entry is stale before
`RevalidationDue`, this is `SkippedFrameIsCurrent`. `OrderInv` is about the order in the
pipe: after every outdated answer comes the invalidate for it. It holds for a client
that serves one message after the other; for one with threads the run `pane_race` shows
that it does not. Two assumptions say that an idle serve loop and "still loading" are
neither responses nor answers, one that a missing entry is not an entry; and a run reads
finitely many keys.

The refinement needs `FeedInv`, key by key: the answers on the pipe lie in the order of
their versions, with the one made and not written after them and none ahead of the data
(`Queued`); the cached answer is the oldest version within reach (`EntryFirst`); and what
has been shown, or is kept to be shown while the key loads, is no newer than anything
within reach, nor is what is kept a value (`PastBehind`). Each step keeps the first two
by one of four lemmas: the pipe rests (`PipeKeptFeeds`), the host reads (`ReadFeeds`), the
client writes (`WriteFeeds`) or makes a response (`ServeFeeds`); each also says that
nothing older comes within reach (`NoneOlder`), so that `reach` moves on. It is the order
of the serve loop and of the pipe that does it: neither ids nor the in-flight mark keep an
answer from being overtaken, and a `pane_race` client, which leaves the screen behind its
data, still does not take it back.

*HeapFork.* `NoAliasing` looks at one context, and a restore brings another context's
store back under it: what must be carried is what a *fork* minted. `IdentityInv` says that
every store is `Sound`: two ids of one slot and generation are of one object or are both in
`doubled`, what is live was minted, and a slot issues no generation above its mark. A
restore unites what two contexts minted, and puts in `doubled` just the ids that collide
(`IssuedTwice`); nothing is asked of what was done to the fork.

`RootsResolve` needs that the collector's mark, a least fixed point over two stores, is
closed: `RootsInv` says that a set of slots *supports* the roots. It holds them, and the
children of its members, and in each of its slots is the very object the holder's id was
minted for, so that this does not rest on ids being unique. Every action preserves that,
and a sweep of everything outside the set keeps it; `HeldInv` relates what a fork's stack
holds to the fork's own stores. The refinement adds `MadeInv`: what is in a live slot says
of its object what the history says. An `Open` is then a step of `Objects` because what is
reached is there and is the object meant (`RootsInv`), and was made of what is read in it
(`MadeInv`). For `Reload`, `FunctionAsMade` shows that two least fixed points agree: a
mark that visits live slots of two stores finds a closure from a value just when one is
among what its object was made of.

*Timeline.* `HInv` of `HistoryProofs` says that the log has its shape, that frames are numbered
one after the other, that each started where the one before ended, and that the frames
done ran as recorded. The refinement holds under `TInv`: the ring is sound (each frame
has a fork of its own, and no other fork exists), the live execution is the last fork's
when nothing is frozen, is the fork's before the frame being replayed during a replay,
and an agent's frozen game is paused. The first of these does not need the rest: `RingInv`
has only the types and the sound ring, and is kept by failed steps and resumed frozen
games too. `TimelineReproducible` then needs no proof about
the ring: it is `HistoryReproducible` under the refinement mapping. `SequenceFacts` holds
the facts about sub-sequences all three use.

*HotReload.* A program is any set of declarations with what each mentions, and any
segments that store values behind what they mention (`ProgramAssumption`,
`SegmentsAssumption`): a run, the building of a segment and the pass that follows an edit
are folds of unknown length. `FoldFacts` unrolls a fold into its steps, so that what one
segment does (`RunsOne`, `KeepsOne`) carries over all of them (`RunAlong`, `KeepTogetherAll`).
`IInv` is the types; that few lowerings are in use is a pigeonhole argument over the stamps.

`SkipShowsPresent` compares what is shown with a run that never happened. `Solves(c, ...)` says
what the values are, given the text and those a drag put off: that there are such contents
is proved along the segments (`Solvable`), and `Agree` that two texts give a declaration the
same ones when they agree on all it reaches. A run over a table that is `Ready` for contents
`c` shows `c`, whatever of it the table had (`ExecuteShows`). The invariant `AllFresh` says of
each stack that a table stamped by the program there is now `Fits` its text: what is kept is
as the text says, does not raise, and is told by nothing that waits, and a segment waits
whole. Besides, a stamp of the present lowering is no newer than the program and one of no
lowering is that of an empty table (`Stamped`), without which an edit could make an old table
pass for a new one; the memo's record is of the text (`Answers`); and a settled stack shows
the contents its table fits (`Current`). `InstallFits` is the heart of it: what an edit leaves,
by `Clean` and by the pass over the segments, fits the new text. Without `Snapshots` the
property is false (section 5).

`SharingExact` speaks of one table, but a drag, a pause and a run find tables of any stamp:
`Sharing` says of every stack that a value holds what its text reads; that one which does not
wait holds what is kept beside it; that of a segment what is remembered was made together and
what holds another is kept when the other is; and that whatever waits, or is to be built
again, takes along what holds it. A pause keeps the last two only when no slow value holds
one stored with it: `SlowApart` is the limit the third HotReload entry of section 5 is about.

*Only model-checked.* All of `Memo`: its interpreter is a set of mutually RECURSIVE operators,
out of the proof system's reach. So are liveness under fairness (`ShowsLatest`,
`RebuildComes`) and ENABLED.

## 5. Where the code and its words differ

Checked by the four violation runs, with quotations in `PROJECT.json`:

1. `gate_opaque`: values without a fingerprint share one constant, so exchanging
   two of them counts as no change; the comment says they always count as changed.
2. `pane_race`: an answer made before a change, written after the invalidate for
   it, is cached with nothing to drop it.
3. `heap_restore`: a restore keeps a slot that holds a function, and clears the
   table the function is in.
4. `memo_command`: a replay of a scope inside another adds its children to the one that
   is running as well, whose own replay then issues their commands twice.

Shown by the modules under other constants or programs, and not kept as runs:

- *Gate, `HostInterleaves`*: the record fingerprints a binding when the run *ends*
  (`core/src/env/run.rs:201-203`, `run_deps.rs:94-95`), so one that moves between two slices
  is recorded as it was not read.
- *Pane*: an errored entry outlives the key's next ready answer and shows again when the
  key loads (`garden/garden-script/src/query.rs:47-48` against `:156`).
- *Heap, `doubled`*: a fork that has run, or in which the host has set a slot
  (`core/src/env/state_json.rs:113`, by `timeline.rs:348-357` while frozen), has issued
  generations the context may have issued too. Once it is restored (`timeline.rs:225`,
  `:280`), one slot and generation has named two objects, and an id held weakly from before
  may find the other one, where `core/src/heap.rs:21-27` says that it never does and
  `heap.rs:395` calls this unconditional. The test at `cli/tests/static_cache.rs:1240-1269`
  restores a fork that has run. `NoAliasing` without its exception fails in four steps:
  fork, set a slot of the stack, set a slot of the fork, restore.
- *Heap*: `env/spec_run.rs:63-83` forks onto a stack without looking for functions, as
  `restore_execution` does.
- *Timeline, `StepFails`*: an agent's step whose script fails moves the clock and the live
  execution and files no frame (`petal-desktop-sdl/src/protocol.rs:327`).
  *`ResumeFrozen`*: an agent that resumes a frozen game without unfreezing it records
  live frames after a cursor that stays (`protocol.rs:379`). Either breaks `ImplementsHistory`.
- *Memo*: the touch journal leaves out a key equal to its last entry also when a
  capture has opened since (`core/src/stack.rs:544`, against `:573-575`): of two sibling
  scopes that share an explicitly keyed slot, the second does not retain it. Two caveats
  of `docs/dev/memo-scopes.md` are real: a scope re-executed to be compared that now
  *writes* does so for good, and its parent's run does so again (`memo.rs:280-283`); a
  child's cutoff is judged on the live slot rather than on its parent's earlier write.
- *HotReload, `Bounded`*: `run_bounded` (`env/run.rs:341-398`) never flushes what a drag put
  off, and `run` does (`:105-109`): a host that slices its runs is told Forced for ever and
  goes on showing the old value. `run.rs:335-337` says a run in slices has the same result,
  `docs/features/hot-reload.md:295-298` that the rebuild comes.
- *HotReload, without `Snapshots`*: a recompiled reload neither forces the gate nor clears
  the memo of a program's other stacks (`transfer_state.rs:77-93`); the patched one does
  (`reload.rs:533-540`), and `hot-reload.md:29-33` says the contract is the same.
- *HotReload, a store of two values*: `flush_deferred` (`static_cache.rs:1007`) empties the
  deferred value of a store and not its neighbour, whose slot keeps another copy of what
  the rebuilt value holds; `static_follow.rs:636-645` empties them together. With
  `Segments` that stores a slow dirty value with a clean one it holds, `SharingExact` is
  violated; `SharedExactly` proves it when there is no such segment.
- *HotReload*: two ticks of a drag with no run between them lose what the slot held
  before the first, so an identical rebuild is a new object.

Met while reading, in no model: slots touched by a function the host calls are swept
by the next completed run (`core/src/env/run.rs:426`, `docs/features/inline-state.md:367`);
a pushed script replaces the host, and with it the script's `state` that
`garden/docs/gpp.md:149` says is kept; a background job's invalidate drops the entry
its stale window would have gone on showing; an entry at exactly `max_age` is due
for revalidation while still fresh, which costs a frame; a new font source changes what
`text_width` answers and tells the gate nothing (`petal-ui/src/frame_core.rs:289`); a
stack's captured function table is neither a root of the collector nor looked up as live
(`core/src/env/run.rs:482`, `vm/calls.rs:600`).

## 6. Plan

1. **FrameGate**: model, runs and proofs done.
2. **QueryCache, QueryPane**: model, runs and proofs of the safety properties done; next,
   `OutdatedIsInvalidated` for a threaded client that tags its answers, should the code
   come to do so.
3. **HeapFork**: model, runs and proofs done. **Timeline**: model, refinement, runs and
   proofs done.
4. **Memo**: model and runs done; next, `var` cells and a reload between two frames.
5. **HotReload**: model, run and proofs of the safety properties done; next, values built
   in function bodies, and its composition with `Memo`, of which it has one scope.
6. **StateSlots**: what `Memo` leaves of the touch journal: captures across yields,
   slots touched by host calls. Abstract specification: a run that executes everything
   keeps exactly the slots it reached.
7. Then the garden's debug request queue and the LSP client's table of requests.

## 7. Not modelled

- *Compiler, IR, lowering*: pure functions of the text, tens of thousands of lines whose
  property is "the output means the input"; the repository tests them by expected output.
  What reloads rely on (which declaration an edit changes, what mentions what) is a
  constant of `HotReload`.
- *Builtins and core packages, the rest of the VM*: sequential, without state of their own;
  the instructions and natives that reach what is modelled are actions above.
- *gpp wire format*: encoding and decoding. The pipe of `QueryPane` carries envelopes.
- *Garden shell* (panes, editors, vim, the debug socket): sequential reactions to events
  but for the debug socket and the LSP client, which are planned.
- *Watcher*: a debounce over the operating system's events. Of the *control protocol*, the
  requests that move the timeline are actions of `Timeline`; the rest is input and pictures.
- *Package manager, command line, LSP server and tooling*: sequential work on files and
  text; *C bridge, web and other embeddings*: the same `Env` calls behind other calling
  conventions.

These are most of the repository's lines. The modules map what keeps state between two
frames, where order, failure and reuse matter.
