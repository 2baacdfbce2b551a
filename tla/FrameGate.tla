----------------------------- MODULE FrameGate -----------------------------
(***************************************************************************)
(* The frame gate of petal: what the last run of one stack depended on     *)
(* (core/src/run_deps.rs), and the host, script and fork operations that   *)
(* move those inputs between and during runs (env/run.rs, env/fork.rs,     *)
(* stack.rs, execution_context.rs).                                        *)
(*                                                                         *)
(* A host binds its inputs, asks run_needed and skips the frame when the   *)
(* answer is "None".  The module follows one stack, its execution context  *)
(* and one fork of it.  A run is a sequence of reads and writes the script *)
(* chooses freely, so every program is covered.  Values are abstract: an   *)
(* opaque value is one the code cannot fingerprint (a closure, a pending,  *)
(* more than 4096 nodes).  Fingerprints of other values do not collide.    *)
(***************************************************************************)
EXTENDS Naturals, FiniteSets

CONSTANTS
  Bindings,          \* symbols the host binds (mouse_x, time, ...)
  Values,            \* contents a binding or a state slot may hold
  Opaque,            \* the contents that have no fingerprint
  Slots,             \* runtime state keys of the stack
  Cells,             \* the slots declared `state var`, which hold a cell
  Classes,           \* revisioned input classes (PHYSICS, NET)
  HostData,          \* host data behind host_data and query natives
  Absent,            \* nothing is bound, or the slot does not exist
  Unfingerprintable, \* the reserved fingerprint of every opaque value
  NotRead,           \* history: the run has not looked at this input
  NoFork,            \* no fork is kept
  HostInterleaves,   \* the host acts between run_bounded slices of one run
  ResolvesInRun,     \* natives may resolve resources while a run executes
  MaxSerial,         \* bound on binding serials
  MaxClock           \* bound on every other counter

Sources == Classes \union {HostData}
Contents == Values \union {Absent}
Fingerprints == Contents \union {Unfingerprintable}
ResourceTable == "resource table"
Inputs == Bindings \union Sources \union {ResourceTable}

ASSUME GateAssumption ==
  /\ Opaque \subseteq Values
  /\ Cells \subseteq Slots
  /\ HostData \notin Classes
  /\ Bindings \intersect Sources = {}
  /\ ResourceTable \notin Bindings \union Sources
  /\ Absent \notin Values
  /\ Unfingerprintable \notin Contents
  /\ NotRead \notin Contents \union Nat
  /\ MaxSerial \in Nat /\ MaxClock \in Nat
  /\ HostInterleaves \in BOOLEAN /\ ResolvesInRun \in BOOLEAN

VARIABLES
  ctx,     \* the execution context: bindings, revisions, RNG, resource table
  serial,  \* the process-wide serial of binding changes
  world,   \* what the host holds outside the binding table
  state,   \* the stack's state slots (a cell slot shows its contents)
  status,  \* Ready, Running or Done (the run completed or failed)
  touched, \* the slots touched since the run began
  cells,   \* the contents each `state var` cell had when the run met it
  deps,    \* the dependency record
  fork,    \* a fork of the stack and its context, or NoFork
  kept     \* what a native decoded from a binding, with its serial

\* History: what the run in progress (or the last run) really saw.
VARIABLES
  sawBinding, \* content of each binding when first read
  sawSource,  \* content of each host source when first read
  sawResource,\* resolutions in the resource table when first read
  sawState,   \* content of each slot when first touched (or as initialised)
  commanded,  \* classes a native changed during the run
  moved,      \* inputs that changed after this run read them, within the run
  quiet       \* nothing has happened that asks for another run

context == <<ctx, serial, world>>
run == <<state, status, touched, cells>>
saw == <<sawBinding, sawSource, sawResource, sawState, commanded>>
vars == <<context, run, deps, fork, kept, saw, moved, quiet>>

FP(content) == IF content \in Opaque THEN Unfingerprintable ELSE content

Counters == Nat
Ctx == [bound : [Bindings -> Contents], rev : [Bindings -> Counters],
        rng : Counters, resRevision : Counters, resolved : Counters]

Deps == [readList : SUBSET Bindings,
         reads : SUBSET Bindings, fp : [Bindings -> Fingerprints],
         rev : [Bindings -> Counters],
         srcRead : SUBSET Sources, changedInRun : SUBSET Classes,
         now : [Sources -> Counters], recorded : [Sources -> Counters],
         rngAtStart : Counters, rngConsumed : BOOLEAN,
         unsettled : BOOLEAN, resRevision : Counters,
         valid : BOOLEAN, forced : BOOLEAN]

Init ==
  /\ ctx = [bound |-> [b \in Bindings |-> Absent],
            rev |-> [b \in Bindings |-> 0],
            rng |-> 0, resRevision |-> 0, resolved |-> 0]
  /\ serial = 0
  /\ world = [s \in Sources |-> 0]
  /\ state = [k \in Slots |-> Absent]
  /\ status = "Ready"
  /\ touched = {}
  /\ cells = [k \in Cells |-> NotRead]
  /\ deps = [readList |-> {}, reads |-> {},
             fp |-> [b \in Bindings |-> Absent],
             rev |-> [b \in Bindings |-> 0],
             srcRead |-> {}, changedInRun |-> {},
             now |-> [s \in Sources |-> 0],
             recorded |-> [s \in Sources |-> 0],
             rngAtStart |-> 0, rngConsumed |-> FALSE,
             unsettled |-> FALSE, resRevision |-> 0,
             valid |-> FALSE, forced |-> FALSE]
  /\ fork = NoFork
  /\ kept = [b \in Bindings |-> [content |-> Absent, rev |-> 0]]
  /\ sawBinding = [b \in Bindings |-> NotRead]
  /\ sawSource = [s \in Sources |-> NotRead]
  /\ sawResource = NotRead
  /\ sawState = [k \in Slots |-> NotRead]
  /\ commanded = {}
  /\ moved = {}
  /\ quiet = FALSE

-----------------------------------------------------------------------------
(* The gate's answer: RunDeps::run_needed.                                 *)

ForceRun(d) == [d EXCEPT !.forced = TRUE]

BindingMoved(d, c, b) ==
  /\ ~(d.rev[b] # 0 /\ c.rev[b] = d.rev[b])
  /\ FP(c.bound[b]) # d.fp[b]

SourceMoved(d, s) == s \in d.srcRead /\ d.now[s] # d.recorded[s]

RunNeeded ==
  \/ ~deps.valid
  \/ deps.forced
  \/ deps.unsettled
  \/ deps.rngConsumed
  \/ ctx.resRevision # deps.resRevision
  \/ deps.srcRead \intersect deps.changedInRun # {}
  \/ \E s \in Sources : SourceMoved(deps, s)
  \/ \E b \in deps.reads : BindingMoved(deps, ctx, b)

-----------------------------------------------------------------------------
(* Host operations.                                                        *)

HostMayAct == status # "Running" \/ HostInterleaves

\* An input the run in progress has read changes under it.
NoteMoved(input, read) ==
  moved' = IF status = "Running" /\ read THEN moved \union {input} ELSE moved

\* Mutant: the revision counts each binding's own changes, so that a restore
\* takes it back.
RebindPerBinding(b, content) ==
  /\ serial < MaxSerial
  /\ serial' = serial + 1
  /\ ctx' = [ctx EXCEPT !.bound[b] = content, !.rev[b] = @ + 1]
  /\ NoteMoved(b, sawBinding[b] # NotRead)
  /\ quiet' = FALSE
  /\ UNCHANGED <<world, run, deps, fork, kept, saw>>

\* set_binding with a value other than the very one bound: a new content, or
\* the same content in a new heap object.  Either takes a fresh serial.
Rebind(b, content) ==
  /\ serial < MaxSerial
  /\ serial' = serial + 1
  /\ ctx' = [ctx EXCEPT !.bound[b] = content, !.rev[b] = serial + 1]
  /\ NoteMoved(b, sawBinding[b] # NotRead)
  /\ quiet' = (quiet /\ (status # "Running" /\ sawBinding[b] # NotRead
                           => content = ctx.bound[b]))
  /\ UNCHANGED <<world, run, deps, fork, kept, saw>>

SetBinding(b, v) == HostMayAct /\ Rebind(b, v)

ClearBinding(b) ==
  /\ HostMayAct
  /\ ctx.bound[b] # Absent
  /\ Rebind(b, Absent)

\* Data the host owns changes, and the host reports it: note_host_data_changed
\* or note_class_changed.
HostSourceChanges(s) ==
  /\ HostMayAct
  /\ world[s] < MaxClock
  /\ world' = [world EXCEPT ![s] = @ + 1]
  /\ deps' = [deps EXCEPT !.now[s] = @ + 1]
  /\ NoteMoved(s, sawSource[s] # NotRead)
  /\ quiet' = (quiet /\ (status # "Running" => sawSource[s] = NotRead))
  /\ UNCHANGED <<ctx, serial, run, fork, kept, saw>>

\* resolve or reject: the entry changes and the table's revision with it.
SettleResource ==
  /\ ctx.resRevision < MaxClock
  /\ ctx' = [ctx EXCEPT !.resRevision = @ + 1, !.resolved = @ + 1]
  /\ NoteMoved(ResourceTable, sawResource # NotRead)
  /\ quiet' = (quiet /\ status = "Running")
  /\ UNCHANGED <<serial, world, run, deps, fork, kept, saw>>

HostResolves == HostMayAct /\ SettleResource

\* Operations that cannot be seen in the record force the next run.
Forced == deps' = ForceRun(deps) /\ quiet' = FALSE

\* set_seed reaches every context and forces every stack, the fork's included.
SetSeed(seed) ==
  /\ HostMayAct
  /\ ctx' = [ctx EXCEPT !.rng = seed]
  /\ fork' = IF fork = NoFork THEN fork
             ELSE [fork EXCEPT !.ctx.rng = seed, !.deps = ForceRun(@)]
  /\ Forced
  /\ UNCHANGED <<serial, world, run, kept, saw, moved>>

\* A host call of a script function, outside any run: it may write a slot, draw
\* numbers, and read nothing or anything.  Whatever it does, invalidate_run
\* follows.  (What it commands the host to change is HostSourceChanges.)
CallFunction(k, v, draws, reads) ==
  /\ HostMayAct
  /\ ctx.rng + draws <= MaxClock
  /\ state' = [state EXCEPT ![k] = v]
  /\ touched' = touched \union {k}
  /\ ctx' = [ctx EXCEPT !.rng = @ + draws]
  /\ deps' = [ForceRun(deps) EXCEPT
                !.readList = @ \union reads,
                !.unsettled = @ \/ state[k] # v]
  /\ quiet' = FALSE
  /\ UNCHANGED <<serial, world, status, cells, fork, kept, saw, moved>>

SetState(k, v) ==
  /\ HostMayAct
  /\ state' = [state EXCEPT ![k] = v]
  /\ Forced
  /\ UNCHANGED <<context, status, touched, cells, fork, kept, saw, moved>>

\* restore_state replaces every slot by a snapshot's.
RestoreState(snapshot) ==
  /\ HostMayAct
  /\ state' = snapshot
  /\ Forced
  /\ UNCHANGED <<context, status, touched, cells, fork, kept, saw, moved>>

InvalidateRun ==
  /\ HostMayAct
  /\ Forced
  /\ UNCHANGED <<context, run, fork, kept, saw, moved>>

\* transfer_stack_state: slots the new program does not declare are dropped,
\* execution is reset and everything derived is discarded.
TransferState(declared) ==
  /\ HostMayAct
  /\ state' = [k \in Slots |-> IF k \in declared THEN state[k] ELSE Absent]
  /\ status' = "Ready"
  /\ Forced
  /\ UNCHANGED <<context, touched, cells, fork, kept, saw, moved>>

ForkExecution ==
  /\ HostMayAct
  /\ fork' = [ctx |-> ctx, state |-> state, deps |-> deps]
  /\ UNCHANGED <<context, run, deps, kept, saw, moved, quiet>>

\* The context becomes a copy of the fork's; the stack its clone, reshaped by
\* transfer_stack_state onto the program of now.  The serial is not restored.
RestoreExecution(declared) ==
  /\ HostMayAct
  /\ fork # NoFork
  /\ ctx' = fork.ctx
  /\ state' = [k \in Slots |->
                 IF k \in declared THEN fork.state[k] ELSE Absent]
  /\ deps' = ForceRun(fork.deps)
  /\ status' = "Ready"
  /\ quiet' = FALSE
  /\ UNCHANGED <<serial, world, touched, cells, fork, kept, saw, moved>>

ResetStack ==
  /\ HostMayAct
  /\ status # "Ready"
  /\ status' = "Ready"
  /\ quiet' = (quiet /\ status = "Done")
  /\ UNCHANGED <<context, state, touched, cells, deps, fork, kept, saw, moved>>

\* A native keeps what it derived from a binding, under the binding's serial,
\* and derives it again only when the serial differs.
Decode(b) ==
  /\ ctx.rev[b] # kept[b].rev
  /\ kept' = [kept EXCEPT ![b] = [content |-> ctx.bound[b], rev |-> ctx.rev[b]]]
  /\ UNCHANGED <<context, run, deps, fork, saw, moved, quiet>>

-----------------------------------------------------------------------------
(* A run: start_run_tracking and begin_run, the script's steps, finish_run. *)

\* Mutants of begin_run: a flag of the previous run is not cleared.
FreshRecordChanged(d) ==
  [d EXCEPT !.readList = {}, !.srcRead = {}, !.unsettled = FALSE,
            !.rngConsumed = FALSE, !.rngAtStart = ctx.rng,
            !.valid = FALSE, !.forced = FALSE]
FreshRecordUnsettled(d) ==
  [d EXCEPT !.readList = {}, !.srcRead = {}, !.changedInRun = {},
            !.rngConsumed = FALSE, !.rngAtStart = ctx.rng,
            !.valid = FALSE, !.forced = FALSE]

\* RunDeps::begin_run.  The last record's fingerprints stay, for finish_run.
FreshRecord(d) ==
  [d EXCEPT !.readList = {}, !.srcRead = {}, !.changedInRun = {},
            !.unsettled = FALSE, !.rngConsumed = FALSE,
            !.rngAtStart = ctx.rng, !.valid = FALSE, !.forced = FALSE]

\* Mutant: the snapshot takes every slot.
SnapshotSlots == [k \in Slots |-> IF state[k] = Absent THEN NotRead ELSE state[k]]

\* The contents of the `state var` cells as a run finds them.
SnapshotCells == [k \in Cells |-> IF state[k] = Absent THEN NotRead ELSE state[k]]

BeginRun ==
  /\ status = "Ready"
  /\ status' = "Running"
  /\ touched' = {}
  /\ cells' = SnapshotCells
  /\ deps' = FreshRecord(deps)
  /\ sawBinding' = [b \in Bindings |-> NotRead]
  /\ sawSource' = [s \in Sources |-> NotRead]
  /\ sawResource' = NotRead
  /\ sawState' = [k \in Slots |-> NotRead]
  /\ commanded' = {}
  /\ moved' = {}
  /\ quiet' = TRUE
  /\ UNCHANGED <<context, state, fork, kept>>

Running == status = "Running"

FirstSight(old, value) == IF old = NotRead THEN value ELSE old

ReadBinding(b) ==
  /\ Running
  /\ deps' = [deps EXCEPT !.readList = @ \union {b}]
  /\ sawBinding' = [sawBinding EXCEPT ![b] = FirstSight(@, ctx.bound[b])]
  /\ UNCHANGED <<context, run, fork, kept, sawSource, sawResource, sawState,
                 commanded, moved, quiet>>

\* note_host_read and note_class_read.
ReadSource(s) ==
  /\ Running
  /\ deps' = [deps EXCEPT !.srcRead = @ \union {s}]
  /\ sawSource' = [sawSource EXCEPT ![s] = FirstSight(@, world[s])]
  /\ quiet' = (quiet /\ s \notin commanded)
  /\ UNCHANGED <<context, run, fork, kept, sawBinding, sawResource, sawState,
                 commanded, moved>>

\* A native changes a revisioned class while the run executes:
\* note_class_changed_in_run.
CommandClass(c) ==
  /\ Running
  /\ world[c] < MaxClock
  /\ world' = [world EXCEPT ![c] = @ + 1]
  /\ deps' = [deps EXCEPT !.now[c] = @ + 1, !.changedInRun = @ \union {c}]
  /\ commanded' = commanded \union {c}
  /\ quiet' = (quiet /\ sawSource[c] = NotRead)
  /\ UNCHANGED <<ctx, serial, run, fork, kept, sawBinding, sawSource,
                 sawResource, sawState, moved>>

\* A native looks a pending value up.  The first look at a key creates its
\* entry, which bumps the revision and changes what no reader has seen.
ReadResource(creates) ==
  /\ Running
  /\ ctx.resRevision + creates <= MaxClock
  /\ ctx' = [ctx EXCEPT !.resRevision = @ + creates]
  /\ sawResource' = FirstSight(sawResource, ctx.resolved)
  /\ UNCHANGED <<serial, world, run, deps, fork, kept, sawBinding, sawSource,
                 sawState, commanded, moved, quiet>>

\* A native settles a resource from inside a run: query, which rejects a key
\* whose answer is an error, and the pending test natives.
NativeResolves == Running /\ ResolvesInRun /\ SettleResource

DrawRng ==
  /\ Running
  /\ ctx.rng < MaxClock
  /\ ctx' = [ctx EXCEPT !.rng = @ + 1]
  /\ quiet' = FALSE
  /\ UNCHANGED <<serial, world, run, deps, fork, kept, saw, moved>>

\* Mutant: a cell created by the run is left out of the snapshot.
NoteNoCell(k, v) == cells

\* Stack::note_cell_created: a new cell joins the run-start snapshot.
NoteCellCreated(k, v) ==
  IF k \in Cells THEN [cells EXCEPT ![k] = v] ELSE cells

\* StateInit on a missing slot, then the StateWrite that commits it.  Creating
\* a slot is no state write.
InitState(k, v) ==
  /\ Running
  /\ state[k] = Absent
  /\ state' = [state EXCEPT ![k] = v]
  /\ touched' = touched \union {k}
  /\ cells' = NoteCellCreated(k, v)
  /\ sawState' = [sawState EXCEPT ![k] = FirstSight(@, v)]
  /\ UNCHANGED <<context, status, deps, fork, kept, sawBinding, sawSource,
                 sawResource, commanded, moved, quiet>>

ReadState(k) ==
  /\ Running
  /\ state[k] # Absent
  /\ touched' = touched \union {k}
  /\ sawState' = [sawState EXCEPT ![k] = FirstSight(@, state[k])]
  /\ UNCHANGED <<context, state, status, cells, deps, fork, kept, sawBinding,
                 sawSource, sawResource, commanded, moved, quiet>>

\* A reassignment: note_state_write compares the old and the new contents.  An
\* in-place edit leaves nothing to compare: it counts as a change unless its
\* producer reports that it stored what was there.  (A comparison that gives up
\* past its node budget counts as a change too: the step with mutated and
\* ~keptAsFound stands for it.)
WriteState(k, v, mutated, keptAsFound) ==
  /\ Running
  /\ k \notin Cells /\ state[k] # Absent
  /\ keptAsFound => mutated /\ v = state[k]
  /\ state' = [state EXCEPT ![k] = v]
  /\ touched' = touched \union {k}
  /\ sawState' = [sawState EXCEPT ![k] = FirstSight(@, state[k])]
  /\ LET changed == IF mutated THEN ~keptAsFound ELSE v # state[k] IN
       /\ deps' = [deps EXCEPT !.unsettled = @ \/ changed]
       /\ quiet' = (quiet /\ ~changed)
  /\ UNCHANGED <<context, status, cells, fork, kept, sawBinding, sawSource,
                 sawResource, commanded, moved>>

\* `set x = v` on a `state var` the run has reached: only the cell changes.
SetCell(k, v) ==
  /\ Running
  /\ k \in Cells /\ k \in touched /\ state[k] # Absent
  /\ state' = [state EXCEPT ![k] = v]
  /\ UNCHANGED <<context, status, touched, cells, deps, fork, kept, saw, moved,
                 quiet>>

\* Stack::finish_run_deps: a cell whose contents differ from the snapshot
\* leaves the run unsettled.  Cells whose contents are past the comparison's
\* node budget, which always count as changed, are left out.
CellChanged == \E k \in Cells :
  /\ cells[k] # NotRead /\ state[k] # Absent
  /\ state[k] # cells[k]

\* Mutant: the previous fingerprint is kept whatever happened to the binding.
FinishedFPStale(b) ==
  IF b \in deps.reads THEN deps.fp[b] ELSE FP(ctx.bound[b])

\* The fingerprint finish_run stores for b: the previous one when the serial
\* has not moved since, that of the value bound now otherwise.
FinishedFP(b) ==
  IF b \in deps.reads /\ deps.rev[b] = ctx.rev[b] /\ ctx.rev[b] # 0
  THEN deps.fp[b] ELSE FP(ctx.bound[b])

\* Mutant: completing the record answers a request made during the run.
ValidatedUnforced(d) == [d EXCEPT !.valid = TRUE, !.forced = FALSE]

Validated(d) == [d EXCEPT !.valid = TRUE]

FinishRun ==
  /\ deps' = Validated([deps EXCEPT
       !.unsettled = @ \/ CellChanged,
       !.reads = deps.readList,
       !.fp = [b \in Bindings |-> IF b \in deps.readList THEN FinishedFP(b) ELSE Absent],
       !.rev = [b \in Bindings |-> IF b \in deps.readList THEN ctx.rev[b] ELSE 0],
       !.rngConsumed = ctx.rng # deps.rngAtStart,
       !.resRevision = ctx.resRevision,
       !.recorded = deps.now])
  /\ quiet' = (quiet /\ ~CellChanged)
  /\ status' = "Done"
  /\ UNCHANGED <<context, touched, cells, fork, kept, saw, moved>>

\* A completed run sweeps the slots it did not touch before it finishes.
Complete ==
  /\ Running
  /\ state' = [k \in Slots |-> IF k \in touched THEN state[k] ELSE Absent]
  /\ FinishRun

\* A failed run keeps every slot and records its reads all the same.
Fail == Running /\ state' = state /\ FinishRun

-----------------------------------------------------------------------------
HostStep ==
  \/ \E b \in Bindings, v \in Values : SetBinding(b, v)
  \/ \E b \in Bindings : ClearBinding(b)
  \/ \E s \in Sources : HostSourceChanges(s)
  \/ HostResolves
  \/ \E seed \in 0 .. MaxClock : SetSeed(seed)
  \/ \E k \in Slots, v \in Values, draws \in {0, 1}, reads \in {{}, Bindings} :
       CallFunction(k, v, draws, reads)
  \/ \E k \in Slots, v \in Values : SetState(k, v)
  \/ \E snapshot \in [Slots -> Contents] : RestoreState(snapshot)
  \/ InvalidateRun
  \/ \E declared \in SUBSET Slots : TransferState(declared)
  \/ ForkExecution
  \/ \E declared \in SUBSET Slots : RestoreExecution(declared)
  \/ ResetStack

ScriptStep ==
  \/ \E b \in Bindings : Decode(b)
  \/ \E b \in Bindings : ReadBinding(b)
  \/ \E s \in Sources : ReadSource(s)
  \/ \E c \in Classes : CommandClass(c)
  \/ \E creates \in {0, 1} : ReadResource(creates)
  \/ NativeResolves
  \/ DrawRng
  \/ \E k \in Slots, v \in Values : InitState(k, v)
  \/ \E k \in Slots : ReadState(k)
  \/ \E k \in Slots, v \in Values, mutated, keptAsFound \in BOOLEAN :
       WriteState(k, v, mutated, keptAsFound)
  \/ \E k \in Slots, v \in Values : SetCell(k, v)

EndRun == Complete \/ Fail

Next == HostStep \/ BeginRun \/ ScriptStep \/ EndRun

Spec == Init /\ [][Next]_vars

-----------------------------------------------------------------------------
(* Properties.                                                             *)

\* Every variable holds a value of its kind; the record's counters are only
\* ever set from counters of the context and of the stack.
TypeOK ==
  /\ ctx \in Ctx
  /\ serial \in Nat
  /\ world \in [Sources -> Nat]
  /\ state \in [Slots -> Contents]
  /\ status \in {"Ready", "Running", "Done"}
  /\ touched \subseteq Slots
  /\ cells \in [Cells -> Contents \union {NotRead}]
  /\ deps \in Deps
  /\ fork = NoFork \/ fork \in [ctx : Ctx, state : [Slots -> Contents], deps : Deps]
  /\ kept \in [Bindings -> [content : Contents, rev : Nat]]
  /\ sawBinding \in [Bindings -> Contents \union {NotRead}]
  /\ sawSource \in [Sources -> Nat \union {NotRead}]
  /\ sawResource \in Nat \union {NotRead}
  /\ sawState \in [Slots -> Contents \union {NotRead}]
  /\ commanded \subseteq Classes
  /\ moved \subseteq Inputs
  /\ quiet \in BOOLEAN

\* What the last run saw of each kind of input is what it would see now.
SameBinding(b) == sawBinding[b] \in {NotRead, ctx.bound[b]}
SameSource(s) == sawSource[s] \in {NotRead, world[s]}
SameResource == sawResource \in {NotRead, ctx.resolved}
SameState(k) == sawState[k] \in {NotRead, state[k]}

\* The opaque fingerprint is shared: the gate cannot tell two such values apart.
BothOpaque(b) == {sawBinding[b], ctx.bound[b]} \subseteq Opaque

\* When run_needed answers None, another run would find every binding, host
\* source, resource and state slot the last run looked at as that run found it,
\* except for an input that moved between the run's own read and its end, and
\* for one opaque binding value exchanged for another.
GateSound == ~RunNeeded =>
  /\ \A b \in Bindings : SameBinding(b) \/ b \in moved \/ BothOpaque(b)
  /\ \A s \in Sources : SameSource(s) \/ s \in moved
  /\ SameResource \/ ResourceTable \in moved
  /\ \A k \in Slots : SameState(k)

\* The contract as run_needed_reason documents it, without those exceptions:
\* None means every input still holds the value the last run read.
SkipReproducesRun == ~RunNeeded =>
  /\ \A b \in Bindings : SameBinding(b)
  /\ \A s \in Sources : SameSource(s)
  /\ SameResource
  /\ \A k \in Slots : SameState(k)

\* A form that does nothing stops running: after a run that changed no state,
\* drew no number and commanded no class it reads, with no input it read
\* changed and nothing forced since, the gate does answer None.
QuietRunsSkipped == quiet /\ deps.valid => ~RunNeeded

\* A request for a run (force) is answered by a run that begins after it: no
\* other step, the end of a run already under way included, withdraws it.
ForcedUntilBegin ==
  [][deps.forced /\ ~deps'.forced => status = "Ready" /\ status' = "Running"]_vars

\* No two changes of a binding share a serial, across forks and restores too,
\* so what was derived under the binding's present serial is not stale.
SerialNamesContent == \A b \in Bindings :
  kept[b].rev # 0 /\ kept[b].rev = ctx.rev[b] => kept[b].content = ctx.bound[b]

=============================================================================
