------------------------------ MODULE HotReload ------------------------------
(***************************************************************************)
(* Hot reload and the values kept between runs                             *)
(* (src/core/src/env/reload.rs, env/static_follow.rs, static_cache.rs and  *)
(* transfer_state.rs): a program several stacks run, edited while they     *)
(* run.  Each stack keeps the values of top-level declarations from run to *)
(* run, the record of a memoized scope and the gate's verdict; an edit     *)
(* decides which values the stack it names may keep, which it must rebuild *)
(* and which slow ones may wait until a drag pauses.                       *)
(*                                                                         *)
(* The text of a program is a version for each declaration.  What a        *)
(* declaration's value is, is told by its text and by what it mentions; a  *)
(* value has an identity besides, since one value may hold another.        *)
(***************************************************************************)
EXTENDS Integers, Sequences, FiniteSets, SequencesExt, FiniteSetsExt, Functions

CONSTANTS
    Stacks,     \* the stacks there may be
    Main,       \* the one a host always has
    Decls,      \* the top-level declarations
    Mentions,   \* Decls -> the declarations its text mentions
    Optional,   \* declarations an edit may add and take away: 0 is "not there"
    Segments,   \* the values kept, as the segments that store them, in order
    Literals,   \* declarations that are one literal, which an edit patches in place
    Scalar,     \* values without an identity of their own
    Coarse,     \* declarations whose value is the same whatever their text
    Unnamed,    \* values no declaration names, which a recompile cannot match
    Slow,       \* values that take longer to build than the debounce's threshold
    Raises,     \* pairs of a declaration and a version that raises
    Body,       \* the function a memoized scope calls
    Captures,   \* the values that scope is called with
    Snapshots,  \* a stack is only a snapshot once another has recompiled its program
    Bounded,    \* frames are driven by run_bounded and not by run
    Edited,     \* bound: the declarations an edit may change
    MaxEdits    \* bound: edits of a behaviour

VARIABLES
    program, \* text, lowering (0: none), the constants' revision
    stack,   \* what each live stack keeps
    edits    \* edits made

vars == <<program, stack, edits>>

Slots == UNION {Range(Segments[i]): i \in DOMAIN Segments}

Live == DOMAIN stack

(* What f says, and g where f says nothing. *)
Over(f, g) == [x \in DOMAIN f \cup DOMAIN g |-> IF x \in DOMAIN f THEN f[x] ELSE g[x]]

Only(x, v) == [y \in {x} |-> v]

(* An edit changes a declaration of the program; one that adds or takes one *)
(* away adds no value.  A literal is there, is a scalar, mentions nothing   *)
(* and raises nothing.  What a scope is called with is a value kept.        *)
ASSUME ProgramAssumption ==
    /\ Main \in Stacks /\ IsFiniteSet(Stacks)
    /\ Mentions \in [Decls -> SUBSET Decls]
    /\ Edited \subseteq Decls /\ Captures \subseteq Slots
    /\ Optional \subseteq Decls /\ Optional \cap Slots = {}
    /\ Literals \subseteq Scalar /\ Literals \cap Optional = {}
    /\ \A d \in Literals \cap Decls: Mentions[d] = {} /\ \A v \in {0, 1}: <<d, v>> \notin Raises
    /\ MaxEdits \in Nat

(* A value is stored in one place, and behind the values it mentions.       *)
ASSUME SegmentsAssumption ==
    /\ Segments \in Seq(Seq(Decls))
    /\ \A i, j \in DOMAIN Segments:
          \A p \in DOMAIN Segments[i], q \in DOMAIN Segments[j]:
             Segments[i][p] = Segments[j][q] => i = j /\ p = q
    /\ \A i \in DOMAIN Segments: \A p \in DOMAIN Segments[i]:
          \A m \in Mentions[Segments[i][p]] \cap Slots:
             \E j \in DOMAIN Segments: \E q \in DOMAIN Segments[j]:
                m = Segments[j][q] /\ (j < i \/ (j = i /\ q < p))

(***************************************************************************)
(* The text.                                                               *)
(***************************************************************************)
Direct(text, d) == {m \in Mentions[d]: m \in Optional => text[m] # 0}

(* What d reaches when of the optional declarations those of o are there:   *)
(* what is in every set that has d and what its members mention.            *)
Reached(o, d) ==
    {m \in Decls: \A S \in SUBSET Decls:
        d \in S /\ (\A x \in S: Mentions[x] \ (Optional \ o) \subseteq S) => m \in S}

(* The same as a table, which does not change.                              *)
Reach ==
    {[there |-> o, from |-> d, to |-> Reached(o, d)]: o \in SUBSET Optional, d \in Decls}

(* The classifier's dependency set: closed, the declaration included.       *)
Deps(text, d) ==
    LET there == {o \in Optional: text[o] # 0}
    IN  UNION {r.to: r \in {r \in Reach: r.there = there /\ r.from = d}}

(* What d is when the values of what it mentions are regs.                  *)
Content(text, d, regs) ==
    IF d \in Coarse THEN <<d>>
    ELSE <<d, text[d], [m \in Direct(text, d) |-> IF m \in Slots THEN regs[m].is ELSE text[m]]>>

Holds(text, d, regs) == [m \in (Direct(text, d) \cap Slots) \ Scalar |-> regs[m].id]

(***************************************************************************)
(* The table of kept values, part of a stack's record k.                   *)
(***************************************************************************)
NoStamp == <<0, 0>>

Stamp(p) == <<p.lowering, p.revision>>

Empty(k) ==
    [k EXCEPT !.slot = <<>>, !.prior = <<>>, !.deferred = {}, !.redo = {}]

(* What a frame shows that the gate no longer lets stand is of no account.  *)
Nothing == [seen |-> <<>>, answer |-> <<>>]

(* Mutant: clearing forgets to forget what was put off. *)
ClearSlots(k) == [k EXCEPT !.slot = <<>>, !.stamp = NoStamp]

(* StaticSlots::clear: the timings stay. *)
Clear(k) == [Empty(k) EXCEPT !.stamp = NoStamp]

(* Mutant: a table is told apart by its lowering alone. *)
SyncLowering(k, p) ==
    IF k.stamp[1] = p.lowering THEN [k EXCEPT !.stamp = Stamp(p)]
    ELSE [Empty(k) EXCEPT !.stamp = Stamp(p), !.timed = {}]

(* StaticSlots::sync, on every dispatch into the virtual machine. *)
Sync(k, p) ==
    IF k.stamp = Stamp(p) THEN k ELSE [Empty(k) EXCEPT !.stamp = Stamp(p), !.timed = {}]

(* Values a drag left stale, and the drag has paused. *)
Due(k) == k.deferred # {} /\ ~k.recent

(* Mutant: only the values that waited are built again. *)
FlushWaiting(k) ==
    LET out == k.deferred \cap DOMAIN k.slot
    IN  [k EXCEPT !.slot = Restrict(@, DOMAIN @ \ out),
                  !.prior = Over(Restrict(k.slot, out), @),
                  !.deferred = {}, !.redo = {}]

(* StaticSlots::flush_deferred: the waiting values and those built beside   *)
(* them are emptied, each remembered for the comparison.                    *)
FlushDeferred(k) ==
    LET out == (k.deferred \cup k.redo) \cap DOMAIN k.slot
    IN  [k EXCEPT !.slot = Restrict(@, DOMAIN @ \ out),
                  !.prior = Over(Restrict(k.slot, out), @),
                  !.deferred = {}, !.redo = {}]

(* Env::flush_static_rebuilds. *)
Rebuilds(k, p) ==
    [(IF k.stamp[1] = p.lowering THEN FlushDeferred(k) ELSE Clear(k)) EXCEPT !.gate = "run", !.shown = Nothing]

(* Stack::drop_derived: what a run derived goes, and the next frame runs.   *)
DropDerived(k) == [Clear(k) EXCEPT !.memo = {}, !.gate = "run", !.shown = Nothing]

(***************************************************************************)
(* A run.                                                                  *)
(***************************************************************************)
Unused(ids) == Min((1 .. Cardinality(ids) + 1) \ ids)

IdsOf(values) == {values[d].id: d \in DOMAIN values}

(* The instructions of a segment, value after value. *)
Build(m, d) ==
    LET id == IF d \in Scalar THEN 0 ELSE Unused(m.ids)
        made == [id |-> id, is |-> Content(m.text, d, m.regs), holds |-> Holds(m.text, d, m.regs)]
    IN  [m EXCEPT !.regs = Over(Only(d, made), @), !.ids = @ \cup {id}]

(* Mutant: a rebuilt value of the same contents is dropped whatever it holds. *)
SameContents(old, new, stores) == old.is = new.is

(* static_cache::replaces: nothing can tell the old value from the new one. *)
Replaces(old, new, stores) ==
    /\ old.is = new.is
    /\ \A d \in DOMAIN new.holds \ stores: old.holds[d] = new.holds[d]

(* StaticStore: a kept value stays, a rebuilt one that is what it was gives *)
(* way to the one remembered, when all of the store do.                     *)
Store(m, stores, built) ==
    LET k == m.tab
        same == \A d \in stores \ DOMAIN k.slot:
                    d \in DOMAIN k.prior /\ Replaces(k.prior[d], built[d], stores)
        now == [d \in stores |-> IF d \in DOMAIN k.slot THEN k.slot[d]
                                 ELSE IF same THEN k.prior[d] ELSE built[d]]
    IN  [m EXCEPT !.regs = Over(now, @),
                  !.tab = [k EXCEPT !.slot = Over(now, @),
                                    !.prior = Restrict(@, DOMAIN @ \ stores),
                                    !.timed = @ \cup (stores \cap Slow)]]

(* A segment is skipped when all it stores is kept; one that raises stores  *)
(* nothing.                                                                 *)
RunSegment(m, seg) ==
    LET stores == Range(seg)
    IN  CASE m.failed -> m
          [] ~m.failed /\ stores \subseteq DOMAIN m.tab.slot ->
                [m EXCEPT !.regs = Over(Restrict(m.tab.slot, stores), @)]
          [] ~m.failed /\ ~(stores \subseteq DOMAIN m.tab.slot)
             /\ \E d \in stores: <<d, m.text[d]>> \in Raises -> [m EXCEPT !.failed = TRUE]
          [] OTHER -> Store(m, stores, FoldLeft(Build, m, seg).regs)

Contents(regs) == [d \in DOMAIN regs |-> regs[d].is]

(* The scope: replayed when it is called with what it was called with.      *)
Answer(k, text, captured) ==
    IF \E r \in k.memo: r.with = captured
    THEN (CHOOSE r \in k.memo: r.with = captured).answer
    ELSE <<text[Body], captured>>

(* What a run shows: the values it saw and what the scope answered, or how  *)
(* far it came.                                                             *)
Finish(m) ==
    LET captured == [d \in Captures |-> m.regs[d].is]
        answer == Answer(m.tab, m.text, captured)
    IN  IF m.failed
        THEN [m.tab EXCEPT !.gate = "settled", !.shown = [seen |-> Contents(m.regs), answer |-> <<>>]]
        ELSE [m.tab EXCEPT !.gate = "settled",
                           !.memo = {[with |-> captured, answer |-> answer]},
                           !.shown = [seen |-> Contents(m.regs), answer |-> answer]]

Execute(k, p) ==
    Finish(FoldLeft(RunSegment,
                    [tab |-> k, text |-> p.text, regs |-> <<>>, failed |-> FALSE,
                     ids |-> IdsOf(k.slot) \cup IdsOf(k.prior) \cup {0}],
                    Segments))

(* ensure_bytecode: a lowering nobody has a table of, which is all that its  *)
(* number is for.                                                            *)
Lowered(p) ==
    IF p.lowering # 0 THEN p
    ELSE [p EXCEPT !.lowering = Unused({stack[s].stamp[1]: s \in Live} \cup {program.lowering, 0})]

(* Env::run, or a run by run_bounded, which does not ask whether rebuilds   *)
(* are due.  A host may run whatever the gate says.                         *)
Run(s) ==
    /\ ~stack[s].parked
    /\ program' = Lowered(program)
    /\ stack' = [stack EXCEPT ![s] =
                    Execute(Sync(IF Due(@) /\ ~Bounded THEN Rebuilds(@, program) ELSE @, program'),
                            program')]
    /\ UNCHANGED edits

(* Mutant: the gate does not ask for the rebuilds. *)
RunNeededLater(k) == k.gate = "run"

(* run_needed_reason *)
RunNeeded(k) == Due(k) \/ k.gate = "run"

(***************************************************************************)
(* Following an edit.  A follow is the table being made: values kept or    *)
(* put off are in slot, those to be compared in prior.                     *)
(***************************************************************************)
(* begin_static_follow and the seeds of finish_static_follow.  e says what  *)
(* the edit was: the programs before and after, the declarations changed,   *)
(* whether the diff could not say which, and whether it is a tick of a drag.*)
Seed(k, e) ==
    LET same == e.new.lowering = e.old.lowering
        held == IF k.stamp # Stamp(e.old) THEN {}
                ELSE IF same THEN DOMAIN k.slot ELSE DOMAIN k.slot \ Unnamed
        touched(text, d) == Deps(text, d) \cap e.changed # {}
        clean == {d \in held \ (k.deferred \cup k.redo):
                    /\ ~e.cleared
                    /\ ~touched(e.old.text, d)
                    /\ same \/ ~touched(e.new.text, d)
                    /\ same \/ Deps(e.old.text, d) = Deps(e.new.text, d)}
        given == IF e.cleared THEN {} ELSE (held \cap Literals) \ clean
        waits == IF e.live /\ k.recent /\ same /\ ~e.cleared
                 THEN (held \cap Slow \cap k.timed) \ (clean \cup given) ELSE {}
        literal(d) == [id |-> 0, is |-> Content(e.new.text, d, <<>>), holds |-> <<>>]
    IN  [text |-> e.new.text,
         slot |-> Over([d \in given |-> literal(d)], Restrict(k.slot, clean \cup waits)),
         prior |-> Restrict(k.slot, held \ (clean \cup given \cup waits)),
         deferred |-> waits]

(* Mutant: each value is judged by itself. *)
KeepEach(f, seg) == f

(* A value is kept only with what its segment read and what one store holds *)
(* beside it.  Segments read earlier ones, so one pass settles them all.    *)
KeepTogether(f, seg) ==
    LET stores == Range(seg)
        reads == ((UNION {Direct(f.text, d): d \in stores}) \cap Slots) \ stores
        beside == ~(stores \subseteq DOMAIN f.slot)
        from == \E r \in reads \ DOMAIN f.slot: r \in DOMAIN f.prior => r \notin Scalar
        goes == IF beside \/ (from /\ ~(stores \subseteq f.deferred))
                THEN stores \cap DOMAIN f.slot ELSE {}
    IN  [f EXCEPT !.slot = Restrict(@, DOMAIN @ \ goes),
                  !.prior = Over(Restrict(f.slot, goes), @),
                  !.deferred = @ \ goes]

(* finish_static_follow, StaticSlots::install and set_redo.                 *)
Install(k, e, f) ==
    [DropDerived(k) EXCEPT
        !.stamp = Stamp(e.new), !.slot = f.slot, !.prior = f.prior, !.deferred = f.deferred,
        !.redo = IF f.deferred = {} THEN {} ELSE Slots \ DOMAIN f.slot,
        !.timed = IF e.new.lowering = e.old.lowering THEN @ ELSE {},
        !.recent = @ \/ e.live]

(* The stack an edit names: what its program keeps of it, if it was lowered *)
(* before.                                                                  *)
Follow(k, e) ==
    IF e.old.lowering = 0 THEN DropDerived(k)
    ELSE Install(k, e, FoldLeft(KeepTogether, Seed(k, e), Segments))

(***************************************************************************)
(* The edits.                                                              *)
(***************************************************************************)
Other(v) == 1 - v

Edit(s, d) == s \in Live /\ ~stack[s].parked /\ edits < MaxEdits /\ edits' = edits + 1

(* Mutant: the other stacks of a patched program are left as they are. *)
Untold(k) == k

(* Another stack on the same program: its memo records and its gate verdict *)
(* are stale.                                                               *)
Told(k) == [k EXCEPT !.memo = {}, !.gate = "run", !.shown = Nothing]

(* A literal patched in place: apply_change, which set_config_value calls   *)
(* for a tick of a drag (live).  A lowering of another shape than expected  *)
(* is dropped and made again.                                               *)
Patch(s, d, live, retargeted) ==
    LET patched == [program EXCEPT !.text[d] = Other(@), !.revision = @ + 1,
                                   !.lowering = IF retargeted THEN @ ELSE 0]
        new == IF program.lowering = 0 THEN patched ELSE Lowered(patched)
        e == [old |-> program, new |-> new, changed |-> {d}, cleared |-> FALSE, live |-> live]
    IN  /\ Edit(s, d)
        /\ d \in Literals
        /\ program' = new
        /\ stack' = [t \in Live |-> IF t = s THEN Follow(stack[t], e) ELSE Told(stack[t])]

(* Another stack of a recompiled program is left as it is.  Where it is only *)
(* a snapshot from then on, what a run derived is never looked at again.     *)
Left(k) == IF Snapshots THEN [DropDerived(k) EXCEPT !.parked = TRUE] ELSE k

(* reload_program with an edit that is compiled again, or one whose patch   *)
(* could not be planned; cleared when the diff cannot be followed.          *)
Recompile(s, d, cleared) ==
    LET inserted == [program EXCEPT !.text[d] = Other(@), !.revision = 0, !.lowering = 0]
        new == IF program.lowering = 0 THEN inserted ELSE Lowered(inserted)
        e == [old |-> program, new |-> new, changed |-> {d}, cleared |-> cleared, live |-> FALSE]
    IN  /\ Edit(s, d)
        /\ program' = new
        /\ stack' = [t \in Live |-> IF t = s THEN Follow(stack[t], e) ELSE Left(stack[t])]

(***************************************************************************)
(* Time and the other operations of a host.                                *)
(***************************************************************************)
(* No tick of a drag for as long as the debounce asks.                      *)
Quiet ==
    /\ \E s \in Live: stack[s].recent
    /\ stack' = [s \in Live |-> [stack[s] EXCEPT !.recent = FALSE]]
    /\ UNCHANGED <<program, edits>>

FlushStaticRebuilds(s) ==
    /\ stack[s].deferred # {} /\ ~stack[s].parked
    /\ stack' = [stack EXCEPT ![s] = Rebuilds(@, program)]
    /\ UNCHANGED <<program, edits>>

NewStack(at) ==
    [at |-> at, stamp |-> NoStamp, slot |-> <<>>, prior |-> <<>>, deferred |-> {}, redo |-> {},
     recent |-> FALSE, timed |-> {}, gate |-> "run", memo |-> {},
     shown |-> Nothing, parked |-> FALSE]

(* create_stack: on the default context, which is Main's. *)
CreateStack(s) ==
    /\ s \notin Live
    /\ stack' = Over(Only(s, NewStack(Main)), stack)
    /\ UNCHANGED <<program, edits>>

(* fork_execution: the clone has a context of its own. *)
ForkExecution(src, s) ==
    /\ s \notin Live
    /\ stack' = Over(Only(s, [stack[src] EXCEPT !.at = s]), stack)
    /\ UNCHANGED <<program, edits>>

DropStack(s) ==
    /\ s # Main
    /\ stack' = Restrict(stack, Live \ {s})
    /\ UNCHANGED <<program, edits>>

(* restore_execution: dst takes what src has and drops what a run derived;  *)
(* so do the stacks that share its context.  What is drawn stays drawn.     *)
RestoreExecution(dst, src) ==
    /\ dst # src
    /\ stack' = [t \in Live |->
                    CASE t = dst -> [DropDerived(stack[src]) EXCEPT
                                        !.at = stack[dst].at, !.parked = FALSE]
                      [] t # dst /\ stack[t].at = stack[dst].at -> DropDerived(stack[t])
                      [] OTHER -> stack[t]]
    /\ UNCHANGED <<program, edits>>

Init ==
    /\ program = [text |-> [d \in Decls |-> 0], lowering |-> 0, revision |-> 0]
    /\ stack = Only(Main, NewStack(Main))
    /\ edits = 0

Next ==
    \/ \E s \in Live: Run(s)
    \/ \E s \in Live, d \in Edited, live, retargeted \in BOOLEAN: Patch(s, d, live, retargeted)
    \/ \E s \in Live, d \in Edited, cleared \in BOOLEAN: Recompile(s, d, cleared)
    \/ Quiet
    \/ \E s \in Live: FlushStaticRebuilds(s)
    \/ \E s \in Stacks: CreateStack(s)
    \/ \E src \in Live, s \in Stacks: ForkExecution(src, s)
    \/ \E s \in Live: DropStack(s)
    \/ \E dst, src \in Live: RestoreExecution(dst, src)

Spec == Init /\ [][Next]_vars

(* A host draws a frame when the gate asks for one, as long as it is open,  *)
(* and the clock goes on.  The first is weak fairness of Run(Main), written *)
(* out: Asked is when such a frame can change anything.                     *)
Asked ==
    /\ RunNeeded(stack[Main]) /\ ~stack[Main].parked
    /\ Bounded => stack[Main].gate = "run"

Fairness ==
    /\ []<>~Asked \/ []<><<Run(Main)>>_vars
    /\ WF_vars(Quiet)

FairSpec == Spec /\ Fairness

(***************************************************************************)
(* Properties.                                                             *)
(***************************************************************************)
TypeOK ==
    /\ program.text \in [Decls -> {0, 1}]
    /\ program.lowering \in 0 .. Cardinality(Stacks) + 2
    /\ Main \in Live /\ Live \subseteq Stacks
    /\ edits \in 0 .. MaxEdits
    /\ \A s \in Live:
          LET k == stack[s]
          IN  /\ DOMAIN k.slot \subseteq Slots /\ DOMAIN k.prior \subseteq Slots
              /\ DOMAIN k.slot \cap DOMAIN k.prior = {}
              /\ k.deferred \subseteq DOMAIN k.slot /\ k.redo \subseteq Slots \ k.deferred
              /\ k.timed \subseteq Slots
              /\ k.gate \in {"run", "settled"} /\ k.at \in Stacks

(* What a run of the present text shows on a stack that keeps nothing but   *)
(* the values a drag has put off.                                           *)
Present(s) ==
    LET k == stack[s]
        waiting == IF k.stamp = Stamp(program) THEN Restrict(k.slot, k.deferred) ELSE <<>>
    IN  Execute([NewStack(Main) EXCEPT !.slot = waiting], program).shown

(* A frame is skipped only when what is shown is what a run would show: an  *)
(* edit, made through whatever stack, reaches the gate of each stack whose  *)
(* picture it changes, and no run is given a value, or an answer of the     *)
(* scope, that was made from a text that is gone.  It covers each run too,  *)
(* which leaves the gate settled.                                           *)
SkipShowsPresent ==
    \A s \in Live: ~stack[s].parked /\ ~RunNeeded(stack[s]) => stack[s].shown = Present(s)

(* A kept value holds the very objects kept beside it, as after a run that  *)
(* builds everything, unless it is one a drag has put off.                  *)
SharingExact ==
    \A s \in Live:
        LET k == stack[s]
        IN  k.stamp = Stamp(program) =>
              \A d \in DOMAIN k.slot \ k.deferred:
                \A r \in DOMAIN k.slot[d].holds \cap DOMAIN k.slot:
                    k.slot[d].holds[r] = k.slot[r].id

(* What a drag put off is built at last: by the frame that the pause asks   *)
(* for, or by whatever comes before it.                                     *)
RebuildComes ==
    (stack[Main].deferred # {}) ~> (stack[Main].deferred = {} \/ stack[Main].parked)
=============================================================================
