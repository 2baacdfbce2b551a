-------------------------------- MODULE Memo --------------------------------
(***************************************************************************)
(* Memoized scopes (src/core/src/memo.rs and backend/bytecode/vm/memo.rs): *)
(* a call of a user function whose inputs are what they were is replayed   *)
(* instead of run.  A scope's record is the list, in order, of what it     *)
(* depended on and did; it is validated against the present entry by       *)
(* entry, a child that fails is run alone to see whether it still does     *)
(* what it did, and a valid record is replayed.                            *)
(*                                                                         *)
(* A program is a table of function bodies in a language small enough to   *)
(* enumerate: one register, and one instruction for each way a body        *)
(* depends on something or does something.  Exec is the virtual machine,   *)
(* with memoization on or off; a frame is one run of "main", and what a    *)
(* frame with memoization did is kept next to what the same frame does     *)
(* without it.                                                             *)
(*                                                                         *)
(* The module is for TLC: its operators recur over programs and records.   *)
(***************************************************************************)
EXTENDS Integers, Sequences, FiniteSets, SequencesExt, FiniteSetsExt, Functions

CONSTANTS
    Programs,   \* the programs a stack may hold: records from function names to bodies
    Probed,     \* the values the host binding may have
    World,      \* the values of the host's revisioned class of data
    Rooms,      \* how many records the table may hold: MAX_SLOTS and MAX_TABLE_BYTES
    MaxCold,    \* bound: functions whose sites have stopped recording in a frame
    MaxFrames,  \* bound: frames of one behaviour
    MaxHost     \* bound: host operations between two frames

VARIABLES
    prog,   \* the program the stack holds
    host,   \* what natives answer: the binding, the class of data and its revision
    st,     \* the state slots: RuntimeStateKey -> value
    tab,    \* the memo table: ScopePath -> MemoSlot
    serial, \* the last record serial given out
    last,   \* what the last frame did, and what it would have done without memoization
    frames, \* frames run
    steps   \* host operations since the last frame

vars == <<prog, host, st, tab, serial, last, frames, steps>>

(* The register of a slot that holds nothing, and the modulus of "inc". *)
Nil == -1

Radix == 3

(* The slot a body's name stands for.  A "local" slot is keyed by the call  *)
(* path of the frame that declares it; a "top" slot by the path of the      *)
(* root, whoever reads it; a "keyed" slot by its explicit key alone.        *)
KeyOf(slot, path) == [base |-> slot, path |-> IF slot = "local" THEN path ELSE <<>>]

(***************************************************************************)
(* The machine of one run.                                                 *)
(***************************************************************************)
(* begin_run and start_run_tracking: nothing open, touched or visited.      *)
Machine(memo, cold, room) ==
    [memo |-> memo, cold |-> cold, room |-> room, st |-> st, tab |-> tab, serial |-> serial,
     out |-> <<>>, cmds |-> <<>>, touched |-> {}, journal |-> <<>>, open |-> <<>>,
     visited |-> {}, poisoned |-> FALSE, reexecuting |-> 0,
     failed |-> FALSE, ok |-> FALSE, acc |-> 0, ran |-> {}, unrecorded |-> {}]

Recording(m) == m.open # <<>> /\ ~m.poisoned

Note(m, dep) ==
    IF Recording(m) /\ ~Last(m.open).effectful
    THEN [m EXCEPT !.open[Len(m.open)].deps = Append(@, dep)]
    ELSE m

NoteEffect(m) ==
    IF Recording(m) THEN [m EXCEPT !.open[Len(m.open)].effectful = TRUE] ELSE m

(* touch_state: the journal runs while a capture is open, and leaves out a  *)
(* key touched twice running.                                               *)
Touch(m, key) ==
    [m EXCEPT !.touched = @ \cup {key},
              !.journal = IF m.open # <<>> /\ (@ = <<>> \/ Last(@) # key)
                          THEN Append(@, key) ELSE @]

(* Mutant: a replayed scope's slots are left for the sweep. *)
RetainNothing(m, keys) == m

RetainTouches(m, keys) == FoldLeft(Touch, m, keys)

(* The distinct keys of the journal since the scope on top opened, in order *)
(* of first touch: end_touch_capture.                                       *)
Touches(m) ==
    FoldLeft(LAMBDA kept, key: IF Contains(kept, key) THEN kept ELSE Append(kept, key),
             <<>>, SubSeq(m.journal, Last(m.open).touchStart + 1, Len(m.journal)))

(* The scope on top is taken off; when it was the outermost, its capture    *)
(* clears the journal as it ends.                                           *)
PopOpen(m) ==
    [m EXCEPT !.open = Front(@), !.journal = IF Len(m.open) = 1 THEN <<>> ELSE @]

HasRoom(m) == Cardinality(DOMAIN m.tab) < m.room

(***************************************************************************)
(* Opening and closing a scope.  `previous` holds the record a             *)
(* re-execution compares with, or nothing.                                 *)
(***************************************************************************)
MemoOpen(m, f, path, arg, previous) ==
    [m EXCEPT !.open = Append(@,
        [path |-> path, fn |-> f, arg |-> arg, deps |-> <<>>, outStart |-> Len(m.out),
         touchStart |-> Len(m.journal), effectful |-> FALSE, previous |-> previous])]

(* What a record says its scope did, in order, besides the reads. *)
Effects(deps) == SelectSeq(deps, LAMBDA d: d.on \in {"write", "child", "command"})

(* Mutant: a re-execution is compared by its result alone. *)
SameResult(prev, now) == prev.result = now.result /\ prev.touches = now.touches

SameEffects(prev, now) ==
    /\ prev.result = now.result
    /\ prev.touches = now.touches
    /\ prev.out = now.out
    /\ Effects(prev.deps) = Effects(now.deps)

(* The subtree wrote nothing and issued nothing. *)
Pure(m, deps) ==
    \A i \in DOMAIN deps:
        /\ deps[i].on \notin {"write", "command"}
        /\ deps[i].on = "child" => deps[i].path \in DOMAIN m.tab /\ m.tab[deps[i].path].pure

(* The scope did what a replay could not reproduce: so did its parent. *)
GiveUp(m, sc) ==
    LET p == [PopOpen(m) EXCEPT !.unrecorded = @ \cup {sc.path}]
    IN  IF sc.previous # <<>> THEN [p EXCEPT !.ok = FALSE]
        ELSE IF p.open = <<>> THEN p
        ELSE [p EXCEPT !.open[Len(p.open)].effectful = TRUE]

(* Too small to record, or no room: the parent's record covers the call. *)
FoldIntoParent(m, sc) ==
    LET p == [PopOpen(m) EXCEPT !.unrecorded = @ \cup {sc.path}]
    IN  IF p.open = <<>> \/ Last(p.open).effectful THEN p
        ELSE [p EXCEPT !.open[Len(p.open)].deps = @ \o sc.deps]

(* The record is stored; a re-execution reports whether it did what it did  *)
(* before, and any other scope names the record to its parent.              *)
Store(m, sc, slot) ==
    LET told == IF sc.previous # <<>>
                THEN [m EXCEPT !.ok = SameEffects(sc.previous[1], slot)]
                ELSE Note(m, [on |-> "child", path |-> sc.path, serial |-> slot.serial])
    IN  [told EXCEPT !.serial = slot.serial, !.visited = @ \cup {sc.path},
                     !.tab = (sc.path :> slot) @@ @]

Record(m, sc, out) ==
    Store(PopOpen(m), sc,
          [serial |-> m.serial + 1, fn |-> sc.fn, arg |-> sc.arg, result |-> m.acc,
           deps |-> sc.deps, out |-> out, touches |-> Touches(m), pure |-> Pure(m, sc.deps)])

MemoClose(m) ==
    LET sc == Last(m.open)
        out == SubSeq(m.out, sc.outStart + 1, Len(m.out))
        detached == sc.previous # <<>>
        worth == detached \/ sc.deps # <<>> \/ (out # <<>> /\ Len(m.open) = 1)
    IN  CASE sc.effectful \/ m.poisoned -> GiveUp(m, sc)
          [] ~(sc.effectful \/ m.poisoned) /\ (~worth \/ ~(detached \/ HasRoom(m))) ->
                FoldIntoParent(m, sc)
          [] OTHER -> Record(m, sc, out)

(***************************************************************************)
(* Validation, re-execution and replay.                                    *)
(***************************************************************************)
RECURSIVE Exec(_, _, _, _), Validate(_, _, _, _), Replay(_, _, _)

(* Mutant: a read after a write of the same record is compared with the live slot. *)
HoldsLive(m, d, overlay) ==
    CASE d.on = "probe" -> host.probe = d.value
      [] d.on = "class" -> host.revision = d.revision
      [] d.on = "read" -> d.value = IF d.key \in DOMAIN m.st THEN m.st[d.key] ELSE Nil
      [] OTHER -> TRUE

(* An entry that is not a child, against the present; the record's own      *)
(* writes so far overlay the slots.                                         *)
Holds(m, d, overlay) ==
    CASE d.on = "probe" -> host.probe = d.value
      [] d.on = "class" -> host.revision = d.revision
      [] d.on = "read" ->
            d.value = IF d.key \in DOMAIN overlay THEN overlay[d.key]
                      ELSE IF d.key \in DOMAIN m.st THEN m.st[d.key] ELSE Nil
      [] OTHER -> TRUE

(* A run that fails stops all memoization for the rest of the frame.        *)
Compared(ran, before) ==
    IF ran.failed
    THEN [ran EXCEPT !.failed = FALSE, !.poisoned = TRUE, !.ok = FALSE, !.open = before.open,
                     !.journal = IF before.open = <<>> THEN <<>> ELSE @,
                     !.reexecuting = before.reexecuting, !.out = before.out]
    ELSE [MemoClose(ran) EXCEPT !.reexecuting = before.reexecuting, !.out = before.out]

(* Run the scope recorded at path alone, on the live values.  Its record is *)
(* replaced and what it emits is dropped; ok says it did what it did.       *)
MemoReexecute(m, path) ==
    LET slot == m.tab[path]
        begun == MemoOpen([m EXCEPT !.tab = Restrict(@, DOMAIN @ \ {path}),
                                    !.reexecuting = @ + 1, !.acc = slot.arg],
                          slot.fn, path, slot.arg, <<slot>>)
    IN  Compared(Exec(begun, slot.fn, path, 1), m)

(* A record that is not valid is run when it wrote nothing.                 *)
OrReexecuted(v, path) ==
    CASE v.ok -> [v EXCEPT !.visited = @ \cup {path}]
      [] ~v.ok /\ ~v.tab[path].pure -> v
      [] OTHER -> MemoReexecute(v, path)

(* A parent names the child's record by serial: it must be that one, and    *)
(* valid or come out the same from a run of its own.                        *)
VerifyChild(m, path, named) ==
    IF path \notin DOMAIN m.tab \/ m.tab[path].serial # named
    THEN [m EXCEPT !.ok = FALSE]
    ELSE OrReexecuted(Validate(m, path, 1, <<>>), path)

(* The child at the i-th entry has been verified: its record may be new.    *)
ValidateAfter(m, path, i, overlay) ==
    IF ~m.ok THEN m
    ELSE Validate([m EXCEPT !.tab[path].deps[i].serial = m.tab[m.tab[path].deps[i].path].serial],
                  path, i + 1, overlay)

(* Walk the entries of the record at path from the i-th on. *)
Validate(m, path, i, overlay) ==
    LET deps == m.tab[path].deps
        d == deps[i]
    IN  CASE i > Len(deps) -> [m EXCEPT !.ok = TRUE]
          [] i <= Len(deps) /\ d.on = "child" ->
                ValidateAfter(VerifyChild(m, d.path, d.serial), path, i, overlay)
          [] i <= Len(deps) /\ d.on # "child" /\ Holds(m, d, overlay) ->
                Validate(m, path, i + 1,
                         IF d.on = "write" THEN (d.key :> d.value) @@ overlay ELSE overlay)
          [] OTHER -> [m EXCEPT !.ok = FALSE]

(* What the entries of a record did, done again in order. *)
ReplayDep(m, d) ==
    CASE d.on = "write" -> [Touch(m, d.key) EXCEPT !.st = (d.key :> d.value) @@ @]
      [] d.on = "child" -> IF d.path \in DOMAIN m.tab THEN Replay(m, d.path, FALSE) ELSE m
      [] d.on = "command" /\ m.reexecuting = 0 -> [m EXCEPT !.cmds = Append(@, d.value)]
      [] OTHER -> m

Replay(m, path, withOutput) ==
    LET slot == m.tab[path]
        spliced == [m EXCEPT !.visited = @ \cup {path},
                             !.out = IF withOutput THEN @ \o slot.out ELSE @]
        applied == RetainTouches(FoldLeft(ReplayDep, spliced, slot.deps), slot.touches)
    IN  [Note(applied, [on |-> "child", path |-> path, serial |-> slot.serial])
            EXCEPT !.acc = slot.result]

(***************************************************************************)
(* The machine runs.                                                       *)
(***************************************************************************)
LeaveScope(m) == IF m.failed THEN m ELSE MemoClose(m)

(* The call runs, in a scope or folded into its caller's.                   *)
Enter(m, f, path, arg, scope) ==
    LET entered == [m EXCEPT !.ran = @ \cup {path}, !.acc = arg,
                             !.unrecorded = IF scope THEN @ ELSE @ \cup {path}]
    IN  IF scope THEN LeaveScope(Exec(MemoOpen(entered, f, path, arg, <<>>), f, path, 1))
        ELSE Exec(entered, f, path, 1)

ReplayOrEnter(tried, f, path, arg, scope) ==
    IF tried.ok THEN Replay(tried, path, TRUE) ELSE Enter(tried, f, path, arg, scope)

(* A call: replayed when its record is still good, else run, in a scope     *)
(* unless the site has stopped recording or the table is full.              *)
Call(m, f, path, arg) ==
    LET scope == /\ m.memo /\ ~m.poisoned /\ f \notin m.cold
                 /\ HasRoom(m) \/ path \in DOMAIN m.tab
        known == scope /\ path \in DOMAIN m.tab /\ m.tab[path].fn = f /\ m.tab[path].arg = arg
    IN  ReplayOrEnter(IF known THEN Validate(m, path, 1, <<>>) ELSE [m EXCEPT !.ok = FALSE],
                      f, path, arg, scope)

(* StateInit and the StateWrite that commits its value, 0, on a miss. *)
StateInit(m, key) ==
    LET held == IF key \in DOMAIN m.st THEN m.st[key] ELSE 0
    IN  [Note(Touch(m, key), [on |-> "read", key |-> key, value |-> held])
            EXCEPT !.st = (key :> held) @@ @, !.acc = held]

StateRead(m, key) ==
    LET held == IF key \in DOMAIN m.st THEN m.st[key] ELSE Nil
    IN  [Note(Touch(m, key), [on |-> "read", key |-> key, value |-> held]) EXCEPT !.acc = held]

StateWrite(m, key) ==
    [Note(Touch(m, key), [on |-> "write", key |-> key, value |-> m.acc])
        EXCEPT !.st = (key :> m.acc) @@ @]

(* Mutant: a scope run to be compared issues its commands. *)
CommandAtOnce(m) ==
    [Note(m, [on |-> "command", value |-> m.acc]) EXCEPT !.cmds = Append(@, m.acc)]

(* A command native: inside a re-execution it is noted and not issued. *)
Command(m) ==
    LET noted == Note(m, [on |-> "command", value |-> m.acc])
    IN  IF m.reexecuting > 0 /\ Recording(m) THEN noted
        ELSE [noted EXCEPT !.cmds = Append(@, m.acc)]

(* One instruction of a frame of f at path. *)
Step(m, f, path, pc) ==
    LET i == prog[f][pc]
        x == i[2]
    IN  CASE i[1] = "load" -> [m EXCEPT !.acc = x]
          [] i[1] = "inc" -> [m EXCEPT !.acc = (@ + 1) % Radix]
          [] i[1] = "probe" ->
                [Note(m, [on |-> "probe", value |-> host.probe]) EXCEPT !.acc = host.probe]
          [] i[1] = "query" ->
                [Note(m, [on |-> "class", revision |-> host.revision]) EXCEPT !.acc = host.world]
          [] i[1] = "state" -> StateInit(m, KeyOf(x, path))
          [] i[1] = "get" -> StateRead(m, KeyOf(x, path))
          [] i[1] = "set" -> StateWrite(m, KeyOf(x, path))
          [] i[1] = "emit" -> [m EXCEPT !.out = Append(@, m.acc)]
          [] i[1] = "command" -> Command(m)
          [] i[1] = "print" -> NoteEffect(m)
          [] i[1] = "fail" -> [m EXCEPT !.failed = m.acc = 1]
          [] i[1] = "call" -> Call(m, x, Append(path, pc), m.acc)
          [] OTHER -> m

(* The body of f from pc on; "unless" jumps over its count when acc is 1.   *)
Exec(m, f, path, pc) ==
    LET skipped == IF prog[f][pc][1] = "unless" /\ m.acc = 1 THEN prog[f][pc][2] ELSE 0
    IN  IF m.failed \/ pc > Len(prog[f]) THEN m
        ELSE Exec(Step(m, f, path, pc), f, path, pc + 1 + skipped)

(* A run that completes sweeps the slots it did not touch and the records   *)
(* it did not visit.                                                        *)
Swept(m) ==
    IF m.failed THEN m
    ELSE [m EXCEPT !.st = Restrict(@, DOMAIN @ \cap m.touched),
                   !.tab = Restrict(@, DOMAIN @ \cap m.visited)]

Run(memo, cold, room) == Swept(Exec(Machine(memo, cold, room), "main", <<>>, 1))

(***************************************************************************)
(* The frames of a stack and what its host does between them.              *)
(***************************************************************************)
(* What a run left its host, and the slots it left. *)
Outcome(m) == [out |-> m.out, cmds |-> m.cmds, failed |-> m.failed, st |-> m.st]

NoFrame == [did |-> Outcome(Machine(FALSE, {}, 0)), without |-> Outcome(Machine(FALSE, {}, 0)),
            from |-> <<>>, open |-> FALSE, idle |-> FALSE, ran |-> {}, unrecorded |-> {}]

Init ==
    /\ prog \in Programs
    /\ host = [probe |-> Min(Probed), world |-> Min(World), revision |-> 0]
    /\ st = <<>>
    /\ tab = <<>>
    /\ serial = 0
    /\ last = NoFrame
    /\ frames = 0
    /\ steps = 0

(* A frame.  Which functions' sites have stopped recording (cold, tiny or   *)
(* too deep) and how much the table takes are left open.  The frame is idle *)
(* when the one before it completed from the same inputs and slots, and in  *)
(* both every site recorded and there was room.                             *)
Frame(cold, room) ==
    /\ frames < MaxFrames
    /\ \E m \in {Run(TRUE, cold, room)}, without \in {Run(FALSE, {}, 0)}:
          LET open == cold = {} /\ room = Max(Rooms) /\ ~m.failed
          IN  /\ st' = m.st
              /\ tab' = m.tab
              /\ serial' = m.serial
              /\ last' = [did |-> Outcome(m), without |-> Outcome(without),
                          from |-> <<host, st>>, open |-> open,
                          idle |-> open /\ last.open /\ last.from = <<host, st>>,
                          ran |-> m.ran, unrecorded |-> m.unrecorded]
    /\ frames' = frames + 1
    /\ steps' = 0
    /\ UNCHANGED <<prog, host>>

(* Between two frames; the bounds of the run. *)
HostStep ==
    /\ steps < MaxHost
    /\ frames \in 1 .. MaxFrames - 1
    /\ steps' = steps + 1
    /\ UNCHANGED <<prog, tab, serial, last, frames>>

(* The host binds another value. *)
Bind(v) ==
    /\ HostStep
    /\ v # host.probe
    /\ host' = [host EXCEPT !.probe = v]
    /\ UNCHANGED st

(* note_class_changed: the class's data is, or may be, another.             *)
ClassChanged(v) ==
    /\ HostStep
    /\ host' = [host EXCEPT !.world = v, !.revision = @ + 1]
    /\ UNCHANGED st

(* The host sets a slot of the root that exists. *)
SetState(key, v) ==
    /\ HostStep
    /\ key.base = "top"
    /\ v # st[key]
    /\ st' = [st EXCEPT ![key] = v]
    /\ UNCHANGED host

Next ==
    \/ \E cold \in SUBSET (DOMAIN prog \ {"main"}), room \in Rooms:
          Cardinality(cold) <= MaxCold /\ Frame(cold, room)
    \/ \E v \in Probed: Bind(v)
    \/ \E v \in World: ClassChanged(v)
    \/ \E key \in DOMAIN st, v \in World: SetState(key, v)

Spec == Init /\ [][Next]_vars

(***************************************************************************)
(* Properties.  "The decision is exact" (docs/dev/memo-scopes.md): a frame *)
(* that replays is told from one that runs by nothing it leaves behind.    *)
(***************************************************************************)
(* A frame emits what it would have emitted had every call run, in the same *)
(* order, and fails exactly when that frame fails: no stale record is       *)
(* replayed, no output of a scope run only to be compared stays, and        *)
(* nothing is emitted twice or dropped.                                     *)
OutputExact == last.did.out = last.without.out /\ last.did.failed = last.without.failed

(* A frame leaves the slots it would have left had every call run: replayed *)
(* writes land once and in order, and the sweep keeps the slots of scopes   *)
(* that were replayed and drops those of scopes that were not reached.      *)
StateExact == last.did.st = last.without.st

(* A frame issues the commands it would have issued had every call run:     *)
(* once each, in order, whether the scope that issued one ran, was replayed *)
(* by itself or under its parents, or was first run to be compared.         *)
CommandsExact == last.did.cmds = last.without.cmds

(* A frame run again from the same inputs and the same slots replays every  *)
(* call whose scope can be recorded: it validates what it left itself, and  *)
(* the sweep kept the records a replay of their parents reached.            *)
IdleFrameReplays == last.idle => last.ran \subseteq last.unrecorded
=============================================================================
