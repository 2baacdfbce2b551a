-------------------------- MODULE FrameGateProofs --------------------------
(***************************************************************************)
(* Proofs about FrameGate, for every set of bindings, values, slots and    *)
(* classes and every bound.                                                *)
(***************************************************************************)
EXTENDS FrameGate, TLAPS

LEMMA InitType == Init => TypeOK
<1> SUFFICES ASSUME Init PROVE TypeOK
  OBVIOUS
<1>1. ctx \in Ctx
  BY DEF Init, Ctx, Counters, Contents
<1>2. deps \in Deps
  BY DEF Init, Deps, Counters, Contents, Fingerprints
<1>3. kept \in [Bindings -> [content : Contents, rev : Nat]]
  BY DEF Init, Contents
<1> QED
  BY <1>1, <1>2, <1>3 DEF Init, TypeOK, Contents

LEMMA CtxRebind ==
  ASSUME NEW c \in Ctx, NEW b \in Bindings, NEW v \in Contents, NEW n \in Nat
  PROVE  [c EXCEPT !.bound[b] = v, !.rev[b] = n] \in Ctx
BY DEF Ctx, Counters

LEMMA CtxCounters ==
  ASSUME NEW c \in Ctx, NEW m \in Nat, NEW n \in Nat
  PROVE  /\ [c EXCEPT !.rng = m] \in Ctx
         /\ [c EXCEPT !.resRevision = m] \in Ctx
         /\ [c EXCEPT !.resRevision = m, !.resolved = n] \in Ctx
BY DEF Ctx, Counters

LEMMA ForceType == ASSUME NEW d \in Deps PROVE ForceRun(d) \in Deps
BY DEF Deps, ForceRun

LEMMA DepsNow ==
  ASSUME NEW d \in Deps, NEW s \in Sources, NEW C \in SUBSET Classes
  PROVE  /\ [d EXCEPT !.now[s] = @ + 1] \in Deps
         /\ [d EXCEPT !.now[s] = @ + 1, !.changedInRun = C] \in Deps
<1> DEFINE n == [d.now EXCEPT ![s] = d.now[s] + 1]
<1>1. n \in [Sources -> Nat]
  BY DEF Deps, Counters
<1>2. [d EXCEPT !.now[s] = @ + 1] = [d EXCEPT !.now = n]
  BY DEF Deps
<1>3. [d EXCEPT !.now[s] = @ + 1, !.changedInRun = C] = [d EXCEPT !.now = n, !.changedInRun = C]
  BY DEF Deps
<1> HIDE DEF n
<1> QED
  BY <1>1, <1>2, <1>3 DEF Deps, Counters

LEMMA FreshType == ASSUME NEW d \in Deps, ctx \in Ctx PROVE FreshRecord(d) \in Deps
BY DEF Deps, FreshRecord, Ctx

LEMMA Noted ==
  ASSUME moved \subseteq Inputs, NEW i \in Inputs, NEW read, NoteMoved(i, read)
  PROVE  moved' \subseteq Inputs
BY DEF NoteMoved

LEMMA RebindType ==
  ASSUME TypeOK, NEW b \in Bindings, NEW v \in Contents, Rebind(b, v)
  PROVE  TypeOK'
<1>1. serial + 1 \in Nat /\ ctx \in Ctx
  BY DEF TypeOK
<1>2. ctx' = [ctx EXCEPT !.bound[b] = v, !.rev[b] = serial + 1]
  BY DEF Rebind
<1>3. ctx' \in Ctx
  BY <1>1, <1>2, CtxRebind
<1>4. moved' \subseteq Inputs /\ quiet' \in BOOLEAN
  BY Noted DEF TypeOK, Rebind, Inputs
<1> QED
  BY <1>1, <1>3, <1>4 DEF TypeOK, Rebind, run, saw

LEMMA SettleType == ASSUME TypeOK, SettleResource PROVE TypeOK'
<1>1. ctx.resRevision + 1 \in Nat /\ ctx.resolved + 1 \in Nat
  BY DEF TypeOK, Ctx, Counters
<1>2. ctx' \in Ctx
  BY <1>1, CtxCounters DEF TypeOK, SettleResource
<1>3. moved' \subseteq Inputs /\ quiet' \in BOOLEAN
  BY Noted DEF TypeOK, SettleResource, Inputs
<1> QED
  BY <1>2, <1>3 DEF TypeOK, SettleResource, run, saw

LEMMA FinishType == ASSUME TypeOK, FinishRun, state' \in [Slots -> Contents] PROVE TypeOK'
<1>1. \A b \in Bindings : FinishedFP(b) \in Fingerprints
  BY DEF TypeOK, FinishedFP, FP, Deps, Ctx, Fingerprints
<1>2. deps' \in Deps
  <2> DEFINE fps == [b \in Bindings |-> IF b \in deps.readList THEN FinishedFP(b) ELSE Absent]
             revs == [b \in Bindings |-> IF b \in deps.readList THEN ctx.rev[b] ELSE 0]
             uns == deps.unsettled \/ CellChanged
             drew == ctx.rng # deps.rngAtStart
  <2>1. fps \in [Bindings -> Fingerprints]
    BY <1>1 DEF Fingerprints, Contents
  <2>2. revs \in [Bindings -> Counters]
    BY DEF TypeOK, Ctx, Counters
  <2>3. uns \in BOOLEAN /\ drew \in BOOLEAN
    BY DEF TypeOK, Deps
  <2>4. deps' = [deps EXCEPT !.unsettled = uns, !.reads = deps.readList,
                   !.fp = fps, !.rev = revs, !.rngConsumed = drew,
                   !.resRevision = ctx.resRevision, !.recorded = deps.now,
                   !.valid = TRUE]
    BY DEF FinishRun, Validated, TypeOK, Deps
  <2> HIDE DEF fps, revs, uns, drew
  <2> QED
    BY <2>1, <2>2, <2>3, <2>4 DEF TypeOK, Deps, Ctx, Counters
<1>3. quiet' \in BOOLEAN
  BY DEF FinishRun, TypeOK
<1> QED
  BY <1>2, <1>3 DEF TypeOK, FinishRun, saw, context

\* Every variable keeps its type.
THEOREM TypeCorrect == Spec => []TypeOK
<1>1. TypeOK /\ [Next]_vars => TypeOK'
  <2> SUFFICES ASSUME TypeOK, [Next]_vars PROVE TypeOK'
    OBVIOUS
  <2>1. ASSUME NEW b \in Bindings, NEW v \in Values, SetBinding(b, v)
        PROVE  TypeOK'
    BY <2>1, RebindType DEF SetBinding, Contents
  <2>2. ASSUME NEW b \in Bindings, ClearBinding(b)
        PROVE  TypeOK'
    BY <2>2, RebindType DEF ClearBinding, Contents
  <2>3. ASSUME NEW s \in Sources, HostSourceChanges(s)
        PROVE  TypeOK'
    <3>1. deps' = [deps EXCEPT !.now[s] = @ + 1] /\ deps \in Deps
      BY <2>3 DEF TypeOK, HostSourceChanges
    <3>2. deps' \in Deps
      BY <3>1, DepsNow
    <3>3. world' \in [Sources -> Nat]
      BY <2>3 DEF TypeOK, HostSourceChanges
    <3>4. moved' \subseteq Inputs /\ quiet' \in BOOLEAN
      BY <2>3, Noted DEF TypeOK, HostSourceChanges, Inputs
    <3> QED
      BY <2>3, <3>2, <3>3, <3>4 DEF TypeOK, HostSourceChanges, run, saw
  <2>4. ASSUME HostResolves
        PROVE  TypeOK'
    BY <2>4, SettleType DEF HostResolves
  <2>5. ASSUME NEW seed \in 0 .. MaxClock, SetSeed(seed)
        PROVE  TypeOK'
    <3>1. seed \in Nat
      OBVIOUS
    <3>2. ctx' \in Ctx /\ deps' \in Deps
      BY <2>5, <3>1, CtxCounters, ForceType DEF TypeOK, SetSeed, Forced
    <3>3. fork' = NoFork \/ fork' \in [ctx : Ctx, state : [Slots -> Contents], deps : Deps]
      <4>1. CASE fork = NoFork
        BY <2>5, <4>1 DEF SetSeed
      <4>2. CASE fork # NoFork
        <5>1. fork.ctx \in Ctx /\ fork.deps \in Deps
          BY <4>2 DEF TypeOK
        <5>2. [fork.ctx EXCEPT !.rng = seed] \in Ctx /\ ForceRun(fork.deps) \in Deps
          BY <3>1, <5>1, CtxCounters, ForceType
        <5>3. fork' = [fork EXCEPT !.ctx = [fork.ctx EXCEPT !.rng = seed],
                                   !.deps = ForceRun(fork.deps)]
          BY <2>5, <4>2 DEF SetSeed, TypeOK
        <5> QED
          BY <4>2, <5>2, <5>3 DEF TypeOK
      <4> QED
        BY <4>1, <4>2
    <3> QED
      BY <2>5, <3>2, <3>3 DEF TypeOK, SetSeed, Forced, run, saw
  <2>6. ASSUME NEW k \in Slots, NEW v \in Values, NEW draws \in {0, 1},
               NEW reads \in {{}, Bindings}, CallFunction(k, v, draws, reads)
        PROVE  TypeOK'
    <3>1. ctx.rng + draws \in Nat
      BY DEF TypeOK, Ctx, Counters
    <3>2. ctx' = [ctx EXCEPT !.rng = ctx.rng + draws]
      BY <2>6 DEF CallFunction, TypeOK, Ctx
    <3>3. ctx' \in Ctx
      BY <3>1, <3>2, CtxCounters DEF TypeOK
    <3>4. deps' \in Deps
      BY <2>6 DEF TypeOK, CallFunction, ForceRun, Deps
    <3> QED
      BY <2>6, <3>3, <3>4 DEF TypeOK, CallFunction, saw, Contents
  <2>7. ASSUME NEW k \in Slots, NEW v \in Values, SetState(k, v)
        PROVE  TypeOK'
    BY <2>7, ForceType DEF TypeOK, SetState, Forced, context, saw, Contents
  <2>8. ASSUME NEW snapshot \in [Slots -> Contents], RestoreState(snapshot)
        PROVE  TypeOK'
    BY <2>8, ForceType DEF TypeOK, RestoreState, Forced, context, saw
  <2>9. ASSUME InvalidateRun
        PROVE  TypeOK'
    BY <2>9, ForceType DEF TypeOK, InvalidateRun, Forced, context, run, saw
  <2>10. ASSUME NEW declared \in SUBSET Slots, TransferState(declared)
         PROVE  TypeOK'
    BY <2>10, ForceType DEF TypeOK, TransferState, Forced, context, saw, Contents
  <2>11. ASSUME ForkExecution
         PROVE  TypeOK'
    BY <2>11 DEF TypeOK, ForkExecution, context, run, saw
  <2>12. ASSUME NEW declared \in SUBSET Slots, RestoreExecution(declared)
         PROVE  TypeOK'
    BY <2>12, ForceType DEF TypeOK, RestoreExecution, Contents, saw
  <2>13. ASSUME ResetStack
         PROVE  TypeOK'
    BY <2>13 DEF TypeOK, ResetStack, context, saw
  <2>14. ASSUME NEW b \in Bindings, Decode(b)
         PROVE  TypeOK'
    BY <2>14 DEF TypeOK, Decode, Ctx, Counters, context, run, saw
  <2>15. ASSUME BeginRun
         PROVE  TypeOK'
    <3>1. deps' \in Deps
      BY <2>15, FreshType DEF TypeOK, BeginRun
    <3>2. cells' \in [Cells -> Contents \union {NotRead}]
      BY <2>15, GateAssumption DEF TypeOK, BeginRun, SnapshotCells, GateAssumption
    <3> QED
      BY <2>15, <3>1, <3>2 DEF TypeOK, BeginRun, context
  <2>16. ASSUME NEW b \in Bindings, ReadBinding(b)
         PROVE  TypeOK'
    <3>1. deps' \in Deps
      BY <2>16 DEF TypeOK, ReadBinding, Deps
    <3>2. sawBinding' \in [Bindings -> Contents \union {NotRead}]
      BY <2>16 DEF TypeOK, ReadBinding, FirstSight, Ctx
    <3> QED
      BY <2>16, <3>1, <3>2 DEF TypeOK, ReadBinding, context, run
  <2>17. ASSUME NEW s \in Sources, ReadSource(s)
         PROVE  TypeOK'
    <3>1. deps' \in Deps
      BY <2>17 DEF TypeOK, ReadSource, Deps
    <3>2. sawSource' \in [Sources -> Nat \union {NotRead}]
      BY <2>17 DEF TypeOK, ReadSource, FirstSight
    <3> QED
      BY <2>17, <3>1, <3>2 DEF TypeOK, ReadSource, context, run
  <2>18. ASSUME NEW c \in Classes, CommandClass(c)
         PROVE  TypeOK'
    <3>1. c \in Sources /\ deps.changedInRun \union {c} \in SUBSET Classes
      BY DEF Sources, TypeOK, Deps
    <3>2. deps' = [deps EXCEPT !.now[c] = @ + 1, !.changedInRun = deps.changedInRun \union {c}]
      BY <2>18 DEF CommandClass, TypeOK, Deps
    <3>3. deps' \in Deps
      BY <3>1, <3>2, DepsNow DEF TypeOK
    <3>4. world' \in [Sources -> Nat]
      BY <2>18, <3>1 DEF TypeOK, CommandClass
    <3> QED
      BY <2>18, <3>3, <3>4 DEF TypeOK, CommandClass, run
  <2>19. ASSUME NEW creates \in {0, 1}, ReadResource(creates)
         PROVE  TypeOK'
    <3>1. ctx.resRevision + creates \in Nat /\ ctx.resolved \in Nat
      BY DEF TypeOK, Ctx, Counters
    <3>2. ctx' = [ctx EXCEPT !.resRevision = ctx.resRevision + creates]
      BY <2>19 DEF ReadResource, TypeOK, Ctx
    <3>3. ctx' \in Ctx
      BY <3>1, <3>2, CtxCounters DEF TypeOK
    <3> QED
      BY <2>19, <3>1, <3>3 DEF TypeOK, ReadResource, FirstSight, run
  <2>20. ASSUME NativeResolves
         PROVE  TypeOK'
    BY <2>20, SettleType DEF NativeResolves
  <2>21. ASSUME DrawRng
         PROVE  TypeOK'
    <3>1. ctx.rng + 1 \in Nat
      BY DEF TypeOK, Ctx, Counters
    <3>2. ctx' = [ctx EXCEPT !.rng = ctx.rng + 1]
      BY <2>21 DEF DrawRng, TypeOK, Ctx
    <3>3. ctx' \in Ctx
      BY <3>1, <3>2, CtxCounters DEF TypeOK
    <3> QED
      BY <2>21, <3>3 DEF TypeOK, DrawRng, run, saw
  <2>22. ASSUME NEW k \in Slots, NEW v \in Values, InitState(k, v)
         PROVE  TypeOK'
    BY <2>22 DEF TypeOK, InitState, NoteCellCreated, FirstSight, Contents, context
  <2>23. ASSUME NEW k \in Slots, ReadState(k)
         PROVE  TypeOK'
    BY <2>23 DEF TypeOK, ReadState, FirstSight, context
  <2>24. ASSUME NEW k \in Slots, NEW v \in Values, NEW mutated \in BOOLEAN,
                NEW keptAsFound \in BOOLEAN, WriteState(k, v, mutated, keptAsFound)
         PROVE  TypeOK'
    <3>1. deps' \in Deps
      BY <2>24 DEF TypeOK, WriteState, Deps
    <3> QED
      BY <2>24, <3>1 DEF TypeOK, WriteState, FirstSight, Contents, context
  <2>25. ASSUME NEW k \in Slots, NEW v \in Values, SetCell(k, v)
         PROVE  TypeOK'
    BY <2>25 DEF TypeOK, SetCell, Contents, context, saw
  <2>26. ASSUME Complete
         PROVE  TypeOK'
    BY <2>26, FinishType DEF TypeOK, Complete, Contents
  <2>27. ASSUME Fail
         PROVE  TypeOK'
    BY <2>27, FinishType DEF TypeOK, Fail
  <2>28. CASE UNCHANGED vars
    BY <2>28 DEF TypeOK, vars, context, run, saw
  <2> QED
    BY <2>1, <2>2, <2>3, <2>4, <2>5, <2>6, <2>7, <2>8, <2>9, <2>10, <2>11,
       <2>12, <2>13, <2>14, <2>15, <2>16, <2>17, <2>18, <2>19, <2>20, <2>21,
       <2>22, <2>23, <2>24, <2>25, <2>26, <2>27, <2>28
       DEF Next, HostStep, ScriptStep, EndRun
<1> QED
  BY InitType, <1>1, PTL DEF Spec

-----------------------------------------------------------------------------
(* The inductive invariant.                                                *)

\* No serial in use anywhere is ahead of the process-wide one, so that the next
\* change of a binding takes a serial nobody holds.
SerialsBounded ==
  /\ \A b \in Bindings :
       ctx.rev[b] <= serial /\ deps.rev[b] <= serial /\ kept[b].rev <= serial
  /\ fork # NoFork => \A b \in Bindings :
       fork.ctx.rev[b] <= serial /\ fork.deps.rev[b] <= serial

\* Two holders of one serial of a binding hold one content.
Agree(rev1, content1, rev2, content2) ==
  rev1 # 0 /\ rev1 = rev2 => content1 = content2

SerialsAgree ==
  /\ SerialNamesContent
  /\ fork # NoFork => \A b \in Bindings :
       /\ Agree(kept[b].rev, kept[b].content, fork.ctx.rev[b], fork.ctx.bound[b])
       /\ Agree(ctx.rev[b], ctx.bound[b], fork.ctx.rev[b], fork.ctx.bound[b])

\* A record belongs to its context: a fingerprint under the binding's present
\* serial is that of the present content, and no counter it keeps is ahead.
RecordFits(d, c) ==
  /\ \A b \in d.reads :
       d.rev[b] # 0 /\ d.rev[b] = c.rev[b] => d.fp[b] = FP(c.bound[b])
  /\ \A s \in Sources : d.recorded[s] <= d.now[s]
  /\ d.resRevision <= c.resRevision

RecordsFit ==
  /\ RecordFits(deps, ctx)
  /\ fork # NoFork => RecordFits(fork.deps, fork.ctx)

\* In a run: what it read is listed, and is still so unless it has moved.
InputsSeen == status = "Running" =>
  /\ ~deps.valid
  /\ \A b \in Bindings : sawBinding[b] # NotRead =>
       b \in deps.readList /\ (sawBinding[b] = ctx.bound[b] \/ b \in moved)
  /\ \A s \in Sources : sawSource[s] # NotRead =>
       /\ s \in deps.srcRead
       /\ sawSource[s] = world[s] \/ s \in moved \/ s \in deps.changedInRun
  /\ SameResource \/ ResourceTable \in moved

\* A slot is touched exactly when it has been seen; a cell's snapshot is what the
\* run saw or would see, and a plain slot that differs from what was seen has
\* left the run unsettled.
SlotSeen(k) ==
  /\ k \in touched <=> sawState[k] # NotRead
  /\ k \in touched => state[k] # Absent
  /\ k \in Cells =>
       /\ k \in touched => cells[k] = sawState[k]
       /\ k \notin touched /\ state[k] # Absent => cells[k] = state[k]
  /\ k \notin Cells /\ k \in touched => deps.unsettled \/ state[k] = sawState[k]

\* Every slot is so in a run that no host operation has forced.
StateSeen == status = "Running" /\ ~deps.forced => \A k \in Slots : SlotSeen(k)

\* After a run: each thing it saw has its entry in the record, and as long as
\* the entry matches the present, the present is what the run saw.
RecordSeen == status # "Running" /\ deps.valid /\ ~deps.forced =>
  /\ \A b \in Bindings : sawBinding[b] # NotRead =>
       b \in deps.reads /\ (b \in moved \/ deps.fp[b] = FP(sawBinding[b]))
  /\ \A s \in Sources : sawSource[s] # NotRead =>
       /\ s \in deps.srcRead
       /\ \/ s \in moved \/ s \in deps.changedInRun
          \/ deps.recorded[s] = deps.now[s] => sawSource[s] = world[s]
  /\ \/ ResourceTable \in moved
     \/ deps.resRevision = ctx.resRevision => SameResource
  /\ deps.unsettled \/ \A k \in Slots : SameState(k)

SerialsOK == SerialsBounded /\ SerialsAgree

GateInv == SerialsOK /\ RecordsFit /\ InputsSeen /\ StateSeen /\ RecordSeen

\* What finish_run leaves in the record.
LEMMA FinishFields ==
  ASSUME TypeOK, FinishRun
  PROVE  /\ deps'.reads = deps.readList /\ deps'.valid
         /\ deps'.rev = [b \in Bindings |-> IF b \in deps.readList THEN ctx.rev[b] ELSE 0]
         /\ deps'.fp = [b \in Bindings |->
                           IF b \in deps.readList THEN FinishedFP(b) ELSE Absent]
         /\ deps'.unsettled = (deps.unsettled \/ CellChanged)
         /\ deps'.srcRead = deps.srcRead /\ deps'.changedInRun = deps.changedInRun
         /\ deps'.now = deps.now /\ deps'.recorded = deps.now
         /\ deps'.resRevision = ctx.resRevision /\ deps'.forced = deps.forced
         /\ UNCHANGED <<ctx, serial, world, touched, cells, fork, kept, saw, moved>>
BY DEF TypeOK, Deps, FinishRun, Validated, context

\* Under the present serial the stored fingerprint is that of the present value.
LEMMA FinishedFPSound ==
  ASSUME RecordFits(deps, ctx), NEW b \in Bindings
  PROVE  FinishedFP(b) = FP(ctx.bound[b])
BY DEF RecordFits, FinishedFP

\* Serials: every step keeps them bounded and unambiguous.
LEMMA SerialsStep == TypeOK /\ TypeOK' /\ GateInv /\ [Next]_vars => SerialsOK'
<1> SUFFICES ASSUME TypeOK, TypeOK', GateInv, [Next]_vars PROVE SerialsOK'
  OBVIOUS
<1> USE DEF GateInv, SerialsOK, SerialsBounded, SerialsAgree, Agree,
   SerialNamesContent, Counters, TypeOK, Ctx, Deps, context, run, saw, Running
<1>1. ASSUME NEW b \in Bindings, NEW v \in Values, SetBinding(b, v)
       PROVE  SerialsOK'
  BY <1>1 DEF SetBinding, Rebind, NoteMoved, Contents
<1>2. ASSUME NEW b \in Bindings, ClearBinding(b) PROVE SerialsOK'
  BY <1>2 DEF ClearBinding, Rebind, NoteMoved, Contents
<1>3. ASSUME NEW s \in Sources, HostSourceChanges(s) PROVE SerialsOK'
  BY <1>3 DEF HostSourceChanges, NoteMoved
<1>4. ASSUME HostResolves PROVE SerialsOK'
  BY <1>4 DEF HostResolves, SettleResource, NoteMoved
<1>5. ASSUME NEW seed \in 0 .. MaxClock, SetSeed(seed) PROVE SerialsOK'
  BY <1>5 DEF SetSeed, Forced, ForceRun
<1>6. ASSUME NEW k \in Slots, NEW v \in Values, NEW draws \in {0, 1},
               NEW reads \in {{}, Bindings}, CallFunction(k, v, draws, reads)
       PROVE  SerialsOK'
  BY <1>6 DEF CallFunction, ForceRun
<1>7. ASSUME NEW k \in Slots, NEW v \in Values, SetState(k, v) PROVE SerialsOK'
  BY <1>7 DEF SetState, Forced, ForceRun
<1>8. ASSUME NEW snapshot \in [Slots -> Contents], RestoreState(snapshot)
       PROVE  SerialsOK'
  BY <1>8 DEF RestoreState, Forced, ForceRun
<1>9. ASSUME InvalidateRun PROVE SerialsOK'
  BY <1>9 DEF InvalidateRun, Forced, ForceRun
<1>10. ASSUME NEW declared \in SUBSET Slots, TransferState(declared)
       PROVE  SerialsOK'
  BY <1>10 DEF TransferState, Forced, ForceRun
<1>11. ASSUME ForkExecution PROVE SerialsOK'
  BY <1>11 DEF ForkExecution
<1>12. ASSUME NEW declared \in SUBSET Slots, RestoreExecution(declared)
       PROVE  SerialsOK'
  BY <1>12 DEF RestoreExecution, ForceRun
<1>13. ASSUME ResetStack PROVE SerialsOK'
  BY <1>13 DEF ResetStack
<1>14. ASSUME NEW b \in Bindings, Decode(b) PROVE SerialsOK'
  BY <1>14 DEF Decode
<1>15. ASSUME BeginRun PROVE SerialsOK'
  BY <1>15 DEF BeginRun, FreshRecord, SnapshotCells
<1>16. ASSUME NEW b \in Bindings, ReadBinding(b) PROVE SerialsOK'
  BY <1>16 DEF ReadBinding, FirstSight
<1>17. ASSUME NEW s \in Sources, ReadSource(s) PROVE SerialsOK'
  BY <1>17 DEF ReadSource, FirstSight
<1>18. ASSUME NEW c \in Classes, CommandClass(c) PROVE SerialsOK'
  BY <1>18 DEF CommandClass
<1>19. ASSUME NEW creates \in {0, 1}, ReadResource(creates) PROVE SerialsOK'
  BY <1>19 DEF ReadResource, FirstSight
<1>20. ASSUME NativeResolves PROVE SerialsOK'
  BY <1>20 DEF NativeResolves, SettleResource, NoteMoved
<1>21. ASSUME DrawRng PROVE SerialsOK'
  BY <1>21 DEF DrawRng
<1>22. ASSUME NEW k \in Slots, NEW v \in Values, InitState(k, v)
       PROVE  SerialsOK'
  BY <1>22 DEF InitState, NoteCellCreated, FirstSight
<1>23. ASSUME NEW k \in Slots, ReadState(k) PROVE SerialsOK'
  BY <1>23 DEF ReadState, FirstSight
<1>24. ASSUME NEW k \in Slots, NEW v \in Values, NEW mutated \in BOOLEAN,
                NEW keptAsFound \in BOOLEAN, WriteState(k, v, mutated,
                   keptAsFound)
       PROVE  SerialsOK'
  BY <1>24 DEF WriteState, FirstSight
<1>25. ASSUME NEW k \in Slots, NEW v \in Values, SetCell(k, v) PROVE SerialsOK'
  BY <1>25 DEF SetCell
<1>26. ASSUME Complete PROVE SerialsOK'
  <2> HIDE DEF GateInv, SerialsOK, SerialsBounded, SerialsAgree, Agree,
     SerialNamesContent, Counters, TypeOK, Ctx, Deps, context, run, saw, Running
  <2>1. FinishRun
    BY <1>26 DEF Complete
  <2>2. \A b \in Bindings : deps'.rev[b] <= serial
    BY <2>1, FinishFields DEF GateInv, SerialsOK, SerialsBounded, TypeOK, Ctx,
       Counters
  <2> QED
    BY <2>1, <2>2, FinishFields DEF GateInv, SerialsOK, SerialsBounded,
       SerialsAgree, Agree,
       SerialNamesContent
<1>27. ASSUME Fail PROVE SerialsOK'
  <2> HIDE DEF GateInv, SerialsOK, SerialsBounded, SerialsAgree, Agree,
     SerialNamesContent, Counters, TypeOK, Ctx, Deps, context, run, saw, Running
  <2>1. FinishRun
    BY <1>27 DEF Fail
  <2>2. \A b \in Bindings : deps'.rev[b] <= serial
    BY <2>1, FinishFields DEF GateInv, SerialsOK, SerialsBounded, TypeOK, Ctx,
       Counters
  <2> QED
    BY <2>1, <2>2, FinishFields DEF GateInv, SerialsOK, SerialsBounded,
       SerialsAgree, Agree,
       SerialNamesContent
<1>28. CASE UNCHANGED vars
  BY <1>28 DEF vars
<1> HIDE DEF GateInv, SerialsOK, SerialsBounded, SerialsAgree, Agree,
   SerialNamesContent, Counters, TypeOK, Ctx, Deps, context, run, saw, Running
<1> QED
  BY <1>1, <1>2, <1>3, <1>4, <1>5, <1>6, <1>7, <1>8, <1>9, <1>10, <1>11, <1>12,
     <1>13, <1>14, <1>15, <1>16, <1>17, <1>18, <1>19, <1>20, <1>21, <1>22, <1>23,
     <1>24, <1>25, <1>26, <1>27, <1>28
     DEF Next, HostStep, ScriptStep, EndRun

\* Every step keeps each record fitted to its context.
LEMMA RecordsStep == TypeOK /\ TypeOK' /\ GateInv /\ [Next]_vars => RecordsFit'
<1> SUFFICES ASSUME TypeOK, TypeOK', GateInv, [Next]_vars PROVE RecordsFit'
  OBVIOUS
<1> USE DEF GateInv, RecordsFit, RecordFits, SerialsOK, SerialsBounded,
   Counters, TypeOK, Ctx, Deps, context, run, saw, Running
<1>1. ASSUME NEW b \in Bindings, NEW v \in Values, SetBinding(b, v)
       PROVE  RecordsFit'
  <2> HIDE DEF GateInv, RecordsFit, RecordFits, SerialsOK, SerialsBounded,
     Counters, TypeOK, Ctx, Deps, context, run, saw, Running
  <2>1. PICK content \in Contents : Rebind(b, content)
    BY <1>1 DEF SetBinding, Contents
  <2>2. RecordFits(deps, ctx')
    <3>1. \A a \in Bindings \ {b} : ctx'.bound[a] = ctx.bound[a] /\ ctx'.rev[a] = ctx.rev[a]
      BY <2>1 DEF Rebind, TypeOK, Ctx
    <3>2. ctx'.rev[b] = serial + 1 /\ ctx'.resRevision = ctx.resRevision
      BY <2>1 DEF Rebind, TypeOK, Ctx
    <3>3. deps.rev[b] # serial + 1
      BY DEF GateInv, SerialsOK, SerialsBounded, TypeOK, Deps, Counters
    <3> QED
      BY <3>1, <3>2, <3>3 DEF GateInv, RecordsFit, RecordFits, TypeOK, Deps
  <2> QED
    BY <2>1, <2>2 DEF Rebind, GateInv, RecordsFit
<1>2. ASSUME NEW b \in Bindings, ClearBinding(b) PROVE RecordsFit'
  <2> HIDE DEF GateInv, RecordsFit, RecordFits, SerialsOK, SerialsBounded,
     Counters, TypeOK, Ctx, Deps, context, run, saw, Running
  <2>1. PICK content \in Contents : Rebind(b, content)
    BY <1>2 DEF ClearBinding, Contents
  <2>2. RecordFits(deps, ctx')
    <3>1. \A a \in Bindings \ {b} : ctx'.bound[a] = ctx.bound[a] /\ ctx'.rev[a] = ctx.rev[a]
      BY <2>1 DEF Rebind, TypeOK, Ctx
    <3>2. ctx'.rev[b] = serial + 1 /\ ctx'.resRevision = ctx.resRevision
      BY <2>1 DEF Rebind, TypeOK, Ctx
    <3>3. deps.rev[b] # serial + 1
      BY DEF GateInv, SerialsOK, SerialsBounded, TypeOK, Deps, Counters
    <3> QED
      BY <3>1, <3>2, <3>3 DEF GateInv, RecordsFit, RecordFits, TypeOK, Deps
  <2> QED
    BY <2>1, <2>2 DEF Rebind, GateInv, RecordsFit
<1>3. ASSUME NEW s \in Sources, HostSourceChanges(s) PROVE RecordsFit'
  BY <1>3 DEF HostSourceChanges, NoteMoved
<1>4. ASSUME HostResolves PROVE RecordsFit'
  BY <1>4 DEF HostResolves, SettleResource, NoteMoved
<1>5. ASSUME NEW seed \in 0 .. MaxClock, SetSeed(seed) PROVE RecordsFit'
  BY <1>5 DEF SetSeed, Forced, ForceRun
<1>6. ASSUME NEW k \in Slots, NEW v \in Values, NEW draws \in {0, 1},
               NEW reads \in {{}, Bindings}, CallFunction(k, v, draws, reads)
       PROVE  RecordsFit'
  BY <1>6 DEF CallFunction, ForceRun
<1>7. ASSUME NEW k \in Slots, NEW v \in Values, SetState(k, v) PROVE RecordsFit'
  BY <1>7 DEF SetState, Forced, ForceRun
<1>8. ASSUME NEW snapshot \in [Slots -> Contents], RestoreState(snapshot)
       PROVE  RecordsFit'
  BY <1>8 DEF RestoreState, Forced, ForceRun
<1>9. ASSUME InvalidateRun PROVE RecordsFit'
  BY <1>9 DEF InvalidateRun, Forced, ForceRun
<1>10. ASSUME NEW declared \in SUBSET Slots, TransferState(declared)
       PROVE  RecordsFit'
  BY <1>10 DEF TransferState, Forced, ForceRun
<1>11. ASSUME ForkExecution PROVE RecordsFit'
  BY <1>11 DEF ForkExecution
<1>12. ASSUME NEW declared \in SUBSET Slots, RestoreExecution(declared)
       PROVE  RecordsFit'
  BY <1>12 DEF RestoreExecution, ForceRun
<1>13. ASSUME ResetStack PROVE RecordsFit'
  BY <1>13 DEF ResetStack
<1>14. ASSUME NEW b \in Bindings, Decode(b) PROVE RecordsFit'
  BY <1>14 DEF Decode
<1>15. ASSUME BeginRun PROVE RecordsFit'
  BY <1>15 DEF BeginRun, FreshRecord, SnapshotCells
<1>16. ASSUME NEW b \in Bindings, ReadBinding(b) PROVE RecordsFit'
  BY <1>16 DEF ReadBinding, FirstSight
<1>17. ASSUME NEW s \in Sources, ReadSource(s) PROVE RecordsFit'
  BY <1>17 DEF ReadSource, FirstSight
<1>18. ASSUME NEW c \in Classes, CommandClass(c) PROVE RecordsFit'
  BY <1>18 DEF CommandClass
<1>19. ASSUME NEW creates \in {0, 1}, ReadResource(creates) PROVE RecordsFit'
  BY <1>19 DEF ReadResource, FirstSight
<1>20. ASSUME NativeResolves PROVE RecordsFit'
  BY <1>20 DEF NativeResolves, SettleResource, NoteMoved
<1>21. ASSUME DrawRng PROVE RecordsFit'
  BY <1>21 DEF DrawRng
<1>22. ASSUME NEW k \in Slots, NEW v \in Values, InitState(k, v)
       PROVE  RecordsFit'
  BY <1>22 DEF InitState, NoteCellCreated, FirstSight
<1>23. ASSUME NEW k \in Slots, ReadState(k) PROVE RecordsFit'
  BY <1>23 DEF ReadState, FirstSight
<1>24. ASSUME NEW k \in Slots, NEW v \in Values, NEW mutated \in BOOLEAN,
                NEW keptAsFound \in BOOLEAN, WriteState(k, v, mutated,
                   keptAsFound)
       PROVE  RecordsFit'
  BY <1>24 DEF WriteState, FirstSight
<1>25. ASSUME NEW k \in Slots, NEW v \in Values, SetCell(k, v) PROVE RecordsFit'
  BY <1>25 DEF SetCell
<1>26. ASSUME Complete PROVE RecordsFit'
  <2> HIDE DEF GateInv, RecordsFit, RecordFits, SerialsOK, SerialsBounded,
     Counters, TypeOK, Ctx, Deps, context, run, saw, Running
  <2>1. FinishRun
    BY <1>26 DEF Complete
  <2>2. \A b \in deps.readList : FinishedFP(b) = FP(ctx.bound[b])
    BY FinishedFPSound DEF GateInv, RecordsFit, TypeOK, Deps
  <2>3. RecordFits(deps', ctx)
    BY <2>1, <2>2, FinishFields DEF RecordFits, TypeOK, Ctx, Deps, Counters
  <2> QED
    BY <2>1, <2>3, FinishFields DEF GateInv, RecordsFit, RecordFits
<1>27. ASSUME Fail PROVE RecordsFit'
  <2> HIDE DEF GateInv, RecordsFit, RecordFits, SerialsOK, SerialsBounded,
     Counters, TypeOK, Ctx, Deps, context, run, saw, Running
  <2>1. FinishRun
    BY <1>27 DEF Fail
  <2>2. \A b \in deps.readList : FinishedFP(b) = FP(ctx.bound[b])
    BY FinishedFPSound DEF GateInv, RecordsFit, TypeOK, Deps
  <2>3. RecordFits(deps', ctx)
    BY <2>1, <2>2, FinishFields DEF RecordFits, TypeOK, Ctx, Deps, Counters
  <2> QED
    BY <2>1, <2>3, FinishFields DEF GateInv, RecordsFit, RecordFits
<1>28. CASE UNCHANGED vars
  BY <1>28 DEF vars
<1> HIDE DEF GateInv, RecordsFit, RecordFits, SerialsOK, SerialsBounded,
   Counters, TypeOK, Ctx, Deps, context, run, saw, Running
<1> QED
  BY <1>1, <1>2, <1>3, <1>4, <1>5, <1>6, <1>7, <1>8, <1>9, <1>10, <1>11, <1>12,
     <1>13, <1>14, <1>15, <1>16, <1>17, <1>18, <1>19, <1>20, <1>21, <1>22, <1>23,
     <1>24, <1>25, <1>26, <1>27, <1>28
     DEF Next, HostStep, ScriptStep, EndRun

\* Every step keeps what a run in progress has seen accounted for.
LEMMA InputsStep == TypeOK /\ TypeOK' /\ GateInv /\ [Next]_vars => InputsSeen'
<1> SUFFICES ASSUME TypeOK, TypeOK', GateInv, [Next]_vars PROVE InputsSeen'
  OBVIOUS
<1> USE DEF GateInv, InputsSeen, SameResource, TypeOK, Ctx, Deps, context, run,
   saw, Running
<1>1. ASSUME NEW b \in Bindings, NEW v \in Values, SetBinding(b, v)
       PROVE  InputsSeen'
  BY <1>1 DEF SetBinding, Rebind, NoteMoved, Contents
<1>2. ASSUME NEW b \in Bindings, ClearBinding(b) PROVE InputsSeen'
  BY <1>2 DEF ClearBinding, Rebind, NoteMoved, Contents
<1>3. ASSUME NEW s \in Sources, HostSourceChanges(s) PROVE InputsSeen'
  BY <1>3 DEF HostSourceChanges, NoteMoved
<1>4. ASSUME HostResolves PROVE InputsSeen'
  BY <1>4 DEF HostResolves, SettleResource, NoteMoved
<1>5. ASSUME NEW seed \in 0 .. MaxClock, SetSeed(seed) PROVE InputsSeen'
  BY <1>5 DEF SetSeed, Forced, ForceRun
<1>6. ASSUME NEW k \in Slots, NEW v \in Values, NEW draws \in {0, 1},
               NEW reads \in {{}, Bindings}, CallFunction(k, v, draws, reads)
       PROVE  InputsSeen'
  BY <1>6 DEF CallFunction, ForceRun
<1>7. ASSUME NEW k \in Slots, NEW v \in Values, SetState(k, v) PROVE InputsSeen'
  BY <1>7 DEF SetState, Forced, ForceRun
<1>8. ASSUME NEW snapshot \in [Slots -> Contents], RestoreState(snapshot)
       PROVE  InputsSeen'
  BY <1>8 DEF RestoreState, Forced, ForceRun
<1>9. ASSUME InvalidateRun PROVE InputsSeen'
  BY <1>9 DEF InvalidateRun, Forced, ForceRun
<1>10. ASSUME NEW declared \in SUBSET Slots, TransferState(declared)
       PROVE  InputsSeen'
  BY <1>10 DEF TransferState, Forced, ForceRun
<1>11. ASSUME ForkExecution PROVE InputsSeen'
  BY <1>11 DEF ForkExecution
<1>12. ASSUME NEW declared \in SUBSET Slots, RestoreExecution(declared)
       PROVE  InputsSeen'
  BY <1>12 DEF RestoreExecution, ForceRun
<1>13. ASSUME ResetStack PROVE InputsSeen'
  BY <1>13 DEF ResetStack
<1>14. ASSUME NEW b \in Bindings, Decode(b) PROVE InputsSeen'
  BY <1>14 DEF Decode
<1>15. ASSUME BeginRun PROVE InputsSeen'
  BY <1>15 DEF BeginRun, FreshRecord, SnapshotCells
<1>16. ASSUME NEW b \in Bindings, ReadBinding(b) PROVE InputsSeen'
  BY <1>16 DEF ReadBinding, FirstSight
<1>17. ASSUME NEW s \in Sources, ReadSource(s) PROVE InputsSeen'
  BY <1>17 DEF ReadSource, FirstSight
<1>18. ASSUME NEW c \in Classes, CommandClass(c) PROVE InputsSeen'
  BY <1>18 DEF CommandClass
<1>19. ASSUME NEW creates \in {0, 1}, ReadResource(creates) PROVE InputsSeen'
  BY <1>19 DEF ReadResource, FirstSight
<1>20. ASSUME NativeResolves PROVE InputsSeen'
  BY <1>20 DEF NativeResolves, SettleResource, NoteMoved
<1>21. ASSUME DrawRng PROVE InputsSeen'
  BY <1>21 DEF DrawRng
<1>22. ASSUME NEW k \in Slots, NEW v \in Values, InitState(k, v)
       PROVE  InputsSeen'
  BY <1>22 DEF InitState, NoteCellCreated, FirstSight
<1>23. ASSUME NEW k \in Slots, ReadState(k) PROVE InputsSeen'
  BY <1>23 DEF ReadState, FirstSight
<1>24. ASSUME NEW k \in Slots, NEW v \in Values, NEW mutated \in BOOLEAN,
                NEW keptAsFound \in BOOLEAN, WriteState(k, v, mutated,
                   keptAsFound)
       PROVE  InputsSeen'
  BY <1>24 DEF WriteState, FirstSight
<1>25. ASSUME NEW k \in Slots, NEW v \in Values, SetCell(k, v) PROVE InputsSeen'
  BY <1>25 DEF SetCell
<1>26. ASSUME Complete PROVE InputsSeen'
  BY <1>26 DEF Complete, FinishRun, Validated
<1>27. ASSUME Fail PROVE InputsSeen'
  BY <1>27 DEF Fail, FinishRun, Validated
<1>28. CASE UNCHANGED vars
  BY <1>28 DEF vars
<1> HIDE DEF GateInv, InputsSeen, SameResource, TypeOK, Ctx, Deps, context, run,
   saw, Running
<1> QED
  BY <1>1, <1>2, <1>3, <1>4, <1>5, <1>6, <1>7, <1>8, <1>9, <1>10, <1>11, <1>12,
     <1>13, <1>14, <1>15, <1>16, <1>17, <1>18, <1>19, <1>20, <1>21, <1>22, <1>23,
     <1>24, <1>25, <1>26, <1>27, <1>28
     DEF Next, HostStep, ScriptStep, EndRun

\* Every step keeps the slots a run has seen accounted for.
LEMMA StateStep == TypeOK /\ TypeOK' /\ GateInv /\ [Next]_vars => StateSeen'
<1> SUFFICES ASSUME TypeOK, TypeOK', GateInv, [Next]_vars PROVE StateSeen'
  OBVIOUS
<1> USE DEF GateInv, StateSeen, SlotSeen, TypeOK, Ctx, Deps, context, run, saw,
   Running
<1>1. ASSUME NEW b \in Bindings, NEW v \in Values, SetBinding(b, v)
       PROVE  StateSeen'
  BY <1>1 DEF SetBinding, Rebind, NoteMoved, Contents
<1>2. ASSUME NEW b \in Bindings, ClearBinding(b) PROVE StateSeen'
  BY <1>2 DEF ClearBinding, Rebind, NoteMoved, Contents
<1>3. ASSUME NEW s \in Sources, HostSourceChanges(s) PROVE StateSeen'
  BY <1>3 DEF HostSourceChanges, NoteMoved
<1>4. ASSUME HostResolves PROVE StateSeen'
  BY <1>4 DEF HostResolves, SettleResource, NoteMoved
<1>5. ASSUME NEW seed \in 0 .. MaxClock, SetSeed(seed) PROVE StateSeen'
  BY <1>5 DEF SetSeed, Forced, ForceRun
<1>6. ASSUME NEW k \in Slots, NEW v \in Values, NEW draws \in {0, 1},
               NEW reads \in {{}, Bindings}, CallFunction(k, v, draws, reads)
       PROVE  StateSeen'
  BY <1>6 DEF CallFunction, ForceRun
<1>7. ASSUME NEW k \in Slots, NEW v \in Values, SetState(k, v) PROVE StateSeen'
  BY <1>7 DEF SetState, Forced, ForceRun
<1>8. ASSUME NEW snapshot \in [Slots -> Contents], RestoreState(snapshot)
       PROVE  StateSeen'
  BY <1>8 DEF RestoreState, Forced, ForceRun
<1>9. ASSUME InvalidateRun PROVE StateSeen'
  BY <1>9 DEF InvalidateRun, Forced, ForceRun
<1>10. ASSUME NEW declared \in SUBSET Slots, TransferState(declared)
       PROVE  StateSeen'
  BY <1>10 DEF TransferState, Forced, ForceRun
<1>11. ASSUME ForkExecution PROVE StateSeen'
  BY <1>11 DEF ForkExecution
<1>12. ASSUME NEW declared \in SUBSET Slots, RestoreExecution(declared)
       PROVE  StateSeen'
  BY <1>12 DEF RestoreExecution, ForceRun
<1>13. ASSUME ResetStack PROVE StateSeen'
  BY <1>13 DEF ResetStack
<1>14. ASSUME NEW b \in Bindings, Decode(b) PROVE StateSeen'
  BY <1>14 DEF Decode
<1>15. ASSUME BeginRun PROVE StateSeen'
  BY <1>15 DEF BeginRun, FreshRecord, SnapshotCells
<1>16. ASSUME NEW b \in Bindings, ReadBinding(b) PROVE StateSeen'
  BY <1>16 DEF ReadBinding, FirstSight
<1>17. ASSUME NEW s \in Sources, ReadSource(s) PROVE StateSeen'
  BY <1>17 DEF ReadSource, FirstSight
<1>18. ASSUME NEW c \in Classes, CommandClass(c) PROVE StateSeen'
  BY <1>18 DEF CommandClass
<1>19. ASSUME NEW creates \in {0, 1}, ReadResource(creates) PROVE StateSeen'
  BY <1>19 DEF ReadResource, FirstSight
<1>20. ASSUME NativeResolves PROVE StateSeen'
  BY <1>20 DEF NativeResolves, SettleResource, NoteMoved
<1>21. ASSUME DrawRng PROVE StateSeen'
  BY <1>21 DEF DrawRng
<1>22. ASSUME NEW k \in Slots, NEW v \in Values, InitState(k, v)
       PROVE  StateSeen'
  <2> HIDE DEF GateInv, StateSeen, SlotSeen, TypeOK, Ctx, Deps, context, run,
     saw, Running
  <2> SUFFICES ASSUME ~deps.forced PROVE \A j \in Slots : SlotSeen(j)'
    BY <1>22 DEF InitState, NoteCellCreated, FirstSight, StateSeen, TypeOK, Deps
  <2>1. \A j \in Slots : SlotSeen(j)
    BY <1>22 DEF InitState, NoteCellCreated, FirstSight, Running, GateInv,
       StateSeen
  <2>2. ASSUME NEW j \in Slots, j # k PROVE SlotSeen(j)'
    BY <1>22, <2>1, <2>2 DEF InitState, NoteCellCreated, FirstSight, SlotSeen,
       TypeOK, Deps
  <2>3. SlotSeen(k)'
    BY <1>22, <2>1, GateAssumption DEF InitState, NoteCellCreated, FirstSight,
       SlotSeen, TypeOK, Deps, Contents, GateAssumption
  <2> QED
    BY <2>2, <2>3
<1>23. ASSUME NEW k \in Slots, ReadState(k) PROVE StateSeen'
  <2> HIDE DEF GateInv, StateSeen, SlotSeen, TypeOK, Ctx, Deps, context, run,
     saw, Running
  <2> SUFFICES ASSUME ~deps.forced PROVE \A j \in Slots : SlotSeen(j)'
    BY <1>23 DEF ReadState, FirstSight, StateSeen, TypeOK, Deps
  <2>1. \A j \in Slots : SlotSeen(j)
    BY <1>23 DEF ReadState, FirstSight, Running, GateInv, StateSeen
  <2>2. ASSUME NEW j \in Slots, j # k PROVE SlotSeen(j)'
    BY <1>23, <2>1, <2>2 DEF ReadState, FirstSight, SlotSeen, TypeOK, Deps
  <2>3. SlotSeen(k)'
    BY <1>23, <2>1, GateAssumption DEF ReadState, FirstSight, SlotSeen, TypeOK,
       Deps, Contents, GateAssumption
  <2> QED
    BY <2>2, <2>3
<1>24. ASSUME NEW k \in Slots, NEW v \in Values, NEW mutated \in BOOLEAN,
                NEW keptAsFound \in BOOLEAN, WriteState(k, v, mutated,
                   keptAsFound)
       PROVE  StateSeen'
  <2> HIDE DEF GateInv, StateSeen, SlotSeen, TypeOK, Ctx, Deps, context, run,
     saw, Running
  <2> SUFFICES ASSUME ~deps.forced PROVE \A j \in Slots : SlotSeen(j)'
    BY <1>24 DEF WriteState, FirstSight, StateSeen, TypeOK, Deps
  <2>1. \A j \in Slots : SlotSeen(j)
    BY <1>24 DEF WriteState, FirstSight, Running, GateInv, StateSeen
  <2>2. ASSUME NEW j \in Slots, j # k PROVE SlotSeen(j)'
    BY <1>24, <2>1, <2>2 DEF WriteState, FirstSight, SlotSeen, TypeOK, Deps
  <2>3. SlotSeen(k)'
    BY <1>24, <2>1, GateAssumption DEF WriteState, FirstSight, SlotSeen, TypeOK,
       Deps, Contents, GateAssumption
  <2> QED
    BY <2>2, <2>3
<1>25. ASSUME NEW k \in Slots, NEW v \in Values, SetCell(k, v) PROVE StateSeen'
  <2> HIDE DEF GateInv, StateSeen, SlotSeen, TypeOK, Ctx, Deps, context, run,
     saw, Running
  <2> SUFFICES ASSUME ~deps.forced PROVE \A j \in Slots : SlotSeen(j)'
    BY <1>25 DEF SetCell, StateSeen, TypeOK, Deps
  <2>1. \A j \in Slots : SlotSeen(j)
    BY <1>25 DEF SetCell, Running, GateInv, StateSeen
  <2>2. ASSUME NEW j \in Slots, j # k PROVE SlotSeen(j)'
    BY <1>25, <2>1, <2>2 DEF SetCell, SlotSeen, TypeOK, Deps, saw
  <2>3. SlotSeen(k)'
    BY <1>25, <2>1, GateAssumption DEF SetCell, SlotSeen, TypeOK, Deps, saw,
       Contents, GateAssumption
  <2> QED
    BY <2>2, <2>3
<1>26. ASSUME Complete PROVE StateSeen'
  BY <1>26 DEF Complete, FinishRun, Validated
<1>27. ASSUME Fail PROVE StateSeen'
  BY <1>27 DEF Fail, FinishRun, Validated
<1>28. CASE UNCHANGED vars
  BY <1>28 DEF vars
<1> HIDE DEF GateInv, StateSeen, SlotSeen, TypeOK, Ctx, Deps, context, run, saw,
   Running
<1> QED
  BY <1>1, <1>2, <1>3, <1>4, <1>5, <1>6, <1>7, <1>8, <1>9, <1>10, <1>11, <1>12,
     <1>13, <1>14, <1>15, <1>16, <1>17, <1>18, <1>19, <1>20, <1>21, <1>22, <1>23,
     <1>24, <1>25, <1>26, <1>27, <1>28
     DEF Next, HostStep, ScriptStep, EndRun

\* Every step keeps a completed record true of what its run saw.
LEMMA RecordStep == TypeOK /\ TypeOK' /\ GateInv /\ [Next]_vars => RecordSeen'
<1> SUFFICES ASSUME TypeOK, TypeOK', GateInv, [Next]_vars PROVE RecordSeen'
  OBVIOUS
<1> USE DEF GateInv, RecordSeen, SameResource, SameState, TypeOK, Ctx, Deps,
   context, run, saw, Running
<1>1. ASSUME NEW b \in Bindings, NEW v \in Values, SetBinding(b, v)
       PROVE  RecordSeen'
  BY <1>1 DEF SetBinding, Rebind, NoteMoved, Contents
<1>2. ASSUME NEW b \in Bindings, ClearBinding(b) PROVE RecordSeen'
  BY <1>2 DEF ClearBinding, Rebind, NoteMoved, Contents
<1>3. ASSUME NEW s \in Sources, HostSourceChanges(s) PROVE RecordSeen'
  <2> HIDE DEF GateInv, RecordSeen, SameResource, SameState, TypeOK, Ctx, Deps,
     context, run, saw, Running
  <2>1. SUFFICES ASSUME status # "Running"
                 PROVE  RecordSeen'
    BY <1>3 DEF HostSourceChanges, RecordSeen, run
  <2>2. /\ world' = [world EXCEPT ![s] = world[s] + 1]
        /\ deps' = [deps EXCEPT !.now = [deps.now EXCEPT ![s] = deps.now[s] + 1]]
    BY <1>3 DEF HostSourceChanges, TypeOK, Deps
  <2>3. deps.recorded[s] <= deps.now[s] /\ deps.recorded[s] \in Nat /\ deps.now[s] \in Nat
    BY DEF GateInv, RecordsFit, RecordFits, TypeOK, Deps, Counters
  <2>4. deps'.now[s] # deps'.recorded[s]
    BY <2>2, <2>3 DEF TypeOK, Deps
  <2> QED
    BY <1>3, <2>1, <2>2, <2>4 DEF HostSourceChanges, NoteMoved, GateInv,
       RecordSeen,
       SameResource, SameState, TypeOK, Deps, run, saw
<1>4. ASSUME HostResolves PROVE RecordSeen'
  <2> HIDE DEF GateInv, RecordSeen, SameResource, SameState, TypeOK, Ctx, Deps,
     context, run, saw, Running
  <2>1. SUFFICES ASSUME status # "Running"
                 PROVE  RecordSeen'
    BY <1>4 DEF HostResolves, SettleResource, RecordSeen, run
  <2>2. ctx' = [ctx EXCEPT !.resRevision = ctx.resRevision + 1, !.resolved =
     ctx.resolved + 1]
    BY <1>4 DEF HostResolves, SettleResource, TypeOK, Ctx
  <2>3. deps.resRevision <= ctx.resRevision /\ deps.resRevision \in Nat /\ ctx.resRevision \in Nat
    BY DEF GateInv, RecordsFit, RecordFits, TypeOK, Ctx, Deps, Counters
  <2>4. deps.resRevision # ctx'.resRevision
    BY <2>2, <2>3 DEF TypeOK, Ctx
  <2> QED
    BY <1>4, <2>1, <2>4 DEF HostResolves, SettleResource, NoteMoved, GateInv,
       RecordSeen, SameState, SameResource, run, saw
<1>5. ASSUME NEW seed \in 0 .. MaxClock, SetSeed(seed) PROVE RecordSeen'
  BY <1>5 DEF SetSeed, Forced, ForceRun
<1>6. ASSUME NEW k \in Slots, NEW v \in Values, NEW draws \in {0, 1},
               NEW reads \in {{}, Bindings}, CallFunction(k, v, draws, reads)
       PROVE  RecordSeen'
  BY <1>6 DEF CallFunction, ForceRun
<1>7. ASSUME NEW k \in Slots, NEW v \in Values, SetState(k, v) PROVE RecordSeen'
  BY <1>7 DEF SetState, Forced, ForceRun
<1>8. ASSUME NEW snapshot \in [Slots -> Contents], RestoreState(snapshot)
       PROVE  RecordSeen'
  BY <1>8 DEF RestoreState, Forced, ForceRun
<1>9. ASSUME InvalidateRun PROVE RecordSeen'
  BY <1>9 DEF InvalidateRun, Forced, ForceRun
<1>10. ASSUME NEW declared \in SUBSET Slots, TransferState(declared)
       PROVE  RecordSeen'
  BY <1>10 DEF TransferState, Forced, ForceRun
<1>11. ASSUME ForkExecution PROVE RecordSeen'
  BY <1>11 DEF ForkExecution
<1>12. ASSUME NEW declared \in SUBSET Slots, RestoreExecution(declared)
       PROVE  RecordSeen'
  BY <1>12 DEF RestoreExecution, ForceRun
<1>13. ASSUME ResetStack PROVE RecordSeen'
  BY <1>13 DEF ResetStack, GateInv, InputsSeen, RecordSeen, SameResource,
     SameState,
     context, saw
<1>14. ASSUME NEW b \in Bindings, Decode(b) PROVE RecordSeen'
  BY <1>14 DEF Decode
<1>15. ASSUME BeginRun PROVE RecordSeen'
  BY <1>15 DEF BeginRun, FreshRecord, SnapshotCells
<1>16. ASSUME NEW b \in Bindings, ReadBinding(b) PROVE RecordSeen'
  BY <1>16 DEF ReadBinding, FirstSight
<1>17. ASSUME NEW s \in Sources, ReadSource(s) PROVE RecordSeen'
  BY <1>17 DEF ReadSource, FirstSight
<1>18. ASSUME NEW c \in Classes, CommandClass(c) PROVE RecordSeen'
  BY <1>18 DEF CommandClass
<1>19. ASSUME NEW creates \in {0, 1}, ReadResource(creates) PROVE RecordSeen'
  BY <1>19 DEF ReadResource, FirstSight
<1>20. ASSUME NativeResolves PROVE RecordSeen'
  BY <1>20 DEF NativeResolves, SettleResource, NoteMoved
<1>21. ASSUME DrawRng PROVE RecordSeen'
  BY <1>21 DEF DrawRng
<1>22. ASSUME NEW k \in Slots, NEW v \in Values, InitState(k, v)
       PROVE  RecordSeen'
  BY <1>22 DEF InitState, NoteCellCreated, FirstSight
<1>23. ASSUME NEW k \in Slots, ReadState(k) PROVE RecordSeen'
  BY <1>23 DEF ReadState, FirstSight
<1>24. ASSUME NEW k \in Slots, NEW v \in Values, NEW mutated \in BOOLEAN,
                NEW keptAsFound \in BOOLEAN, WriteState(k, v, mutated,
                   keptAsFound)
       PROVE  RecordSeen'
  BY <1>24 DEF WriteState, FirstSight
<1>25. ASSUME NEW k \in Slots, NEW v \in Values, SetCell(k, v) PROVE RecordSeen'
  BY <1>25 DEF SetCell
<1>26. ASSUME Complete PROVE RecordSeen'
  <2> HIDE DEF GateInv, RecordSeen, SameResource, SameState, TypeOK, Ctx, Deps,
     context, run, saw, Running
  <2>1. FinishRun /\ status = "Running"
    BY <1>26 DEF Complete, Running
  <2>2. ASSUME NEW b \in Bindings, sawBinding[b] # NotRead
        PROVE  b \in deps'.reads /\ (b \in moved \/ deps'.fp[b] = FP(sawBinding[b]))
    <3>1. b \in deps.readList /\ (sawBinding[b] = ctx.bound[b] \/ b \in moved)
      BY <2>1, <2>2 DEF GateInv, InputsSeen
    <3>2. FinishedFP(b) = FP(ctx.bound[b])
      BY FinishedFPSound DEF GateInv, RecordsFit
    <3> QED
      BY <2>1, <3>1, <3>2, FinishFields
  <2>3. ASSUME NEW s \in Sources, sawSource[s] # NotRead
        PROVE  /\ s \in deps'.srcRead
               /\ sawSource[s] = world[s] \/ s \in moved \/ s \in deps'.changedInRun
    BY <2>1, <2>3, FinishFields DEF GateInv, InputsSeen
  <2>4. SameResource \/ ResourceTable \in moved
    BY <2>1 DEF GateInv, InputsSeen
  <2>5. ASSUME ~deps.forced, ~deps'.unsettled, NEW k \in Slots
        PROVE  sawState[k] \in {NotRead, state'[k]}
    <3>1. ~deps.unsettled /\ ~CellChanged
      BY <2>1, <2>5, FinishFields
    <3>2. k \in touched => state[k] = sawState[k]
      <4>1. CASE k \in Cells
        <5>1. k \in touched => cells[k] = sawState[k] /\ sawState[k] # NotRead /\ state[k] # Absent
          BY <2>1, <2>5, <4>1 DEF GateInv, StateSeen, SlotSeen
        <5> QED
          BY <3>1, <4>1, <5>1 DEF CellChanged
      <4>2. CASE k \notin Cells
        BY <2>1, <2>5, <3>1, <4>2 DEF GateInv, StateSeen, SlotSeen
      <4> QED
        BY <4>1, <4>2
    <3>3. k \notin touched => sawState[k] = NotRead
      BY <2>1, <2>5 DEF GateInv, StateSeen, SlotSeen
    <3>4. k \in touched => state'[k] = state[k]
      BY <1>26 DEF Complete
    <3> QED
      BY <3>2, <3>3, <3>4
  <2> QED
    BY <2>1, <2>2, <2>3, <2>4, <2>5, FinishFields
       DEF RecordSeen, SameResource, SameState, saw
<1>27. ASSUME Fail PROVE RecordSeen'
  <2> HIDE DEF GateInv, RecordSeen, SameResource, SameState, TypeOK, Ctx, Deps,
     context, run, saw, Running
  <2>1. FinishRun /\ status = "Running"
    BY <1>27 DEF Fail, Running
  <2>2. ASSUME NEW b \in Bindings, sawBinding[b] # NotRead
        PROVE  b \in deps'.reads /\ (b \in moved \/ deps'.fp[b] = FP(sawBinding[b]))
    <3>1. b \in deps.readList /\ (sawBinding[b] = ctx.bound[b] \/ b \in moved)
      BY <2>1, <2>2 DEF GateInv, InputsSeen
    <3>2. FinishedFP(b) = FP(ctx.bound[b])
      BY FinishedFPSound DEF GateInv, RecordsFit
    <3> QED
      BY <2>1, <3>1, <3>2, FinishFields
  <2>3. ASSUME NEW s \in Sources, sawSource[s] # NotRead
        PROVE  /\ s \in deps'.srcRead
               /\ sawSource[s] = world[s] \/ s \in moved \/ s \in deps'.changedInRun
    BY <2>1, <2>3, FinishFields DEF GateInv, InputsSeen
  <2>4. SameResource \/ ResourceTable \in moved
    BY <2>1 DEF GateInv, InputsSeen
  <2>5. ASSUME ~deps.forced, ~deps'.unsettled, NEW k \in Slots
        PROVE  sawState[k] \in {NotRead, state'[k]}
    <3>1. ~deps.unsettled /\ ~CellChanged
      BY <2>1, <2>5, FinishFields
    <3>2. k \in touched => state[k] = sawState[k]
      <4>1. CASE k \in Cells
        <5>1. k \in touched => cells[k] = sawState[k] /\ sawState[k] # NotRead /\ state[k] # Absent
          BY <2>1, <2>5, <4>1 DEF GateInv, StateSeen, SlotSeen
        <5> QED
          BY <3>1, <4>1, <5>1 DEF CellChanged
      <4>2. CASE k \notin Cells
        BY <2>1, <2>5, <3>1, <4>2 DEF GateInv, StateSeen, SlotSeen
      <4> QED
        BY <4>1, <4>2
    <3>3. k \notin touched => sawState[k] = NotRead
      BY <2>1, <2>5 DEF GateInv, StateSeen, SlotSeen
    <3>4. k \in touched => state'[k] = state[k]
      BY <1>27 DEF Fail
    <3> QED
      BY <3>2, <3>3, <3>4
  <2> QED
    BY <2>1, <2>2, <2>3, <2>4, <2>5, FinishFields
       DEF RecordSeen, SameResource, SameState, saw
<1>28. CASE UNCHANGED vars
  BY <1>28 DEF vars
<1> HIDE DEF GateInv, RecordSeen, SameResource, SameState, TypeOK, Ctx, Deps,
   context, run, saw, Running
<1> QED
  BY <1>1, <1>2, <1>3, <1>4, <1>5, <1>6, <1>7, <1>8, <1>9, <1>10, <1>11, <1>12,
     <1>13, <1>14, <1>15, <1>16, <1>17, <1>18, <1>19, <1>20, <1>21, <1>22, <1>23,
     <1>24, <1>25, <1>26, <1>27, <1>28
     DEF Next, HostStep, ScriptStep, EndRun

-----------------------------------------------------------------------------
LEMMA InitInv == Init => GateInv
<1> SUFFICES ASSUME Init PROVE GateInv
  OBVIOUS
<1>1. SerialsBounded /\ SerialsAgree
  BY DEF Init, SerialsBounded, SerialsAgree, Agree, SerialNamesContent
<1>2. RecordsFit
  BY DEF Init, RecordsFit, RecordFits
<1>3. InputsSeen /\ StateSeen /\ RecordSeen
  BY DEF Init, InputsSeen, StateSeen, RecordSeen
<1> QED
  BY <1>1, <1>2, <1>3 DEF GateInv, SerialsOK

\* The strengthening of the safety properties: GateInv is inductive.
THEOREM Invariance == Spec => []GateInv
<1>1. TypeOK /\ TypeOK' /\ GateInv /\ [Next]_vars => GateInv'
  BY SerialsStep, RecordsStep, InputsStep, StateStep, RecordStep DEF GateInv
<1> QED
  BY InitInv, TypeCorrect, <1>1, PTL DEF Spec

\* GateInv and the answer None leave an input seen either as it was, moved
\* during the run, or an opaque value in place of an opaque value.
LEMMA InvImpliesSound == TypeOK /\ GateInv => GateSound
<1> SUFFICES ASSUME TypeOK, GateInv, ~RunNeeded
             PROVE  /\ \A b \in Bindings : SameBinding(b) \/ b \in moved \/ BothOpaque(b)
                    /\ \A s \in Sources : SameSource(s) \/ s \in moved
                    /\ SameResource \/ ResourceTable \in moved
                    /\ \A k \in Slots : SameState(k)
  BY DEF GateSound
<1>1. /\ deps.valid /\ ~deps.forced /\ ~deps.unsettled
      /\ deps.resRevision = ctx.resRevision
  BY DEF RunNeeded
<1>2. status # "Running"
  BY <1>1 DEF GateInv, InputsSeen
<1>3. ASSUME NEW b \in Bindings, sawBinding[b] # NotRead, b \notin moved
      PROVE  SameBinding(b) \/ BothOpaque(b)
  <2>1. b \in deps.reads /\ deps.fp[b] = FP(sawBinding[b])
    BY <1>1, <1>2, <1>3 DEF GateInv, RecordSeen
  <2>2. deps.fp[b] = FP(ctx.bound[b])
    BY <2>1 DEF RunNeeded, BindingMoved, GateInv, RecordsFit, RecordFits
  <2>3. sawBinding[b] \in Contents /\ ctx.bound[b] \in Contents
    BY <1>3 DEF TypeOK, Ctx
  <2> QED
    BY <2>1, <2>2, <2>3, GateAssumption
       DEF FP, SameBinding, BothOpaque, GateAssumption
<1>4. ASSUME NEW s \in Sources, sawSource[s] # NotRead, s \notin moved
      PROVE  SameSource(s)
  <2>1. s \in deps.srcRead /\ s \notin deps.changedInRun
    BY <1>1, <1>2, <1>4 DEF GateInv, RecordSeen, RunNeeded
  <2>2. deps.recorded[s] = deps.now[s]
    BY <2>1 DEF RunNeeded, SourceMoved
  <2> QED
    BY <1>1, <1>2, <1>4, <2>1, <2>2 DEF GateInv, RecordSeen, SameSource
<1>5. SameResource \/ ResourceTable \in moved
  BY <1>1, <1>2 DEF GateInv, RecordSeen
<1>6. \A k \in Slots : SameState(k)
  BY <1>1, <1>2 DEF GateInv, RecordSeen
<1> QED
  BY <1>3, <1>4, <1>5, <1>6 DEF SameBinding, SameSource

\* The frame gate is sound, whatever the script and the host do: run_needed
\* answers None only when everything the last run looked at is as it found it,
\* up to inputs that moved after it read them in that very run and exchanges
\* between values that have no fingerprint.
THEOREM GateSoundness == Spec => []GateSound
BY TypeCorrect, Invariance, InvImpliesSound, PTL

\* What a native derived from a binding under its present serial is not stale,
\* across any sequence of bindings, forks and restores.
THEOREM SerialsNameContents == Spec => []SerialNamesContent
<1>1. GateInv => SerialNamesContent
  BY DEF GateInv, SerialsOK, SerialsAgree
<1> QED
  BY Invariance, <1>1, PTL

\* Only the beginning of a run withdraws a request for one.
THEOREM ForcedStays == Spec => ForcedUntilBegin
<1>1. TypeOK /\ [Next]_vars =>
        [deps.forced /\ ~deps'.forced => status = "Ready" /\ status' = "Running"]_vars
  <2> SUFFICES ASSUME TypeOK, Next, deps.forced, ~deps'.forced
               PROVE  status = "Ready" /\ status' = "Running"
    OBVIOUS
  <2>1. CASE BeginRun
    BY <2>1 DEF BeginRun
  <2>2. CASE EndRun
    <3>1. FinishRun
      BY <2>2 DEF EndRun, Complete, Fail
    <3> QED
      BY <3>1, FinishFields
  <2>3. CASE HostStep
    BY <2>3 DEF HostStep, SetBinding, ClearBinding, Rebind, HostSourceChanges,
       HostResolves, SettleResource, SetSeed, CallFunction, SetState,
       RestoreState, InvalidateRun, TransferState, ForkExecution,
       RestoreExecution, ResetStack, Forced, ForceRun, TypeOK, Deps
  <2>4. CASE ScriptStep
    BY <2>4 DEF ScriptStep, Decode, ReadBinding, ReadSource, CommandClass,
       ReadResource, NativeResolves, SettleResource, DrawRng, InitState,
       ReadState, WriteState, SetCell, TypeOK, Deps
  <2> QED
    BY <2>1, <2>2, <2>3, <2>4 DEF Next
<1> QED
  BY TypeCorrect, <1>1, PTL DEF Spec, ForcedUntilBegin

\* The host treats a frame as atomic, as every host of the repository does,
\* every value bound has a fingerprint, and natives leave resources pending.
PlainFrames == Opaque = {} /\ ~HostInterleaves /\ ~ResolvesInRun

\* With plain frames no input moves under a run.
UnmovedInv == PlainFrames => moved = {}

\* With plain frames the contract run_needed_reason documents holds without
\* exception: None means another run would see what the last one saw.
THEOREM SkipSound == Spec => [](PlainFrames => SkipReproducesRun)
<1>1. Init => UnmovedInv
  BY DEF Init, UnmovedInv
<1>2. UnmovedInv /\ [Next]_vars => UnmovedInv'
  BY DEF PlainFrames, UnmovedInv, Next, HostStep, BeginRun, ScriptStep, EndRun,
     SetBinding, ClearBinding, Rebind, HostSourceChanges, HostResolves,
     SettleResource, SetSeed, CallFunction, SetState, RestoreState,
     InvalidateRun, TransferState, ForkExecution, RestoreExecution, ResetStack,
     Decode, ReadBinding, ReadSource, CommandClass, ReadResource,
     NativeResolves, DrawRng, InitState, ReadState, WriteState, SetCell,
     Complete, Fail, FinishRun, Forced, HostMayAct, NoteMoved, vars
<1>3. UnmovedInv /\ GateSound => (PlainFrames => SkipReproducesRun)
  <2>1. PlainFrames => \A b \in Bindings : ~BothOpaque(b)
    BY DEF PlainFrames, BothOpaque
  <2> QED
    BY <2>1 DEF GateSound, SkipReproducesRun, UnmovedInv
<1> QED
  BY <1>1, <1>2, <1>3, GateSoundness, PTL DEF Spec
-----------------------------------------------------------------------------
(* A form that does nothing stops running.                                 *)

\* A quiet run has changed nothing it would have to run again for, and has
\* listed no input it has not looked at.
QuietRun == quiet /\ status = "Running" =>
  /\ ctx.rng = deps.rngAtStart
  /\ deps.changedInRun \subseteq commanded
  /\ \A b \in deps.readList : sawBinding[b] # NotRead

\* After it, what its record keeps of each input is what the input is.
QuietRecord == quiet /\ status # "Running" /\ deps.valid =>
  /\ ~deps.rngConsumed
  /\ deps.resRevision = ctx.resRevision
  /\ \A s \in deps.srcRead : deps.recorded[s] = deps.now[s]
  /\ \A b \in deps.reads : sawBinding[b] # NotRead /\ deps.fp[b] = FP(ctx.bound[b])

QuietInv ==
  /\ quiet => /\ ~deps.forced /\ ~deps.unsettled
              /\ deps.srcRead \intersect deps.changedInRun = {}
              /\ \A s \in deps.srcRead : sawSource[s] # NotRead
  /\ QuietRun
  /\ QuietRecord

\* Every step keeps a quiet stack settled, or ends the quiet.
LEMMA QuietStep == TypeOK /\ TypeOK' /\ GateInv /\ QuietInv /\ [Next]_vars => QuietInv'
<1> SUFFICES ASSUME TypeOK, TypeOK', GateInv, QuietInv, [Next]_vars PROVE QuietInv'
  OBVIOUS
<1>1. ASSUME ~quiet' PROVE QuietInv'
  BY <1>1 DEF QuietInv, QuietRun, QuietRecord
<1>2. NotRead \notin Contents /\ NotRead \notin Nat
  BY GateAssumption
<1>3. ASSUME NEW b \in Bindings, NEW v \in Contents, Rebind(b, v) PROVE QuietInv'
  <2>1. /\ ctx' = [ctx EXCEPT !.bound[b] = v, !.rev[b] = serial + 1]
        /\ quiet' = (quiet /\ (status # "Running" /\ sawBinding[b] # NotRead
                                 => v = ctx.bound[b]))
        /\ UNCHANGED <<status, deps, saw>>
    BY <1>3 DEF Rebind, run
  <2>2. /\ ctx'.rng = ctx.rng /\ ctx'.resRevision = ctx.resRevision
        /\ \A x \in Bindings : ctx'.bound[x] = IF x = b THEN v ELSE ctx.bound[x]
    BY <2>1 DEF TypeOK, Ctx
  <2>3. QuietRun' /\ (quiet' => quiet)
    BY <2>1, <2>2 DEF QuietInv, QuietRun, saw
  <2>4. QuietRecord'
    <3> SUFFICES ASSUME quiet', status # "Running", deps.valid, NEW x \in deps.reads
                 PROVE  deps.fp[x] = FP(ctx'.bound[x])
      BY <2>1, <2>2, <2>3 DEF QuietInv, QuietRecord, saw
    <3>1. x \in Bindings /\ sawBinding[x] # NotRead /\ deps.fp[x] = FP(ctx.bound[x])
      BY <2>1, <2>3 DEF QuietInv, QuietRecord, TypeOK, Deps
    <3>2. ctx'.bound[x] = ctx.bound[x]
      BY <2>1, <2>2, <3>1
    <3> QED
      BY <3>1, <3>2
  <2> QED
    BY <2>1, <2>3, <2>4 DEF QuietInv, saw
<1>4. ASSUME NEW s \in Sources, HostSourceChanges(s) PROVE QuietInv'
  BY <1>4 DEF HostSourceChanges, QuietInv, QuietRun, QuietRecord, TypeOK, Deps, run, saw
<1>5. ASSUME SettleResource PROVE QuietInv'
  BY <1>5 DEF SettleResource, QuietInv, QuietRun, QuietRecord, TypeOK, Ctx, run, saw
<1>6. ASSUME \/ \E seed \in 0 .. MaxClock : SetSeed(seed)
             \/ \E k \in Slots, v \in Values, draws \in {0, 1}, reads \in {{}, Bindings} :
                  CallFunction(k, v, draws, reads)
             \/ \E k \in Slots, v \in Values : SetState(k, v)
             \/ \E snapshot \in [Slots -> Contents] : RestoreState(snapshot)
             \/ InvalidateRun
             \/ \E declared \in SUBSET Slots : TransferState(declared)
             \/ \E declared \in SUBSET Slots : RestoreExecution(declared)
             \/ DrawRng
      PROVE  QuietInv'
  BY <1>1, <1>6 DEF SetSeed, CallFunction, SetState, RestoreState, InvalidateRun,
     TransferState, RestoreExecution, DrawRng, Forced
<1>7. ASSUME ResetStack PROVE QuietInv'
  BY <1>7 DEF ResetStack, QuietInv, QuietRun, QuietRecord, context, saw
<1>8. ASSUME UNCHANGED <<ctx, deps, status, quiet, commanded>>,
             \A b \in Bindings : sawBinding[b] # NotRead => sawBinding'[b] # NotRead,
             \A s \in Sources : sawSource[s] # NotRead => sawSource'[s] # NotRead
      PROVE  QuietInv'
  BY <1>8 DEF QuietInv, QuietRun, QuietRecord, TypeOK, Deps
<1>9. ASSUME \/ ForkExecution
             \/ \E b \in Bindings : Decode(b)
             \/ \E k \in Slots, v \in Values : InitState(k, v)
             \/ \E k \in Slots : ReadState(k)
             \/ \E k \in Slots, v \in Values : SetCell(k, v)
             \/ UNCHANGED vars
      PROVE  QuietInv'
  BY <1>8, <1>9 DEF ForkExecution, Decode, InitState, ReadState, SetCell, vars, context,
     run, saw
<1>10. ASSUME BeginRun PROVE QuietInv'
  BY <1>10 DEF BeginRun, FreshRecord, QuietInv, QuietRun, QuietRecord, TypeOK, Deps,
     context
<1>11. ASSUME NEW b \in Bindings, ReadBinding(b) PROVE QuietInv'
  <2>1. /\ status = "Running" /\ UNCHANGED <<ctx, status, quiet, sawSource, commanded>>
        /\ deps' = [deps EXCEPT !.readList = @ \union {b}]
        /\ sawBinding' = [sawBinding EXCEPT ![b] = FirstSight(@, ctx.bound[b])]
    BY <1>11 DEF ReadBinding, Running, context, run
  <2>2. \A x \in deps.readList \union {b} : sawBinding[x] # NotRead \/ x = b
          => sawBinding'[x] # NotRead
    BY <1>2, <2>1 DEF TypeOK, Ctx, Deps, FirstSight
  <2>3. QuietRun'
    BY <2>1, <2>2 DEF QuietInv, QuietRun, TypeOK, Deps
  <2> QED
    BY <2>1, <2>3 DEF QuietInv, QuietRecord, TypeOK, Deps
<1>12. ASSUME NEW s \in Sources, ReadSource(s) PROVE QuietInv'
  <2>1. /\ status = "Running" /\ UNCHANGED <<ctx, status, sawBinding, commanded>>
        /\ deps' = [deps EXCEPT !.srcRead = @ \union {s}]
        /\ sawSource' = [sawSource EXCEPT ![s] = FirstSight(@, world[s])]
        /\ quiet' = (quiet /\ s \notin commanded)
    BY <1>12 DEF ReadSource, Running, context, run
  <2>2. \A x \in deps.srcRead \union {s} : sawSource[x] # NotRead \/ x = s
          => sawSource'[x] # NotRead
    BY <1>2, <2>1 DEF TypeOK, Deps, FirstSight
  <2>3. QuietRun' /\ QuietRecord'
    BY <2>1 DEF QuietInv, QuietRun, QuietRecord, TypeOK, Deps
  <2>4. quiet' => s \notin deps.changedInRun
    BY <2>1 DEF QuietInv, QuietRun
  <2> QED
    BY <2>1, <2>2, <2>3, <2>4 DEF QuietInv, TypeOK, Deps
<1>13. ASSUME NEW c \in Classes, CommandClass(c) PROVE QuietInv'
  <2>1. /\ status = "Running" /\ UNCHANGED <<ctx, status, sawBinding, sawSource>>
        /\ deps' = [deps EXCEPT !.now[c] = @ + 1, !.changedInRun = @ \union {c}]
        /\ commanded' = commanded \union {c}
        /\ quiet' = (quiet /\ sawSource[c] = NotRead)
    BY <1>13 DEF CommandClass, Running, run
  <2>2. /\ deps'.changedInRun = deps.changedInRun \union {c}
        /\ UNCHANGED <<deps.srcRead, deps.readList, deps.rngAtStart, deps.forced, deps.unsettled>>
    BY <2>1 DEF TypeOK, Deps
  <2>3. QuietRun' /\ QuietRecord'
    BY <2>1, <2>2 DEF QuietInv, QuietRun, QuietRecord
  <2> QED
    BY <2>1, <2>2, <2>3 DEF QuietInv
<1>14. ASSUME NEW creates \in {0, 1}, ReadResource(creates) PROVE QuietInv'
  BY <1>14 DEF ReadResource, QuietInv, QuietRun, QuietRecord, TypeOK, Ctx, Running, run
<1>15. ASSUME NEW k \in Slots, NEW v \in Values, NEW mutated \in BOOLEAN,
              NEW keptAsFound \in BOOLEAN, WriteState(k, v, mutated, keptAsFound)
       PROVE  QuietInv'
  <2> DEFINE change == IF mutated THEN ~keptAsFound ELSE v # state[k]
  <2>1. /\ UNCHANGED <<ctx, status, sawBinding, sawSource, commanded>>
        /\ deps' = [deps EXCEPT !.unsettled = @ \/ change] /\ quiet' = (quiet /\ ~change)
    BY <1>15 DEF WriteState, context
  <2> HIDE DEF change
  <2>2. CASE change
    BY <1>1, <2>1, <2>2
  <2>3. CASE ~change
    <3>1. deps' = deps /\ quiet' = quiet
      BY <2>1, <2>3 DEF TypeOK, Deps
    <3> QED
      BY <1>8, <2>1, <3>1
  <2> QED
    BY <2>2, <2>3
<1>16. ASSUME EndRun PROVE QuietInv'
  <2>1. /\ FinishRun /\ status = "Running" /\ status' = "Done"
        /\ quiet' = (quiet /\ ~CellChanged)
    BY <1>16 DEF EndRun, Complete, Fail, FinishRun, Running
  <2>2. SUFFICES ASSUME quiet, ~CellChanged PROVE QuietInv'
    BY <1>1, <2>1
  <2>3. \A b \in deps.readList : deps'.fp[b] = FP(ctx.bound[b])
    BY <2>1, FinishFields, FinishedFPSound DEF GateInv, RecordsFit, TypeOK, Deps
  <2>4. ~deps'.rngConsumed
    BY <2>1, <2>2 DEF FinishRun, Validated, QuietInv, QuietRun, TypeOK, Deps
  <2>5. UNCHANGED <<ctx, sawBinding, sawSource>>
    BY <2>1, FinishFields DEF saw
  <2>6. QuietRecord'
    BY <2>1, <2>2, <2>3, <2>4, <2>5, FinishFields DEF QuietInv, QuietRun, QuietRecord
  <2> QED
    BY <2>1, <2>2, <2>5, <2>6, FinishFields DEF QuietInv, QuietRun
<1> QED
  BY <1>3, <1>4, <1>5, <1>6, <1>7, <1>9, <1>10, <1>11, <1>12, <1>13, <1>14, <1>15, <1>16
     DEF Next, HostStep, ScriptStep, SetBinding, ClearBinding, HostResolves,
         NativeResolves, Contents

\* A run that changed no state, drew no number and commanded no class it reads
\* is not repeated until an input it read changes or a run is forced: the gate
\* never runs a form for nothing, even for values without a fingerprint, as
\* long as they are the very ones the run found.
THEOREM QuietSkipped == Spec => []QuietRunsSkipped
<1>1. Init => QuietInv
  BY DEF Init, QuietInv, QuietRun, QuietRecord
<1>2. TypeOK /\ TypeOK' /\ GateInv /\ QuietInv /\ [Next]_vars => QuietInv'
  BY QuietStep
<1>3. TypeOK /\ GateInv /\ QuietInv => QuietRunsSkipped
  <2> SUFFICES ASSUME TypeOK, GateInv, QuietInv, quiet, deps.valid PROVE ~RunNeeded
    BY DEF QuietRunsSkipped
  <2>1. status # "Running"
    BY DEF GateInv, InputsSeen
  <2>2. \A b \in deps.reads : ~BindingMoved(deps, ctx, b)
    BY <2>1 DEF QuietInv, QuietRecord, BindingMoved
  <2>3. \A s \in Sources : ~SourceMoved(deps, s)
    BY <2>1 DEF QuietInv, QuietRecord, SourceMoved
  <2> QED
    BY <2>1, <2>2, <2>3 DEF QuietInv, QuietRecord, RunNeeded
<1> QED
  BY <1>1, <1>2, <1>3, TypeCorrect, Invariance, PTL DEF Spec
=============================================================================
