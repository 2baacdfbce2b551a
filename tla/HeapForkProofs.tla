--------------------------- MODULE HeapForkProofs ---------------------------
(***************************************************************************)
(* Proofs about Slab and HeapFork, for any number of stacks, forks, slots  *)
(* and objects and any generation limit.                                   *)
(***************************************************************************)
EXTENDS HeapFork, TLAPS

-----------------------------------------------------------------------------
(* Slabs. A slab is well formed when its fields have their types and its   *)
(* free list is exact; each operation keeps it so.                         *)

WellFormed(s) == s \in SlabType /\ s.free = FreeOf(s.slots)

(* The empty slab is well formed.                                          *)
LEMMA NewWellFormed == WellFormed(New)
  BY SlabAssumption, SMT
  DEF WellFormed, New, SlabType, Slot, FreeOf, Payload, Emptied, Value, Nil,
      Generation, Never, Index

(* The slot an allocation takes can issue one more generation.             *)
LEMMA NextGenType ==
  ASSUME NEW s, WellFormed(s), NEW i \in Allocatable(s)
  PROVE  i \in Index /\ NextGen(s, i) \in Generation
  <1>1. i \in Index
    BY DEF Allocatable, WellFormed, FreeOf
  <1>2. s.slots[i] \in Slot
    BY <1>1 DEF WellFormed, SlabType
  <1>3. s.slots[i].high_water \in Generation \cup {Never}
    BY <1>2 DEF Slot
  <1>4. s.slots[i].high_water # MaxGen
    BY SlabAssumption DEF Allocatable, WellFormed, FreeOf, Exists, Never
  <1> QED
    BY <1>1, <1>3, <1>4, SlabAssumption DEF NextGen, Generation, Never

(* An allocation keeps a slab well formed.                                 *)
LEMMA AllocWellFormed ==
  ASSUME NEW s, WellFormed(s), NEW i \in Allocatable(s), NEW data \in Payload
  PROVE  WellFormed(Alloc(s, i, data))
  <1>1. i \in Index /\ NextGen(s, i) \in Generation
    BY NextGenType
  <1> DEFINE slot == [alive |-> TRUE, gen |-> NextGen(s, i),
                      high_water |-> NextGen(s, i), data |-> data]
  <1>2. slot \in Slot
    BY <1>1 DEF Slot
  <1>3. s.slots \in [Index -> Slot] /\ s.free \in SUBSET Index
    BY DEF WellFormed, SlabType
  <1>4. Alloc(s, i, data) \in SlabType
    BY <1>1, <1>2, <1>3 DEF Alloc, SlabType
  <1>5. s.free \ {i} = FreeOf([s.slots EXCEPT ![i] = slot])
    BY <1>1, <1>3 DEF WellFormed, FreeOf
  <1> QED
    BY <1>4, <1>5 DEF WellFormed, Alloc

(* A sweep keeps a slab well formed, whatever it marks.                    *)
LEMMA SweepWellFormed ==
  ASSUME NEW s \in SlabType, NEW marked
  PROVE  WellFormed(Sweep(s, marked))
  <1>1. s.slots \in [Index -> Slot]
    BY DEF SlabType
  <1>2. Emptied \in Payload
    BY DEF Emptied, Payload, Value
  <1>3. ASSUME NEW i \in Index
        PROVE  [s.slots[i] EXCEPT !.alive = FALSE, !.data = Emptied] \in Slot
    BY <1>1, <1>2 DEF Slot
  <1> DEFINE slots == [i \in Index |->
                         IF s.slots[i].alive /\ i \notin marked
                         THEN [s.slots[i] EXCEPT !.alive = FALSE, !.data = Emptied]
                         ELSE s.slots[i]]
  <1>4. slots \in [Index -> Slot]
    BY <1>1, <1>3
  <1>5. FreeOf(slots) \in SUBSET Index
    BY DEF FreeOf
  <1>6. Sweep(s, marked) = [slots |-> slots, free |-> FreeOf(slots)]
    BY DEF Sweep
  <1> HIDE DEF slots
  <1> QED
    BY <1>4, <1>5, <1>6 DEF WellFormed, SlabType

(* A slab that takes over another's generations stays well formed.         *)
LEMMA InheritWellFormed ==
  ASSUME NEW s, WellFormed(s), NEW other \in SlabType
  PROVE  WellFormed(InheritGenerations(s, other))
  <1> DEFINE hw(i) == Highest(s.slots[i].high_water, other.slots[i].high_water)
             added == {i \in Index : ~Exists(s, i) /\ Exists(other, i)}
             slots == [i \in Index |->
                         IF i \in added
                         THEN [alive |-> FALSE, gen |-> hw(i), high_water |-> hw(i),
                               data |-> Emptied]
                         ELSE [s.slots[i] EXCEPT !.high_water = hw(i)]]
             free  == {i \in s.free \cup added : slots[i].high_water # MaxGen}
  <1>1. s.slots \in [Index -> Slot] /\ other.slots \in [Index -> Slot]
        /\ s.free = FreeOf(s.slots)
    BY DEF WellFormed, SlabType
  <1>2. Emptied \in Payload
    BY DEF Emptied, Payload, Value
  <1>3. ASSUME NEW i \in Index
        PROVE  /\ hw(i) \in Generation \cup {Never}
               /\ hw(i) >= s.slots[i].high_water
               /\ hw(i) \in {s.slots[i].high_water, other.slots[i].high_water}
               /\ s.slots[i].high_water \in Generation \cup {Never}
    BY <1>1, SlabAssumption DEF Highest, Slot, Generation, Never
  <1>4. slots \in [Index -> Slot]
    BY <1>1, <1>2, <1>3 DEF Slot
  <1>5. free \in SUBSET Index
    BY <1>1 DEF FreeOf
  <1>6. ASSUME NEW i \in Index
        PROVE  /\ slots[i].high_water = hw(i)
               /\ slots[i].alive <=> (i \notin added /\ s.slots[i].alive)
    <2>1. s.slots[i] \in Slot
      BY <1>1
    <2> QED
      BY <2>1 DEF Slot
  <1>7. ASSUME NEW i \in Index
        PROVE  i \in free <=> i \in FreeOf(slots)
    <2>1. i \in free <=> (i \in FreeOf(s.slots) \cup added /\ hw(i) # MaxGen)
      BY <1>1, <1>6
    <2>2. i \in FreeOf(slots) <=>
            /\ i \in added \/ ~s.slots[i].alive
            /\ hw(i) # Never /\ hw(i) # MaxGen
      BY <1>6 DEF FreeOf
    <2>3. i \in added => hw(i) # Never
      BY <1>1, <1>3 DEF Highest, Exists, Slot, Generation, Never
    <2>4. i \notin added /\ hw(i) # Never => s.slots[i].high_water # Never
      BY <1>3 DEF Exists
    <2>5. s.slots[i].high_water # Never => hw(i) # Never
      BY <1>3, SlabAssumption DEF Generation, Never
    <2>6. s.slots[i].high_water = MaxGen => hw(i) = MaxGen
      BY <1>3, SlabAssumption DEF Generation, Never
    <2> QED
      BY <2>1, <2>2, <2>3, <2>4, <2>5, <2>6 DEF FreeOf, Exists
  <1>8. free = FreeOf(slots)
    BY <1>5, <1>7 DEF FreeOf
  <1>9. InheritGenerations(s, other) = [slots |-> slots, free |-> free]
    BY DEF InheritGenerations
  <1> HIDE DEF slots, free
  <1> QED
    BY <1>4, <1>5, <1>8, <1>9 DEF WellFormed, SlabType

-----------------------------------------------------------------------------
(* Types and free lists.                                                   *)

StoresInv == stores \in [Context -> StoresType] /\ FreeListExact

HoldersType ==
  /\ live \subseteq Stack /\ running \subseteq live
  /\ reg \in [Stack -> Value]
  /\ state \in [Stack -> [Slots -> Value]]
  /\ kept \in [Stack -> Value]
  /\ minted \in [Context -> SUBSET Id] /\ doubled \in [Context -> SUBSET Id]
  /\ made \in Seq([kind : Store, of : Nat])

TypeInv == StoresInv /\ HoldersType

LEMMA CtxOfType == \A s \in Stack : CtxOf(s) \in Context
  BY DEF CtxOf, Stack, Context

LEMMA RunnersAreStacks == Runners \subseteq Stack
  BY HeapForkAssumption DEF Stack

LEMMA NilType == Nil \in Value
  BY DEF Value

LEMMA StoresWellFormed ==
  ASSUME StoresInv, NEW c \in Context, NEW st \in Store
  PROVE  WellFormed(stores[c][st]) /\ stores[c][st] \in SlabType
  BY DEF StoresInv, StoresType, FreeListExact, WellFormed

(* A step that leaves every slab well formed keeps the stores so.          *)
LEMMA StoresStep ==
  ASSUME NEW new, stores' = [c \in Context |-> [st \in Store |-> new[c][st]]],
         \A c \in Context, st \in Store : WellFormed(new[c][st])
  PROVE  StoresInv'
  <1>1. \A c \in Context, st \in Store : stores'[c][st] = new[c][st]
    OBVIOUS
  <1>2. (stores \in [Context -> StoresType])'
    BY DEF StoresType, WellFormed
  <1>3. FreeListExact'
    BY <1>1 DEF FreeListExact, WellFormed
  <1> QED
    BY <1>2, <1>3 DEF StoresInv

LEMMA SameStores == ASSUME StoresInv, UNCHANGED stores PROVE StoresInv'
  BY DEF StoresInv, FreeListExact

(* Replacing the stores of one context by well-formed ones.                *)
LEMMA ContextStep ==
  ASSUME StoresInv, NEW c \in Context, NEW both \in StoresType,
         \A st \in Store : WellFormed(both[st]),
         stores' = [stores EXCEPT ![c] = both]
  PROVE  StoresInv'
  <1>1. stores' \in [Context -> StoresType]
    BY DEF StoresInv
  <1>2. ASSUME NEW d \in Context, NEW st \in Store
        PROVE  stores'[d][st].free = FreeOf(stores'[d][st].slots)
    BY <1>2 DEF StoresInv, FreeListExact, WellFormed
  <1> QED
    BY <1>1, <1>2 DEF StoresInv, FreeListExact

LEMMA NoStoresType == NoStores \in StoresType /\ \A st \in Store : WellFormed(NoStores[st])
  BY NewWellFormed DEF NoStores, StoresType, WellFormed

LEMMA InitTypeInv == Init => TypeInv
  <1> SUFFICES ASSUME Init PROVE TypeInv
    OBVIOUS
  <1>1. stores \in [Context -> StoresType]
    BY NoStoresType DEF Init
  <1>2. FreeListExact
    BY NoStoresType DEF Init, FreeListExact, WellFormed
  <1>3. HoldersType
    BY NilType DEF Init, HoldersType, Stack
  <1> QED
    BY <1>1, <1>2, <1>3 DEF TypeInv, StoresInv

(* The steps of a script that allocate nothing.                            *)
LEMMA QuietScriptType ==
  ASSUME TypeInv, NEW s \in Stack,
         \/ Begin(s) \/ Open(s) \/ LoadKept(s) \/ Keep(s) \/ EndRun(s)
         \/ \E k \in Slots : LoadState(s, k) \/ StoreState(s, k)
  PROVE  TypeInv'
  <1>1. StoresInv'
    <2>1. UNCHANGED stores
      BY DEF Begin, Open, LoadKept, Keep, EndRun, LoadState, StoreState
    <2> QED
      BY <2>1, SameStores DEF TypeInv
  <1>2. HoldersType
    BY DEF TypeInv
  <1>3. CASE Begin(s)
    BY <1>1, <1>2, <1>3, NilType DEF Begin, HoldersType, TypeInv
  <1> SUFFICES ASSUME ~Begin(s) PROVE TypeInv'
    BY <1>3
  <1>6. CASE Open(s)
    <2> DEFINE v == reg[s]
    <2>1. v \in Id
      BY <1>2, <1>6 DEF Open, HoldersType, Value
    <2>2. stores[CtxOf(s)][v.store] \in SlabType
      <3>1. v.store \in Store
        BY <2>1 DEF Id
      <3> QED
        BY <3>1, CtxOfType, StoresWellFormed DEF TypeInv
    <2>3. stores[CtxOf(s)][v.store].slots[v.ix] \in Slot
      BY <2>1, <2>2 DEF SlabType, Id
    <2>4. Get(stores[CtxOf(s)][v.store], v).child \in Value
      BY <2>3 DEF Get, Slot, Payload
    <2> QED
      BY <1>1, <1>2, <1>6, <2>4 DEF Open, HoldersType, TypeInv
  <1>7. CASE LoadKept(s)
    BY <1>1, <1>2, <1>7 DEF LoadKept, HoldersType, TypeInv
  <1>8. CASE Keep(s)
    BY <1>1, <1>2, <1>8 DEF Keep, HoldersType, TypeInv
  <1>9. CASE EndRun(s)
    <2>1. state' \in [Stack -> [Slots -> Value]]
      <3>1. PICK untouched \in SUBSET Slots :
              state' = [state EXCEPT ![s] =
                 [k \in Slots |-> IF k \in untouched THEN Nil ELSE state[s][k]]]
        BY <1>9 DEF EndRun
      <3>2. [k \in Slots |-> IF k \in untouched THEN Nil ELSE state[s][k]]
              \in [Slots -> Value]
        BY <1>2, NilType DEF HoldersType
      <3> QED
        BY <1>2, <3>1, <3>2 DEF HoldersType
    <2> QED
      BY <1>1, <1>2, <1>9, <2>1 DEF EndRun, HoldersType, TypeInv
  <1>10. ASSUME NEW k \in Slots, LoadState(s, k) PROVE TypeInv'
    <2>1. state[s][k] \in Value
      BY <1>2 DEF HoldersType
    <2> QED
      BY <1>1, <1>2, <1>10, <2>1 DEF LoadState, HoldersType, TypeInv
  <1>11. ASSUME NEW k \in Slots, StoreState(s, k) PROVE TypeInv'
    <2>1. state' \in [Stack -> [Slots -> Value]]
      <3>1. reg[s] \in Value /\ state \in [Stack -> [Slots -> Value]]
        BY <1>2 DEF HoldersType
      <3>2. [state[s] EXCEPT ![k] = reg[s]] \in [Slots -> Value]
        BY <3>1
      <3>3. state' = [state EXCEPT ![s] = [state[s] EXCEPT ![k] = reg[s]]]
        BY <1>11 DEF StoreState
      <3> QED
        BY <3>1, <3>2, <3>3
    <2> QED
      BY <1>1, <1>2, <1>11, <2>1 DEF StoreState, HoldersType, TypeInv
  <1> QED
    BY <1>6, <1>7, <1>8, <1>9, <1>10, <1>11

(* An allocation mints an id and puts its object in a slot of its own.     *)
LEMMA AllocateType ==
  ASSUME TypeInv, NEW c \in Context, NEW st \in Store, NEW child \in Value,
         NEW i \in Allocatable(stores[c][st]), Allocate(c, st, i, child)
  PROVE  /\ StoresInv' /\ FreshId(c, st, i) \in Id
         /\ minted' \in [Context -> SUBSET Id]
         /\ made' \in Seq([kind : Store, of : Nat])
  <1> DEFINE slab == stores[c][st]
             data == [obj |-> Len(made) + 1, child |-> child]
             both == [stores[c] EXCEPT ![st] = Alloc(slab, i, data)]
  <1>1. HoldersType /\ StoresInv
    BY DEF TypeInv
  <1>2. WellFormed(slab)
    BY <1>1, StoresWellFormed
  <1>3. data \in Payload
    BY <1>1 DEF Payload, HoldersType
  <1>4. WellFormed(Alloc(slab, i, data)) /\ Alloc(slab, i, data) \in SlabType
    BY <1>2, <1>3, AllocWellFormed DEF WellFormed
  <1>5. FreshId(c, st, i) \in Id
    BY <1>1, <1>2, NextGenType DEF Id, HoldersType, FreshId
  <1>6. StoresInv'
    <2>1. stores[c] \in StoresType
      BY <1>1 DEF StoresInv
    <2>2. both \in StoresType
      BY <1>4, <2>1 DEF StoresType
    <2>3. \A t \in Store : WellFormed(both[t])
      BY <1>1, <1>4, <2>1, StoresWellFormed DEF StoresType
    <2>4. stores' = [stores EXCEPT ![c] = both]
      BY <1>1 DEF Allocate, StoresInv, StoresType
    <2> HIDE DEF both
    <2> QED
      BY <1>1, <2>2, <2>3, <2>4, ContextStep
  <1>7. minted' \in [Context -> SUBSET Id]
    <2>1. minted[c] \cup {FreshId(c, st, i)} \in SUBSET Id
      BY <1>1, <1>5 DEF HoldersType
    <2> QED
      BY <1>1, <2>1 DEF Allocate, HoldersType
  <1>8. made' \in Seq([kind : Store, of : Nat])
    <2>1. child.obj \in Nat
      BY DEF Value, Id, Nil
    <2> QED
      BY <1>1, <2>1 DEF Allocate, HoldersType
  <1> QED
    BY <1>5, <1>6, <1>7, <1>8

LEMMA MakeType ==
  ASSUME TypeInv, NEW s \in Stack, NEW st \in Store, Make(s, st)
  PROVE  TypeInv'
  <1>1. CtxOf(s) \in Context /\ reg[s] \in Value /\ HoldersType
    BY CtxOfType DEF TypeInv, HoldersType
  <1>2. PICK i \in Allocatable(stores[CtxOf(s)][st]) :
          /\ Allocate(CtxOf(s), st, i, reg[s])
          /\ reg' = [reg EXCEPT ![s] = FreshId(CtxOf(s), st, i)]
    BY DEF Make
  <1>3. /\ StoresInv' /\ FreshId(CtxOf(s), st, i) \in Value
        /\ minted' \in [Context -> SUBSET Id]
        /\ made' \in Seq([kind : Store, of : Nat])
    BY <1>1, <1>2, AllocateType DEF Value
  <1> QED
    BY <1>1, <1>2, <1>3 DEF Make, HoldersType, TypeInv

(* What a host sets a slot to is Nil or an object made for it.             *)
LEMMA SetStateType ==
  ASSUME TypeInv, NEW s \in Stack, NEW k \in Slots, SetState(s, k)
  PROVE  TypeInv'
  <1>1. CtxOf(s) \in Context /\ "heap" \in Store /\ HoldersType /\ StoresInv
    BY CtxOfType DEF TypeInv, Store
  <1>2. ASSUME NEW v \in Value PROVE [state EXCEPT ![s][k] = v] \in [Stack -> [Slots -> Value]]
    <2>1. [state[s] EXCEPT ![k] = v] \in [Slots -> Value]
      BY <1>1 DEF HoldersType
    <2> QED
      BY <1>1, <2>1 DEF HoldersType
  <1>3. CASE state' = [state EXCEPT ![s][k] = Nil] /\ UNCHANGED <<stores, minted, made>>
    <2>1. StoresInv'
      BY <1>1, <1>3, SameStores
    <2> QED
      BY <1>1, <1>2, <1>3, <2>1, NilType DEF SetState, HoldersType, TypeInv
  <1>4. ASSUME NEW i \in Allocatable(stores[CtxOf(s)]["heap"]),
               Allocate(CtxOf(s), "heap", i, Nil),
               state' \in {state, [state EXCEPT ![s][k] = FreshId(CtxOf(s), "heap", i)]}
        PROVE  TypeInv'
    <2>1. /\ StoresInv' /\ FreshId(CtxOf(s), "heap", i) \in Value
          /\ minted' \in [Context -> SUBSET Id]
          /\ made' \in Seq([kind : Store, of : Nat])
      BY <1>1, <1>4, NilType, AllocateType DEF Value
    <2>2. state' \in [Stack -> [Slots -> Value]]
      BY <1>1, <1>2, <1>4, <2>1 DEF HoldersType
    <2> QED
      BY <1>1, <2>1, <2>2 DEF SetState, HoldersType, TypeInv
  <1> QED
    BY <1>3, <1>4 DEF SetState

(* A collection sweeps both stores of one context.                         *)
LEMMA CollectType ==
  ASSUME TypeInv, NEW c \in Context, CollectGarbage(c)
  PROVE  TypeInv'
  <1> DEFINE marked == Reached(c, ContextRoots(c))
             of(st) == {i \in Index : <<st, i>> \in marked}
             both == [st \in Store |-> Sweep(stores[c][st], of(st))]
  <1>1. StoresInv /\ HoldersType
    BY DEF TypeInv
  <1>2. \A st \in Store : WellFormed(both[st])
    <2>1. ASSUME NEW st \in Store PROVE WellFormed(Sweep(stores[c][st], of(st)))
      BY <1>1, StoresWellFormed, SweepWellFormed
    <2> QED
      BY <2>1
  <1>3. both \in StoresType
    BY <1>2 DEF StoresType, WellFormed
  <1>4. stores' = [stores EXCEPT ![c] = both]
    BY <1>1 DEF CollectGarbage, StoresInv
  <1>5. StoresInv'
    <2> HIDE DEF both
    <2> QED
      BY <1>1, <1>2, <1>3, <1>4, ContextStep
  <1>6. HoldersType'
    BY <1>1 DEF CollectGarbage, HoldersType
  <1> QED
    BY <1>5, <1>6 DEF TypeInv

(* A fork copies the stores and what the stack holds; dropping it leaves   *)
(* its context empty.                                                      *)
LEMMA ForkType ==
  ASSUME TypeInv, NEW src \in Stack, NEW f \in Forks, ForkExecution(src, f)
  PROVE  TypeInv'
  <1>1. StoresInv /\ HoldersType /\ CtxOf(src) \in Context
    BY CtxOfType DEF TypeInv
  <1>2. StoresInv'
    <2>1. stores[CtxOf(src)] \in StoresType /\ f \in Context
      BY <1>1 DEF StoresInv, Context
    <2>2. \A st \in Store : WellFormed(stores[CtxOf(src)][st])
      BY <1>1, StoresWellFormed
    <2>3. stores' = [stores EXCEPT ![f] = stores[CtxOf(src)]]
      BY DEF ForkExecution
    <2> QED
      BY <1>1, <2>1, <2>2, <2>3, ContextStep
  <1>3. HoldersType'
    <2>1. f \in Stack /\ f \in Context
      BY DEF Stack, Context
    <2>2. reg' \in [Stack -> Value] /\ kept' \in [Stack -> Value]
          /\ state' \in [Stack -> [Slots -> Value]]
      BY <1>1, <2>1 DEF ForkExecution, HoldersType
    <2>3. minted' \in [Context -> SUBSET Id] /\ doubled' \in [Context -> SUBSET Id]
      BY <1>1, <2>1 DEF ForkExecution, HoldersType
    <2>4. live' \subseteq Stack /\ running' \subseteq live'
      BY <1>1, <2>1 DEF ForkExecution, HoldersType
    <2> QED
      BY <1>1, <2>2, <2>3, <2>4 DEF ForkExecution, HoldersType
  <1> QED
    BY <1>2, <1>3 DEF TypeInv

LEMMA DropForkType ==
  ASSUME TypeInv, NEW f \in Forks, DropFork(f)
  PROVE  TypeInv'
  <1>1. StoresInv /\ HoldersType /\ f \in Context /\ f \in Stack
    BY DEF TypeInv, Context, Stack
  <1>2. StoresInv'
    BY <1>1, NoStoresType, ContextStep DEF DropFork
  <1>3. HoldersType'
    <2>1. [k \in Slots |-> Nil] \in [Slots -> Value]
      BY NilType
    <2> QED
      BY <1>1, <2>1, NilType DEF DropFork, HoldersType
  <1> QED
    BY <1>2, <1>3 DEF TypeInv

(* A restore and a reload leave well-formed stores.                        *)
LEMMA RestoredWellFormed ==
  ASSUME StoresInv, NEW src \in Forks
  PROVE  /\ Restored(src) \in StoresType
         /\ \A st \in Store : WellFormed(Restored(src)[st])
  <1>1. ASSUME NEW st \in Store PROVE WellFormed(Restored(src)[st])
    <2> DEFINE s == InheritGenerations(stores[src][st], stores[Default][st])
    <2>1. WellFormed(s)
      BY StoresWellFormed, InheritWellFormed DEF Context
    <2>2. WellFormed(Clear(s))
      BY <2>1, SweepWellFormed DEF Clear, WellFormed
    <2>3. Restored(src)[st] = IF st = "closures" THEN Clear(s) ELSE s
      BY DEF Restored
    <2> HIDE DEF s
    <2> QED
      BY <2>1, <2>2, <2>3
  <1>2. Restored(src) = [st \in Store |-> Restored(src)[st]]
    BY DEF Restored
  <1> QED
    BY <1>1, <1>2 DEF StoresType, WellFormed

LEMMA RestoreType ==
  ASSUME TypeInv, NEW dst \in Mains, NEW src \in Forks, RestoreExecution(dst, src)
  PROVE  TypeInv'
  <1>1. StoresInv /\ HoldersType /\ src \in Stack /\ dst \in Stack
        /\ Default \in Context /\ src \in Context
    BY DEF TypeInv, Stack, Context
  <1>2. StoresInv'
    BY <1>1, RestoredWellFormed, ContextStep DEF RestoreExecution
  <1>3. state' \in [Stack -> [Slots -> Value]]
    <2>1. PICK declared \in SUBSET Slots :
            state' = [state EXCEPT ![dst] = Transferred(state[src], declared)]
      BY DEF RestoreExecution
    <2>2. Transferred(state[src], declared) \in [Slots -> Value]
      BY <1>1, NilType DEF Transferred, HoldersType
    <2> QED
      BY <1>1, <2>1, <2>2 DEF HoldersType
  <1>4. kept' \in [Stack -> Value] /\ reg' \in [Stack -> Value]
    BY <1>1, NilType DEF RestoreExecution, HoldersType
  <1>5. minted' \in [Context -> SUBSET Id] /\ doubled' \in [Context -> SUBSET Id]
    <2>1. minted[Default] \cup minted[src] \in SUBSET Id
      BY <1>1 DEF HoldersType
    <2>2. doubled[Default] \cup doubled[src] \cup IssuedTwice(src) \in SUBSET Id
      BY <1>1 DEF HoldersType, IssuedTwice
    <2> QED
      BY <1>1, <2>1, <2>2 DEF RestoreExecution, HoldersType
  <1>6. HoldersType'
    BY <1>1, <1>3, <1>4, <1>5 DEF RestoreExecution, HoldersType
  <1> QED
    BY <1>2, <1>6 DEF TypeInv

LEMMA ReloadType ==
  ASSUME TypeInv, NEW s \in Mains, Reload(s)
  PROVE  TypeInv'
  <1>1. StoresInv /\ HoldersType /\ s \in Stack /\ Default \in Context
    BY DEF TypeInv, Stack, Context
  <1>2. StoresInv'
    <2> DEFINE both == [stores[Default] EXCEPT !["closures"] =
                          Clear(stores[Default]["closures"])]
    <2>1. stores[Default] \in StoresType
      BY <1>1 DEF StoresInv
    <2>2. WellFormed(Clear(stores[Default]["closures"]))
      BY <1>1, StoresWellFormed, SweepWellFormed DEF Clear, Store
    <2>3. \A st \in Store : WellFormed(both[st])
      BY <1>1, <2>1, <2>2, StoresWellFormed DEF StoresType
    <2>4. both \in StoresType
      BY <2>1, <2>2 DEF StoresType, WellFormed
    <2>5. stores' = [stores EXCEPT ![Default] = both]
      BY DEF Reload
    <2> HIDE DEF both
    <2> QED
      BY <1>1, <2>3, <2>4, <2>5, ContextStep
  <1>3. state' \in [Stack -> [Slots -> Value]]
    <2>1. PICK declared \in SUBSET Slots :
            state' = [state EXCEPT ![s] = ReloadedState(s, declared)]
      BY DEF Reload
    <2>2. ReloadedState(s, declared) \in [Slots -> Value]
      BY <1>1, NilType DEF ReloadedState, HoldersType
    <2> QED
      BY <1>1, <2>1, <2>2 DEF HoldersType
  <1>4. HoldersType'
    BY <1>1, <1>3, NilType DEF Reload, HoldersType
  <1> QED
    BY <1>2, <1>4 DEF TypeInv

LEMMA NextTypeInv == TypeInv /\ [Next]_vars => TypeInv'
  <1> SUFFICES ASSUME TypeInv, [Next]_vars PROVE TypeInv'
    OBVIOUS
  <1>1. ASSUME NEW s \in Stack, Script(s) PROVE TypeInv'
    BY <1>1, QuietScriptType, MakeType DEF Script
  <1>2. ASSUME NEW c \in Context, CollectGarbage(c) PROVE TypeInv'
    BY <1>2, CollectType
  <1>3. ASSUME NEW src \in Stack, NEW f \in Forks, ForkExecution(src, f) PROVE TypeInv'
    BY <1>3, ForkType
  <1>4. ASSUME NEW f \in Forks, DropFork(f) PROVE TypeInv'
    BY <1>4, DropForkType
  <1>5. ASSUME NEW dst \in Mains, NEW src \in Forks, RestoreExecution(dst, src)
        PROVE  TypeInv'
    BY <1>5, RestoreType
  <1>6. ASSUME NEW s \in Mains, Reload(s) PROVE TypeInv'
    BY <1>6, ReloadType
  <1>7. ASSUME NEW s \in Stack, NEW k \in Slots, SetState(s, k) PROVE TypeInv'
    BY <1>7, SetStateType
  <1>8. CASE UNCHANGED vars
    BY <1>8, SameStores DEF TypeInv, HoldersType, vars
  <1> QED
    BY RunnersAreStacks, <1>1, <1>2, <1>3, <1>4, <1>5, <1>6, <1>7, <1>8 DEF Next

(* Every reachable state is of the types of heap.rs and stack.rs: no slot  *)
(* is handed out past the generation limit.                                *)
THEOREM HeapTypeCorrect == Spec => []TypeOK
  <1>1. TypeInv => TypeOK
    BY DEF TypeInv, StoresInv, HoldersType, TypeOK
  <1> QED
    BY <1>1, InitTypeInv, NextTypeInv, PTL DEF Spec

(* The free lists are exact in every reachable state (heap.rs, alloc,      *)
(* sweep_with, clear_with, inherit_generations).                           *)
THEOREM FreeListsExact == Spec => []FreeListExact
  <1>1. TypeInv => FreeListExact
    BY DEF TypeInv, StoresInv
  <1> QED
    BY <1>1, InitTypeInv, NextTypeInv, PTL DEF Spec

-----------------------------------------------------------------------------
(* Identity. What relates the ids a context has minted to its slots: two   *)
(* ids of one slot and generation are of one object, or both sides of a    *)
(* restore had issued them; the object in a live slot was minted there;    *)
(* and no minted id is ahead of its slot.                                  *)

IdAt(both, st, i) ==
  [store |-> st, ix |-> i, gen |-> both[st].slots[i].gen,
   obj |-> both[st].slots[i].data.obj]

UniqueIds(ids, twice) == \A a, b \in ids : Collide(a, b) => a \in twice

LiveMinted(both, ids) ==
  \A st \in Store, i \in Index : both[st].slots[i].alive => IdAt(both, st, i) \in ids

IssuedOnly(both, ids) ==
  \A id \in ids : id.gen <= both[id.store].slots[id.ix].high_water

Sound(both, ids, twice) ==
  UniqueIds(ids, twice) /\ LiveMinted(both, ids) /\ IssuedOnly(both, ids)

IdentityInv == \A c \in Context : Sound(stores[c], minted[c], doubled[c])

(* Slots that die keep the rest sound.                                     *)
LEMMA SoundShrunk ==
  ASSUME NEW old, NEW new, NEW ids \in SUBSET Id, NEW twice, Sound(old, ids, twice),
         \A st \in Store, i \in Index :
           /\ new[st].slots[i].high_water = old[st].slots[i].high_water
           /\ new[st].slots[i].alive =>
                /\ old[st].slots[i].alive
                /\ new[st].slots[i].gen = old[st].slots[i].gen
                /\ new[st].slots[i].data = old[st].slots[i].data
  PROVE  Sound(new, ids, twice)
  <1>1. LiveMinted(new, ids)
    BY DEF Sound, LiveMinted, IdAt
  <1>2. IssuedOnly(new, ids)
    BY DEF Sound, IssuedOnly, Id
  <1> QED
    BY <1>1, <1>2 DEF Sound

(* What a sweep does to a slot.                                            *)
LEMMA SweepSlot ==
  ASSUME NEW s \in SlabType, NEW marked, NEW i \in Index
  PROVE  LET t == Sweep(s, marked).slots[i] IN
         /\ t.high_water = s.slots[i].high_water
         /\ t.alive => /\ s.slots[i].alive
                       /\ t.gen = s.slots[i].gen
                       /\ t.data = s.slots[i].data
  <1>1. s.slots[i] \in Slot
    BY DEF SlabType
  <1>2. Sweep(s, marked).slots[i] =
          IF s.slots[i].alive /\ i \notin marked
          THEN [s.slots[i] EXCEPT !.alive = FALSE, !.data = Emptied]
          ELSE s.slots[i]
    BY DEF Sweep
  <1>3. CASE s.slots[i].alive /\ i \notin marked
    <2> DEFINE t == [s.slots[i] EXCEPT !.alive = FALSE, !.data = Emptied]
    <2>1. ~t.alive /\ t.high_water = s.slots[i].high_water
      BY <1>1 DEF Slot
    <2> HIDE DEF t
    <2>2. Sweep(s, marked).slots[i] = t
      BY <1>2, <1>3 DEF t
    <2> QED
      BY <2>1, <2>2
  <1>4. CASE ~(s.slots[i].alive /\ i \notin marked)
    BY <1>2, <1>4
  <1> QED
    BY <1>3, <1>4

(* A freshly minted id is of a generation no id of its slot had.           *)
LEMMA SoundAlloc ==
  ASSUME NEW both \in StoresType, NEW ids \in SUBSET Id, NEW twice,
         Sound(both, ids, twice),
         NEW st \in Store, WellFormed(both[st]),
         NEW i \in Allocatable(both[st]), NEW data \in Payload,
         NEW id, id = [store |-> st, ix |-> i, gen |-> NextGen(both[st], i),
                       obj |-> data.obj]
  PROVE  Sound([both EXCEPT ![st] = Alloc(both[st], i, data)], ids \cup {id}, twice)
  <1> DEFINE slot == [alive |-> TRUE, gen |-> NextGen(both[st], i),
                      high_water |-> NextGen(both[st], i), data |-> data]
             new == [both EXCEPT ![st] = Alloc(both[st], i, data)]
  <1>1. i \in Index /\ NextGen(both[st], i) \in Generation
    BY NextGenType
  <1>2. both[st].slots \in [Index -> Slot]
    BY DEF StoresType, SlabType
  <1>3. \A t \in Store, j \in Index :
          new[t].slots[j] = IF t = st /\ j = i THEN slot ELSE both[t].slots[j]
    BY <1>1, <1>2 DEF StoresType, Alloc
  <1>4. both[st].slots[i].high_water \in Generation \cup {Never}
    BY <1>1, <1>2 DEF Slot
  <1>5. \A a \in ids : a.store = st /\ a.ix = i => a.gen < NextGen(both[st], i)
    BY <1>4, SlabAssumption DEF Sound, IssuedOnly, NextGen, Generation, Never, Id
  <1>6. UniqueIds(ids \cup {id}, twice)
    <2>1. \A a \in ids : ~Collide(a, id) /\ ~Collide(id, a)
      BY <1>1, <1>5, SlabAssumption DEF Collide, Id, Generation
    <2>2. ~Collide(id, id)
      BY DEF Collide
    <2> QED
      BY <2>1, <2>2 DEF UniqueIds, Sound
  <1> HIDE DEF new
  <1>7. LiveMinted(new, ids \cup {id})
    BY <1>3 DEF Sound, LiveMinted, IdAt
  <1>8. IssuedOnly(new, ids \cup {id})
    <2>1. new[st].slots[i].high_water = id.gen /\ id.gen \in Generation
      BY <1>1, <1>3
    <2>2. \A a \in ids : a.gen <= new[a.store].slots[a.ix].high_water
      <3> SUFFICES ASSUME NEW a \in ids
                   PROVE  a.gen <= new[a.store].slots[a.ix].high_water
        OBVIOUS
      <3>1. a.store \in Store /\ a.ix \in Index /\ a.gen \in Generation
        BY DEF Id
      <3>2. CASE a.store = st /\ a.ix = i
        BY <1>1, <1>5, <2>1, <3>1, <3>2, SlabAssumption DEF Generation
      <3>3. CASE ~(a.store = st /\ a.ix = i)
        BY <1>3, <3>1, <3>3 DEF Sound, IssuedOnly
      <3> QED
        BY <3>2, <3>3
    <2> QED
      BY <2>1, <2>2, SlabAssumption DEF IssuedOnly, Generation
  <1> QED
    BY <1>6, <1>7, <1>8 DEF Sound, new

(* What taking over another slab's generations does to a slot.             *)
LEMMA InheritSlot ==
  ASSUME NEW s \in SlabType, NEW other \in SlabType, NEW i \in Index
  PROVE  LET t == InheritGenerations(s, other).slots[i] IN
         /\ t.high_water = Highest(s.slots[i].high_water, other.slots[i].high_water)
         /\ t.alive => /\ s.slots[i].alive
                       /\ t.gen = s.slots[i].gen
                       /\ t.data = s.slots[i].data
  <1> DEFINE hw == Highest(s.slots[i].high_water, other.slots[i].high_water)
             t == [s.slots[i] EXCEPT !.high_water = hw]
             u == [alive |-> FALSE, gen |-> hw, high_water |-> hw, data |-> Emptied]
             r == InheritGenerations(s, other).slots[i]
  <1>1. s.slots[i] \in Slot
    BY DEF SlabType
  <1>2. r = t \/ r = u
    BY DEF InheritGenerations
  <1>3. t.high_water = hw /\ t.alive = s.slots[i].alive /\ t.gen = s.slots[i].gen
        /\ t.data = s.slots[i].data
    BY <1>1 DEF Slot
  <1>4. u.high_water = hw /\ ~u.alive
    OBVIOUS
  <1> HIDE DEF t, u, hw, r
  <1> QED
    BY <1>2, <1>3, <1>4 DEF hw, r

(* What a restore makes of a slot of the fork.                             *)
LEMMA RestoredSlot ==
  ASSUME TypeInv, NEW src \in Forks, NEW st \in Store, NEW i \in Index
  PROVE  LET t == Restored(src)[st].slots[i] IN
         /\ t.high_water = Highest(stores[src][st].slots[i].high_water,
                                   stores[Default][st].slots[i].high_water)
         /\ t.alive => /\ stores[src][st].slots[i].alive
                       /\ t.gen = stores[src][st].slots[i].gen
                       /\ t.data = stores[src][st].slots[i].data
  <1> DEFINE taken == InheritGenerations(stores[src][st], stores[Default][st])
  <1>1. /\ stores[src][st] \in SlabType
        /\ stores[Default][st] \in SlabType
        /\ taken \in SlabType
    BY StoresWellFormed, InheritWellFormed DEF TypeInv, Context, WellFormed
  <1>2. Restored(src)[st] = IF st = "closures" THEN Sweep(taken, {}) ELSE taken
    BY DEF Restored, Clear
  <1>3. /\ taken.slots[i].high_water =
             Highest(stores[src][st].slots[i].high_water,
                     stores[Default][st].slots[i].high_water)
        /\ taken.slots[i].alive =>
             /\ stores[src][st].slots[i].alive
             /\ taken.slots[i].gen = stores[src][st].slots[i].gen
             /\ taken.slots[i].data = stores[src][st].slots[i].data
    BY <1>1, InheritSlot
  <1>4. /\ Sweep(taken, {}).slots[i].high_water = taken.slots[i].high_water
        /\ Sweep(taken, {}).slots[i].alive =>
             /\ taken.slots[i].alive
             /\ Sweep(taken, {}).slots[i].gen = taken.slots[i].gen
             /\ Sweep(taken, {}).slots[i].data = taken.slots[i].data
    BY <1>1, SweepSlot
  <1> HIDE DEF taken
  <1> QED
    BY <1>2, <1>3, <1>4

(* A restore keeps the default context sound: what is live was minted on   *)
(* one of the two sides, and what both had issued is known.                *)
LEMMA SoundRestored ==
  ASSUME TypeInv, NEW src \in Forks,
         Sound(stores[src], minted[src], doubled[src]),
         Sound(stores[Default], minted[Default], doubled[Default])
  PROVE  Sound(Restored(src), minted[Default] \cup minted[src],
               doubled[Default] \cup doubled[src] \cup IssuedTwice(src))
  <1> DEFINE ids == minted[Default] \cup minted[src]
             twice == doubled[Default] \cup doubled[src] \cup IssuedTwice(src)
  <1>1. ASSUME NEW st \in Store
        PROVE  stores[src][st] \in SlabType /\ stores[Default][st] \in SlabType
    BY StoresWellFormed DEF TypeInv, Context
  <1>2. ASSUME NEW st \in Store, NEW i \in Index
        PROVE  LET t == Restored(src)[st].slots[i] IN
               /\ t.high_water = Highest(stores[src][st].slots[i].high_water,
                                         stores[Default][st].slots[i].high_water)
               /\ t.alive => /\ stores[src][st].slots[i].alive
                             /\ t.gen = stores[src][st].slots[i].gen
                             /\ t.data = stores[src][st].slots[i].data
    BY RestoredSlot
  <1>3. UniqueIds(ids, twice)
    <2> SUFFICES ASSUME NEW a \in ids, NEW b \in ids, Collide(a, b) PROVE a \in twice
      BY DEF UniqueIds
    <2>1. CASE a \in minted[Default] /\ b \in minted[Default]
      BY <2>1 DEF Sound, UniqueIds
    <2>2. CASE a \in minted[src] /\ b \in minted[src]
      BY <2>2 DEF Sound, UniqueIds
    <2>3. CASE a \in minted[Default] /\ b \in minted[src]
      BY <2>3 DEF IssuedTwice
    <2>4. CASE a \in minted[src] /\ b \in minted[Default]
      BY <2>4 DEF IssuedTwice
    <2> QED
      BY <2>1, <2>2, <2>3, <2>4
  <1>4. LiveMinted(Restored(src), ids)
    BY <1>2 DEF Sound, LiveMinted, IdAt
  <1>5. IssuedOnly(Restored(src), ids)
    <2> SUFFICES ASSUME NEW id \in ids
                 PROVE  id.gen <= Restored(src)[id.store].slots[id.ix].high_water
      BY DEF IssuedOnly
    <2>1. id.store \in Store /\ id.ix \in Index /\ id.gen \in Generation
      BY DEF TypeInv, HoldersType, Id, Context
    <2>2. stores[Default][id.store].slots[id.ix] \in Slot
          /\ stores[src][id.store].slots[id.ix] \in Slot
      BY <1>1, <2>1 DEF SlabType
    <2>3. \/ id.gen <= stores[Default][id.store].slots[id.ix].high_water
          \/ id.gen <= stores[src][id.store].slots[id.ix].high_water
      BY DEF Sound, IssuedOnly
    <2> QED
      BY <1>2, <2>1, <2>2, <2>3, SlabAssumption
      DEF Highest, Slot, Generation, Never
  <1> HIDE DEF ids, twice
  <1>6. Sound(Restored(src), ids, twice)
    BY <1>3, <1>4, <1>5 DEF Sound
  <1> QED
    BY <1>6 DEF ids, twice

LEMMA NothingSound == Sound(NoStores, {}, {})
  <1>1. \A st \in Store, i \in Index : ~NoStores[st].slots[i].alive
    BY DEF NoStores, New
  <1> QED
    BY <1>1 DEF Sound, UniqueIds, LiveMinted, IssuedOnly

LEMMA InitIdentity == Init => IdentityInv
  BY NothingSound DEF Init, IdentityInv

(* A step that touches neither stores nor ids.                             *)
LEMMA SameIdentity ==
  ASSUME IdentityInv, UNCHANGED <<stores, minted, doubled>>
  PROVE  IdentityInv'
  BY DEF IdentityInv

LEMMA AllocateIdentity ==
  ASSUME TypeInv, IdentityInv, NEW c \in Context, NEW st \in Store, NEW child \in Value,
         NEW i \in Allocatable(stores[c][st]), Allocate(c, st, i, child), UNCHANGED doubled
  PROVE  IdentityInv'
  <1> DEFINE data == [obj |-> Len(made) + 1, child |-> child]
             id == FreshId(c, st, i)
  <1>1. HoldersType /\ StoresInv
    BY DEF TypeInv
  <1>2. /\ stores' = [stores EXCEPT ![c][st] = Alloc(stores[c][st], i, data)]
        /\ minted' = [minted EXCEPT ![c] = minted[c] \cup {id}]
    BY <1>1 DEF Allocate, StoresInv, StoresType, HoldersType
  <1>3. data \in Payload /\ data.obj = Len(made) + 1
    BY <1>1 DEF Payload, HoldersType
  <1>4. stores[c] \in StoresType /\ minted[c] \in SUBSET Id /\ WellFormed(stores[c][st])
        /\ Sound(stores[c], minted[c], doubled[c])
    BY <1>1, StoresWellFormed DEF StoresInv, HoldersType, IdentityInv
  <1>5. Sound([stores[c] EXCEPT ![st] = Alloc(stores[c][st], i, data)],
              minted[c] \cup {id}, doubled[c])
    <2>1. id = [store |-> st, ix |-> i, gen |-> NextGen(stores[c][st], i),
                obj |-> data.obj]
      BY <1>3 DEF FreshId
    <2> HIDE DEF data, id
    <2> QED
      BY <1>3, <1>4, <2>1, SoundAlloc
  <1> SUFFICES ASSUME NEW d \in Context PROVE Sound(stores'[d], minted'[d], doubled[d])
    BY DEF IdentityInv
  <1>6. CASE d = c
    <2>1. stores'[d] = [stores[c] EXCEPT ![st] = Alloc(stores[c][st], i, data)]
      BY <1>1, <1>2, <1>6 DEF StoresInv
    <2>2. minted'[d] = minted[c] \cup {id}
      BY <1>1, <1>2, <1>6 DEF HoldersType
    <2> QED
      BY <1>5, <1>6, <2>1, <2>2
  <1>7. CASE d # c
    <2>1. stores'[d] = stores[d] /\ minted'[d] = minted[d]
      BY <1>1, <1>2, <1>7 DEF StoresInv, HoldersType
    <2> QED
      BY <2>1 DEF IdentityInv
  <1> QED
    BY <1>6, <1>7

LEMMA MakeIdentity ==
  ASSUME TypeInv, IdentityInv, NEW s \in Stack, NEW st \in Store, Make(s, st)
  PROVE  IdentityInv'
  <1>1. CtxOf(s) \in Context /\ reg[s] \in Value
    BY CtxOfType DEF TypeInv, HoldersType
  <1> QED
    BY <1>1, AllocateIdentity DEF Make

LEMMA SetStateIdentity ==
  ASSUME TypeInv, IdentityInv, NEW s \in Stack, NEW k \in Slots, SetState(s, k)
  PROVE  IdentityInv'
  <1>1. CtxOf(s) \in Context /\ "heap" \in Store /\ UNCHANGED doubled
    BY CtxOfType DEF Store, SetState
  <1>2. CASE UNCHANGED <<stores, minted>>
    BY <1>1, <1>2, SameIdentity
  <1>3. CASE \E i \in Allocatable(stores[CtxOf(s)]["heap"]) :
               Allocate(CtxOf(s), "heap", i, Nil)
    BY <1>1, <1>3, NilType, AllocateIdentity
  <1> QED
    BY <1>2, <1>3 DEF SetState

LEMMA CollectIdentity ==
  ASSUME TypeInv, IdentityInv, NEW c \in Context, CollectGarbage(c)
  PROVE  IdentityInv'
  <1> DEFINE of(st) == {i \in Index : <<st, i>> \in Reached(c, ContextRoots(c))}
  <1>1. UNCHANGED <<minted, doubled>>
    BY DEF CollectGarbage
  <1> SUFFICES ASSUME NEW d \in Context PROVE Sound(stores'[d], minted[d], doubled[d])
    BY <1>1 DEF IdentityInv
  <1>2. CASE d = c
    <2>1. \A st \in Store : stores'[c][st] = Sweep(stores[c][st], of(st))
      BY DEF CollectGarbage, TypeInv, StoresInv
    <2>2. \A st \in Store : stores[c][st] \in SlabType
      BY StoresWellFormed DEF TypeInv
    <2> HIDE DEF of
    <2>3. \A st \in Store, i \in Index :
            /\ stores'[c][st].slots[i].high_water = stores[c][st].slots[i].high_water
            /\ stores'[c][st].slots[i].alive =>
                 /\ stores[c][st].slots[i].alive
                 /\ stores'[c][st].slots[i].gen = stores[c][st].slots[i].gen
                 /\ stores'[c][st].slots[i].data = stores[c][st].slots[i].data
      BY <2>1, <2>2, SweepSlot
    <2>4. minted[c] \in SUBSET Id /\ Sound(stores[c], minted[c], doubled[c])
      BY DEF TypeInv, HoldersType, IdentityInv
    <2> QED
      BY <1>2, <2>3, <2>4, SoundShrunk
  <1>3. CASE d # c
    BY <1>3 DEF CollectGarbage, TypeInv, StoresInv, IdentityInv
  <1> QED
    BY <1>2, <1>3

LEMMA ForkIdentity ==
  ASSUME TypeInv, IdentityInv, NEW src \in Stack, NEW f \in Forks, ForkExecution(src, f)
  PROVE  IdentityInv'
  <1>1. CtxOf(src) \in Context /\ f \in Context
    BY CtxOfType DEF Context
  <1>2. \A d \in Context :
          LET from == IF d = f THEN CtxOf(src) ELSE d IN
          /\ stores'[d] = stores[from]
          /\ minted'[d] = minted[from] /\ doubled'[d] = doubled[from]
    BY <1>1 DEF ForkExecution, TypeInv, StoresInv, HoldersType
  <1> QED
    BY <1>1, <1>2 DEF IdentityInv

LEMMA DropForkIdentity ==
  ASSUME TypeInv, IdentityInv, NEW f \in Forks, DropFork(f)
  PROVE  IdentityInv'
  <1>1. \A d \in Context :
          \/ /\ d # f /\ stores'[d] = stores[d]
             /\ minted'[d] = minted[d] /\ doubled'[d] = doubled[d]
          \/ d = f /\ stores'[d] = NoStores /\ minted'[d] = {} /\ doubled'[d] = {}
    BY DEF DropFork, TypeInv, StoresInv, HoldersType
  <1> QED
    BY <1>1, NothingSound DEF IdentityInv

LEMMA RestoreIdentity ==
  ASSUME TypeInv, IdentityInv, NEW dst \in Mains, NEW src \in Forks,
         RestoreExecution(dst, src)
  PROVE  IdentityInv'
  <1>1. Sound(Restored(src), minted[Default] \cup minted[src],
              doubled[Default] \cup doubled[src] \cup IssuedTwice(src))
    BY SoundRestored DEF IdentityInv, Context
  <1>2. /\ stores' = [stores EXCEPT ![Default] = Restored(src)]
        /\ minted' = [minted EXCEPT ![Default] = minted[Default] \cup minted[src]]
        /\ doubled' = [doubled EXCEPT ![Default] =
                         doubled[Default] \cup doubled[src] \cup IssuedTwice(src)]
    BY DEF RestoreExecution
  <1>3. /\ stores \in [Context -> StoresType]
        /\ minted \in [Context -> SUBSET Id] /\ doubled \in [Context -> SUBSET Id]
    BY DEF TypeInv, StoresInv, HoldersType
  <1> QED
    BY <1>1, <1>2, <1>3 DEF IdentityInv

LEMMA ReloadIdentity ==
  ASSUME TypeInv, IdentityInv, NEW s \in Mains, Reload(s)
  PROVE  IdentityInv'
  <1>1. Default \in Context /\ UNCHANGED <<minted, doubled>>
    BY DEF Context, Reload
  <1>2. \A st \in Store : stores[Default][st] \in SlabType
    BY <1>1, StoresWellFormed DEF TypeInv
  <1>3. \A st \in Store :
          stores'[Default][st] = IF st = "closures"
                                 THEN Sweep(stores[Default][st], {})
                                 ELSE stores[Default][st]
    BY <1>1 DEF Reload, Clear, TypeInv, StoresInv, StoresType
  <1>4. \A st \in Store, i \in Index :
          LET t == stores'[Default][st].slots[i] IN
          /\ t.high_water = stores[Default][st].slots[i].high_water
          /\ t.alive => /\ stores[Default][st].slots[i].alive
                        /\ t.gen = stores[Default][st].slots[i].gen
                        /\ t.data = stores[Default][st].slots[i].data
    BY <1>2, <1>3, SweepSlot
  <1>5. Sound(stores'[Default], minted[Default], doubled[Default])
    <2>1. minted[Default] \in SUBSET Id /\ Sound(stores[Default], minted[Default], doubled[Default])
      BY <1>1 DEF TypeInv, HoldersType, IdentityInv
    <2> QED
      BY <1>4, <2>1, SoundShrunk
  <1>6. \A d \in Context : d # Default => stores'[d] = stores[d]
    BY DEF Reload, TypeInv, StoresInv
  <1> QED
    BY <1>1, <1>5, <1>6 DEF IdentityInv

LEMMA NextIdentity == TypeInv /\ IdentityInv /\ [Next]_vars => IdentityInv'
  <1> SUFFICES ASSUME TypeInv, IdentityInv, [Next]_vars PROVE IdentityInv'
    OBVIOUS
  <1>1. ASSUME NEW s \in Stack, Script(s) PROVE IdentityInv'
    <2>1. ASSUME NEW st \in Store, Make(s, st) PROVE IdentityInv'
      BY <2>1, MakeIdentity
    <2>2. ASSUME \/ Begin(s) \/ Open(s) \/ LoadKept(s) \/ Keep(s) \/ EndRun(s)
                 \/ \E k \in Slots : LoadState(s, k) \/ StoreState(s, k)
          PROVE  IdentityInv'
      <3>1. UNCHANGED <<stores, minted, doubled>>
        BY <2>2 DEF Begin, Open, LoadKept, Keep, EndRun, LoadState, StoreState
      <3> QED
        BY <3>1, SameIdentity
    <2> QED
      BY <1>1, <2>1, <2>2 DEF Script
  <1>2. ASSUME NEW c \in Context, CollectGarbage(c) PROVE IdentityInv'
    BY <1>2, CollectIdentity
  <1>3. ASSUME NEW s \in Stack, NEW k \in Slots, SetState(s, k) PROVE IdentityInv'
    BY <1>3, SetStateIdentity
  <1>4. ASSUME NEW src \in Stack, NEW f \in Forks, ForkExecution(src, f)
        PROVE  IdentityInv'
    BY <1>4, ForkIdentity
  <1>5. ASSUME NEW f \in Forks, DropFork(f) PROVE IdentityInv'
    BY <1>5, DropForkIdentity
  <1>6. ASSUME NEW dst \in Mains, NEW src \in Forks, RestoreExecution(dst, src)
        PROVE  IdentityInv'
    BY <1>6, RestoreIdentity
  <1>7. ASSUME NEW s \in Mains, Reload(s) PROVE IdentityInv'
    BY <1>7, ReloadIdentity
  <1>8. CASE UNCHANGED vars
    BY <1>8, SameIdentity DEF vars
  <1> QED
    BY RunnersAreStacks, <1>1, <1>2, <1>3, <1>4, <1>5, <1>6, <1>7, <1>8 DEF Next

LEMMA IdentityNoAliasing == TypeInv /\ IdentityInv => NoAliasing
  <1> SUFFICES ASSUME TypeInv, IdentityInv, NEW c \in Context,
                      NEW id \in minted[c] \ doubled[c], Names(c, id)
               PROVE  Get(stores[c][id.store], id).obj = id.obj
    BY DEF NoAliasing
  <1>1. id.store \in Store /\ id.ix \in Index
    BY DEF TypeInv, HoldersType, Id
  <1> DEFINE there == IdAt(stores[c], id.store, id.ix)
  <1>2. there \in minted[c]
    BY <1>1 DEF Names, IsLive, IdentityInv, Sound, LiveMinted
  <1>3. ~Collide(id, there)
    BY <1>2 DEF IdentityInv, Sound, UniqueIds
  <1>4. there.store = id.store /\ there.ix = id.ix /\ there.gen = id.gen
    BY DEF IdAt, Names, IsLive
  <1>5. there.obj = id.obj
    BY <1>3, <1>4 DEF Collide
  <1> QED
    BY <1>5 DEF IdAt, Get

(* No id ever names another object than its own, whatever is collected,    *)
(* set by the host, forked, restored and reloaded, unless the default      *)
(* context and a fork both issued it before the fork was restored (heap.rs:*)
(* high_water, sweep_with, inherit_generations; env/fork.rs;               *)
(* env/state_json.rs).                                                     *)
THEOREM IdsNameTheirObjects == Spec => []NoAliasing
  <1>1. Init => TypeInv /\ IdentityInv
    BY InitTypeInv, InitIdentity
  <1>2. TypeInv /\ IdentityInv /\ [Next]_vars => (TypeInv /\ IdentityInv)'
    BY NextTypeInv, NextIdentity
  <1> QED
    BY <1>1, <1>2, IdentityNoAliasing, PTL DEF Spec

-----------------------------------------------------------------------------
(* Reachability. A set of slots supports a context's roots when every root *)
(* names a slot of the set, where its own object is, and every object in   *)
(* it refers into the set likewise.                                        *)

ChildAt(both, p) == both[p[1]].slots[p[2]].data.child

Points(both, M, v) ==
  \/ v = Nil
  \/ /\ v \in Id /\ IsLive(both[v.store], v) /\ <<v.store, v.ix>> \in M
     /\ both[v.store].slots[v.ix].data.obj = v.obj

Good(both, M) ==
  \A p \in M : both[p[1]].slots[p[2]].alive /\ Points(both, M, ChildAt(both, p))

Supports(both, M, roots) ==
  Good(both, M) /\ \A v \in roots : Points(both, M, v)

RootsInv ==
  \A c \in Context : \E M \in SUBSET (Store \X Index) :
    Supports(stores[c], M, ContextRoots(c))

(* What stacks and objects hold was minted in their context.               *)
HeldInv ==
  /\ \A s \in live : Roots(s) \subseteq minted[CtxOf(s)] \cup {Nil}
  /\ \A c \in Context, st \in Store, i \in Index :
       stores[c][st].slots[i].alive =>
         ChildAt(stores[c], <<st, i>>) \in minted[c] \cup {Nil}

LEMMA NilNoId == Nil \notin Id
  BY DEF Nil, Id, Store

(* The slots of a supporting set carry over to stores that keep them.      *)
LEMMA GoodCarried ==
  ASSUME NEW old, NEW new, NEW M \in SUBSET (Store \X Index), NEW roots,
         Supports(old, M, roots),
         \A p \in M : /\ new[p[1]].slots[p[2]].alive
                      /\ new[p[1]].slots[p[2]].gen = old[p[1]].slots[p[2]].gen
                      /\ new[p[1]].slots[p[2]].data = old[p[1]].slots[p[2]].data
  PROVE  Supports(new, M, roots)
  <1>1. ASSUME NEW v, Points(old, M, v) PROVE Points(new, M, v)
    <2>1. CASE v = Nil
      BY <2>1 DEF Points
    <2>2. CASE v # Nil
      <3> DEFINE p == <<v.store, v.ix>>
      <3>1. /\ v \in Id /\ IsLive(old[v.store], v) /\ p \in M
            /\ old[v.store].slots[v.ix].data.obj = v.obj
        BY <1>1, <2>2 DEF Points
      <3>2. p[1] = v.store /\ p[2] = v.ix
        OBVIOUS
      <3>3. IsLive(new[v.store], v) /\ new[v.store].slots[v.ix].data.obj = v.obj
        BY <3>1, <3>2 DEF IsLive
      <3> QED
        BY <3>1, <3>3 DEF Points
    <2> QED
      BY <2>1, <2>2
  <1>2. \A p \in M : ChildAt(new, p) = ChildAt(old, p)
    BY DEF ChildAt
  <1> QED
    BY <1>1, <1>2 DEF Supports, Good

(* What the roots of a supported context reach lies in the supporting set, *)
(* and supports them by itself.                                            *)
LEMMA ReachedInside ==
  ASSUME NEW c \in Context, NEW M \in SUBSET (Store \X Index), NEW roots,
         Supports(stores[c], M, roots)
  PROVE  Reached(c, roots) \subseteq M
  <1>1. M \in SUBSET LiveSlots(c)
    BY DEF Supports, Good, LiveSlots
  <1>2. \A v \in roots : (IF Names(c, v) THEN {<<v.store, v.ix>>} ELSE {}) \subseteq M
    BY DEF Supports, Points, Names
  <1>3. \A p \in M : (IF Names(c, Child(c, p))
                      THEN {<<Child(c, p).store, Child(c, p).ix>>} ELSE {}) \subseteq M
    BY DEF Supports, Good, Points, Names, ChildAt, Child
  <1> QED
    BY <1>1, <1>2, <1>3 DEF Reached

LEMMA ReachedClosed ==
  ASSUME NEW c \in Context, NEW roots
  PROVE  /\ Reached(c, roots) \in SUBSET LiveSlots(c)
         /\ \A v \in roots : v \in Id /\ Names(c, v) =>
              <<v.store, v.ix>> \in Reached(c, roots)
         /\ \A p \in Reached(c, roots) :
              Child(c, p) \in Id /\ Names(c, Child(c, p)) =>
                <<Child(c, p).store, Child(c, p).ix>> \in Reached(c, roots)
  <1> DEFINE Target(v) == IF Names(c, v) THEN {<<v.store, v.ix>>} ELSE {}
             ClosedMark(M) == /\ \A v \in roots : Target(v) \subseteq M
                              /\ \A p \in M : Target(Child(c, p)) \subseteq M
  <1>1. Reached(c, roots) =
          {p \in LiveSlots(c) : \A M \in SUBSET LiveSlots(c) : ClosedMark(M) => p \in M}
    BY DEF Reached
  <1>2. ASSUME NEW v \in Id, Names(c, v) PROVE <<v.store, v.ix>> \in LiveSlots(c)
    BY <1>2 DEF Names, IsLive, LiveSlots, Id
  <1>3. ASSUME NEW v \in roots, v \in Id, Names(c, v)
        PROVE  <<v.store, v.ix>> \in Reached(c, roots)
    <2>1. \A M \in SUBSET LiveSlots(c) : ClosedMark(M) => <<v.store, v.ix>> \in M
      BY <1>3
    <2> HIDE DEF ClosedMark
    <2> QED
      BY <1>1, <1>2, <1>3, <2>1
  <1>4. ASSUME NEW p \in Reached(c, roots), Child(c, p) \in Id, Names(c, Child(c, p))
        PROVE  <<Child(c, p).store, Child(c, p).ix>> \in Reached(c, roots)
    <2>1. \A M \in SUBSET LiveSlots(c) :
            ClosedMark(M) => <<Child(c, p).store, Child(c, p).ix>> \in M
      BY <1>1, <1>4
    <2> HIDE DEF ClosedMark
    <2> QED
      BY <1>1, <1>2, <1>4, <2>1
  <1>5. Reached(c, roots) \in SUBSET LiveSlots(c)
    BY <1>1
  <1> QED
    BY <1>3, <1>4, <1>5

LEMMA ReachedSupports ==
  ASSUME NEW c \in Context, NEW M \in SUBSET (Store \X Index), NEW roots,
         Supports(stores[c], M, roots)
  PROVE  /\ Reached(c, roots) \in SUBSET (Store \X Index)
         /\ Supports(stores[c], Reached(c, roots), roots)
  <1> DEFINE R == Reached(c, roots)
  <1>1. R \subseteq M
    BY ReachedInside
  <1>2. \A v \in roots : Points(stores[c], R, v)
    BY NilNoId, ReachedClosed DEF Supports, Points, Names
  <1>3. ASSUME NEW p \in R PROVE Points(stores[c], R, ChildAt(stores[c], p))
    <2>1. ChildAt(stores[c], p) = Child(c, p)
      BY DEF ChildAt, Child
    <2>2. Points(stores[c], M, Child(c, p))
      BY <1>1, <2>1 DEF Supports, Good
    <2>3. CASE Child(c, p) = Nil
      BY <2>1, <2>3 DEF Points
    <2>4. CASE Child(c, p) # Nil
      <3>1. Child(c, p) \in Id /\ Names(c, Child(c, p))
        BY <2>2, <2>4 DEF Points, Names
      <3>2. <<Child(c, p).store, Child(c, p).ix>> \in R
        BY <3>1, ReachedClosed
      <3> QED
        BY <2>1, <2>2, <2>4, <3>2 DEF Points
    <2> QED
      BY <2>3, <2>4
  <1>4. Good(stores[c], R)
    BY <1>1, <1>3 DEF Good, Supports
  <1> QED
    BY <1>1, <1>2, <1>4 DEF Supports

(* Fewer roots need no more support.                                       *)
LEMMA FewerRoots ==
  ASSUME NEW both, NEW M, NEW roots, Supports(both, M, roots),
         NEW fewer, fewer \subseteq roots \cup {Nil}
  PROVE  Supports(both, M, fewer)
  BY DEF Supports, Points

(* Roots that hold no function are supported by heap slots alone.          *)
LEMMA HeapSupports ==
  ASSUME NEW c \in Context, NEW M \in SUBSET (Store \X Index), NEW roots,
         Supports(stores[c], M, roots),
         \A v \in roots : ~HoldsFunction(c, v)
  PROVE  \E H \in SUBSET ({"heap"} \X Index) : Supports(stores[c], H, roots)
  <1> DEFINE H == {p \in M : \E v \in roots : p \in Reached(c, {v})}
  <1>1. ASSUME NEW v \in roots
        PROVE  /\ Supports(stores[c], Reached(c, {v}), {v})
               /\ Reached(c, {v}) \subseteq H
    <2>1. Supports(stores[c], M, {v})
      BY FewerRoots
    <2> QED
      BY <2>1, ReachedSupports, ReachedInside
  <1>2. \A v \in roots : Points(stores[c], H, v)
    BY <1>1 DEF Supports, Points
  <1>3. Good(stores[c], H)
    BY <1>1 DEF Supports, Good, Points
  <1>4. H \in SUBSET ({"heap"} \X Index)
    <2> SUFFICES ASSUME NEW p \in H PROVE p \in {"heap"} \X Index
      OBVIOUS
    <2>1. p \in Store \X Index /\ p[1] # "closures"
      BY DEF HoldsFunction
    <2> QED
      BY <2>1 DEF Store
  <1> QED
    BY <1>2, <1>3, <1>4 DEF Supports

LEMMA RootOf ==
  \A c, v : v \in ContextRoots(c) <=> \E s \in live : CtxOf(s) = c /\ v \in Roots(s)
  BY DEF ContextRoots

(* A step that keeps stores and stacks and leaves each stack roots it had, *)
(* or what one of them refers to.                                          *)
LEMMA SameSupport ==
  ASSUME TypeInv, RootsInv, HeldInv, UNCHANGED <<stores, live>>,
         \A c \in Context : minted[c] \subseteq minted'[c],
         \A s \in live : \A v \in Roots(s)' :
           \/ v \in Roots(s) \cup {Nil}
           \/ \E u \in Roots(s) : u # Nil /\ v = ChildAt(stores[CtxOf(s)], <<u.store, u.ix>>)
  PROVE  RootsInv' /\ HeldInv'
  <1>1. ASSUME NEW s \in live, NEW M, Supports(stores[CtxOf(s)], M, ContextRoots(CtxOf(s)))
        PROVE  \A v \in Roots(s)' : Points(stores[CtxOf(s)], M, v)
    <2> SUFFICES ASSUME NEW v \in Roots(s)' PROVE Points(stores[CtxOf(s)], M, v)
      OBVIOUS
    <2>1. CASE v \in Roots(s) \cup {Nil}
      BY <1>1, <2>1, RootOf DEF Supports, Points
    <2>2. ASSUME NEW u \in Roots(s), u # Nil,
                 v = ChildAt(stores[CtxOf(s)], <<u.store, u.ix>>)
          PROVE  Points(stores[CtxOf(s)], M, v)
      <3>1. <<u.store, u.ix>> \in M
        BY <1>1, <2>2, RootOf DEF Supports, Points
      <3> QED
        BY <1>1, <2>2, <3>1 DEF Supports, Good
    <2> QED
      BY <2>1, <2>2
  <1>2. RootsInv'
    <2> SUFFICES ASSUME NEW c \in Context
                 PROVE  \E M \in SUBSET (Store \X Index) :
                          Supports(stores[c], M, ContextRoots(c)')
      BY DEF RootsInv
    <2>1. PICK M \in SUBSET (Store \X Index) : Supports(stores[c], M, ContextRoots(c))
      BY DEF RootsInv
    <2>2. \A v \in ContextRoots(c)' : Points(stores[c], M, v)
      <3> SUFFICES ASSUME NEW v \in ContextRoots(c)' PROVE Points(stores[c], M, v)
        OBVIOUS
      <3>1. PICK s \in live : CtxOf(s) = c /\ v \in Roots(s)'
        BY DEF ContextRoots
      <3> QED
        BY <1>1, <2>1, <3>1
    <2> QED
      BY <2>1, <2>2 DEF Supports
  <1>3. ASSUME NEW s \in live PROVE Roots(s)' \subseteq minted'[CtxOf(s)] \cup {Nil}
    <2> SUFFICES ASSUME NEW v \in Roots(s)'
                 PROVE  v \in minted[CtxOf(s)] \cup {Nil}
      BY CtxOfType DEF TypeInv, HoldersType
    <2>1. CASE v \in Roots(s) \cup {Nil}
      BY <2>1 DEF HeldInv
    <2>2. ASSUME NEW u \in Roots(s), u # Nil,
                 v = ChildAt(stores[CtxOf(s)], <<u.store, u.ix>>)
          PROVE  v \in minted[CtxOf(s)] \cup {Nil}
      <3>1. CtxOf(s) \in Context
        BY CtxOfType DEF TypeInv, HoldersType
      <3>2. PICK M \in SUBSET (Store \X Index) :
              Supports(stores[CtxOf(s)], M, ContextRoots(CtxOf(s)))
        BY <3>1 DEF RootsInv
      <3>3. u \in Id /\ IsLive(stores[CtxOf(s)][u.store], u)
        BY <2>2, <3>2, RootOf DEF Supports, Points
      <3> QED
        BY <2>2, <3>1, <3>3 DEF HeldInv, IsLive, Id
    <2> QED
      BY <2>1, <2>2
  <1>4. HeldInv'
    BY <1>3 DEF HeldInv
  <1> QED
    BY <1>2, <1>4

LEMMA QuietScriptRoots ==
  ASSUME TypeInv, RootsInv, HeldInv, NEW s \in Stack,
         \/ Begin(s) \/ Open(s) \/ LoadKept(s) \/ Keep(s) \/ EndRun(s)
         \/ \E k \in Slots : LoadState(s, k) \/ StoreState(s, k)
  PROVE  RootsInv' /\ HeldInv'
  <1>1. UNCHANGED <<stores, live, minted>>
    BY DEF Begin, Open, LoadKept, Keep, EndRun, LoadState, StoreState
  <1>2. ASSUME NEW t \in live
        PROVE  t \in Stack /\ reg[t] \in Roots(t) /\ kept[t] \in Roots(t)
               /\ \A k \in Slots : state[t][k] \in Roots(t)
    BY DEF TypeInv, HoldersType, Roots
  <1> DEFINE Had(t, v) ==
        \/ v \in Roots(t) \cup {Nil}
        \/ \E u \in Roots(t) : u # Nil /\ v = ChildAt(stores[CtxOf(t)], <<u.store, u.ix>>)
  <1>3. ASSUME NEW t \in live
        PROVE  /\ Had(t, reg'[t]) /\ Had(t, kept'[t])
               /\ \A k \in Slots : Had(t, state'[t][k])
    <2>1. CASE t # s
      <3>1. reg'[t] = reg[t] /\ kept'[t] = kept[t] /\ state'[t] = state[t]
        BY <1>2, <2>1
        DEF Begin, Open, LoadKept, Keep, EndRun, LoadState, StoreState, TypeInv, HoldersType
      <3> QED
        BY <1>2, <3>1
    <2>2. CASE t = s
      <3>1. CASE Begin(s)
        BY <1>2, <2>2, <3>1 DEF Begin, TypeInv, HoldersType
      <3>2. CASE Open(s)
        <4>1. reg'[s] = ChildAt(stores[CtxOf(s)], <<reg[s].store, reg[s].ix>>)
          BY <1>2, <2>2, <3>2 DEF Open, Get, ChildAt, TypeInv, HoldersType
        <4>2. reg[s] # Nil /\ kept' = kept /\ state' = state
          BY <3>2 DEF Open
        <4> QED
          BY <1>2, <2>2, <4>1, <4>2
      <3>3. CASE LoadKept(s)
        BY <1>2, <2>2, <3>3 DEF LoadKept, TypeInv, HoldersType
      <3>4. CASE Keep(s)
        BY <1>2, <2>2, <3>4 DEF Keep, TypeInv, HoldersType
      <3>5. CASE EndRun(s)
        <4>1. \A k \in Slots : state'[s][k] \in {Nil, state[s][k]}
          BY <1>2, <2>2, <3>5 DEF EndRun, TypeInv, HoldersType
        <4>2. reg' = reg /\ kept' = kept
          BY <3>5 DEF EndRun
        <4> QED
          BY <1>2, <2>2, <4>1, <4>2
      <3>6. ASSUME NEW k \in Slots, LoadState(s, k)
            PROVE  /\ Had(t, reg'[t]) /\ Had(t, kept'[t])
                   /\ \A j \in Slots : Had(t, state'[t][j])
        BY <1>2, <2>2, <3>6 DEF LoadState, TypeInv, HoldersType
      <3>7. ASSUME NEW k \in Slots, StoreState(s, k)
            PROVE  /\ Had(t, reg'[t]) /\ Had(t, kept'[t])
                   /\ \A j \in Slots : Had(t, state'[t][j])
        <4>1. \A j \in Slots : state'[s][j] \in {reg[s], state[s][j]}
          BY <1>2, <2>2, <3>7 DEF StoreState, TypeInv, HoldersType
        <4>2. reg' = reg /\ kept' = kept
          BY <3>7 DEF StoreState
        <4> QED
          BY <1>2, <2>2, <4>1, <4>2
      <3> QED
        BY <3>1, <3>2, <3>3, <3>4, <3>5, <3>6, <3>7
    <2> QED
      BY <2>1, <2>2
  <1>4. ASSUME NEW t \in live, NEW v \in Roots(t)' PROVE Had(t, v)
    <2>1. v = reg'[t] \/ v = kept'[t] \/ \E k \in Slots : v = state'[t][k]
      BY <1>4 DEF Roots
    <2> HIDE DEF Had
    <2> QED
      BY <1>3, <2>1
  <1> QED
    BY <1>1, <1>4, SameSupport

(* A slot that may be allocated is dead.                                   *)
LEMMA AllocatableDead ==
  ASSUME TypeInv, IdentityInv, NEW c \in Context, NEW st \in Store,
         NEW i \in Allocatable(stores[c][st])
  PROVE  i \in Index /\ ~stores[c][st].slots[i].alive
  <1>1. WellFormed(stores[c][st])
    BY StoresWellFormed DEF TypeInv
  <1>2. i \in Index
    BY <1>1, NextGenType
  <1>3. CASE stores[c][st].free # {}
    BY <1>1, <1>3 DEF Allocatable, WellFormed, FreeOf
  <1>4. CASE stores[c][st].free = {}
    <2>1. stores[c][st].slots[i].high_water = Never
      BY <1>4 DEF Allocatable, Exists
    <2> SUFFICES ASSUME stores[c][st].slots[i].alive PROVE FALSE
      BY <1>2
    <2> DEFINE id == IdAt(stores[c], st, i)
    <2>2. id \in minted[c] /\ id.store = st /\ id.ix = i
      BY <1>2 DEF IdentityInv, Sound, LiveMinted, IdAt
    <2>3. id.gen \in Generation /\ id.gen <= Never
      BY <2>1, <2>2 DEF TypeInv, HoldersType, IdentityInv, Sound, IssuedOnly, Id
    <2> QED
      BY <2>3, SlabAssumption DEF Generation, Never
  <1> QED
    BY <1>2, <1>3, <1>4

(* An allocation for a stack: what it makes may become a root of it.       *)
LEMMA AllocateRoots ==
  ASSUME TypeInv, IdentityInv, RootsInv, HeldInv,
         NEW s \in live, NEW st \in Store, NEW child \in Roots(s) \cup {Nil},
         NEW i \in Allocatable(stores[CtxOf(s)][st]),
         Allocate(CtxOf(s), st, i, child), UNCHANGED live,
         \A t \in live : /\ t # s => Roots(t)' = Roots(t)
                         /\ t = s => Roots(t)' \subseteq
                                        Roots(t) \cup {FreshId(CtxOf(s), st, i)}
  PROVE  RootsInv' /\ HeldInv'
  <1> DEFINE c == CtxOf(s)
             slab == stores[c][st]
             id == FreshId(c, st, i)
             data == [obj |-> Len(made) + 1, child |-> child]
             slot == [alive |-> TRUE, gen |-> NextGen(slab, i),
                      high_water |-> NextGen(slab, i), data |-> data]
  <1>1. c \in Context /\ HoldersType /\ StoresInv
    BY CtxOfType DEF TypeInv, HoldersType
  <1>2. /\ stores' = [stores EXCEPT ![c][st] = Alloc(stores[c][st], i, data)]
        /\ minted' = [minted EXCEPT ![c] = minted[c] \cup {id}]
    BY <1>1 DEF Allocate, StoresInv, StoresType, HoldersType
  <1>3. i \in Index /\ ~slab.slots[i].alive
    BY <1>1, AllocatableDead
  <1>4. id \in Id /\ id # Nil
    BY <1>1, NextGenType, StoresWellFormed, NilNoId DEF Id, HoldersType, FreshId
  <1>5. \A t \in Store, j \in Index :
          stores'[c][t].slots[j] = IF t = st /\ j = i THEN slot ELSE stores[c][t].slots[j]
    <2>1. stores[c][st].slots \in [Index -> Slot]
      BY <1>1, StoresWellFormed DEF SlabType
    <2> QED
      BY <1>1, <1>2, <1>3, <2>1 DEF StoresInv, StoresType, Alloc
  <1>6. \A d \in Context : d # c => stores'[d] = stores[d] /\ minted'[d] = minted[d]
    BY <1>1, <1>2 DEF StoresInv, HoldersType
  <1>7. minted'[c] = minted[c] \cup {id}
    BY <1>1, <1>2 DEF HoldersType
  <1>8. \A t \in live : /\ t # s => Roots(t)' = Roots(t)
                        /\ t = s => Roots(t)' \subseteq Roots(t) \cup {id}
    OBVIOUS
  <1>9. child \in minted[c] \cup {Nil}
    BY DEF HeldInv
  <1>10. id.store = st /\ id.ix = i /\ id.gen = NextGen(slab, i) /\ id.obj = data.obj
    BY DEF FreshId
  <1> HIDE DEF c, id
  <1>11. RootsInv'
    <2> SUFFICES ASSUME NEW d \in Context
                 PROVE  \E M \in SUBSET (Store \X Index) :
                          Supports(stores'[d], M, ContextRoots(d)')
      BY DEF RootsInv
    <2>1. PICK M \in SUBSET (Store \X Index) : Supports(stores[d], M, ContextRoots(d))
      BY DEF RootsInv
    <2>2. CASE d # c
      <3>1. ContextRoots(d)' = ContextRoots(d)
        BY <1>8, <2>2 DEF ContextRoots, c
      <3> QED
        BY <1>6, <2>1, <2>2, <3>1
    <2>3. CASE d = c
      <3> DEFINE here == <<st, i>>
                 N == M \cup {here}
      <3>1. here \notin M
        BY <1>3, <2>1, <2>3 DEF Supports, Good
      <3>2. Supports(stores'[c], M, ContextRoots(c) \cup {Nil})
        <4>1. ASSUME NEW p \in M
              PROVE  /\ stores'[c][p[1]].slots[p[2]].alive
                     /\ stores'[c][p[1]].slots[p[2]] = stores[c][p[1]].slots[p[2]]
          <5>1. p[1] \in Store /\ p[2] \in Index /\ p = <<p[1], p[2]>>
            OBVIOUS
          <5>2. ~(p[1] = st /\ p[2] = i)
            BY <3>1, <5>1
          <5> QED
            BY <1>5, <2>1, <2>3, <5>1, <5>2 DEF Supports, Good
        <4>2. Supports(stores'[c], M, ContextRoots(c))
          BY <2>1, <2>3, <4>1, GoodCarried
        <4> QED
          BY <4>2, FewerRoots
      <3>3. Points(stores'[c], M, child)
        <4>1. child \in ContextRoots(c) \cup {Nil}
          BY RootOf DEF c
        <4> QED
          BY <3>2, <4>1 DEF Supports
      <3>4. ChildAt(stores'[c], here) = child /\ stores'[c][st].slots[i].alive
            /\ stores'[c][st].slots[i].gen = NextGen(slab, i)
            /\ stores'[c][st].slots[i].data.obj = data.obj
        BY <1>3, <1>5 DEF ChildAt
      <3>5. Points(stores'[c], N, id)
        BY <1>4, <1>10, <3>4 DEF Points, IsLive
      <3>6. \A v : Points(stores'[c], M, v) => Points(stores'[c], N, v)
        BY DEF Points
      <3>7. Good(stores'[c], N)
        <4>1. here[1] = st /\ here[2] = i
          OBVIOUS
        <4>2. ASSUME NEW p \in M
              PROVE  /\ stores'[c][p[1]].slots[p[2]].alive
                     /\ Points(stores'[c], N, ChildAt(stores'[c], p))
          BY <3>2, <3>6 DEF Good, Supports
        <4>3. /\ stores'[c][here[1]].slots[here[2]].alive
              /\ Points(stores'[c], N, ChildAt(stores'[c], here))
          BY <3>3, <3>4, <3>6, <4>1
        <4>4. \A p \in N : p \in M \/ p = here
          OBVIOUS
        <4> HIDE DEF N, here
        <4> QED
          BY <4>2, <4>3, <4>4 DEF Good
      <3>8. \A v \in ContextRoots(c)' : v \in ContextRoots(c) \cup {id}
        BY <1>8, RootOf DEF ContextRoots
      <3>9. Supports(stores'[c], N, ContextRoots(c)')
        BY <3>2, <3>5, <3>6, <3>7, <3>8 DEF Supports
      <3>10. N \in SUBSET (Store \X Index)
        BY <1>3
      <3> HIDE DEF N
      <3> QED
        BY <2>3, <3>9, <3>10
    <2> QED
      BY <2>2, <2>3
  <1>12. HeldInv'
    <2>1. ASSUME NEW t \in live PROVE Roots(t)' \subseteq minted'[CtxOf(t)] \cup {Nil}
      <3>1. Roots(t) \subseteq minted[CtxOf(t)] \cup {Nil} /\ CtxOf(t) \in Context
        BY <1>1, CtxOfType DEF HeldInv, HoldersType
      <3>2. minted[CtxOf(t)] \subseteq minted'[CtxOf(t)]
        BY <1>6, <1>7, <3>1
      <3> QED
        BY <1>7, <1>8, <3>1, <3>2 DEF c
    <2>2. ASSUME NEW d \in Context, NEW t \in Store, NEW j \in Index,
                 stores'[d][t].slots[j].alive
          PROVE  ChildAt(stores'[d], <<t, j>>) \in minted'[d] \cup {Nil}
      <3>1. CASE d = c /\ t = st /\ j = i
        <4>1. ChildAt(stores'[d], <<t, j>>) = child
          BY <1>5, <3>1 DEF ChildAt
        <4> QED
          BY <1>7, <1>9, <3>1, <4>1
      <3>2. CASE ~(d = c /\ t = st /\ j = i)
        <4>1. stores'[d][t].slots[j] = stores[d][t].slots[j]
          BY <1>5, <1>6, <3>2
        <4>2. minted[d] \subseteq minted'[d]
          BY <1>6, <1>7
        <4> QED
          BY <2>2, <4>1, <4>2 DEF HeldInv, ChildAt
      <3> QED
        BY <3>1, <3>2
    <2> QED
      BY <2>1, <2>2 DEF HeldInv
  <1> QED
    BY <1>11, <1>12

LEMMA MakeRoots ==
  ASSUME TypeInv, IdentityInv, RootsInv, HeldInv,
         NEW s \in Stack, NEW st \in Store, Make(s, st)
  PROVE  RootsInv' /\ HeldInv'
  <1>1. s \in live /\ reg[s] \in Roots(s) /\ reg \in [Stack -> Value]
    BY DEF TypeInv, Make, HoldersType, Roots
  <1>2. PICK i \in Allocatable(stores[CtxOf(s)][st]) :
          /\ Allocate(CtxOf(s), st, i, reg[s])
          /\ reg' = [reg EXCEPT ![s] = FreshId(CtxOf(s), st, i)]
    BY DEF Make
  <1>3. UNCHANGED <<live, kept, state>>
    BY DEF Make
  <1>4. \A t \in live : /\ t # s => Roots(t)' = Roots(t)
                        /\ t = s => Roots(t)' \subseteq
                                        Roots(t) \cup {FreshId(CtxOf(s), st, i)}
    BY <1>1, <1>2, <1>3 DEF Roots, TypeInv, HoldersType
  <1> QED
    BY <1>1, <1>2, <1>3, <1>4, AllocateRoots

LEMMA SetStateRoots ==
  ASSUME TypeInv, IdentityInv, RootsInv, HeldInv,
         NEW s \in Stack, NEW k \in Slots, SetState(s, k)
  PROVE  RootsInv' /\ HeldInv'
  <1>1. /\ s \in live /\ "heap" \in Store /\ UNCHANGED <<live, reg, kept>>
        /\ state \in [Stack -> [Slots -> Value]] /\ live \subseteq Stack
    BY DEF TypeInv, HoldersType, SetState, Store
  <1>2. ASSUME NEW v, state' = [state EXCEPT ![s][k] = v], NEW t \in live
        PROVE  /\ t # s => Roots(t)' = Roots(t)
               /\ t = s => Roots(t)' \subseteq Roots(t) \cup {v}
    <2>1. t # s => state'[t] = state[t]
      BY <1>1, <1>2
    <2>2. \A j \in Slots : state'[s][j] = IF j = k THEN v ELSE state[s][j]
      BY <1>1, <1>2
    <2> QED
      BY <1>1, <2>1, <2>2 DEF Roots
  <1>3. CASE state' = [state EXCEPT ![s][k] = Nil] /\ UNCHANGED <<stores, minted, made>>
    <2>1. \A t \in live : \A v \in Roots(t)' : v \in Roots(t) \cup {Nil}
      BY <1>2, <1>3
    <2> QED
      BY <1>1, <1>3, <2>1, SameSupport
  <1>4. ASSUME NEW i \in Allocatable(stores[CtxOf(s)]["heap"]),
               Allocate(CtxOf(s), "heap", i, Nil),
               state' \in {state, [state EXCEPT ![s][k] = FreshId(CtxOf(s), "heap", i)]}
        PROVE  RootsInv' /\ HeldInv'
    <2> DEFINE id == FreshId(CtxOf(s), "heap", i)
    <2>1. \A t \in live : /\ t # s => Roots(t)' = Roots(t)
                          /\ t = s => Roots(t)' \subseteq Roots(t) \cup {id}
      <3>1. CASE state' = state
        BY <1>1, <3>1 DEF Roots
      <3>2. CASE state' = [state EXCEPT ![s][k] = id]
        <4> HIDE DEF id
        <4> QED
          BY <1>2, <3>2
      <3> QED
        BY <1>4, <3>1, <3>2
    <2> QED
      BY <1>1, <1>4, <2>1, AllocateRoots
  <1> QED
    BY <1>3, <1>4 DEF SetState

(* A sweep leaves a marked slot as it is.                                  *)
LEMMA SweepKeeps ==
  ASSUME NEW s, NEW marked, NEW i \in Index \cap marked
  PROVE  Sweep(s, marked).slots[i] = s.slots[i]
  BY DEF Sweep

LEMMA CollectRoots ==
  ASSUME TypeInv, RootsInv, HeldInv, NEW c \in Context, CollectGarbage(c)
  PROVE  RootsInv' /\ HeldInv'
  <1> DEFINE R == Reached(c, ContextRoots(c))
             of(st) == {i \in Index : <<st, i>> \in R}
  <1>1. \A st \in Store : stores'[c][st] = Sweep(stores[c][st], of(st))
    BY DEF CollectGarbage, TypeInv, StoresInv
  <1>2. \A d \in Context : d # c => stores'[d] = stores[d]
    BY DEF CollectGarbage, TypeInv, StoresInv
  <1>3. UNCHANGED <<live, reg, state, kept, minted>>
    BY DEF CollectGarbage
  <1>4. (\A d : ContextRoots(d)' = ContextRoots(d)) /\ \A s : Roots(s)' = Roots(s)
    BY <1>3 DEF ContextRoots, Roots
  <1>5. RootsInv'
    <2> SUFFICES ASSUME NEW d \in Context
                 PROVE  \E M \in SUBSET (Store \X Index) :
                          Supports(stores'[d], M, ContextRoots(d))
      BY <1>4 DEF RootsInv
    <2>1. CASE d # c
      BY <1>2, <2>1 DEF RootsInv
    <2>2. CASE d = c
      <3>1. R \in SUBSET (Store \X Index) /\ Supports(stores[c], R, ContextRoots(c))
        BY ReachedSupports DEF RootsInv
      <3>2. ASSUME NEW p \in R
            PROVE  stores'[c][p[1]].slots[p[2]] = stores[c][p[1]].slots[p[2]]
        <4>1. p[1] \in Store /\ p[2] \in Index /\ p = <<p[1], p[2]>>
          BY <3>1
        <4>2. p[2] \in of(p[1])
          BY <4>1
        <4> HIDE DEF of
        <4> QED
          BY <1>1, <4>1, <4>2, SweepKeeps
      <3>3. \A p \in R : stores[c][p[1]].slots[p[2]].alive
        BY <3>1 DEF Supports, Good
      <3> HIDE DEF R
      <3>4. Supports(stores'[c], R, ContextRoots(c))
        BY <3>1, <3>2, <3>3, GoodCarried
      <3> QED
        BY <2>2, <3>1, <3>4
    <2> QED
      BY <2>1, <2>2
  <1>6. HeldInv'
    <2> SUFFICES ASSUME NEW d \in Context, NEW st \in Store, NEW i \in Index,
                        stores'[d][st].slots[i].alive
                 PROVE  ChildAt(stores'[d], <<st, i>>) \in minted[d] \cup {Nil}
      BY <1>3, <1>4 DEF HeldInv
    <2>1. CASE d # c
      BY <1>2, <2>1 DEF HeldInv, ChildAt
    <2>2. CASE d = c
      <3> HIDE DEF of
      <3>1. stores[c][st] \in SlabType
        BY StoresWellFormed DEF TypeInv
      <3>2. /\ stores[c][st].slots[i].alive
            /\ stores'[c][st].slots[i].data = stores[c][st].slots[i].data
        BY <1>1, <2>2, <3>1, SweepSlot
      <3> QED
        BY <2>2, <3>2 DEF HeldInv, ChildAt
    <2> QED
      BY <2>1, <2>2
  <1> QED
    BY <1>5, <1>6

LEMMA ForkRoots ==
  ASSUME TypeInv, RootsInv, HeldInv,
         NEW src \in Stack, NEW f \in Forks, ForkExecution(src, f)
  PROVE  RootsInv' /\ HeldInv'
  <1>1. /\ f \in Context /\ f \in Stack /\ src \in live /\ src # f
        /\ CtxOf(f) = f /\ CtxOf(src) \in Context
    BY CtxOfType, HeapForkAssumption DEF Context, Stack, CtxOf, ForkExecution
  <1>2. /\ stores'[f] = stores[CtxOf(src)] /\ minted'[f] = minted[CtxOf(src)]
        /\ \A d \in Context : d # f => stores'[d] = stores[d] /\ minted'[d] = minted[d]
    BY <1>1 DEF ForkExecution, TypeInv, StoresInv, HoldersType
  <1>3. /\ live' = live \cup {f} /\ Roots(f)' = Roots(src)
        /\ \A t \in live : t # f => Roots(t)' = Roots(t)
    BY <1>1 DEF ForkExecution, TypeInv, HoldersType, Roots
  <1>4. \A t \in live' : CtxOf(t) = f => t = f
    BY HeapForkAssumption DEF ForkExecution, CtxOf, TypeInv, HoldersType, Stack
  <1>5. ASSUME NEW d \in Context
        PROVE  \E M \in SUBSET (Store \X Index) :
                 Supports(stores'[d], M, ContextRoots(d)')
    <2>1. CASE d = f
      <3>1. PICK M \in SUBSET (Store \X Index) :
              Supports(stores[CtxOf(src)], M, ContextRoots(CtxOf(src)))
        BY <1>1 DEF RootsInv
      <3>2. ContextRoots(f)' \subseteq ContextRoots(CtxOf(src))
        BY <1>1, <1>3, <1>4 DEF ContextRoots
      <3> QED
        BY <1>2, <2>1, <3>1, <3>2, FewerRoots
    <2>2. CASE d # f
      <3>1. PICK M \in SUBSET (Store \X Index) : Supports(stores[d], M, ContextRoots(d))
        BY DEF RootsInv
      <3>2. ContextRoots(d)' \subseteq ContextRoots(d)
        BY <1>1, <1>3, <2>2 DEF ContextRoots
      <3> QED
        BY <1>2, <2>2, <3>1, <3>2, FewerRoots
    <2> QED
      BY <2>1, <2>2
  <1>6. ASSUME NEW t \in live' PROVE Roots(t)' \subseteq minted'[CtxOf(t)] \cup {Nil}
    <2>1. CASE t = f
      BY <1>1, <1>2, <1>3, <2>1 DEF HeldInv
    <2>2. CASE t # f
      <3>1. t \in live /\ CtxOf(t) \in Context /\ CtxOf(t) # f
        BY <1>3, <1>4, <2>2, CtxOfType DEF TypeInv, HoldersType
      <3> QED
        BY <1>2, <1>3, <2>2, <3>1 DEF HeldInv
    <2> QED
      BY <2>1, <2>2
  <1>7. ASSUME NEW d \in Context, NEW st \in Store, NEW i \in Index,
               stores'[d][st].slots[i].alive
        PROVE  ChildAt(stores'[d], <<st, i>>) \in minted'[d] \cup {Nil}
    BY <1>1, <1>2, <1>7 DEF HeldInv
  <1> QED
    BY <1>5, <1>6, <1>7 DEF RootsInv, HeldInv

LEMMA DropForkRoots ==
  ASSUME TypeInv, RootsInv, HeldInv, NEW f \in Forks, DropFork(f)
  PROVE  RootsInv' /\ HeldInv'
  <1>1. /\ stores'[f] = NoStores
        /\ \A d \in Context : d # f => stores'[d] = stores[d] /\ minted'[d] = minted[d]
    BY DEF DropFork, TypeInv, StoresInv, HoldersType, Context
  <1>2. /\ live' = live \ {f}
        /\ \A t \in live' : Roots(t)' = Roots(t) /\ CtxOf(t) # f /\ CtxOf(t) \in Context
    BY HeapForkAssumption, CtxOfType
    DEF DropFork, TypeInv, HoldersType, Roots, CtxOf, Stack
  <1>3. \A st \in Store, i \in Index : ~NoStores[st].slots[i].alive
    BY DEF NoStores, New
  <1>4. ASSUME NEW d \in Context
        PROVE  \E M \in SUBSET (Store \X Index) :
                 Supports(stores'[d], M, ContextRoots(d)')
    <2>1. CASE d = f
      <3>1. ContextRoots(f)' = {}
        BY <1>2 DEF ContextRoots
      <3>2. Supports(stores'[f], {}, {})
        BY DEF Supports, Good
      <3> QED
        BY <2>1, <3>1, <3>2
    <2>2. CASE d # f
      <3>1. PICK M \in SUBSET (Store \X Index) : Supports(stores[d], M, ContextRoots(d))
        BY DEF RootsInv
      <3>2. ContextRoots(d)' \subseteq ContextRoots(d)
        BY <1>2 DEF ContextRoots
      <3> QED
        BY <1>1, <2>2, <3>1, <3>2, FewerRoots
    <2> QED
      BY <2>1, <2>2
  <1>5. \A t \in live' : Roots(t)' \subseteq minted'[CtxOf(t)] \cup {Nil}
    BY <1>1, <1>2 DEF HeldInv
  <1>6. \A d \in Context, st \in Store, i \in Index :
          stores'[d][st].slots[i].alive =>
            ChildAt(stores'[d], <<st, i>>) \in minted'[d] \cup {Nil}
    BY <1>1, <1>3 DEF HeldInv
  <1> QED
    BY <1>4, <1>5, <1>6 DEF RootsInv, HeldInv

(* A live slot has issued a generation.                                    *)
LEMMA AliveExists ==
  ASSUME TypeInv, IdentityInv, NEW c \in Context, NEW st \in Store, NEW i \in Index,
         stores[c][st].slots[i].alive
  PROVE  Exists(stores[c][st], i)
  <1> DEFINE id == IdAt(stores[c], st, i)
  <1>1. id \in minted[c] /\ id.store = st /\ id.ix = i
    BY DEF IdentityInv, Sound, LiveMinted, IdAt
  <1>2. id.gen \in Generation /\ id.gen <= stores[c][st].slots[i].high_water
    BY <1>1 DEF TypeInv, HoldersType, IdentityInv, Sound, IssuedOnly, Id
  <1> QED
    BY <1>2, SlabAssumption DEF Exists, Generation, Never

(* A restore keeps the fork's live heap slots as they are.                 *)
LEMMA RestoredKeeps ==
  ASSUME TypeInv, IdentityInv, NEW src \in Forks, NEW i \in Index,
         stores[src]["heap"].slots[i].alive
  PROVE  LET t == Restored(src)["heap"].slots[i] IN
         /\ t.alive
         /\ t.gen = stores[src]["heap"].slots[i].gen
         /\ t.data = stores[src]["heap"].slots[i].data
  <1> DEFINE s == stores[src]["heap"]
             hw == Highest(s.slots[i].high_water,
                           stores[Default]["heap"].slots[i].high_water)
             t == [s.slots[i] EXCEPT !.high_water = hw]
  <1>1. Exists(s, i) /\ "heap" \in Store
    BY AliveExists DEF Context, Store
  <1>2. Restored(src)["heap"].slots[i] = t
    BY <1>1 DEF Restored, InheritGenerations
  <1>3. s.slots[i] \in Slot
    BY <1>1, StoresWellFormed DEF TypeInv, Context, SlabType
  <1>4. t.alive = s.slots[i].alive /\ t.gen = s.slots[i].gen /\ t.data = s.slots[i].data
    BY <1>3 DEF Slot
  <1> HIDE DEF t
  <1> QED
    BY <1>2, <1>4

LEMMA RestoreRoots ==
  ASSUME TypeInv, IdentityInv, RootsInv, HeldInv, ~FnSnapshots,
         NEW dst \in Mains, NEW src \in Forks, RestoreExecution(dst, src)
  PROVE  RootsInv' /\ HeldInv'
  <1> DEFINE saved == {state[src][k] : k \in Slots}
  <1>1. /\ dst \in Stack /\ dst \in live /\ src \in live /\ src \in Context
        /\ Default \in Context /\ CtxOf(src) = src /\ CtxOf(dst) = Default
    BY HeapForkAssumption DEF RestoreExecution, Stack, Context, CtxOf
  <1>2. /\ stores'[Default] = Restored(src)
        /\ minted'[Default] = minted[Default] \cup minted[src]
        /\ \A d \in Context : d # Default =>
             stores'[d] = stores[d] /\ minted'[d] = minted[d]
        /\ live' = live
    BY <1>1 DEF RestoreExecution, TypeInv, StoresInv, HoldersType
  <1>3. saved \subseteq Roots(src) /\ Roots(src) \subseteq ContextRoots(src)
    BY <1>1 DEF Roots, ContextRoots
  <1>4. PICK declared \in SUBSET Slots :
          state' = [state EXCEPT ![dst] = Transferred(state[src], declared)]
    BY DEF RestoreExecution
  <1>5. ASSUME NEW t \in live, CtxOf(t) = Default
        PROVE  Roots(t)' \subseteq saved \cup {Nil}
    <2>1. t \in Mains /\ t \in Stack
      BY <1>5, HeapForkAssumption DEF CtxOf, TypeInv, HoldersType, Stack
    <2>2. kept'[t] = Nil
      BY <2>1 DEF RestoreExecution, DropsDerived
    <2>3. reg'[t] = Nil
      BY <1>1, <2>1 DEF RestoreExecution, RestoreAllowed, TypeInv, HoldersType
    <2>4. \A k \in Slots : state'[t][k] \in saved \cup {Nil}
      <3>1. CASE t = dst
        BY <1>1, <1>4, <3>1 DEF Transferred, TypeInv, HoldersType
      <3>2. CASE t # dst
        BY <1>4, <2>1, <3>2 DEF RestoreExecution, RestoreAllowed, TypeInv, HoldersType
      <3> QED
        BY <3>1, <3>2
    <2> HIDE DEF saved
    <2> QED
      BY <2>2, <2>3, <2>4 DEF Roots
  <1>6. ASSUME NEW t \in live, CtxOf(t) # Default
        PROVE  Roots(t)' = Roots(t)
    <2>1. t \in Stack /\ t \notin Mains /\ t # dst
      BY <1>6 DEF CtxOf, TypeInv, HoldersType
    <2> QED
      BY <1>4, <2>1
      DEF RestoreExecution, DropsDerived, TypeInv, HoldersType, Roots
  <1>7. \E H \in SUBSET (Store \X Index) : Supports(Restored(src), H, saved)
    <2>1. PICK M \in SUBSET (Store \X Index) : Supports(stores[src], M, ContextRoots(src))
      BY <1>1 DEF RootsInv
    <2>2. Supports(stores[src], M, saved)
      BY <1>3, <2>1, FewerRoots
    <2>3. \A v \in saved : ~HoldsFunction(src, v)
      BY DEF RestoreExecution, RestoreAllowed
    <2> HIDE DEF saved
    <2>4. PICK H \in SUBSET ({"heap"} \X Index) : Supports(stores[src], H, saved)
      BY <1>1, <2>2, <2>3, HeapSupports
    <2>5. H \in SUBSET (Store \X Index)
      BY DEF Store
    <2>6. ASSUME NEW p \in H
          PROVE  /\ Restored(src)[p[1]].slots[p[2]].alive
                 /\ Restored(src)[p[1]].slots[p[2]].gen = stores[src][p[1]].slots[p[2]].gen
                 /\ Restored(src)[p[1]].slots[p[2]].data = stores[src][p[1]].slots[p[2]].data
      <3>1. p[1] = "heap" /\ p[2] \in Index
        OBVIOUS
      <3>2. stores[src]["heap"].slots[p[2]].alive
        BY <2>4, <3>1 DEF Supports, Good
      <3> QED
        BY <3>1, <3>2, RestoredKeeps
    <2>7. Supports(Restored(src), H, saved)
      BY <2>4, <2>5, <2>6, GoodCarried
    <2> QED
      BY <2>5, <2>7
  <1>8. ASSUME NEW d \in Context
        PROVE  \E M \in SUBSET (Store \X Index) :
                 Supports(stores'[d], M, ContextRoots(d)')
    <2>1. CASE d = Default
      <3>1. ContextRoots(Default)' \subseteq saved \cup {Nil}
        BY <1>2, <1>5 DEF ContextRoots
      <3> HIDE DEF saved
      <3> QED
        BY <1>2, <1>7, <2>1, <3>1, FewerRoots
    <2>2. CASE d # Default
      <3>1. ContextRoots(d)' \subseteq ContextRoots(d)
        BY <1>2, <1>6, <2>2 DEF ContextRoots
      <3>2. PICK M \in SUBSET (Store \X Index) : Supports(stores[d], M, ContextRoots(d))
        BY DEF RootsInv
      <3> QED
        BY <1>2, <2>2, <3>1, <3>2, FewerRoots
    <2> QED
      BY <2>1, <2>2
  <1>9. ASSUME NEW t \in live' PROVE Roots(t)' \subseteq minted'[CtxOf(t)] \cup {Nil}
    <2>1. CASE CtxOf(t) = Default
      <3>1. saved \subseteq minted[src] \cup {Nil}
        BY <1>1, <1>3 DEF HeldInv
      <3> HIDE DEF saved
      <3> QED
        BY <1>2, <1>5, <2>1, <3>1
    <2>2. CASE CtxOf(t) # Default
      <3>1. t \in live /\ CtxOf(t) \in Context
        BY <1>2, CtxOfType DEF TypeInv, HoldersType
      <3> QED
        BY <1>2, <1>6, <2>2, <3>1 DEF HeldInv
    <2> QED
      BY <2>1, <2>2
  <1>10. ASSUME NEW d \in Context, NEW st \in Store, NEW i \in Index,
                stores'[d][st].slots[i].alive
         PROVE  ChildAt(stores'[d], <<st, i>>) \in minted'[d] \cup {Nil}
    <2>1. CASE d = Default
      <3>1. /\ stores[src][st].slots[i].alive
            /\ stores'[d][st].slots[i].data = stores[src][st].slots[i].data
        BY <1>2, <1>10, <2>1, RestoredSlot
      <3> QED
        BY <1>1, <1>2, <2>1, <3>1 DEF HeldInv, ChildAt
    <2>2. CASE d # Default
      BY <1>2, <1>10, <2>2 DEF HeldInv
    <2> QED
      BY <2>1, <2>2
  <1> QED
    BY <1>8, <1>9, <1>10 DEF RootsInv, HeldInv

LEMMA ReloadRoots ==
  ASSUME TypeInv, RootsInv, HeldInv, NEW s \in Mains, Reload(s)
  PROVE  RootsInv' /\ HeldInv'
  <1> DEFINE plain == {v \in ContextRoots(Default) : ~HoldsFunction(Default, v)}
  <1>1. s \in Stack /\ s \in live /\ Default \in Context /\ CtxOf(s) = Default
    BY DEF Reload, Stack, Context, CtxOf
  <1>2. /\ \A st \in Store :
             stores'[Default][st] = IF st = "closures"
                                    THEN Sweep(stores[Default][st], {})
                                    ELSE stores[Default][st]
        /\ \A d \in Context : d # Default => stores'[d] = stores[d]
        /\ live' = live /\ minted' = minted
    BY <1>1 DEF Reload, Clear, TypeInv, StoresInv, StoresType
  <1>3. PICK declared \in SUBSET Slots :
          state' = [state EXCEPT ![s] = ReloadedState(s, declared)]
    BY DEF Reload
  <1>4. ASSUME NEW t \in live, t # s
        PROVE  Roots(t)' = Roots(t)
    <2>1. t \in Stack
      BY DEF TypeInv, HoldersType
    <2> QED
      BY <1>3, <1>4, <2>1 DEF Reload, TypeInv, HoldersType, Roots
  <1>5. Roots(s)' \subseteq (plain \cap Roots(s)) \cup {Nil}
    <2>1. reg'[s] = Nil /\ kept'[s] = Nil
      BY <1>1 DEF Reload, TypeInv, HoldersType
    <2>2. ASSUME NEW k \in Slots
          PROVE  state'[s][k] \in (plain \cap Roots(s)) \cup {Nil}
      <3>1. state'[s][k] = IF k \in declared /\ ~HoldsFunction(Default, state[s][k])
                           THEN state[s][k] ELSE Nil
        BY <1>1, <1>3 DEF ReloadedState, TypeInv, HoldersType
      <3>2. state[s][k] \in Roots(s) /\ state[s][k] \in ContextRoots(Default)
        BY <1>1 DEF Roots, ContextRoots
      <3> QED
        BY <3>1, <3>2
    <2> HIDE DEF plain
    <2> QED
      BY <2>1, <2>2 DEF Roots
  <1>6. ASSUME NEW t \in live, t # s, CtxOf(t) = Default
        PROVE  Roots(t) \subseteq plain
    <2>1. t \in Mains
      BY <1>6, HeapForkAssumption DEF CtxOf, TypeInv, HoldersType, Stack
    <2> QED
      BY <1>6, <2>1, RootOf DEF Reload
  <1>7. ContextRoots(Default)' \subseteq plain \cup {Nil}
    <2> HIDE DEF plain
    <2> QED
      BY <1>2, <1>4, <1>5, <1>6 DEF ContextRoots
  <1>8. ASSUME NEW d \in Context
        PROVE  \E M \in SUBSET (Store \X Index) :
                 Supports(stores'[d], M, ContextRoots(d)')
    <2>1. PICK M \in SUBSET (Store \X Index) : Supports(stores[d], M, ContextRoots(d))
      BY DEF RootsInv
    <2>2. CASE d = Default
      <3>1. Supports(stores[d], M, plain)
        BY <2>1, <2>2, FewerRoots
      <3>2. \A v \in plain : ~HoldsFunction(d, v)
        BY <2>2
      <3> HIDE DEF plain
      <3>3. PICK H \in SUBSET ({"heap"} \X Index) : Supports(stores[d], H, plain)
        BY <3>1, <3>2, HeapSupports
      <3>4. H \in SUBSET (Store \X Index)
        BY DEF Store
      <3>5. \A p \in H : p[1] = "heap" /\ stores[d][p[1]].slots[p[2]].alive
        BY <3>3 DEF Supports, Good
      <3>6. stores'[d]["heap"] = stores[d]["heap"]
        BY <1>2, <2>2 DEF Store
      <3>7. \A p \in H :
              /\ stores'[d][p[1]].slots[p[2]].alive
              /\ stores'[d][p[1]].slots[p[2]].gen = stores[d][p[1]].slots[p[2]].gen
              /\ stores'[d][p[1]].slots[p[2]].data = stores[d][p[1]].slots[p[2]].data
        BY <3>5, <3>6
      <3>8. Supports(stores'[d], H, plain)
        BY <3>3, <3>4, <3>7, GoodCarried
      <3> QED
        BY <1>7, <2>2, <3>4, <3>8, FewerRoots
    <2>3. CASE d # Default
      <3>1. ContextRoots(d)' \subseteq ContextRoots(d)
        BY <1>1, <1>2, <1>4, <2>3 DEF ContextRoots
      <3> QED
        BY <1>2, <2>1, <2>3, <3>1, FewerRoots
    <2> QED
      BY <2>2, <2>3
  <1>9. ASSUME NEW t \in live' PROVE Roots(t)' \subseteq minted'[CtxOf(t)] \cup {Nil}
    <2> HIDE DEF plain
    <2> QED
      BY <1>2, <1>4, <1>5 DEF HeldInv
  <1>10. ASSUME NEW d \in Context, NEW st \in Store, NEW i \in Index,
                stores'[d][st].slots[i].alive
         PROVE  ChildAt(stores'[d], <<st, i>>) \in minted'[d] \cup {Nil}
    <2>1. /\ stores[d][st].slots[i].alive
          /\ stores'[d][st].slots[i].data = stores[d][st].slots[i].data
      <3>1. stores[d][st] \in SlabType
        BY StoresWellFormed DEF TypeInv
      <3>2. stores'[d][st] \in {stores[d][st], Sweep(stores[d][st], {})}
        BY <1>2
      <3> QED
        BY <1>10, <3>1, <3>2, SweepSlot
    <2> QED
      BY <1>2, <2>1 DEF HeldInv, ChildAt
  <1> QED
    BY <1>8, <1>9, <1>10 DEF RootsInv, HeldInv

LEMMA InitRoots == Init => RootsInv /\ HeldInv
  <1> SUFFICES ASSUME Init PROVE RootsInv /\ HeldInv
    OBVIOUS
  <1>1. \A s \in live : Roots(s) \subseteq {Nil}
    BY DEF Init, Roots, Stack
  <1>2. \A c \in Context : Supports(stores[c], {}, ContextRoots(c))
    BY <1>1 DEF Supports, Good, Points, ContextRoots
  <1>3. \A c \in Context, st \in Store, i \in Index : ~stores[c][st].slots[i].alive
    BY DEF Init, NoStores, New
  <1> QED
    BY <1>1, <1>2, <1>3 DEF RootsInv, HeldInv

LEMMA NextRoots ==
  TypeInv /\ IdentityInv /\ RootsInv /\ HeldInv /\ ~FnSnapshots /\ [Next]_vars
    => RootsInv' /\ HeldInv'
  <1> SUFFICES ASSUME TypeInv, IdentityInv, RootsInv, HeldInv, ~FnSnapshots, [Next]_vars
               PROVE  RootsInv' /\ HeldInv'
    OBVIOUS
  <1>1. ASSUME NEW s \in Stack, Script(s) PROVE RootsInv' /\ HeldInv'
    BY <1>1, QuietScriptRoots, MakeRoots DEF Script
  <1>2. ASSUME NEW c \in Context, CollectGarbage(c) PROVE RootsInv' /\ HeldInv'
    BY <1>2, CollectRoots
  <1>3. ASSUME NEW src \in Stack, NEW f \in Forks, ForkExecution(src, f)
        PROVE  RootsInv' /\ HeldInv'
    BY <1>3, ForkRoots
  <1>4. ASSUME NEW f \in Forks, DropFork(f) PROVE RootsInv' /\ HeldInv'
    BY <1>4, DropForkRoots
  <1>5. ASSUME NEW dst \in Mains, NEW src \in Forks, RestoreExecution(dst, src)
        PROVE  RootsInv' /\ HeldInv'
    BY <1>5, RestoreRoots
  <1>6. ASSUME NEW s \in Mains, Reload(s) PROVE RootsInv' /\ HeldInv'
    BY <1>6, ReloadRoots
  <1>7. ASSUME NEW s \in Stack, NEW k \in Slots, SetState(s, k) PROVE RootsInv' /\ HeldInv'
    BY <1>7, SetStateRoots
  <1>8. CASE UNCHANGED vars
    <2>1. (\A s : Roots(s)' = Roots(s)) /\ UNCHANGED <<stores, live, minted>>
      BY <1>8 DEF vars, Roots
    <2> QED
      BY <2>1, SameSupport
  <1> QED
    BY RunnersAreStacks, <1>1, <1>2, <1>3, <1>4, <1>5, <1>6, <1>7, <1>8 DEF Next

LEMMA SupportedResolves == TypeInv /\ RootsInv => RootsResolve
  <1> SUFFICES ASSUME TypeInv, RootsInv, NEW s \in live, NEW v \in Roots(s)
               PROVE  /\ Resolves(CtxOf(s), v)
                      /\ \A p \in Reached(CtxOf(s), {v}) :
                           Resolves(CtxOf(s), Child(CtxOf(s), p))
    BY DEF RootsResolve
  <1> DEFINE c == CtxOf(s)
  <1>1. c \in Context
    BY CtxOfType DEF TypeInv, HoldersType
  <1>2. PICK M \in SUBSET (Store \X Index) : Supports(stores[c], M, ContextRoots(c))
    BY <1>1 DEF RootsInv
  <1>3. v \in ContextRoots(c)
    BY RootOf
  <1>4. ASSUME NEW w, Points(stores[c], M, w) PROVE Resolves(c, w)
    BY <1>4 DEF Points, Resolves, Names, Get
  <1> HIDE DEF c
  <1>5. Resolves(c, v)
    BY <1>2, <1>3, <1>4 DEF Supports
  <1>6. ASSUME NEW p \in Reached(c, {v}) PROVE Resolves(c, Child(c, p))
    <2>1. Supports(stores[c], M, {v})
      BY <1>2, <1>3, FewerRoots
    <2>2. p \in M
      BY <1>1, <2>1, ReachedInside
    <2>3. Points(stores[c], M, Child(c, p))
      BY <1>2, <2>2 DEF Supports, Good, Child, ChildAt
    <2> QED
      BY <1>4, <2>3
  <1> QED
    BY <1>5, <1>6 DEF c

(* When no fork is restored whose state holds a function, all that a stack *)
(* can still reach resolves to what it was, whenever the context is        *)
(* collected, set by the host, forked, restored or reloaded (env/gc.rs,    *)
(* env/fork.rs, env/state_json.rs, transfer_state.rs): ids that both sides *)
(* of a restore had issued among it too.                                   *)
THEOREM ReachableStaysResolved ==
  ASSUME ~FnSnapshots
  PROVE  Spec => []RootsResolve
  <1> DEFINE Inv == TypeInv /\ IdentityInv /\ RootsInv /\ HeldInv
  <1>1. Init => Inv
    BY InitTypeInv, InitIdentity, InitRoots
  <1>2. Inv /\ [Next]_vars => Inv'
    BY NextTypeInv, NextIdentity, NextRoots
  <1>3. Inv => RootsResolve
    BY SupportedResolves
  <1> HIDE DEF Inv
  <1> QED
    BY <1>1, <1>2, <1>3, PTL DEF Spec

-----------------------------------------------------------------------------
(* Programs without a heap. What was made and of what is never revised, so *)
(* what is in the slots says the same of an object as the history does.    *)

MadeAt(both, ids, history) ==
  /\ \A id \in ids : id.obj \in DOMAIN history /\ history[id.obj].kind = id.store
  /\ \A st \in Store, i \in Index :
       LET slot == both[st].slots[i] IN
       slot.alive => history[slot.data.obj].of = slot.data.child.obj

MadeInv == \A c \in Context : MadeAt(stores[c], minted[c], made)

(* Slots that die say nothing new.                                         *)
LEMMA MadeShrunk ==
  ASSUME NEW old, NEW new, NEW ids, NEW history, MadeAt(old, ids, history),
         \A st \in Store, i \in Index :
           new[st].slots[i].alive =>
             /\ old[st].slots[i].alive
             /\ new[st].slots[i].data = old[st].slots[i].data
  PROVE  MadeAt(new, ids, history)
  BY DEF MadeAt

LEMMA InitMade == Init => MadeInv
  <1> SUFFICES ASSUME Init, NEW c \in Context PROVE MadeAt(stores[c], minted[c], made)
    BY DEF MadeInv
  <1>1. stores[c] = NoStores /\ minted[c] = {}
    BY DEF Init
  <1> QED
    BY <1>1 DEF MadeAt, NoStores, New

LEMMA AllocateMade ==
  ASSUME TypeInv, IdentityInv, MadeInv, NEW c \in Context, NEW st \in Store,
         NEW child \in Value, NEW i \in Allocatable(stores[c][st]),
         Allocate(c, st, i, child)
  PROVE  MadeInv'
  <1> DEFINE slab == stores[c][st]
             n == Len(made) + 1
             id == FreshId(c, st, i)
             data == [obj |-> n, child |-> child]
  <1>1. made \in Seq([kind : Store, of : Nat])
    BY DEF TypeInv, HoldersType
  <1>2. /\ stores' = [stores EXCEPT ![c][st] = Alloc(slab, i, data)]
        /\ minted' = [minted EXCEPT ![c] = minted[c] \cup {id}]
    BY DEF Allocate, TypeInv, StoresInv, StoresType, HoldersType
  <1>3. /\ made' = Append(made, [kind |-> st, of |-> child.obj])
        /\ child.obj \in Nat
    BY DEF Allocate, Value, Id, Nil
  <1>4. /\ DOMAIN made = 1 .. Len(made) /\ DOMAIN made' = 1 .. n
        /\ made'[n] = [kind |-> st, of |-> child.obj]
        /\ \A k \in DOMAIN made : made'[k] = made[k]
        /\ n \notin DOMAIN made /\ n \in DOMAIN made'
    BY <1>1, <1>3
  <1>5. id.obj = n /\ id.store = st
    BY DEF FreshId
  <1> HIDE DEF n, id
  <1>6. ASSUME NEW d \in Context, NEW old \in minted[d]
        PROVE  old.obj \in DOMAIN made' /\ made'[old.obj].kind = old.store
    BY <1>4 DEF MadeInv, MadeAt
  <1>7. ASSUME NEW d \in Context, NEW u \in Store, NEW j \in Index,
               stores[d][u].slots[j].alive
        PROVE  made'[stores[d][u].slots[j].data.obj].of = stores[d][u].slots[j].data.child.obj
    <2> DEFINE there == IdAt(stores[d], u, j)
    <2>1. there \in minted[d]
      BY <1>7 DEF IdentityInv, Sound, LiveMinted
    <2>2. there.obj \in DOMAIN made
      BY <2>1 DEF MadeInv, MadeAt
    <2>3. there.obj = stores[d][u].slots[j].data.obj
      BY DEF IdAt
    <2>4. made[stores[d][u].slots[j].data.obj].of = stores[d][u].slots[j].data.child.obj
      BY <1>7 DEF MadeInv, MadeAt
    <2> HIDE DEF there
    <2> QED
      BY <1>4, <2>2, <2>3, <2>4
  <1>8. ASSUME NEW d \in Context, d # c PROVE MadeAt(stores'[d], minted'[d], made')
    <2>1. stores'[d] = stores[d] /\ minted'[d] = minted[d]
      BY <1>2, <1>8 DEF TypeInv, StoresInv, HoldersType
    <2>2. \A old \in minted'[d] : old.obj \in DOMAIN made' /\ made'[old.obj].kind = old.store
      BY <1>6, <2>1
    <2>3. ASSUME NEW u \in Store, NEW j \in Index, stores'[d][u].slots[j].alive
          PROVE  made'[stores'[d][u].slots[j].data.obj].of
                   = stores'[d][u].slots[j].data.child.obj
      BY <1>7, <2>1, <2>3
    <2> QED
      BY <2>2, <2>3 DEF MadeAt
  <1>9. MadeAt(stores'[c], minted'[c], made')
    <2>1. minted'[c] = minted[c] \cup {id}
      BY <1>2 DEF TypeInv, HoldersType
    <2>2. ASSUME NEW old \in minted'[c]
          PROVE  old.obj \in DOMAIN made' /\ made'[old.obj].kind = old.store
      <3>1. CASE old = id
        BY <1>4, <1>5, <3>1
      <3>2. CASE old \in minted[c]
        BY <1>6, <3>2
      <3> QED
        BY <2>1, <3>1, <3>2
    <2>3. ASSUME NEW u \in Store, NEW j \in Index, stores'[c][u].slots[j].alive
          PROVE  made'[stores'[c][u].slots[j].data.obj].of
                   = stores'[c][u].slots[j].data.child.obj
      <3>1. i \in Index /\ slab.slots \in [Index -> Slot] /\ stores[c] \in StoresType
        BY StoresWellFormed, NextGenType
        DEF TypeInv, WellFormed, SlabType, StoresInv
      <3>2. stores'[c] = [stores[c] EXCEPT ![st] = Alloc(slab, i, data)]
        BY <1>2 DEF TypeInv, StoresInv
      <3>3. CASE u = st /\ j = i
        <4>1. stores'[c][u].slots[j] =
                [alive |-> TRUE, gen |-> NextGen(slab, i),
                 high_water |-> NextGen(slab, i), data |-> data]
          BY <3>1, <3>2, <3>3 DEF Alloc, StoresType
        <4> QED
          BY <1>4, <4>1
      <3>4. CASE ~(u = st /\ j = i)
        <4>1. stores'[c][u].slots[j] = stores[c][u].slots[j]
          BY <3>1, <3>2, <3>4 DEF Alloc, StoresType
        <4> QED
          BY <1>7, <2>3, <4>1
      <3> QED
        BY <3>3, <3>4
    <2> QED
      BY <2>2, <2>3 DEF MadeAt
  <1> QED
    BY <1>8, <1>9 DEF MadeInv

LEMMA MakeMade ==
  ASSUME TypeInv, IdentityInv, MadeInv, NEW s \in Stack, NEW st \in Store, Make(s, st)
  PROVE  MadeInv'
  <1>1. CtxOf(s) \in Context /\ reg[s] \in Value
    BY CtxOfType DEF TypeInv, HoldersType
  <1> QED
    BY <1>1, AllocateMade DEF Make

LEMMA SetStateMade ==
  ASSUME TypeInv, IdentityInv, MadeInv, NEW s \in Stack, NEW k \in Slots, SetState(s, k)
  PROVE  MadeInv'
  <1>1. CtxOf(s) \in Context /\ "heap" \in Store
    BY CtxOfType DEF Store
  <1>2. CASE UNCHANGED <<stores, minted, made>>
    BY <1>2 DEF MadeInv
  <1>3. CASE \E i \in Allocatable(stores[CtxOf(s)]["heap"]) :
               Allocate(CtxOf(s), "heap", i, Nil)
    BY <1>1, <1>3, NilType, AllocateMade
  <1> QED
    BY <1>2, <1>3 DEF SetState

LEMMA CollectMade ==
  ASSUME TypeInv, MadeInv, NEW c \in Context, CollectGarbage(c)
  PROVE  MadeInv'
  <1> DEFINE of(st) == {i \in Index : <<st, i>> \in Reached(c, ContextRoots(c))}
  <1>1. UNCHANGED <<minted, made>>
    BY DEF CollectGarbage
  <1>2. \A d \in Context : d # c => stores'[d] = stores[d]
    BY DEF CollectGarbage, TypeInv, StoresInv
  <1>3. \A st \in Store : stores'[c][st] = Sweep(stores[c][st], of(st))
    BY DEF CollectGarbage, TypeInv, StoresInv
  <1>4. \A st \in Store : stores[c][st] \in SlabType
    BY StoresWellFormed DEF TypeInv
  <1> HIDE DEF of
  <1>5. \A st \in Store, i \in Index :
          stores'[c][st].slots[i].alive =>
            /\ stores[c][st].slots[i].alive
            /\ stores'[c][st].slots[i].data = stores[c][st].slots[i].data
    BY <1>3, <1>4, SweepSlot
  <1>6. MadeAt(stores'[c], minted[c], made)
    BY <1>5, MadeShrunk DEF MadeInv
  <1> QED
    BY <1>1, <1>2, <1>6 DEF MadeInv

LEMMA ForkMade ==
  ASSUME TypeInv, MadeInv, NEW src \in Stack, NEW f \in Forks, ForkExecution(src, f)
  PROVE  MadeInv'
  <1>1. CtxOf(src) \in Context /\ f \in Context /\ made' = made
    BY CtxOfType DEF Context, ForkExecution
  <1>2. \A d \in Context :
          \/ d # f /\ stores'[d] = stores[d] /\ minted'[d] = minted[d]
          \/ d = f /\ stores'[d] = stores[CtxOf(src)] /\ minted'[d] = minted[CtxOf(src)]
    BY <1>1 DEF ForkExecution, TypeInv, StoresInv, HoldersType
  <1> QED
    BY <1>1, <1>2 DEF MadeInv

LEMMA DropForkMade ==
  ASSUME TypeInv, MadeInv, NEW f \in Forks, DropFork(f)
  PROVE  MadeInv'
  <1>1. \A d \in Context :
          \/ d # f /\ stores'[d] = stores[d] /\ minted'[d] = minted[d]
          \/ d = f /\ stores'[d] = NoStores /\ minted'[d] = {}
    BY DEF DropFork, TypeInv, StoresInv, HoldersType
  <1>2. MadeAt(NoStores, {}, made) /\ made' = made
    BY DEF MadeAt, NoStores, New, DropFork
  <1> QED
    BY <1>1, <1>2 DEF MadeInv

LEMMA RestoreMade ==
  ASSUME TypeInv, MadeInv, NEW dst \in Mains, NEW src \in Forks, RestoreExecution(dst, src)
  PROVE  MadeInv'
  <1>1. Default \in Context /\ src \in Context /\ made' = made
    BY DEF Context, RestoreExecution
  <1>2. \A d \in Context :
          \/ d # Default /\ stores'[d] = stores[d] /\ minted'[d] = minted[d]
          \/ /\ d = Default /\ stores'[d] = Restored(src)
             /\ minted'[d] = minted[Default] \cup minted[src]
    BY <1>1 DEF RestoreExecution, TypeInv, StoresInv, HoldersType
  <1>3. \A st \in Store, i \in Index :
          Restored(src)[st].slots[i].alive =>
            /\ stores[src][st].slots[i].alive
            /\ Restored(src)[st].slots[i].data = stores[src][st].slots[i].data
    BY RestoredSlot
  <1>4. MadeAt(Restored(src), minted[src], made)
    BY <1>1, <1>3, MadeShrunk DEF MadeInv
  <1>5. MadeAt(Restored(src), minted[Default] \cup minted[src], made)
    BY <1>1, <1>4 DEF MadeInv, MadeAt
  <1> QED
    BY <1>1, <1>2, <1>5 DEF MadeInv

LEMMA ReloadMade ==
  ASSUME TypeInv, MadeInv, NEW s \in Mains, Reload(s)
  PROVE  MadeInv'
  <1>1. Default \in Context /\ UNCHANGED <<minted, made>>
    BY DEF Context, Reload
  <1>2. \A st \in Store : stores[Default][st] \in SlabType
    BY <1>1, StoresWellFormed DEF TypeInv
  <1>3. \A st \in Store :
          stores'[Default][st] = IF st = "closures"
                                 THEN Sweep(stores[Default][st], {})
                                 ELSE stores[Default][st]
    BY <1>1 DEF Reload, Clear, TypeInv, StoresInv, StoresType
  <1>4. \A st \in Store, i \in Index :
          stores'[Default][st].slots[i].alive =>
            /\ stores[Default][st].slots[i].alive
            /\ stores'[Default][st].slots[i].data = stores[Default][st].slots[i].data
    BY <1>2, <1>3, SweepSlot
  <1>5. MadeAt(stores'[Default], minted[Default], made)
    BY <1>1, <1>4, MadeShrunk DEF MadeInv
  <1>6. \A d \in Context : d # Default => stores'[d] = stores[d]
    BY DEF Reload, TypeInv, StoresInv
  <1> QED
    BY <1>1, <1>5, <1>6 DEF MadeInv

LEMMA NextMade == TypeInv /\ IdentityInv /\ MadeInv /\ [Next]_vars => MadeInv'
  <1> SUFFICES ASSUME TypeInv, IdentityInv, MadeInv, [Next]_vars PROVE MadeInv'
    OBVIOUS
  <1>1. ASSUME NEW s \in Stack, Script(s) PROVE MadeInv'
    <2>1. ASSUME NEW st \in Store, Make(s, st) PROVE MadeInv'
      BY <2>1, MakeMade
    <2>2. ASSUME \/ Begin(s) \/ Open(s) \/ LoadKept(s) \/ Keep(s) \/ EndRun(s)
                 \/ \E k \in Slots : LoadState(s, k) \/ StoreState(s, k)
          PROVE  MadeInv'
      <3>1. UNCHANGED <<stores, minted, made>>
        BY <2>2 DEF Begin, Open, LoadKept, Keep, EndRun, LoadState, StoreState
      <3> QED
        BY <3>1 DEF MadeInv
    <2> QED
      BY <1>1, <2>1, <2>2 DEF Script
  <1>2. ASSUME NEW c \in Context, CollectGarbage(c) PROVE MadeInv'
    BY <1>2, CollectMade
  <1>3. ASSUME NEW src \in Stack, NEW f \in Forks, ForkExecution(src, f) PROVE MadeInv'
    BY <1>3, ForkMade
  <1>4. ASSUME NEW f \in Forks, DropFork(f) PROVE MadeInv'
    BY <1>4, DropForkMade
  <1>5. ASSUME NEW dst \in Mains, NEW src \in Forks, RestoreExecution(dst, src)
        PROVE  MadeInv'
    BY <1>5, RestoreMade
  <1>6. ASSUME NEW s \in Mains, Reload(s) PROVE MadeInv'
    BY <1>6, ReloadMade
  <1>7. ASSUME NEW s \in Stack, NEW k \in Slots, SetState(s, k) PROVE MadeInv'
    BY <1>7, SetStateMade
  <1>8. CASE UNCHANGED vars
    BY <1>8 DEF MadeInv, vars
  <1> QED
    BY RunnersAreStacks, <1>1, <1>2, <1>3, <1>4, <1>5, <1>6, <1>7, <1>8 DEF Next

(* What points at its object's slot is made of what is there.              *)
LEMMA PointsAsMade ==
  ASSUME MadeInv, NEW c \in Context, NEW M, NEW v, v # Nil, Points(stores[c], M, v)
  PROVE  made[v.obj].of = stores[c][v.store].slots[v.ix].data.child.obj
  <1>1. /\ v.store \in Store /\ v.ix \in Index
        /\ stores[c][v.store].slots[v.ix].data.obj = v.obj
        /\ stores[c][v.store].slots[v.ix].alive
    BY DEF Points, Id, IsLive
  <1> QED
    BY <1>1 DEF MadeInv, MadeAt

(* A live slot holds what its object was made of.                          *)
LEMMA SlotAsMade ==
  ASSUME TypeInv, IdentityInv, MadeInv, NEW c \in Context, NEW p \in LiveSlots(c)
  PROVE  LET data == stores[c][p[1]].slots[p[2]].data IN
         /\ data.obj \in DOMAIN made
         /\ made[data.obj].kind = p[1]
         /\ made[data.obj].of = Child(c, p).obj
  <1>1. p[1] \in Store /\ p[2] \in Index /\ stores[c][p[1]].slots[p[2]].alive
    BY DEF LiveSlots
  <1> DEFINE there == IdAt(stores[c], p[1], p[2])
  <1>2. there \in minted[c]
    BY <1>1 DEF IdentityInv, Sound, LiveMinted
  <1>3. there.obj = stores[c][p[1]].slots[p[2]].data.obj /\ there.store = p[1]
    BY DEF IdAt
  <1> HIDE DEF there
  <1>4. there.obj \in DOMAIN made /\ made[there.obj].kind = there.store
    BY <1>2 DEF MadeInv, MadeAt
  <1>5. made[stores[c][p[1]].slots[p[2]].data.obj].of
          = stores[c][p[1]].slots[p[2]].data.child.obj
    BY <1>1 DEF MadeInv, MadeAt
  <1> QED
    BY <1>3, <1>4, <1>5 DEF Child

(* A root holds a function among its slots just when it does among what    *)
(* was made.                                                               *)
LEMMA FunctionAsMade ==
  ASSUME TypeInv, IdentityInv, MadeInv, HeldInv, NEW c \in Context, NEW v,
         v \in minted[c] \cup {Nil}, NEW M0 \in SUBSET (Store \X Index),
         Supports(stores[c], M0, {v})
  PROVE  HoldsFunction(c, v) <=> O!HoldsFunction(v.obj)
  <1> DEFINE obj(p) == stores[c][p[1]].slots[p[2]].data.obj
             at(w) == <<w.store, w.ix>>
             Within(M) == \A n \in M : made[n].of \in M \cup {0}
  <1>1. \A p \in LiveSlots(c) :
          /\ obj(p) \in DOMAIN made
          /\ made[obj(p)].kind = p[1] /\ made[obj(p)].of = Child(c, p).obj
          /\ Child(c, p) \in minted[c] \cup {Nil}
    <2> SUFFICES ASSUME NEW p \in LiveSlots(c)
                 PROVE  /\ obj(p) \in DOMAIN made
                        /\ made[obj(p)].kind = p[1] /\ made[obj(p)].of = Child(c, p).obj
                        /\ Child(c, p) \in minted[c] \cup {Nil}
      OBVIOUS
    <2>1. /\ obj(p) \in DOMAIN made
          /\ made[obj(p)].kind = p[1] /\ made[obj(p)].of = Child(c, p).obj
      BY SlotAsMade
    <2>2. p[1] \in Store /\ p[2] \in Index /\ stores[c][p[1]].slots[p[2]].alive
      BY DEF LiveSlots
    <2>3. Child(c, p) \in minted[c] \cup {Nil}
      BY <2>2 DEF HeldInv, ChildAt, Child
    <2> QED
      BY <2>1, <2>3
  <1>2. \A w \in minted[c] :
          /\ w \in Id /\ w # Nil
          /\ w.obj \in DOMAIN made /\ w.obj # 0 /\ made[w.obj].kind = w.store
    <2> SUFFICES ASSUME NEW w \in minted[c]
                 PROVE  /\ w \in Id /\ w # Nil
                        /\ w.obj \in DOMAIN made /\ w.obj # 0 /\ made[w.obj].kind = w.store
      OBVIOUS
    <2>1. w \in Id /\ w # Nil
      BY NilNoId DEF TypeInv, HoldersType
    <2>2. w.obj \in DOMAIN made /\ made[w.obj].kind = w.store
      BY DEF MadeInv, MadeAt
    <2>3. w.obj # 0
      BY <2>2 DEF TypeInv, HoldersType
    <2> QED
      BY <2>1, <2>2, <2>3
  <1>3. Nil.obj = 0 /\ Nil.store # "closures" /\ ~Names(c, Nil)
    BY DEF Nil, Names
  <1>4. Supports(stores[c], Reached(c, {v}), {v})
    BY ReachedSupports
  <1>5. ASSUME NEW M, NEW w, w # Nil, Points(stores[c], M, w)
        PROVE  Names(c, w) /\ at(w) \in M /\ obj(at(w)) = w.obj
    BY <1>5 DEF Points, Names
  <1> HIDE DEF obj, at
  <1>6. ASSUME O!HoldsFunction(v.obj) PROVE HoldsFunction(c, v)
    <2> DEFINE M == {obj(p) : p \in Reached(c, {v})}
    <2>1. v \in minted[c] /\ v.obj # 0
      BY <1>3, <1>6 DEF O!HoldsFunction
    <2>2. Reached(c, {v}) \subseteq LiveSlots(c)
      BY ReachedClosed
    <2>3. v.obj \in M
      <3>1. at(v) \in Reached(c, {v}) /\ obj(at(v)) = v.obj
        BY <1>2, <1>4, <1>5, <2>1 DEF Supports
      <3> QED
        BY <3>1
    <2>4. Within(M)
      <3> SUFFICES ASSUME NEW p \in Reached(c, {v})
                   PROVE  made[obj(p)].of \in M \cup {0}
        OBVIOUS
      <3>1. made[obj(p)].of = Child(c, p).obj
        BY <1>1, <2>2
      <3>2. CASE Child(c, p) = Nil
        BY <1>3, <3>1, <3>2
      <3>3. CASE Child(c, p) # Nil
        <4>1. Points(stores[c], Reached(c, {v}), Child(c, p))
          BY <1>4 DEF Supports, Good, ChildAt, Child
        <4>2. /\ at(Child(c, p)) \in Reached(c, {v})
              /\ obj(at(Child(c, p))) = Child(c, p).obj
          BY <1>5, <3>3, <4>1
        <4> QED
          BY <3>1, <4>2
      <3> QED
        BY <3>2, <3>3
    <2>5. M \in SUBSET DOMAIN made
      BY <1>1, <2>2
    <2>6. PICK n \in M : made[n].kind = "closures"
      BY <1>6, <2>3, <2>4, <2>5 DEF O!HoldsFunction
    <2> QED
      BY <1>1, <2>2, <2>6 DEF HoldsFunction
  <1>7. ASSUME HoldsFunction(c, v) PROVE O!HoldsFunction(v.obj)
    <2>1. v # Nil
      <3>1. Reached(c, {Nil}) = {}
        <4>1. Supports(stores[c], {}, {Nil})
          BY DEF Supports, Good, Points
        <4> QED
          BY <4>1, ReachedInside
      <3> QED
        BY <1>3, <1>7, <3>1 DEF HoldsFunction
    <2>2. v \in minted[c] /\ v.obj # 0
      BY <1>2, <2>1
    <2> SUFFICES ASSUME NEW M \in SUBSET DOMAIN made, v.obj \in M, Within(M)
                 PROVE  \E n \in M : made[n].kind = "closures"
      BY <2>2 DEF O!HoldsFunction
    <2>3. CASE v.store = "closures"
      BY <1>2, <2>2, <2>3
    <2>4. CASE v.store # "closures"
      <3> DEFINE N == {q \in M0 : obj(q) \in M}
                 Target(w) == IF Names(c, w) THEN {<<w.store, w.ix>>} ELSE {}
      <3>1. PICK p \in Reached(c, {v}) : p[1] = "closures"
        BY <1>7, <2>4 DEF HoldsFunction
      <3>2. N \in SUBSET LiveSlots(c)
        BY DEF Supports, Good, LiveSlots
      <3>3. Target(v) \subseteq N
        BY <1>5, <2>1 DEF Supports, at
      <3>4. ASSUME NEW q \in N PROVE Target(Child(c, q)) \subseteq N
        <4>1. CASE Child(c, q) = Nil
          BY <1>3, <4>1
        <4>2. CASE Child(c, q) # Nil
          <5>1. Points(stores[c], M0, Child(c, q))
            BY DEF Supports, Good, ChildAt, Child
          <5>2. at(Child(c, q)) \in M0 /\ obj(at(Child(c, q))) = Child(c, q).obj
            BY <1>5, <4>2, <5>1
          <5>3. Child(c, q).obj \in M
            <6>1. Child(c, q) \in minted[c] /\ made[obj(q)].of = Child(c, q).obj
              BY <1>1, <3>2, <4>2
            <6> QED
              BY <1>2, <6>1
          <5> QED
            BY <5>2, <5>3 DEF at
        <4> QED
          BY <4>1, <4>2
      <3>5. p \in N
        BY <3>1, <3>2, <3>3, <3>4 DEF Reached
      <3> QED
        BY <1>1, <3>1, <3>2, <3>5
    <2> QED
      BY <2>3, <2>4
  <1> QED
    BY <1>6, <1>7

(* The mapping, one stack at a time.                                       *)
LEMMA HeldExcept ==
  ASSUME NEW h, h \in [Stack -> Value], NEW s \in Stack, NEW v
  PROVE  Held([h EXCEPT ![s] = v]) = [Held(h) EXCEPT ![s] = v.obj]
  BY DEF Held

LEMMA HeldSlotsExcept ==
  ASSUME NEW h, h \in [Stack -> [Slots -> Value]], NEW s \in Stack, NEW slots
  PROVE  HeldSlots([h EXCEPT ![s] = slots])
           = [HeldSlots(h) EXCEPT ![s] = [k \in Slots |-> slots[k].obj]]
  BY DEF HeldSlots

LEMMA HeldAt ==
  \A h, s : s \in Stack => Held(h)[s] = h[s].obj
  BY DEF Held

LEMMA HeldSlotsAt ==
  \A h, s : s \in Stack => HeldSlots(h)[s] = [k \in Slots |-> h[s][k].obj]
  BY DEF HeldSlots

LEMMA SameStacks == O!Stack = Stack
  BY DEF O!Stack, Stack

LEMMA RootsHeld ==
  ASSUME TypeInv, RootsInv, HeldInv, NEW s \in live, NEW v \in Roots(s)
  PROVE  /\ v \in minted[CtxOf(s)] \cup {Nil}
         /\ \E M \in SUBSET (Store \X Index) : Supports(stores[CtxOf(s)], M, {v})
  <1>1. s \in Stack /\ CtxOf(s) \in Context
    BY CtxOfType DEF TypeInv, HoldersType
  <1>2. v \in minted[CtxOf(s)] \cup {Nil}
    BY DEF HeldInv
  <1>3. PICK M \in SUBSET (Store \X Index) :
          Supports(stores[CtxOf(s)], M, ContextRoots(CtxOf(s)))
    BY <1>1 DEF RootsInv
  <1>4. {v} \subseteq ContextRoots(CtxOf(s)) \cup {Nil}
    BY RootOf
  <1>5. Supports(stores[CtxOf(s)], M, {v})
    BY <1>3, <1>4, FewerRoots
  <1> QED
    BY <1>2, <1>5

-----------------------------------------------------------------------------
(* Each step of the heap is a step of a program that has none, or nothing. *)

LEMMA InitObjects == Init => O!Init
  BY DEF Init, O!Init, O!Stack, O!Nothing, Stack, Held, HeldSlots, Nil

LEMMA BeginObjects ==
  ASSUME TypeInv, NEW s \in Stack, Begin(s)
  PROVE  O!Begin(s)
  <1>1. reg \in [Stack -> Value] /\ Nil.obj = 0
    BY DEF TypeInv, HoldersType, Nil
  <1>2. Held(reg)' = [Held(reg) EXCEPT ![s] = 0]
    BY <1>1, HeldExcept DEF Begin
  <1> QED
    BY <1>2 DEF Begin, O!Begin, Held, HeldSlots

LEMMA MakeObjects ==
  ASSUME TypeInv, NEW s \in Stack, NEW st \in Store, Make(s, st)
  PROVE  O!Make(s, st)
  <1>1. reg \in [Stack -> Value] /\ made \in Seq([kind : Store, of : Nat])
    BY DEF TypeInv, HoldersType
  <1>2. /\ made' = Append(made, [kind |-> st, of |-> reg[s].obj])
        /\ Len(made) < MaxObj
    BY DEF Make, Allocate
  <1>3. reg[s].obj \in Nat
    BY <1>1 DEF Value, Id, Nil
  <1>4. Len(made') = Len(made) + 1
    BY <1>1, <1>2, <1>3
  <1>5. PICK i : reg' = [reg EXCEPT ![s] = FreshId(CtxOf(s), st, i)]
    BY DEF Make
  <1>6. FreshId(CtxOf(s), st, i).obj = Len(made')
    BY <1>4 DEF FreshId
  <1>7. Held(reg)' = [Held(reg) EXCEPT ![s] = Len(made')]
    <2> DEFINE id == FreshId(CtxOf(s), st, i)
    <2>1. id.obj = Len(made') /\ reg' = [reg EXCEPT ![s] = id]
      BY <1>5, <1>6
    <2> HIDE DEF id
    <2> QED
      BY <1>1, <2>1 DEF Held
  <1>8. UNCHANGED <<live, running, HeldSlots(state), Held(kept)>>
    BY DEF Make, Held, HeldSlots
  <1> QED
    BY <1>2, <1>7, <1>8, HeldAt DEF O!Make

(* What a host sets a slot to is an object made for it, or nothing.        *)
LEMMA SetStateObjects ==
  ASSUME TypeInv, NEW s \in Stack, NEW k \in Slots, SetState(s, k)
  PROVE  O!SetState(s, k)
  <1>1. /\ state \in [Stack -> [Slots -> Value]] /\ s \in Stateful /\ Nil.obj = 0
        /\ made \in Seq([kind : Store, of : Nat])
    BY DEF TypeInv, HoldersType, SetState, Nil
  <1>2. UNCHANGED <<live, running, Held(reg), Held(kept)>>
    BY DEF SetState, Held
  <1>3. ASSUME NEW v, state' = [state EXCEPT ![s][k] = v]
        PROVE  HeldSlots(state)' = [HeldSlots(state) EXCEPT ![s][k] = v.obj]
    <2> DEFINE slots == [state[s] EXCEPT ![k] = v]
    <2>1. HeldSlots(state)' =
            [HeldSlots(state) EXCEPT ![s] = [j \in Slots |-> slots[j].obj]]
      <3>1. state' = [state EXCEPT ![s] = slots]
        BY <1>3
      <3> HIDE DEF slots
      <3> QED
        BY <1>1, <3>1 DEF HeldSlots
    <2>2. [j \in Slots |-> slots[j].obj] = [HeldSlots(state)[s] EXCEPT ![k] = v.obj]
      <3>1. state[s] \in [Slots -> Value]
        BY <1>1
      <3>2. HeldSlots(state)[s] = [j \in Slots |-> state[s][j].obj]
        BY HeldSlotsAt
      <3>3. \A j \in Slots : slots[j] = IF j = k THEN v ELSE state[s][j]
        BY <3>1
      <3> HIDE DEF slots
      <3> QED
        BY <3>2, <3>3
    <2> HIDE DEF slots
    <2> QED
      BY <2>1, <2>2
  <1>4. CASE state' = [state EXCEPT ![s][k] = Nil] /\ UNCHANGED <<stores, minted, made>>
    <2>1. HeldSlots(state)' = [HeldSlots(state) EXCEPT ![s][k] = 0]
      BY <1>1, <1>3, <1>4
    <2> QED
      BY <1>1, <1>2, <1>4, <2>1 DEF O!SetState
  <1>5. ASSUME NEW i, Allocate(CtxOf(s), "heap", i, Nil),
               state' \in {state, [state EXCEPT ![s][k] = FreshId(CtxOf(s), "heap", i)]}
        PROVE  O!SetState(s, k)
    <2>1. Len(made) < MaxObj /\ made' = Append(made, [kind |-> "heap", of |-> 0])
      BY <1>1, <1>5 DEF Allocate
    <2>2. Len(made') = Len(made) + 1
      BY <1>1, <2>1
    <2>3. FreshId(CtxOf(s), "heap", i).obj = Len(made')
      BY <2>2 DEF FreshId
    <2>4. CASE state' = state
      <3>1. HeldSlots(state)' = HeldSlots(state)
        BY <2>4 DEF HeldSlots
      <3> QED
        BY <1>1, <1>2, <2>1, <3>1 DEF O!SetState
    <2>5. CASE state' = [state EXCEPT ![s][k] = FreshId(CtxOf(s), "heap", i)]
      <3>1. HeldSlots(state)' = [HeldSlots(state) EXCEPT ![s][k] = Len(made')]
        BY <1>3, <2>3, <2>5
      <3> QED
        BY <1>1, <1>2, <2>1, <3>1 DEF O!SetState
    <2> QED
      BY <1>5, <2>4, <2>5
  <1> QED
    BY <1>4, <1>5 DEF SetState

LEMMA OpenObjects ==
  ASSUME TypeInv, IdentityInv, RootsInv, HeldInv, MadeInv, NEW s \in Stack, Open(s)
  PROVE  O!Open(s)
  <1> DEFINE c == CtxOf(s)
             v == reg[s]
  <1>1. s \in live /\ c \in Context /\ reg \in [Stack -> Value]
    BY CtxOfType DEF Open, TypeInv, HoldersType
  <1>2. v # Nil /\ reg' = [reg EXCEPT ![s] = Get(stores[c][v.store], v).child]
    BY DEF Open
  <1>3. v \in Roots(s)
    BY DEF Roots
  <1>4. PICK M \in SUBSET (Store \X Index) : Supports(stores[c], M, {v})
    BY <1>1, <1>3, RootsHeld
  <1>5. v \in minted[c] /\ Points(stores[c], M, v)
    BY <1>1, <1>2, <1>3, <1>4, RootsHeld DEF Supports
  <1>6. made[v.obj].of = Get(stores[c][v.store], v).child.obj
    BY <1>1, <1>2, <1>5, PointsAsMade DEF Get
  <1>7. v.obj # 0
    BY <1>1, <1>5 DEF MadeInv, MadeAt, TypeInv, HoldersType
  <1>8. Held(reg)' = [Held(reg) EXCEPT ![s] = made[v.obj].of]
    <2> DEFINE w == Get(stores[c][v.store], v).child
    <2>1. w.obj = made[v.obj].of /\ reg' = [reg EXCEPT ![s] = w]
      BY <1>2, <1>6
    <2> HIDE DEF w, v, c
    <2> QED
      BY <1>1, <2>1 DEF Held
  <1>9. Held(reg)[s] = v.obj
    BY HeldAt
  <1>10. UNCHANGED <<live, running, made, HeldSlots(state), Held(kept)>>
    BY DEF Open, Held, HeldSlots
  <1> QED
    BY <1>7, <1>8, <1>9, <1>10 DEF O!Open

LEMMA LoadStateObjects ==
  ASSUME TypeInv, NEW s \in Stack, NEW k \in Slots, LoadState(s, k)
  PROVE  O!LoadState(s, k)
  <1>1. reg \in [Stack -> Value] /\ s \in Stateful
    BY DEF TypeInv, HoldersType, LoadState
  <1>2. Held(reg)' = [Held(reg) EXCEPT ![s] = state[s][k].obj]
    BY <1>1, HeldExcept DEF LoadState
  <1>3. HeldSlots(state)[s][k] = state[s][k].obj
    BY DEF HeldSlots
  <1>4. UNCHANGED <<live, running, made, HeldSlots(state), Held(kept)>>
    BY DEF LoadState, Held, HeldSlots
  <1> QED
    BY <1>1, <1>2, <1>3, <1>4 DEF O!LoadState

LEMMA StoreStateObjects ==
  ASSUME TypeInv, NEW s \in Stack, NEW k \in Slots, StoreState(s, k)
  PROVE  O!StoreState(s, k)
  <1>1. state \in [Stack -> [Slots -> Value]] /\ s \in Stateful
    BY DEF TypeInv, HoldersType, StoreState
  <1>2. state' = [state EXCEPT ![s] = [state[s] EXCEPT ![k] = reg[s]]]
    BY DEF StoreState
  <1>3. HeldSlots(state)' =
          [HeldSlots(state) EXCEPT ![s] = [HeldSlots(state)[s] EXCEPT ![k] = reg[s].obj]]
    <2> DEFINE slots == [state[s] EXCEPT ![k] = reg[s]]
    <2>1. [j \in Slots |-> slots[j].obj] = [HeldSlots(state)[s] EXCEPT ![k] = reg[s].obj]
      <3>1. state[s] \in [Slots -> Value]
        BY <1>1
      <3>2. HeldSlots(state)[s] = [j \in Slots |-> state[s][j].obj]
        BY HeldSlotsAt
      <3>3. \A j \in Slots : slots[j] = IF j = k THEN reg[s] ELSE state[s][j]
        BY <3>1
      <3> HIDE DEF slots
      <3> QED
        BY <3>2, <3>3
    <2>2. state' = [state EXCEPT ![s] = slots]
      BY <1>2
    <2> HIDE DEF slots
    <2> QED
      BY <1>1, <2>1, <2>2 DEF HeldSlots
  <1>4. UNCHANGED <<live, running, made, Held(reg), Held(kept)>>
    BY DEF StoreState, Held
  <1> QED
    BY <1>1, <1>3, <1>4, HeldAt DEF O!StoreState

LEMMA LoadKeptObjects ==
  ASSUME TypeInv, NEW s \in Stack, LoadKept(s)
  PROVE  O!LoadKept(s)
  <1>1. reg \in [Stack -> Value] /\ s \in Keeping
    BY DEF TypeInv, HoldersType, LoadKept
  <1>2. Held(reg)' = [Held(reg) EXCEPT ![s] = kept[s].obj]
    BY <1>1, HeldExcept DEF LoadKept
  <1>3. UNCHANGED <<live, running, made, HeldSlots(state), Held(kept)>>
    BY DEF LoadKept, Held, HeldSlots
  <1> QED
    BY <1>1, <1>2, <1>3, HeldAt DEF O!LoadKept

LEMMA KeepObjects ==
  ASSUME TypeInv, NEW s \in Stack, Keep(s)
  PROVE  O!Keep(s)
  <1>1. kept \in [Stack -> Value] /\ s \in Keeping
    BY DEF TypeInv, HoldersType, Keep
  <1>2. Held(kept)' = [Held(kept) EXCEPT ![s] = reg[s].obj]
    BY <1>1, HeldExcept DEF Keep
  <1>3. UNCHANGED <<live, running, made, HeldSlots(state), Held(reg)>>
    BY DEF Keep, Held, HeldSlots
  <1> QED
    BY <1>1, <1>2, <1>3, HeldAt DEF O!Keep

LEMMA EndRunObjects ==
  ASSUME TypeInv, NEW s \in Stack, EndRun(s)
  PROVE  O!EndRun(s)
  <1>1. state \in [Stack -> [Slots -> Value]] /\ Nil.obj = 0
    BY DEF TypeInv, HoldersType, Nil
  <1>2. PICK untouched \in SUBSET Slots :
          state' = [state EXCEPT ![s] =
                      [k \in Slots |-> IF k \in untouched THEN Nil ELSE state[s][k]]]
    BY DEF EndRun
  <1>3. HeldSlots(state)' =
          [HeldSlots(state) EXCEPT ![s] = O!Without(HeldSlots(state)[s], untouched)]
    <2> DEFINE slots == [k \in Slots |-> IF k \in untouched THEN Nil ELSE state[s][k]]
    <2>1. [k \in Slots |-> slots[k].obj] = O!Without(HeldSlots(state)[s], untouched)
      <3>1. HeldSlots(state)[s] = [k \in Slots |-> state[s][k].obj]
        BY HeldSlotsAt
      <3>2. \A k \in Slots :
              slots[k].obj = IF k \in untouched THEN 0 ELSE HeldSlots(state)[s][k]
        BY <1>1, <3>1
      <3> HIDE DEF slots
      <3> QED
        BY <3>2 DEF O!Without
    <2>2. state' = [state EXCEPT ![s] = slots]
      BY <1>2
    <2> HIDE DEF slots
    <2> QED
      BY <1>1, <2>1, <2>2 DEF HeldSlots
  <1>4. UNCHANGED <<live, made, Held(reg), Held(kept)>> /\ running' = running \ {s}
    BY DEF EndRun, Held
  <1> QED
    BY <1>3, <1>4 DEF O!EndRun

LEMMA ForkObjects ==
  ASSUME TypeInv, NEW src \in Stack, NEW f \in Forks, ForkExecution(src, f)
  PROVE  O!ForkExecution(src, f)
  <1>1. f \in Stack
    BY DEF Stack
  <1>2. Held(reg)' = [Held(reg) EXCEPT ![f] = Held(reg)[src]]
    BY <1>1 DEF ForkExecution, TypeInv, HoldersType, Held
  <1>3. Held(kept)' = [Held(kept) EXCEPT ![f] = Held(kept)[src]]
    BY <1>1 DEF ForkExecution, TypeInv, HoldersType, Held
  <1>4. HeldSlots(state)' = [HeldSlots(state) EXCEPT ![f] = HeldSlots(state)[src]]
    BY <1>1 DEF ForkExecution, TypeInv, HoldersType, HeldSlots
  <1> QED
    BY <1>2, <1>3, <1>4 DEF ForkExecution, O!ForkExecution

LEMMA DropForkObjects ==
  ASSUME TypeInv, NEW f \in Forks, DropFork(f)
  PROVE  O!DropFork(f)
  <1>1. f \in Stack /\ Nil.obj = 0
    BY DEF Stack, Nil
  <1>2. Held(reg)' = [Held(reg) EXCEPT ![f] = 0]
    BY <1>1 DEF DropFork, TypeInv, HoldersType, Held
  <1>3. Held(kept)' = [Held(kept) EXCEPT ![f] = 0]
    BY <1>1 DEF DropFork, TypeInv, HoldersType, Held
  <1>4. HeldSlots(state)' = [HeldSlots(state) EXCEPT ![f] = O!Nothing]
    <2> DEFINE slots == [k \in Slots |-> Nil]
    <2>1. [k \in Slots |-> slots[k].obj] = O!Nothing
      BY <1>1 DEF O!Nothing
    <2>2. state' = [state EXCEPT ![f] = slots]
      BY DEF DropFork
    <2> HIDE DEF slots
    <2> QED
      BY <1>1, <2>1, <2>2 DEF TypeInv, HoldersType, HeldSlots
  <1> QED
    BY <1>2, <1>3, <1>4 DEF DropFork, O!DropFork

(* The slots a stack is given, some of them lost.                          *)
LEMMA SlotsWithout ==
  ASSUME NEW h, NEW t \in Stack, NEW gone, NEW slots,
         \A k \in Slots : slots[k] = IF k \in gone THEN Nil ELSE h[t][k]
  PROVE  [k \in Slots |-> slots[k].obj] = O!Without(HeldSlots(h)[t], gone)
  <1>1. \A k \in Slots : HeldSlots(h)[t][k] = h[t][k].obj
    BY DEF HeldSlots
  <1>2. Nil.obj = 0
    BY DEF Nil
  <1>3. \A k \in Slots : slots[k].obj = IF k \in gone THEN 0 ELSE HeldSlots(h)[t][k]
    BY <1>1, <1>2
  <1> QED
    BY <1>3 DEF O!Without

LEMMA RestoreObjects ==
  ASSUME TypeInv, NEW dst \in Mains, NEW src \in Forks, RestoreExecution(dst, src)
  PROVE  O!RestoreExecution(dst, src)
  <1>1. dst \in Stack /\ src \in Stack /\ Nil.obj = 0
    BY DEF Stack, Nil
  <1>2. Held(reg)' = [Held(reg) EXCEPT ![dst] = 0]
    BY <1>1 DEF RestoreExecution, TypeInv, HoldersType, Held
  <1>3. Held(kept)' = [o \in O!Stack |-> IF o \in Mains THEN 0 ELSE Held(kept)[o]]
    <2>1. kept' = [o \in Stack |-> IF o \in Mains THEN Nil ELSE kept[o]]
      BY DEF RestoreExecution, DropsDerived
    <2> QED
      BY <1>1, <2>1, SameStacks DEF Held
  <1>4. PICK declared \in SUBSET Slots :
          state' = [state EXCEPT ![dst] = Transferred(state[src], declared)]
    BY DEF RestoreExecution
  <1>5. HeldSlots(state)' = [HeldSlots(state) EXCEPT
          ![dst] = O!Without(HeldSlots(state)[src], Slots \ declared)]
    <2> DEFINE slots == Transferred(state[src], declared)
               gone == Slots \ declared
    <2>1. \A k \in Slots : slots[k] = IF k \in gone THEN Nil ELSE state[src][k]
      BY DEF Transferred
    <2>2. state \in [Stack -> [Slots -> Value]] /\ state' = [state EXCEPT ![dst] = slots]
      BY <1>4 DEF TypeInv, HoldersType
    <2> HIDE DEF slots, gone
    <2>3. [k \in Slots |-> slots[k].obj] = O!Without(HeldSlots(state)[src], gone)
      BY <1>1, <2>1, SlotsWithout
    <2>4. HeldSlots(state)' =
            [HeldSlots(state) EXCEPT ![dst] = [k \in Slots |-> slots[k].obj]]
      BY <1>1, <2>2 DEF HeldSlots
    <2> QED
      BY <2>3, <2>4 DEF gone
  <1>6. UNCHANGED <<live, made>> /\ running' = running \ {dst}
    BY DEF RestoreExecution
  <1> QED
    BY <1>2, <1>3, <1>5, <1>6 DEF O!RestoreExecution

LEMMA ReloadObjects ==
  ASSUME TypeInv, IdentityInv, RootsInv, HeldInv, MadeInv, NEW s \in Mains, Reload(s)
  PROVE  O!Reload(s)
  <1>1. /\ s \in Stack /\ s \in live /\ Default \in Context /\ CtxOf(s) = Default
        /\ Nil.obj = 0
    BY DEF Reload, Stack, Context, CtxOf, Nil
  <1>2. Held(reg)' = [Held(reg) EXCEPT ![s] = 0]
    BY <1>1 DEF Reload, TypeInv, HoldersType, Held
  <1>3. Held(kept)' = [Held(kept) EXCEPT ![s] = 0]
    BY <1>1 DEF Reload, TypeInv, HoldersType, Held
  <1>4. PICK declared \in SUBSET Slots :
          state' = [state EXCEPT ![s] = ReloadedState(s, declared)]
    BY DEF Reload
  <1> DEFINE slots == ReloadedState(s, declared)
             functions == {k \in Slots : O!HoldsFunction(HeldSlots(state)[s][k])}
             gone == (Slots \ declared) \cup functions
  <1>5. ASSUME NEW k \in Slots
        PROVE  HoldsFunction(Default, state[s][k]) <=> k \in functions
    <2>1. state[s][k] \in Roots(s)
      BY DEF Roots
    <2>2. /\ state[s][k] \in minted[Default] \cup {Nil}
          /\ \E M \in SUBSET (Store \X Index) : Supports(stores[Default], M, {state[s][k]})
      BY <1>1, <2>1, RootsHeld
    <2>3. HoldsFunction(Default, state[s][k]) <=> O!HoldsFunction(state[s][k].obj)
      BY <1>1, <2>2, FunctionAsMade
    <2>4. HeldSlots(state)[s][k] = state[s][k].obj
      BY <1>1 DEF HeldSlots
    <2> QED
      BY <2>3, <2>4
  <1>6. \A k \in Slots : slots[k] = IF k \in gone THEN Nil ELSE state[s][k]
    <2> HIDE DEF functions
    <2> QED
      BY <1>5 DEF ReloadedState
  <1>7. state \in [Stack -> [Slots -> Value]] /\ state' = [state EXCEPT ![s] = slots]
    BY <1>4 DEF TypeInv, HoldersType
  <1>8. HeldSlots(state)' =
          [HeldSlots(state) EXCEPT ![s] = O!Without(HeldSlots(state)[s], gone)]
    <2> HIDE DEF slots, gone
    <2>1. [k \in Slots |-> slots[k].obj] = O!Without(HeldSlots(state)[s], gone)
      BY <1>1, <1>6, SlotsWithout
    <2>2. HeldSlots(state)' =
            [HeldSlots(state) EXCEPT ![s] = [k \in Slots |-> slots[k].obj]]
      BY <1>1, <1>7 DEF HeldSlots
    <2> QED
      BY <2>1, <2>2
  <1>9. UNCHANGED <<live, made>> /\ running' = running \ {s}
    BY DEF Reload
  <1>10. \E undeclared \in SUBSET Slots :
           HeldSlots(state)' = [HeldSlots(state) EXCEPT ![s] =
             O!Without(@, undeclared
                            \cup {k \in Slots : O!HoldsFunction(HeldSlots(state)[s][k])})]
    <2> HIDE DEF functions
    <2> WITNESS Slots \ declared \in SUBSET Slots
    <2> QED
      BY <1>8 DEF functions
  <1> QED
    BY <1>2, <1>3, <1>9, <1>10 DEF O!Reload

LEMMA CollectObjects ==
  ASSUME NEW c \in Context, CollectGarbage(c)
  PROVE  UNCHANGED O!vars
  BY DEF CollectGarbage, O!vars, Held, HeldSlots

LEMMA NextObjects ==
  TypeInv /\ IdentityInv /\ RootsInv /\ HeldInv /\ MadeInv /\ [Next]_vars
    => [O!Next]_(O!vars)
  <1> SUFFICES ASSUME TypeInv, IdentityInv, RootsInv, HeldInv, MadeInv, Next
               PROVE  O!Next \/ UNCHANGED O!vars
    BY DEF vars, O!vars, Held, HeldSlots
  <1>1. ASSUME NEW s \in Runners, Script(s) PROVE O!Next
    <2>1. s \in Stack
      BY RunnersAreStacks
    <2>2. CASE Begin(s)
      BY <2>1, <2>2, BeginObjects DEF O!Next, Begin
    <2>3. ASSUME NEW st \in Store, Make(s, st) PROVE O!Next
      <3>1. O!Make(s, st) /\ s \in running \cap Runners /\ st \in {"heap", "closures"}
        BY <2>1, <2>3, MakeObjects DEF Make, Store
      <3> QED
        BY <3>1 DEF O!Next
    <2>4. CASE Open(s)
      BY <2>1, <2>4, OpenObjects DEF O!Next, Open
    <2>5. ASSUME NEW k \in Slots, LoadState(s, k) \/ StoreState(s, k) PROVE O!Next
      <3>1. O!LoadState(s, k) \/ O!StoreState(s, k)
        BY <2>1, <2>5, LoadStateObjects, StoreStateObjects
      <3>2. s \in running \cap Runners
        BY <2>5 DEF LoadState, StoreState
      <3> QED
        BY <3>1, <3>2 DEF O!Next
    <2>6. CASE LoadKept(s)
      BY <2>1, <2>6, LoadKeptObjects DEF O!Next, LoadKept
    <2>7. CASE Keep(s)
      BY <2>1, <2>7, KeepObjects DEF O!Next, Keep
    <2>8. CASE EndRun(s)
      BY <2>1, <2>8, EndRunObjects DEF O!Next, EndRun
    <2> QED
      BY <1>1, <2>2, <2>3, <2>4, <2>5, <2>6, <2>7, <2>8 DEF Script
  <1>2. ASSUME NEW c \in Context, CollectGarbage(c) PROVE UNCHANGED O!vars
    BY <1>2, CollectObjects
  <1>3. ASSUME NEW src \in Stack, NEW f \in Forks, ForkExecution(src, f) PROVE O!Next
    <2>1. src \in live /\ f \in Forks \ live
      BY <1>3 DEF ForkExecution
    <2> QED
      BY <1>3, <2>1, ForkObjects DEF O!Next
  <1>4. ASSUME NEW f \in Forks, DropFork(f) PROVE O!Next
    <2>1. f \in Forks \cap live
      BY <1>4 DEF DropFork
    <2> QED
      BY <1>4, <2>1, DropForkObjects DEF O!Next
  <1>5. ASSUME NEW dst \in Mains, NEW src \in Forks, RestoreExecution(dst, src)
        PROVE  O!Next
    <2>1. src \in Forks \cap live
      BY <1>5 DEF RestoreExecution
    <2> QED
      BY <1>5, <2>1, RestoreObjects DEF O!Next
  <1>6. ASSUME NEW s \in Mains, Reload(s) PROVE O!Next
    BY <1>6, ReloadObjects DEF O!Next
  <1>7. ASSUME NEW s \in Stack, NEW k \in Slots, SetState(s, k) PROVE O!Next
    <2>1. s \in live
      BY <1>7 DEF SetState
    <2> QED
      BY <1>7, <2>1, SetStateObjects DEF O!Next
  <1> QED
    BY <1>1, <1>2, <1>3, <1>4, <1>5, <1>6, <1>7 DEF Next

(* Under the same condition the whole heap is invisible: every behaviour   *)
(* of contexts that are collected, set by the host, forked, restored and   *)
(* reloaded is one of a program whose objects are made once, never move    *)
(* and never end (docs/features/time-travel.md, env/fork.rs,               *)
(* transfer_state.rs).                                                     *)
THEOREM HeapImplementsObjects ==
  ASSUME ~FnSnapshots
  PROVE  Spec => ImplementsObjects
  <1> DEFINE Inv == TypeInv /\ IdentityInv /\ RootsInv /\ HeldInv /\ MadeInv
  <1>1. Init => Inv
    BY InitTypeInv, InitIdentity, InitRoots, InitMade
  <1>2. Inv /\ [Next]_vars => Inv'
    BY NextTypeInv, NextIdentity, NextRoots, NextMade
  <1>3. Init => O!Init
    BY InitObjects
  <1>4. Inv /\ [Next]_vars => [O!Next]_(O!vars)
    BY NextObjects
  <1> HIDE DEF Inv
  <1> QED
    BY <1>1, <1>2, <1>3, <1>4, PTL DEF Spec, ImplementsObjects, O!Spec


=============================================================================
