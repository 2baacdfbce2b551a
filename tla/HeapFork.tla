------------------------------ MODULE HeapFork ------------------------------
(***************************************************************************)
(* The heap and the closure table of execution contexts, collected while   *)
(* programs run, cloned by forks, put back by restores and cleared by      *)
(* reloads (core/src/heap.rs, closure_table.rs, env/gc.rs, env/fork.rs,    *)
(* execution_context.rs, transfer_state.rs, env/reload.rs).                *)
(*                                                                         *)
(* A stack is what a host runs; each main stack lives in the default       *)
(* context, each fork in a context of its own. Of a stack's frames one     *)
(* register is kept, which a running script loads, stores, builds lists    *)
(* from, closes over and looks into; `kept` stands for what a run leaves   *)
(* for later runs (static values, memo records), `state` for its slots.    *)
(***************************************************************************)
EXTENDS Slab, FiniteSets, Sequences

CONSTANTS
  Default,           \* the default context
  Mains,             \* the stacks create_stack made: all in the default context
  Forks,             \* the stacks fork_execution may make, one context each
  Slots,             \* the state slots of the program
  Stateful,          \* the stacks whose program declares them
  Keeping,           \* the stacks whose runs leave values for later runs
  Runners,           \* the stacks the host runs
  MaxObj,            \* how many objects are allocated; a bound of the model
  FnSnapshots        \* whether a fork whose state holds a function is restored

ASSUME HeapForkAssumption ==
  /\ Default \notin Mains \cup Forks /\ Mains \cap Forks = {}
  /\ Stateful \cup Keeping \cup Runners \subseteq Mains \cup Forks
  /\ MaxObj \in Nat
  /\ FnSnapshots \in BOOLEAN

Stack   == Mains \cup Forks
Context == {Default} \cup Forks

CtxOf(s) == IF s \in Mains THEN Default ELSE s

VARIABLES
  stores,    \* per context, its heap and its closure table
  live,      \* the stacks the Env holds
  running,   \* the stacks in the middle of a run, yielded ones included
  reg,       \* per stack, the register of its frame, or its last result
  state,     \* per stack, its state slots
  kept,      \* per stack, a value a run left for later runs
  minted,    \* history: per context, every id issued in it or before its fork
  doubled,   \* history: per context, the ids both sides of a restore had issued
  made       \* history: of every object allocated, its store and what it was made of

vars == <<stores, live, running, reg, state, kept, minted, doubled, made>>

NoStores == [st \in Store |-> New]

Init ==
  /\ stores   = [c \in Context |-> NoStores]
  /\ live     = Mains
  /\ running  = {}
  /\ reg      = [s \in Stack |-> Nil]
  /\ state    = [s \in Stack |-> [k \in Slots |-> Nil]]
  /\ kept     = [s \in Stack |-> Nil]
  /\ minted   = [c \in Context |-> {}]
  /\ doubled  = [c \in Context |-> {}]
  /\ made     = <<>>

-----------------------------------------------------------------------------
(* Ids in a context.                                                       *)

Names(c, v) == v # Nil /\ IsLive(stores[c][v.store], v)

Child(c, p) == stores[c][p[1]].slots[p[2]].data.child

LiveSlots(c) == {p \in Store \X Index : stores[c][p[1]].slots[p[2]].alive}

(* What a mark phase from `roots` reaches: the least set of live slots the *)
(* roots name that is closed under the objects' references. The heap and   *)
(* the closure table are marked jointly, and a stale id marks nothing.     *)
Reached(c, roots) ==
  LET Target(v)      == IF Names(c, v) THEN {<<v.store, v.ix>>} ELSE {}
      ClosedMark(M)  == /\ \A v \in roots : Target(v) \subseteq M
                        /\ \A p \in M : Target(Child(c, p)) \subseteq M
  IN  {p \in LiveSlots(c) :
         \A M \in SUBSET LiveSlots(c) : ClosedMark(M) => p \in M}

HoldsFunction(c, v) ==
  v.store = "closures" \/ \E p \in Reached(c, {v}) : p[1] = "closures"

Roots(s) == {reg[s], kept[s]} \cup {state[s][k] : k \in Slots}

(* Mutant: what runs leave for later runs is not a root.                   *)
RootsWithoutKept(c) ==
  UNION {{reg[s]} \cup {state[s][k] : k \in Slots} :
           s \in {t \in live : CtxOf(t) = c}}

ContextRoots(c) == UNION {Roots(s) : s \in {t \in live : CtxOf(t) = c}}

-----------------------------------------------------------------------------
(* An allocation in a context.                                             *)

FreshId(c, st, i) ==
  [store |-> st, ix |-> i, gen |-> NextGen(stores[c][st], i), obj |-> Len(made) + 1]

Allocate(c, st, i, child) ==
  /\ Len(made) < MaxObj
  /\ stores' = [stores EXCEPT ![c][st] =
                  Alloc(@, i, [obj |-> Len(made) + 1, child |-> child])]
  /\ minted' = [minted EXCEPT ![c] = @ \cup {FreshId(c, st, i)}]
  /\ made' = Append(made, [kind |-> st, of |-> child.obj])

-----------------------------------------------------------------------------
(* A run: reset_stack and run, the script's instructions, a collection     *)
(* between two of them, and the end of the run.                            *)

Begin(s) ==
  /\ s \in live
  /\ running' = running \cup {s}
  /\ reg' = [reg EXCEPT ![s] = Nil]
  /\ UNCHANGED <<stores, live, state, kept, minted, doubled, made>>

(* A list of, or a closure over, the value in the register.                *)
Make(s, st) ==
  LET c == CtxOf(s) IN
  /\ s \in running
  /\ \E i \in Allocatable(stores[c][st]) :
       /\ Allocate(c, st, i, reg[s])
       /\ reg' = [reg EXCEPT ![s] = FreshId(c, st, i)]
  /\ UNCHANGED <<live, running, state, kept, doubled>>

(* A list's element, or the captured value of a closure that is called.    *)
Open(s) ==
  /\ s \in running /\ reg[s] # Nil
  /\ reg' = [reg EXCEPT ![s] = Get(stores[CtxOf(s)][reg[s].store], reg[s]).child]
  /\ UNCHANGED <<stores, live, running, state, kept, minted, doubled, made>>

LoadState(s, k) ==
  /\ s \in running \cap Stateful
  /\ reg' = [reg EXCEPT ![s] = state[s][k]]
  /\ UNCHANGED <<stores, live, running, state, kept, minted, doubled, made>>

StoreState(s, k) ==
  /\ s \in running \cap Stateful
  /\ state' = [state EXCEPT ![s][k] = reg[s]]
  /\ UNCHANGED <<stores, live, running, reg, kept, minted, doubled, made>>

LoadKept(s) ==
  /\ s \in running \cap Keeping
  /\ reg' = [reg EXCEPT ![s] = kept[s]]
  /\ UNCHANGED <<stores, live, running, state, kept, minted, doubled, made>>

Keep(s) ==
  /\ s \in running \cap Keeping
  /\ kept' = [kept EXCEPT ![s] = reg[s]]
  /\ UNCHANGED <<stores, live, running, reg, state, minted, doubled, made>>

(* Only the run loop collects, so a stack of the context is in a run. The  *)
(* roots are those of every stack bound to the context.                    *)
CollectGarbage(c) ==
  LET marked == Reached(c, ContextRoots(c)) IN
  /\ \E s \in running \cap Runners : CtxOf(s) = c
  /\ stores' = [stores EXCEPT ![c] = [st \in Store |->
                  Sweep(@[st], {i \in Index : <<st, i>> \in marked})]]
  /\ UNCHANGED <<live, running, reg, state, kept, minted, doubled, made>>

(* A run that completes sweeps the slots it did not touch; a run that      *)
(* fails sweeps none. The result, or the frames a failure left, are roots  *)
(* until the next reset.                                                   *)
EndRun(s) ==
  /\ s \in running
  /\ running' = running \ {s}
  /\ \E untouched \in SUBSET Slots :
       state' = [state EXCEPT ![s] =
                   [k \in Slots |-> IF k \in untouched THEN Nil ELSE @[k]]]
  /\ UNCHANGED <<stores, live, reg, kept, minted, doubled, made>>

-----------------------------------------------------------------------------
(* The host sets a slot, of a fork that only stands for a frame as well:   *)
(* what it sends is rebuilt in the stack's own context. It is a number or  *)
(* the like, or a list (of parts a number stands for here); a list that    *)
(* cannot be finished is left to the collector. A `state var`'s cell is    *)
(* taken for its slot.                                                     *)
SetState(s, k) ==
  LET c == CtxOf(s) IN
  /\ s \in live \cap Stateful
  /\ \/ /\ state' = [state EXCEPT ![s][k] = Nil]
        /\ UNCHANGED <<stores, minted, made>>
     \/ \E i \in Allocatable(stores[c]["heap"]) :
          /\ Allocate(c, "heap", i, Nil)
          /\ state' \in {state, [state EXCEPT ![s][k] = FreshId(c, "heap", i)]}
  /\ UNCHANGED <<live, running, reg, kept, doubled>>

-----------------------------------------------------------------------------
(* Forks, restores and reloads.                                            *)

ForkExecution(src, f) ==
  /\ src \in live /\ f \in Forks \ live
  /\ live'     = live \cup {f}
  /\ stores'   = [stores EXCEPT ![f] = stores[CtxOf(src)]]
  /\ running'  = IF src \in running THEN running \cup {f} ELSE running
  /\ reg'      = [reg EXCEPT ![f] = reg[src]]
  /\ state'    = [state EXCEPT ![f] = state[src]]
  /\ kept'     = [kept EXCEPT ![f] = kept[src]]
  /\ minted'   = [minted EXCEPT ![f] = minted[CtxOf(src)]]
  /\ doubled'  = [doubled EXCEPT ![f] = doubled[CtxOf(src)]]
  /\ UNCHANGED made

DropFork(f) ==
  /\ f \in Forks \cap live
  /\ live'     = live \ {f}
  /\ stores'   = [stores EXCEPT ![f] = NoStores]
  /\ running'  = running \ {f}
  /\ reg'      = [reg EXCEPT ![f] = Nil]
  /\ state'    = [state EXCEPT ![f] = [k \in Slots |-> Nil]]
  /\ kept'     = [kept EXCEPT ![f] = Nil]
  /\ minted'   = [minted EXCEPT ![f] = {}]
  /\ doubled'  = [doubled EXCEPT ![f] = {}]
  /\ UNCHANGED made

(* What transfer_stack_state and drop_derived leave of a stack: the slots  *)
(* the program loaded now declares, no frames and nothing kept.            *)
Transferred(slots, declared) ==
  [k \in Slots |-> IF k \in declared THEN slots[k] ELSE Nil]

(* What a restore leaves in the default context: a copy of the fork's      *)
(* stores that issues no id of the stores it replaces, and no closures.    *)
Restored(src) ==
  [st \in Store |->
     LET s == InheritGenerations(stores[src][st], stores[Default][st])
     IN  IF st = "closures" THEN Clear(s) ELSE s]

(* What a host must not do, for ids it holds to stay sound. A stack that   *)
(* shares the context has state no restore can help, and a frame in the    *)
(* middle of a run likewise (docs/features/time-travel.md: "Give a stack   *)
(* that will be rewound a context of its own").                            *)
RestoreAllowed(dst, src) ==
  /\ \A o \in Mains \ {dst} :
       o \notin running /\ reg[o] = Nil /\ \A k \in Slots : state[o][k] = Nil
  /\ FnSnapshots \/ \A k \in Slots : ~HoldsFunction(src, state[src][k])

DropsDerived(dst, o) == o \in Mains

(* One slot and generation, given to two objects.                          *)
Collide(a, b) == a.store = b.store /\ a.ix = b.ix /\ a.gen = b.gen /\ a.obj # b.obj

(* The ids the context and the fork have both issued since they parted:    *)
(* each went on from the generations of the moment of the fork.            *)
IssuedTwice(src) ==
  {id \in minted[Default] : \E other \in minted[src] : Collide(id, other)}
    \cup {id \in minted[src] : \E other \in minted[Default] : Collide(id, other)}

RestoreExecution(dst, src) ==
  /\ dst \in Mains \cap live /\ src \in Forks \cap live
  /\ RestoreAllowed(dst, src)
  /\ stores'  = [stores EXCEPT ![Default] = Restored(src)]
  /\ running' = running \ {dst}
  /\ reg'     = [reg EXCEPT ![dst] = Nil]
  /\ \E declared \in SUBSET Slots :
       state' = [state EXCEPT ![dst] = Transferred(state[src], declared)]
  /\ kept'    = [o \in Stack |-> IF DropsDerived(dst, o) THEN Nil ELSE kept[o]]
  /\ minted'  = [minted EXCEPT ![Default] = @ \cup minted[src]]
  /\ doubled' = [doubled EXCEPT ![Default] = @ \cup doubled[src] \cup IssuedTwice(src)]
  /\ UNCHANGED <<live, made>>

(* A reload that changes something clears the closure table, after it      *)
(* drops the slots that hold a function. Only the stack the host names is  *)
(* looked through: the others must hold no function.                       *)
ReloadedState(s, declared) ==
  [k \in Slots |->
     IF k \in declared /\ ~HoldsFunction(Default, state[s][k])
     THEN state[s][k] ELSE Nil]

Reload(s) ==
  /\ s \in Mains \cap live
  /\ \A o \in Mains \ {s} : \A v \in Roots(o) : ~HoldsFunction(Default, v)
  /\ stores'  = [stores EXCEPT ![Default]["closures"] = Clear(@)]
  /\ running' = running \ {s}
  /\ reg'     = [reg EXCEPT ![s] = Nil]
  /\ \E declared \in SUBSET Slots :
       state' = [state EXCEPT ![s] = ReloadedState(s, declared)]
  /\ kept'    = [kept EXCEPT ![s] = Nil]
  /\ UNCHANGED <<live, minted, doubled, made>>

-----------------------------------------------------------------------------

Script(s) ==
  \/ Begin(s)
  \/ \E st \in Store : Make(s, st)
  \/ Open(s)
  \/ \E k \in Slots : LoadState(s, k) \/ StoreState(s, k)
  \/ LoadKept(s)
  \/ Keep(s)
  \/ EndRun(s)

Next ==
  \/ \E s \in Runners : Script(s)
  \/ \E c \in Context : CollectGarbage(c)
  \/ \E s \in Stack, k \in Slots : SetState(s, k)
  \/ \E src \in Stack, f \in Forks : ForkExecution(src, f)
  \/ \E f \in Forks : DropFork(f)
  \/ \E dst \in Mains, src \in Forks : RestoreExecution(dst, src)
  \/ \E s \in Mains : Reload(s)

Spec == Init /\ [][Next]_vars

-----------------------------------------------------------------------------

StoresType == [Store -> SlabType]

TypeOK ==
  /\ stores \in [Context -> StoresType]
  /\ live \subseteq Stack /\ running \subseteq live
  /\ reg \in [Stack -> Value]
  /\ state \in [Stack -> [Slots -> Value]]
  /\ kept \in [Stack -> Value]
  /\ minted \in [Context -> SUBSET Id] /\ doubled \in [Context -> SUBSET Id]
  /\ made \in Seq([kind : Store, of : Nat])

(* An id names the object it was minted for or nothing, whatever was       *)
(* collected, reused, cleared, restored or reloaded since: no reader that  *)
(* checks is_live before it dereferences (the trace buffer, a host) is     *)
(* ever shown another object in its place. The exception is an id that a   *)
(* context and its fork had both issued when the fork was restored: what   *)
(* is issued before the fork or after the restore is issued once.          *)
NoAliasing ==
  \A c \in Context : \A id \in minted[c] \ doubled[c] :
    Names(c, id) => Get(stores[c][id.store], id).obj = id.obj

Resolves(c, v) ==
  v = Nil \/ (Names(c, v) /\ Get(stores[c][v.store], v).obj = v.obj)

(* What a strong holder needs: everything reachable from the register,     *)
(* the state and the kept values of a stack is there, and is what it was,  *)
(* through every collection, restore and reload between two instructions.  *)
RootsResolve ==
  \A s \in live : \A v \in Roots(s) :
    /\ Resolves(CtxOf(s), v)
    /\ \A p \in Reached(CtxOf(s), {v}) : Resolves(CtxOf(s), Child(CtxOf(s), p))

-----------------------------------------------------------------------------
(* Programs without a heap: what a stack holds are the objects its ids     *)
(* were minted for, wherever they are now.                                 *)

Held(h)      == [s \in Stack |-> h[s].obj]
HeldSlots(h) == [s \in Stack |-> [k \in Slots |-> h[s][k].obj]]

O == INSTANCE Objects WITH
       reg <- Held(reg), state <- HeldSlots(state), kept <- Held(kept)

(* ImplementsObjects: a program never finds out that it has a heap. What   *)
(* it takes out of a value is what was put in, and what a host's forks,    *)
(* restores and reloads hand it are the objects that were there, however   *)
(* many slots were collected and used again since.                         *)
ImplementsObjects == O!Spec

(* The free list holds every dead slot that can still issue a generation,  *)
(* and no other: nothing is handed out while it is live, and no slot is    *)
(* lost to a collection, a clear or a restore.                             *)
FreeListExact ==
  \A c \in Context, st \in Store :
    stores[c][st].free = FreeOf(stores[c][st].slots)

=============================================================================
