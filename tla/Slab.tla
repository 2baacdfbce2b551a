-------------------------------- MODULE Slab --------------------------------
(***************************************************************************)
(* A slab: the slot store behind every kind of heap object and behind the  *)
(* closure table (core/src/heap.rs, `Slab<T>`).                            *)
(*                                                                         *)
(* An id is a slot index and a generation. A slot that is reclaimed and    *)
(* reused issues the next generation, so that an id of the object that was *)
(* there never names the object that is there now. What is kept of a       *)
(* payload is `obj`, which object it is, and `child`, the one value it     *)
(* refers to (a list's element, a closure's capture).                      *)
(*                                                                         *)
(* Left out: freezing, immutability and speculation epochs, which decide   *)
(* whether an operation edits an object or copies it, and which free slot  *)
(* is taken first (any of them may be).                                    *)
(***************************************************************************)
EXTENDS Integers

CONSTANTS
  MaxIndex,   \* the last slot a slab may grow to; a bound of the model
  MaxGen      \* u32::MAX: the last generation a slot may issue

ASSUME SlabAssumption == MaxIndex \in Nat /\ MaxGen \in Nat

Index      == 0..MaxIndex
Generation == 0..MaxGen
Store      == {"heap", "closures"}

(* A slot no allocation has reached: the first generation it issues is 0.  *)
Never == -1

(* A value: an id of one of the two stores, or something without an id.    *)
(* `obj` is a history of the id: the object it was minted for. The code    *)
(* has no such field and no operator below looks at it.                    *)
Nil   == [store |-> "none", ix |-> 0, gen |-> 0, obj |-> 0]
Id    == [store : Store, ix : Index, gen : Generation, obj : Nat]
Value == Id \cup {Nil}

Payload == [obj : Nat, child : Value]
Emptied == [obj |-> 0, child |-> Nil]

Slot == [alive : BOOLEAN, gen : Generation \cup {Never},
         high_water : Generation \cup {Never}, data : Payload]

SlabType == [slots : [Index -> Slot], free : SUBSET Index]

New == [slots |-> [i \in Index |-> [alive |-> FALSE, gen |-> Never,
                                    high_water |-> Never, data |-> Emptied]],
        free  |-> {}]

(* slots.len() slots exist, the ones whose generations have begun.         *)
Exists(s, i) == s.slots[i].high_water # Never

(* The slots `alloc` may take: one of the free list, else the next one.    *)
Allocatable(s) ==
  IF s.free # {}
  THEN s.free
  ELSE {i \in Index : ~Exists(s, i) /\ \A j \in Index : j < i => Exists(s, j)}

NextGen(s, i) == s.slots[i].high_water + 1

Alloc(s, i, data) ==
  [slots |-> [s.slots EXCEPT ![i] =
                [alive |-> TRUE, gen |-> NextGen(s, i),
                 high_water |-> NextGen(s, i), data |-> data]],
   free  |-> s.free \ {i}]

IsLive(s, v) == s.slots[v.ix].alive /\ s.slots[v.ix].gen = v.gen

(* What `get` reads: the slot, whoever lives there now. Only debug builds  *)
(* compare the generation first.                                           *)
Get(s, v) == s.slots[v.ix].data

(* Mutant: a slot whose generations have run out is not retired.           *)
FreeOfUnretired(slots) ==
  {i \in Index : ~slots[i].alive /\ slots[i].high_water # Never}

(* Dead slots go on the free list, except those whose generations have run *)
(* out, which are retired.                                                 *)
FreeOf(slots) ==
  {i \in Index : ~slots[i].alive /\ slots[i].high_water \notin {Never, MaxGen}}

Sweep(s, marked) ==
  LET slots == [i \in Index |->
                  IF s.slots[i].alive /\ i \notin marked
                  THEN [s.slots[i] EXCEPT !.alive = FALSE, !.data = Emptied]
                  ELSE s.slots[i]]
  IN  [slots |-> slots, free |-> FreeOf(slots)]

Clear(s) == Sweep(s, {})

Highest(a, b) == IF a >= b THEN a ELSE b

(* Mutant: the replaced slab's generations are forgotten.                  *)
InheritNothing(s, other) == s

(* Mutant: the slots `other` had beyond this slab's are added but not put  *)
(* on the free list.                                                       *)
InheritWithoutFreeing(s, other) ==
  LET hw(i)  == Highest(s.slots[i].high_water, other.slots[i].high_water)
      added  == {i \in Index : ~Exists(s, i) /\ Exists(other, i)}
      slots  == [i \in Index |->
                   IF i \in added
                   THEN [alive |-> FALSE, gen |-> hw(i), high_water |-> hw(i),
                         data |-> Emptied]
                   ELSE [s.slots[i] EXCEPT !.high_water = hw(i)]]
  IN  [slots |-> slots,
       free  |-> {i \in s.free : slots[i].high_water # MaxGen}]

(* This slab replaces `other` under the same owner.                        *)
InheritGenerations(s, other) ==
  LET hw(i)  == Highest(s.slots[i].high_water, other.slots[i].high_water)
      added  == {i \in Index : ~Exists(s, i) /\ Exists(other, i)}
      slots  == [i \in Index |->
                   IF i \in added
                   THEN [alive |-> FALSE, gen |-> hw(i), high_water |-> hw(i),
                         data |-> Emptied]
                   ELSE [s.slots[i] EXCEPT !.high_water = hw(i)]]
  IN  [slots |-> slots,
       free  |-> {i \in s.free \cup added : slots[i].high_water # MaxGen}]

=============================================================================
