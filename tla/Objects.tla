------------------------------ MODULE Objects -------------------------------
(***************************************************************************)
(* What a program may take for granted of the heap, whatever its host does *)
(* with collections, forks, restores and reloads (docs/features/           *)
(* time-travel.md; env/fork.rs, env/gc.rs, transfer_state.rs): there is    *)
(* none. An object is made once, is what it was made as for ever, and is   *)
(* there for whoever has it. Nothing is collected, no slot is used again,  *)
(* a fork has the very objects of the stack it was made from, and what a   *)
(* restore brings back is what the fork had.                               *)
(*                                                                         *)
(* HeapFork implements this; there are no ids, slots, generations, free    *)
(* lists or contexts here. A value is the number of an object, or 0.       *)
(***************************************************************************)
EXTENDS Naturals, Sequences

CONSTANTS Mains, Forks, Slots, Stateful, Keeping, Runners, MaxObj

VARIABLES
  live,      \* the stacks the Env holds
  running,   \* the stacks in the middle of a run
  reg,       \* per stack, the register of its frame, or its last result
  state,     \* per stack, its state slots
  kept,      \* per stack, a value a run left for later runs
  made       \* every object, in the order they were made: its kind, and what of

vars == <<live, running, reg, state, kept, made>>

Stack   == Mains \cup Forks
Nothing == [k \in Slots |-> 0]

Init ==
  /\ live    = Mains
  /\ running = {}
  /\ reg     = [s \in Stack |-> 0]
  /\ state   = [s \in Stack |-> Nothing]
  /\ kept    = [s \in Stack |-> 0]
  /\ made    = <<>>

(* A function is among what v is and what that is made of.                 *)
HoldsFunction(v) ==
  LET MadeWithin(M) == \A n \in M : made[n].of \in M \cup {0}
  IN  /\ v # 0
      /\ \A M \in SUBSET DOMAIN made :
           v \in M /\ MadeWithin(M) => \E n \in M : made[n].kind = "closures"

-----------------------------------------------------------------------------
(* A run.                                                                  *)

Begin(s) ==
  /\ running' = running \cup {s}
  /\ reg' = [reg EXCEPT ![s] = 0]
  /\ UNCHANGED <<live, made, state, kept>>

Make(s, kind) ==
  /\ Len(made) < MaxObj
  /\ made' = Append(made, [kind |-> kind, of |-> reg[s]])
  /\ reg' = [reg EXCEPT ![s] = Len(made')]
  /\ UNCHANGED <<live, running, state, kept>>

(* What an object is made of is what it was made of.                       *)
Open(s) ==
  /\ reg[s] # 0
  /\ UNCHANGED <<live, running, made, state, kept>>
  /\ reg' = [reg EXCEPT ![s] = made[reg[s]].of]

LoadState(s, k) ==
  /\ s \in Stateful
  /\ UNCHANGED <<live, running, made, state, kept>>
  /\ reg' = [reg EXCEPT ![s] = state[s][k]]

StoreState(s, k) ==
  /\ s \in Stateful
  /\ UNCHANGED <<live, running, made, reg, kept>>
  /\ state' = [state EXCEPT ![s][k] = reg[s]]

LoadKept(s) ==
  /\ s \in Keeping
  /\ UNCHANGED <<live, running, made, state, kept>>
  /\ reg' = [reg EXCEPT ![s] = kept[s]]

Keep(s) ==
  /\ s \in Keeping
  /\ UNCHANGED <<live, running, made, reg, state>>
  /\ kept' = [kept EXCEPT ![s] = reg[s]]

Without(slots, gone) == [k \in Slots |-> IF k \in gone THEN 0 ELSE slots[k]]

(* Some of the slots, when the run completed, were not touched in it.      *)
EndRun(s) ==
  /\ running' = running \ {s}
  /\ UNCHANGED <<live, made, reg, kept>>
  /\ \E untouched \in SUBSET Slots :
       state' = [state EXCEPT ![s] = Without(@, untouched)]

-----------------------------------------------------------------------------
(* What a host does.                                                       *)

(* A slot is given a new object, or nothing; the object may come to be     *)
(* made for nothing.                                                       *)
SetState(s, k) ==
  /\ s \in Stateful
  /\ UNCHANGED <<live, running, reg, kept>>
  /\ \/ state' = [state EXCEPT ![s][k] = 0] /\ UNCHANGED made
     \/ /\ Len(made) < MaxObj
        /\ made' = Append(made, [kind |-> "heap", of |-> 0])
        /\ state' \in {state, [state EXCEPT ![s][k] = Len(made')]}

ForkExecution(src, f) ==
  /\ live'    = live \cup {f}
  /\ running' = IF src \in running THEN running \cup {f} ELSE running
  /\ reg'     = [reg EXCEPT ![f] = reg[src]]
  /\ state'   = [state EXCEPT ![f] = state[src]]
  /\ kept'    = [kept EXCEPT ![f] = kept[src]]
  /\ UNCHANGED made

DropFork(f) ==
  /\ live'    = live \ {f}
  /\ running' = running \ {f}
  /\ reg'     = [reg EXCEPT ![f] = 0]
  /\ state'   = [state EXCEPT ![f] = Nothing]
  /\ kept'    = [kept EXCEPT ![f] = 0]
  /\ UNCHANGED made

(* The fork's state comes back in the stack; the other stacks keep theirs, *)
(* but no stack keeps what earlier runs left for later ones.               *)
RestoreExecution(dst, src) ==
  /\ UNCHANGED <<live, made>>
  /\ running' = running \ {dst}
  /\ reg'     = [reg EXCEPT ![dst] = 0]
  /\ kept'    = [o \in Stack |-> IF o \in Mains THEN 0 ELSE kept[o]]
  /\ \E undeclared \in SUBSET Slots :
       state' = [state EXCEPT ![dst] = Without(state[src], undeclared)]

(* A slot the new program declares is carried over, unless a function is   *)
(* in it; no other slot is lost.                                           *)
Reload(s) ==
  /\ UNCHANGED <<live, made>>
  /\ running' = running \ {s}
  /\ reg'     = [reg EXCEPT ![s] = 0]
  /\ kept'    = [kept EXCEPT ![s] = 0]
  /\ \E undeclared \in SUBSET Slots :
       state' = [state EXCEPT ![s] =
         Without(@, undeclared \cup {k \in Slots : HoldsFunction(@[k])})]

-----------------------------------------------------------------------------

Next ==
  \/ \E s \in live \cap Runners : Begin(s)
  \/ \E s \in running \cap Runners :
       \/ \E kind \in {"heap", "closures"} : Make(s, kind)
       \/ Open(s)
       \/ \E k \in Slots : LoadState(s, k) \/ StoreState(s, k)
       \/ LoadKept(s)
       \/ Keep(s)
       \/ EndRun(s)
  \/ \E s \in live, k \in Slots : SetState(s, k)
  \/ \E src \in live, f \in Forks \ live : ForkExecution(src, f)
  \/ \E f \in Forks \cap live : DropFork(f)
  \/ \E dst \in Mains, src \in Forks \cap live : RestoreExecution(dst, src)
  \/ \E s \in Mains : Reload(s)

Spec == Init /\ [][Next]_vars

=============================================================================
