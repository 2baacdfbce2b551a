----------------------------- MODULE Execution ------------------------------
(***************************************************************************)
(* A program's execution between two frames, as the timeline sees it: what *)
(* the last run left, and the top-level state variables a host has written *)
(* over since (core/src/env/state_json.rs). What a run makes of the        *)
(* execution it starts from, its input and its frame number is Run: it     *)
(* depends on nothing else.                                                *)
(***************************************************************************)
CONSTANTS
  Names,            \* the top-level state variables a host writes
  Values,           \* what it writes into them
  Own,              \* not written: the variable is as the run left it
  Fresh,            \* the state of a stack that has not run
  Run(_, _, _, _)   \* what a program makes of an execution, an input, a frame

ASSUME OwnIsNoValue == Own \notin Values

(* The writes filed against a frame, one per variable.                     *)
Writes    == [Names -> Values \cup {Own}]
Untouched == [n \in Names |-> Own]

Ran(r) == [ran |-> r, over |-> Untouched]

Write(e, n, v) == [e EXCEPT !.over[n] = v]

(* Mutant: the writes filed against a frame are lost when it runs again.   *)
ApplyNothing(e, w) == e

Apply(e, w) ==
  [e EXCEPT !.over = [n \in Names |-> IF w[n] = Own THEN e.over[n] ELSE w[n]]]
=============================================================================
