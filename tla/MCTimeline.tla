----------------------------- MODULE MCTimeline -----------------------------
(***************************************************************************)
(* Values for the constants of Timeline. What a program makes of a frame   *)
(* is the term of all it could depend on, so that two executions are equal *)
(* only if the same programs made them of the same inputs, frame numbers   *)
(* and writes.                                                             *)
(***************************************************************************)
EXTENDS Timeline, TLC

MCRun(p, e, i, c) == <<p, e.ran, e.over, i, c>>

ForkSymmetry == Permutations(Forks)
=============================================================================
