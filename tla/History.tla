------------------------------ MODULE History -------------------------------
(***************************************************************************)
(* What time travel promises (petal-desktop-sdl/src/timeline.rs, module    *)
(* documentation and `Timeline`): a log of frames, each of which is its    *)
(* recorded input run by a program from the frame before, with the writes  *)
(* filed against it. The game goes on from the frame on screen, whichever  *)
(* that is; a log that is rerun has a part done and a part still to do.    *)
(* There are no forks here and no live stack: a frame has its execution.   *)
(***************************************************************************)
EXTENDS Execution, Naturals, Sequences

CONSTANTS
  Inputs,           \* what a frame is given: its input, dt and time()
  MaxFrame          \* how many frames a game has; a bound of the model

VARIABLES
  past,      \* the frames that are done, oldest first
  future,    \* the recorded frames a rerun has still to do
  at,        \* the frame on screen; 0 when there is none
  now,       \* the execution the next frame is run from
  program    \* the program that is loaded

vars == <<past, future, at, now, program>>

(* A frame as a rerun needs it, and as a run of it from `e` leaves it.     *)
Recorded(f) == [input |-> f.input, frame |-> f.frame, writes |-> f.writes]

Done(e, f) ==
  LET r == Run(program, e, f.input, f.frame)
  IN  [input |-> f.input, frame |-> f.frame, writes |-> f.writes,
       program |-> program, drawn |-> r, state |-> Apply(Ran(r), f.writes)]

Rewritten(f, n, v, e) ==
  [input |-> f.input, frame |-> f.frame, writes |-> [f.writes EXCEPT ![n] = v],
   program |-> f.program, drawn |-> f.drawn, state |-> e]

Upto(k) == SubSeq(past, 1, k)
After(k) == [j \in 1 .. Len(past) - k |-> Recorded(past[k + j])]

Init ==
  /\ past = <<>> /\ future = <<>> /\ at = 0
  /\ now = Ran(Fresh)
  /\ program = 0

(* The next frame runs from the frame on screen; what was recorded after   *)
(* that frame is forgotten, and the oldest frame may be. Frames that       *)
(* follow one another have consecutive numbers.                            *)
Play(i, c) ==
  /\ future = <<>>
  /\ at # 0 => c = past[at].frame + 1
  /\ LET f    == [input |-> i, frame |-> c, writes |-> Untouched]
         grown == Append(Upto(at), Done(now, f))
     IN  /\ past' \in {grown, Tail(grown)}
         /\ now' = Done(now, f).state
  /\ at' = Len(past')
  /\ UNCHANGED <<future, program>>

Look(k) ==
  /\ future = <<>>
  /\ at' = k
  /\ now' = past[k].state
  /\ UNCHANGED <<past, future, program>>

(* The game goes on from frame k.                                          *)
Resume(k) ==
  /\ future = <<>>
  /\ at' = k
  /\ past' = Upto(k)
  /\ now' = past[k].state
  /\ UNCHANGED <<future, program>>

(* Everything after frame k is to be run again.                            *)
Rerun(k) ==
  /\ future = <<>>
  /\ past' = Upto(k)
  /\ future' = After(k)
  /\ now' = past[k].state
  /\ UNCHANGED at

Rerunning ==
  /\ future # <<>>
  /\ past' = Append(past, Done(now, Head(future)))
  /\ future' = Tail(future)
  /\ now' = IF Len(future) = 1 THEN past'[at].state ELSE Done(now, Head(future)).state
  /\ UNCHANGED <<at, program>>

(* A new program: from now on, or for part of what was recorded as well.   *)
Edit ==
  /\ program' = program + 1
  /\ \/ future = <<>> /\ UNCHANGED <<past, future, at, now>>
     \/ \E k \in 1 .. Len(past) - 1 : Rerun(k)

(* A write lands in the frame on screen, and what follows it is rerun.     *)
WriteState(n, v) ==
  /\ future = <<>>
  /\ now' = Write(now, n, v)
  /\ past' = IF at = 0 THEN past
             ELSE Append(Upto(at - 1), Rewritten(past[at], n, v, now'))
  /\ future' = IF at = 0 THEN future ELSE After(at)
  /\ UNCHANGED <<at, program>>

(* The log is dropped, and the game goes on from another execution: of     *)
(* another program, or of this one where a failed launch left it.          *)
Forget ==
  /\ future = <<>>
  /\ past' = <<>> /\ at' = 0
  /\ UNCHANGED <<future, program>>

Next ==
  \/ \E i \in Inputs, c \in 1 .. MaxFrame : Play(i, c)
  \/ \E k \in 1 .. Len(past) : Look(k) \/ Resume(k)
  \/ (\E k \in 1 .. Len(past) - 1 : Rerun(k)) /\ UNCHANGED program
  \/ Rerunning
  \/ Edit
  \/ \E n \in Names, v \in Values : WriteState(n, v)
  \/ Forget

Spec == Init /\ [][Next]_vars

-----------------------------------------------------------------------------
(* What makes the log worth keeping: every frame is the run of its own     *)
(* input from the frame before it, by the program it says drew it, with    *)
(* the writes filed against it; so running it again changes nothing.       *)
Reproducible ==
  \A j \in 2 .. Len(past) :
    LET f == past[j]
        r == Run(f.program, past[j - 1].state, f.input, f.frame)
    IN  /\ f.drawn = r
        /\ f.state = Apply(Ran(r), f.writes)
        /\ f.frame = past[j - 1].frame + 1
=============================================================================
