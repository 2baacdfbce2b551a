------------------------------ MODULE Timeline ------------------------------
(***************************************************************************)
(* Time travel in the game loop (petal-desktop-sdl/src/timeline.rs,        *)
(* game_loop.rs, protocol.rs): after every committed frame the live        *)
(* execution is forked and the fork filed with the frame's input, in a     *)
(* ring. Freezing stops the game on a recorded frame, resuming restores    *)
(* its fork, and a reload or a write while frozen runs the frames after it *)
(* again, one iteration of the loop of `Timeline::replay` at a time.       *)
(*                                                                         *)
(* Executions are data: what the last run left (Run) and the host's writes *)
(* over it. A reload keeps the state it finds. Trails, the overlay and     *)
(* pictures other than a frame's own are left out.                         *)
(***************************************************************************)
EXTENDS Execution, Naturals, Sequences

CONSTANTS
  Inputs,           \* what a frame is given: its input, dt and time()
  Forks,            \* the keys of forked stacks
  HistoryLength,    \* GameConfig::history
  Modes,            \* the loops: "window", "agent" (a window), "headless"
  ResumeFrozen,     \* whether an agent resumes a frozen game without unfreezing it
  StepFails,        \* whether the script may fail in a stepped frame
  MaxFrame,         \* how many frames a game has; a bound of the model
  MaxGeneration     \* how many reloads; a bound of the model

Cap == IF HistoryLength < 2 THEN 2 ELSE HistoryLength

ASSUME TimelineAssumption ==
  /\ HistoryLength \in Nat /\ MaxFrame \in Nat /\ MaxGeneration \in Nat
  /\ Modes \subseteq {"window", "agent", "headless"}
  /\ ResumeFrozen \in BOOLEAN /\ StepFails \in BOOLEAN

VARIABLES
  mode,        \* the loop that runs
  paused,      \* the agent's pause
  live,        \* the live execution
  execs,       \* the forked executions the Env holds, by key
  frames,      \* Timeline::frames, oldest first
  cursor,      \* Timeline::cursor, from 1; 0 while not frozen
  generation,  \* Timeline::generation: the program that is loaded
  clock,       \* the loop's frame counter
  replaying    \* the frame `replay` runs next; 0 when it is not running

vars == <<mode, paused, live, execs, frames, cursor, generation, clock,
          replaying>>

IsFrozen == cursor # 0
Idle     == replaying = 0
Free     == Forks \ DOMAIN execs

Init ==
  /\ mode \in Modes
  /\ paused = (mode = "headless")
  /\ live = Ran(Fresh)
  /\ execs = [k \in {} |-> live]
  /\ frames = <<>>
  /\ cursor = 0 /\ generation = 0 /\ clock = 0 /\ replaying = 0

-----------------------------------------------------------------------------
(* Recording and resuming.                                                 *)

Snapshots(fs) == {fs[j].snapshot : j \in 1 .. Len(fs)}

DropForks(ex, fs) == [k \in DOMAIN ex \ Snapshots(fs) |-> ex[k]]

ForkExecution(ex, k, e) ==
  [x \in DOMAIN ex \cup {k} |-> IF x = k THEN e ELSE ex[x]]

(* Mutant: a frame that leaves the ring leaves its fork behind.            *)
EvictKeepingFork(fs, ex, cur) ==
  IF Len(fs) > Cap
    THEN [frames |-> Tail(fs), execs |-> ex,
          cursor |-> IF cur > 1 THEN cur - 1 ELSE cur]
    ELSE [frames |-> fs, execs |-> ex, cursor |-> cur]

(* Mutant: the ring is cut when it is over its cap, not when it passes it. *)
EvictLate(fs, ex, cur) ==
  IF Len(fs) > Cap + 1
    THEN [frames |-> Tail(fs), execs |-> DropForks(ex, <<Head(fs)>>),
          cursor |-> IF cur > 1 THEN cur - 1 ELSE cur]
    ELSE [frames |-> fs, execs |-> ex, cursor |-> cur]

Evict(fs, ex, cur) ==
  IF Len(fs) > Cap
    THEN [frames |-> Tail(fs), execs |-> DropForks(ex, <<Head(fs)>>),
          cursor |-> IF cur > 1 THEN cur - 1 ELSE cur]
    ELSE [frames |-> fs, execs |-> ex, cursor |-> cur]

(* The committed frame of input i, number c, is filed after `fs`.          *)
Record(fs, ex, cur, e, i, c) ==
  \E k \in Forks \ DOMAIN ex :
    LET rec  == [frame |-> c, input |-> i, snapshot |-> k, drawn |-> e.ran,
                 generation |-> generation, writes |-> Untouched]
        ring == Evict(Append(fs, rec), ForkExecution(ex, k, e), cur)
    IN  frames' = ring.frames /\ execs' = ring.execs /\ cursor' = ring.cursor

RunFrame(e, i, c) == Ran(Run(generation, e, i, c))

(* The live frame of the windowed loops.                                   *)
LiveFrame(i) ==
  /\ Idle /\ clock < MaxFrame
  /\ \/ mode = "window" /\ ~IsFrozen
     \/ mode = "agent" /\ ~paused
  /\ clock' = clock + 1
  /\ live' = RunFrame(live, i, clock')
  /\ Record(frames, execs, cursor, live', i, clock')
  /\ UNCHANGED <<mode, paused, generation, replaying>>

TruncateAfter(c) ==
  [frames |-> SubSeq(frames, 1, c),
   execs  |-> DropForks(execs, SubSeq(frames, c + 1, Len(frames)))]

(* Mutant: the game goes on from the live execution it was frozen with.    *)
RestoredLive(c) == live

Restored(c) == execs[frames[c].snapshot]

(* unfreeze and rewind: the fork of frame c becomes the live execution,    *)
(* the frames after it go, and the loop's clock follows.                   *)
ResumeAt(c) ==
  /\ live'   = Restored(c)
  /\ frames' = TruncateAfter(c).frames
  /\ execs'  = TruncateAfter(c).execs
  /\ clock'  = frames[c].frame
  /\ cursor' = 0

Unfreeze ==
  /\ Idle /\ IsFrozen
  /\ ResumeAt(cursor)
  /\ UNCHANGED <<mode, paused, generation, replaying>>

Rewind(c) ==
  /\ Idle /\ mode # "window"
  /\ ResumeAt(c)
  /\ UNCHANGED <<mode, paused, generation, replaying>>

(* The agent's step: it unfreezes, runs a frame and files it, unless the   *)
(* script fails in it.                                                     *)
Step(i, fails) ==
  LET from  == IF IsFrozen THEN Restored(cursor) ELSE live
      kept  == IF IsFrozen THEN TruncateAfter(cursor)
               ELSE [frames |-> frames, execs |-> execs]
  IN  /\ Idle /\ mode # "window"
      /\ fails => StepFails
      /\ clock' = 1 + (IF IsFrozen THEN frames[cursor].frame ELSE clock)
      /\ clock' <= MaxFrame
      /\ live' = RunFrame(from, i, clock')
      /\ IF fails
           THEN frames' = kept.frames /\ execs' = kept.execs /\ cursor' = 0
           ELSE Record(kept.frames, kept.execs, 0, live', i, clock')
      /\ UNCHANGED <<mode, paused, generation, replaying>>

-----------------------------------------------------------------------------
(* Freezing and looking around.                                            *)

(* F5, and the agent's freeze.                                             *)
Freeze ==
  /\ Idle /\ ~IsFrozen
  /\ cursor' = Len(frames)
  /\ paused' = (paused \/ mode # "window")
  /\ UNCHANGED <<mode, live, execs, frames, generation, clock, replaying>>

(* The keys move the cursor of a frozen game; the agent's scrub freezes    *)
(* one that is not.                                                        *)
Scrub(to) ==
  /\ Idle /\ to \in 1 .. Len(frames)
  /\ mode = "window" => IsFrozen
  /\ cursor' = to
  /\ paused' = (paused \/ ~IsFrozen)
  /\ UNCHANGED <<mode, live, execs, frames, generation, clock, replaying>>

Pause ==
  /\ Idle /\ mode # "window"
  /\ paused' = TRUE
  /\ UNCHANGED <<mode, live, execs, frames, cursor, generation, clock, replaying>>

Resume ==
  /\ Idle /\ mode # "window"
  /\ IsFrozen => ResumeFrozen
  /\ paused' = FALSE
  /\ UNCHANGED <<mode, live, execs, frames, cursor, generation, clock, replaying>>

-----------------------------------------------------------------------------
(* Replaying.                                                              *)

(* replay(from), with the forks as they now are: frame 1 has no frame to   *)
(* restart from, and past the last frame there is nothing to replay.       *)
StartReplay(from, ex) ==
  LET first == IF from < 2 THEN 2 ELSE from
  IN  IF first <= Len(frames)
        THEN /\ replaying' = first
             /\ live' = ex[frames[first - 1].snapshot]
        ELSE UNCHANGED <<replaying, live>>

(* An iteration: the frame's input through the program that is loaded, its *)
(* writes over that, and a fork of the result for the one it had. The      *)
(* agent's replay of a game that is not frozen ends with its clock on the  *)
(* last frame.                                                             *)
ReplayFrame ==
  LET j   == replaying
      rec == frames[j]
      ran == RunFrame(live, rec.input, rec.frame)
  IN  /\ ~Idle
      /\ live' = Apply(ran, rec.writes)
      /\ \E k \in Free :
           /\ execs' = DropForks(ForkExecution(execs, k, live'), <<rec>>)
           /\ frames' = [frames EXCEPT ![j].snapshot = k, ![j].drawn = ran.ran,
                                       ![j].generation = generation]
      /\ replaying' = IF j = Len(frames) THEN 0 ELSE j + 1
      /\ clock' = IF j = Len(frames) /\ ~IsFrozen THEN rec.frame ELSE clock
      /\ UNCHANGED <<mode, paused, cursor, generation>>

Replay ==
  /\ Idle /\ mode # "window"
  /\ StartReplay(cursor, execs)
  /\ clock' = IF ~IsFrozen /\ Len(frames) = 1 THEN frames[1].frame ELSE clock
  /\ UNCHANGED <<mode, paused, execs, frames, cursor, generation>>

(* A reload landed, in the loop that polls for it: state is carried over,  *)
(* and a frozen game is replayed from its cursor.                          *)
Reload ==
  /\ Idle /\ generation < MaxGeneration
  /\ mode = "agent" => ~paused
  /\ generation' = generation + 1
  /\ IF IsFrozen THEN StartReplay(cursor, execs) ELSE UNCHANGED <<replaying, live>>
  /\ UNCHANGED <<mode, paused, execs, frames, cursor, clock>>

(* Mutant: a write of a live game reaches the live execution only.         *)
WrittenForksNot(i, n, v) ==
  IF IsFrozen THEN [execs EXCEPT ![frames[i].snapshot] = Write(@, n, v)] ELSE execs

WrittenForks(i, n, v) == [execs EXCEPT ![frames[i].snapshot] = Write(@, n, v)]

(* set_state: at the frame on screen, filed against it.                    *)
SetState(n, v) ==
  LET i == IF IsFrozen THEN cursor ELSE Len(frames)
  IN  /\ Idle /\ mode # "window"
      /\ IF i = 0
           THEN live' = Write(live, n, v) /\ UNCHANGED <<execs, frames, replaying>>
           ELSE /\ execs' = WrittenForks(i, n, v)
                /\ frames' = [frames EXCEPT ![i].writes[n] = v]
                /\ IF IsFrozen THEN StartReplay(i + 1, execs')
                   ELSE live' = Write(live, n, v) /\ UNCHANGED replaying
      /\ UNCHANGED <<mode, paused, cursor, generation, clock>>

-----------------------------------------------------------------------------
(* A script switch, from the keyboard or after a frame that asked for one  *)
(* and is not filed: the log is dropped whether the script loads or not.   *)
PerformSwitch(loads, e, c) ==
  /\ execs' = DropForks(execs, frames)
  /\ frames' = <<>> /\ cursor' = 0
  /\ live'  = IF loads THEN Ran(Fresh) ELSE e
  /\ clock' = IF loads THEN 0 ELSE c
  /\ UNCHANGED <<mode, paused, generation, replaying>>

Escape(loads) ==
  /\ Idle /\ mode = "window"
  /\ PerformSwitch(loads, live, clock)

LaunchFrame(i, loads) ==
  /\ Idle /\ mode = "window" /\ ~IsFrozen /\ clock < MaxFrame
  /\ PerformSwitch(loads, RunFrame(live, i, clock + 1), clock + 1)

Next ==
  \/ \E i \in Inputs : LiveFrame(i)
  \/ \E i \in Inputs, fails \in BOOLEAN : Step(i, fails)
  \/ \E i \in Inputs, loads \in BOOLEAN : LaunchFrame(i, loads)
  \/ \E loads \in BOOLEAN : Escape(loads)
  \/ Freeze \/ Unfreeze \/ Pause \/ Resume
  \/ \E k \in 1 .. Len(frames) : Scrub(k) \/ Rewind(k)
  \/ Replay \/ ReplayFrame \/ Reload
  \/ \E n \in Names, v \in Values : SetState(n, v)

Spec == Init /\ [][Next]_vars

-----------------------------------------------------------------------------
(* The history the ring of forks stands for. While `replay` runs, what it  *)
(* has not come to is still to do; a frozen game goes on from the frame    *)
(* its cursor is on, wherever the live execution is.                       *)
DoneTo == IF Idle THEN Len(frames) ELSE replaying - 1

FrameOf(f) ==
  [input |-> f.input, frame |-> f.frame, writes |-> f.writes,
   program |-> f.generation, drawn |-> f.drawn, state |-> execs[f.snapshot]]

StillToDo(f) == [input |-> f.input, frame |-> f.frame, writes |-> f.writes]

Past   == [j \in 1 .. DoneTo |-> FrameOf(frames[j])]
Future == [j \in 1 .. Len(frames) - DoneTo |-> StillToDo(frames[DoneTo + j])]
Shown  == IF IsFrozen THEN cursor ELSE Len(frames)
Now    == IF Idle /\ IsFrozen THEN Restored(cursor) ELSE live

H == INSTANCE History WITH past <- Past, future <- Future, at <- Shown,
                           now <- Now, program <- generation

FrameTyped(f) ==
  /\ f.input \in Inputs /\ f.frame \in 1 .. MaxFrame
  /\ f.snapshot \in Forks
  /\ f.generation \in 0 .. generation
  /\ f.writes \in Writes

(* TypeOK: the variables stay in their types, the ring in its cap, the     *)
(* cursor and a running replay inside the ring.                            *)
TypeOK ==
  /\ mode \in Modes /\ paused \in BOOLEAN
  /\ Len(frames) <= Cap /\ \A j \in 1 .. Len(frames) : FrameTyped(frames[j])
  /\ cursor \in 0 .. Len(frames)
  /\ generation \in 0 .. MaxGeneration /\ clock \in 0 .. MaxFrame
  /\ replaying = 0 \/ replaying \in 2 .. Len(frames)

(* ForksAccounted: a fork is held exactly by the one frame it is the       *)
(* snapshot of, through eviction, truncation, replays and switches: none   *)
(* leaks and none is dropped that a frame still resumes from               *)
(* (timeline.rs `record`, `truncate_after`, `replay`, `clear`).            *)
ForksAccounted ==
  /\ DOMAIN execs = Snapshots(frames)
  /\ \A i, j \in 1 .. Len(frames) :
       frames[i].snapshot = frames[j].snapshot => i = j

(* Reproducible: every filed frame is the run of its recorded input from   *)
(* the fork of the frame before it, by the generation it names, with its   *)
(* writes over that, and what it drew is what that run drew; so a replay   *)
(* of a game nobody edited changes nothing (timeline.rs:17-27, `replay`).  *)
Reproducible == H!Reproducible

(* ImplementsHistory: with its forks, its live stack and its loop, the     *)
(* timeline does what the log of frames does: the game goes on from the    *)
(* frame on screen, with that frame's number, and a replay or a write      *)
(* makes the frames after it what the loaded program makes of them.        *)
ImplementsHistory == H!Spec
=============================================================================
