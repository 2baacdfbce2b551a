--------------------------- MODULE HistoryProofs ----------------------------
(***************************************************************************)
(* The log of frames stays reproducible, whatever a program makes of its   *)
(* inputs and however often the log is cut, written to and rerun.          *)
(***************************************************************************)
EXTENDS History, SequenceFacts

(* The shape of the log: frames and recorded frames with the writes filed  *)
(* against them, and a frame on screen whenever there is one.              *)
Shape ==
  /\ IsSeq(past) /\ IsSeq(future)
  /\ at \in 0 .. Len(past) + Len(future)
  /\ Len(past) = 0 => at = 0 /\ Len(future) = 0
  /\ Len(past) # 0 => at # 0
  /\ \A j \in 1 .. Len(past) : past[j].writes \in Writes /\ past[j].frame \in Nat
  /\ \A j \in 1 .. Len(future) : future[j].writes \in Writes /\ future[j].frame \in Nat

(* Frame numbers run on, from what is done into what is still to do.       *)
Numbered ==
  /\ \A i, j \in 1 .. Len(past) : past[j].frame + i = past[i].frame + j
  /\ \A i \in 1 .. Len(past), j \in 1 .. Len(future) :
       future[j].frame + i = past[i].frame + Len(past) + j

(* The next frame runs from the last frame done while the log is rerun,    *)
(* and from the frame on screen otherwise.                                 *)
GoesOn ==
  Len(past) # 0 =>
    now = past[IF Len(future) = 0 THEN at ELSE Len(past)].state

(* Frame j of a log is the run of its input from the frame before it.      *)
RunOf(p, j) ==
  LET f == p[j]
      r == Run(f.program, p[j - 1].state, f.input, f.frame)
  IN  f.drawn = r /\ f.state = Apply(Ran(r), f.writes)

LogRuns == \A j \in 2 .. Len(past) : RunOf(past, j)

HInv == Shape /\ Numbered /\ GoesOn /\ LogRuns

(* A write over an execution is a write more in what is applied to it.     *)
LEMMA WriteApplied ==
  ASSUME NEW r, NEW w \in Writes, NEW n \in Names, NEW v \in Values
  PROVE  Write(Apply(Ran(r), w), n, v) = Apply(Ran(r), [w EXCEPT ![n] = v])
  <1> DEFINE e == Ran(r)
             f(u) == [m \in Names |-> IF u[m] = Own THEN e.over[m] ELSE u[m]]
  <1>1. v # Own
    BY OwnIsNoValue
  <1>2. f([w EXCEPT ![n] = v]) = [f(w) EXCEPT ![n] = v]
    BY <1>1 DEF Writes
  <1> QED
    BY <1>2 DEF Write, Apply, Ran

(* What is filed against a frame, and a write more, are writes.            *)
LEMMA WritesTyped ==
  /\ Untouched \in Writes
  /\ \A w \in Writes, n \in Names, v \in Values : [w EXCEPT ![n] = v] \in Writes
  BY DEF Untouched, Writes

(* What is kept of a log runs as it did.                                   *)
LEMMA KeptRuns ==
  ASSUME NEW p, NEW q, NEW d \in Nat, IsSeq(p), IsSeq(q), Len(q) + d <= Len(p),
         \A i \in 1 .. Len(q) : q[i] = p[i + d],
         \A j \in 2 .. Len(p) : RunOf(p, j)
  PROVE  \A j \in 2 .. Len(q) : RunOf(q, j)
  <1> SUFFICES ASSUME NEW j \in 2 .. Len(q) PROVE RunOf(q, j)
    OBVIOUS
  <1>1. q[j] = p[j + d] /\ q[j - 1] = p[j - 1 + d] /\ j + d \in 2 .. Len(p)
        /\ j - 1 + d = j + d - 1
    BY DEF IsSeq
  <1>2. RunOf(p, j + d)
    BY <1>1
  <1> QED
    BY <1>1, <1>2 DEF RunOf

(* What follows frame k, as a rerun needs it.                              *)
LEMMA AfterFacts ==
  ASSUME IsSeq(past), NEW k \in 0 .. Len(past)
  PROVE  /\ IsSeq(After(k)) /\ Len(After(k)) = Len(past) - k
         /\ \A j \in 1 .. Len(past) - k :
              /\ After(k)[j].writes = past[k + j].writes
              /\ After(k)[j].frame = past[k + j].frame
  <1>1. Len(past) - k \in Nat
    BY DEF IsSeq
  <1>2. After(k) = [j \in 1 .. Len(past) - k |-> After(k)[j]]
    BY DEF After
  <1>3. \A j \in 1 .. Len(past) - k : After(k)[j] = Recorded(past[k + j])
    BY DEF After
  <1> QED
    BY <1>1, <1>2, <1>3, MadeSeq DEF Recorded

(* Cutting the log at frame k, with or without what follows to be rerun.   *)
LEMMA CutKeeps ==
  ASSUME HInv, NEW k \in 1 .. Len(past), Len(future) = 0, past' = Upto(k),
         \/ k < Len(past) /\ future' = After(k) /\ at' = at
         \/ future' = <<>> /\ at' = k,
         now' = past[k].state
  PROVE  HInv'
  <1>0. Shape /\ Numbered /\ LogRuns
    BY DEF HInv
  <1>1. Len(past) \in Nat /\ k \in 1 .. Len(past) /\ k \in 0 .. Len(past)
    BY <1>0 DEF Shape, IsSeq
  <1>2. /\ IsSeq(past') /\ Len(past') = k
        /\ \A i \in 1 .. k : past'[i] = past[i]
    BY <1>0, <1>1, SubSeqFacts DEF Upto, Shape
  <1>3. /\ IsSeq(future') /\ Len(future') \in {0, Len(past) - k}
        /\ \A j \in 1 .. Len(future') :
             /\ future'[j].writes = past[k + j].writes
             /\ future'[j].frame = past[k + j].frame
        /\ at' \in 1 .. k + Len(future') /\ (Len(future') = 0 => at' = k)
    <2>1. CASE future' = <<>> /\ at' = k
      BY <2>1, <1>1, EmptyFacts
    <2>2. CASE k < Len(past) /\ future' = After(k) /\ at' = at
      <3>1. /\ IsSeq(After(k)) /\ Len(After(k)) = Len(past) - k
            /\ \A j \in 1 .. Len(past) - k :
                 /\ After(k)[j].writes = past[k + j].writes
                 /\ After(k)[j].frame = past[k + j].frame
        BY <1>0, <1>1, AfterFacts DEF Shape
      <3>2. at \in 1 .. Len(past)
        BY <1>0, <1>1 DEF Shape
      <3> QED BY <2>2, <3>1, <3>2, <1>1
    <2> QED BY <2>1, <2>2
  <1>4. \A j \in 1 .. Len(future') : k + j \in 1 .. Len(past)
    BY <1>1, <1>3
  <1>5. Len(future') \in Nat
    BY <1>3 DEF IsSeq
  <1>6. Shape'
    <2>1. \A j \in 1 .. Len(past') : past'[j].writes \in Writes /\ past'[j].frame \in Nat
      BY <1>0, <1>1, <1>2 DEF Shape
    <2>2. \A j \in 1 .. Len(future') :
            future'[j].writes \in Writes /\ future'[j].frame \in Nat
      BY <1>0, <1>3, <1>4 DEF Shape
    <2>3. at' \in 0 .. Len(past') + Len(future') /\ at' # 0 /\ Len(past') # 0
      BY <1>1, <1>2, <1>3, <1>5
    <2> QED BY <1>2, <1>3, <2>1, <2>2, <2>3 DEF Shape
  <1>7. Numbered'
    <2>1. \A i, j \in 1 .. Len(past') : past'[j].frame + i = past'[i].frame + j
      BY <1>0, <1>1, <1>2 DEF Numbered
    <2>2. ASSUME NEW i \in 1 .. Len(past'), NEW j \in 1 .. Len(future')
          PROVE  future'[j].frame + i = past'[i].frame + Len(past') + j
      <3>1. i \in 1 .. Len(past) /\ past[i].frame \in Nat /\ past'[i] = past[i]
        BY <1>0, <1>1, <1>2 DEF Shape
      <3>2. past[k + j].frame + i = past[i].frame + (k + j)
        BY <3>1, <1>0, <1>4 DEF Numbered
      <3>3. PICK x \in Nat, y \in Nat : x = past[i].frame /\ y = past[k + j].frame
        BY <3>1, <1>0, <1>4 DEF Shape
      <3>4. future'[j].frame = y /\ past'[i].frame = x /\ y + i = x + (k + j)
        BY <3>1, <3>2, <3>3, <1>3
      <3>5. y + i = x + k + j /\ Len(past') = k
        BY <3>4, <1>1, <1>2, <1>5
      <3> QED BY <3>4, <3>5
    <2> QED BY <2>1, <2>2 DEF Numbered
  <1>8. GoesOn'
    BY <1>1, <1>2, <1>3 DEF GoesOn
  <1>9. LogRuns'
    <2>1. \A j \in 2 .. Len(past) : RunOf(past, j)
      BY <1>0 DEF LogRuns
    <2>0. PICK none \in Nat : none = 0
      OBVIOUS
    <2>2. IsSeq(past) /\ Len(past') + none <= Len(past)
          /\ \A i \in 1 .. Len(past') : past'[i] = past[i + none]
      BY <2>0, <1>0, <1>1, <1>2 DEF Shape
    <2>3. \A j \in 2 .. Len(past') : RunOf(past', j)
      BY <2>1, <2>2, <1>2, KeptRuns
    <2> QED BY <2>3 DEF LogRuns, RunOf
  <1> QED
    BY <1>6, <1>7, <1>8, <1>9 DEF HInv

(* A frame that is run is typed, and is the run of its own input.          *)
LEMMA DoneFacts ==
  ASSUME NEW e, NEW f
  PROVE  /\ Done(e, f).input = f.input /\ Done(e, f).frame = f.frame
         /\ Done(e, f).writes = f.writes /\ Done(e, f).program = program
         /\ Done(e, f).drawn = Run(program, e, f.input, f.frame)
         /\ Done(e, f).state = Apply(Ran(Run(program, e, f.input, f.frame)), f.writes)
  BY DEF Done

(* A log whose last frame is run from the one before it.                   *)
LEMMA ExtendedRuns ==
  ASSUME NEW p, NEW f, IsSeq(p), \A j \in 2 .. Len(p) : RunOf(p, j), NEW e,
         Len(p) # 0 => e = p[Len(p)].state
  PROVE  \A j \in 2 .. Len(p) + 1 : RunOf(Append(p, Done(e, f)), j)
  <1> DEFINE q == Append(p, Done(e, f))
  <1>1. /\ \A j \in 1 .. Len(p) : q[j] = p[j]
        /\ q[Len(p) + 1] = Done(e, f)
    BY AppendFacts
  <1>2. Len(p) \in Nat
    BY DEF IsSeq
  <1> HIDE DEF q
  <1>3. ASSUME NEW j \in 2 .. Len(p) PROVE RunOf(q, j)
    <2>1. q[j] = p[j] /\ q[j - 1] = p[j - 1]
      BY <1>1, <1>2
    <2>2. RunOf(p, j)
      OBVIOUS
    <2> QED BY <2>1, <2>2 DEF RunOf
  <1>4. ASSUME Len(p) + 1 \in 2 .. Len(p) + 1 PROVE RunOf(q, Len(p) + 1)
    <2>1. q[Len(p) + 1 - 1].state = e
      BY <1>1, <1>2, <1>4
    <2> QED BY <1>1, <2>1, DoneFacts DEF RunOf
  <1>5. \A j \in 2 .. Len(p) + 1 : j \in 2 .. Len(p) \/ j = Len(p) + 1
    BY <1>2
  <1> QED
    BY <1>3, <1>4, <1>5 DEF q

(* Playing the next frame.                                                 *)
LEMMA PlayKeeps ==
  ASSUME HInv, NEW i \in Inputs, NEW c \in 1 .. MaxFrame, Play(i, c)
  PROVE  HInv'
  <1> DEFINE f     == [input |-> i, frame |-> c, writes |-> Untouched]
             base  == Upto(at)
             grown == Append(base, Done(now, f))
  <1>0. Shape /\ Numbered /\ GoesOn /\ LogRuns
    BY DEF HInv
  <1>1. /\ future = <<>> /\ future' = future
        /\ at # 0 => c = past[at].frame + 1
        /\ past' = grown \/ past' = Tail(grown)
        /\ now' = Done(now, f).state
        /\ at' = Len(past')
    BY DEF Play
  <1>2. Len(future) = 0 /\ at \in 0 .. Len(past) /\ at \in Nat /\ Len(past) \in Nat
    BY <1>0, <1>1, EmptyFacts DEF Shape, IsSeq
  <1>3. IsSeq(base) /\ Len(base) = at /\ \A j \in 1 .. at : base[j] = past[j]
    BY <1>0, <1>2, SubSeqFacts DEF Upto, Shape
  <1>4. /\ IsSeq(grown) /\ Len(grown) = at + 1
        /\ \A j \in 1 .. at : grown[j] = past[j]
        /\ grown[at + 1] = Done(now, f)
    BY <1>3, AppendFacts
  <1>5. f.frame = c /\ f.writes = Untouched /\ f.input = i
    OBVIOUS
  <1> HIDE DEF f
  <1>6. c \in Nat
    OBVIOUS
  <1>7. \A j \in 1 .. at + 1 : grown[j].writes \in Writes /\ grown[j].frame \in Nat
    <2>1. Done(now, f).writes \in Writes /\ Done(now, f).frame \in Nat
      BY <1>5, <1>6, DoneFacts, WritesTyped
    <2>2. \A j \in 1 .. at : past[j].writes \in Writes /\ past[j].frame \in Nat
      BY <1>0, <1>2 DEF Shape
    <2>3. \A j \in 1 .. at + 1 : j \in 1 .. at \/ j = at + 1
      BY <1>2
    <2> QED BY <1>4, <2>1, <2>2, <2>3
  <1>8. \A j, k \in 1 .. at + 1 : grown[k].frame + j = grown[j].frame + k
    <2>1. \A j, k \in 1 .. at : past[k].frame + j = past[j].frame + k
      BY <1>0, <1>2 DEF Numbered
    <2>2. Done(now, f).frame = c
      BY <1>5, DoneFacts
    <2>3. \A j \in 1 .. at : c + j = past[j].frame + (at + 1)
      <3> SUFFICES ASSUME NEW j \in 1 .. at PROVE c + j = past[j].frame + (at + 1)
        OBVIOUS
      <3>1. at # 0 /\ at \in 1 .. at
        BY <1>2
      <3>2. past[at].frame \in Nat /\ past[j].frame \in Nat
        BY <1>0, <1>2 DEF Shape
      <3>3. past[at].frame + j = past[j].frame + at
        BY <2>1, <3>1
      <3>4. c = past[at].frame + 1
        BY <1>1, <3>1
      <3>5. PICK x \in Nat, y \in Nat : x = past[at].frame /\ y = past[j].frame
        BY <3>2
      <3>6. c = x + 1 /\ x + j = y + at
        BY <3>3, <3>4, <3>5
      <3>7. c + j = y + (at + 1)
        BY <3>6, <1>2
      <3> QED BY <3>5, <3>7
    <2>4. \A j \in 1 .. at + 1 : j \in 1 .. at \/ j = at + 1
      BY <1>2
    <2> QED BY <1>4, <2>1, <2>2, <2>3, <2>4
  <1>9. \A j \in 2 .. at + 1 : RunOf(grown, j)
    <2>1. \A j \in 2 .. Len(base) : RunOf(base, j)
      <3>1. PICK none \in Nat : none = 0
        OBVIOUS
      <3>2. IsSeq(past) /\ \A j \in 2 .. Len(past) : RunOf(past, j)
        BY <1>0 DEF LogRuns, Shape
      <3>3. Len(base) + none <= Len(past)
            /\ \A j \in 1 .. Len(base) : base[j] = past[j + none]
        BY <1>2, <1>3, <3>1
      <3> HIDE DEF base
      <3> QED BY <1>3, <3>2, <3>3, KeptRuns
    <2>2. Len(base) # 0 => now = base[Len(base)].state
      BY <1>0, <1>2, <1>3 DEF GoesOn
    <2> HIDE DEF base
    <2> QED BY <1>3, <2>1, <2>2, ExtendedRuns
  <1> HIDE DEF grown
  <1>10. PICK d \in {0, 1} :
           /\ IsSeq(past') /\ Len(past') = at + 1 - d
           /\ \A j \in 1 .. at + 1 - d : past'[j] = grown[j + d] /\ j + d \in 1 .. at + 1
    <2>1. CASE past' = grown
      <3>1. \A j \in 1 .. at + 1 - 0 : past'[j] = grown[j + 0] /\ j + 0 \in 1 .. at + 1
        BY <2>1, <1>2
      <3> QED BY <2>1, <3>1, <1>2, <1>4
    <2>2. CASE past' = Tail(grown)
      <3>1. IsSeq(Tail(grown)) /\ Len(Tail(grown)) = Len(grown) - 1
            /\ \A j \in 1 .. Len(grown) - 1 : Tail(grown)[j] = grown[j + 1]
        BY <1>2, <1>4, TailFacts
      <3> QED BY <2>2, <3>1, <1>2, <1>4
    <2> QED BY <1>1, <2>1, <2>2
  <1>11. Len(future') = 0 /\ IsSeq(future')
    BY <1>0, <1>1, <1>2 DEF Shape
  <1>12. Shape'
    <2>1. \A j \in 1 .. Len(past') : past'[j].writes \in Writes /\ past'[j].frame \in Nat
      BY <1>7, <1>10
    <2>2. Len(past') \in Nat /\ at' = Len(past')
      BY <1>1, <1>10 DEF IsSeq
    <2> QED BY <1>10, <1>11, <2>1, <2>2 DEF Shape
  <1>13. Numbered'
    <2> SUFFICES ASSUME NEW j \in 1 .. Len(past'), NEW k \in 1 .. Len(past')
                 PROVE  past'[k].frame + j = past'[j].frame + k
      BY <1>11 DEF Numbered
    <2>1. grown[k + d].frame + (j + d) = grown[j + d].frame + (k + d)
      BY <1>8, <1>10
    <2>2. grown[k + d].frame \in Nat /\ grown[j + d].frame \in Nat
      BY <1>7, <1>10
    <2>3. past'[k] = grown[k + d] /\ past'[j] = grown[j + d] /\ j \in Nat /\ k \in Nat
      BY <1>10
    <2>4. PICK x \in Nat, y \in Nat : x = grown[k + d].frame /\ y = grown[j + d].frame
      BY <2>2
    <2>5. x + (j + d) = y + (k + d)
      BY <2>1, <2>4
    <2>6. d \in Nat
      BY <1>10
    <2>7. x + j = y + k
      BY <2>3, <2>5, <2>6
    <2> QED BY <2>3, <2>4, <2>7
  <1>14. GoesOn'
    <2>1. Len(past') # 0 => past'[Len(past')] = grown[at + 1]
      BY <1>2, <1>10
    <2> QED BY <1>1, <1>4, <1>11, <2>1 DEF GoesOn
  <1>15. LogRuns'
    <2>1. d \in Nat /\ Len(past') + d <= Len(grown)
      BY <1>2, <1>4, <1>10
    <2>2. \A j \in 1 .. Len(past') : past'[j] = grown[j + d]
      BY <1>10
    <2>3. \A j \in 2 .. Len(grown) : RunOf(grown, j)
      BY <1>4, <1>9
    <2>4. \A j \in 2 .. Len(past') : RunOf(past', j)
      BY <1>4, <1>10, <2>1, <2>2, <2>3, KeptRuns
    <2> QED BY <2>4 DEF LogRuns, RunOf
  <1> QED
    BY <1>12, <1>13, <1>14, <1>15 DEF HInv

(* Running the next frame of a rerun.                                      *)
LEMMA RerunningKeeps ==
  ASSUME HInv, Rerunning
  PROVE  HInv'
  <1> DEFINE f     == Head(future)
             n     == Len(past)
             grown == Append(past, Done(now, f))
  <1>0. Shape /\ Numbered /\ GoesOn /\ LogRuns
    BY DEF HInv
  <1>1. /\ future # <<>> /\ past' = grown /\ future' = Tail(future)
        /\ now' = IF Len(future) = 1 THEN past'[at].state ELSE Done(now, f).state
        /\ at' = at /\ program' = program
    BY DEF Rerunning
  <1>2. Len(future) # 0 /\ Len(past) # 0 /\ n \in Nat /\ Len(future) \in Nat
    BY <1>0, <1>1, EmptyFacts DEF Shape, IsSeq
  <1>3. /\ IsSeq(grown) /\ Len(grown) = n + 1
        /\ \A j \in 1 .. n : grown[j] = past[j]
        /\ grown[n + 1] = Done(now, f)
    BY <1>0, AppendFacts DEF Shape
  <1>4. /\ f = future[1]
        /\ IsSeq(Tail(future)) /\ Len(Tail(future)) = Len(future) - 1
        /\ \A j \in 1 .. Len(future) - 1 : Tail(future)[j] = future[j + 1]
    BY <1>0, <1>2, TailFacts DEF Shape
  <1>5. /\ \A j \in 1 .. n : past[j].writes \in Writes /\ past[j].frame \in Nat
        /\ \A j \in 1 .. Len(future) : future[j].writes \in Writes /\ future[j].frame \in Nat
        /\ at \in 1 .. n + Len(future)
    BY <1>0, <1>2 DEF Shape
  <1>6. Done(now, f).frame = future[1].frame /\ Done(now, f).writes = future[1].writes
        /\ 1 \in 1 .. Len(future)
    BY <1>2, <1>4, DoneFacts
  <1>7. \A j \in 1 .. n + 1 : j \in 1 .. n \/ j = n + 1
    BY <1>2
  <1>8. \A j \in 1 .. Len(future) - 1 : j + 1 \in 1 .. Len(future)
    BY <1>2
  <1>9. now = past[n].state
    BY <1>0, <1>2 DEF GoesOn
  <1> HIDE DEF grown, f
  <1>10. Shape'
    <2>1. \A j \in 1 .. Len(past') : past'[j].writes \in Writes /\ past'[j].frame \in Nat
      BY <1>1, <1>3, <1>5, <1>6, <1>7
    <2>2. \A j \in 1 .. Len(future') :
            future'[j].writes \in Writes /\ future'[j].frame \in Nat
      BY <1>1, <1>4, <1>5, <1>8
    <2>3. at' \in 1 .. Len(past') + Len(future') /\ Len(past') # 0
      BY <1>1, <1>2, <1>3, <1>4, <1>5
    <2> QED BY <1>1, <1>3, <1>4, <2>1, <2>2, <2>3 DEF Shape
  <1>11. Numbered'
    <2>1. \A i, j \in 1 .. n : past[j].frame + i = past[i].frame + j
      BY <1>0 DEF Numbered
    <2>2. \A i \in 1 .. n, j \in 1 .. Len(future) :
            future[j].frame + i = past[i].frame + n + j
      BY <1>0 DEF Numbered
    <2>3. PICK z \in Nat : z = future[1].frame
      BY <1>5, <1>6
    <2>4. \A i \in 1 .. n : z + i = past[i].frame + (n + 1)
      <3> SUFFICES ASSUME NEW i \in 1 .. n PROVE z + i = past[i].frame + (n + 1)
        OBVIOUS
      <3>1. PICK x \in Nat : x = past[i].frame
        BY <1>5
      <3>2. z + i = x + n + 1
        BY <2>2, <2>3, <3>1, <1>6
      <3> QED BY <1>2, <3>1, <3>2
    <2>5. ASSUME NEW i \in 1 .. Len(past'), NEW j \in 1 .. Len(past')
          PROVE  past'[j].frame + i = past'[i].frame + j
      <3>1. i \in 1 .. n + 1 /\ j \in 1 .. n + 1
        BY <1>1, <1>3
      <3>2. CASE i \in 1 .. n /\ j \in 1 .. n
        BY <3>2, <2>1, <1>1, <1>3
      <3>3. CASE i = n + 1 /\ j \in 1 .. n
        BY <3>3, <2>3, <2>4, <1>1, <1>3, <1>6
      <3>4. CASE i \in 1 .. n /\ j = n + 1
        BY <3>4, <2>3, <2>4, <1>1, <1>3, <1>6
      <3>5. CASE i = n + 1 /\ j = n + 1
        BY <3>5
      <3> QED BY <3>1, <3>2, <3>3, <3>4, <3>5, <1>7
    <2>6. ASSUME NEW i \in 1 .. Len(past'), NEW j \in 1 .. Len(future')
          PROVE  future'[j].frame + i = past'[i].frame + Len(past') + j
      <3>1. /\ future'[j] = future[j + 1] /\ j + 1 \in 1 .. Len(future)
            /\ i \in 1 .. n + 1 /\ Len(past') = n + 1
        BY <1>1, <1>3, <1>4, <1>8
      <3>2. PICK y \in Nat : y = future[j + 1].frame
        BY <3>1, <1>5
      <3>3. CASE i \in 1 .. n
        <4>1. PICK x \in Nat : x = past[i].frame
          BY <3>3, <1>5
        <4>2. y + i = x + n + (j + 1)
          BY <2>2, <3>1, <3>2, <3>3, <4>1
        <4>3. past'[i] = past[i]
          BY <1>1, <1>3, <3>3
        <4>4. y + i = x + (n + 1) + j
          BY <4>2, <1>2
        <4> QED BY <3>1, <3>2, <4>1, <4>3, <4>4
      <3>4. CASE i = n + 1
        <4>1. PICK x \in Nat : x = past[1].frame /\ 1 \in 1 .. n
          BY <1>2, <1>5
        <4>2. y + 1 = x + n + (j + 1) /\ z + 1 = x + (n + 1)
          BY <2>2, <2>4, <3>1, <3>2, <4>1
        <4>3. past'[i].frame = z
          BY <1>1, <1>3, <1>6, <2>3, <3>4
        <4>4. y + (n + 1) = z + (n + 1) + j
          BY <4>2, <1>2
        <4> QED BY <3>1, <3>2, <3>4, <4>3, <4>4
      <3> QED BY <3>1, <3>3, <3>4, <1>7
    <2> QED BY <2>5, <2>6 DEF Numbered
  <1>12. GoesOn'
    <2>1. CASE Len(future) = 1
      BY <2>1, <1>1, <1>4 DEF GoesOn
    <2>2. CASE Len(future) # 1
      <3>1. Len(future') # 0 /\ past'[Len(past')] = Done(now, f)
        BY <2>2, <1>1, <1>2, <1>3, <1>4
      <3> QED BY <2>2, <3>1, <1>1 DEF GoesOn
    <2> QED BY <2>1, <2>2
  <1>13. LogRuns'
    <2>1. IsSeq(past) /\ \A j \in 2 .. Len(past) : RunOf(past, j)
      BY <1>0 DEF Shape, LogRuns
    <2>2. \A j \in 2 .. n + 1 : RunOf(grown, j)
      BY <2>1, <1>9, ExtendedRuns DEF grown
    <2> QED BY <2>2, <1>1, <1>3 DEF LogRuns, RunOf
  <1> QED
    BY <1>10, <1>11, <1>12, <1>13 DEF HInv

(* A write into the frame on screen.                                       *)
LEMMA WriteKeeps ==
  ASSUME HInv, NEW n \in Names, NEW v \in Values, WriteState(n, v)
  PROVE  HInv'
  <1>0. Shape /\ Numbered /\ GoesOn /\ LogRuns
    BY DEF HInv
  <1>1. future = <<>> /\ Len(future) = 0 /\ at' = at /\ Len(past) \in Nat
    BY <1>0, EmptyFacts DEF WriteState, Shape, IsSeq
  <1>2. CASE at = 0
    <2>1. past' = past /\ future' = future /\ Len(past) = 0
      BY <1>0, <1>1, <1>2 DEF WriteState, Shape
    <2> QED
      BY <2>1, <1>0, <1>1 DEF HInv, Shape, Numbered, GoesOn, LogRuns
  <1>3. CASE at # 0
    <2> DEFINE base == Upto(at - 1)
               f    == Rewritten(past[at], n, v, now')
    <2>1. past' = Append(base, f) /\ future' = After(at) /\ now' = Write(now, n, v)
      BY <1>3 DEF WriteState
    <2>2. at \in 1 .. Len(past) /\ at - 1 \in 0 .. Len(past) /\ at \in Nat
          /\ at \in 0 .. Len(past)
      BY <1>0, <1>1, <1>3 DEF Shape
    <2>3. IsSeq(base) /\ Len(base) = at - 1 /\ \A j \in 1 .. at - 1 : base[j] = past[j]
      BY <1>0, <2>2, SubSeqFacts DEF Upto, Shape
    <2>4. /\ IsSeq(past') /\ Len(past') = at
          /\ \A j \in 1 .. at - 1 : past'[j] = past[j]
          /\ past'[at] = f
      BY <2>1, <2>2, <2>3, AppendFacts
    <2>5. /\ f.input = past[at].input /\ f.frame = past[at].frame
          /\ f.writes = [past[at].writes EXCEPT ![n] = v]
          /\ f.program = past[at].program /\ f.drawn = past[at].drawn
          /\ f.state = now'
      BY DEF Rewritten
    <2> HIDE DEF base, f
    <2>6. /\ IsSeq(future') /\ Len(future') = Len(past) - at
          /\ \A j \in 1 .. Len(past) - at :
               /\ future'[j].writes = past[at + j].writes
               /\ future'[j].frame = past[at + j].frame
      BY <1>0, <2>1, <2>2, AfterFacts DEF Shape
    <2>7. \A j \in 1 .. Len(past) - at : at + j \in 1 .. Len(past)
      BY <1>1, <2>2
    <2>8. \A j \in 1 .. at : past'[j].frame = past[j].frame /\ j \in 1 .. Len(past)
      <3>1. \A j \in 1 .. at : (j \in 1 .. at - 1 \/ j = at) /\ j \in 1 .. Len(past)
        BY <1>1, <2>2
      <3> QED BY <3>1, <2>4, <2>5
    <2>9. /\ \A j \in 1 .. Len(past) : past[j].writes \in Writes /\ past[j].frame \in Nat
          /\ f.writes \in Writes
      BY <1>0, <2>2, <2>5, WritesTyped DEF Shape
    <2>10. Shape'
      <3>1. \A j \in 1 .. Len(past') : past'[j].writes \in Writes /\ past'[j].frame \in Nat
        <4>1. \A j \in 1 .. at : (j \in 1 .. at - 1 \/ j = at) /\ j \in 1 .. Len(past)
          BY <1>1, <2>2
        <4> QED BY <4>1, <2>4, <2>5, <2>9
      <3>2. \A j \in 1 .. Len(future') :
              future'[j].writes \in Writes /\ future'[j].frame \in Nat
        BY <2>6, <2>7, <2>9
      <3>3. at' \in 1 .. Len(past') + Len(future') /\ Len(past') # 0
        BY <1>1, <2>2, <2>4, <2>6
      <3> QED BY <2>4, <2>6, <3>1, <3>2, <3>3 DEF Shape
    <2>11. Numbered'
      <3>0. \A i, j \in 1 .. Len(past) : past[j].frame + i = past[i].frame + j
        BY <1>0 DEF Numbered
      <3>1. \A i, j \in 1 .. Len(past') : past'[j].frame + i = past'[i].frame + j
        BY <3>0, <2>4, <2>8
      <3>2. ASSUME NEW i \in 1 .. Len(past'), NEW j \in 1 .. Len(future')
            PROVE  future'[j].frame + i = past'[i].frame + Len(past') + j
        <4>1. past'[i].frame = past[i].frame /\ i \in 1 .. Len(past)
              /\ future'[j].frame = past[at + j].frame /\ at + j \in 1 .. Len(past)
          BY <2>4, <2>6, <2>7, <2>8
        <4>2. PICK x \in Nat, y \in Nat : x = past[i].frame /\ y = past[at + j].frame
          BY <4>1, <2>9
        <4>3. y + i = x + (at + j)
          BY <3>0, <4>1, <4>2
        <4>4. j \in Nat
          BY <2>6
        <4> QED BY <4>1, <4>2, <4>3, <4>4, <2>2, <2>4
      <3> QED BY <3>1, <3>2 DEF Numbered
    <2>12. GoesOn'
      <3>1. past'[at].state = now'
        BY <2>4, <2>5
      <3> QED BY <3>1, <1>1, <2>4 DEF GoesOn
    <2>13. LogRuns'
      <3> SUFFICES ASSUME NEW j \in 2 .. Len(past') PROVE RunOf(past', j)
        BY DEF LogRuns, RunOf
      <3>1. RunOf(past, j) /\ j \in Nat
        BY <1>0, <1>1, <2>2, <2>4 DEF LogRuns
      <3>2. past'[j - 1] = past[j - 1] /\ (j \in 1 .. at - 1 \/ j = at)
        BY <2>2, <2>4
      <3>3. CASE j \in 1 .. at - 1
        BY <3>1, <3>2, <3>3, <2>4 DEF RunOf
      <3>4. CASE j = at
        <4>1. now = past[at].state
          BY <1>0, <1>1, <2>2 DEF GoesOn
        <4> DEFINE r == Run(past[at].program, past[at - 1].state, past[at].input, past[at].frame)
        <4>2. past[at].drawn = r /\ past[at].state = Apply(Ran(r), past[at].writes)
          BY <3>1, <3>4 DEF RunOf
        <4> HIDE DEF r
        <4>3. past[at].writes \in Writes
          BY <2>2, <2>9
        <4>4. now' = Apply(Ran(r), f.writes)
          BY <2>1, <2>5, <4>1, <4>2, <4>3, WriteApplied
        <4> USE DEF r
        <4>5. /\ past'[j].drawn = r /\ past'[j].state = Apply(Ran(r), past'[j].writes)
              /\ past'[j].program = past[at].program /\ past'[j].input = past[at].input
              /\ past'[j].frame = past[at].frame /\ past'[j - 1] = past[at - 1]
          BY <2>4, <2>5, <3>2, <3>4, <4>2, <4>4
        <4> QED BY <4>5 DEF RunOf
      <3> QED BY <3>2, <3>3, <3>4
    <2> QED BY <2>10, <2>11, <2>12, <2>13 DEF HInv
  <1> QED
    BY <1>2, <1>3

(* Cutting the log at a frame that is not the last, to rerun what follows. *)
LEMMA RerunKeeps ==
  ASSUME HInv, NEW k \in 1 .. Len(past), k < Len(past), Rerun(k)
  PROVE  HInv'
  <1>1. /\ future = <<>> /\ past' = Upto(k) /\ future' = After(k) /\ at' = at
        /\ now' = past[k].state
    BY DEF Rerun
  <1>2. Len(future) = 0
    BY <1>1, EmptyFacts
  <1> QED
    BY <1>1, <1>2, CutKeeps

(* The invariant of the log, and with it that every frame of it is the run *)
(* of its own input from the frame before, with consecutive numbers.       *)
LEMMA HistoryInv == Spec => []HInv
  <1>1. Init => HInv
    BY EmptyFacts
    DEF Init, HInv, Shape, Numbered, GoesOn, LogRuns
  <1>2. HInv /\ [Next]_vars => HInv'
    <2> SUFFICES ASSUME HInv, [Next]_vars PROVE HInv'
      OBVIOUS
    <2>0. Shape
      BY DEF HInv
    <2>1. ASSUME NEW i \in Inputs, NEW c \in 1 .. MaxFrame, Play(i, c) PROVE HInv'
      BY <2>1, PlayKeeps
    <2>2. ASSUME NEW k \in 1 .. Len(past), Look(k) PROVE HInv'
      <3>1. Len(future) = 0 /\ Len(past) \in Nat
        BY <2>0, <2>2, EmptyFacts DEF Look, Shape, IsSeq
      <3> QED BY <2>2, <3>1 DEF Look, HInv, Shape, Numbered, GoesOn, LogRuns, RunOf
    <2>3. ASSUME NEW k \in 1 .. Len(past), Resume(k) PROVE HInv'
      BY <2>3, <2>0, CutKeeps, EmptyFacts DEF Resume, Shape
    <2>4. ASSUME NEW k \in 1 .. Len(past) - 1, Rerun(k) PROVE HInv'
      <3>1. k \in 1 .. Len(past) /\ k < Len(past) /\ Len(future) = 0
        BY <2>0, <2>4, EmptyFacts DEF Rerun, Shape, IsSeq
      <3> QED BY <2>4, <3>1, RerunKeeps
    <2>5. CASE Rerunning
      BY <2>5, RerunningKeeps
    <2>6. CASE Edit
      <3>1. CASE future = <<>> /\ UNCHANGED <<past, future, at, now>>
        BY <3>1 DEF HInv, Shape, Numbered, GoesOn, LogRuns, RunOf
      <3> QED BY <2>4, <2>6, <3>1 DEF Edit
    <2>7. ASSUME NEW n \in Names, NEW v \in Values, WriteState(n, v) PROVE HInv'
      BY <2>7, WriteKeeps
    <2>8. CASE Forget
      <3>1. past' = <<>> /\ at' = 0 /\ future' = <<>>
        BY <2>8 DEF Forget
      <3> QED BY <3>1, EmptyFacts DEF HInv, Shape, Numbered, GoesOn, LogRuns
    <2>9. CASE UNCHANGED vars
      BY <2>9 DEF vars, HInv, Shape, Numbered, GoesOn, LogRuns, RunOf
    <2> QED
      BY <2>1, <2>2, <2>3, <2>4, <2>5, <2>6, <2>7, <2>8, <2>9 DEF Next
  <1> QED
    BY <1>1, <1>2, PTL DEF Spec

(* Every frame of the log is the run of its input from the frame before    *)
(* it, by the program it names, with the writes filed against it           *)
(* (timeline.rs:17-27).                                                    *)
THEOREM HistoryReproducible == Spec => []Reproducible
  <1>1. HInv => Reproducible
    <2> SUFFICES ASSUME HInv, NEW j \in 2 .. Len(past)
                 PROVE  RunOf(past, j) /\ past[j].frame = past[j - 1].frame + 1
      BY DEF Reproducible, RunOf
    <2>1. Len(past) \in Nat /\ j - 1 \in 1 .. Len(past) /\ j \in 1 .. Len(past)
          /\ j \in Nat
      BY DEF HInv, Shape, IsSeq
    <2>2. PICK x \in Nat, y \in Nat : x = past[j].frame /\ y = past[j - 1].frame
      BY <2>1 DEF HInv, Shape
    <2>3. x + (j - 1) = y + j
      BY <2>1, <2>2 DEF HInv, Numbered
    <2> QED BY <2>1, <2>2, <2>3 DEF HInv, LogRuns
  <1> QED
    BY <1>1, HistoryInv, PTL
=============================================================================
