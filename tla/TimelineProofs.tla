--------------------------- MODULE TimelineProofs ---------------------------
(***************************************************************************)
(* The ring of forks implements the log of frames, for every program, any  *)
(* inputs, writes and ring length, provided an agent does not resume a     *)
(* frozen game without unfreezing it and stepped frames do not fail. The   *)
(* ring and its forks stay sound without either proviso.                   *)
(***************************************************************************)
EXTENDS Timeline, SequenceFacts

(* A ring and the forks held: typed frames, each with a fork of its own,   *)
(* and no other forks.                                                     *)
IsFrame(f, g) ==
  /\ f = [frame |-> f.frame, input |-> f.input, snapshot |-> f.snapshot,
          drawn |-> f.drawn, generation |-> f.generation, writes |-> f.writes]
  /\ f.input \in Inputs /\ f.frame \in 1 .. MaxFrame
  /\ f.snapshot \in Forks
  /\ f.generation \in 0 .. g
  /\ f.writes \in Writes

Distinct(fs) ==
  \A i, j \in 1 .. Len(fs) : fs[i].snapshot = fs[j].snapshot => i = j

Sound(fs, ex, g) ==
  /\ IsSeq(fs) /\ \A j \in 1 .. Len(fs) : IsFrame(fs[j], g)
  /\ DOMAIN ex = Snapshots(fs) /\ Distinct(fs)

(* What the history sees of a frame.                                       *)
View(f, ex) ==
  [input |-> f.input, frame |-> f.frame, writes |-> f.writes,
   program |-> f.generation, drawn |-> f.drawn, state |-> ex[f.snapshot]]

(* A ring holds two frames at least.                                       *)
LEMMA CapFacts == Cap \in Nat /\ Cap >= 2
  BY TimelineAssumption DEF Cap

(* Dropping the forks of some frames leaves the others.                    *)
LEMMA DropForksFacts ==
  ASSUME NEW ex, NEW fs
  PROVE  /\ DOMAIN DropForks(ex, fs) = DOMAIN ex \ Snapshots(fs)
         /\ \A k \in DOMAIN ex \ Snapshots(fs) : DropForks(ex, fs)[k] = ex[k]
  BY DEF DropForks

(* The forks of the two parts of a ring.                                   *)
LEMMA TruncateKeepsSound ==
  ASSUME NEW g, Sound(frames, execs, g), NEW c \in 1 .. Len(frames),
         NEW fs, fs = TruncateAfter(c).frames, NEW ex, ex = TruncateAfter(c).execs
  PROVE  /\ Sound(fs, ex, g) /\ Len(fs) = c
         /\ \A j \in 1 .. c : fs[j] = frames[j] /\ ex[fs[j].snapshot] = execs[fs[j].snapshot]
  <1> DEFINE rest == SubSeq(frames, c + 1, Len(frames))
  <1>0. Len(frames) \in Nat /\ c \in 0 .. Len(frames) /\ c \in Nat
    BY DEF Sound, IsSeq
  <1>1. fs = SubSeq(frames, 1, c) /\ ex = DropForks(execs, rest)
    BY DEF TruncateAfter
  <1>2. IsSeq(fs) /\ Len(fs) = c /\ \A j \in 1 .. c : fs[j] = frames[j]
    BY <1>0, <1>1, SubSeqFacts DEF Sound
  <1>3. /\ Len(rest) = Len(frames) - c
        /\ \A j \in 1 .. Len(frames) - c : rest[j] = frames[c + j]
    <2>1. PICK S : frames \in Seq(S)
      BY SeqOver DEF Sound
    <2>2. c + 1 \in Int /\ Len(frames) \in Int /\ \A j \in c + 1 .. Len(frames) : frames[j] \in S
      BY <1>0, <2>1, ElementOfSeq
    <2>3. /\ Len(rest) = IF c + 1 <= Len(frames) THEN Len(frames) - (c + 1) + 1 ELSE 0
          /\ \A j \in 1 .. Len(frames) - (c + 1) + 1 : rest[j] = frames[c + 1 + j - 1]
      BY <2>2, SubSeqProperties
    <2> HIDE DEF rest
    <2>4. \A j \in 1 .. Len(frames) - c : c + 1 + j - 1 = c + j
          /\ j \in 1 .. Len(frames) - (c + 1) + 1
      BY <1>0
    <2> QED BY <1>0, <2>3, <2>4
  <1> HIDE DEF rest
  <1>4. ASSUME NEW k
        PROVE  k \in Snapshots(fs) <=> k \in Snapshots(frames) \ Snapshots(rest)
    <2>1. ASSUME NEW j \in 1 .. c, k = fs[j].snapshot
          PROVE  k \in Snapshots(frames) \ Snapshots(rest)
      <3>1. j \in 1 .. Len(frames) /\ k = frames[j].snapshot
        BY <1>0, <1>2, <2>1
      <3>2. ASSUME NEW i \in 1 .. Len(rest), k = rest[i].snapshot PROVE FALSE
        <4>1. c + i \in 1 .. Len(frames) /\ k = frames[c + i].snapshot
          BY <1>0, <1>3, <3>2
        <4>2. c + i = j
          BY <3>1, <4>1 DEF Sound, Distinct
        <4> QED BY <4>2, <1>0, <1>3
      <3> QED BY <3>1, <3>2 DEF Snapshots
    <2>2. ASSUME NEW j \in 1 .. Len(frames), k = frames[j].snapshot, k \notin Snapshots(rest)
          PROVE  k \in Snapshots(fs)
      <3>1. CASE j <= c
        BY <3>1, <2>2, <1>0, <1>2 DEF Snapshots
      <3>2. CASE j > c
        <4>1. j - c \in 1 .. Len(rest) /\ c + (j - c) = j
          BY <3>2, <1>0, <1>3
        <4>2. rest[j - c] = frames[j]
          BY <4>1, <1>3
        <4> QED BY <2>2, <4>1, <4>2 DEF Snapshots
      <3> QED BY <3>1, <3>2, <1>0
    <2> QED BY <1>2, <2>1, <2>2 DEF Snapshots
  <1>5. DOMAIN ex = Snapshots(fs)
    <2>1. DOMAIN ex = Snapshots(frames) \ Snapshots(rest)
      BY <1>1 DEF DropForks, Sound
    <2> QED BY <2>1, <1>4
  <1>6. \A j \in 1 .. c : IsFrame(fs[j], g)
    BY <1>0, <1>2 DEF Sound
  <1>7. Distinct(fs)
    BY <1>0, <1>2 DEF Sound, Distinct
  <1>8. \A j \in 1 .. c : ex[fs[j].snapshot] = execs[fs[j].snapshot]
    <2>1. \A j \in 1 .. c : fs[j].snapshot \in Snapshots(fs)
      BY <1>2 DEF Snapshots
    <2>2. \A k \in DOMAIN ex : ex[k] = execs[k]
      BY <1>1 DEF DropForks
    <2> QED BY <2>1, <2>2, <1>5
  <1> QED
    BY <1>2, <1>5, <1>6, <1>7, <1>8 DEF Sound

(* Filing a frame: the ring grows by it, and at its cap loses its oldest   *)
(* frame and that frame's fork; the other frames keep theirs.              *)
Filed(fs, ex, e, i, c, g, k) ==
  LET grown == Append(fs, [frame |-> c, input |-> i, snapshot |-> k,
                           drawn |-> e.ran, generation |-> g, writes |-> Untouched])
  IN  /\ \/ frames' = grown
         \/ (frames' = Tail(grown) /\ Len(grown) > 2)
      /\ \A j \in 1 .. Len(frames') :
           \/ (frames'[j].snapshot = k /\ execs'[k] = e)
           \/ /\ frames'[j].snapshot \in DOMAIN ex /\ frames'[j].snapshot # k
              /\ execs'[frames'[j].snapshot] = ex[frames'[j].snapshot]

(* Filing a frame keeps the ring and its forks sound, and the cursor in    *)
(* the ring.                                                               *)
LEMMA RecordKeepsSound ==
  ASSUME NEW g \in Nat, g = generation, NEW fs, NEW ex, Sound(fs, ex, g), Len(fs) <= Cap,
         NEW cur \in 0 .. Len(fs), NEW e, NEW i \in Inputs, NEW c \in 1 .. MaxFrame,
         Record(fs, ex, cur, e, i, c)
  PROVE  /\ Sound(frames', execs', g) /\ Len(frames') <= Cap
         /\ cursor' \in 0 .. Len(frames') /\ (cur = 0 => cursor' = 0)
         /\ \E k \in Forks \ DOMAIN ex : Filed(fs, ex, e, i, c, g, k)
  <1>1. PICK k \in Forks \ DOMAIN ex :
          LET rec  == [frame |-> c, input |-> i, snapshot |-> k, drawn |-> e.ran,
                       generation |-> generation, writes |-> Untouched]
              ring == Evict(Append(fs, rec), ForkExecution(ex, k, e), cur)
          IN  frames' = ring.frames /\ execs' = ring.execs /\ cursor' = ring.cursor
    BY DEF Record
  <1> DEFINE rec   == [frame |-> c, input |-> i, snapshot |-> k, drawn |-> e.ran,
                       generation |-> g, writes |-> Untouched]
             grown == Append(fs, rec)
             held  == ForkExecution(ex, k, e)
             n     == Len(fs)
  <1>2. /\ frames' = Evict(grown, held, cur).frames
        /\ execs' = Evict(grown, held, cur).execs
        /\ cursor' = Evict(grown, held, cur).cursor
    BY <1>1
  <1>3. /\ IsSeq(grown) /\ Len(grown) = n + 1 /\ n \in Nat
        /\ \A j \in 1 .. n : grown[j] = fs[j]
        /\ grown[n + 1] = rec
        /\ \A j \in 1 .. n + 1 : j \in 1 .. n \/ j = n + 1
    BY AppendFacts DEF Sound, IsSeq
  <1>4. IsFrame(rec, g) /\ rec.snapshot = k
    BY DEF IsFrame, Untouched, Writes
  <1>5. /\ DOMAIN held = DOMAIN ex \cup {k} /\ held[k] = e
        /\ \A x \in DOMAIN ex : x # k => held[x] = ex[x]
    BY DEF ForkExecution
  <1>13. grown = Append(fs, [frame |-> c, input |-> i, snapshot |-> k,
                     drawn |-> e.ran, generation |-> g, writes |-> Untouched])
    OBVIOUS
  <1> HIDE DEF rec, held, grown
  <1>6. \A j \in 1 .. n + 1 : IsFrame(grown[j], g)
    BY <1>3, <1>4 DEF Sound
  <1>7. /\ \A j \in 1 .. n : grown[j].snapshot \in DOMAIN ex /\ grown[j].snapshot # k
        /\ grown[n + 1].snapshot = k
    BY <1>1, <1>3, <1>4 DEF Sound, Snapshots
  <1>8. Distinct(grown)
    <2> SUFFICES ASSUME NEW x \in 1 .. Len(grown), NEW y \in 1 .. Len(grown),
                        grown[x].snapshot = grown[y].snapshot
                 PROVE  x = y
      BY DEF Distinct
    <2>1. CASE x \in 1 .. n /\ y \in 1 .. n
      BY <2>1, <1>3 DEF Sound, Distinct
    <2> QED BY <2>1, <1>3, <1>7
  <1>9. Snapshots(grown) = DOMAIN held
    <2>1. \A x \in DOMAIN ex : \E j \in 1 .. n : x = grown[j].snapshot
      BY <1>3 DEF Sound, Snapshots
    <2>2. 1 .. Len(grown) = 1 .. n \cup {n + 1}
      BY <1>3
    <2>3. \A x \in DOMAIN held : x \in Snapshots(grown)
      <3>1. k \in Snapshots(grown)
        BY <2>2, <1>3, <1>7 DEF Snapshots
      <3>2. \A x \in DOMAIN ex : x \in Snapshots(grown)
        BY <2>1, <2>2, <1>3 DEF Snapshots
      <3> QED BY <3>1, <3>2, <1>5
    <2>4. \A x \in Snapshots(grown) : x \in DOMAIN held
      BY <2>2, <1>3, <1>5, <1>7 DEF Snapshots
    <2> QED BY <2>3, <2>4
  <1>10. \A x \in DOMAIN held :
           (x = k /\ held[x] = e) \/ (x # k /\ x \in DOMAIN ex /\ held[x] = ex[x])
    BY <1>1, <1>5
  <1>11. CASE Len(grown) > Cap
    <2>1. frames' = Tail(grown) /\ execs' = DropForks(held, <<Head(grown)>>)
          /\ cursor' = IF cur > 1 THEN cur - 1 ELSE cur
      BY <1>2, <1>11 DEF Evict
    <2>2. /\ Head(grown) = grown[1] /\ IsSeq(frames') /\ Len(frames') = n
          /\ \A j \in 1 .. n : frames'[j] = grown[j + 1] /\ j + 1 \in 1 .. n + 1
      <3>1. Len(grown) # 0
        BY <1>3
      <3> QED BY <3>1, <2>1, <1>3, TailFacts
    <2>3. Snapshots(<<Head(grown)>>) = {grown[1].snapshot}
      BY <2>2 DEF Snapshots
    <2>4. /\ DOMAIN execs' = DOMAIN held \ {grown[1].snapshot}
          /\ \A x \in DOMAIN held \ {grown[1].snapshot} : execs'[x] = held[x]
      BY <2>1, <2>3, DropForksFacts
    <2>5. DOMAIN execs' = Snapshots(frames')
      <3>1. ASSUME NEW x \in DOMAIN execs' PROVE x \in Snapshots(frames')
        <4>1. PICK j \in 1 .. n + 1 : x = grown[j].snapshot
          BY <3>1, <2>4, <1>3, <1>9 DEF Snapshots
        <4>2. j # 1
          BY <3>1, <4>1, <2>4
        <4>3. j - 1 \in 1 .. n /\ j - 1 + 1 = j
          BY <4>1, <4>2, <1>3
        <4>4. frames'[j - 1] = grown[j]
          BY <4>3, <2>2
        <4> QED BY <4>1, <4>3, <4>4, <2>2 DEF Snapshots
      <3>2. ASSUME NEW x \in Snapshots(frames') PROVE x \in DOMAIN execs'
        <4>1. PICK j \in 1 .. n : x = frames'[j].snapshot
          BY <3>2, <2>2 DEF Snapshots
        <4>2. x = grown[j + 1].snapshot /\ j + 1 \in 1 .. n + 1 /\ j + 1 # 1 /\ 1 \in 1 .. n + 1
          BY <4>1, <2>2, <1>3
        <4>3. x # grown[1].snapshot /\ x \in Snapshots(grown)
          BY <4>2, <1>3, <1>8 DEF Distinct, Snapshots
        <4> QED BY <4>3, <2>4, <1>9
      <3> QED BY <3>1, <3>2
    <2>6. Distinct(frames')
      <3> SUFFICES ASSUME NEW x \in 1 .. n, NEW y \in 1 .. n,
                          frames'[x].snapshot = frames'[y].snapshot
                   PROVE  x = y
        BY <2>2 DEF Distinct
      <3>1. x + 1 = y + 1
        BY <2>2, <1>3, <1>8 DEF Distinct
      <3> QED BY <3>1, <1>3
    <2>7. Sound(frames', execs', g)
      BY <2>2, <2>5, <2>6, <1>6 DEF Sound
    <2>8. \A j \in 1 .. Len(frames') :
                   \/ (frames'[j].snapshot = k /\ execs'[k] = e)
                   \/ /\ frames'[j].snapshot \in DOMAIN ex /\ frames'[j].snapshot # k
                      /\ execs'[frames'[j].snapshot] = ex[frames'[j].snapshot]
      <3>1. \A j \in 1 .. Len(frames') : frames'[j].snapshot \in DOMAIN execs'
        BY <2>5 DEF Snapshots
      <3>2. \A x \in DOMAIN execs' : x \in DOMAIN held /\ execs'[x] = held[x]
        BY <2>4
      <3> QED BY <3>1, <3>2, <1>10
    <2>9. Len(frames') <= Cap /\ Len(grown) > 2
      BY <2>2, <1>3, <1>11, CapFacts
    <2>10. Filed(fs, ex, e, i, c, g, k)
      BY <2>1, <2>8, <2>9, <1>13 DEF Filed
    <2>11. cursor' \in 0 .. Len(frames') /\ (cur = 0 => cursor' = 0)
      BY <2>1, <2>2, <2>9, <1>3
    <2> QED BY <2>7, <2>9, <2>10, <2>11
  <1>12. CASE ~(Len(grown) > Cap)
    <2>1. frames' = grown /\ execs' = held /\ cursor' = cur
      BY <1>2, <1>12 DEF Evict
    <2>2. Sound(frames', execs', g)
      BY <2>1, <1>3, <1>6, <1>8, <1>9 DEF Sound
    <2>3. \A j \in 1 .. Len(frames') :
                   \/ (frames'[j].snapshot = k /\ execs'[k] = e)
                   \/ /\ frames'[j].snapshot \in DOMAIN ex /\ frames'[j].snapshot # k
                      /\ execs'[frames'[j].snapshot] = ex[frames'[j].snapshot]
      <3>1. \A j \in 1 .. Len(frames') : frames'[j].snapshot \in DOMAIN execs'
        BY <2>1, <1>9 DEF Snapshots
      <3> QED BY <3>1, <2>1, <1>10
    <2>4. Len(frames') <= Cap
      BY <2>1, <1>3, <1>12, CapFacts
    <2>5. Filed(fs, ex, e, i, c, g, k)
      BY <2>1, <2>3, <1>13 DEF Filed
    <2>6. cursor' \in 0 .. Len(frames') /\ (cur = 0 => cursor' = 0)
      BY <2>1, <1>3
    <2> QED BY <2>2, <2>4, <2>5, <2>6
  <1> QED
    BY <1>11, <1>12

(* What the history sees of a ring.                                        *)
Views(fs, ex) == [j \in 1 .. Len(fs) |-> View(fs[j], ex)]

(* The views of a ring, one by one.                                        *)
LEMMA ViewsFacts ==
  ASSUME NEW fs, NEW ex, IsSeq(fs)
  PROVE  /\ IsSeq(Views(fs, ex)) /\ Len(Views(fs, ex)) = Len(fs)
         /\ \A j \in 1 .. Len(fs) : Views(fs, ex)[j] = View(fs[j], ex)
  <1>1. Len(fs) \in Nat
    BY DEF IsSeq
  <1> DEFINE vs == Views(fs, ex)
  <1>2. vs = [j \in 1 .. Len(fs) |-> vs[j]] /\ \A j \in 1 .. Len(fs) : vs[j] = View(fs[j], ex)
    BY DEF Views
  <1> HIDE DEF vs
  <1>3. IsSeq(vs) /\ Len(vs) = Len(fs)
    BY <1>1, <1>2, MadeSeq
  <1> QED BY <1>2, <1>3 DEF vs

(* Filing a frame adds its view to the log, and may drop the oldest.       *)
LEMMA RecordViews ==
  ASSUME NEW g \in Nat, NEW fs, NEW ex, Sound(fs, ex, g), NEW e, NEW i, NEW c, NEW k,
         k \notin DOMAIN ex, Filed(fs, ex, e, i, c, g, k)
  PROVE  LET f == [input |-> i, frame |-> c, writes |-> Untouched, program |-> g,
                   drawn |-> e.ran, state |-> e]
             all == Append(Views(fs, ex), f)
         IN  Views(frames', execs') \in {all, Tail(all)}
  <1> DEFINE f     == [input |-> i, frame |-> c, writes |-> Untouched, program |-> g,
                       drawn |-> e.ran, state |-> e]
             all   == Append(Views(fs, ex), f)
             rec   == [frame |-> c, input |-> i, snapshot |-> k,
                       drawn |-> e.ran, generation |-> g, writes |-> Untouched]
             grown == Append(fs, rec)
             n     == Len(fs)
  <1>1. n \in Nat /\ IsSeq(fs) /\ (\A j \in 1 .. n : fs[j].snapshot \in DOMAIN ex)
    BY DEF Sound, IsSeq, Snapshots
  <1>2. /\ IsSeq(grown) /\ Len(grown) = n + 1
        /\ \A j \in 1 .. n : grown[j] = fs[j]
        /\ grown[n + 1] = rec
    BY <1>1, AppendFacts
  <1>3. /\ IsSeq(Views(fs, ex)) /\ Len(Views(fs, ex)) = n
        /\ \A j \in 1 .. n : Views(fs, ex)[j] = View(fs[j], ex)
    BY <1>1, ViewsFacts
  <1>4. /\ IsSeq(all) /\ Len(all) = n + 1
        /\ \A j \in 1 .. n : all[j] = View(fs[j], ex)
        /\ all[n + 1] = f
    BY <1>3, AppendFacts
  <1>5. /\ \/ frames' = grown
           \/ (frames' = Tail(grown) /\ Len(grown) > 2)
        /\ \A j \in 1 .. Len(frames') :
             \/ (frames'[j].snapshot = k /\ execs'[k] = e)
             \/ /\ frames'[j].snapshot \in DOMAIN ex /\ frames'[j].snapshot # k
                /\ execs'[frames'[j].snapshot] = ex[frames'[j].snapshot]
    BY DEF Filed
  <1>6. ASSUME NEW x \in 1 .. Len(frames'), NEW j \in 1 .. n + 1, frames'[x] = grown[j]
        PROVE  View(frames'[x], execs') = all[j]
    <2>1. CASE j = n + 1
      <3>1. frames'[x] = rec /\ execs'[k] = e
        BY <2>1, <1>2, <1>5, <1>6
      <3> QED BY <3>1, <2>1, <1>4 DEF View
    <2>2. CASE j \in 1 .. n
      <3>1. frames'[x] = fs[j] /\ execs'[fs[j].snapshot] = ex[fs[j].snapshot]
        BY <2>2, <1>1, <1>2, <1>5, <1>6
      <3> QED BY <3>1, <2>2, <1>4 DEF View
    <2>3. j = n + 1 \/ j \in 1 .. n
      BY <1>1
    <2> QED BY <2>1, <2>2, <2>3
  <1> HIDE DEF all, grown, f, rec
  <1>7. IsSeq(frames')
    <2>1. Len(grown) # 0
      BY <1>1, <1>2
    <2> QED BY <2>1, <1>2, <1>5, TailFacts
  <1> DEFINE vs == Views(frames', execs')
  <1>8. /\ IsSeq(vs) /\ Len(vs) = Len(frames')
        /\ \A j \in 1 .. Len(frames') : vs[j] = View(frames'[j], execs')
    BY <1>7, ViewsFacts
  <1> HIDE DEF vs
  <1>9. CASE frames' = grown
    <2>1. \A j \in 1 .. n + 1 : vs[j] = all[j]
      BY <1>9, <1>6, <1>8, <1>2
    <2> QED BY <2>1, <1>2, <1>4, <1>8, <1>9, SeqSame DEF all, vs, f
  <1>10. CASE frames' = Tail(grown)
    <2>1. /\ IsSeq(Tail(all)) /\ Len(Tail(all)) = n
          /\ \A j \in 1 .. n : Tail(all)[j] = all[j + 1]
      BY <1>1, <1>4, TailFacts
    <2>2. /\ Len(frames') = n
          /\ \A j \in 1 .. n : frames'[j] = grown[j + 1]
      BY <1>1, <1>2, <1>10, TailFacts
    <2>3. \A j \in 1 .. n : j + 1 \in 1 .. n + 1
      BY <1>1
    <2>4. \A j \in 1 .. n : vs[j] = Tail(all)[j]
      BY <2>1, <2>2, <2>3, <1>6, <1>8
    <2> QED BY <2>1, <2>2, <2>4, <1>8, SeqSame DEF all, vs, f
  <1> QED BY <1>5, <1>9, <1>10

(* What the history sees of the first d frames, and of those after them.   *)
Pasts(fs, ex, d) == [j \in 1 .. d |-> View(fs[j], ex)]
Futures(fs, d)   == [j \in 1 .. Len(fs) - d |-> StillToDo(fs[d + j])]

(* The mapped variables, element by element.                               *)
LEMMA MapFacts ==
  ASSUME NEW fs, NEW ex, IsSeq(fs), NEW d \in 0 .. Len(fs)
  PROVE  /\ IsSeq(Pasts(fs, ex, d)) /\ Len(Pasts(fs, ex, d)) = d
         /\ \A j \in 1 .. d : Pasts(fs, ex, d)[j] = View(fs[j], ex)
         /\ IsSeq(Futures(fs, d)) /\ Len(Futures(fs, d)) = Len(fs) - d
         /\ \A j \in 1 .. Len(fs) - d : Futures(fs, d)[j] = StillToDo(fs[d + j])
  <1>1. d \in Nat /\ Len(fs) - d \in Nat
    BY DEF IsSeq
  <1> DEFINE ps == Pasts(fs, ex, d)
             us == Futures(fs, d)
  <1>2. ps = [j \in 1 .. d |-> ps[j]] /\ \A j \in 1 .. d : ps[j] = View(fs[j], ex)
    BY DEF Pasts
  <1>3. /\ us = [j \in 1 .. Len(fs) - d |-> us[j]]
        /\ \A j \in 1 .. Len(fs) - d : us[j] = StillToDo(fs[d + j])
    BY DEF Futures
  <1> HIDE DEF ps, us
  <1>4. IsSeq(ps) /\ Len(ps) = d
    BY <1>1, <1>2, MadeSeq
  <1>5. IsSeq(us) /\ Len(us) = Len(fs) - d
    BY <1>1, <1>3, MadeSeq
  <1> QED BY <1>2, <1>3, <1>4, <1>5 DEF ps, us

(* What the ring keeps whatever else happens, also when a stepped frame    *)
(* fails and when an agent resumes a frozen game: the ring is sound, and   *)
(* the cursor and a running replay are inside it.                          *)
RingInv ==
  /\ mode \in Modes /\ paused \in BOOLEAN
  /\ generation \in 0 .. MaxGeneration /\ clock \in 0 .. MaxFrame
  /\ Sound(frames, execs, generation) /\ Len(frames) <= Cap
  /\ cursor \in 0 .. Len(frames)
  /\ replaying = 0 \/ replaying \in 2 .. Len(frames)

(* The inductive invariant: the ring is sound; the game that is not frozen *)
(* goes on from its last frame, and a replay from the frame before the one *)
(* it runs next; an agent's frozen game is paused.                         *)
TInv ==
  /\ mode \in Modes /\ paused \in BOOLEAN
  /\ generation \in 0 .. MaxGeneration /\ clock \in 0 .. MaxFrame
  /\ Sound(frames, execs, generation) /\ Len(frames) <= Cap
  /\ cursor \in 0 .. Len(frames)
  /\ replaying = 0 \/ replaying \in 2 .. Len(frames)
  /\ Idle /\ ~IsFrozen /\ Len(frames) # 0 =>
       /\ live = execs[frames[Len(frames)].snapshot]
       /\ clock = frames[Len(frames)].frame
  /\ ~Idle => live = execs[frames[replaying - 1].snapshot]
  /\ IsFrozen /\ mode # "window" => paused

(* It is part of that one.                                                 *)
LEMMA RingOfTInv == TInv => RingInv
  BY DEF TInv, RingInv

(* The invariant holds at the start.                                       *)
LEMMA InitInv == Init => TInv
  <1> SUFFICES ASSUME Init PROVE TInv
    OBVIOUS
  <1>1. Len(frames) = 0 /\ IsSeq(frames)
    BY EmptyFacts DEF Init
  <1>2. DOMAIN execs = {} /\ Snapshots(frames) = {}
    BY <1>1 DEF Init, Snapshots
  <1>3. Sound(frames, execs, generation)
    BY <1>1, <1>2 DEF Sound, Distinct
  <1> QED BY <1>1, <1>3, CapFacts, TimelineAssumption DEF Init, TInv, Idle, IsFrozen

(* The frames of a sound ring have forks.                                  *)
LEMMA SoundFacts ==
  ASSUME NEW fs, NEW ex, NEW g, Sound(fs, ex, g)
  PROVE  /\ IsSeq(fs) /\ Len(fs) \in Nat
         /\ \A j \in 1 .. Len(fs) :
              /\ fs[j].snapshot \in DOMAIN ex /\ IsFrame(fs[j], g)
              /\ fs[j].frame \in 1 .. MaxFrame
  BY DEF Sound, IsSeq, Snapshots, IsFrame

(* The last frame of a ring a frame was just filed in is that frame.       *)
LEMMA FiledLast ==
  ASSUME NEW g, NEW fs, NEW ex, IsSeq(fs), NEW e, NEW i, NEW c, NEW k,
         \A j \in 1 .. Len(fs) : fs[j].snapshot \in DOMAIN ex,
         k \notin DOMAIN ex, Filed(fs, ex, e, i, c, g, k)
  PROVE  /\ Len(frames') \in Nat /\ Len(frames') # 0
         /\ execs'[frames'[Len(frames')].snapshot] = e
         /\ frames'[Len(frames')].frame = c
  <1> DEFINE rec   == [frame |-> c, input |-> i, snapshot |-> k,
                       drawn |-> e.ran, generation |-> g, writes |-> Untouched]
             grown == Append(fs, rec)
             n     == Len(fs)
  <1>1. n \in Nat
    BY DEF IsSeq
  <1>2. /\ IsSeq(grown) /\ Len(grown) = n + 1 /\ grown[n + 1] = rec
    BY AppendFacts
  <1>3. /\ \/ frames' = grown
           \/ (frames' = Tail(grown) /\ Len(grown) > 2)
        /\ \A j \in 1 .. Len(frames') : frames'[j].snapshot = k =>
             (execs'[k] = e \/ frames'[j].snapshot # k)
    BY DEF Filed
  <1> HIDE DEF grown
  <1>4. frames'[Len(frames')] = rec /\ Len(frames') \in Nat /\ Len(frames') # 0
    <2>1. CASE frames' = grown
      BY <2>1, <1>1, <1>2
    <2>2. CASE frames' = Tail(grown) /\ Len(grown) > 2
      <3>1. Len(Tail(grown)) = n /\ \A j \in 1 .. n : Tail(grown)[j] = grown[j + 1]
        BY <2>2, <1>1, <1>2, TailFacts
      <3>2. n \in 1 .. n
        BY <2>2, <1>1, <1>2
      <3> QED BY <2>2, <3>1, <3>2, <1>1, <1>2
    <2> QED BY <2>1, <2>2, <1>3
  <1>5. Len(frames') \in 1 .. Len(frames')
    BY <1>4
  <1> QED BY <1>3, <1>4, <1>5

-----------------------------------------------------------------------------
(* Each step keeps the invariant, and is a step of the history or a        *)
(* stutter.                                                                *)

(* The mapped variables of a state, and of the next.                       *)
LEMMA Mapped ==
  /\ Past = Pasts(frames, execs, DoneTo) /\ Past' = Pasts(frames', execs', DoneTo')
  /\ Future = Futures(frames, DoneTo) /\ Future' = Futures(frames', DoneTo')
  BY DEF Past, Future, FrameOf, Pasts, Futures, View, StillToDo

(* With no replay running the log is the whole ring.                       *)
LEMMA IdleFacts ==
  ASSUME TInv, Idle
  PROVE  /\ Past = Views(frames, execs) /\ Future = <<>>
         /\ IsSeq(Past) /\ Len(Past) = Len(frames) /\ Len(frames) \in Nat
         /\ \A j \in 1 .. Len(frames) :
              /\ Past[j] = View(frames[j], execs)
              /\ Past[j].state = execs[frames[j].snapshot]
              /\ Past[j].frame = frames[j].frame
  <1>1. IsSeq(frames) /\ Len(frames) \in Nat /\ DoneTo = Len(frames)
    BY DEF TInv, SoundFacts, Sound, IsSeq, DoneTo
  <1>2. Past = Views(frames, execs)
    BY <1>1, Mapped DEF Pasts, Views
  <1>3. IsSeq(Future) /\ Len(Future) = 0
    <2>1. Len(frames) \in 0 .. Len(frames) /\ Len(frames) - Len(frames) = 0
      BY <1>1
    <2> QED BY <1>1, <2>1, Mapped, MapFacts
  <1>4. /\ IsSeq(Past) /\ Len(Past) = Len(frames)
        /\ \A j \in 1 .. Len(frames) : Past[j] = View(frames[j], execs)
    BY <1>1, <1>2, ViewsFacts
  <1> QED BY <1>1, <1>2, <1>3, <1>4, EmptyFacts DEF View

(* The same of the next state.                                             *)
LEMMA NextIdleFacts ==
  ASSUME TInv', Idle'
  PROVE  /\ Past' = Views(frames', execs') /\ Future' = <<>>
         /\ IsSeq(Past') /\ Len(Past') = Len(frames') /\ Len(frames') \in Nat
         /\ \A j \in 1 .. Len(frames') :
              /\ Past'[j] = View(frames'[j], execs')
              /\ Past'[j].state = execs'[frames'[j].snapshot]
              /\ Past'[j].frame = frames'[j].frame
  <1>1. IsSeq(frames') /\ Len(frames') \in Nat /\ DoneTo' = Len(frames')
    BY DEF TInv, Sound, IsSeq, DoneTo
  <1>2. Past' = Views(frames', execs')
    BY <1>1, Mapped DEF Pasts, Views
  <1>3. IsSeq(Future') /\ Len(Future') = 0
    <2>1. Len(frames') \in 0 .. Len(frames') /\ Len(frames') - Len(frames') = 0
      BY <1>1
    <2> QED BY <1>1, <2>1, Mapped, MapFacts
  <1>4. /\ IsSeq(Past') /\ Len(Past') = Len(frames')
        /\ \A j \in 1 .. Len(frames') : Past'[j] = View(frames'[j], execs')
    BY <1>1, <1>2, ViewsFacts
  <1> QED BY <1>1, <1>2, <1>3, <1>4, EmptyFacts DEF View

(* Nothing filed against a frame leaves its run as it is.                  *)
LEMMA ApplyUntouched == \A r : Apply(Ran(r), Untouched) = Ran(r)
  BY DEF Apply, Ran, Untouched

(* A frame is played from the frame on screen.                             *)
LEMMA PlayStep ==
  ASSUME TInv, Idle, UNCHANGED <<mode, paused, generation, replaying>>,
         NEW i \in Inputs, NEW c \in 1 .. MaxFrame, NEW fs, NEW ex,
         Sound(fs, ex, generation), Len(fs) <= Cap,
         Views(fs, ex) = SubSeq(Past, 1, Shown),
         live' = RunFrame(Now, i, c), clock' = c,
         Shown # 0 => c = Past[Shown].frame + 1,
         Record(fs, ex, 0, live', i, c)
  PROVE  TInv' /\ H!Play(i, c)
  <1> DEFINE g == generation
  <1>1. g \in Nat /\ g' = g /\ Idle' /\ MaxFrame \in Nat
    BY TimelineAssumption DEF TInv, Idle
  <1>2. /\ Sound(frames', execs', g) /\ Len(frames') <= Cap /\ cursor' = 0
        /\ \E k \in Forks \ DOMAIN ex : Filed(fs, ex, live', i, c, g, k)
    <2>1. Len(fs) \in Nat /\ 0 \in 0 .. Len(fs)
      BY SoundFacts
    <2> QED BY <1>1, <2>1, RecordKeepsSound
  <1>3. PICK k \in Forks \ DOMAIN ex : Filed(fs, ex, live', i, c, g, k)
    BY <1>2
  <1>4. /\ Len(frames') \in Nat /\ Len(frames') # 0
        /\ execs'[frames'[Len(frames')].snapshot] = live'
        /\ frames'[Len(frames')].frame = c
    BY <1>3, FiledLast, SoundFacts
  <1>5. TInv'
    BY <1>1, <1>2, <1>4 DEF TInv, Idle, IsFrozen
  <1> DEFINE r == Run(g, Now, i, c)
             f == [input |-> i, frame |-> c, writes |-> Untouched, program |-> g,
                   drawn |-> r, state |-> Ran(r)]
  <1>6. live' = Ran(r) /\ live'.ran = r
    BY DEF RunFrame, Ran
  <1>7. Views(frames', execs') \in {Append(Views(fs, ex), f), Tail(Append(Views(fs, ex), f))}
    <2> DEFINE h == [input |-> i, frame |-> c, writes |-> Untouched, program |-> g,
                     drawn |-> live'.ran, state |-> live']
    <2>1. h = f
      BY <1>6
    <2> HIDE DEF f
    <2>2. Views(frames', execs') \in {Append(Views(fs, ex), h), Tail(Append(Views(fs, ex), h))}
      BY <1>1, <1>3, RecordViews
    <2> QED BY <2>1, <2>2
  <1>8. /\ Past' = Views(frames', execs') /\ Future' = <<>> /\ Future = <<>>
        /\ Len(Past') = Len(frames')
    BY <1>1, <1>5, IdleFacts, NextIdleFacts
  <1>9. Shown' = Len(frames') /\ Now' = live'
    BY <1>2 DEF Shown, Now, IsFrozen
  <1>10. H!Done(Now, [input |-> i, frame |-> c, writes |-> Untouched]) = f
    BY ApplyUntouched DEF H!Done, H!Apply, H!Ran, H!Untouched, Untouched, Apply, Ran
  <1>11. H!Untouched = Untouched
    BY DEF H!Untouched, Untouched
  <1>12. f.state = live'
    BY <1>6
  <1> HIDE DEF f, r
  <1> QED BY <1>1, <1>5, <1>7, <1>8, <1>9, <1>10, <1>11, <1>12 DEF H!Play, H!Upto

(* Cutting the ring at a frame cuts the log there.                         *)
LEMMA CutFacts ==
  ASSUME TInv, Idle, NEW c \in 1 .. Len(frames)
  PROVE  LET fs == TruncateAfter(c).frames
             ex == TruncateAfter(c).execs
         IN  /\ Sound(fs, ex, generation) /\ Len(fs) = c /\ Len(fs) <= Cap
             /\ Views(fs, ex) = SubSeq(Past, 1, c)
             /\ fs[c] = frames[c] /\ c \in Nat /\ c # 0
             /\ ex[frames[c].snapshot] = execs[frames[c].snapshot]
  <1> DEFINE fs == TruncateAfter(c).frames
             ex == TruncateAfter(c).execs
  <1>1. Sound(frames, execs, generation) /\ Len(frames) <= Cap /\ Len(frames) \in Nat
    BY DEF TInv, Sound, IsSeq
  <1>2. /\ Sound(fs, ex, generation) /\ Len(fs) = c
        /\ \A j \in 1 .. c : fs[j] = frames[j] /\ ex[fs[j].snapshot] = execs[fs[j].snapshot]
    BY <1>1, TruncateKeepsSound
  <1> HIDE DEF fs, ex
  <1>3. /\ IsSeq(Views(fs, ex)) /\ Len(Views(fs, ex)) = c
        /\ \A j \in 1 .. c : Views(fs, ex)[j] = View(fs[j], ex)
    BY <1>2, ViewsFacts DEF Sound
  <1>4. /\ IsSeq(SubSeq(Past, 1, c)) /\ Len(SubSeq(Past, 1, c)) = c
        /\ \A j \in 1 .. c : SubSeq(Past, 1, c)[j] = Past[j]
    BY <1>1, IdleFacts, SubSeqFacts
  <1>5. \A j \in 1 .. c : Views(fs, ex)[j] = SubSeq(Past, 1, c)[j]
    BY <1>1, <1>2, <1>3, <1>4, IdleFacts DEF View
  <1>6. Views(fs, ex) = SubSeq(Past, 1, c)
    BY <1>3, <1>4, <1>5, SeqSame
  <1>7. c \in 1 .. c /\ c <= Cap
    BY <1>1, CapFacts
  <1> QED BY <1>1, <1>2, <1>6, <1>7 DEF fs, ex

(* The frame the game goes on from, and the log up to it.                  *)
LEMMA WholeFacts ==
  ASSUME TInv, Idle
  PROVE  SubSeq(Past, 1, Len(frames)) = Views(frames, execs)
  <1>1. Len(frames) \in 0 .. Len(Past) /\ IsSeq(Past) /\ Len(Past) = Len(frames)
    BY IdleFacts
  <1>2. SubSeq(Past, 1, Len(frames)) = Past
    BY <1>1, SubSeqFacts, SeqSame
  <1> QED BY <1>2, IdleFacts

(* What a game that has to go on from a frame goes on from.                *)
LEMMA LastFacts ==
  ASSUME TInv, Idle, ~IsFrozen, Len(frames) # 0
  PROVE  /\ Len(frames) \in 1 .. Len(frames)
         /\ Now = live /\ live = Past[Len(frames)].state
         /\ clock = Past[Len(frames)].frame
  <1>1. Len(frames) \in 1 .. Len(frames)
    BY IdleFacts
  <1> QED BY <1>1, IdleFacts DEF TInv, Now

(* A live frame plays a frame.                                             *)
LEMMA LiveFrameStep ==
  ASSUME TInv, NEW i \in Inputs, LiveFrame(i)
  PROVE  TInv' /\ H!Next
  <1>1. Idle /\ ~IsFrozen /\ cursor = 0 /\ Shown = Len(frames) /\ Now = live
    BY DEF LiveFrame, TInv, IsFrozen, Shown, Now
  <1>2. clock + 1 \in 1 .. MaxFrame
    BY TimelineAssumption DEF LiveFrame, TInv
  <1>3. Views(frames, execs) = SubSeq(Past, 1, Shown)
    BY <1>1, WholeFacts
  <1>4. Shown # 0 => clock + 1 = Past[Shown].frame + 1
    BY <1>1, LastFacts
  <1>5. /\ Sound(frames, execs, generation) /\ Len(frames) <= Cap
        /\ UNCHANGED <<mode, paused, generation, replaying>>
        /\ clock' = clock + 1 /\ live' = RunFrame(Now, i, clock + 1)
        /\ Record(frames, execs, 0, live', i, clock + 1)
    BY <1>1 DEF TInv, LiveFrame
  <1> DEFINE c == clock + 1
  <1> HIDE DEF c
  <1>6. c \in 1 .. MaxFrame /\ clock' = c
    BY <1>2, <1>5 DEF c
  <1>7. TInv' /\ H!Play(i, c)
    BY <1>1, <1>3, <1>4, <1>5, <1>6, PlayStep DEF c
  <1> QED BY <1>6, <1>7 DEF H!Next

(* A stepped frame plays one from the frame on screen.                     *)
LEMMA StepStep ==
  ASSUME TInv, NEW i \in Inputs, Step(i, FALSE)
  PROVE  TInv' /\ H!Next
  <1>1. Idle /\ UNCHANGED <<mode, paused, generation, replaying>>
    BY DEF Step
  <1>2. CASE ~IsFrozen
    <2>1. cursor = 0 /\ Shown = Len(frames) /\ Now = live
      BY <1>2 DEF IsFrozen, Shown, Now
    <2> DEFINE c == clock + 1
    <2>2. c \in 1 .. MaxFrame /\ clock' = c
      BY <1>2, TimelineAssumption DEF TInv, Step
    <2>3. Views(frames, execs) = SubSeq(Past, 1, Shown)
      BY <1>1, <2>1, WholeFacts
    <2>4. Shown # 0 => c = Past[Shown].frame + 1
      BY <1>1, <1>2, <2>1, LastFacts
    <2>5. /\ Sound(frames, execs, generation) /\ Len(frames) <= Cap
          /\ live' = RunFrame(Now, i, c)
          /\ Record(frames, execs, 0, live', i, c)
      BY <1>2, <2>1, <2>2 DEF TInv, Step
    <2> HIDE DEF c
    <2>6. TInv' /\ H!Play(i, c)
      BY <1>1, <2>2, <2>3, <2>4, <2>5, PlayStep
    <2> QED BY <2>2, <2>6 DEF H!Next
  <1>3. CASE IsFrozen
    <2>1. Shown = cursor /\ Now = Restored(cursor) /\ cursor \in 1 .. Len(frames)
      BY <1>1, <1>3 DEF IsFrozen, Shown, Now, TInv
    <2> DEFINE c == frames[cursor].frame + 1
    <2>2. frames[cursor].frame \in 1 .. MaxFrame /\ Past[Shown].frame = frames[cursor].frame
      BY <1>1, <2>1, IdleFacts DEF TInv, Sound, IsFrame
    <2>3. c \in 1 .. MaxFrame /\ clock' = c
      BY <1>3, <2>2, TimelineAssumption DEF Step
    <2> DEFINE fs == TruncateAfter(cursor).frames
               ex == TruncateAfter(cursor).execs
    <2>4. /\ live' = RunFrame(Now, i, c)
          /\ Record(fs, ex, 0, live', i, c)
      BY <1>3, <2>1, <2>3 DEF Step
    <2>5. /\ Sound(fs, ex, generation) /\ Len(fs) <= Cap
          /\ Views(fs, ex) = SubSeq(Past, 1, Shown)
      BY <1>1, <2>1, CutFacts
    <2> HIDE DEF c, fs, ex
    <2>6. Shown # 0 => c = Past[Shown].frame + 1
      BY <2>2 DEF c
    <2>7. TInv' /\ H!Play(i, c)
      BY <1>1, <2>3, <2>4, <2>5, <2>6, PlayStep
    <2> QED BY <2>3, <2>7 DEF H!Next
  <1> QED BY <1>2, <1>3

(* The game goes on from a frame of the ring.                              *)
LEMMA ResumeStep ==
  ASSUME TInv, Idle, NEW c \in 1 .. Len(frames), ResumeAt(c),
         UNCHANGED <<mode, paused, generation, replaying>>
  PROVE  TInv' /\ H!Next
  <1>1. /\ Sound(frames', execs', generation) /\ Len(frames') = c /\ Len(frames') <= Cap
        /\ Views(frames', execs') = SubSeq(Past, 1, c)
        /\ frames'[c] = frames[c] /\ c \in Nat /\ c # 0
        /\ execs'[frames[c].snapshot] = execs[frames[c].snapshot]
    BY CutFacts DEF ResumeAt
  <1>2. /\ cursor' = 0 /\ clock' = frames[c].frame
        /\ live' = execs[frames[c].snapshot] /\ Idle'
    BY DEF ResumeAt, Restored, Idle
  <1>3. frames[c].frame \in 0 .. MaxFrame
    <2>1. frames[c].frame \in 1 .. MaxFrame
      BY SoundFacts DEF TInv
    <2> QED BY <2>1, TimelineAssumption
  <1>4. TInv'
    BY <1>1, <1>2, <1>3 DEF TInv, Idle, IsFrozen
  <1>5. Past' = SubSeq(Past, 1, c) /\ Future' = <<>> /\ Future = <<>>
    BY <1>1, <1>2, <1>4, IdleFacts, NextIdleFacts
  <1>6. Shown' = c /\ Now' = Past[c].state /\ c \in 1 .. Len(Past)
    BY <1>1, <1>2, IdleFacts DEF Shown, Now, IsFrozen
  <1>7. H!Resume(c)
    BY <1>1, <1>5, <1>6 DEF H!Resume, H!Upto
  <1> QED BY <1>4, <1>6, <1>7 DEF H!Next

(* Another frame of a frozen game comes on screen.                         *)
LEMMA LookStep ==
  ASSUME TInv, Idle, NEW c \in 1 .. Len(frames), cursor' = c,
         paused' \in BOOLEAN, mode # "window" => paused',
         UNCHANGED <<mode, live, execs, frames, generation, clock, replaying>>
  PROVE  TInv' /\ H!Next
  <1>1. TInv' /\ Idle' /\ IsFrozen' /\ c # 0
    BY DEF TInv, Idle, IsFrozen
  <1>2. Past' = Past /\ Future' = <<>> /\ Future = <<>>
    BY <1>1, IdleFacts, NextIdleFacts
  <1>3. Shown' = c /\ Now' = Past[c].state /\ c \in 1 .. Len(Past)
    BY <1>1, IdleFacts DEF Shown, Now, Restored
  <1>4. H!Look(c)
    BY <1>2, <1>3 DEF H!Look
  <1> QED BY <1>1, <1>3, <1>4 DEF H!Next

(* A replay starts, over forks and frames that are otherwise as the next   *)
(* state has them: what it has to do is taken off the log.                 *)
LEMMA RerunFacts ==
  ASSUME TInv, Idle, NEW k \in 1 .. Len(frames) - 1,
         IsSeq(frames'), Len(frames') = Len(frames), replaying' = k + 1,
         \A j \in 1 .. Len(frames) : j > k => frames'[j] = frames[j]
  PROVE  /\ ~Idle' /\ DoneTo' = k /\ Len(Past') = k /\ IsSeq(Past')
         /\ \A j \in 1 .. k : Past'[j] = View(frames'[j], execs')
         /\ Future' = H!After(k)
         /\ IsSeq(H!Upto(k)) /\ Len(H!Upto(k)) = k
         /\ \A j \in 1 .. k : H!Upto(k)[j] = View(frames[j], execs)
  <1>1. /\ Len(frames) \in Nat /\ k \in Nat /\ k \in 0 .. Len(frames)
        /\ IsSeq(frames) /\ IsSeq(Past) /\ Len(Past) = Len(frames)
        /\ \A j \in 1 .. Len(frames) : Past[j] = View(frames[j], execs)
    BY IdleFacts DEF TInv, Sound
  <1>2. ~Idle' /\ DoneTo' = k
    BY <1>1 DEF Idle, DoneTo
  <1>3. Past' = Pasts(frames', execs', k) /\ Future' = Futures(frames', k)
    BY <1>2, Mapped
  <1>4. /\ IsSeq(Past') /\ Len(Past') = k
        /\ \A j \in 1 .. k : Past'[j] = View(frames'[j], execs')
    BY <1>1, <1>3, MapFacts
  <1>5. H!After(k) = [j \in 1 .. Len(frames) - k |-> H!Recorded(Past[k + j])]
    BY <1>1 DEF H!After
  <1>6. \A j \in 1 .. Len(frames) - k : H!Recorded(Past[k + j]) = StillToDo(frames'[k + j])
    <2> TAKE j \in 1 .. Len(frames) - k
    <2>1. k + j \in 1 .. Len(frames) /\ k + j > k
      BY <1>1
    <2>2. Past[k + j] = View(frames[k + j], execs) /\ frames'[k + j] = frames[k + j]
      BY <2>1, <1>1
    <2> QED BY <2>2 DEF H!Recorded, StillToDo, View
  <1>7. Future' = H!After(k)
    BY <1>3, <1>5, <1>6 DEF Futures
  <1>8. /\ IsSeq(SubSeq(Past, 1, k)) /\ Len(SubSeq(Past, 1, k)) = k
        /\ \A j \in 1 .. k : SubSeq(Past, 1, k)[j] = Past[j]
    BY <1>1, SubSeqFacts
  <1>9. \A j \in 1 .. k : SubSeq(Past, 1, k)[j] = View(frames[j], execs)
    BY <1>1, <1>8
  <1> QED BY <1>2, <1>4, <1>7, <1>8, <1>9 DEF H!Upto

(* A replay of what is recorded.                                           *)
LEMMA RerunStep ==
  ASSUME TInv, Idle, NEW k \in 1 .. Len(frames) - 1, replaying' = k + 1,
         live' = execs[frames[k].snapshot],
         clock' \in 0 .. MaxFrame, generation' \in {generation, generation + 1},
         generation' \in 0 .. MaxGeneration,
         UNCHANGED <<mode, paused, execs, frames, cursor>>
  PROVE  TInv' /\ H!Rerun(k)
  <1>1. Len(frames) \in Nat /\ k \in Nat /\ k + 1 - 1 = k
    BY IdleFacts
  <1>2. /\ ~Idle' /\ Len(Past') = k /\ IsSeq(Past') /\ Future' = H!After(k)
        /\ \A j \in 1 .. k : Past'[j] = View(frames[j], execs)
        /\ IsSeq(H!Upto(k)) /\ Len(H!Upto(k)) = k
        /\ \A j \in 1 .. k : H!Upto(k)[j] = View(frames[j], execs)
    BY RerunFacts DEF TInv, Sound
  <1>3. Past' = H!Upto(k)
    BY <1>2, SeqSame
  <1>4. Shown' = Shown /\ Now' = Past[k].state
    BY <1>1, <1>2, IdleFacts DEF Shown, Now, IsFrozen
  <1>5. Sound(frames, execs, generation')
    <2>1. \A f : IsFrame(f, generation) => IsFrame(f, generation + 1)
      <3>1. generation \in Nat
        BY DEF TInv
      <3>2. \A x \in 0 .. generation : x \in 0 .. generation + 1
        BY <3>1
      <3> QED BY <3>2 DEF IsFrame
    <2> QED BY <2>1 DEF TInv, Sound
  <1>6. TInv'
    BY <1>1, <1>2, <1>5 DEF TInv, Idle, IsFrozen
  <1> QED BY <1>2, <1>3, <1>4, <1>6, IdleFacts DEF H!Rerun

(* A reload or a write that replays nothing leaves the log as it is.       *)
LEMMA SameLog ==
  ASSUME TInv, Idle, TInv', Idle', UNCHANGED <<live, execs, frames, cursor>>
  PROVE  UNCHANGED <<Past, Future, Shown, Now>>
  <1>1. Past' = Past /\ Future' = Future
    BY IdleFacts, NextIdleFacts
  <1> QED BY <1>1 DEF Shown, Now, IsFrozen, Restored, Idle

(* A reload is an edit, with a rerun when the game is frozen.              *)
LEMMA ReloadStep ==
  ASSUME TInv, Reload
  PROVE  TInv' /\ H!Next
  <1>1. /\ Idle /\ generation' = generation + 1 /\ generation' \in 0 .. MaxGeneration
        /\ UNCHANGED <<mode, paused, execs, frames, cursor, clock>>
    BY TimelineAssumption DEF Reload, TInv
  <1> DEFINE first == IF cursor < 2 THEN 2 ELSE cursor
             k     == first - 1
  <1>2. CASE IsFrozen /\ first <= Len(frames)
    <2>1. k \in 1 .. Len(frames) - 1 /\ k + 1 = first
      BY <1>1, <1>2, IdleFacts DEF TInv
    <2>2. replaying' = k + 1 /\ live' = execs[frames[k].snapshot]
      BY <1>2, <2>1 DEF Reload, StartReplay
    <2> HIDE DEF k
    <2>3. TInv' /\ H!Rerun(k) /\ k \in 1 .. Len(Past) - 1
      BY <1>1, <2>1, <2>2, RerunStep, IdleFacts DEF TInv
    <2> QED BY <1>1, <2>3 DEF H!Next, H!Edit
  <1>3. CASE ~(IsFrozen /\ first <= Len(frames))
    <2>1. UNCHANGED <<replaying, live>>
      BY <1>3 DEF Reload, StartReplay
    <2>2. Sound(frames, execs, generation')
      <3>1. \A f : IsFrame(f, generation) => IsFrame(f, generation + 1)
        <4>1. \A x \in 0 .. generation : x \in 0 .. generation + 1
          BY DEF TInv
        <4> QED BY <4>1 DEF IsFrame
      <3> QED BY <3>1, <1>1 DEF TInv, Sound
    <2>3. TInv' /\ Idle'
      BY <1>1, <2>1, <2>2 DEF TInv, Idle, IsFrozen
    <2>4. UNCHANGED <<Past, Future, Shown, Now>> /\ Future = <<>>
      BY <1>1, <2>1, <2>3, SameLog, IdleFacts
    <2> QED BY <1>1, <2>3, <2>4 DEF H!Next, H!Edit
  <1> QED BY <1>2, <1>3

(* A replay starts a rerun, or changes nothing.                            *)
LEMMA ReplayStep ==
  ASSUME TInv, Replay
  PROVE  TInv' /\ [H!Next]_(H!vars)
  <1>1. /\ Idle /\ UNCHANGED <<mode, paused, execs, frames, cursor, generation>>
        /\ clock' \in 0 .. MaxFrame /\ Len(frames) \in Nat
    <2>1. Len(frames) = 1 => frames[1].frame \in 0 .. MaxFrame
      BY TimelineAssumption DEF TInv, Sound, IsFrame
    <2> QED BY <2>1, IdleFacts DEF Replay, TInv
  <1> DEFINE first == IF cursor < 2 THEN 2 ELSE cursor
             k     == first - 1
  <1>2. CASE first <= Len(frames)
    <2>1. k \in 1 .. Len(frames) - 1 /\ k + 1 = first
      BY <1>1, <1>2 DEF TInv
    <2>2. replaying' = k + 1 /\ live' = execs[frames[k].snapshot]
      BY <1>2, <2>1 DEF Replay, StartReplay
    <2> HIDE DEF k
    <2>3. TInv' /\ H!Rerun(k) /\ k \in 1 .. Len(Past) - 1
      BY <1>1, <2>1, <2>2, RerunStep, IdleFacts DEF TInv
    <2> QED BY <1>1, <2>3 DEF H!Next
  <1>3. CASE ~(first <= Len(frames))
    <2>1. UNCHANGED <<replaying, live>>
      BY <1>3 DEF Replay, StartReplay
    <2>2. TInv' /\ Idle'
      <3>1. ~IsFrozen /\ Len(frames) # 0 => clock' = frames[Len(frames)].frame
        BY <1>1, <1>3 DEF Replay, TInv, IsFrozen
      <3> QED BY <1>1, <2>1, <3>1 DEF TInv, Idle, IsFrozen
    <2>3. UNCHANGED <<Past, Future, Shown, Now>>
      BY <1>1, <2>1, <2>2, SameLog
    <2> QED BY <1>1, <2>2, <2>3 DEF H!vars
  <1> QED BY <1>2, <1>3

(* The log is dropped.                                                     *)
LEMMA SwitchStep ==
  ASSUME TInv, Idle, NEW loads \in BOOLEAN, NEW e, NEW c \in 0 .. MaxFrame,
         PerformSwitch(loads, e, c)
  PROVE  TInv' /\ H!Next
  <1>1. /\ Len(frames') = 0 /\ IsSeq(frames') /\ cursor' = 0 /\ clock' \in 0 .. MaxFrame
        /\ UNCHANGED <<mode, paused, generation, replaying>>
    BY EmptyFacts, TimelineAssumption DEF PerformSwitch
  <1>2. DOMAIN execs' = {} /\ Snapshots(frames') = {}
    <2>1. DOMAIN execs = Snapshots(frames)
      BY DEF TInv, Sound
    <2>2. DOMAIN execs' = {}
      BY <2>1 DEF PerformSwitch, DropForks
    <2> QED BY <1>1, <2>2 DEF Snapshots
  <1>3. Sound(frames', execs', generation)
    BY <1>1, <1>2 DEF Sound, Distinct
  <1>4. TInv' /\ Idle'
    BY <1>1, <1>3, CapFacts DEF TInv, Idle, IsFrozen
  <1>5. Past' = <<>> /\ Future' = <<>> /\ Future = <<>> /\ Shown' = 0
    BY <1>1, <1>4, IdleFacts, NextIdleFacts, EmptyFacts DEF Shown, IsFrozen
  <1> QED BY <1>1, <1>4, <1>5 DEF H!Next, H!Forget

(* A frame that was run again keeps its input, number and writes.          *)
LEMMA ReplacedFrame ==
  ASSUME NEW k, NEW e, NEW g, NEW h, NEW f, NEW t, IsFrame(f, g),
         t = [f EXCEPT !.snapshot = k, !.drawn = e, !.generation = h]
  PROVE  t = [frame |-> f.frame, input |-> f.input, snapshot |-> k, drawn |-> e,
              generation |-> h, writes |-> f.writes]
  <1> DEFINE c == f.frame
             i == f.input
             s == f.snapshot
             d == f.drawn
             x == f.generation
             w == f.writes
             f1 == [f EXCEPT !.snapshot = k]
             f2 == [f1 EXCEPT !.drawn = e]
  <1>1. f = [frame |-> c, input |-> i, snapshot |-> s, drawn |-> d,
             generation |-> x, writes |-> w]
    BY DEF IsFrame
  <1> HIDE DEF c, i, s, d, x, w
  <1>2. f1 = [frame |-> c, input |-> i, snapshot |-> k, drawn |-> d,
              generation |-> x, writes |-> w]
    BY <1>1
  <1> HIDE DEF f1
  <1>3. f2 = [frame |-> c, input |-> i, snapshot |-> k, drawn |-> e,
              generation |-> x, writes |-> w]
    BY <1>2
  <1> HIDE DEF f2
  <1>4. [f2 EXCEPT !.generation = h]
          = [frame |-> c, input |-> i, snapshot |-> k, drawn |-> e,
             generation |-> h, writes |-> w]
    BY <1>3
  <1> QED BY <1>4 DEF f1, f2, c, i, w

(* What an iteration of the replay does to the ring.                       *)
LEMMA ReplayedRing ==
  ASSUME RingInv, ReplayFrame
  PROVE  LET j == replaying IN
         /\ j \in 2 .. Len(frames) /\ Len(frames) \in Nat /\ j - 1 \in 1 .. Len(frames)
         /\ IsSeq(frames') /\ Len(frames') = Len(frames)
         /\ \A i \in 1 .. Len(frames) : i # j =>
              /\ frames'[i] = frames[i]
              /\ frames[i].snapshot \in DOMAIN execs'
              /\ execs'[frames[i].snapshot] = execs[frames[i].snapshot]
         /\ frames'[j].input = frames[j].input /\ frames'[j].frame = frames[j].frame
         /\ frames'[j].writes = frames[j].writes /\ frames'[j].generation = generation
         /\ frames'[j].drawn = RunFrame(live, frames[j].input, frames[j].frame).ran
         /\ execs'[frames'[j].snapshot] = live'
         /\ Sound(frames', execs', generation)
  <1> DEFINE j   == replaying
             rec == frames[j]
             ran == RunFrame(live, rec.input, rec.frame)
             n   == Len(frames)
  <1>1. n \in Nat /\ IsSeq(frames) /\ j \in 2 .. n /\ j \in 1 .. n /\ j - 1 \in 1 .. n
    BY DEF ReplayFrame, RingInv, Sound, IsSeq, Idle
  <1>2. PICK k \in Free :
           /\ execs' = DropForks(ForkExecution(execs, k, live'), <<rec>>)
           /\ frames' = [frames EXCEPT ![j].snapshot = k, ![j].drawn = ran.ran,
                                       ![j].generation = generation]
    BY DEF ReplayFrame
  <1> DEFINE new == [rec EXCEPT !.snapshot = k, !.drawn = ran.ran, !.generation = generation]
  <1>3. IsFrame(rec, generation)
    BY <1>1 DEF RingInv, Sound
  <1>4. new = [frame |-> rec.frame, input |-> rec.input, snapshot |-> k,
               drawn |-> ran.ran, generation |-> generation, writes |-> rec.writes]
    <2> DEFINE e == ran.ran
    <2>1. new = [rec EXCEPT !.snapshot = k, !.drawn = e, !.generation = generation]
      OBVIOUS
    <2> HIDE DEF new, rec, e
    <2>2. new = [frame |-> rec.frame, input |-> rec.input, snapshot |-> k,
                 drawn |-> e, generation |-> generation, writes |-> rec.writes]
      BY <1>3, <2>1, ReplacedFrame
    <2> QED BY <2>2 DEF e
  <1>5. k \in Forks /\ k \notin DOMAIN execs /\ generation \in 0 .. generation
    BY DEF Free, RingInv
  <1>6. frames' = [frames EXCEPT ![j] = new]
    BY <1>1, <1>2 DEF IsSeq
  <1> HIDE DEF ran
  <1>7. IsFrame(new, generation) /\ new.snapshot = k
    BY <1>3, <1>4, <1>5 DEF IsFrame
  <1>8. new.input = rec.input /\ new.frame = rec.frame /\ new.writes = rec.writes
        /\ new.generation = generation /\ new.drawn = ran.ran
    BY <1>4
  <1> HIDE DEF new
  <1>9. /\ IsSeq(frames') /\ Len(frames') = n /\ frames'[j] = new
        /\ \A i \in 1 .. n : i # j => frames'[i] = frames[i]
    <2>1. frames' = [i \in 1 .. n |-> IF i = j THEN new ELSE frames[i]]
      BY <1>1, <1>6 DEF IsSeq
    <2>2. frames' = [i \in 1 .. n |-> frames'[i]]
      BY <2>1
    <2>3. Len(frames') = n /\ IsSeq(frames')
      <3> HIDE DEF n
      <3> QED BY <2>2, <1>1, MadeSeq
    <2> QED BY <2>1, <2>3, <1>1
  <1>10. Snapshots(<<rec>>) = {rec.snapshot}
    BY DEF Snapshots
  <1>11. /\ DOMAIN execs' = (DOMAIN execs \cup {k}) \ {rec.snapshot}
         /\ \A x \in DOMAIN execs' : execs'[x] = IF x = k THEN live' ELSE execs[x]
    BY <1>2, <1>10 DEF DropForks, ForkExecution
  <1>12. \A i \in 1 .. n : i # j =>
           frames[i].snapshot \in DOMAIN execs /\ frames[i].snapshot # rec.snapshot
    BY <1>1 DEF RingInv, Sound, Distinct, Snapshots
  <1>13. \A i \in 1 .. n : i # j =>
              /\ frames'[i] = frames[i]
              /\ frames[i].snapshot \in DOMAIN execs'
              /\ frames[i].snapshot # k
              /\ execs'[frames[i].snapshot] = execs[frames[i].snapshot]
    BY <1>5, <1>9, <1>11, <1>12
  <1>14. rec.snapshot \in DOMAIN execs
    BY <1>1 DEF RingInv, Sound, Snapshots
  <1>15. k \in DOMAIN execs' /\ execs'[k] = live'
    BY <1>5, <1>11, <1>14
  <1>16. Sound(frames', execs', generation)
    <2>1. \A i \in 1 .. n : IsFrame(frames'[i], generation)
      BY <1>7, <1>9, <1>13 DEF RingInv, Sound
    <2>2. Distinct(frames')
      <3> SUFFICES ASSUME NEW x \in 1 .. n, NEW y \in 1 .. n,
                          frames'[x].snapshot = frames'[y].snapshot
                   PROVE  x = y
        BY <1>9 DEF Distinct
      <3>1. CASE x = j \/ y = j
        BY <3>1, <1>7, <1>9, <1>13
      <3>2. CASE x # j /\ y # j
        BY <3>2, <1>13 DEF RingInv, Sound, Distinct
      <3> QED BY <3>1, <3>2
    <2>3. DOMAIN execs' = Snapshots(frames')
      <3>1. ASSUME NEW x \in DOMAIN execs' PROVE x \in Snapshots(frames')
        <4>1. CASE x = k
          BY <4>1, <1>1, <1>7, <1>9 DEF Snapshots
        <4>2. CASE x # k
          <5>1. PICK i \in 1 .. n : x = frames[i].snapshot
            BY <4>2, <3>1, <1>11 DEF RingInv, Sound, Snapshots
          <5>2. i # j
            BY <5>1, <3>1, <4>2, <1>5, <1>11, <1>14
          <5> QED BY <5>1, <5>2, <1>9, <1>13 DEF Snapshots
        <4> QED BY <4>1, <4>2
      <3>2. ASSUME NEW x \in Snapshots(frames') PROVE x \in DOMAIN execs'
        <4>1. PICK i \in 1 .. n : x = frames'[i].snapshot
          BY <3>2, <1>9 DEF Snapshots
        <4> QED BY <4>1, <1>7, <1>9, <1>13, <1>15
      <3> QED BY <3>1, <3>2
    <2> QED BY <2>1, <2>2, <2>3, <1>9 DEF Sound
  <1> QED BY <1>1, <1>7, <1>8, <1>9, <1>13, <1>15, <1>16 DEF ran

(* An iteration of the replay reruns a frame.                              *)
LEMMA ReplayFrameStep ==
  ASSUME TInv, ReplayFrame
  PROVE  TInv' /\ H!Next
  <1> DEFINE j == replaying
             n == Len(frames)
             r == Run(generation, live, frames[j].input, frames[j].frame)
             f == StillToDo(frames[j])
             d == H!Done(live, f)
  <1>1. /\ j \in 2 .. n /\ n \in Nat /\ j - 1 \in 1 .. n /\ j \in Nat
        /\ IsSeq(frames) /\ IsSeq(frames') /\ Len(frames') = n
        /\ \A i \in 1 .. n : i # j =>
              /\ frames'[i] = frames[i]
              /\ execs'[frames[i].snapshot] = execs[frames[i].snapshot]
        /\ frames'[j].input = frames[j].input /\ frames'[j].frame = frames[j].frame
        /\ frames'[j].writes = frames[j].writes /\ frames'[j].generation = generation
        /\ frames'[j].drawn = RunFrame(live, frames[j].input, frames[j].frame).ran
        /\ execs'[frames'[j].snapshot] = live'
        /\ Sound(frames', execs', generation)
    <2>1. RingInv
      BY RingOfTInv
    <2> QED BY <2>1, ReplayedRing DEF RingInv, Sound
  <1>2. /\ ~Idle /\ live' = Apply(Ran(r), frames[j].writes)
        /\ replaying' = IF j = n THEN 0 ELSE j + 1
        /\ clock' = IF j = n /\ ~IsFrozen THEN frames[j].frame ELSE clock
        /\ UNCHANGED <<mode, paused, cursor, generation>>
    BY DEF ReplayFrame, RunFrame
  <1>3. d = [input |-> frames[j].input, frame |-> frames[j].frame,
             writes |-> frames[j].writes, program |-> generation, drawn |-> r,
             state |-> live']
    BY <1>2 DEF H!Done, H!Apply, H!Ran, H!Untouched, Apply, Ran, Untouched, StillToDo
  <1>4. View(frames'[j], execs') = d
    BY <1>1, <1>3 DEF View, RunFrame, Ran
  <1> HIDE DEF d
  <1>5. /\ DoneTo = j - 1 /\ DoneTo' = j /\ Now = live
        /\ Shown' = Shown /\ Shown \in 1 .. n
    BY <1>1, <1>2 DEF DoneTo, Idle, Now, Shown, IsFrozen, TInv
  <1>6. /\ IsSeq(Past) /\ Len(Past) = j - 1
        /\ \A i \in 1 .. j - 1 : Past[i] = View(frames[i], execs)
        /\ IsSeq(Future) /\ Len(Future) = n - (j - 1)
        /\ \A i \in 1 .. n - (j - 1) : Future[i] = StillToDo(frames[j - 1 + i])
    <2>1. j - 1 \in 0 .. Len(frames)
      BY <1>1
    <2> DEFINE ps == Pasts(frames, execs, j - 1)
               us == Futures(frames, j - 1)
    <2>2. /\ IsSeq(ps) /\ Len(ps) = j - 1
          /\ \A i \in 1 .. j - 1 : ps[i] = View(frames[i], execs)
          /\ IsSeq(us) /\ Len(us) = n - (j - 1)
          /\ \A i \in 1 .. n - (j - 1) : us[i] = StillToDo(frames[j - 1 + i])
      BY <2>1, <1>1, MapFacts
    <2>3. Past = ps /\ Future = us
      BY <1>5, Mapped
    <2> HIDE DEF ps, us
    <2> QED BY <2>2, <2>3
  <1>7. /\ IsSeq(Past') /\ Len(Past') = j
        /\ \A i \in 1 .. j : Past'[i] = View(frames'[i], execs')
        /\ IsSeq(Future') /\ Len(Future') = n - j
        /\ \A i \in 1 .. n - j : Future'[i] = StillToDo(frames'[j + i])
    <2>1. j \in 0 .. Len(frames')
      BY <1>1
    <2> DEFINE ps == Pasts(frames', execs', j)
               us == Futures(frames', j)
    <2>2. /\ IsSeq(ps) /\ Len(ps) = j
          /\ \A i \in 1 .. j : ps[i] = View(frames'[i], execs')
          /\ IsSeq(us) /\ Len(us) = n - j
          /\ \A i \in 1 .. n - j : us[i] = StillToDo(frames'[j + i])
      <3> HIDE DEF j, n
      <3>1. Len(frames') = n /\ IsSeq(frames') /\ j \in 0 .. Len(frames')
        BY <2>1, <1>1
      <3> QED BY <3>1, MapFacts
    <2>3. Past' = ps /\ Future' = us
      BY <1>5, Mapped
    <2> HIDE DEF ps, us
    <2> QED BY <2>2, <2>3
  <1>8. Past' = Append(Past, d)
    <2>1. /\ IsSeq(Append(Past, d)) /\ Len(Append(Past, d)) = j
          /\ \A i \in 1 .. j - 1 : Append(Past, d)[i] = Past[i]
          /\ Append(Past, d)[j] = d
      <3>1. j - 1 + 1 = j
        BY <1>1
      <3> QED BY <3>1, <1>6, AppendFacts
    <2>2. ASSUME NEW i \in 1 .. j PROVE Past'[i] = Append(Past, d)[i]
      <3>1. CASE i = j
        BY <3>1, <2>1, <1>4, <1>7
      <3>2. CASE i # j
        <4>1. i \in 1 .. j - 1 /\ i \in 1 .. n
          BY <3>2, <1>1
        <4>2. Past'[i] = View(frames[i], execs)
          BY <4>1, <3>2, <1>1, <1>7 DEF View
        <4> QED BY <4>1, <4>2, <2>1, <1>6
      <3> QED BY <3>1, <3>2
    <2> QED BY <2>1, <2>2, <1>7, SeqSame
  <1>9. Future # <<>> /\ Head(Future) = f /\ Future' = Tail(Future)
    <2>1. Len(Future) # 0 /\ Len(Future) - 1 = n - j
      BY <1>1, <1>6
    <2>2. /\ Head(Future) = Future[1]
          /\ IsSeq(Tail(Future)) /\ Len(Tail(Future)) = n - j
          /\ \A i \in 1 .. n - j : Tail(Future)[i] = Future[i + 1]
      BY <2>1, <1>6, TailFacts
    <2>3. Future[1] = f
      <3>1. 1 \in 1 .. n - (j - 1) /\ j - 1 + 1 = j
        BY <1>1
      <3> QED BY <3>1, <1>6
    <2>4. ASSUME NEW i \in 1 .. n - j PROVE Future'[i] = Tail(Future)[i]
      <3>1. /\ i + 1 \in 1 .. n - (j - 1) /\ j - 1 + (i + 1) = j + i
            /\ j + i \in 1 .. n /\ j + i # j
        BY <1>1
      <3>2. frames'[j + i] = frames[j + i]
        BY <3>1, <1>1
      <3>3. Future'[i] = StillToDo(frames[j + i])
        BY <3>2, <1>7
      <3>4. Tail(Future)[i] = StillToDo(frames[j + i])
        BY <3>1, <2>2, <1>6
      <3> QED BY <3>3, <3>4
    <2> QED BY <2>1, <2>2, <2>3, <2>4, <1>6, <1>7, SeqSame, EmptyFacts
  <1>10. Now' = IF Len(Future) = 1 THEN Past'[Shown].state ELSE d.state
    <2>1. CASE j = n
      <3>1. Len(Future) = 1 /\ Idle'
        BY <2>1, <1>1, <1>2, <1>6 DEF Idle
      <3>2. Past'[Shown].state = execs'[frames'[Shown].snapshot]
        <4>1. Past'[Shown] = View(frames'[Shown], execs')
          BY <2>1, <1>5, <1>7
        <4> QED BY <4>1 DEF View
      <3>3. CASE IsFrozen
        BY <3>1, <3>2, <3>3, <1>2 DEF Now, Restored, IsFrozen, Shown
      <3>4. CASE ~IsFrozen
        <4>1. Shown = n /\ Now' = live'
          BY <3>4, <1>2 DEF Shown, IsFrozen, Now
        <4> QED BY <4>1, <3>1, <3>2, <2>1, <1>1
      <3> QED BY <3>3, <3>4
    <2>2. CASE j # n
      <3>1. Len(Future) # 1 /\ ~Idle'
        BY <2>2, <1>1, <1>2, <1>6 DEF Idle
      <3> QED BY <3>1, <1>3 DEF Now, d
    <2> QED BY <2>1, <2>2
  <1>11. H!Rerunning
    BY <1>2, <1>5, <1>8, <1>9, <1>10 DEF H!Rerunning, d
  <1>12. TInv'
    <2>1. clock' \in 0 .. MaxFrame
      BY <1>1, <1>2, SoundFacts, TimelineAssumption DEF TInv
    <2>2. Idle' /\ ~IsFrozen' /\ Len(frames') # 0 =>
            /\ live' = execs'[frames'[Len(frames')].snapshot]
            /\ clock' = frames'[Len(frames')].frame
      BY <1>1, <1>2 DEF Idle, IsFrozen
    <2>3. ~Idle' => live' = execs'[frames'[replaying' - 1].snapshot]
      BY <1>1, <1>2 DEF Idle
    <2>4. replaying' = 0 \/ replaying' \in 2 .. Len(frames')
      BY <1>1, <1>2
    <2> QED BY <2>1, <2>2, <2>3, <2>4, <1>1, <1>2 DEF TInv, IsFrozen
  <1> QED BY <1>11, <1>12 DEF H!Next

(* What a write does to the ring.                                          *)
LEMMA WrittenRing ==
  ASSUME RingInv, NEW n \in Names, NEW v \in Values, NEW i \in 1 .. Len(frames),
         execs' = WrittenForks(i, n, v),
         frames' = [frames EXCEPT ![i].writes[n] = v]
  PROVE  /\ IsSeq(frames') /\ Len(frames') = Len(frames)
         /\ \A j \in 1 .. Len(frames) : j # i =>
              frames'[j] = frames[j] /\ View(frames'[j], execs') = View(frames[j], execs)
         /\ \A j \in 1 .. Len(frames) :
              frames'[j].snapshot = frames[j].snapshot /\ frames'[j].frame = frames[j].frame
         /\ execs'[frames[i].snapshot] = Write(execs[frames[i].snapshot], n, v)
         /\ \A e : H!Rewritten(View(frames[i], execs), n, v, e)
                    = [View(frames'[i], execs') EXCEPT !.state = e]
         /\ Sound(frames', execs', generation)
  <1> DEFINE rec == frames[i]
             w   == [rec.writes EXCEPT ![n] = v]
             new == [rec EXCEPT !.writes[n] = v]
             len == Len(frames)
  <1>1. len \in Nat /\ IsSeq(frames) /\ IsFrame(rec, generation)
    BY DEF RingInv, Sound, IsSeq
  <1>2. frames' = [frames EXCEPT ![i] = new]
    BY <1>1 DEF IsSeq
  <1>3. w \in Writes
    BY <1>1 DEF IsFrame, Writes
  <1>4. new = [frame |-> rec.frame, input |-> rec.input, snapshot |-> rec.snapshot,
               drawn |-> rec.drawn, generation |-> rec.generation, writes |-> w]
    <2> DEFINE c == rec.frame
               p == rec.input
               s == rec.snapshot
               d == rec.drawn
               g == rec.generation
               u == rec.writes
    <2>1. rec = [frame |-> c, input |-> p, snapshot |-> s, drawn |-> d,
                 generation |-> g, writes |-> u]
      BY <1>1 DEF IsFrame
    <2>2. new = [rec EXCEPT !.writes = [u EXCEPT ![n] = v]]
      BY <2>1
    <2> HIDE DEF c, p, s, d, g, u, rec, new
    <2>3. new = [frame |-> c, input |-> p, snapshot |-> s, drawn |-> d,
                 generation |-> g, writes |-> [u EXCEPT ![n] = v]]
      BY <2>1, <2>2
    <2> QED BY <2>3 DEF c, p, s, d, g, u
  <1> HIDE DEF new, w
  <1>5. IsFrame(new, generation) /\ new.snapshot = rec.snapshot /\ new.frame = rec.frame
    BY <1>1, <1>3, <1>4 DEF IsFrame
  <1>6. /\ IsSeq(frames') /\ Len(frames') = len /\ frames'[i] = new
        /\ \A j \in 1 .. len : j # i => frames'[j] = frames[j]
    <2>1. frames' = [j \in 1 .. len |-> IF j = i THEN new ELSE frames[j]]
      BY <1>1, <1>2 DEF IsSeq
    <2>2. frames' = [j \in 1 .. len |-> frames'[j]]
      BY <2>1
    <2>3. Len(frames') = len /\ IsSeq(frames')
      <3> HIDE DEF len
      <3> QED BY <2>2, <1>1, MadeSeq
    <2> QED BY <2>1, <2>3, <1>1
  <1>7. /\ DOMAIN execs' = DOMAIN execs
        /\ \A k \in DOMAIN execs :
             execs'[k] = IF k = rec.snapshot THEN Write(execs[k], n, v) ELSE execs[k]
    BY DEF WrittenForks
  <1>8. \A j \in 1 .. len : frames[j].snapshot \in DOMAIN execs
                             /\ (j # i => frames[j].snapshot # rec.snapshot)
    BY <1>1 DEF RingInv, Sound, Distinct, Snapshots
  <1>9. \A j \in 1 .. len : frames'[j].snapshot = frames[j].snapshot
                             /\ frames'[j].frame = frames[j].frame
    BY <1>5, <1>6
  <1>10. Sound(frames', execs', generation)
    <2>1. \A j \in 1 .. len : IsFrame(frames'[j], generation)
      BY <1>5, <1>6 DEF RingInv, Sound
    <2>2. Snapshots(frames') = Snapshots(frames)
      BY <1>6, <1>9 DEF Snapshots
    <2>3. Distinct(frames')
      BY <1>6, <1>9 DEF RingInv, Sound, Distinct
    <2> QED BY <2>1, <2>2, <2>3, <1>6, <1>7 DEF RingInv, Sound
  <1>11. \A j \in 1 .. len : j # i => View(frames'[j], execs') = View(frames[j], execs)
    BY <1>6, <1>7, <1>8 DEF View
  <1>12. ASSUME NEW e
         PROVE  H!Rewritten(View(rec, execs), n, v, e) = [View(new, execs') EXCEPT !.state = e]
    <2>1. H!Rewritten(View(rec, execs), n, v, e)
            = [input |-> rec.input, frame |-> rec.frame, writes |-> w,
               program |-> rec.generation, drawn |-> rec.drawn, state |-> e]
      BY DEF H!Rewritten, View, w
    <2>2. View(new, execs')
            = [input |-> rec.input, frame |-> rec.frame, writes |-> w,
               program |-> rec.generation, drawn |-> rec.drawn,
               state |-> execs'[rec.snapshot]]
      BY <1>4 DEF View
    <2> QED BY <2>1, <2>2
  <1> QED BY <1>6, <1>7, <1>8, <1>9, <1>10, <1>11, <1>12

(* A write is a write to the frame on screen.                              *)
LEMMA SetStateStep ==
  ASSUME TInv, NEW n \in Names, NEW v \in Values, SetState(n, v)
  PROVE  TInv' /\ H!Next
  <1> DEFINE i   == IF IsFrozen THEN cursor ELSE Len(frames)
             len == Len(frames)
  <1>1. /\ Idle /\ UNCHANGED <<mode, paused, cursor, generation, clock>> /\ i = Shown
        /\ len \in Nat /\ i \in 0 .. len /\ Shown' = IF IsFrozen THEN cursor ELSE Len(frames')
    BY IdleFacts DEF SetState, Shown, TInv, IsFrozen
  <1>2. \A e : H!Write(e, n, v) = Write(e, n, v)
    BY DEF H!Write, Write
  <1>3. CASE i = 0
    <2>1. ~IsFrozen /\ len = 0
      BY <1>3, <1>1 DEF IsFrozen
    <2>2. live' = Write(live, n, v) /\ UNCHANGED <<execs, frames, replaying>>
      BY <1>3 DEF SetState
    <2>3. TInv' /\ Idle'
      BY <1>1, <2>1, <2>2 DEF TInv, Idle, IsFrozen
    <2>4. Past' = Past /\ Future = <<>> /\ Future' = <<>> /\ Shown' = 0 /\ Shown = 0
      BY <1>1, <1>3, <2>1, <2>2, <2>3, IdleFacts, NextIdleFacts
    <2>5. Now = live /\ Now' = live'
      BY <1>1, <2>1 DEF Now, IsFrozen
    <2>6. H!WriteState(n, v)
      BY <1>1, <1>2, <2>2, <2>4, <2>5 DEF H!WriteState
    <2> QED BY <2>3, <2>6 DEF H!Next
  <1>4. CASE i # 0
    <2>1. /\ i \in 1 .. len
          /\ execs' = WrittenForks(i, n, v)
          /\ frames' = [frames EXCEPT ![i].writes[n] = v]
          /\ IF IsFrozen THEN StartReplay(i + 1, execs')
             ELSE live' = Write(live, n, v) /\ UNCHANGED replaying
      BY <1>1, <1>4 DEF SetState
    <2> HIDE DEF i
    <2>2. /\ IsSeq(frames') /\ Len(frames') = len
          /\ \A j \in 1 .. len : j # i =>
               frames'[j] = frames[j] /\ View(frames'[j], execs') = View(frames[j], execs)
          /\ \A j \in 1 .. len :
               frames'[j].snapshot = frames[j].snapshot /\ frames'[j].frame = frames[j].frame
          /\ execs'[frames[i].snapshot] = Write(execs[frames[i].snapshot], n, v)
          /\ \A e : H!Rewritten(View(frames[i], execs), n, v, e)
                     = [View(frames'[i], execs') EXCEPT !.state = e]
          /\ Sound(frames', execs', generation)
      BY <2>1, WrittenRing, RingOfTInv
    <2> DEFINE state == execs'[frames[i].snapshot]
               log   == Append(H!Upto(i - 1), H!Rewritten(Past[i], n, v, state))
    <2>3. Now = execs[frames[i].snapshot] /\ H!Write(Now, n, v) = state
          /\ (~IsFrozen => live = Now /\ i = len)
      <3>1. CASE IsFrozen
        BY <3>1, <1>1, <1>2, <2>2 DEF Now, Restored, i
      <3>2. CASE ~IsFrozen
        <4>1. i = len /\ len # 0
          BY <3>2, <1>1, <2>1 DEF i
        <4> QED BY <3>2, <4>1, <1>1, <1>2, <2>2 DEF Now, TInv
      <3> QED BY <3>1, <3>2
    <2>4. H!Rewritten(Past[i], n, v, state) = View(frames'[i], execs')
      <3>1. Past[i] = View(frames[i], execs)
        BY <1>1, <2>1, IdleFacts
      <3>2. View(frames'[i], execs') = [View(frames'[i], execs') EXCEPT !.state = state]
        BY <2>1, <2>2 DEF View
      <3> QED BY <3>1, <3>2, <2>2
    <2>5. /\ IsSeq(log) /\ Len(log) = i /\ i \in Nat
          /\ \A j \in 1 .. i : log[j] = View(frames'[j], execs')
      <3>1. /\ i - 1 \in 0 .. Len(Past) /\ IsSeq(Past) /\ i - 1 + 1 = i /\ i \in Nat
            /\ \A j \in 1 .. i : j = i \/ (j \in 1 .. i - 1 /\ j \in 1 .. len /\ j # i)
            /\ \A j \in 1 .. len : Past[j] = View(frames[j], execs)
        BY <1>1, <2>1, IdleFacts
      <3>2. /\ IsSeq(SubSeq(Past, 1, i - 1)) /\ Len(SubSeq(Past, 1, i - 1)) = i - 1
            /\ \A j \in 1 .. i - 1 : SubSeq(Past, 1, i - 1)[j] = Past[j]
        BY <3>1, SubSeqFacts
      <3>3. H!Upto(i - 1) = SubSeq(Past, 1, i - 1)
        BY DEF H!Upto
      <3> DEFINE x == H!Rewritten(Past[i], n, v, state)
      <3> HIDE DEF x
      <3>4. /\ IsSeq(log) /\ Len(log) = i /\ log[i] = x
            /\ \A j \in 1 .. i - 1 : log[j] = Past[j]
        <4>1. log = Append(SubSeq(Past, 1, i - 1), x)
          BY <3>3 DEF x
        <4> HIDE DEF log
        <4> QED BY <4>1, <3>1, <3>2, AppendFacts
      <3> HIDE DEF log
      <3>5. ASSUME NEW j \in 1 .. i PROVE log[j] = View(frames'[j], execs')
        <4>1. CASE j = i
          BY <4>1, <3>4, <2>4 DEF x
        <4>2. CASE j # i
          BY <4>2, <3>1, <3>4, <2>2
        <4> QED BY <4>1, <4>2
      <3> QED BY <3>1, <3>4, <3>5
    <2> HIDE DEF log, state
    <2>6. CASE IsFrozen /\ i + 1 <= len
      <3>1. replaying' = i + 1 /\ live' = state /\ i \in 1 .. Len(frames) - 1
        BY <2>6, <2>1, <1>1, <2>5 DEF StartReplay, state
      <3>2. /\ ~Idle' /\ Len(Past') = i /\ IsSeq(Past') /\ Future' = H!After(i)
            /\ \A j \in 1 .. i : Past'[j] = View(frames'[j], execs')
        <4>1. \A j \in 1 .. Len(frames) : j > i => frames'[j] = frames[j]
          BY <2>2, <2>5
        <4> QED BY <4>1, <3>1, <1>1, <2>2, RerunFacts
      <3>3. Past' = log
        BY <3>2, <2>5, SeqSame
      <3>4. TInv'
        <4>1. replaying' \in 2 .. Len(frames') /\ replaying' - 1 = i
          BY <3>1, <1>1, <2>2, <2>5
        <4>2. live' = execs'[frames'[replaying' - 1].snapshot]
          BY <4>1, <3>1, <2>1, <2>2 DEF state
        <4> QED BY <4>1, <4>2, <3>2, <1>1, <2>2 DEF TInv, IsFrozen
      <3>5. Now' = state /\ Shown' = Shown /\ Future = <<>>
        BY <3>1, <3>2, <2>6, <1>1, IdleFacts DEF Now, i
      <3>6. H!WriteState(n, v)
        BY <1>1, <1>4, <2>3, <3>2, <3>3, <3>5 DEF H!WriteState, log
      <3> QED BY <3>4, <3>6 DEF H!Next
    <2>7. CASE ~(IsFrozen /\ i + 1 <= len)
      <3>1. /\ i = len /\ UNCHANGED replaying
            /\ IF IsFrozen THEN UNCHANGED live ELSE live' = Write(live, n, v)
        BY <2>7, <2>1, <2>3, <1>1 DEF StartReplay
      <3>2. ~IsFrozen => live' = state
        BY <3>1, <2>3, <2>2 DEF state
      <3>3. TInv' /\ Idle'
        BY <3>1, <3>2, <1>1, <2>1, <2>2 DEF TInv, Idle, IsFrozen, state
      <3>4. /\ IsSeq(Past') /\ Len(Past') = i /\ Future' = <<>> /\ Future = <<>>
            /\ \A j \in 1 .. i : Past'[j] = View(frames'[j], execs')
        BY <3>1, <3>3, <1>1, <2>2, IdleFacts, NextIdleFacts
      <3>5. Past' = log
        BY <3>4, <2>5, SeqSame
      <3>6. H!After(i) = <<>>
        <4>1. Len(Past) - i = 0 /\ 0 \in Nat
          BY <3>1, <1>1, IdleFacts
        <4>2. H!After(i) = [j \in 1 .. 0 |-> H!After(i)[j]]
          BY <4>1 DEF H!After
        <4> QED BY <4>1, <4>2, MadeSeq, EmptyFacts
      <3>7. Now' = state /\ Shown' = Shown
        <4>1. Shown' = Shown
          BY <3>1, <1>1, <2>2 DEF i
        <4>2. CASE IsFrozen
          BY <4>2, <3>3, <1>1, <2>1, <2>2 DEF Now, IsFrozen, Restored, state, i
        <4>3. CASE ~IsFrozen
          BY <4>1, <4>3, <3>2, <1>1 DEF Now, IsFrozen
        <4> QED BY <4>1, <4>2, <4>3
      <3>8. H!WriteState(n, v)
        BY <1>1, <1>4, <2>3, <3>4, <3>5, <3>6, <3>7 DEF H!WriteState, log
      <3> QED BY <3>3, <3>8 DEF H!Next
    <2> QED BY <2>6, <2>7
  <1> QED BY <1>3, <1>4

(* Every step keeps the invariant and is a step of the history.            *)
LEMMA NextStep ==
  ASSUME TInv, [Next]_vars, ~StepFails, ~ResumeFrozen
  PROVE  TInv' /\ [H!Next]_(H!vars)
  <1>1. ASSUME NEW i \in Inputs, LiveFrame(i) PROVE TInv' /\ H!Next
    BY <1>1, LiveFrameStep
  <1>2. ASSUME NEW i \in Inputs, NEW fails \in BOOLEAN, Step(i, fails) PROVE TInv' /\ H!Next
    <2>1. fails = FALSE
      BY <1>2 DEF Step
    <2> QED BY <1>2, <2>1, StepStep
  <1>3. ASSUME NEW i \in Inputs, NEW loads \in BOOLEAN, LaunchFrame(i, loads)
        PROVE  TInv' /\ H!Next
    <2>1. clock + 1 \in 0 .. MaxFrame
      BY <1>3, TimelineAssumption DEF LaunchFrame, TInv
    <2>2. Idle /\ PerformSwitch(loads, RunFrame(live, i, clock + 1), clock + 1)
      BY <1>3 DEF LaunchFrame
    <2> QED BY <2>1, <2>2, SwitchStep
  <1>4. ASSUME NEW loads \in BOOLEAN, Escape(loads) PROVE TInv' /\ H!Next
    <2>1. Idle /\ PerformSwitch(loads, live, clock) /\ clock \in 0 .. MaxFrame
      BY <1>4 DEF Escape, TInv
    <2> QED BY <2>1, SwitchStep
  <1>5. CASE Freeze
    <2>1. Idle /\ UNCHANGED <<mode, live, execs, frames, generation, clock, replaying>>
      BY <1>5 DEF Freeze
    <2>2. cursor' = Len(frames) /\ paused' \in BOOLEAN /\ (mode # "window" => paused')
      BY <1>5 DEF Freeze, TInv
    <2>3. CASE Len(frames) # 0
      <3>1. Len(frames) \in 1 .. Len(frames)
        BY <2>1, <2>3, IdleFacts
      <3> QED BY <3>1, <2>1, <2>2, LookStep
    <2>4. CASE Len(frames) = 0
      <3>1. UNCHANGED cursor
        BY <2>2, <2>4, <1>5 DEF Freeze, IsFrozen
      <3>2. TInv' /\ Idle'
        BY <2>1, <2>2, <3>1 DEF TInv, Idle, IsFrozen
      <3>3. UNCHANGED <<Past, Future, Shown, Now>>
        BY <2>1, <3>1, <3>2, SameLog
      <3> QED BY <2>1, <3>2, <3>3 DEF H!vars
    <2> QED BY <2>3, <2>4
  <1>6. CASE Unfreeze
    <2>1. Idle /\ cursor \in 1 .. Len(frames) /\ ResumeAt(cursor)
          /\ UNCHANGED <<mode, paused, generation, replaying>>
      BY <1>6 DEF Unfreeze, TInv, IsFrozen
    <2> QED BY <2>1, ResumeStep
  <1>7. CASE Pause \/ Resume
    <2>1. Idle /\ UNCHANGED <<mode, live, execs, frames, cursor, generation, clock, replaying>>
      BY <1>7 DEF Pause, Resume
    <2>2. TInv' /\ Idle'
      BY <2>1, <1>7 DEF TInv, Idle, IsFrozen, Pause, Resume
    <2>3. UNCHANGED <<Past, Future, Shown, Now>>
      BY <2>1, <2>2, SameLog
    <2> QED BY <2>1, <2>2, <2>3 DEF H!vars
  <1>8. ASSUME NEW k \in 1 .. Len(frames), Scrub(k) PROVE TInv' /\ H!Next
    <2>1. /\ Idle /\ UNCHANGED <<mode, live, execs, frames, generation, clock, replaying>>
          /\ cursor' = k /\ paused' \in BOOLEAN /\ (mode # "window" => paused')
      BY <1>8 DEF Scrub, TInv
    <2> QED BY <2>1, LookStep
  <1>9. ASSUME NEW k \in 1 .. Len(frames), Rewind(k) PROVE TInv' /\ H!Next
    <2>1. Idle /\ ResumeAt(k) /\ UNCHANGED <<mode, paused, generation, replaying>>
      BY <1>9 DEF Rewind
    <2> QED BY <2>1, ResumeStep
  <1>10. CASE Replay
    BY <1>10, ReplayStep
  <1>11. CASE ReplayFrame
    BY <1>11, ReplayFrameStep
  <1>12. CASE Reload
    BY <1>12, ReloadStep
  <1>13. ASSUME NEW n \in Names, NEW v \in Values, SetState(n, v) PROVE TInv' /\ H!Next
    BY <1>13, SetStateStep
  <1>14. CASE UNCHANGED vars
    <2>1. TInv'
      BY <1>14 DEF vars, TInv, Idle, IsFrozen
    <2>2. UNCHANGED <<Past, Future, Shown, Now, generation>>
      BY <1>14 DEF vars, Past, Future, FrameOf, DoneTo, Idle, Shown, IsFrozen, Now, Restored
    <2> QED BY <2>1, <2>2 DEF H!vars
  <1> QED
    BY <1>1, <1>2, <1>3, <1>4, <1>5, <1>6, <1>7, <1>8, <1>9, <1>10, <1>11, <1>12,
       <1>13, <1>14 DEF Next

(* The timeline starts as the history does.                                *)
LEMMA InitStep == Init => H!Init
  <1> SUFFICES ASSUME Init PROVE H!Init
    OBVIOUS
  <1>1. TInv /\ Idle /\ Len(frames) = 0 /\ ~IsFrozen
    BY InitInv, EmptyFacts DEF Init, Idle, IsFrozen
  <1>2. Past = <<>> /\ Future = <<>> /\ Shown = 0 /\ Now = live
    BY <1>1, IdleFacts, EmptyFacts DEF Shown, Now
  <1> QED BY <1>2 DEF Init, H!Init, H!Ran, Ran, H!Untouched, Untouched

(* The timeline implements the history: the frames on screen, their states *)
(* and the execution the game goes on from are those of the log, whatever  *)
(* order the keys and an agent's commands come in (timeline.rs, `record`,  *)
(* `unfreeze`, `rewind`, `replay`, `set_state`), if an agent unfreezes a   *)
(* game before it resumes it and no stepped frame fails.                   *)
THEOREM TimelineImplementsHistory ==
  ASSUME ~StepFails, ~ResumeFrozen
  PROVE  Spec => ImplementsHistory
  <1>1. Init => TInv
    BY InitInv
  <1>2. TInv /\ [Next]_vars => TInv' /\ [H!Next]_(H!vars)
    BY NextStep
  <1>3. Init => H!Init
    BY InitStep
  <1> QED BY <1>1, <1>2, <1>3, PTL DEF Spec, ImplementsHistory, H!Spec

-----------------------------------------------------------------------------
(* The ring under every step, with failing frames and resumed frozen games.*)

(* A cut ring is sound, and its last frame numbered.                       *)
LEMMA RingCut ==
  ASSUME RingInv, NEW c \in 1 .. Len(frames)
  PROVE  LET fs == TruncateAfter(c).frames
             ex == TruncateAfter(c).execs
         IN  /\ Sound(fs, ex, generation) /\ Len(fs) \in Nat /\ Len(fs) <= Cap
             /\ frames[c].frame \in 1 .. MaxFrame
  <1> DEFINE fs == TruncateAfter(c).frames
             ex == TruncateAfter(c).execs
  <1>1. Sound(frames, execs, generation) /\ Len(frames) <= Cap
    BY DEF RingInv
  <1>2. Len(frames) \in Nat /\ frames[c].frame \in 1 .. MaxFrame
    BY <1>1, SoundFacts
  <1>3. Sound(fs, ex, generation) /\ Len(fs) = c
    BY <1>1, TruncateKeepsSound
  <1> HIDE DEF fs, ex
  <1>4. c \in Nat /\ c <= Cap
    BY <1>1, <1>2, CapFacts
  <1> QED BY <1>2, <1>3, <1>4 DEF fs, ex

(* A frame that is filed.                                                  *)
LEMMA RingRecord ==
  ASSUME RingInv, Idle, UNCHANGED <<mode, paused, generation, replaying>>,
         NEW i \in Inputs, NEW c \in 1 .. MaxFrame, NEW e, NEW fs, NEW ex,
         NEW cur \in 0 .. Len(fs),
         Sound(fs, ex, generation), Len(fs) <= Cap, clock' = c,
         Record(fs, ex, cur, e, i, c)
  PROVE  RingInv'
  <1>1. generation \in Nat /\ clock' \in 0 .. MaxFrame
    BY TimelineAssumption DEF RingInv
  <1>2. /\ Sound(frames', execs', generation) /\ Len(frames') <= Cap
        /\ cursor' \in 0 .. Len(frames')
    BY <1>1, RecordKeepsSound
  <1> QED BY <1>1, <1>2 DEF RingInv, Idle

(* A stepped frame that fails leaves the ring cut, and files nothing.      *)
LEMMA RingStepped ==
  ASSUME RingInv, NEW i \in Inputs, NEW fails \in BOOLEAN, Step(i, fails)
  PROVE  RingInv'
  <1> DEFINE kept == IF IsFrozen THEN TruncateAfter(cursor)
                     ELSE [frames |-> frames, execs |-> execs]
             fs   == kept.frames
             ex   == kept.execs
             c    == 1 + (IF IsFrozen THEN frames[cursor].frame ELSE clock)
  <1>1. /\ Idle /\ UNCHANGED <<mode, paused, generation, replaying>>
        /\ clock' = c /\ c <= MaxFrame
        /\ IF fails THEN frames' = fs /\ execs' = ex /\ cursor' = 0
                    ELSE Record(fs, ex, 0, live', i, clock')
    BY DEF Step
  <1>2. /\ Sound(fs, ex, generation) /\ Len(fs) \in Nat /\ Len(fs) <= Cap
        /\ c \in Nat /\ c >= 1
    <2>1. CASE IsFrozen
      <3>1. cursor \in 1 .. Len(frames)
        BY <2>1 DEF RingInv, IsFrozen
      <3> QED BY <2>1, <3>1, RingCut
    <2>2. CASE ~IsFrozen
      <3>1. Sound(frames, execs, generation) /\ Len(frames) <= Cap
        BY DEF RingInv
      <3>2. fs = frames /\ ex = execs /\ c = 1 + clock
        BY <2>2
      <3> QED BY <3>1, <3>2, SoundFacts DEF RingInv
    <2> QED BY <2>1, <2>2
  <1> HIDE DEF fs, ex, c
  <1>3. c \in 1 .. MaxFrame /\ c \in 0 .. MaxFrame /\ 0 \in 0 .. Len(fs)
    BY <1>1, <1>2, TimelineAssumption
  <1>4. CASE fails
    <2>1. frames' = fs /\ execs' = ex /\ cursor' = 0
      BY <1>1, <1>4
    <2> QED BY <1>1, <1>2, <1>3, <2>1 DEF RingInv, Idle
  <1>5. CASE ~fails
    <2>1. Record(fs, ex, 0, live', i, c)
      BY <1>1, <1>5
    <2> QED BY <1>1, <1>2, <1>3, <2>1, RingRecord
  <1> QED BY <1>4, <1>5

(* The log is dropped with its forks.                                      *)
LEMMA RingSwitched ==
  ASSUME RingInv, Idle, NEW loads \in BOOLEAN, NEW e, NEW c \in 0 .. MaxFrame,
         PerformSwitch(loads, e, c)
  PROVE  RingInv'
  <1>1. /\ Len(frames') = 0 /\ IsSeq(frames') /\ cursor' = 0 /\ clock' \in 0 .. MaxFrame
        /\ UNCHANGED <<mode, paused, generation, replaying>>
    BY EmptyFacts, TimelineAssumption DEF PerformSwitch
  <1>2. DOMAIN execs' = {}
    BY DEF RingInv, Sound, PerformSwitch, DropForks
  <1>3. Sound(frames', execs', generation)
    BY <1>1, <1>2 DEF Sound, Distinct, Snapshots
  <1> QED BY <1>1, <1>3, CapFacts DEF RingInv, Idle

(* A replay starts inside the ring.                                        *)
LEMMA RingReplayStarts ==
  ASSUME NEW n \in Nat, n = Len(frames), NEW from \in 0 .. n + 1, NEW ex, Idle,
         StartReplay(from, ex)
  PROVE  replaying' = 0 \/ replaying' \in 2 .. n
  BY DEF StartReplay, Idle

(* A frame of an older program is a frame after a reload.                  *)
LEMMA RingReloaded ==
  ASSUME RingInv, Reload
  PROVE  RingInv'
  <1>1. /\ Idle /\ generation' = generation + 1 /\ generation' \in 0 .. MaxGeneration
        /\ UNCHANGED <<mode, paused, execs, frames, cursor, clock>>
    BY TimelineAssumption DEF Reload, RingInv
  <1>2. Sound(frames, execs, generation')
    <2>1. \A x \in 0 .. generation : x \in 0 .. generation + 1
      BY DEF RingInv
    <2>2. \A f : IsFrame(f, generation) => IsFrame(f, generation + 1)
      BY <2>1 DEF IsFrame
    <2> QED BY <1>1, <2>2 DEF RingInv, Sound
  <1>3. replaying' = 0 \/ replaying' \in 2 .. Len(frames)
    <2>1. CASE IsFrozen
      <3>1. StartReplay(cursor, execs) /\ Len(frames) \in Nat
        BY <2>1, SoundFacts DEF Reload, RingInv
      <3>2. cursor \in 0 .. Len(frames) + 1
        BY <3>1 DEF RingInv
      <3> QED BY <1>1, <3>1, <3>2, RingReplayStarts
    <2>2. CASE ~IsFrozen
      BY <1>1, <2>2 DEF Reload, Idle
    <2> QED BY <2>1, <2>2
  <1> QED BY <1>1, <1>2, <1>3 DEF RingInv

(* A write changes one frame and its fork in place.                        *)
LEMMA RingSet ==
  ASSUME RingInv, NEW n \in Names, NEW v \in Values, SetState(n, v)
  PROVE  RingInv'
  <1> DEFINE i == IF IsFrozen THEN cursor ELSE Len(frames)
  <1>1. Len(frames) \in Nat /\ i \in 0 .. Len(frames)
    BY SoundFacts DEF RingInv
  <1>2. Idle /\ UNCHANGED <<mode, paused, cursor, generation, clock>>
    BY DEF SetState
  <1>3. CASE i = 0
    <2>1. UNCHANGED <<execs, frames, replaying>>
      BY <1>3 DEF SetState
    <2> QED BY <1>2, <2>1 DEF RingInv
  <1>4. CASE i # 0
    <2>1. /\ i \in 1 .. Len(frames)
          /\ execs' = WrittenForks(i, n, v)
          /\ frames' = [frames EXCEPT ![i].writes[n] = v]
          /\ StartReplay(i + 1, execs') \/ UNCHANGED replaying
      BY <1>1, <1>4 DEF SetState
    <2> HIDE DEF i
    <2>2. IsSeq(frames') /\ Len(frames') = Len(frames) /\ Sound(frames', execs', generation)
      BY <2>1, WrittenRing
    <2>3. replaying' = 0 \/ replaying' \in 2 .. Len(frames)
      <3>1. CASE StartReplay(i + 1, execs')
        <4>1. i + 1 \in 0 .. Len(frames) + 1
          BY <1>1, <2>1
        <4> QED BY <1>1, <1>2, <3>1, <4>1, RingReplayStarts
      <3>2. CASE UNCHANGED replaying
        BY <1>2, <3>2 DEF Idle
      <3> QED BY <2>1, <3>1, <3>2
    <2> QED BY <1>2, <2>2, <2>3 DEF RingInv
  <1> QED BY <1>3, <1>4

(* The game goes on from a frame.                                          *)
LEMMA RingResumed ==
  ASSUME RingInv, Idle, NEW c \in 1 .. Len(frames), ResumeAt(c),
         UNCHANGED <<mode, paused, generation, replaying>>
  PROVE  RingInv'
  <1>1. /\ Sound(frames', execs', generation) /\ Len(frames') \in Nat
        /\ Len(frames') <= Cap /\ cursor' = 0 /\ clock' = frames[c].frame
        /\ frames[c].frame \in 1 .. MaxFrame
    BY RingCut DEF ResumeAt
  <1>2. clock' \in 0 .. MaxFrame
    BY <1>1, TimelineAssumption
  <1> QED BY <1>1, <1>2 DEF RingInv, Idle

(* Every step keeps the ring sound.                                        *)
LEMMA RingStep == RingInv /\ [Next]_vars => RingInv'
  <1> SUFFICES ASSUME RingInv, [Next]_vars PROVE RingInv'
    OBVIOUS
  <1>n. Len(frames) \in Nat /\ \A j \in 1 .. Len(frames) : frames[j].frame \in 0 .. MaxFrame
    <2>1. \A j \in 1 .. Len(frames) : frames[j].frame \in 1 .. MaxFrame
      BY SoundFacts DEF RingInv
    <2>2. Len(frames) \in Nat
      BY SoundFacts DEF RingInv
    <2> QED BY <2>1, <2>2, TimelineAssumption
  <1>1. ASSUME NEW i \in Inputs, LiveFrame(i) PROVE RingInv'
    <2>1. /\ Idle /\ clock' = clock + 1 /\ clock' \in 1 .. MaxFrame
          /\ UNCHANGED <<mode, paused, generation, replaying>>
          /\ Record(frames, execs, cursor, live', i, clock')
      BY <1>1, TimelineAssumption DEF LiveFrame, RingInv
    <2>2. Sound(frames, execs, generation) /\ Len(frames) <= Cap /\ cursor \in 0 .. Len(frames)
      BY DEF RingInv
    <2> QED BY <2>1, <2>2, RingRecord
  <1>2. ASSUME NEW i \in Inputs, NEW fails \in BOOLEAN, Step(i, fails) PROVE RingInv'
    BY <1>2, RingStepped
  <1>3. ASSUME NEW i \in Inputs, NEW loads \in BOOLEAN, LaunchFrame(i, loads)
        PROVE  RingInv'
    <2>1. clock + 1 \in 0 .. MaxFrame
      BY <1>3, TimelineAssumption DEF LaunchFrame, RingInv
    <2>2. Idle /\ PerformSwitch(loads, RunFrame(live, i, clock + 1), clock + 1)
      BY <1>3 DEF LaunchFrame
    <2> QED BY <2>1, <2>2, RingSwitched
  <1>4. ASSUME NEW loads \in BOOLEAN, Escape(loads) PROVE RingInv'
    <2>1. Idle /\ PerformSwitch(loads, live, clock) /\ clock \in 0 .. MaxFrame
      BY <1>4 DEF Escape, RingInv
    <2> QED BY <2>1, RingSwitched
  <1>5. CASE Freeze
    BY <1>5, <1>n DEF Freeze, RingInv
  <1>6. CASE Unfreeze
    <2>1. Idle /\ cursor \in 1 .. Len(frames) /\ ResumeAt(cursor)
          /\ UNCHANGED <<mode, paused, generation, replaying>>
      BY <1>6 DEF Unfreeze, RingInv, IsFrozen
    <2> QED BY <2>1, RingResumed
  <1>7. CASE Pause \/ Resume
    BY <1>7 DEF Pause, Resume, RingInv
  <1>8. ASSUME NEW k \in 1 .. Len(frames), Scrub(k) PROVE RingInv'
    BY <1>8, <1>n DEF Scrub, RingInv
  <1>9. ASSUME NEW k \in 1 .. Len(frames), Rewind(k) PROVE RingInv'
    BY <1>9, RingResumed DEF Rewind
  <1>10. CASE Replay
    <2>1. Idle /\ StartReplay(cursor, execs) /\ cursor \in 0 .. Len(frames) + 1
          /\ UNCHANGED <<mode, paused, execs, frames, cursor, generation>>
      BY <1>10, <1>n DEF Replay, RingInv
    <2>2. clock' \in 0 .. MaxFrame
      <3>1. clock' = clock \/ (Len(frames) = 1 /\ clock' = frames[1].frame)
        BY <1>10 DEF Replay
      <3> QED BY <3>1, <1>n DEF RingInv
    <2>3. replaying' = 0 \/ replaying' \in 2 .. Len(frames)
      BY <1>n, <2>1, RingReplayStarts
    <2> QED BY <2>1, <2>2, <2>3 DEF RingInv
  <1>11. CASE ReplayFrame
    <2>1. /\ replaying \in 2 .. Len(frames) /\ Len(frames') = Len(frames)
          /\ Sound(frames', execs', generation)
      BY <1>11, ReplayedRing
    <2>2. /\ replaying' = IF replaying = Len(frames) THEN 0 ELSE replaying + 1
          /\ UNCHANGED <<mode, paused, cursor, generation>>
          /\ clock' = clock \/ clock' = frames[replaying].frame
      BY <1>11 DEF ReplayFrame
    <2>3. clock' \in 0 .. MaxFrame
      BY <1>n, <2>1, <2>2 DEF RingInv
    <2> QED BY <1>n, <2>1, <2>2, <2>3 DEF RingInv
  <1>12. CASE Reload
    BY <1>12, RingReloaded
  <1>13. ASSUME NEW n \in Names, NEW v \in Values, SetState(n, v) PROVE RingInv'
    BY <1>13, RingSet
  <1>14. CASE UNCHANGED vars
    BY <1>14 DEF vars, RingInv
  <1> QED
    BY <1>1, <1>2, <1>3, <1>4, <1>5, <1>6, <1>7, <1>8, <1>9, <1>10, <1>11, <1>12,
       <1>13, <1>14 DEF Next

(* The ring is sound in every state.                                       *)
LEMMA RingInvariant == Spec => []RingInv
  <1>1. Init => RingInv
    BY InitInv, RingOfTInv
  <1> QED BY <1>1, RingStep, PTL DEF Spec

(* The ring stays in its cap, its frames typed, the cursor and a running   *)
(* replay inside it, in every loop, whatever fails (timeline.rs `record`,  *)
(* `truncate_after`, protocol.rs).                                         *)
THEOREM TimelineTypeCorrect == Spec => []TypeOK
  <1>1. RingInv => TypeOK
    BY DEF RingInv, Sound, IsFrame, TypeOK, FrameTyped
  <1> QED BY <1>1, RingInvariant, PTL

(* Forks and frames are one to one, also after a failed step and in a      *)
(* frozen game an agent resumed (timeline.rs `record`, `replay`).          *)
THEOREM TimelineForksAccounted == Spec => []ForksAccounted
  <1>1. RingInv => ForksAccounted
    BY DEF RingInv, Sound, Distinct, ForksAccounted
  <1> QED BY <1>1, RingInvariant, PTL

-----------------------------------------------------------------------------
HP == INSTANCE HistoryProofs WITH past <- Past, future <- Future, at <- Shown,
                                  now <- Now, program <- generation

(* Whatever was recorded, rewound, edited and replayed: every frame of the *)
(* ring is the run of its input from the fork before it, so replaying an   *)
(* unedited game changes nothing (timeline.rs:17-27).                      *)
THEOREM TimelineReproducible ==
  ASSUME ~StepFails, ~ResumeFrozen
  PROVE  Spec => []Reproducible
  <1>1. Spec => H!Spec
    BY TimelineImplementsHistory DEF ImplementsHistory
  <1>2. HP!Spec => []HP!Reproducible
    BY OwnIsNoValue, HP!HistoryReproducible
  <1>3. HP!Init <=> H!Init
    BY DEF HP!Init, H!Init, HP!Ran, H!Ran, HP!Untouched, H!Untouched
  <1>4. [HP!Next]_(HP!vars) <=> [H!Next]_(H!vars)
    BY DEF HP!Next, H!Next, HP!vars, H!vars, HP!Play, H!Play, HP!Look, H!Look,
           HP!Resume, H!Resume, HP!Rerun, H!Rerun, HP!Rerunning, H!Rerunning,
           HP!Edit, H!Edit, HP!WriteState, H!WriteState, HP!Forget, H!Forget,
           HP!Upto, HP!After, H!Upto, H!After, HP!Done, H!Done, HP!Recorded,
           H!Recorded, HP!Rewritten, H!Rewritten, H!Apply, HP!Apply, H!Ran, HP!Ran,
           H!Untouched, HP!Untouched, H!Write, HP!Write
  <1>5. HP!Reproducible <=> Reproducible
    BY DEF HP!Reproducible, Reproducible, H!Reproducible, H!Apply, HP!Apply, H!Ran,
           HP!Ran, H!Untouched, HP!Untouched
  <1> QED BY <1>1, <1>2, <1>3, <1>4, <1>5, PTL DEF H!Spec, HP!Spec

=============================================================================
