--------------------------- MODULE HotReloadProofs ---------------------------
(***************************************************************************)
(* Proofs about HotReload, for any program whose values are stored behind  *)
(* what they mention, any stacks and any number of edits.                  *)
(***************************************************************************)
EXTENDS HotReload, FiniteSetTheorems, SequenceTheorems, TLAPS

RunFold  == INSTANCE FoldFacts WITH Op <- RunSegment
MakeFold == INSTANCE FoldFacts WITH Op <- Build
KeepFold == INSTANCE FoldFacts WITH Op <- KeepTogether

-----------------------------------------------------------------------------
(* Functions.                                                              *)

(* A function put over another.                                            *)
LEMMA PutOver ==
  ASSUME NEW f, NEW g
  PROVE  /\ DOMAIN Over(f, g) = DOMAIN f \cup DOMAIN g
         /\ \A x \in DOMAIN f : Over(f, g)[x] = f[x]
         /\ \A x \in DOMAIN g : x \notin DOMAIN f => Over(f, g)[x] = g[x]
  BY DEF Over

(* One value put over a function.                                          *)
LEMMA PutOne ==
  ASSUME NEW d, NEW v, NEW g
  PROVE  /\ DOMAIN Over(Only(d, v), g) = DOMAIN g \cup {d}
         /\ Over(Only(d, v), g)[d] = v
         /\ \A x \in DOMAIN g : x # d => Over(Only(d, v), g)[x] = g[x]
  BY DEF Over, Only

LEMMA Restricted ==
  ASSUME NEW f, NEW S
  PROVE  DOMAIN Restrict(f, S) = S /\ \A x \in S : Restrict(f, S)[x] = f[x]
  BY DEF Restrict

-----------------------------------------------------------------------------
(* The program.                                                            *)

Stores(i) == Range(Segments[i])

(* The values d holds, and those its contents are told by.                 *)
Reads(d) == Mentions[d] \cap Slots

Held(d) == Reads(d) \ Scalar

(* Where the values are stored.                                            *)
LEMMA Places ==
  /\ Len(Segments) \in Nat /\ DOMAIN Segments = 1 .. Len(Segments)
  /\ \A i \in DOMAIN Segments :
        /\ Len(Segments[i]) \in Nat /\ DOMAIN Segments[i] = 1 .. Len(Segments[i])
        /\ \A p \in DOMAIN Segments[i] : Segments[i][p] \in Decls /\ Segments[i][p] \in Stores(i)
        /\ \A d \in Stores(i) : \E p \in DOMAIN Segments[i] : d = Segments[i][p]
        /\ Stores(i) \subseteq Slots
  /\ Slots \subseteq Decls
  /\ \A d \in Slots : \E i \in DOMAIN Segments : d \in Stores(i)
  /\ \A i, j \in DOMAIN Segments : \A d \in Stores(i) : d \in Stores(j) => i = j
  <1>1. Len(Segments) \in Nat /\ DOMAIN Segments = 1 .. Len(Segments)
    BY SegmentsAssumption, LenProperties
  <1>2. ASSUME NEW i \in DOMAIN Segments
        PROVE  /\ Len(Segments[i]) \in Nat /\ DOMAIN Segments[i] = 1 .. Len(Segments[i])
               /\ \A p \in DOMAIN Segments[i] : Segments[i][p] \in Decls /\ Segments[i][p] \in Stores(i)
               /\ \A d \in Stores(i) : \E p \in DOMAIN Segments[i] : d = Segments[i][p]
               /\ Stores(i) \subseteq Slots
    <2>1. Segments[i] \in Seq(Decls)
      BY SegmentsAssumption, <1>1, ElementOfSeq
    <2>2. Len(Segments[i]) \in Nat /\ DOMAIN Segments[i] = 1 .. Len(Segments[i])
      BY <2>1, LenProperties
    <2>3. \A p \in DOMAIN Segments[i] : Segments[i][p] \in Decls
      BY <2>1, <2>2, ElementOfSeq
    <2> QED BY <2>2, <2>3 DEF Stores, Slots, Range
  <1>3. Slots \subseteq Decls /\ \A d \in Slots : \E i \in DOMAIN Segments : d \in Stores(i)
    BY <1>2 DEF Stores, Slots, Range
  <1>4. \A i, j \in DOMAIN Segments : \A d \in Stores(i) : d \in Stores(j) => i = j
    BY <1>2, SegmentsAssumption
  <1> QED BY <1>1, <1>2, <1>3, <1>4

(* What a value is told by is stored in front of it.                       *)
LEMMA Behind ==
  ASSUME NEW i \in DOMAIN Segments, NEW p \in DOMAIN Segments[i],
         NEW r \in Reads(Segments[i][p])
  PROVE  /\ r # Segments[i][p] /\ r \in Slots
         /\ \/ \E j \in DOMAIN Segments : j < i /\ r \in Stores(j)
            \/ \E q \in DOMAIN Segments[i] : q < p /\ r = Segments[i][q]
  <1>0. PICK j \in DOMAIN Segments :
            \E q \in DOMAIN Segments[j] : r = Segments[j][q] /\ (j < i \/ (j = i /\ q < p))
    BY SegmentsAssumption DEF Reads
  <1>1. PICK q \in DOMAIN Segments[j] : r = Segments[j][q] /\ (j < i \/ (j = i /\ q < p))
    BY <1>0
  <1>2. r = Segments[i][p] => j = i /\ q = p
    BY <1>1, SegmentsAssumption
  <1>3. i \in Nat /\ j \in Nat /\ p \in Nat /\ q \in Nat
    BY Places
  <1> QED BY <1>1, <1>2, <1>3, Places DEF Reads

(* What is told by the text is told by what a declaration reads.           *)
LEMMA Directly ==
  ASSUME NEW text, NEW d \in Decls
  PROVE  Direct(text, d) \cap Slots = Reads(d)
  BY ProgramAssumption DEF Direct, Reads

LEMMA HoldsIs ==
  ASSUME NEW text, NEW d \in Decls, NEW regs
  PROVE  /\ DOMAIN Holds(text, d, regs) = Held(d)
         /\ \A r \in Held(d) : Holds(text, d, regs)[r] = regs[r].id
  BY Directly DEF Holds, Held

(* Contents are the same when what they are told by is.                    *)
LEMMA ContentSame ==
  ASSUME NEW text, NEW d \in Decls, NEW regs, NEW other,
         \A r \in Reads(d) : regs[r].is = other[r].is
  PROVE  Content(text, d, regs) = Content(text, d, other)
  <1>1. \A m \in Direct(text, d) : m \in Slots => regs[m].is = other[m].is
    BY Directly
  <1> DEFINE told(rs) == [m \in Direct(text, d) |-> IF m \in Slots THEN rs[m].is ELSE text[m]]
  <1>2. told(regs) = told(other)
    BY <1>1
  <1> HIDE DEF told
  <1>3. Content(text, d, regs) = (IF d \in Coarse THEN <<d>> ELSE <<d, text[d], told(regs)>>)
        /\ Content(text, d, other) = (IF d \in Coarse THEN <<d>> ELSE <<d, text[d], told(other)>>)
    BY Zenon DEF Content, told
  <1> QED BY <1>2, <1>3

-----------------------------------------------------------------------------
(* A segment that is built.                                                *)

MachineFields == {"tab", "text", "regs", "failed", "ids"}

IsMachine(m) == DOMAIN m = MachineFields

(* d is in the registers as its text says it, over what is there beside it. *)
Made(text, regs, d) ==
  /\ DOMAIN regs[d].holds = Held(d)
  /\ \A r \in Held(d) : regs[d].holds[r] = regs[r].id
  /\ regs[d].is = Content(text, d, regs)

LEMMA MakeIsFold ==
  ASSUME NEW m, NEW seg
  PROVE  FoldLeft(Build, m, seg) = MakeFold!Fold(m, seg)
  BY Zenon DEF FoldLeft, MakeFold!Fold, MakeFold!FoldLeft, MapThenFoldSet, MakeFold!MapThenFoldSet,
               Max, MakeFold!Max

(* One value is made of what is in front of it.                            *)
LEMMA MakesOne ==
  ASSUME NEW m, IsMachine(m), NEW d \in Decls, d \notin Reads(d)
  PROVE  /\ IsMachine(Build(m, d)) /\ Build(m, d).text = m.text
         /\ DOMAIN Build(m, d).regs = DOMAIN m.regs \cup {d}
         /\ \A x \in DOMAIN m.regs : x # d => Build(m, d).regs[x] = m.regs[x]
         /\ Reads(d) \subseteq DOMAIN m.regs => Made(m.text, Build(m, d).regs, d)
  <1> DEFINE id   == IF d \in Scalar THEN 0 ELSE Unused(m.ids)
             made == [id |-> id, is |-> Content(m.text, d, m.regs), holds |-> Holds(m.text, d, m.regs)]
             new  == Over(Only(d, made), m.regs)
  <1>1. Build(m, d) = [m EXCEPT !.regs = new, !.ids = @ \cup {id}]
    BY DEF Build
  <1>2. made.is = Content(m.text, d, m.regs) /\ made.holds = Holds(m.text, d, m.regs)
    OBVIOUS
  <1> HIDE DEF id, made
  <1>3. /\ DOMAIN new = DOMAIN m.regs \cup {d} /\ new[d] = made
        /\ \A x \in DOMAIN m.regs : x # d => new[x] = m.regs[x]
    BY DEF Over, Only
  <1> HIDE DEF new
  <1>4. /\ IsMachine(Build(m, d)) /\ Build(m, d).text = m.text /\ Build(m, d).regs = new
    BY <1>1 DEF IsMachine, MachineFields
  <1>5. ASSUME Reads(d) \subseteq DOMAIN m.regs PROVE Made(m.text, new, d)
    <2>1. \A r \in Reads(d) : new[r] = m.regs[r]
      BY <1>3, <1>5
    <2>2. Content(m.text, d, new) = Content(m.text, d, m.regs)
      BY <2>1, ContentSame
    <2>3. DOMAIN new[d].holds = Held(d) /\ \A r \in Held(d) : new[d].holds[r] = m.regs[r].id
      BY <1>2, <1>3, HoldsIs
    <2> QED BY <1>2, <1>3, <2>1, <2>2, <2>3 DEF Made, Held
  <1> QED BY <1>3, <1>4, <1>5

(* What is made stays what it is when other values are put beside it.      *)
LEMMA StaysMade ==
  ASSUME NEW text, NEW regs, NEW other, NEW d \in Decls, Made(text, regs, d),
         other[d] = regs[d], \A r \in Reads(d) : other[r] = regs[r]
  PROVE  Made(text, other, d)
  <1>1. Content(text, d, other) = Content(text, d, regs)
    BY ContentSame
  <1> QED BY <1>1 DEF Made, Held

(* A segment built behind those it reads: its values are made, and nothing *)
(* else is.                                                                *)
LEMMA Built ==
  ASSUME NEW m, IsMachine(m), NEW i \in DOMAIN Segments,
         \A j \in DOMAIN Segments : j < i => Stores(j) \subseteq DOMAIN m.regs
  PROVE  /\ DOMAIN FoldLeft(Build, m, Segments[i]).regs = DOMAIN m.regs \cup Stores(i)
         /\ \A x \in DOMAIN m.regs \ Stores(i) : FoldLeft(Build, m, Segments[i]).regs[x] = m.regs[x]
         /\ \A d \in Stores(i) : Made(m.text, FoldLeft(Build, m, Segments[i]).regs, d)
  <1> DEFINE seg == Segments[i]
             n   == Len(seg)
             sofar(j) == {seg[q] : q \in 1 .. j}
  <1>1. n \in Nat /\ DOMAIN seg = 1 .. n
    BY Places
  <1>2. PICK g : MakeFold!Runs(g, m, seg, n)
    BY <1>1, MakeFold!FoldRuns
  <1>3. /\ g[0] = m /\ \A j \in 1 .. n : g[j] = Build(g[j - 1], seg[j])
        /\ FoldLeft(Build, m, seg) = g[n]
    BY <1>2, MakeIsFold DEF MakeFold!Runs
  <1> DEFINE Good(j) ==
        /\ IsMachine(g[j]) /\ g[j].text = m.text
        /\ DOMAIN g[j].regs = DOMAIN m.regs \cup sofar(j)
        /\ \A x \in DOMAIN m.regs \ Stores(i) : g[j].regs[x] = m.regs[x]
        /\ \A q \in 1 .. j : Made(m.text, g[j].regs, seg[q])
      S == {j \in 0 .. n : Good(j)}
  <1>4. 0 \in S
    BY <1>1, <1>3
  <1>5. ASSUME NEW j \in 1 .. n, j - 1 \in S PROVE j \in S
    <2> DEFINE d == seg[j]
               b == g[j - 1]
    <2>1. Good(j - 1) /\ g[j] = Build(b, d) /\ j - 1 \in Nat
      BY <1>5, <1>3
    <2>2. d \in Decls /\ d \in Stores(i) /\ d \notin Reads(d)
      BY <1>1, Places, Behind
    <2>3. sofar(j) = sofar(j - 1) \cup {d}
      BY <1>1
    <2>4. ASSUME NEW q \in 1 .. j
          PROVE  /\ Reads(seg[q]) \subseteq DOMAIN b.regs
                 /\ \A r \in Reads(seg[q]) : r # d
      <3>1. SUFFICES ASSUME NEW r \in Reads(seg[q]) PROVE r \in DOMAIN b.regs /\ r # d
        OBVIOUS
      <3>2. q \in DOMAIN seg /\ j \in DOMAIN seg
        BY <1>1
      <3>3. CASE \E k \in DOMAIN Segments : k < i /\ r \in Stores(k)
        <4>1. PICK k \in DOMAIN Segments : k < i /\ r \in Stores(k)
          BY <3>3
        <4>2. i \in Nat /\ k \in Nat
          BY Places
        <4>3. r # d
          BY <4>1, <4>2, <2>2, Places
        <4> QED BY <4>1, <4>3, <2>1
      <3>4. CASE \E k \in DOMAIN seg : k < q /\ r = seg[k]
        <4>1. PICK k \in DOMAIN seg : k < q /\ r = seg[k]
          BY <3>4
        <4>2. k \in 1 .. j - 1 /\ k # j
          BY <4>1, <1>1
        <4>3. r \in sofar(j - 1)
          BY <4>1, <4>2
        <4>4. r # d
          BY <4>1, <4>2, <3>2, SegmentsAssumption
        <4> QED BY <4>3, <4>4, <2>1
      <3> QED BY <3>2, <3>3, <3>4, Behind
    <2>5. j \in 1 .. j
      BY <1>1
    <2> HIDE DEF d, b, sofar
    <2>6. /\ IsMachine(g[j]) /\ g[j].text = b.text
          /\ DOMAIN g[j].regs = DOMAIN b.regs \cup {d}
          /\ \A x \in DOMAIN b.regs : x # d => g[j].regs[x] = b.regs[x]
          /\ Made(b.text, g[j].regs, d)
      <3>1. IsMachine(b) /\ Reads(d) \subseteq DOMAIN b.regs
        BY <2>1, <2>4, <2>5 DEF b, d
      <3> QED BY <3>1, <2>1, <2>2, MakesOne
    <2>7. DOMAIN g[j].regs = DOMAIN m.regs \cup sofar(j)
      BY <2>1, <2>3, <2>6 DEF b
    <2>8. \A x \in DOMAIN m.regs \ Stores(i) : g[j].regs[x] = m.regs[x]
      BY <2>1, <2>2, <2>6 DEF b
    <2>9. ASSUME NEW q \in 1 .. j PROVE Made(m.text, g[j].regs, seg[q])
      <3>1. CASE q = j
        BY <3>1, <2>1, <2>6 DEF b, d
      <3>2. CASE q # j
        <4>1. q \in 1 .. j - 1 /\ q \in DOMAIN seg /\ j \in DOMAIN seg
          BY <3>2, <1>1
        <4>2. seg[q] # d /\ seg[q] \in Decls
          BY <4>1, <3>2, Places, SegmentsAssumption DEF d
        <4>3. Made(m.text, b.regs, seg[q])
          BY <4>1, <2>1 DEF b
        <4>4. seg[q] \in sofar(j - 1)
          BY <4>1 DEF sofar
        <4>5. seg[q] \in DOMAIN b.regs
          BY <4>4, <2>1 DEF b
        <4>6. g[j].regs[seg[q]] = b.regs[seg[q]] /\ \A r \in Reads(seg[q]) : g[j].regs[r] = b.regs[r]
          BY <4>2, <4>5, <2>4, <2>6
        <4> QED BY <4>2, <4>3, <4>6, StaysMade
      <3> QED BY <3>1, <3>2
    <2> QED BY <2>1, <2>6, <2>7, <2>8, <2>9 DEF b
  <1>6. n \in S
    <2> HIDE DEF S
    <2>1. \A j \in 0 .. n : j \in S
      BY <1>1, <1>4, <1>5, MakeFold!Induct
    <2> QED BY <2>1, <1>1
  <1>7. Good(n)
    BY <1>6
  <1>8. sofar(n) = Stores(i) /\ \A d \in Stores(i) : \E q \in 1 .. n : d = seg[q]
    BY <1>1, Places
  <1> QED BY <1>3, <1>7, <1>8
-----------------------------------------------------------------------------
(* A segment of a run.                                                     *)

StackFields ==
  {"at", "stamp", "slot", "prior", "deferred", "redo", "recent", "timed",
   "gate", "memo", "shown", "parked"}

IsStack(k) == DOMAIN k = StackFields

(* What of a stack is no part of the table a run fills.                    *)
Aside == StackFields \ {"slot", "prior", "timed"}

(* What is stored for d of segment i when the machine m has built it: what *)
(* is kept, or what was remembered, or what was built.                     *)
Settled(m, m2, i, d) ==
  LET built == FoldLeft(Build, m, Segments[i]).regs
      prior == m.tab.prior
      same  == \A e \in Stores(i) \ DOMAIN m.tab.slot :
                  e \in DOMAIN prior /\ Replaces(prior[e], built[e], Stores(i))
  IN  m2.tab.slot[d] = IF d \in DOMAIN m.tab.slot THEN m.tab.slot[d]
                       ELSE IF same THEN prior[d] ELSE built[d]

(* The segment i is in the registers as it is in the table.                *)
Loaded(m, m2, i) ==
  /\ m2.failed = FALSE
  /\ DOMAIN m2.regs = DOMAIN m.regs \cup Stores(i)
  /\ \A d \in Stores(i) : m2.regs[d] = m2.tab.slot[d]
  /\ \A d \in DOMAIN m.regs : d \notin Stores(i) => m2.regs[d] = m.regs[d]

Skipped(m, m2, i) ==
  /\ m.failed = FALSE /\ Stores(i) \subseteq DOMAIN m.tab.slot
  /\ m2.tab = m.tab /\ Loaded(m, m2, i)

RaisesIn(text, i) == \E d \in Stores(i) : <<d, text[d]>> \in Raises

Raised(m, m2, i) ==
  /\ m.failed = FALSE /\ ~(Stores(i) \subseteq DOMAIN m.tab.slot)
  /\ RaisesIn(m.text, i)
  /\ m2.tab = m.tab /\ m2.regs = m.regs /\ m2.failed = TRUE

Stored(m, m2, i) ==
  /\ m.failed = FALSE /\ ~(Stores(i) \subseteq DOMAIN m.tab.slot)
  /\ ~RaisesIn(m.text, i)
  /\ DOMAIN m2.tab.slot = DOMAIN m.tab.slot \cup Stores(i)
  /\ \A d \in Stores(i) : Settled(m, m2, i, d)
  /\ \A d \in DOMAIN m.tab.slot : m2.tab.slot[d] = m.tab.slot[d]
  /\ DOMAIN m2.tab.prior = DOMAIN m.tab.prior \ Stores(i)
  /\ \A d \in DOMAIN m2.tab.prior : m2.tab.prior[d] = m.tab.prior[d]
  /\ m2.tab.timed = m.tab.timed \cup (Stores(i) \cap Slow)
  /\ Loaded(m, m2, i)

Machine(m) == IsMachine(m) /\ IsStack(m.tab) /\ m.failed \in BOOLEAN

LEMMA RunsOne ==
  ASSUME NEW m, Machine(m), NEW i \in DOMAIN Segments
  PROVE  LET m2 == RunSegment(m, Segments[i])
         IN  /\ Machine(m2) /\ m2.text = m.text
             /\ \A f \in Aside : m2.tab[f] = m.tab[f]
             /\ \/ m.failed = TRUE /\ m2 = m
                \/ Skipped(m, m2, i)
                \/ Raised(m, m2, i)
                \/ Stored(m, m2, i)
  <1> DEFINE m2     == RunSegment(m, Segments[i])
             stores == Stores(i)
             k      == m.tab
             built  == FoldLeft(Build, m, Segments[i]).regs
  <1>1. CASE m.failed
    <2>1. m2 = m
      BY <1>1 DEF RunSegment
    <2> QED BY <1>1, <2>1 DEF Machine
  <1>2. CASE m.failed = FALSE /\ stores \subseteq DOMAIN k.slot
    <2> DEFINE regs == Over(Restrict(k.slot, stores), m.regs)
    <2>1. m2 = [m EXCEPT !.regs = regs]
      BY <1>2, Zenon DEF RunSegment, Stores
    <2>2. /\ DOMAIN regs = DOMAIN m.regs \cup stores
          /\ \A d \in stores : regs[d] = k.slot[d]
          /\ \A d \in DOMAIN m.regs : d \notin stores => regs[d] = m.regs[d]
      BY DEF Over, Restrict
    <2> HIDE DEF regs
    <2>3. /\ Machine(m2) /\ m2.text = m.text /\ m2.tab = m.tab /\ m2.regs = regs
          /\ m2.failed = FALSE
      BY <1>2, <2>1 DEF Machine, IsMachine, MachineFields
    <2>4. Skipped(m, m2, i)
      BY <1>2, <2>2, <2>3 DEF Skipped, Loaded
    <2> QED BY <2>3, <2>4
  <1>3. CASE m.failed = FALSE /\ ~(stores \subseteq DOMAIN k.slot) /\ RaisesIn(m.text, i)
    <2>1. m2 = [m EXCEPT !.failed = TRUE]
      BY <1>3, Zenon DEF RunSegment, Stores, RaisesIn
    <2>2. /\ Machine(m2) /\ m2.text = m.text /\ m2.tab = m.tab /\ m2.regs = m.regs
          /\ m2.failed = TRUE
      BY <2>1 DEF Machine, IsMachine, MachineFields
    <2>3. Raised(m, m2, i)
      BY <1>3, <2>2 DEF Raised
    <2> QED BY <2>2, <2>3
  <1>4. CASE m.failed = FALSE /\ ~(stores \subseteq DOMAIN k.slot) /\ ~RaisesIn(m.text, i)
    <2> DEFINE same == \A d \in stores \ DOMAIN k.slot :
                          d \in DOMAIN k.prior /\ Replaces(k.prior[d], built[d], stores)
               now  == [d \in stores |-> IF d \in DOMAIN k.slot THEN k.slot[d]
                                         ELSE IF same THEN k.prior[d] ELSE built[d]]
               slot == Over(now, k.slot)
               tab  == [k EXCEPT !.slot = slot, !.prior = Restrict(@, DOMAIN @ \ stores),
                                 !.timed = @ \cup (stores \cap Slow)]
               regs == Over(now, m.regs)
    <2>1. m2 = Store(m, stores, built)
      BY <1>4, Zenon DEF RunSegment, Stores, RaisesIn
    <2>2. m2 = [m EXCEPT !.regs = regs, !.tab = tab]
      BY <2>1, Zenon DEF Store
    <2>3. /\ DOMAIN now = stores
          /\ \A d \in stores : now[d] = IF d \in DOMAIN k.slot THEN k.slot[d]
                                        ELSE IF same THEN k.prior[d] ELSE built[d]
      BY Zenon
    <2> HIDE DEF now
    <2>4. /\ DOMAIN regs = DOMAIN m.regs \cup stores
          /\ \A d \in stores : regs[d] = now[d]
          /\ \A d \in DOMAIN m.regs : d \notin stores => regs[d] = m.regs[d]
      BY <2>3 DEF Over
    <2>5. /\ DOMAIN slot = DOMAIN k.slot \cup stores
          /\ \A d \in stores : slot[d] = now[d]
          /\ \A d \in DOMAIN k.slot : slot[d] = k.slot[d]
      BY <2>3 DEF Over
    <2> HIDE DEF regs, slot
    <2>6. /\ IsStack(tab) /\ tab.slot = slot
          /\ DOMAIN tab.prior = DOMAIN k.prior \ stores
          /\ \A d \in DOMAIN tab.prior : tab.prior[d] = k.prior[d]
          /\ tab.timed = k.timed \cup (stores \cap Slow)
          /\ \A f \in Aside : tab[f] = k[f]
      BY DEF Machine, IsStack, StackFields, Restrict, Aside
    <2> HIDE DEF tab
    <2>7. /\ IsMachine(m2) /\ m2.text = m.text /\ m2.tab = tab /\ m2.regs = regs
          /\ m2.failed = FALSE
      BY <1>4, <2>2 DEF Machine, IsMachine, MachineFields
    <2>8. \A d \in stores : Settled(m, m2, i, d)
      <3> SUFFICES ASSUME NEW d \in stores PROVE Settled(m, m2, i, d)
        OBVIOUS
      <3>1. m2.tab.slot[d] = IF d \in DOMAIN k.slot THEN k.slot[d]
                             ELSE IF same THEN k.prior[d] ELSE built[d]
        BY <2>3, <2>5, <2>6, <2>7, Zenon
      <3> QED BY <3>1, Zenon DEF Settled
    <2>9. Loaded(m, m2, i)
      BY <2>4, <2>5, <2>6, <2>7 DEF Loaded
    <2>10. Stored(m, m2, i)
      BY <1>4, <2>5, <2>6, <2>7, <2>8, <2>9 DEF Stored
    <2> QED BY <2>6, <2>7, <2>10 DEF Machine
  <1> HIDE DEF m2
  <1>5. m.failed \in BOOLEAN
    BY DEF Machine
  <1> QED BY <1>1, <1>2, <1>3, <1>4, <1>5 DEF m2
-----------------------------------------------------------------------------
(* A run, segment after segment.                                           *)

Count == Len(Segments)

Start(k, p) ==
  [tab |-> k, text |-> p.text, regs |-> <<>>, failed |-> FALSE,
   ids |-> IdsOf(k.slot) \cup IdsOf(k.prior) \cup {0}]

(* The machines g[0], g[1], ... are those of a run of p on k.              *)
Steps(g, k, p) ==
  /\ g[0] = Start(k, p)
  /\ \A i \in 1 .. Count : g[i] = RunSegment(g[i - 1], Segments[i])
  /\ Execute(k, p) = Finish(g[Count])

LEMMA RunSteps ==
  ASSUME NEW k, NEW p
  PROVE  \E g : Steps(g, k, p)
  <1>1. Execute(k, p) = Finish(RunFold!Fold(Start(k, p), Segments))
    BY Zenon DEF Execute, Start, FoldLeft, RunFold!Fold, RunFold!FoldLeft, MapThenFoldSet,
                 RunFold!MapThenFoldSet, Max, RunFold!Max
  <1>2. PICK g : RunFold!Runs(g, Start(k, p), Segments, Count)
    BY Places, RunFold!FoldRuns DEF Count
  <1>3. Steps(g, k, p)
    BY <1>1, <1>2 DEF RunFold!Runs, Steps
  <1> QED BY <1>3

(* The values of the segments up to the one numbered i.                    *)
Upto(i) == {d \in Slots : \E j \in 1 .. i : d \in Stores(j)}

(* How far a run has come with segment i: what it stores is new, what it   *)
(* remembers is not, and the registers are the table's.                    *)
Along(m, i, k, text) ==
  /\ Machine(m) /\ m.text = text
  /\ \A f \in Aside : m.tab[f] = k[f]
  /\ DOMAIN k.slot \subseteq DOMAIN m.tab.slot
  /\ DOMAIN m.tab.slot \subseteq DOMAIN k.slot \cup Upto(i)
  /\ \A d \in DOMAIN k.slot : m.tab.slot[d] = k.slot[d]
  /\ DOMAIN m.tab.prior \subseteq DOMAIN k.prior
  /\ \A d \in DOMAIN m.tab.prior :
        m.tab.prior[d] = k.prior[d] /\ (d \in DOMAIN m.tab.slot => d \in DOMAIN k.slot)
  /\ m.tab.timed \subseteq k.timed \cup Slots
  /\ \A d \in DOMAIN m.regs :
        d \in Upto(i) /\ d \in DOMAIN m.tab.slot /\ m.regs[d] = m.tab.slot[d]
  /\ m.failed = FALSE => DOMAIN m.regs = Upto(i)

LEMMA UptoNext ==
  ASSUME NEW i \in 1 .. Count
  PROVE  /\ Upto(i) = Upto(i - 1) \cup Stores(i) /\ Upto(i - 1) \cap Stores(i) = {}
         /\ i \in DOMAIN Segments /\ Stores(i) \subseteq Slots
         /\ \A j \in DOMAIN Segments : j < i => Stores(j) \subseteq Upto(i - 1)
  <1>1. i \in DOMAIN Segments /\ Stores(i) \subseteq Slots /\ Count \in Nat /\ DOMAIN Segments = 1 .. Count
    BY Places DEF Count
  <1>2. \A j \in 1 .. i : j = i \/ j \in 1 .. i - 1
    BY <1>1
  <1>3. \A j \in 1 .. i - 1 : j \in 1 .. i /\ j \in DOMAIN Segments /\ j # i
    BY <1>1
  <1>4. Upto(i) = Upto(i - 1) \cup Stores(i)
    BY <1>1, <1>2, <1>3 DEF Upto
  <1>5. Upto(i - 1) \cap Stores(i) = {}
    <2>1. SUFFICES ASSUME NEW d \in Stores(i), NEW j \in 1 .. i - 1, d \in Stores(j) PROVE FALSE
      BY DEF Upto
    <2>2. j \in DOMAIN Segments /\ i \in DOMAIN Segments /\ j # i
      BY <1>1, <1>3
    <2>3. \A a, b \in DOMAIN Segments : \A x \in Stores(a) : x \in Stores(b) => a = b
      BY Places
    <2> QED BY <2>1, <2>2, <2>3
  <1>6. \A j \in DOMAIN Segments : j < i => j \in 1 .. i - 1
    BY <1>1
  <1> QED BY <1>1, <1>4, <1>5, <1>6, Places DEF Upto

LEMMA AlongNext ==
  ASSUME NEW k, NEW text, NEW m, NEW i \in 1 .. Count, Along(m, i - 1, k, text)
  PROVE  Along(RunSegment(m, Segments[i]), i, k, text)
  <1> DEFINE m2 == RunSegment(m, Segments[i])
  <1>1. /\ Upto(i) = Upto(i - 1) \cup Stores(i) /\ Upto(i - 1) \cap Stores(i) = {}
        /\ i \in DOMAIN Segments /\ Stores(i) \subseteq Slots
    BY UptoNext
  <1>2. /\ Machine(m2) /\ m2.text = m.text
        /\ \A f \in Aside : m2.tab[f] = m.tab[f]
        /\ (m.failed = TRUE /\ m2 = m) \/ Skipped(m, m2, i) \/ Raised(m, m2, i) \/ Stored(m, m2, i)
    BY <1>1, RunsOne DEF Along
  <1> HIDE DEF m2
  <1> SUFFICES Along(m2, i, k, text)
    BY DEF m2
  <1>3. Machine(m2) /\ m2.text = text /\ \A f \in Aside : m2.tab[f] = k[f]
    BY <1>2 DEF Along
  <1>4. CASE m.failed = TRUE /\ m2 = m
    BY <1>1, <1>4 DEF Along
  <1>5. CASE Skipped(m, m2, i)
    <2>1. DOMAIN m2.regs = Upto(i)
      BY <1>1, <1>5 DEF Along, Skipped, Loaded
    <2>2. \A d \in DOMAIN m2.regs :
             d \in Upto(i) /\ d \in DOMAIN m2.tab.slot /\ m2.regs[d] = m2.tab.slot[d]
      BY <1>1, <1>5, <2>1 DEF Along, Skipped, Loaded
    <2> QED BY <1>1, <1>3, <1>5, <2>1, <2>2 DEF Along, Skipped
  <1>6. CASE Raised(m, m2, i)
    BY <1>1, <1>3, <1>6 DEF Along, Raised
  <1>7. CASE Stored(m, m2, i)
    <2>1. DOMAIN m2.regs = Upto(i)
      BY <1>1, <1>7 DEF Along, Stored, Loaded
    <2>2. \A d \in DOMAIN m2.regs :
             d \in Upto(i) /\ d \in DOMAIN m2.tab.slot /\ m2.regs[d] = m2.tab.slot[d]
      BY <1>1, <1>7, <2>1 DEF Along, Stored, Loaded
    <2>3. /\ DOMAIN k.slot \subseteq DOMAIN m2.tab.slot
          /\ DOMAIN m2.tab.slot \subseteq DOMAIN k.slot \cup Upto(i)
          /\ \A d \in DOMAIN k.slot : m2.tab.slot[d] = k.slot[d]
      BY <1>1, <1>7 DEF Along, Stored
    <2>4. /\ DOMAIN m2.tab.prior \subseteq DOMAIN k.prior
          /\ \A d \in DOMAIN m2.tab.prior :
                m2.tab.prior[d] = k.prior[d] /\ (d \in DOMAIN m2.tab.slot => d \in DOMAIN k.slot)
      BY <1>7 DEF Along, Stored
    <2>5. m2.tab.timed \subseteq k.timed \cup Slots
      BY <1>1, <1>7 DEF Along, Stored
    <2> QED BY <1>3, <2>1, <2>2, <2>3, <2>4, <2>5 DEF Along
  <1> QED BY <1>2, <1>4, <1>5, <1>6, <1>7

LEMMA RunAlong ==
  ASSUME NEW k, IsStack(k), NEW p, NEW g, Steps(g, k, p)
  PROVE  \A i \in 0 .. Count : Along(g[i], i, k, p.text)
  <1> DEFINE S == {i \in 0 .. Count : Along(g[i], i, k, p.text)}
  <1>0. Count \in Nat
    BY Places DEF Count
  <1>1. 0 \in S
    <2>1. Upto(0) = {}
      BY DEF Upto
    <2>2. Machine(g[0]) /\ g[0].text = p.text /\ g[0].tab = k /\ g[0].regs = <<>> /\ g[0].failed = FALSE
      BY DEF Steps, Start, Machine, IsMachine, MachineFields
    <2>3. DOMAIN g[0].regs = {}
      BY <2>2
    <2>4. Along(g[0], 0, k, p.text)
      BY <2>1, <2>2, <2>3 DEF Along
    <2> QED BY <1>0, <2>4
  <1>2. ASSUME NEW i \in 1 .. Count, i - 1 \in S PROVE i \in S
    <2>1. g[i] = RunSegment(g[i - 1], Segments[i]) /\ Along(g[i - 1], i - 1, k, p.text)
      BY <1>2 DEF Steps
    <2>2. Along(g[i], i, k, p.text)
      BY <2>1, AlongNext
    <2> QED BY <1>0, <2>2
  <1> HIDE DEF S
  <1>3. \A i \in 0 .. Count : i \in S
    BY <1>0, <1>1, <1>2, RunFold!Induct
  <1> QED BY <1>3 DEF S
-----------------------------------------------------------------------------
(* What an edit leaves of a table.                                         *)

Touched(text, e, d) == Deps(text, d) \cap e.changed # {}

Same(e) == e.new.lowering = e.old.lowering

(* What the program before the edit has of the stack.                      *)
Has(k, e) ==
  IF k.stamp # Stamp(e.old) THEN {}
  ELSE IF Same(e) THEN DOMAIN k.slot ELSE DOMAIN k.slot \ Unnamed

(* The edit did not reach d.                                               *)
Clean(k, e, d) ==
  /\ d \notin k.deferred \cup k.redo
  /\ ~e.cleared
  /\ ~Touched(e.old.text, e, d)
  /\ Same(e) \/ ~Touched(e.new.text, e, d)
  /\ Same(e) \/ Deps(e.old.text, d) = Deps(e.new.text, d)

(* What a literal is given.                                                *)
Literal(e, d) == [id |-> 0, is |-> Content(e.new.text, d, <<>>), holds |-> <<>>]

FollowFields == {"text", "slot", "prior", "deferred"}

(* What the edit makes of the values a stack has: those that wait and those *)
(* it did not reach stay, a literal is given, the rest is remembered.      *)
Seeded(k, e, f) ==
  /\ DOMAIN f = FollowFields /\ f.text = e.new.text
  /\ DOMAIN f.slot \cup DOMAIN f.prior = Has(k, e) /\ DOMAIN f.slot \cap DOMAIN f.prior = {}
  /\ \A d \in DOMAIN f.prior : f.prior[d] = k.slot[d]
  /\ f.deferred \subseteq DOMAIN f.slot \cap Slow
  /\ f.deferred # {} => Same(e) /\ ~e.cleared
  /\ \A d \in f.deferred : f.slot[d] = k.slot[d] /\ ~Clean(k, e, d) /\ d \notin Literals
  /\ \A d \in DOMAIN f.slot \ f.deferred :
        \/ Clean(k, e, d) /\ f.slot[d] = k.slot[d]
        \/ d \in Literals /\ f.slot[d] = Literal(e, d)

LEMMA SeedIs ==
  ASSUME NEW k, NEW e
  PROVE  Seeded(k, e, Seed(k, e))
  <1> DEFINE held  == Has(k, e)
             clean == {d \in held : Clean(k, e, d)}
             given == IF e.cleared THEN {} ELSE (held \cap Literals) \ clean
             waits == IF e.live /\ k.recent /\ Same(e) /\ ~e.cleared
                      THEN (held \cap Slow \cap k.timed) \ (clean \cup given) ELSE {}
             lits  == [d \in given |-> Literal(e, d)]
             slot  == Over(lits, Restrict(k.slot, clean \cup waits))
             prior == Restrict(k.slot, held \ (clean \cup given \cup waits))
             f     == [text |-> e.new.text, slot |-> slot, prior |-> prior, deferred |-> waits]
  <1>1. Seed(k, e) = f
    <2> DEFINE same == e.new.lowering = e.old.lowering
               held0 == IF k.stamp # Stamp(e.old) THEN {}
                        ELSE IF same THEN DOMAIN k.slot ELSE DOMAIN k.slot \ Unnamed
               clean0 == {d \in held0 \ (k.deferred \cup k.redo):
                    /\ ~e.cleared
                    /\ ~(Deps(e.old.text, d) \cap e.changed # {})
                    /\ same \/ ~(Deps(e.new.text, d) \cap e.changed # {})
                    /\ same \/ Deps(e.old.text, d) = Deps(e.new.text, d)}
    <2>1. held0 = held
      BY Zenon DEF Has, Same
    <2>2. clean0 = clean
      <3> HIDE DEF held, held0
      <3>1. \A d : d \in clean0 <=> d \in clean
        BY <2>1, Zenon DEF Clean, Touched, Same
      <3> QED BY <3>1
    <2> DEFINE given0 == IF e.cleared THEN {} ELSE (held0 \cap Literals) \ clean0
               waits0 == IF e.live /\ k.recent /\ same /\ ~e.cleared
                 THEN (held0 \cap Slow \cap k.timed) \ (clean0 \cup given0) ELSE {}
    <2>3. Seed(k, e) =
             [text |-> e.new.text,
              slot |-> Over([d \in given0 |-> Literal(e, d)], Restrict(k.slot, clean0 \cup waits0)),
              prior |-> Restrict(k.slot, held0 \ (clean0 \cup given0 \cup waits0)),
              deferred |-> waits0]
      BY Zenon DEF Seed, Literal
    <2>4. given0 = given
      <3> HIDE DEF held, held0, clean, clean0
      <3> QED BY <2>1, <2>2
    <2>5. waits0 = waits
      <3> HIDE DEF held, held0, clean, clean0, given, given0
      <3> QED BY <2>1, <2>2, <2>4 DEF Same
    <2> HIDE DEF held, held0, clean, clean0, given, given0, waits, waits0
    <2> QED BY <2>1, <2>2, <2>3, <2>4, <2>5, Zenon
  <1>2. /\ clean \subseteq held /\ \A d \in clean : Clean(k, e, d)
        /\ \A d \in held : d \notin clean => ~Clean(k, e, d)
    OBVIOUS
  <1>3. given \subseteq held \cap Literals /\ given \cap clean = {}
        /\ (~e.cleared => \A d \in held \cap Literals : d \in clean \cup given)
    BY Zenon
  <1>4. /\ waits \subseteq held \cap Slow /\ waits \cap (clean \cup given) = {}
        /\ waits # {} => Same(e) /\ ~e.cleared
    BY Zenon
  <1> HIDE DEF held, clean, given, waits
  <1>5. DOMAIN lits = given /\ \A d \in given : lits[d] = Literal(e, d)
    BY Zenon
  <1> HIDE DEF lits
  <1>6. /\ DOMAIN slot = given \cup clean \cup waits
        /\ \A d \in given : slot[d] = Literal(e, d)
        /\ \A d \in clean \cup waits : d \notin given => slot[d] = k.slot[d]
    BY <1>5 DEF Over, Restrict
  <1>7. /\ DOMAIN prior = held \ (clean \cup given \cup waits)
        /\ \A d \in DOMAIN prior : prior[d] = k.slot[d]
    BY DEF Restrict
  <1> HIDE DEF slot, prior
  <1>8. DOMAIN f = FollowFields /\ f.text = e.new.text /\ f.slot = slot /\ f.prior = prior /\ f.deferred = waits
    BY DEF FollowFields
  <1> HIDE DEF f
  <1>9. \A d \in waits : slot[d] = k.slot[d] /\ ~Clean(k, e, d) /\ d \notin Literals
    BY <1>2, <1>3, <1>4, <1>6
  <1>10. \A d \in DOMAIN slot \ waits :
            \/ Clean(k, e, d) /\ slot[d] = k.slot[d]
            \/ d \in Literals /\ slot[d] = Literal(e, d)
    BY <1>2, <1>3, <1>6
  <1>11. DOMAIN slot \cup DOMAIN prior = held /\ DOMAIN slot \cap DOMAIN prior = {}
    BY <1>2, <1>3, <1>4, <1>6, <1>7
  <1>12. Seeded(k, e, f)
    BY <1>4, <1>6, <1>7, <1>8, <1>9, <1>10, <1>11 DEF Seeded, held
  <1> QED BY <1>1, <1>12
(* What the pass over the segments has made of the seed f0 behind segment  *)
(* i: values go to those remembered, a segment at a time, and what is kept *)
(* and is not put off holds nothing that went.                             *)
Keeping(f, i, f0) ==
  /\ DOMAIN f = FollowFields /\ f.text = f0.text
  /\ DOMAIN f.slot \subseteq DOMAIN f0.slot
  /\ \A d \in DOMAIN f.slot : f.slot[d] = f0.slot[d]
  /\ DOMAIN f.prior = DOMAIN f0.prior \cup (DOMAIN f0.slot \ DOMAIN f.slot)
  /\ \A d \in DOMAIN f.prior : f.prior[d] = IF d \in DOMAIN f0.slot THEN f0.slot[d] ELSE f0.prior[d]
  /\ f.deferred = f0.deferred \cap DOMAIN f.slot
  /\ \A d \in DOMAIN f0.slot : d \notin Upto(i) => d \in DOMAIN f.slot
  /\ \A j \in 1 .. i : Stores(j) \subseteq DOMAIN f.slot \/ Stores(j) \cap DOMAIN f.slot = {}
  /\ \A d \in Upto(i) : d \in DOMAIN f.slot \ f.deferred => Held(d) \subseteq DOMAIN f.slot

LEMMA KeepIsFold ==
  ASSUME NEW f, NEW segs
  PROVE  FoldLeft(KeepTogether, f, segs) = KeepFold!Fold(f, segs)
  BY Zenon DEF FoldLeft, KeepFold!Fold, KeepFold!FoldLeft, MapThenFoldSet, KeepFold!MapThenFoldSet,
               Max, KeepFold!Max

(* What goes with segment i.                                               *)
Goes(f, f2, i, goes) ==
  /\ goes = {} \/ goes = Stores(i) \cap DOMAIN f.slot
  /\ goes = {} =>
        /\ Stores(i) \subseteq DOMAIN f.slot \/ Stores(i) \cap DOMAIN f.slot = {}
        /\ \A d \in Stores(i) : d \in DOMAIN f.slot \ f.deferred => Held(d) \subseteq DOMAIN f.slot
  /\ DOMAIN f2 = FollowFields /\ f2.text = f.text
  /\ DOMAIN f2.slot = DOMAIN f.slot \ goes
  /\ \A d \in DOMAIN f2.slot : f2.slot[d] = f.slot[d]
  /\ DOMAIN f2.prior = DOMAIN f.prior \cup goes
  /\ \A d \in goes : f2.prior[d] = f.slot[d]
  /\ \A d \in DOMAIN f.prior : d \notin goes => f2.prior[d] = f.prior[d]
  /\ f2.deferred = f.deferred \ goes

LEMMA KeepsOne ==
  ASSUME NEW f, DOMAIN f = FollowFields, NEW i \in DOMAIN Segments
  PROVE  \E goes : Goes(f, KeepTogether(f, Segments[i]), i, goes)
  <1> DEFINE stores == Stores(i)
             reads  == ((UNION {Direct(f.text, d) : d \in stores}) \cap Slots) \ stores
             beside == ~(stores \subseteq DOMAIN f.slot)
             from   == \E r \in reads \ DOMAIN f.slot : r \in DOMAIN f.prior => r \notin Scalar
             goes   == IF beside \/ (from /\ ~(stores \subseteq f.deferred))
                       THEN stores \cap DOMAIN f.slot ELSE {}
             prior  == Over(Restrict(f.slot, goes), f.prior)
             slot   == Restrict(f.slot, DOMAIN f.slot \ goes)
             f2     == KeepTogether(f, Segments[i])
  <1>1. f2 = [f EXCEPT !.slot = slot, !.prior = prior, !.deferred = @ \ goes]
    BY Zenon DEF KeepTogether, Stores
  <1>2. goes = {} \/ goes = stores \cap DOMAIN f.slot
    BY Zenon
  <1>3. ASSUME goes = {}
        PROVE  /\ stores \subseteq DOMAIN f.slot \/ stores \cap DOMAIN f.slot = {}
               /\ \A d \in stores : d \in DOMAIN f.slot \ f.deferred => Held(d) \subseteq DOMAIN f.slot
    <2>1. CASE beside \/ (from /\ ~(stores \subseteq f.deferred))
      <3>1. stores \cap DOMAIN f.slot = {}
        BY <1>3, <2>1, Zenon
      <3> QED BY <3>1
    <2>2. CASE ~beside /\ ~(from /\ ~(stores \subseteq f.deferred))
      <3>1. stores \subseteq DOMAIN f.slot
        BY <2>2
      <3>2. ASSUME NEW d \in stores, d \notin f.deferred, NEW r \in Held(d) PROVE r \in DOMAIN f.slot
        <4>1. ~from
          BY <2>2, <3>2
        <4>2. d \in Decls /\ r \notin Scalar /\ r \in Slots
          BY Places, <3>2 DEF Held, Reads
        <4>3. r \in Direct(f.text, d)
          BY <4>2, <3>2, Directly DEF Held
        <4>4. r \in stores \/ r \in reads
          BY <4>2, <4>3
        <4> HIDE DEF reads
        <4> QED BY <3>1, <4>1, <4>2, <4>4
      <3> QED BY <3>1, <3>2
    <2> QED BY <2>1, <2>2
  <1> HIDE DEF goes
  <1>4. /\ DOMAIN slot = DOMAIN f.slot \ goes /\ \A d \in DOMAIN slot : slot[d] = f.slot[d]
        /\ DOMAIN prior = DOMAIN f.prior \cup goes
        /\ \A d \in goes : prior[d] = f.slot[d]
        /\ \A d \in DOMAIN f.prior : d \notin goes => prior[d] = f.prior[d]
    BY DEF Over, Restrict
  <1> HIDE DEF slot, prior
  <1>5. /\ DOMAIN f2 = FollowFields /\ f2.text = f.text /\ f2.slot = slot /\ f2.prior = prior
        /\ f2.deferred = f.deferred \ goes
    BY <1>1 DEF FollowFields
  <1> HIDE DEF f2
  <1>6. Goes(f, f2, i, goes)
    BY <1>2, <1>3, <1>4, <1>5 DEF Goes
  <1>7. \E x : Goes(f, f2, i, x)
    BY <1>6
  <1> QED BY <1>7 DEF f2

LEMMA KeepingNext ==
  ASSUME NEW f0, NEW f, NEW i \in 1 .. Count, Keeping(f, i - 1, f0),
         DOMAIN f0.slot \subseteq Slots, DOMAIN f0.slot \cap DOMAIN f0.prior = {}
  PROVE  Keeping(KeepTogether(f, Segments[i]), i, f0)
  <1> DEFINE f2 == KeepTogether(f, Segments[i])
  <1> SUFFICES Keeping(f2, i, f0)
    OBVIOUS
  <1>1. /\ Upto(i) = Upto(i - 1) \cup Stores(i) /\ Upto(i - 1) \cap Stores(i) = {}
        /\ i \in DOMAIN Segments /\ Stores(i) \subseteq Slots
    BY UptoNext
  <1>2. PICK goes : Goes(f, f2, i, goes)
    BY <1>1, KeepsOne DEF Keeping
  <1> HIDE DEF f2
  <1>3. goes \subseteq Stores(i) \cap DOMAIN f.slot
    BY <1>2 DEF Goes
  <1>4. /\ DOMAIN f2 = FollowFields /\ f2.text = f0.text
        /\ DOMAIN f2.slot \subseteq DOMAIN f0.slot
        /\ \A d \in DOMAIN f2.slot : f2.slot[d] = f0.slot[d]
    BY <1>2 DEF Goes, Keeping
  <1>5. DOMAIN f2.prior = DOMAIN f0.prior \cup (DOMAIN f0.slot \ DOMAIN f2.slot)
    BY <1>2, <1>3 DEF Goes, Keeping
  <1>6. ASSUME NEW d \in DOMAIN f2.prior
        PROVE  f2.prior[d] = IF d \in DOMAIN f0.slot THEN f0.slot[d] ELSE f0.prior[d]
    <2>1. CASE d \in goes
      BY <1>2, <1>3, <2>1 DEF Goes, Keeping
    <2>2. CASE d \notin goes
      BY <1>2, <2>2 DEF Goes, Keeping
    <2> QED BY <2>1, <2>2
  <1>7. f2.deferred = f0.deferred \cap DOMAIN f2.slot
    BY <1>2 DEF Goes, Keeping
  <1>8. \A d \in DOMAIN f0.slot : d \notin Upto(i) => d \in DOMAIN f2.slot
    BY <1>1, <1>2, <1>3 DEF Goes, Keeping
  <1>9. ASSUME NEW j \in 1 .. i
        PROVE  Stores(j) \subseteq DOMAIN f2.slot \/ Stores(j) \cap DOMAIN f2.slot = {}
    <2>1. CASE j = i
      BY <2>1, <1>2 DEF Goes
    <2>2. CASE j # i
      <3>1. j \in 1 .. i - 1 /\ j \in DOMAIN Segments
        BY <2>2, Places DEF Count
      <3>2. Stores(j) \cap Stores(i) = {}
        <4>1. \A a, b \in DOMAIN Segments : \A x \in Stores(a) : x \in Stores(b) => a = b
          BY Places
        <4> QED BY <4>1, <3>1, <2>2, <1>1
      <3>3. Stores(j) \subseteq DOMAIN f.slot \/ Stores(j) \cap DOMAIN f.slot = {}
        BY <3>1 DEF Keeping
      <3> QED BY <3>2, <3>3, <1>2, <1>3 DEF Goes
    <2> QED BY <2>1, <2>2
  <1>10. ASSUME NEW d \in Upto(i), d \in DOMAIN f2.slot, d \notin f2.deferred, NEW r \in Held(d)
         PROVE  r \in DOMAIN f2.slot
    <2>1. d \in DOMAIN f.slot \ f.deferred /\ d \notin goes
      BY <1>2, <1>10 DEF Goes
    <2>2. CASE d \in Stores(i)
      <3>1. goes = {}
        BY <1>2, <2>1, <2>2 DEF Goes
      <3> QED BY <3>1, <1>2, <1>10, <2>1, <2>2 DEF Goes
    <2>3. CASE d \in Upto(i - 1)
      <3>1. r \in DOMAIN f.slot
        BY <2>1, <2>3, <1>10 DEF Keeping
      <3>2. r \notin Stores(i)
        <4>1. PICK j \in 1 .. i - 1 : d \in Stores(j)
          BY <2>3 DEF Upto
        <4>2. j \in DOMAIN Segments /\ j < i /\ i \in DOMAIN Segments
          BY <1>1, Places DEF Count
        <4>3. PICK p \in DOMAIN Segments[j] : d = Segments[j][p]
          BY <4>1, <4>2, Places
        <4>4. r \in Reads(d)
          BY <1>10 DEF Held
        <4>5. \/ \E l \in DOMAIN Segments : l < j /\ r \in Stores(l)
              \/ \E q \in DOMAIN Segments[j] : q < p /\ r = Segments[j][q]
          BY <4>2, <4>3, <4>4, Behind
        <4>6. \E l \in DOMAIN Segments : l <= j /\ r \in Stores(l)
          BY <4>2, <4>5, Places
        <4>7. \A a, b \in DOMAIN Segments : \A x \in Stores(a) : x \in Stores(b) => a = b
          BY Places
        <4>8. i \in Nat /\ j \in Nat /\ DOMAIN Segments \subseteq Nat
          BY <4>2, Places
        <4> QED BY <4>2, <4>6, <4>7, <4>8
      <3> QED BY <3>1, <3>2, <1>2, <1>3 DEF Goes
    <2> QED BY <2>2, <2>3, <1>1, <1>10
  <1> QED BY <1>4, <1>5, <1>6, <1>7, <1>8, <1>9, <1>10 DEF Keeping

(* The pass as a whole.                                                    *)
LEMMA KeepTogetherAll ==
  ASSUME NEW f0, DOMAIN f0 = FollowFields, f0.deferred \subseteq DOMAIN f0.slot,
         DOMAIN f0.slot \subseteq Slots, DOMAIN f0.slot \cap DOMAIN f0.prior = {}
  PROVE  Keeping(FoldLeft(KeepTogether, f0, Segments), Count, f0)
  <1>1. PICK g : KeepFold!Runs(g, f0, Segments, Count)
    BY Places, KeepFold!FoldRuns DEF Count
  <1>2. /\ g[0] = f0 /\ \A i \in 1 .. Count : g[i] = KeepTogether(g[i - 1], Segments[i])
        /\ FoldLeft(KeepTogether, f0, Segments) = g[Count] /\ Count \in Nat
    <2>1. FoldLeft(KeepTogether, f0, Segments) = KeepFold!Fold(f0, Segments)
      BY KeepIsFold, Zenon
    <2>2. Count \in Nat
      BY Places DEF Count
    <2> QED BY <1>1, <2>1, <2>2 DEF KeepFold!Runs
  <1> DEFINE S == {i \in 0 .. Count : Keeping(g[i], i, f0)}
  <1>3. 0 \in S
    <2>1. Upto(0) = {} /\ 1 .. 0 = {}
      BY DEF Upto
    <2>2. Keeping(f0, 0, f0)
      BY <2>1 DEF Keeping
    <2> QED BY <1>2, <2>2
  <1>4. ASSUME NEW i \in 1 .. Count, i - 1 \in S PROVE i \in S
    <2>1. Keeping(g[i], i, f0)
      BY <1>2, <1>4, KeepingNext
    <2> QED BY <2>1, <1>2
  <1> HIDE DEF S
  <1>5. \A i \in 0 .. Count : i \in S
    BY <1>2, <1>3, <1>4, KeepFold!Induct
  <1>6. Count \in S
    BY <1>2, <1>5
  <1> QED BY <1>2, <1>6 DEF S
-----------------------------------------------------------------------------
(* The other operations on what a stack keeps, field by field.             *)

(* Nothing is kept, remembered or put off.                                 *)
Bare(k) ==
  DOMAIN k.slot = {} /\ DOMAIN k.prior = {} /\ k.deferred = {} /\ k.redo = {}

LEMMA ClearIs ==
  ASSUME NEW k, IsStack(k)
  PROVE  /\ IsStack(Clear(k)) /\ Bare(Clear(k)) /\ Clear(k).stamp = NoStamp
         /\ \A f \in {"at", "recent", "timed", "gate", "memo", "shown", "parked"} : Clear(k)[f] = k[f]
  <1>1. /\ IsStack(Clear(k)) /\ Clear(k).slot = <<>> /\ Clear(k).prior = <<>>
        /\ Clear(k).deferred = {} /\ Clear(k).redo = {} /\ Clear(k).stamp = NoStamp
        /\ \A f \in {"at", "recent", "timed", "gate", "memo", "shown", "parked"} : Clear(k)[f] = k[f]
    BY DEF IsStack, StackFields, Clear, Empty
  <1> QED BY <1>1 DEF Bare

LEMMA DropDerivedIs ==
  ASSUME NEW k, IsStack(k)
  PROVE  /\ IsStack(DropDerived(k)) /\ Bare(DropDerived(k)) /\ DropDerived(k).stamp = NoStamp
         /\ DropDerived(k).memo = {} /\ DropDerived(k).gate = "run"
         /\ \A f \in {"at", "recent", "timed", "parked"} : DropDerived(k)[f] = k[f]
  <1> DEFINE c == Clear(k)
  <1>1. /\ IsStack(c) /\ Bare(c) /\ c.stamp = NoStamp
        /\ \A f \in {"at", "recent", "timed", "parked"} : c[f] = k[f]
    BY ClearIs
  <1> HIDE DEF c
  <1>2. DropDerived(k) = [c EXCEPT !.memo = {}, !.gate = "run", !.shown = Nothing]
    BY DEF DropDerived, c
  <1> QED BY <1>1, <1>2 DEF IsStack, StackFields, Bare

LEMMA SyncIs ==
  ASSUME NEW k, IsStack(k), NEW p
  PROVE  /\ IsStack(Sync(k, p)) /\ Sync(k, p).stamp = Stamp(p)
         /\ \A f \in {"at", "recent", "gate", "memo", "shown", "parked"} : Sync(k, p)[f] = k[f]
         /\ \/ k.stamp = Stamp(p) /\ Sync(k, p) = k
            \/ k.stamp # Stamp(p) /\ Bare(Sync(k, p)) /\ Sync(k, p).timed = {}
  <1>1. CASE k.stamp = Stamp(p)
    BY <1>1 DEF Sync
  <1>2. CASE k.stamp # Stamp(p)
    <2> DEFINE k2 == Sync(k, p)
    <2>1. /\ IsStack(k2) /\ k2.slot = <<>> /\ k2.prior = <<>> /\ k2.deferred = {} /\ k2.redo = {}
          /\ k2.stamp = Stamp(p) /\ k2.timed = {}
          /\ \A f \in {"at", "recent", "gate", "memo", "shown", "parked"} : k2[f] = k[f]
      BY <1>2 DEF Sync, Empty, IsStack, StackFields
    <2> QED BY <1>2, <2>1 DEF Bare
  <1> QED BY <1>1, <1>2

(* The values that wait, and those built beside them, are remembered.      *)
Flushed(k, k2) ==
  LET out == (k.deferred \cup k.redo) \cap DOMAIN k.slot
  IN  /\ k2.deferred = {} /\ k2.redo = {}
      /\ DOMAIN k2.slot = DOMAIN k.slot \ out
      /\ \A d \in DOMAIN k2.slot : k2.slot[d] = k.slot[d]
      /\ DOMAIN k2.prior = DOMAIN k.prior \cup out
      /\ \A d \in DOMAIN k2.prior : k2.prior[d] = IF d \in out THEN k.slot[d] ELSE k.prior[d]

LEMMA FlushIs ==
  ASSUME NEW k, IsStack(k)
  PROVE  /\ IsStack(FlushDeferred(k)) /\ Flushed(k, FlushDeferred(k))
         /\ \A f \in {"at", "stamp", "recent", "timed", "gate", "memo", "shown", "parked"} :
               FlushDeferred(k)[f] = k[f]
  <1> DEFINE out   == (k.deferred \cup k.redo) \cap DOMAIN k.slot
             slot  == Restrict(k.slot, DOMAIN k.slot \ out)
             prior == Over(Restrict(k.slot, out), k.prior)
             k2    == FlushDeferred(k)
  <1>1. k2 = [k EXCEPT !.slot = slot, !.prior = prior, !.deferred = {}, !.redo = {}]
    BY Zenon DEF FlushDeferred
  <1> HIDE DEF out
  <1>2. /\ DOMAIN slot = DOMAIN k.slot \ out /\ \A d \in DOMAIN slot : slot[d] = k.slot[d]
        /\ DOMAIN prior = DOMAIN k.prior \cup out
        /\ \A d \in DOMAIN prior : prior[d] = IF d \in out THEN k.slot[d] ELSE k.prior[d]
    BY DEF Over, Restrict
  <1> HIDE DEF slot, prior
  <1>3. /\ IsStack(k2) /\ k2.slot = slot /\ k2.prior = prior /\ k2.deferred = {} /\ k2.redo = {}
        /\ \A f \in {"at", "stamp", "recent", "timed", "gate", "memo", "shown", "parked"} : k2[f] = k[f]
    BY <1>1 DEF IsStack, StackFields
  <1> HIDE DEF k2
  <1>4. Flushed(k, k2)
    BY <1>2, <1>3 DEF Flushed, out
  <1> QED BY <1>3, <1>4 DEF k2

LEMMA RebuildsIs ==
  ASSUME NEW k, IsStack(k), NEW p
  PROVE  /\ IsStack(Rebuilds(k, p)) /\ Rebuilds(k, p).gate = "run"
         /\ \A f \in {"at", "recent", "timed", "memo", "parked"} : Rebuilds(k, p)[f] = k[f]
         /\ \/ Flushed(k, Rebuilds(k, p)) /\ Rebuilds(k, p).stamp = k.stamp
            \/ Bare(Rebuilds(k, p)) /\ Rebuilds(k, p).stamp = NoStamp
  <1> DEFINE c  == IF k.stamp[1] = p.lowering THEN FlushDeferred(k) ELSE Clear(k)
             k2 == Rebuilds(k, p)
  <1>1. /\ IsStack(c)
        /\ \A f \in {"at", "recent", "timed", "memo", "parked"} : c[f] = k[f]
        /\ \/ Flushed(k, c) /\ c.stamp = k.stamp
           \/ Bare(c) /\ c.stamp = NoStamp
    <2>1. CASE k.stamp[1] = p.lowering
      BY <2>1, FlushIs
    <2>2. CASE k.stamp[1] # p.lowering
      BY <2>2, ClearIs
    <2> QED BY <2>1, <2>2
  <1>2. k2 = [c EXCEPT !.gate = "run", !.shown = Nothing]
    BY DEF Rebuilds
  <1> HIDE DEF c, k2
  <1>3. /\ IsStack(k2) /\ k2.gate = "run"
        /\ \A f \in {"at", "stamp", "slot", "prior", "deferred", "redo", "recent", "timed", "memo", "parked"} :
              k2[f] = c[f]
    BY <1>1, <1>2 DEF IsStack, StackFields
  <1>4. Flushed(k, c) => Flushed(k, k2)
    BY <1>3 DEF Flushed
  <1>5. Bare(c) => Bare(k2)
    BY <1>3 DEF Bare
  <1> QED BY <1>1, <1>3, <1>4, <1>5 DEF k2

(* What an edit leaves: the seed, gone over.                               *)
Installed(k, e, k2) ==
  \E f0, f :
    /\ Seeded(k, e, f0) /\ Keeping(f, Count, f0)
    /\ k2.slot = f.slot /\ k2.prior = f.prior /\ k2.deferred = f.deferred
    /\ k2.redo = IF f.deferred = {} THEN {} ELSE Slots \ DOMAIN f.slot

LEMMA FollowIs ==
  ASSUME NEW k, IsStack(k), DOMAIN k.slot \subseteq Slots, NEW e
  PROVE  /\ IsStack(Follow(k, e)) /\ Follow(k, e).gate = "run" /\ Follow(k, e).memo = {}
         /\ Follow(k, e).at = k.at /\ Follow(k, e).parked = k.parked
         /\ Follow(k, e).timed = k.timed \/ Follow(k, e).timed = {}
         /\ \/ /\ e.old.lowering = 0
               /\ Bare(Follow(k, e)) /\ Follow(k, e).stamp = NoStamp
            \/ /\ e.old.lowering # 0
               /\ Installed(k, e, Follow(k, e)) /\ Follow(k, e).stamp = Stamp(e.new)
  <1>1. CASE e.old.lowering = 0
    <2>1. Follow(k, e) = DropDerived(k)
      BY <1>1 DEF Follow
    <2> QED BY <1>1, <2>1, DropDerivedIs
  <1>2. CASE e.old.lowering # 0
    <2> DEFINE f0 == Seed(k, e)
               f  == FoldLeft(KeepTogether, f0, Segments)
               c  == DropDerived(k)
               k2 == Follow(k, e)
    <2>1. k2 = Install(k, e, f)
      BY <1>2 DEF Follow
    <2>2. Seeded(k, e, f0)
      BY SeedIs
    <2> HIDE DEF f0
    <2>3. /\ DOMAIN f0 = FollowFields /\ f0.deferred \subseteq DOMAIN f0.slot
          /\ DOMAIN f0.slot \subseteq Slots /\ DOMAIN f0.slot \cap DOMAIN f0.prior = {}
      BY <2>2 DEF Seeded, Has
    <2>4. Keeping(f, Count, f0)
      BY <2>3, KeepTogetherAll
    <2>5. /\ IsStack(c) /\ c.gate = "run" /\ c.memo = {}
          /\ \A x \in {"at", "recent", "timed", "parked"} : c[x] = k[x]
      BY DropDerivedIs
    <2> HIDE DEF f, c, k2
    <2>6. k2 = [c EXCEPT
                  !.stamp = Stamp(e.new), !.slot = f.slot, !.prior = f.prior, !.deferred = f.deferred,
                  !.redo = IF f.deferred = {} THEN {} ELSE Slots \ DOMAIN f.slot,
                  !.timed = IF e.new.lowering = e.old.lowering THEN @ ELSE {},
                  !.recent = @ \/ e.live]
      BY <2>1, Zenon DEF Install, c
    <2>7. /\ IsStack(k2) /\ k2.gate = "run" /\ k2.memo = {} /\ k2.at = k.at /\ k2.parked = k.parked
          /\ k2.stamp = Stamp(e.new)
          /\ k2.slot = f.slot /\ k2.prior = f.prior /\ k2.deferred = f.deferred
          /\ k2.redo = IF f.deferred = {} THEN {} ELSE Slots \ DOMAIN f.slot
          /\ k2.timed = c.timed \/ k2.timed = {}
      BY <2>5, <2>6 DEF IsStack, StackFields
    <2>8. Installed(k, e, k2)
      BY <2>2, <2>4, <2>7 DEF Installed
    <2> QED BY <1>2, <2>5, <2>7, <2>8 DEF k2
  <1> QED BY <1>1, <1>2

LEMMA FinishIs ==
  ASSUME NEW m, Machine(m)
  PROVE  /\ IsStack(Finish(m)) /\ Finish(m).gate = "settled"
         /\ \A f \in {"at", "stamp", "slot", "prior", "deferred", "redo", "recent", "timed", "parked"} :
               Finish(m)[f] = m.tab[f]
  <1> DEFINE captured == [d \in Captures |-> m.regs[d].is]
             answer == Answer(m.tab, m.text, captured)
  <1>1. Finish(m) =
          IF m.failed
          THEN [m.tab EXCEPT !.gate = "settled", !.shown = [seen |-> Contents(m.regs), answer |-> <<>>]]
          ELSE [m.tab EXCEPT !.gate = "settled",
                             !.memo = {[with |-> captured, answer |-> answer]},
                             !.shown = [seen |-> Contents(m.regs), answer |-> answer]]
    BY Zenon DEF Finish
  <1> HIDE DEF captured, answer
  <1>2. CASE m.failed
    <2>1. Finish(m) = [m.tab EXCEPT !.gate = "settled", !.shown = [seen |-> Contents(m.regs), answer |-> <<>>]]
      BY <1>1, <1>2
    <2> QED BY <2>1 DEF Machine, IsStack, StackFields
  <1>3. CASE ~m.failed
    <2>1. Finish(m) = [m.tab EXCEPT !.gate = "settled",
                             !.memo = {[with |-> captured, answer |-> answer]},
                             !.shown = [seen |-> Contents(m.regs), answer |-> answer]]
      BY <1>1, <1>3
    <2> QED BY <2>1 DEF Machine, IsStack, StackFields
  <1> QED BY <1>2, <1>3
-----------------------------------------------------------------------------
(* What a stack is, whatever its table is of.                              *)

Shape(k) ==
  /\ IsStack(k)
  /\ DOMAIN k.slot \subseteq Slots /\ DOMAIN k.prior \subseteq Slots
  /\ DOMAIN k.slot \cap DOMAIN k.prior = {}
  /\ k.deferred \subseteq DOMAIN k.slot /\ k.redo \subseteq Slots \ k.deferred
  /\ k.timed \subseteq Slots
  /\ k.gate \in {"run", "settled"} /\ k.at \in Stacks

(* What the fields of the table are made of.                               *)
Table == {"slot", "prior", "deferred", "redo", "timed"}

LEMMA SameShape ==
  ASSUME NEW k, Shape(k), NEW k2, IsStack(k2), \A f \in Table : k2[f] = k[f],
         k2.gate \in {"run", "settled"}, k2.at \in Stacks
  PROVE  Shape(k2)
  <1>1. /\ k2.slot = k.slot /\ k2.prior = k.prior /\ k2.deferred = k.deferred
        /\ k2.redo = k.redo /\ k2.timed = k.timed
    BY DEF Table
  <1> QED BY <1>1 DEF Shape

LEMMA BareShape ==
  ASSUME NEW k2, IsStack(k2), Bare(k2), k2.timed \subseteq Slots,
         k2.gate \in {"run", "settled"}, k2.at \in Stacks
  PROVE  Shape(k2)
  BY DEF Shape, Bare

LEMMA FlushShape ==
  ASSUME NEW k, Shape(k), NEW k2, IsStack(k2), Flushed(k, k2), k2.timed = k.timed,
         k2.gate \in {"run", "settled"}, k2.at \in Stacks
  PROVE  Shape(k2)
  BY DEF Shape, Flushed

LEMMA RebuildsShape ==
  ASSUME NEW k, Shape(k), NEW p
  PROVE  Shape(Rebuilds(k, p))
  <1> DEFINE k2 == Rebuilds(k, p)
  <1>1. /\ IsStack(k2) /\ k2.gate = "run" /\ k2.at = k.at /\ k2.timed = k.timed
        /\ Flushed(k, k2) \/ Bare(k2)
    BY RebuildsIs DEF Shape
  <1> HIDE DEF k2
  <1>2. k2.timed \subseteq Slots /\ k2.gate \in {"run", "settled"} /\ k2.at \in Stacks
    BY <1>1 DEF Shape
  <1>3. Shape(k2)
    BY <1>1, <1>2, FlushShape, BareShape
  <1> QED BY <1>3 DEF k2

LEMMA SyncShape ==
  ASSUME NEW k, Shape(k), NEW p
  PROVE  Shape(Sync(k, p))
  <1> DEFINE k2 == Sync(k, p)
  <1>1. /\ IsStack(k2) /\ k2.at = k.at /\ k2.gate = k.gate
        /\ k2 = k \/ (Bare(k2) /\ k2.timed = {})
    BY SyncIs DEF Shape
  <1> HIDE DEF k2
  <1>2. k2.gate \in {"run", "settled"} /\ k2.at \in Stacks
    BY <1>1 DEF Shape
  <1>3. Shape(k2)
    BY <1>1, <1>2, BareShape
  <1> QED BY <1>3 DEF k2

LEMMA DropShape ==
  ASSUME NEW k, Shape(k)
  PROVE  Shape(DropDerived(k))
  <1> DEFINE k2 == DropDerived(k)
  <1>1. IsStack(k2) /\ Bare(k2) /\ k2.at = k.at /\ k2.gate = "run" /\ k2.timed = k.timed
    BY DropDerivedIs DEF Shape
  <1> HIDE DEF k2
  <1>2. Shape(k2)
    BY <1>1, BareShape DEF Shape
  <1> QED BY <1>2 DEF k2

(* A run keeps what is kept, adds what it builds and remembers no more.    *)
LEMMA ExecuteShape ==
  ASSUME NEW k, Shape(k), NEW p
  PROVE  Shape(Execute(k, p)) /\ Execute(k, p).gate = "settled"
  <1>1. PICK g : Steps(g, k, p)
    BY RunSteps
  <1> DEFINE m  == g[Count]
             k2 == Execute(k, p)
  <1>2. Along(m, Count, k, p.text)
    <2>1. Count \in 0 .. Count
      BY Places DEF Count
    <2> QED BY <1>1, <2>1, RunAlong DEF Shape
  <1>3. k2 = Finish(m)
    BY <1>1 DEF Steps
  <1> HIDE DEF m
  <1>4. /\ IsStack(k2) /\ k2.gate = "settled"
        /\ \A f \in {"at", "slot", "prior", "deferred", "redo", "timed"} : k2[f] = m.tab[f]
    BY <1>2, <1>3, FinishIs DEF Along
  <1> HIDE DEF k2
  <1>5. /\ k2.at = k.at /\ k2.deferred = k.deferred /\ k2.redo = k.redo
        /\ k2.slot = m.tab.slot /\ k2.prior = m.tab.prior /\ k2.timed = m.tab.timed
    BY <1>2, <1>4 DEF Along, Aside, StackFields
  <1>6. DOMAIN k2.slot \subseteq Slots /\ DOMAIN k.slot \subseteq DOMAIN k2.slot
    BY <1>2, <1>5 DEF Along, Shape, Upto
  <1>7. DOMAIN k2.prior \subseteq Slots /\ DOMAIN k2.slot \cap DOMAIN k2.prior = {}
    BY <1>2, <1>5 DEF Along, Shape
  <1>8. k2.timed \subseteq Slots
    BY <1>2, <1>5 DEF Along, Shape
  <1>9. Shape(k2) /\ k2.gate = "settled"
    BY <1>4, <1>5, <1>6, <1>7, <1>8 DEF Shape
  <1> QED BY <1>9 DEF k2

LEMMA FollowShape ==
  ASSUME NEW k, Shape(k), NEW e
  PROVE  Shape(Follow(k, e))
  <1> DEFINE k2 == Follow(k, e)
  <1>1. /\ IsStack(k2) /\ k2.gate = "run" /\ k2.at = k.at
        /\ k2.timed = k.timed \/ k2.timed = {}
        /\ Bare(k2) \/ Installed(k, e, k2)
    BY FollowIs DEF Shape
  <1> HIDE DEF k2
  <1>2. k2.timed \subseteq Slots /\ k2.gate \in {"run", "settled"} /\ k2.at \in Stacks
    BY <1>1 DEF Shape
  <1>3. CASE Bare(k2)
    BY <1>1, <1>2, <1>3, BareShape DEF k2
  <1>4. ASSUME Installed(k, e, k2) PROVE Shape(k2)
    <2>1. PICK f0, f :
            /\ Seeded(k, e, f0) /\ Keeping(f, Count, f0)
            /\ k2.slot = f.slot /\ k2.prior = f.prior /\ k2.deferred = f.deferred
            /\ k2.redo = IF f.deferred = {} THEN {} ELSE Slots \ DOMAIN f.slot
      BY <1>4 DEF Installed
    <2>2. DOMAIN f0.slot \cup DOMAIN f0.prior \subseteq Slots /\ DOMAIN f0.slot \cap DOMAIN f0.prior = {}
      BY <2>1 DEF Seeded, Has, Shape
    <2>3. /\ DOMAIN f.slot \subseteq Slots /\ DOMAIN f.prior \subseteq Slots
          /\ DOMAIN f.slot \cap DOMAIN f.prior = {} /\ f.deferred \subseteq DOMAIN f.slot
      BY <2>1, <2>2 DEF Keeping
    <2>4. k2.redo \subseteq Slots \ k2.deferred
      BY <2>1, <2>3
    <2> QED BY <1>1, <1>2, <2>1, <2>3, <2>4 DEF Shape
  <1> QED BY <1>1, <1>3, <1>4 DEF k2
-----------------------------------------------------------------------------
(* A step of the program, seen from one stack.                             *)

(* k2 is k with another verdict, context or shade: the table is the same.  *)
Marked(k, k2) ==
  /\ IsStack(k2) /\ \A f \in Table \cup {"stamp"} : k2[f] = k[f]
  /\ k2.gate \in {"run", "settled"} /\ k2.at \in Stacks

(* k2 has nothing of what k kept.                                          *)
Emptied(k2) ==
  /\ IsStack(k2) /\ Bare(k2) /\ k2.timed \subseteq Slots
  /\ k2.gate \in {"run", "settled"} /\ k2.at \in Stacks

Comes(k, k2) ==
  \/ Marked(k, k2)
  \/ Emptied(k2)
  \/ \E p : k2 = Rebuilds(k, p)
  \/ \E p : k2 = Execute(Sync(k, p), p)
  \/ \E p, q : k2 = Execute(Sync(Rebuilds(k, p), q), q)
  \/ \E e : k2 = Follow(k, e)

LEMMA ComesShape ==
  ASSUME NEW k, Shape(k), NEW k2, Comes(k, k2)
  PROVE  Shape(k2)
  <1>1. CASE Marked(k, k2)
    BY <1>1, SameShape DEF Marked
  <1>2. CASE Emptied(k2)
    BY <1>2, BareShape DEF Emptied
  <1>3. CASE \E p : k2 = Rebuilds(k, p)
    BY <1>3, RebuildsShape
  <1>4. CASE \E p : k2 = Execute(Sync(k, p), p)
    BY <1>4, SyncShape, ExecuteShape
  <1>5. CASE \E p, q : k2 = Execute(Sync(Rebuilds(k, p), q), q)
    BY <1>5, RebuildsShape, SyncShape, ExecuteShape
  <1>6. CASE \E e : k2 = Follow(k, e)
    BY <1>6, FollowShape
  <1> QED BY <1>1, <1>2, <1>3, <1>4, <1>5, <1>6 DEF Comes

Shapes == Main \in Live /\ Live \subseteq Stacks /\ \A s \in Live : Shape(stack[s])

LEMMA StandsIs ==
  ASSUME NEW k, Shape(k)
  PROVE  Marked(k, k)
  BY DEF Marked, Shape

LEMMA ToldIs ==
  ASSUME NEW k, Shape(k)
  PROVE  Marked(k, Told(k))
  BY DEF Told, Marked, Shape, IsStack, StackFields, Table

LEMMA QuietIs ==
  ASSUME NEW k, Shape(k)
  PROVE  Marked(k, [k EXCEPT !.recent = FALSE])
  BY DEF Marked, Shape, IsStack, StackFields, Table

LEMMA ForkIs ==
  ASSUME NEW k, Shape(k), NEW s \in Stacks
  PROVE  Marked(k, [k EXCEPT !.at = s])
  BY DEF Marked, Shape, IsStack, StackFields, Table

LEMMA DropIs ==
  ASSUME NEW k, Shape(k)
  PROVE  Emptied(DropDerived(k))
  BY DropDerivedIs DEF Emptied, Shape

LEMMA LeftIs ==
  ASSUME NEW k, Shape(k)
  PROVE  Marked(k, Left(k)) \/ Emptied(Left(k))
  <1> DEFINE c == DropDerived(k)
             k2 == [c EXCEPT !.parked = TRUE]
  <1>1. Left(k) = k2 \/ Left(k) = k
    BY Zenon DEF Left
  <1>2. Emptied(c)
    BY DropIs
  <1> HIDE DEF c
  <1>3. Emptied(k2)
    BY <1>2 DEF Emptied, IsStack, StackFields, Bare
  <1> QED BY <1>1, <1>3, StandsIs

LEMMA RestoreIs ==
  ASSUME NEW k, Shape(k), NEW at \in Stacks
  PROVE  Emptied([DropDerived(k) EXCEPT !.at = at, !.parked = FALSE])
  <1> DEFINE c == DropDerived(k)
             k2 == [c EXCEPT !.at = at, !.parked = FALSE]
  <1>2. Emptied(c)
    BY DropIs
  <1> HIDE DEF c
  <1>3. Emptied(k2)
    BY <1>2 DEF Emptied, IsStack, StackFields, Bare
  <1> QED BY <1>3 DEF c

LEMMA NewIs ==
  Emptied(NewStack(Main))
  <1> DEFINE k == NewStack(Main)
  <1>1. IsStack(k) /\ k.slot = <<>> /\ k.prior = <<>> /\ k.deferred = {} /\ k.redo = {}
        /\ k.timed = {} /\ k.gate = "run" /\ k.at = Main
    BY DEF NewStack, IsStack, StackFields
  <1> HIDE DEF k
  <1>2. Emptied(k)
    BY <1>1, ProgramAssumption DEF Emptied, Bare
  <1> QED BY <1>2 DEF k

LEMMA StepComes ==
  ASSUME Shapes, [Next]_vars
  PROVE  /\ Main \in Live' /\ Live' \subseteq Stacks
         /\ \A t \in Live' : \E s \in Live : Comes(stack[s], stack'[t])
  <1>0. Main \in Live /\ Live \subseteq Stacks /\ \A s \in Live : Shape(stack[s])
    BY DEF Shapes
  <1> DEFINE Goal == /\ Main \in Live' /\ Live' \subseteq Stacks
                     /\ \A t \in Live' : \E s \in Live : Comes(stack[s], stack'[t])
  <1>a. ASSUME Live' = Live, \A t \in Live : Comes(stack[t], stack'[t])
        PROVE  Goal
    BY <1>0, <1>a
  <1> HIDE DEF Goal
  <1> SUFFICES Goal
    BY DEF Goal
  <1>b. \A s \in Live : Comes(stack[s], stack[s])
    BY <1>0, StandsIs DEF Comes
  <1>1. ASSUME NEW s \in Live, Run(s) PROVE Goal
    <2> DEFINE k == IF Due(stack[s]) /\ ~Bounded THEN Rebuilds(stack[s], program) ELSE stack[s]
    <2>1. stack' = [stack EXCEPT ![s] = Execute(Sync(k, program'), program')]
      BY <1>1, Zenon DEF Run
    <2>2. k = stack[s] \/ k = Rebuilds(stack[s], program)
      BY Zenon
    <2> HIDE DEF k
    <2>3. Comes(stack[s], Execute(Sync(k, program'), program'))
      BY <2>2, Zenon DEF Comes
    <2>4. Live' = Live /\ stack'[s] = Execute(Sync(k, program'), program')
          /\ \A t \in Live : t # s => stack'[t] = stack[t]
      BY <2>1 DEF Live
    <2>5. \A t \in Live : Comes(stack[t], stack'[t])
      BY <2>3, <2>4, <1>b
    <2> QED BY <2>4, <2>5, <1>a
  <1>2. ASSUME NEW s \in Live, NEW d, NEW live, NEW retargeted, Patch(s, d, live, retargeted) PROVE Goal
    <2>1. \E e : stack' = [t \in Live |-> IF t = s THEN Follow(stack[t], e) ELSE Told(stack[t])]
      BY <1>2, Zenon DEF Patch
    <2>2. PICK e : stack' = [t \in Live |-> IF t = s THEN Follow(stack[t], e) ELSE Told(stack[t])]
      BY <2>1
    <2>3. Live' = Live
      BY <2>2 DEF Live
    <2>4. ASSUME NEW t \in Live PROVE Comes(stack[t], stack'[t])
      <3>1. stack'[t] = Follow(stack[t], e) \/ stack'[t] = Told(stack[t])
        BY <2>2
      <3>2. Marked(stack[t], Told(stack[t]))
        BY <1>0, ToldIs
      <3> QED BY <3>1, <3>2 DEF Comes
    <2> QED BY <2>3, <2>4, <1>a
  <1>3. ASSUME NEW s \in Live, NEW d, NEW cleared, Recompile(s, d, cleared) PROVE Goal
    <2>1. \E e : stack' = [t \in Live |-> IF t = s THEN Follow(stack[t], e) ELSE Left(stack[t])]
      BY <1>3, Zenon DEF Recompile
    <2>2. PICK e : stack' = [t \in Live |-> IF t = s THEN Follow(stack[t], e) ELSE Left(stack[t])]
      BY <2>1
    <2>3. Live' = Live
      BY <2>2 DEF Live
    <2>4. ASSUME NEW t \in Live PROVE Comes(stack[t], stack'[t])
      <3>1. stack'[t] = Follow(stack[t], e) \/ stack'[t] = Left(stack[t])
        BY <2>2
      <3>2. Marked(stack[t], Left(stack[t])) \/ Emptied(Left(stack[t]))
        BY <1>0, LeftIs
      <3> QED BY <3>1, <3>2 DEF Comes
    <2> QED BY <2>3, <2>4, <1>a
  <1>4. ASSUME Quiet PROVE Goal
    <2>1. Live' = Live /\ \A t \in Live : stack'[t] = [stack[t] EXCEPT !.recent = FALSE]
      BY <1>4 DEF Quiet, Live
    <2>2. \A t \in Live : Comes(stack[t], stack'[t])
      BY <2>1, <1>0, QuietIs DEF Comes
    <2> QED BY <2>1, <2>2, <1>a
  <1>5. ASSUME NEW s \in Live, FlushStaticRebuilds(s) PROVE Goal
    <2>1. Live' = Live /\ stack'[s] = Rebuilds(stack[s], program)
          /\ \A t \in Live : t # s => stack'[t] = stack[t]
      BY <1>5 DEF FlushStaticRebuilds, Live
    <2>2. \A t \in Live : Comes(stack[t], stack'[t])
      BY <2>1, <1>b DEF Comes
    <2> QED BY <2>1, <2>2, <1>a
  <1>6. ASSUME NEW s \in Stacks, CreateStack(s) PROVE Goal
    <2>1. Live' = Live \cup {s} /\ s \notin Live /\ stack'[s] = NewStack(Main)
          /\ \A t \in Live : stack'[t] = stack[t]
      BY <1>6 DEF CreateStack, Live, Over, Only
    <2>2. Comes(stack[Main], NewStack(Main))
      BY NewIs DEF Comes
    <2> QED BY <2>1, <2>2, <1>0, <1>b DEF Goal
  <1>7. ASSUME NEW src \in Live, NEW s \in Stacks, ForkExecution(src, s) PROVE Goal
    <2>1. Live' = Live \cup {s} /\ s \notin Live /\ stack'[s] = [stack[src] EXCEPT !.at = s]
          /\ \A t \in Live : stack'[t] = stack[t]
      BY <1>7 DEF ForkExecution, Live, Over, Only
    <2>2. Comes(stack[src], [stack[src] EXCEPT !.at = s])
      BY <1>0, ForkIs DEF Comes
    <2> QED BY <2>1, <2>2, <1>0, <1>b DEF Goal
  <1>8. ASSUME NEW s \in Live, DropStack(s) PROVE Goal
    <2>1. Live' = Live \ {s} /\ s # Main /\ \A t \in Live' : stack'[t] = stack[t]
      BY <1>8 DEF DropStack, Live, Restrict
    <2> QED BY <2>1, <1>0, <1>b DEF Goal
  <1>9. ASSUME NEW dst \in Live, NEW src \in Live, RestoreExecution(dst, src) PROVE Goal
    <2>1. Live' = Live
      BY <1>9 DEF RestoreExecution, Live
    <2>2. ASSUME NEW t \in Live PROVE \E s \in Live : Comes(stack[s], stack'[t])
      <3>1. \/ stack'[t] = [DropDerived(stack[src]) EXCEPT !.at = stack[dst].at, !.parked = FALSE]
            \/ stack'[t] = DropDerived(stack[t])
            \/ stack'[t] = stack[t]
        BY <1>9 DEF RestoreExecution
      <3>2. Emptied([DropDerived(stack[src]) EXCEPT !.at = stack[dst].at, !.parked = FALSE])
        <4>1. stack[dst].at \in Stacks
          BY <1>0 DEF Shape
        <4> QED BY <4>1, <1>0, RestoreIs
      <3>3. Emptied(DropDerived(stack[t]))
        BY <1>0, DropIs
      <3> QED BY <3>1, <3>2, <3>3, <1>b DEF Comes
    <2> QED BY <2>1, <2>2, <1>0 DEF Goal
  <1>10. ASSUME UNCHANGED vars PROVE Goal
    BY <1>10, <1>b, <1>a DEF vars, Live
  <1> QED BY <1>1, <1>2, <1>3, <1>4, <1>5, <1>6, <1>7, <1>8, <1>9, <1>10 DEF Next
-----------------------------------------------------------------------------
(* The lowerings.                                                          *)

(* The least number not in use: it is new, and no larger than there are    *)
(* numbers.                                                                *)
LEMMA UnusedIs ==
  ASSUME NEW ids, IsFiniteSet(ids), 0 \in ids
  PROVE  Unused(ids) \in 1 .. Cardinality(ids) /\ Unused(ids) \notin ids
  <1> DEFINE n == Cardinality(ids)
             S == (1 .. n + 1) \ ids
  <1>1. n \in Nat /\ IsFiniteSet(ids \ {0}) /\ Cardinality(ids \ {0}) = n - 1
    BY FS_CardinalityType, FS_RemoveElement
  <1> HIDE DEF n
  <1>2. \E x \in 1 .. n : x \notin ids
    <2>1. SUFFICES ASSUME \A x \in 1 .. n : x \in ids PROVE FALSE
      OBVIOUS
    <2>2. 1 .. n \subseteq ids \ {0}
      BY <1>1, <2>1
    <2>3. Cardinality(1 .. n) <= n - 1
      BY <1>1, <2>2, FS_Subset
    <2>4. Cardinality(1 .. n) = n
      BY <1>1, FS_Interval
    <2> QED BY <1>1, <2>3, <2>4
  <1>3. PICK x \in 1 .. n : x \notin ids
    BY <1>2
  <1>4. x \in S /\ S \in SUBSET Nat /\ S # {}
    BY <1>1, <1>3
  <1>5. PICK m \in S : \A y \in S : ~(y < m)
    BY <1>4, RunFold!LeastMember
  <1>6. \A y \in S : m <= y
    BY <1>4, <1>5
  <1>7. Min(S) \in S /\ \A y \in S : Min(S) <= y
    BY <1>6, Zenon DEF Min
  <1>8. Min(S) \in 1 .. n /\ Min(S) \notin ids
    BY <1>1, <1>3, <1>4, <1>7
  <1> QED BY <1>8 DEF Unused, n

(* The lowerings in use, and the one there is when there is none.          *)
Lowerings == {stack[s].stamp[1] : s \in Live} \cup {program.lowering, 0}

LEMMA OneMore ==
  ASSUME NEW S, IsFiniteSet(S), NEW x
  PROVE  /\ IsFiniteSet(S \cup {x}) /\ Cardinality(S \cup {x}) \in Nat
         /\ Cardinality(S \cup {x}) <= Cardinality(S) + 1
  <1>1. /\ IsFiniteSet(S \cup {x})
        /\ Cardinality(S \cup {x}) = IF x \in S THEN Cardinality(S) ELSE Cardinality(S) + 1
    BY FS_AddElement
  <1>2. Cardinality(S) \in Nat /\ Cardinality(S \cup {x}) \in Nat
    BY <1>1, FS_CardinalityType
  <1> QED BY <1>1, <1>2

LEMMA LoweringsFew ==
  ASSUME Live \subseteq Stacks
  PROVE  /\ IsFiniteSet(Lowerings) /\ 0 \in Lowerings
         /\ Cardinality(Lowerings) \in Nat /\ Cardinality(Stacks) \in Nat
         /\ Cardinality(Lowerings) <= Cardinality(Stacks) + 2
  <1> DEFINE T == {stack[s].stamp[1] : s \in Live}
             f == [s \in Live |-> stack[s].stamp[1]]
  <1>1. IsFiniteSet(Live) /\ Cardinality(Live) <= Cardinality(Stacks)
    BY ProgramAssumption, FS_Subset
  <1>2. f \in Surjection(Live, T)
    BY DEF Surjection
  <1> HIDE DEF T, f
  <1>3. IsFiniteSet(T) /\ Cardinality(T) <= Cardinality(Live)
    BY <1>1, <1>2, FS_Surjection
  <1>4. Cardinality(T) \in Nat /\ Cardinality(Live) \in Nat /\ Cardinality(Stacks) \in Nat
    BY <1>1, <1>3, ProgramAssumption, FS_CardinalityType
  <1>5. /\ IsFiniteSet(T \cup {program.lowering})
        /\ Cardinality(T \cup {program.lowering}) <= Cardinality(T) + 1
        /\ Cardinality(T \cup {program.lowering}) \in Nat
    BY <1>3, OneMore
  <1>6. /\ IsFiniteSet((T \cup {program.lowering}) \cup {0})
        /\ Cardinality((T \cup {program.lowering}) \cup {0}) <= Cardinality(T \cup {program.lowering}) + 1
        /\ Cardinality((T \cup {program.lowering}) \cup {0}) \in Nat
    BY <1>5, OneMore
  <1>7. Lowerings = (T \cup {program.lowering}) \cup {0}
    BY DEF Lowerings, T
  <1> QED BY <1>1, <1>3, <1>4, <1>5, <1>6, <1>7

ProgramFields == {"text", "lowering", "revision"}

IsProgram(p) ==
  /\ DOMAIN p = ProgramFields
  /\ p.text \in [Decls -> {0, 1}] /\ p.lowering \in 0 .. Cardinality(Stacks) + 2

LEMMA LoweredIs ==
  ASSUME Live \subseteq Stacks, NEW p, IsProgram(p)
  PROVE  /\ IsProgram(Lowered(p))
         /\ Lowered(p).text = p.text /\ Lowered(p).revision = p.revision
         /\ \/ p.lowering # 0 /\ Lowered(p) = p
            \/ /\ p.lowering = 0
               /\ Lowered(p).lowering \in Nat \ {0} /\ Lowered(p).lowering \notin Lowerings
  <1> DEFINE x == Unused({stack[s].stamp[1] : s \in Live} \cup {program.lowering, 0})
             q == Lowered(p)
  <1>1. x \in Nat \ {0} /\ x \in 0 .. Cardinality(Stacks) + 2 /\ x \notin Lowerings
    <2>1. x = Unused(Lowerings)
      BY DEF Lowerings
    <2>2. x \in 1 .. Cardinality(Lowerings) /\ x \notin Lowerings
      BY <2>1, LoweringsFew, UnusedIs
    <2> HIDE DEF x
    <2> QED BY <2>2, LoweringsFew
  <1>2. q = IF p.lowering # 0 THEN p ELSE [p EXCEPT !.lowering = x]
    BY Zenon DEF Lowered
  <1> HIDE DEF x, q
  <1>3. CASE p.lowering # 0
    BY <1>2, <1>3 DEF q
  <1>4. CASE p.lowering = 0
    <2>1. q = [p EXCEPT !.lowering = x]
      BY <1>2, <1>4
    <2>2. IsProgram(q) /\ q.text = p.text /\ q.revision = p.revision /\ q.lowering = x
      BY <2>1, <1>1 DEF IsProgram, ProgramFields
    <2> QED BY <1>1, <1>4, <2>2 DEF q
  <1> QED BY <1>3, <1>4

-----------------------------------------------------------------------------
(* The types.                                                              *)

IInv == Shapes /\ IsProgram(program) /\ edits \in 0 .. MaxEdits

LEMMA InitIInv ==
  Init => IInv
  <1> SUFFICES ASSUME Init PROVE IInv
    OBVIOUS
  <1>1. Live = {Main} /\ stack[Main] = NewStack(Main)
    BY DEF Init, Live, Only
  <1>2. Shape(NewStack(Main))
    BY NewIs, BareShape DEF Emptied
  <1>3. Shapes
    BY <1>1, <1>2, ProgramAssumption DEF Shapes
  <1>4. Cardinality(Stacks) \in Nat
    BY ProgramAssumption, FS_CardinalityType
  <1>5. IsProgram(program)
    BY <1>4 DEF Init, IsProgram, ProgramFields
  <1>6. edits \in 0 .. MaxEdits
    BY ProgramAssumption DEF Init
  <1> QED BY <1>3, <1>5, <1>6 DEF IInv

(* An edit of a declaration of a program.                                  *)
LEMMA EditedIs ==
  ASSUME NEW p, IsProgram(p), NEW d \in Decls, NEW revision, NEW lowering \in {p.lowering, 0}
  PROVE  IsProgram([p EXCEPT !.text[d] = Other(@), !.revision = revision, !.lowering = lowering])
  <1> DEFINE text == [p.text EXCEPT ![d] = Other(@)]
             q == [p EXCEPT !.text = text, !.revision = revision, !.lowering = lowering]
  <1>1. [p EXCEPT !.text[d] = Other(@), !.revision = revision, !.lowering = lowering] = q
    BY DEF IsProgram, ProgramFields
  <1>2. text \in [Decls -> {0, 1}]
    BY DEF IsProgram, Other
  <1>3. lowering \in 0 .. Cardinality(Stacks) + 2
    <2>1. Cardinality(Stacks) \in Nat
      BY ProgramAssumption, FS_CardinalityType
    <2> QED BY <2>1 DEF IsProgram
  <1> HIDE DEF text
  <1>4. IsProgram(q)
    BY <1>2, <1>3 DEF IsProgram, ProgramFields
  <1> QED BY <1>1, <1>4

LEMMA NextIInv ==
  IInv /\ [Next]_vars => IInv'
  <1> SUFFICES ASSUME IInv, [Next]_vars PROVE IInv'
    OBVIOUS
  <1>1. Shapes'
    <2>1. /\ Main \in Live' /\ Live' \subseteq Stacks
          /\ \A t \in Live' : \E s \in Live : Comes(stack[s], stack'[t])
      BY StepComes DEF IInv
    <2>2. \A s \in Live : Shape(stack[s])
      BY DEF IInv, Shapes
    <2>3. \A t \in Live' : Shape(stack'[t])
      BY <2>1, <2>2, ComesShape
    <2> QED BY <2>1, <2>3 DEF Shapes
  <1>2. Live \subseteq Stacks /\ IsProgram(program) /\ edits \in 0 .. MaxEdits /\ MaxEdits \in Nat
    BY ProgramAssumption DEF IInv, Shapes
  <1>3. Edited \subseteq Decls
    BY ProgramAssumption
  <1>4. ASSUME NEW s \in Live, Run(s) PROVE IsProgram(program)' /\ edits' = edits
    <2>1. IsProgram(Lowered(program))
      BY <1>2, LoweredIs
    <2>2. program' = Lowered(program) /\ edits' = edits
      BY <1>4 DEF Run
    <2> QED BY <2>1, <2>2
  <1>5. ASSUME NEW p, IsProgram(p) PROVE IsProgram(IF program.lowering = 0 THEN p ELSE Lowered(p))
    BY <1>2, <1>5, LoweredIs
  <1>6. ASSUME NEW s \in Live, NEW d \in Edited, NEW live, NEW retargeted, Patch(s, d, live, retargeted)
        PROVE  IsProgram(program)' /\ edits' \in 0 .. MaxEdits
    <2> DEFINE p == [program EXCEPT !.text[d] = Other(@), !.revision = @ + 1,
                                    !.lowering = IF retargeted THEN @ ELSE 0]
    <2>1. program' = (IF program.lowering = 0 THEN p ELSE Lowered(p)) /\ Edit(s, d)
      BY <1>6, Zenon DEF Patch
    <2>2. IsProgram(p)
      BY <1>2, <1>3, EditedIs
    <2> HIDE DEF p
    <2> QED BY <2>1, <2>2, <1>2, <1>5 DEF Edit
  <1>7. ASSUME NEW s \in Live, NEW d \in Edited, NEW cleared, Recompile(s, d, cleared)
        PROVE  IsProgram(program)' /\ edits' \in 0 .. MaxEdits
    <2> DEFINE p == [program EXCEPT !.text[d] = Other(@), !.revision = 0, !.lowering = 0]
    <2>1. program' = (IF program.lowering = 0 THEN p ELSE Lowered(p)) /\ Edit(s, d)
      BY <1>7, Zenon DEF Recompile
    <2>2. IsProgram(p)
      BY <1>2, <1>3, EditedIs
    <2> HIDE DEF p
    <2> QED BY <2>1, <2>2, <1>2, <1>5 DEF Edit
  <1>8. ASSUME UNCHANGED <<program, edits>> PROVE IsProgram(program)' /\ edits' \in 0 .. MaxEdits
    BY <1>2, <1>8
  <1>9. IsProgram(program)' /\ edits' \in 0 .. MaxEdits
    <2>1. UNCHANGED vars => UNCHANGED <<program, edits>>
      BY DEF vars
    <2>2. Quiet => UNCHANGED <<program, edits>>
      BY DEF Quiet
    <2>3. \A s : FlushStaticRebuilds(s) \/ CreateStack(s) \/ DropStack(s) => UNCHANGED <<program, edits>>
      BY DEF FlushStaticRebuilds, CreateStack, DropStack
    <2>4. \A s, t : ForkExecution(s, t) \/ RestoreExecution(s, t) => UNCHANGED <<program, edits>>
      BY DEF ForkExecution, RestoreExecution
    <2> QED BY <1>2, <1>4, <1>6, <1>7, <1>8, <2>1, <2>2, <2>3, <2>4 DEF Next
  <1> QED BY <1>1, <1>9 DEF IInv

LEMMA IInvImpliesTypeOK ==
  IInv => TypeOK
  BY DEF IInv, Shapes, Shape, IsProgram, TypeOK

LEMMA InductiveIInv ==
  Spec => []IInv
  <1>1. IInv /\ UNCHANGED vars => IInv'
    BY NextIInv
  <1> QED BY InitIInv, NextIInv, <1>1, PTL DEF Spec

(* The types, whatever is edited, run, forked and restored: the values     *)
(* kept are the program's and none is remembered besides, what a drag put  *)
(* off is kept until it is built, and the lowerings in use are few.        *)
THEOREM TypeCorrect ==
  Spec => []TypeOK
  BY InductiveIInv, IInvImpliesTypeOK, PTL
-----------------------------------------------------------------------------
(* What the values of a stack share.                                       *)

(* No slow value holds one stored with it.                                 *)
SlowApart ==
  \A i \in DOMAIN Segments : \A d \in Stores(i) \cap Slow : Held(d) \cap Stores(i) = {}

(* The tables of a stack whatever its stamp, since a drag, a flush and a   *)
(* run find them as they are: what a value holds is what its text reads; a *)
(* value that does not wait holds those kept beside it; of a segment, what *)
(* is remembered was made together, what holds another is kept when the    *)
(* other is, and what is to be built again takes along what it holds; and  *)
(* no value outlives, when a drag pauses, one it holds.                    *)
HoldsRead(vals) == \A d \in DOMAIN vals : DOMAIN vals[d].holds = Held(d)

HoldsKept(k) ==
  \A d \in DOMAIN k.slot \ k.deferred : \A r \in Held(d) :
     r \in DOMAIN k.slot /\ k.slot[d].holds[r] = k.slot[r].id

Beside(k, d, r) ==
  /\ d \in DOMAIN k.prior /\ r \in DOMAIN k.prior => k.prior[d].holds[r] = k.prior[r].id
  /\ r \in DOMAIN k.slot => d \in DOMAIN k.slot
  /\ d \in k.redo => r \in k.redo

Together(k) ==
  \A i \in DOMAIN Segments : \A d \in Stores(i) : \A r \in Held(d) \cap Stores(i) : Beside(k, d, r)

WaitsWith(k) ==
  \A d \in Slots : \A r \in Held(d) : r \in k.deferred \cup k.redo => d \in k.deferred \cup k.redo

Sharing(k) ==
  /\ HoldsRead(k.slot) /\ HoldsRead(k.prior)
  /\ HoldsKept(k) /\ Together(k) /\ WaitsWith(k)
  /\ k.deferred \subseteq Slow

LEMMA BareSharing ==
  ASSUME NEW k, Bare(k)
  PROVE  Sharing(k)
  BY DEF Bare, Sharing, HoldsRead, HoldsKept, Together, Beside, WaitsWith

LEMMA SameSharing ==
  ASSUME NEW k, NEW k2, Sharing(k), k2.slot = k.slot, k2.prior = k.prior,
         k2.deferred = k.deferred, k2.redo = k.redo
  PROVE  Sharing(k2)
  BY DEF Sharing, HoldsRead, HoldsKept, Together, Beside, WaitsWith

(* A pause: what is left does not hold what went.                          *)
LEMMA FlushSharing ==
  ASSUME SlowApart, NEW k, NEW k2, Shape(k), Sharing(k), Flushed(k, k2)
  PROVE  Sharing(k2)
  <1> DEFINE out == (k.deferred \cup k.redo) \cap DOMAIN k.slot
  <1>1. /\ k2.deferred = {} /\ k2.redo = {}
        /\ DOMAIN k2.slot = DOMAIN k.slot \ out
        /\ \A d \in DOMAIN k2.slot : k2.slot[d] = k.slot[d]
        /\ DOMAIN k2.prior = DOMAIN k.prior \cup out
        /\ \A d \in out : k2.prior[d] = k.slot[d]
        /\ \A d \in DOMAIN k.prior : d \notin out => k2.prior[d] = k.prior[d]
    BY DEF Flushed
  <1>2. /\ DOMAIN k.slot \subseteq Slots /\ DOMAIN k.slot \cap DOMAIN k.prior = {}
        /\ k.deferred \subseteq DOMAIN k.slot
    BY DEF Shape
  <1>3. HoldsRead(k2.slot) /\ HoldsRead(k2.prior)
    BY <1>1 DEF Sharing, HoldsRead
  <1>4. HoldsKept(k2)
    <2> SUFFICES ASSUME NEW d \in DOMAIN k2.slot, NEW r \in Held(d)
                 PROVE  r \in DOMAIN k2.slot /\ k2.slot[d].holds[r] = k2.slot[r].id
      BY DEF HoldsKept
    <2>1. d \in DOMAIN k.slot /\ d \in Slots /\ d \notin k.deferred /\ d \notin k.redo
      BY <1>1, <1>2
    <2>2. r \in DOMAIN k.slot /\ k.slot[d].holds[r] = k.slot[r].id
      BY <2>1 DEF Sharing, HoldsKept
    <2>3. r \notin k.deferred \cup k.redo
      BY <2>1 DEF Sharing, WaitsWith
    <2> QED BY <1>1, <2>2, <2>3
  <1>5. Together(k2)
    <2> SUFFICES ASSUME NEW i \in DOMAIN Segments, NEW d \in Stores(i), NEW r \in Held(d) \cap Stores(i)
                 PROVE  Beside(k2, d, r)
      BY DEF Together
    <2>1. d \notin k.deferred
      BY DEF SlowApart, Sharing
    <2>2. Beside(k, d, r)
      BY DEF Sharing, Together
    <2>3. d \in DOMAIN k.slot => r \in DOMAIN k.slot /\ k.slot[d].holds[r] = k.slot[r].id
      BY <2>1 DEF Sharing, HoldsKept
    <2>4. r \in DOMAIN k2.slot => d \in DOMAIN k2.slot
      BY <1>1, <2>1, <2>2 DEF Beside
    <2>5. ASSUME d \in DOMAIN k2.prior, r \in DOMAIN k2.prior
          PROVE  k2.prior[d].holds[r] = k2.prior[r].id
      <3>1. CASE d \in out
        <4>1. r \in DOMAIN k.slot /\ k.slot[d].holds[r] = k.slot[r].id /\ r \in out
          BY <3>1, <2>1, <2>2, <2>3 DEF Beside
        <4> QED BY <1>1, <3>1, <4>1
      <3>2. CASE d \notin out
        <4>1. d \in DOMAIN k.prior /\ d \notin DOMAIN k.slot
          BY <1>1, <1>2, <2>5, <3>2
        <4>2. r \notin out /\ r \in DOMAIN k.prior
          BY <4>1, <2>2, <2>5, <1>1 DEF Beside
        <4> QED BY <1>1, <2>2, <3>2, <4>1, <4>2 DEF Beside
      <3> QED BY <3>1, <3>2
    <2> QED BY <1>1, <2>4, <2>5 DEF Beside
  <1>6. WaitsWith(k2) /\ k2.deferred \subseteq Slow
    BY <1>1 DEF WaitsWith
  <1> QED BY <1>3, <1>4, <1>5, <1>6 DEF Sharing

(* What a declaration reaches, whatever it mentions reaches with it.       *)
LEMMA DepsMentioned ==
  ASSUME NEW text, NEW d \in Decls, NEW m \in Direct(text, d)
  PROVE  Deps(text, m) \subseteq Deps(text, d)
  <1> DEFINE there == {o \in Optional : text[o] # 0}
  <1>1. m \in Decls
    BY ProgramAssumption DEF Direct
  <1>2. \A x \in Decls : Deps(text, x) = Reached(there, x)
    <2> SUFFICES ASSUME NEW x \in Decls PROVE Deps(text, x) = Reached(there, x)
      OBVIOUS
    <2> DEFINE hit == {r \in Reach : r.there = there /\ r.from = x}
    <2>1. Deps(text, x) = UNION {r.to : r \in hit}
      BY Zenon DEF Deps
    <2>2. there \in SUBSET Optional
      OBVIOUS
    <2> HIDE DEF there
    <2>3. hit = {[there |-> there, from |-> x, to |-> Reached(there, x)]}
      BY <2>2 DEF Reach
    <2> HIDE DEF hit
    <2> QED BY <2>1, <2>3
  <1>3. m \in Mentions[d] \ (Optional \ there)
    BY DEF Direct
  <1>4. Reached(there, m) \subseteq Reached(there, d)
    <2> HIDE DEF there
    <2> QED BY <1>3 DEF Reached
  <1> HIDE DEF there
  <1> QED BY <1>1, <1>2, <1>4

(* An edit: a value it did not reach holds none it did.                    *)
LEMMA InstallSharing ==
  ASSUME SlowApart, NEW k, Shape(k), Sharing(k), NEW e, NEW k2, Installed(k, e, k2)
  PROVE  Sharing(k2)
  <1>1. PICK f0, f :
          /\ Seeded(k, e, f0) /\ Keeping(f, Count, f0)
          /\ k2.slot = f.slot /\ k2.prior = f.prior /\ k2.deferred = f.deferred
          /\ k2.redo = IF f.deferred = {} THEN {} ELSE Slots \ DOMAIN f.slot
    BY DEF Installed
  <1> DEFINE had(d) == d \in DOMAIN k.slot
  <1>2. /\ DOMAIN k.slot \subseteq Slots /\ Slots \subseteq Decls
        /\ \A d \in DOMAIN f0.slot \cup DOMAIN f0.prior : d \in DOMAIN k.slot
        /\ DOMAIN f0.slot \cap DOMAIN f0.prior = {}
    BY <1>1, Places DEF Shape, Seeded, Has
  <1>3. Upto(Count) = Slots
    BY Places DEF Upto, Count
  <1>4. /\ DOMAIN f.slot \subseteq DOMAIN f0.slot /\ f.deferred = f0.deferred \cap DOMAIN f.slot
        /\ DOMAIN f.prior \subseteq DOMAIN k.slot
        /\ f.deferred \subseteq Slow
    BY <1>1, <1>2 DEF Keeping, Seeded
  (* A literal holds nothing, and nothing holds it.                        *)
  <1>5. \A d \in Literals : d \in Slots => Held(d) = {}
    BY <1>2, ProgramAssumption DEF Held, Reads
  <1>6. \A d : \A r \in Held(d) : r \notin Literals /\ r \in Slots
    BY ProgramAssumption DEF Held, Reads
  (* What is kept, and what is remembered.                                 *)
  <1>7. ASSUME NEW d \in DOMAIN f0.slot
        PROVE  \/ f0.slot[d] = k.slot[d]
               \/ d \in Literals /\ f0.slot[d].holds = <<>>
    <2>1. f0.slot[d] = Literal(e, d) => f0.slot[d].holds = <<>>
      BY DEF Literal
    <2> QED BY <1>1, <2>1 DEF Seeded
  <1>8. ASSUME NEW d \in DOMAIN f.slot
        PROVE  /\ f.slot[d] = k.slot[d] \/ (d \in Literals /\ f.slot[d].holds = <<>>)
               /\ d \notin f.deferred /\ d \notin Literals => Clean(k, e, d) /\ f.slot[d] = k.slot[d]
    <2>1. d \in DOMAIN f0.slot /\ f.slot[d] = f0.slot[d] /\ (d \notin f.deferred => d \notin f0.deferred)
      BY <1>1, <1>4 DEF Keeping
    <2> QED BY <2>1, <1>1, <1>7 DEF Seeded
  <1>9. ASSUME NEW d \in DOMAIN f.prior
        PROVE  f.prior[d] = k.slot[d] \/ (d \in Literals /\ f.prior[d].holds = <<>>)
    <2>1. CASE d \in DOMAIN f0.slot
      BY <2>1, <1>1, <1>7 DEF Keeping
    <2>2. CASE d \notin DOMAIN f0.slot
      <3>1. d \in DOMAIN f0.prior /\ f.prior[d] = f0.prior[d]
        BY <2>2, <1>1 DEF Keeping
      <3> QED BY <3>1, <1>1 DEF Seeded
    <2> QED BY <2>1, <2>2
  <1>10. HoldsRead(f.slot) /\ HoldsRead(f.prior)
    <2>1. \A d \in DOMAIN k.slot : DOMAIN k.slot[d].holds = Held(d)
      BY DEF Sharing, HoldsRead
    <2>2. DOMAIN <<>> = {}
      OBVIOUS
    <2>3. \A d \in DOMAIN f.slot : DOMAIN f.slot[d].holds = Held(d)
      BY <1>2, <1>4, <1>5, <1>8, <2>1, <2>2
    <2>4. \A d \in DOMAIN f.prior : DOMAIN f.prior[d].holds = Held(d)
      BY <1>2, <1>4, <1>5, <1>9, <2>1, <2>2
    <2> QED BY <2>3, <2>4 DEF HoldsRead
  (* What waits is held by nothing the edit did not reach.                 *)
  <1>11. ASSUME NEW d \in DOMAIN f.slot, d \notin f.deferred, NEW r \in Held(d)
         PROVE  /\ d \notin Literals /\ Clean(k, e, d) /\ f.slot[d] = k.slot[d]
                /\ r \in DOMAIN f.slot /\ r \notin f.deferred
    <2>1. d \in Slots
      BY <1>2, <1>4
    <2>2. d \notin Literals
      BY <2>1, <1>5, <1>11
    <2>3. Clean(k, e, d) /\ f.slot[d] = k.slot[d]
      BY <2>2, <1>8, <1>11
    <2>4. r \in DOMAIN f.slot
      BY <2>1, <1>1, <1>3, <1>11 DEF Keeping
    <2>5. ASSUME r \in f.deferred PROVE FALSE
      <3>1. ~Clean(k, e, r) /\ Same(e) /\ ~e.cleared
        BY <2>5, <1>1, <1>4 DEF Seeded
      <3>2. r \in k.deferred \cup k.redo \/ Touched(e.old.text, e, r)
        BY <3>1 DEF Clean
      <3>3. r \notin k.deferred \cup k.redo
        BY <2>1, <2>3, <1>11 DEF Clean, Sharing, WaitsWith
      <3>4. r \in Direct(e.old.text, d)
        <4>1. r \in Reads(d) /\ d \in Decls
          BY <1>2, <1>11, <2>1 DEF Held
        <4> QED BY <4>1, Directly
      <3>5. Deps(e.old.text, r) \subseteq Deps(e.old.text, d)
        BY <3>4, <2>1, <1>2, DepsMentioned
      <3>6. ~Touched(e.old.text, e, d)
        BY <2>3 DEF Clean
      <3> QED BY <3>2, <3>3, <3>5, <3>6 DEF Touched
    <2> QED BY <2>2, <2>3, <2>4, <2>5
  <1>12. HoldsKept(k2)
    <2> SUFFICES ASSUME NEW d \in DOMAIN f.slot, d \notin f.deferred, NEW r \in Held(d)
                 PROVE  r \in DOMAIN f.slot /\ f.slot[d].holds[r] = f.slot[r].id
      BY <1>1 DEF HoldsKept
    <2>1. Clean(k, e, d) /\ f.slot[d] = k.slot[d] /\ r \in DOMAIN f.slot /\ r \notin f.deferred
      BY <1>11
    <2>2. f.slot[r] = k.slot[r]
      BY <2>1, <1>6, <1>8
    <2>3. d \in DOMAIN k.slot /\ d \notin k.deferred
      BY <1>2, <1>4, <2>1 DEF Clean
    <2>4. k.slot[d].holds[r] = k.slot[r].id
      BY <2>3 DEF Sharing, HoldsKept
    <2> QED BY <2>1, <2>2, <2>4
  <1>13. Together(k2)
    <2> SUFFICES ASSUME NEW i \in DOMAIN Segments, NEW d \in Stores(i), NEW r \in Held(d) \cap Stores(i)
                 PROVE  Beside(k2, d, r)
      BY DEF Together
    <2>1. d \in Slots /\ r \in Slots /\ i \in 1 .. Count
      BY Places DEF Count
    <2>2. r \in DOMAIN f.slot <=> d \in DOMAIN f.slot
      BY <1>1, <2>1 DEF Keeping
    <2>3. d \in k2.redo => r \in k2.redo
      BY <1>1, <2>1, <2>2
    <2>4. ASSUME d \in DOMAIN f.prior, r \in DOMAIN f.prior PROVE f.prior[d].holds[r] = f.prior[r].id
      <3>1. f.prior[d] = k.slot[d] /\ f.prior[r] = k.slot[r]
        BY <1>5, <1>6, <1>9, <2>1, <2>4
      <3>2. d \in DOMAIN k.slot /\ d \notin k.deferred
        <4>1. d \notin Slow
          BY DEF SlowApart
        <4> QED BY <4>1, <1>4, <2>4 DEF Sharing
      <3>3. k.slot[d].holds[r] = k.slot[r].id
        BY <3>2 DEF Sharing, HoldsKept
      <3> QED BY <3>1, <3>3
    <2> QED BY <1>1, <2>2, <2>3, <2>4 DEF Beside
  <1>14. WaitsWith(k2)
    <2> SUFFICES ASSUME NEW d \in Slots, NEW r \in Held(d), r \in k2.deferred \cup k2.redo
                 PROVE  d \in k2.deferred \cup k2.redo
      BY DEF WaitsWith
    <2>1. f.deferred # {} /\ k2.redo = Slots \ DOMAIN f.slot
      BY <1>1
    <2>2. CASE d \in DOMAIN f.slot /\ d \notin f.deferred
      BY <1>1, <1>11, <2>1, <2>2
    <2> QED BY <1>1, <2>1, <2>2
  <1>15. Sharing(k2)
    BY <1>1, <1>4, <1>10, <1>12, <1>13, <1>14 DEF Sharing
  <1> QED BY <1>15

(* A segment of a run: what is stored holds what is in the registers, or   *)
(* what was remembered with it.                                            *)
LEMMA RunsOneSharing ==
  ASSUME NEW k, NEW text, NEW m, NEW i \in 1 .. Count, Along(m, i - 1, k, text), Sharing(m.tab)
  PROVE  Sharing(RunSegment(m, Segments[i]).tab)
  <1> DEFINE m2 == RunSegment(m, Segments[i])
  <1>1. /\ Upto(i) = Upto(i - 1) \cup Stores(i) /\ Upto(i - 1) \cap Stores(i) = {}
        /\ i \in DOMAIN Segments /\ Stores(i) \subseteq Slots /\ Slots \subseteq Decls
        /\ \A j \in DOMAIN Segments : j < i => Stores(j) \subseteq Upto(i - 1)
    BY UptoNext, Places
  <1>2. /\ \A f \in Aside : m2.tab[f] = m.tab[f]
        /\ (m.failed = TRUE /\ m2 = m) \/ Skipped(m, m2, i) \/ Raised(m, m2, i) \/ Stored(m, m2, i)
    BY <1>1, RunsOne DEF Along
  <1> HIDE DEF m2
  <1> SUFFICES Sharing(m2.tab)
    BY DEF m2
  <1>3. CASE m2.tab = m.tab
    BY <1>3
  <1>4. CASE Stored(m, m2, i)
    <2> DEFINE t == m.tab
               t2 == m2.tab
               built == FoldLeft(Build, m, Segments[i]).regs
               same == \A d \in Stores(i) \ DOMAIN t.slot :
                          d \in DOMAIN t.prior /\ Replaces(t.prior[d], built[d], Stores(i))
    <2>1. /\ DOMAIN t2.slot = DOMAIN t.slot \cup Stores(i)
          /\ \A d \in DOMAIN t.slot : t2.slot[d] = t.slot[d]
          /\ DOMAIN t2.prior = DOMAIN t.prior \ Stores(i)
          /\ \A d \in DOMAIN t2.prior : t2.prior[d] = t.prior[d]
      BY <1>4 DEF Stored
    <2>2. t2.deferred = t.deferred /\ t2.redo = t.redo
      BY <1>2 DEF Aside, StackFields
    <2>3. \A d \in Stores(i) \ DOMAIN t.slot :
             t2.slot[d] = IF same THEN t.prior[d] ELSE built[d]
      BY <1>4, Zenon DEF Stored, Settled
    <2>4. /\ DOMAIN m.regs = Upto(i - 1)
          /\ \A r \in Upto(i - 1) : r \in DOMAIN t.slot /\ m.regs[r] = t.slot[r]
      BY <1>4 DEF Stored, Along
    <2>5. /\ \A x \in Upto(i - 1) : built[x] = m.regs[x]
          /\ \A d \in Stores(i) : Made(m.text, built, d)
      <3>1. \A j \in DOMAIN Segments : j < i => Stores(j) \subseteq DOMAIN m.regs
        BY <1>1, <2>4
      <3>2. IsMachine(m)
        BY DEF Along, Machine
      <3> HIDE DEF built
      <3>3. /\ \A x \in DOMAIN m.regs \ Stores(i) : built[x] = m.regs[x]
            /\ \A d \in Stores(i) : Made(m.text, built, d)
        BY <1>1, <3>1, <3>2, Built DEF built
      <3> QED BY <3>3, <2>4, <1>1
    <2> HIDE DEF t, t2, built
    <2>6. \A d \in Stores(i) : /\ DOMAIN built[d].holds = Held(d)
                               /\ \A r \in Held(d) : built[d].holds[r] = built[r].id
      BY <2>5 DEF Made
    <2>7. ASSUME NEW d \in Stores(i), NEW r \in Held(d), r \notin Stores(i)
          PROVE  r \in Upto(i - 1) /\ r \in DOMAIN t.slot /\ built[r] = t2.slot[r]
      <3>1. PICK p \in DOMAIN Segments[i] : d = Segments[i][p]
        BY <1>1, Places
      <3>2. r \in Upto(i - 1)
        <4>1. \/ \E j \in DOMAIN Segments : j < i /\ r \in Stores(j)
              \/ \E q \in DOMAIN Segments[i] : q < p /\ r = Segments[i][q]
          BY <1>1, <3>1, <2>7, Behind DEF Held
        <4>2. \A q \in DOMAIN Segments[i] : Segments[i][q] \in Stores(i)
          BY <1>1, Places
        <4> QED BY <4>1, <4>2, <1>1, <2>7
      <3> QED BY <3>2, <2>1, <2>4, <2>5
    <2>8. Sharing(t)
      BY DEF t
    <2>9. ASSUME NEW d \in Stores(i) \ DOMAIN t.slot
          PROVE  DOMAIN t2.slot[d].holds = Held(d)
      <3>1. CASE same
        BY <3>1, <2>3, <2>8 DEF Sharing, HoldsRead
      <3>2. CASE ~same
        BY <3>2, <2>3, <2>6
      <3> QED BY <3>1, <3>2
    <2>10. HoldsRead(t2.slot) /\ HoldsRead(t2.prior)
      <3> HIDE DEF same
      <3> QED BY <2>1, <2>8, <2>9 DEF Sharing, HoldsRead
    <2>11. ASSUME NEW d \in Stores(i) \ DOMAIN t.slot, NEW r \in Held(d)
           PROVE  r \in DOMAIN t2.slot /\ t2.slot[d].holds[r] = t2.slot[r].id
      <3>1. ASSUME r \in Stores(i) PROVE r \notin DOMAIN t.slot /\ Beside(t, d, r)
        BY <3>1, <1>1, <2>8 DEF Sharing, Together, Beside
      <3>2. r \in DOMAIN t2.slot
        BY <2>1, <2>7
      <3>3. CASE same
        <4>1. /\ t2.slot[d] = t.prior[d] /\ d \in DOMAIN t.prior
              /\ Replaces(t.prior[d], built[d], Stores(i))
          BY <3>3, <2>3
        <4>2. CASE r \in Stores(i)
          <5>1. r \in DOMAIN t.prior /\ t2.slot[r] = t.prior[r]
            BY <3>1, <3>3, <4>2, <2>3
          <5> QED BY <5>1, <4>1, <4>2, <3>1, <3>2 DEF Beside
        <4>3. CASE r \notin Stores(i)
          <5>1. t.prior[d].holds[r] = built[d].holds[r]
            BY <4>1, <4>3, <2>6 DEF Replaces
          <5> QED BY <5>1, <4>1, <4>3, <2>6, <2>7, <3>2
        <4> QED BY <4>2, <4>3
      <3>4. CASE ~same
        <4>1. t2.slot[d] = built[d]
          BY <3>4, <2>3
        <4>2. t2.slot[r] = built[r]
          BY <3>1, <3>4, <2>3, <2>7
        <4> QED BY <4>1, <4>2, <2>6, <3>2
      <3> QED BY <3>3, <3>4
    <2> HIDE DEF same
    <2>12. HoldsKept(t2)
      <3> SUFFICES ASSUME NEW d \in DOMAIN t2.slot, d \notin t.deferred, NEW r \in Held(d)
                   PROVE  r \in DOMAIN t2.slot /\ t2.slot[d].holds[r] = t2.slot[r].id
        BY <2>2 DEF HoldsKept
      <3>1. CASE d \in DOMAIN t.slot
        BY <3>1, <2>1, <2>8 DEF Sharing, HoldsKept
      <3>2. CASE d \notin DOMAIN t.slot
        BY <3>2, <2>1, <2>11
      <3> QED BY <3>1, <3>2
    <2>13. Together(t2)
      <3> SUFFICES ASSUME NEW j \in DOMAIN Segments, NEW d \in Stores(j), NEW r \in Held(d) \cap Stores(j)
                   PROVE  Beside(t2, d, r)
        BY DEF Together
      <3>1. Beside(t, d, r)
        BY <2>8 DEF Sharing, Together
      <3>2. r \in Stores(i) => d \in Stores(i)
        <4>1. \A a, b \in DOMAIN Segments : \A x \in Stores(a) : x \in Stores(b) => a = b
          BY Places
        <4> QED BY <4>1, <1>1
      <3> QED BY <3>1, <3>2, <2>1, <2>2 DEF Beside
    <2>14. WaitsWith(t2) /\ t2.deferred \subseteq Slow
      BY <2>2, <2>8 DEF Sharing, WaitsWith
    <2>15. Sharing(t2)
      BY <2>10, <2>12, <2>13, <2>14 DEF Sharing
    <2> QED BY <2>15 DEF t2
  <1> QED BY <1>2, <1>3, <1>4 DEF Skipped, Raised

LEMMA ExecuteSharing ==
  ASSUME NEW k, Shape(k), Sharing(k), NEW p
  PROVE  Sharing(Execute(k, p))
  <1>1. PICK g : Steps(g, k, p)
    BY RunSteps
  <1>2. Count \in Nat
    BY Places DEF Count
  <1>3. \A i \in 0 .. Count : Along(g[i], i, k, p.text)
    BY <1>1, RunAlong DEF Shape
  <1> DEFINE S == {i \in 0 .. Count : Sharing(g[i].tab)}
  <1>4. 0 \in S
    <2>1. g[0].tab = k
      BY <1>1 DEF Steps, Start
    <2> QED BY <1>2, <2>1
  <1>5. ASSUME NEW i \in 1 .. Count, i - 1 \in S PROVE i \in S
    <2>1. g[i] = RunSegment(g[i - 1], Segments[i]) /\ Along(g[i - 1], i - 1, k, p.text)
          /\ Sharing(g[i - 1].tab)
      BY <1>1, <1>3, <1>5 DEF Steps
    <2>2. Sharing(g[i].tab)
      BY <2>1, RunsOneSharing
    <2> QED BY <1>2, <2>2
  <1>6. Sharing(g[Count].tab)
    <2> HIDE DEF S
    <2>1. \A i \in 0 .. Count : i \in S
      BY <1>2, <1>4, <1>5, RunFold!Induct
    <2>2. Count \in S
      BY <1>2, <2>1
    <2> QED BY <2>2 DEF S
  <1> DEFINE m  == g[Count]
             k2 == Execute(k, p)
  <1>7. Machine(m) /\ k2 = Finish(m)
    BY <1>1, <1>2, <1>3 DEF Along, Steps
  <1> HIDE DEF m, k2
  <1>8. /\ k2.slot = m.tab.slot /\ k2.prior = m.tab.prior
        /\ k2.deferred = m.tab.deferred /\ k2.redo = m.tab.redo
    BY <1>7, FinishIs
  <1>9. Sharing(k2)
    BY <1>6, <1>8, SameSharing DEF m
  <1> QED BY <1>9 DEF k2

LEMMA RebuildsSharing ==
  ASSUME SlowApart, NEW k, Shape(k), Sharing(k), NEW p
  PROVE  Sharing(Rebuilds(k, p))
  BY RebuildsIs, FlushSharing, BareSharing DEF Shape

LEMMA SyncSharing ==
  ASSUME NEW k, Shape(k), Sharing(k), NEW p
  PROVE  Sharing(Sync(k, p))
  BY SyncIs, BareSharing DEF Shape

LEMMA FollowSharing ==
  ASSUME SlowApart, NEW k, Shape(k), Sharing(k), NEW e
  PROVE  Sharing(Follow(k, e))
  BY FollowIs, InstallSharing, BareSharing DEF Shape

LEMMA ComesSharing ==
  ASSUME SlowApart, NEW k, Shape(k), Sharing(k), NEW k2, Comes(k, k2)
  PROVE  Sharing(k2)
  <1>1. ASSUME Marked(k, k2) PROVE Sharing(k2)
    <2>1. k2.slot = k.slot /\ k2.prior = k.prior /\ k2.deferred = k.deferred /\ k2.redo = k.redo
      BY <1>1 DEF Marked, Table
    <2> QED BY <2>1, SameSharing
  <1>2. CASE Emptied(k2)
    BY <1>2, BareSharing DEF Emptied
  <1>3. CASE \E p : k2 = Rebuilds(k, p)
    BY <1>3, RebuildsSharing
  <1>4. CASE \E p : k2 = Execute(Sync(k, p), p)
    BY <1>4, SyncShape, SyncSharing, ExecuteSharing
  <1>5. ASSUME NEW p, NEW q, k2 = Execute(Sync(Rebuilds(k, p), q), q) PROVE Sharing(k2)
    <2>1. Shape(Rebuilds(k, p)) /\ Sharing(Rebuilds(k, p))
      BY RebuildsShape, RebuildsSharing
    <2>2. Shape(Sync(Rebuilds(k, p), q)) /\ Sharing(Sync(Rebuilds(k, p), q))
      BY <2>1, SyncShape, SyncSharing
    <2> QED BY <1>5, <2>2, ExecuteSharing
  <1>6. CASE \E e : k2 = Follow(k, e)
    BY <1>6, FollowSharing
  <1> QED BY <1>1, <1>2, <1>3, <1>4, <1>5, <1>6 DEF Comes

AllShare == \A s \in Live : Sharing(stack[s])

LEMMA AllShareInductive ==
  ASSUME SlowApart
  PROVE  /\ Init => AllShare
         /\ IInv /\ AllShare /\ [Next]_vars => AllShare'
         /\ AllShare => SharingExact
  <1>1. Init => AllShare
    <2>1. Sharing(NewStack(Main))
      BY NewIs, BareSharing DEF Emptied
    <2> QED BY <2>1 DEF Init, AllShare, Live, Only
  <1>2. ASSUME IInv, AllShare, [Next]_vars PROVE AllShare'
    <2>1. \A t \in Live' : \E s \in Live : Comes(stack[s], stack'[t])
      BY <1>2, StepComes DEF IInv
    <2>2. \A s \in Live : Shape(stack[s]) /\ Sharing(stack[s])
      BY <1>2 DEF IInv, Shapes, AllShare
    <2>3. \A t \in Live' : Sharing(stack'[t])
      BY <2>1, <2>2, ComesSharing
    <2> QED BY <2>3 DEF AllShare
  <1>3. AllShare => SharingExact
    BY DEF AllShare, Sharing, HoldsRead, HoldsKept, SharingExact
  <1> QED BY <1>1, <1>2, <1>3

(* Whatever is edited, dragged, put off, built again, forked and restored, *)
(* a value kept from run to run holds the very objects kept beside it, as  *)
(* if everything had been built together; unless a drag has put it off, or *)
(* a segment stores a slow value with one it holds.                        *)
THEOREM SharedExactly ==
  ASSUME SlowApart
  PROVE  Spec => []SharingExact
  <1>1. /\ Init => AllShare
        /\ IInv /\ AllShare /\ [Next]_vars => AllShare'
        /\ AllShare => SharingExact
    BY AllShareInductive
  <1> QED BY <1>1, InductiveIInv, PTL DEF Spec
-----------------------------------------------------------------------------
(* What a text says the values are.                                        *)

(* A set of values that has each one it has all reads of has them all.     *)
LEMMA ReadsInduct ==
  ASSUME NEW G, \A d \in Slots : Reads(d) \subseteq G => d \in G
  PROVE  Slots \subseteq G
  <1> SUFFICES ASSUME NEW x \in Slots, x \notin G PROVE FALSE
    OBVIOUS
  <1> DEFINE S == {i \in DOMAIN Segments : ~(Stores(i) \subseteq G)}
  <1>1. S \in SUBSET Nat /\ S # {}
    BY Places
  <1> HIDE DEF S
  <1>2. PICK i \in S : \A j \in S : ~(j < i)
    BY <1>1, RunFold!LeastMember
  <1>3. i \in DOMAIN Segments /\ ~(Stores(i) \subseteq G)
        /\ \A j \in DOMAIN Segments : j < i => Stores(j) \subseteq G
    BY <1>2 DEF S
  <1> DEFINE T == {p \in DOMAIN Segments[i] : Segments[i][p] \notin G}
  <1>4. T \in SUBSET Nat /\ T # {}
    BY <1>3, Places
  <1> HIDE DEF T
  <1>5. PICK p \in T : \A q \in T : ~(q < p)
    BY <1>4, RunFold!LeastMember
  <1>6. p \in DOMAIN Segments[i] /\ Segments[i][p] \notin G /\ Segments[i][p] \in Slots
        /\ \A q \in DOMAIN Segments[i] : q < p => Segments[i][q] \in G
    BY <1>3, <1>5, Places DEF T
  <1>7. Reads(Segments[i][p]) \subseteq G
    BY <1>3, <1>6, Behind
  <1> QED BY <1>6, <1>7

(* A declaration is in what it reaches, which has what its members mention. *)
LEMMA DepsIs ==
  ASSUME NEW text, NEW d \in Decls
  PROVE  Deps(text, d) = Reached({o \in Optional : text[o] # 0}, d)
  <1> DEFINE there == {o \in Optional : text[o] # 0}
             hit == {r \in Reach : r.there = there /\ r.from = d}
  <1>1. Deps(text, d) = UNION {r.to : r \in hit}
    BY Zenon DEF Deps
  <1>2. there \in SUBSET Optional
    OBVIOUS
  <1> HIDE DEF there
  <1>3. hit = {[there |-> there, from |-> d, to |-> Reached(there, d)]}
    BY <1>2 DEF Reach
  <1> HIDE DEF hit
  <1>4. Deps(text, d) = Reached(there, d)
    BY <1>1, <1>3
  <1> QED BY <1>4 DEF there

LEMMA DepsClosed ==
  ASSUME NEW text, NEW d \in Decls
  PROVE  /\ d \in Deps(text, d) /\ Deps(text, d) \subseteq Decls
         /\ \A x \in Deps(text, d) : Direct(text, x) \subseteq Deps(text, d)
         /\ \A x \in Deps(text, d) : Reads(x) \subseteq Deps(text, d)
  <1> DEFINE there == {o \in Optional : text[o] # 0}
  <1>1. Deps(text, d) = Reached(there, d)
    BY DepsIs
  <1>2. d \in Reached(there, d) /\ Reached(there, d) \subseteq Decls
    BY DEF Reached
  <1>3. ASSUME NEW x \in Reached(there, d), NEW m \in Direct(text, x) PROVE m \in Reached(there, d)
    <2>1. m \in Mentions[x] \ (Optional \ there) /\ x \in Decls
      BY DEF Direct, Reached
    <2>2. m \in Decls
      BY <2>1, ProgramAssumption
    <2> HIDE DEF there
    <2> QED BY <2>1, <2>2 DEF Reached
  <1>4. \A x \in Decls : Reads(x) \subseteq Direct(text, x)
    BY Directly
  <1> HIDE DEF there
  <1> QED BY <1>1, <1>2, <1>3, <1>4

(* The contents c are those the text gives when the values of D are those  *)
(* of w.                                                                   *)
Solves(c, text, D, w, X) ==
  /\ DOMAIN c = X
  /\ \A d \in X : c[d].is = IF d \in D THEN w[d].is ELSE Content(text, d, c)

(* One value more, behind what it reads.                                   *)
LEMMA SolveOne ==
  ASSUME NEW text, NEW D, NEW w, NEW X \in SUBSET Slots, \A x \in X : Reads(x) \subseteq X,
         NEW d \in Slots, Reads(d) \subseteq X, NEW c, Solves(c, text, D, w, X)
  PROVE  \E c2 : Solves(c2, text, D, w, X \cup {d})
  <1>1. CASE d \in X
    <2>1. X \cup {d} = X
      BY <1>1
    <2> QED BY <2>1
  <1>2. CASE d \notin X
    <2> DEFINE is == IF d \in D THEN w[d].is ELSE Content(text, d, c)
               v == [is |-> is]
               c2 == Over(Only(d, v), c)
    <2>1. v.is = is
      OBVIOUS
    <2> HIDE DEF v
    <2>2. DOMAIN c2 = X \cup {d} /\ c2[d] = v /\ \A x \in X : c2[x] = c[x]
      BY <1>2 DEF Over, Only, Solves
    <2> HIDE DEF c2
    <2>3. \A x \in X \cup {d} : x \in Decls /\ \A r \in Reads(x) : c2[r].is = c[r].is
      BY <2>2, Places
    <2>4. \A x \in X \cup {d} : Content(text, x, c2) = Content(text, x, c)
      BY <2>3, ContentSame
    <2>5. \A x \in X : c2[x].is = IF x \in D THEN w[x].is ELSE Content(text, x, c2)
      BY <2>2, <2>4 DEF Solves
    <2>6. c2[d].is = IF d \in D THEN w[d].is ELSE Content(text, d, c2)
      BY <2>1, <2>2, <2>4
    <2>7. Solves(c2, text, D, w, X \cup {d})
      BY <2>2, <2>5, <2>6 DEF Solves
    <2> QED BY <2>7
  <1> QED BY <1>1, <1>2

LEMMA SolveSegment ==
  ASSUME NEW text, NEW D, NEW w, NEW i \in 1 .. Count,
         NEW c, Solves(c, text, D, w, Upto(i - 1))
  PROVE  \E c2 : Solves(c2, text, D, w, Upto(i))
  <1> DEFINE seg == Segments[i]
             n == Len(seg)
             front(q) == Upto(i - 1) \cup {seg[l] : l \in 1 .. q}
             S == {q \in 0 .. n : \E c2 : Solves(c2, text, D, w, front(q))}
  <1>1. /\ Upto(i) = Upto(i - 1) \cup Stores(i)
        /\ i \in DOMAIN Segments /\ Stores(i) \subseteq Slots
        /\ \A j \in DOMAIN Segments : j < i => Stores(j) \subseteq Upto(i - 1)
    BY UptoNext
  <1>2. n \in Nat /\ DOMAIN seg = 1 .. n /\ \A q \in 1 .. n : seg[q] \in Stores(i)
    BY <1>1, Places
  <1>3. 0 \in S
    <2>1. front(0) = Upto(i - 1)
      OBVIOUS
    <2> HIDE DEF front
    <2> QED BY <1>2, <2>1
  <1>4. ASSUME NEW x \in Upto(i - 1) PROVE Reads(x) \subseteq Upto(i - 1)
    <2>1. PICK j \in 1 .. i - 1 : x \in Stores(j)
      BY DEF Upto
    <2>2. j \in DOMAIN Segments /\ j < i /\ i \in Nat /\ j \in Nat /\ DOMAIN Segments \subseteq Nat
      BY <1>1, Places DEF Count
    <2>3. PICK p \in DOMAIN Segments[j] : x = Segments[j][p]
      BY <2>1, <2>2, Places
    <2>4. \A r \in Reads(x) : \E l \in DOMAIN Segments : l <= j /\ r \in Stores(l)
      BY <2>2, <2>3, Behind, Places
    <2> QED BY <1>1, <2>2, <2>4
  <1>5. ASSUME NEW q \in 1 .. n, NEW r \in Reads(seg[q]) PROVE r \in front(q - 1)
    <2>1. \/ \E j \in DOMAIN Segments : j < i /\ r \in Stores(j)
          \/ \E l \in DOMAIN seg : l < q /\ r = seg[l]
      BY <1>1, <1>2, Behind
    <2>2. \A l \in DOMAIN seg : l < q => l \in 1 .. q - 1
      BY <1>2
    <2> QED BY <1>1, <2>1, <2>2
  <1>6. ASSUME NEW q \in 1 .. n PROVE front(q) = front(q - 1) \cup {seg[q]} /\ q - 1 \in 0 .. n
    BY <1>2
  <1>7. ASSUME NEW q \in 0 .. n, NEW x \in front(q) PROVE Reads(x) \subseteq front(q) /\ x \in Slots
    <2>1. CASE x \in Upto(i - 1)
      BY <2>1, <1>4 DEF Upto
    <2>2. CASE x \notin Upto(i - 1)
      <3>1. PICK l \in 1 .. q : x = seg[l]
        BY <2>2
      <3>2. l \in 1 .. n /\ \A y \in 1 .. l - 1 : y \in 1 .. q
        BY <1>2
      <3>3. front(l - 1) \subseteq front(q)
        BY <3>2
      <3> HIDE DEF front
      <3> QED BY <1>1, <1>2, <1>5, <3>1, <3>2, <3>3
    <2> QED BY <2>1, <2>2
  <1> HIDE DEF front
  <1>8. ASSUME NEW q \in 1 .. n, q - 1 \in S PROVE q \in S
    <2>1. PICK c1 : Solves(c1, text, D, w, front(q - 1))
      BY <1>8
    <2>2. front(q - 1) \in SUBSET Slots /\ \A x \in front(q - 1) : Reads(x) \subseteq front(q - 1)
      BY <1>6, <1>7
    <2>3. seg[q] \in Slots /\ Reads(seg[q]) \subseteq front(q - 1)
      BY <1>1, <1>2, <1>5
    <2>4. \E c2 : Solves(c2, text, D, w, front(q - 1) \cup {seg[q]})
      BY <2>1, <2>2, <2>3, SolveOne
    <2>5. \E c2 : Solves(c2, text, D, w, front(q))
      BY <1>6, <2>4, Zenon
    <2>6. q \in 0 .. n
      BY <1>2
    <2> QED BY <2>5, <2>6
  <1>9. n \in S
    <2> HIDE DEF S
    <2>1. \A q \in 0 .. n : q \in S
      BY <1>2, <1>3, <1>8, RunFold!Induct
    <2> QED BY <1>2, <2>1
  <1>10. front(n) = Upto(i)
    BY <1>1, <1>2, Places DEF front
  <1> QED BY <1>9, <1>10

(* There are such contents.                                                *)
LEMMA Solvable ==
  ASSUME NEW text, NEW D, NEW w
  PROVE  \E c : Solves(c, text, D, w, Slots)
  <1> DEFINE S == {i \in 0 .. Count : \E c : Solves(c, text, D, w, Upto(i))}
  <1>1. Count \in Nat /\ Upto(Count) = Slots /\ Upto(0) = {}
    BY Places DEF Count, Upto
  <1>2. 0 \in S
    <2>1. Solves(<<>>, text, D, w, {})
      BY DEF Solves
    <2> QED BY <1>1, <2>1
  <1>3. ASSUME NEW i \in 1 .. Count, i - 1 \in S PROVE i \in S
    <2>1. \E c : Solves(c, text, D, w, Upto(i))
      BY <1>3, SolveSegment
    <2> QED BY <1>1, <2>1
  <1>4. Count \in S
    <2> HIDE DEF S
    <2>1. \A i \in 0 .. Count : i \in S
      BY <1>1, <1>2, <1>3, RunFold!Induct
    <2> QED BY <1>1, <2>1
  <1> QED BY <1>1, <1>4

(* Two texts say the same of a set they agree on, which has what its       *)
(* members are told by.                                                    *)
LEMMA ContentAgrees ==
  ASSUME NEW text, NEW text2, NEW d \in Decls, NEW c, NEW c2,
         text2[d] = text[d], Direct(text2, d) = Direct(text, d),
         \A m \in Direct(text, d) : m \notin Slots => text2[m] = text[m],
         \A r \in Reads(d) : c2[r].is = c[r].is
  PROVE  Content(text2, d, c2) = Content(text, d, c)
  <1> DEFINE told(t, rs) == [m \in Direct(t, d) |-> IF m \in Slots THEN rs[m].is ELSE t[m]]
  <1>1. told(text2, c2) = told(text, c)
    <2>1. \A m \in Direct(text, d) : m \in Slots => c2[m].is = c[m].is
      BY Directly
    <2> QED BY <2>1
  <1> HIDE DEF told
  <1>2. Content(text, d, c) = (IF d \in Coarse THEN <<d>> ELSE <<d, text[d], told(text, c)>>)
        /\ Content(text2, d, c2) = (IF d \in Coarse THEN <<d>> ELSE <<d, text2[d], told(text2, c2)>>)
    BY Zenon DEF Content, told
  <1> QED BY <1>1, <1>2

(* The set X, which has what its members are told by, is the same in two   *)
(* texts.                                                                  *)
Unmoved(text, text2, X) ==
  /\ X \subseteq Decls
  /\ \A x \in X : /\ text2[x] = text[x] /\ Direct(text2, x) = Direct(text, x)
                  /\ Direct(text, x) \subseteq X /\ Reads(x) \subseteq X

LEMMA Agree ==
  ASSUME NEW text, NEW text2, NEW X, Unmoved(text, text2, X), NEW c, NEW c2,
         \A x \in X \cap Slots : c[x].is = Content(text, x, c),
         \A x \in X \cap Slots : c2[x].is = c[x].is \/ c2[x].is = Content(text2, x, c2)
  PROVE  \A x \in X \cap Slots : c2[x].is = c[x].is
  <1> DEFINE G == {x \in Slots : x \in X => c2[x].is = c[x].is}
  <1>1. ASSUME NEW d \in Slots, Reads(d) \subseteq G PROVE d \in G
    <2>1. SUFFICES ASSUME d \in X PROVE c2[d].is = c[d].is
      OBVIOUS
    <2>2. \A r \in Reads(d) : c2[r].is = c[r].is
      BY <1>1, <2>1 DEF Unmoved
    <2>3. d \in Decls /\ text2[d] = text[d] /\ Direct(text2, d) = Direct(text, d)
          /\ \A m \in Direct(text, d) : text2[m] = text[m]
      BY <2>1 DEF Unmoved
    <2>4. Content(text2, d, c2) = Content(text, d, c)
      BY <2>2, <2>3, ContentAgrees
    <2> QED BY <2>1, <2>4
  <1>2. Slots \subseteq G
    <2> HIDE DEF G
    <2> QED BY <1>1, ReadsInduct
  <1> QED BY <1>2
-----------------------------------------------------------------------------
(* A run gives the values their contents.                                  *)

LEMMA UptoReads ==
  ASSUME NEW i \in 0 .. Count, NEW x \in Upto(i)
  PROVE  Reads(x) \subseteq Upto(i)
  <1>1. Count \in Nat /\ DOMAIN Segments = 1 .. Count
    BY Places DEF Count
  <1>2. PICK j \in 1 .. i : x \in Stores(j)
    BY DEF Upto
  <1>3. j \in DOMAIN Segments /\ j \in Nat /\ j <= i
    BY <1>1, <1>2
  <1>4. PICK p \in DOMAIN Segments[j] : x = Segments[j][p]
    BY <1>2, <1>3, Places
  <1>5. ASSUME NEW r \in Reads(x) PROVE r \in Upto(i)
    <2>1. r \in Slots /\ \E l \in DOMAIN Segments : l <= j /\ r \in Stores(l)
      BY <1>3, <1>4, Behind, Places
    <2>2. PICK l \in DOMAIN Segments : l <= j /\ r \in Stores(l)
      BY <2>1
    <2>3. l \in 1 .. i
      BY <1>1, <1>3, <2>2
    <2> QED BY <2>1, <2>2, <2>3 DEF Upto
  <1> QED BY <1>5

(* What is built over contents c has contents c, if its segment has no     *)
(* value it is told by that c has of another text.                         *)
LEMMA BuiltIs ==
  ASSUME NEW m, IsMachine(m), NEW i \in 1 .. Count, DOMAIN m.regs = Upto(i - 1),
         NEW c, \A x \in Upto(i - 1) : m.regs[x].is = c[x].is,
         NEW d \in Stores(i),
         \A x \in Deps(m.text, d) \cap Stores(i) : c[x].is = Content(m.text, x, c)
  PROVE  FoldLeft(Build, m, Segments[i]).regs[d].is = c[d].is
  <1> DEFINE built == FoldLeft(Build, m, Segments[i]).regs
             X == Deps(m.text, d)
             G == {x \in Slots : x \in X \cap Upto(i) => built[x].is = c[x].is}
  <1>1. /\ Upto(i) = Upto(i - 1) \cup Stores(i) /\ Upto(i - 1) \cap Stores(i) = {}
        /\ i \in DOMAIN Segments /\ Stores(i) \subseteq Slots /\ Slots \subseteq Decls
        /\ \A j \in DOMAIN Segments : j < i => Stores(j) \subseteq Upto(i - 1)
    BY UptoNext, Places
  <1>2. /\ \A x \in Upto(i - 1) : built[x] = m.regs[x]
        /\ \A x \in Stores(i) : built[x].is = Content(m.text, x, built)
    <2>1. \A j \in DOMAIN Segments : j < i => Stores(j) \subseteq DOMAIN m.regs
      BY <1>1
    <2> HIDE DEF built
    <2>2. /\ \A x \in DOMAIN m.regs \ Stores(i) : built[x] = m.regs[x]
          /\ \A x \in Stores(i) : Made(m.text, built, x)
      BY <1>1, <2>1, Built DEF built
    <2> QED BY <1>1, <2>2 DEF Made
  <1>3. d \in X /\ \A x \in X : Reads(x) \subseteq X
    BY <1>1, DepsClosed
  <1>4. i \in 0 .. Count
    BY Places DEF Count
  <1> HIDE DEF built, X
  <1>5. ASSUME NEW x \in Slots, Reads(x) \subseteq G PROVE x \in G
    <2>1. SUFFICES ASSUME x \in X, x \in Upto(i) PROVE built[x].is = c[x].is
      OBVIOUS
    <2>2. CASE x \in Upto(i - 1)
      BY <2>2, <1>2
    <2>3. CASE x \in Stores(i)
      <3>1. \A r \in Reads(x) : built[r].is = c[r].is
        BY <1>3, <1>4, <1>5, <2>1, UptoReads
      <3>2. Content(m.text, x, built) = Content(m.text, x, c)
        BY <1>1, <3>1, ContentSame
      <3>3. c[x].is = Content(m.text, x, c)
        BY <2>1, <2>3 DEF X
      <3> QED BY <2>3, <3>2, <3>3, <1>2
    <2> QED BY <1>1, <2>1, <2>2, <2>3
  <1>6. Slots \subseteq G
    <2> HIDE DEF G
    <2> QED BY <1>5, ReadsInduct
  <1> QED BY <1>1, <1>3, <1>6 DEF built

(* How far a run of a text comes: to the first segment that raises.        *)
Came(text, i) ==
  {d \in Slots : \E j \in 1 .. i : d \in Stores(j) /\ \A l \in 1 .. j : ~RaisesIn(text, l)}

LEMMA CameNext ==
  ASSUME NEW text, NEW i \in 1 .. Count
  PROVE  /\ (\E j \in 1 .. i : RaisesIn(text, j)) => Came(text, i) = Came(text, i - 1)
         /\ ~(\E j \in 1 .. i : RaisesIn(text, j)) => Came(text, i) = Came(text, i - 1) \cup Stores(i)
  <1>1. i \in Nat /\ Stores(i) \subseteq Slots
    BY UptoNext, Places DEF Count
  <1>2. \A j \in 1 .. i : j = i \/ j \in 1 .. i - 1
    BY <1>1
  <1>3. \A j \in 1 .. i - 1 : j \in 1 .. i
    BY <1>1
  <1>4. i \in 1 .. i
    BY <1>1
  <1>5. Came(text, i - 1) \subseteq Came(text, i)
    BY <1>3 DEF Came
  <1>6. ASSUME NEW d \in Came(text, i), d \notin Came(text, i - 1)
        PROVE  d \in Stores(i) /\ ~(\E j \in 1 .. i : RaisesIn(text, j))
    BY <1>2, <1>6 DEF Came
  <1>7. ASSUME ~(\E j \in 1 .. i : RaisesIn(text, j)) PROVE Stores(i) \subseteq Came(text, i)
    BY <1>1, <1>4, <1>7 DEF Came
  <1> QED BY <1>5, <1>6, <1>7

(* The table k is of contents c: what it keeps has them and does not       *)
(* raise, and what it must build is told by no value c has of another text *)
(* in its segment.                                                         *)
Ready(k, text, c) ==
  /\ \A d \in DOMAIN k.slot : k.slot[d].is = c[d].is /\ <<d, text[d]>> \notin Raises
  /\ \A i \in DOMAIN Segments : ~(Stores(i) \subseteq DOMAIN k.slot) =>
        \A d \in Stores(i) \ DOMAIN k.slot : \A x \in Deps(text, d) \cap Stores(i) :
           c[x].is = Content(text, x, c)

Exactly(m, i, text, c) ==
  /\ m.failed = TRUE <=> \E j \in 1 .. i : RaisesIn(text, j)
  /\ DOMAIN m.regs = Came(text, i)
  /\ \A d \in DOMAIN m.regs : m.regs[d].is = c[d].is
  /\ \A d \in DOMAIN m.tab.slot : m.tab.slot[d].is = c[d].is /\ <<d, text[d]>> \notin Raises

LEMMA ExactlyNext ==
  ASSUME NEW k, NEW text, NEW c, Ready(k, text, c), NEW m, NEW i \in 1 .. Count,
         Along(m, i - 1, k, text), Exactly(m, i - 1, text, c)
  PROVE  Exactly(RunSegment(m, Segments[i]), i, text, c)
  <1> DEFINE m2 == RunSegment(m, Segments[i])
             before == \E j \in 1 .. i - 1 : RaisesIn(text, j)
             raised == \E j \in 1 .. i : RaisesIn(text, j)
  <1>1. /\ Upto(i) = Upto(i - 1) \cup Stores(i) /\ Upto(i - 1) \cap Stores(i) = {}
        /\ i \in DOMAIN Segments /\ Stores(i) \subseteq Slots
    BY UptoNext
  <1>2. (m.failed = TRUE /\ m2 = m) \/ Skipped(m, m2, i) \/ Raised(m, m2, i) \/ Stored(m, m2, i)
    BY <1>1, RunsOne DEF Along
  <1>3. raised <=> before \/ RaisesIn(text, i)
    <2>1. i \in Nat /\ i \in 1 .. i
      BY Places DEF Count
    <2>2. \A j \in 1 .. i : j = i \/ j \in 1 .. i - 1
      BY <2>1
    <2>3. \A j \in 1 .. i - 1 : j \in 1 .. i
      BY <2>1
    <2> QED BY <2>1, <2>2, <2>3
  <1>4. m.failed = TRUE <=> before
    BY DEF Exactly
  <1>5. /\ raised => Came(text, i) = Came(text, i - 1)
        /\ ~raised => Came(text, i) = Came(text, i - 1) \cup Stores(i)
    BY CameNext
  <1>6. m.text = text
    BY DEF Along
  <1> HIDE DEF m2, before, raised
  <1> SUFFICES Exactly(m2, i, text, c)
    BY DEF m2
  <1>7. CASE m.failed = TRUE /\ m2 = m
    BY <1>3, <1>4, <1>5, <1>7 DEF Exactly, raised
  <1>8. CASE Skipped(m, m2, i)
    <2>1. ~RaisesIn(text, i)
      BY <1>8 DEF Skipped, Exactly, RaisesIn
    <2>2. ~raised /\ m2.failed = FALSE
      BY <1>3, <1>4, <1>8, <2>1 DEF Skipped, Loaded
    <2>3. DOMAIN m2.regs = Came(text, i) /\ \A d \in DOMAIN m2.regs : m2.regs[d].is = c[d].is
      BY <1>5, <1>8, <2>2 DEF Skipped, Loaded, Exactly
    <2> QED BY <1>8, <2>2, <2>3 DEF Exactly, Skipped, Loaded, raised
  <1>9. CASE Raised(m, m2, i)
    <2>1. raised /\ m2.failed = TRUE
      BY <1>3, <1>6, <1>9 DEF Raised
    <2> QED BY <1>5, <1>9, <2>1 DEF Raised, Exactly, raised
  <1>10. CASE Stored(m, m2, i)
    <2> DEFINE built == FoldLeft(Build, m, Segments[i]).regs
               same == \A d \in Stores(i) \ DOMAIN m.tab.slot :
                          d \in DOMAIN m.tab.prior /\ Replaces(m.tab.prior[d], built[d], Stores(i))
    <2>1. ~raised /\ m2.failed = FALSE /\ ~RaisesIn(text, i)
      BY <1>3, <1>4, <1>6, <1>10 DEF Stored, Loaded
    <2>2. ASSUME NEW d \in Stores(i), d \notin DOMAIN m.tab.slot PROVE built[d].is = c[d].is
      <3>1. DOMAIN m.regs = Upto(i - 1) /\ IsMachine(m)
        BY <1>10 DEF Along, Stored, Machine
      <3>2. \A x \in Upto(i - 1) : m.regs[x].is = c[x].is
        BY <3>1 DEF Exactly
      <3>3. d \notin DOMAIN k.slot
        BY <2>2 DEF Along
      <3>4. \A x \in Deps(m.text, d) \cap Stores(i) : c[x].is = Content(m.text, x, c)
        BY <1>1, <1>6, <2>2, <3>3 DEF Ready
      <3> QED BY <2>2, <3>1, <3>2, <3>4, BuiltIs
    <2>3. \A d \in Stores(i) :
             m2.tab.slot[d] = IF d \in DOMAIN m.tab.slot THEN m.tab.slot[d]
                              ELSE IF same THEN m.tab.prior[d] ELSE built[d]
      BY <1>10, Zenon DEF Stored, Settled
    <2>4. same => \A d \in Stores(i) \ DOMAIN m.tab.slot : m.tab.prior[d].is = built[d].is
      <3> HIDE DEF built
      <3> QED BY DEF Replaces
    <2> HIDE DEF same, built
    <2>5. \A d \in Stores(i) : m2.tab.slot[d].is = c[d].is
      BY <2>2, <2>3, <2>4 DEF Exactly
    <2>6. \A d \in DOMAIN m2.tab.slot : m2.tab.slot[d].is = c[d].is /\ <<d, text[d]>> \notin Raises
      BY <1>10, <2>1, <2>5 DEF Stored, Exactly, RaisesIn
    <2>7. DOMAIN m2.regs = Came(text, i) /\ \A d \in DOMAIN m2.regs : m2.regs[d].is = c[d].is
      BY <1>5, <1>10, <2>1, <2>5 DEF Stored, Loaded, Exactly
    <2> QED BY <2>1, <2>6, <2>7 DEF Exactly, raised
  <1> QED BY <1>2, <1>7, <1>8, <1>9, <1>10

(* What a run shows when the contents are c.                               *)
Seen(text, c) == [d \in Came(text, Count) |-> c[d].is]

Passed(c) == [d \in Captures |-> c[d].is]

Shown(text, c) ==
  [seen |-> Seen(text, c),
   answer |-> IF \E j \in 1 .. Count : RaisesIn(text, j) THEN <<>> ELSE <<text[Body], Passed(c)>>]

(* The scope's record is of the text.                                      *)
Answers(k, text) == \A r \in k.memo : r.answer = <<text[Body], r.with>>

LEMMA FinishShows ==
  ASSUME NEW m, Machine(m), NEW c, Exactly(m, Count, m.text, c), Answers(m.tab, m.text),
         m.failed = FALSE => DOMAIN m.regs = Slots
  PROVE  Finish(m).shown = Shown(m.text, c) /\ Answers(Finish(m), m.text)
  <1> DEFINE captured == [d \in Captures |-> m.regs[d].is]
             answer == Answer(m.tab, m.text, captured)
             raised == \E j \in 1 .. Count : RaisesIn(m.text, j)
  <1>1. Finish(m) =
          IF m.failed
          THEN [m.tab EXCEPT !.gate = "settled", !.shown = [seen |-> Contents(m.regs), answer |-> <<>>]]
          ELSE [m.tab EXCEPT !.gate = "settled",
                             !.memo = {[with |-> captured, answer |-> answer]},
                             !.shown = [seen |-> Contents(m.regs), answer |-> answer]]
    BY Zenon DEF Finish
  <1>2. Contents(m.regs) = Seen(m.text, c)
    BY DEF Contents, Seen, Exactly
  <1>3. answer = <<m.text[Body], captured>>
    <2> HIDE DEF captured
    <2>1. CASE \E r \in m.tab.memo : r.with = captured
      <3> DEFINE r == CHOOSE x \in m.tab.memo : x.with = captured
      <3>1. r \in m.tab.memo /\ r.with = captured
        BY <2>1
      <3>2. answer = r.answer
        BY <2>1, Zenon DEF Answer
      <3> HIDE DEF r
      <3> QED BY <3>1, <3>2 DEF Answers
    <2>2. CASE ~\E r \in m.tab.memo : r.with = captured
      BY <2>2, Zenon DEF Answer
    <2> QED BY <2>1, <2>2
  <1>4. m.failed = FALSE => captured = Passed(c)
    BY ProgramAssumption DEF Exactly, Passed
  <1>5. m.failed = TRUE <=> raised
    BY DEF Exactly
  <1>6. raised => Shown(m.text, c) = [seen |-> Seen(m.text, c), answer |-> <<>>]
    BY Zenon DEF Shown
  <1>7. ~raised => Shown(m.text, c) = [seen |-> Seen(m.text, c), answer |-> <<m.text[Body], Passed(c)>>]
    BY Zenon DEF Shown
  <1> HIDE DEF captured, answer, raised
  <1>8. CASE m.failed
    <2>1. Finish(m) = [m.tab EXCEPT !.gate = "settled", !.shown = [seen |-> Contents(m.regs), answer |-> <<>>]]
      BY <1>1, <1>8
    <2>2. Finish(m).memo = m.tab.memo /\ Finish(m).shown = [seen |-> Contents(m.regs), answer |-> <<>>]
      BY <2>1 DEF Machine, IsStack, StackFields
    <2>3. raised
      BY <1>5, <1>8 DEF Machine
    <2> QED BY <1>2, <1>6, <2>2, <2>3 DEF Answers
  <1>9. CASE ~m.failed
    <2>1. Finish(m) = [m.tab EXCEPT !.gate = "settled",
                             !.memo = {[with |-> captured, answer |-> answer]},
                             !.shown = [seen |-> Contents(m.regs), answer |-> answer]]
      BY <1>1, <1>9
    <2>2. Finish(m).memo = {[with |-> captured, answer |-> answer]}
          /\ Finish(m).shown = [seen |-> Contents(m.regs), answer |-> answer]
      BY <2>1 DEF Machine, IsStack, StackFields
    <2>3. ~raised /\ m.failed = FALSE
      BY <1>5, <1>9 DEF Machine
    <2>4. Answers(Finish(m), m.text)
      BY <1>3, <2>2 DEF Answers
    <2> QED BY <1>2, <1>3, <1>4, <1>7, <2>2, <2>3, <2>4
  <1> QED BY <1>8, <1>9

LEMMA ExecuteShows ==
  ASSUME NEW k, IsStack(k), NEW p, NEW c, Ready(k, p.text, c), Answers(k, p.text)
  PROVE  /\ Execute(k, p).shown = Shown(p.text, c) /\ Answers(Execute(k, p), p.text)
         /\ \A d \in DOMAIN Execute(k, p).slot :
               Execute(k, p).slot[d].is = c[d].is /\ <<d, p.text[d]>> \notin Raises
         /\ DOMAIN k.slot \subseteq DOMAIN Execute(k, p).slot
         /\ \A d \in DOMAIN k.slot : Execute(k, p).slot[d] = k.slot[d]
         /\ \A f \in {"stamp", "deferred", "redo", "parked", "at"} : Execute(k, p)[f] = k[f]
  <1>1. PICK g : Steps(g, k, p)
    BY RunSteps
  <1>2. Count \in Nat /\ Upto(Count) = Slots
    BY Places DEF Count, Upto
  <1>3. \A i \in 0 .. Count : Along(g[i], i, k, p.text)
    BY <1>1, RunAlong
  <1> DEFINE S == {i \in 0 .. Count : Exactly(g[i], i, p.text, c)}
  <1>4. 0 \in S
    <2>1. g[0].tab = k /\ g[0].regs = <<>> /\ g[0].failed = FALSE
      BY <1>1 DEF Steps, Start
    <2>2. Came(p.text, 0) = {} /\ 1 .. 0 = {} /\ DOMAIN g[0].regs = {}
      BY <2>1 DEF Came
    <2>3. Exactly(g[0], 0, p.text, c)
      BY <2>1, <2>2 DEF Exactly, Ready
    <2> QED BY <1>2, <2>3
  <1>5. ASSUME NEW i \in 1 .. Count, i - 1 \in S PROVE i \in S
    <2>1. g[i] = RunSegment(g[i - 1], Segments[i]) /\ Along(g[i - 1], i - 1, k, p.text)
          /\ Exactly(g[i - 1], i - 1, p.text, c)
      BY <1>1, <1>3, <1>5 DEF Steps
    <2>2. Exactly(g[i], i, p.text, c)
      BY <2>1, ExactlyNext
    <2> QED BY <1>2, <2>2
  <1>6. Exactly(g[Count], Count, p.text, c)
    <2> HIDE DEF S
    <2>1. \A i \in 0 .. Count : i \in S
      BY <1>2, <1>4, <1>5, RunFold!Induct
    <2>2. Count \in S
      BY <1>2, <2>1
    <2> QED BY <2>2 DEF S
  <1> DEFINE m  == g[Count]
             k2 == Execute(k, p)
  <1>7. Along(m, Count, k, p.text) /\ k2 = Finish(m)
    BY <1>1, <1>2, <1>3 DEF Steps
  <1> HIDE DEF m, k2
  <1>8. /\ Machine(m) /\ m.text = p.text /\ Exactly(m, Count, m.text, c)
        /\ m.failed = FALSE => DOMAIN m.regs = Slots
    BY <1>2, <1>6, <1>7 DEF Along, m
  <1>9. Answers(m.tab, m.text)
    <2>1. m.tab.memo = k.memo
      BY <1>7 DEF Along, Aside, StackFields
    <2> QED BY <1>8, <2>1 DEF Answers
  <1>10. k2.shown = Shown(p.text, c) /\ Answers(k2, p.text)
    BY <1>7, <1>8, <1>9, FinishShows
  <1>11. \A f \in {"stamp", "slot", "deferred", "redo", "parked", "at"} : k2[f] = m.tab[f]
    BY <1>7, <1>8, FinishIs
  <1>12. \A f \in {"stamp", "deferred", "redo", "parked", "at"} : k2[f] = k[f]
    BY <1>7, <1>11 DEF Along, Aside, StackFields
  <1>13. k2.slot = m.tab.slot
    BY <1>11
  <1> QED BY <1>7, <1>8, <1>10, <1>12, <1>13 DEF Exactly, Along, k2
-----------------------------------------------------------------------------
(* What a table has of a text.                                             *)

(* The values k keeps are those the text T gives when those put off stay   *)
(* as they are, and do not raise; a segment that waits waits whole; and a  *)
(* value that neither waits nor is to be built again is told by none that  *)
(* the edit which waits has reached.                                       *)
Fits(c, text, k) ==
  /\ Solves(c, text, k.deferred, k.slot, Slots)
  /\ \A d \in DOMAIN k.slot : k.slot[d].is = c[d].is /\ <<d, text[d]>> \notin Raises
  /\ \A i \in DOMAIN Segments :
        Stores(i) \cap k.deferred # {} => Stores(i) \subseteq DOMAIN k.slot \ k.redo
  /\ \A d \in Slots \ (k.deferred \cup k.redo) : \A x \in Deps(text, d) \cap k.deferred :
        c[x].is = Content(text, x, c)

LEMMA FitsTold ==
  ASSUME NEW c, NEW text, NEW k, Fits(c, text, k), NEW d \in Slots \ (k.deferred \cup k.redo),
         NEW x \in Deps(text, d) \cap Slots
  PROVE  c[x].is = Content(text, x, c)
  BY DEF Fits, Solves

LEMMA FitsReady ==
  ASSUME NEW c, NEW text, NEW k, Fits(c, text, k)
  PROVE  Ready(k, text, c)
  <1>1. ASSUME NEW i \in DOMAIN Segments, ~(Stores(i) \subseteq DOMAIN k.slot), NEW x \in Stores(i)
        PROVE  c[x].is = Content(text, x, c)
    <2>1. x \notin k.deferred /\ x \in Slots
      BY <1>1, Places DEF Fits
    <2> QED BY <2>1 DEF Fits, Solves
  <1> QED BY <1>1 DEF Ready, Fits

(* A table with no more than the values that wait.                         *)
LEMMA WaitingReady ==
  ASSUME NEW c, NEW text, NEW k, Fits(c, text, k), k.deferred \subseteq DOMAIN k.slot,
         NEW k2, k2.slot = Restrict(k.slot, k.deferred)
  PROVE  Ready(k2, text, c)
  <1>1. DOMAIN k2.slot = k.deferred /\ \A d \in k.deferred : k2.slot[d] = k.slot[d]
    BY Restricted
  <1>2. ASSUME NEW i \in DOMAIN Segments, NEW d \in Stores(i) \ k.deferred,
               NEW x \in Deps(text, d) \cap Stores(i)
        PROVE  c[x].is = Content(text, x, c)
    <2>1. x \in Slots /\ d \in Slots
      BY Places
    <2>2. CASE x \notin k.deferred
      BY <2>1, <2>2 DEF Fits, Solves
    <2>3. CASE x \in k.deferred
      <3>1. d \notin k.redo
        BY <2>3 DEF Fits
      <3> QED BY <2>1, <2>3, <3>1 DEF Fits
    <2> QED BY <2>2, <2>3
  <1>3. \A d \in DOMAIN k2.slot : k2.slot[d].is = c[d].is /\ <<d, text[d]>> \notin Raises
    BY <1>1 DEF Fits
  <1> QED BY <1>1, <1>2, <1>3 DEF Ready

LEMMA BareFits ==
  ASSUME NEW k, Bare(k), NEW text
  PROVE  \E c : Fits(c, text, k)
  <1>1. PICK c : Solves(c, text, {}, k.slot, Slots)
    BY Solvable
  <1>2. Fits(c, text, k)
    BY <1>1 DEF Fits, Bare
  <1> QED BY <1>2

LEMMA SameFits ==
  ASSUME NEW k, NEW k2, NEW text, NEW c, Fits(c, text, k),
         k2.slot = k.slot, k2.deferred = k.deferred, k2.redo = k.redo
  PROVE  Fits(c, text, k2)
  BY DEF Fits, Solves

(* A pause: nothing that is left was told by what waited.                  *)
LEMMA FlushFits ==
  ASSUME NEW k, Shape(k), NEW k2, Flushed(k, k2), NEW text, NEW c, Fits(c, text, k)
  PROVE  \E c2 : Fits(c2, text, k2)
  <1>1. PICK c2 : Solves(c2, text, {}, k2.slot, Slots)
    BY Solvable
  <1>2. /\ k2.deferred = {} /\ k2.redo = {}
        /\ DOMAIN k2.slot = DOMAIN k.slot \ (k.deferred \cup k.redo)
        /\ \A d \in DOMAIN k2.slot : k2.slot[d] = k.slot[d]
    BY DEF Flushed
  <1>3. \A x \in Slots : c2[x].is = Content(text, x, c2)
    BY <1>1 DEF Solves
  <1>4. ASSUME NEW d \in DOMAIN k2.slot
        PROVE  k2.slot[d].is = c2[d].is /\ <<d, text[d]>> \notin Raises
    <2> DEFINE X == Deps(text, d)
    <2>1. d \in Slots \ (k.deferred \cup k.redo) /\ d \in DOMAIN k.slot /\ d \in Decls
      BY <1>2, Places DEF Shape
    <2>2. Unmoved(text, text, X) /\ d \in X
      BY <2>1, DepsClosed DEF Unmoved
    <2>3. \A x \in X \cap Slots : c[x].is = Content(text, x, c)
      BY <2>1, FitsTold
    <2> HIDE DEF X
    <2>4. \A x \in X \cap Slots : c2[x].is = c[x].is
      BY <1>3, <2>2, <2>3, Agree
    <2> QED BY <1>2, <2>1, <2>2, <2>4 DEF Fits
  <1>5. Fits(c2, text, k2)
    BY <1>1, <1>2, <1>4 DEF Fits
  <1> QED BY <1>5

(* A run of such a table.                                                  *)
LEMMA WaitingShows ==
  ASSUME NEW p, NEW c, NEW k, Fits(c, p.text, k), k.deferred \subseteq DOMAIN k.slot,
         NEW k2, IsStack(k2), k2.slot = Restrict(k.slot, k.deferred), k2.memo = {}
  PROVE  Execute(k2, p).shown = Shown(p.text, c)
  <1>1. Ready(k2, p.text, c)
    BY WaitingReady
  <1>2. Answers(k2, p.text)
    BY DEF Answers
  <1> QED BY <1>1, <1>2, ExecuteShows

(* A run.                                                                  *)
LEMMA RunFits ==
  ASSUME NEW k, Shape(k), NEW p, NEW c, Fits(c, p.text, k), Answers(k, p.text)
  PROVE  /\ Fits(c, p.text, Execute(k, p)) /\ Execute(k, p).shown = Shown(p.text, c)
         /\ Answers(Execute(k, p), p.text)
  <1> DEFINE k2 == Execute(k, p)
  <1>1. Ready(k, p.text, c)
    BY FitsReady
  <1>2. /\ k2.shown = Shown(p.text, c) /\ Answers(k2, p.text)
        /\ \A d \in DOMAIN k2.slot : k2.slot[d].is = c[d].is /\ <<d, p.text[d]>> \notin Raises
        /\ DOMAIN k.slot \subseteq DOMAIN k2.slot
        /\ \A d \in DOMAIN k.slot : k2.slot[d] = k.slot[d]
        /\ k2.deferred = k.deferred /\ k2.redo = k.redo
    BY <1>1, ExecuteShows DEF Shape
  <1> HIDE DEF k2
  <1>3. Solves(c, p.text, k2.deferred, k2.slot, Slots)
    BY <1>2 DEF Fits, Solves, Shape
  <1>4. Fits(c, p.text, k2)
    BY <1>2, <1>3 DEF Fits
  <1> QED BY <1>2, <1>4 DEF k2
-----------------------------------------------------------------------------
(* An edit of a declaration: a literal's, if the lowering is the same.     *)
EditsOne(e, y) ==
  /\ y \in Decls /\ e.changed = {y}
  /\ e.new.text \in [Decls -> {0, 1}]
  /\ \A d \in Decls : d # y => e.new.text[d] = e.old.text[d]
  /\ Same(e) => y \in Literals

(* What a value the edit did not reach is told by is as it was.            *)
LEMMA CleanUnmoved ==
  ASSUME NEW e, NEW y, EditsOne(e, y), NEW k, NEW d \in Decls, Clean(k, e, d)
  PROVE  /\ Unmoved(e.old.text, e.new.text, Deps(e.old.text, d))
         /\ Deps(e.new.text, d) = Deps(e.old.text, d)
  <1> DEFINE old == e.old.text
             new == e.new.text
             X   == Deps(old, d)
  <1>1. d \in X /\ X \subseteq Decls /\ \A x \in X : Direct(old, x) \subseteq X /\ Reads(x) \subseteq X
    BY DepsClosed
  <1>2. y \notin X
    BY DEF Clean, Touched, EditsOne
  <1>3. \A x \in X : new[x] = old[x]
    BY <1>1, <1>2 DEF EditsOne
  <1>4. Deps(new, d) = X
    <2>1. CASE Same(e)
      <3>1. y \notin Optional
        BY <2>1, ProgramAssumption DEF EditsOne
      <3>2. {o \in Optional : new[o] # 0} = {o \in Optional : old[o] # 0}
        BY <3>1, ProgramAssumption DEF EditsOne
      <3> QED BY <3>2, DepsIs
    <2>2. CASE ~Same(e)
      BY <2>2 DEF Clean
    <2> QED BY <2>1, <2>2
  <1>5. ASSUME NEW x \in X PROVE Direct(new, x) = Direct(old, x)
    <2>1. x \in Decls /\ Mentions[x] \subseteq Decls
      BY <1>1, ProgramAssumption
    <2>2. ASSUME y \in Mentions[x] PROVE y \notin Direct(old, x) /\ y \notin Direct(new, x)
      <3>1. y \notin Direct(old, x)
        BY <1>1, <1>2
      <3>2. Direct(new, x) \subseteq Deps(new, d)
        BY <1>4, DepsClosed
      <3> QED BY <1>2, <1>4, <3>1, <3>2
    <2>3. \A m \in Mentions[x] : m # y => (m \in Direct(new, x) <=> m \in Direct(old, x))
      BY <2>1 DEF Direct, EditsOne
    <2>4. Direct(new, x) \subseteq Mentions[x] /\ Direct(old, x) \subseteq Mentions[x]
      BY DEF Direct
    <2> QED BY <2>2, <2>3, <2>4
  <1> QED BY <1>1, <1>3, <1>4, <1>5 DEF Unmoved

(* An edit: what is kept was told by nothing it changed, and what waits    *)
(* waits with the whole of its segment.                                    *)
LEMMA InstallFits ==
  ASSUME NEW e, NEW y, EditsOne(e, y), NEW k, Shape(k),
         k.stamp = Stamp(e.old) => \E c : Fits(c, e.old.text, k),
         NEW k2, Installed(k, e, k2)
  PROVE  \E c2 : Fits(c2, e.new.text, k2)
  <1> DEFINE old == e.old.text
             new == e.new.text
  <1>1. PICK f0, f : /\ Seeded(k, e, f0) /\ Keeping(f, Count, f0)
                     /\ k2.slot = f.slot /\ k2.prior = f.prior /\ k2.deferred = f.deferred
                     /\ k2.redo = IF f.deferred = {} THEN {} ELSE Slots \ DOMAIN f.slot
    BY Zenon DEF Installed
  <1>2. DOMAIN k.slot \subseteq Slots /\ k.deferred \subseteq DOMAIN k.slot
    BY DEF Shape
  <1>3. DOMAIN f0.slot \subseteq Has(k, e) /\ Has(k, e) \subseteq DOMAIN k.slot
    BY <1>1 DEF Seeded, Has
  <1>4. /\ DOMAIN k2.slot \subseteq DOMAIN f0.slot /\ \A d \in DOMAIN k2.slot : k2.slot[d] = f0.slot[d]
        /\ k2.deferred = f0.deferred \cap DOMAIN k2.slot
    BY <1>1 DEF Keeping
  <1>5. \A i \in DOMAIN Segments : Stores(i) \subseteq DOMAIN k2.slot \/ Stores(i) \cap DOMAIN k2.slot = {}
    BY <1>1, Places DEF Keeping, Count
  <1>6. PICK c2 : Solves(c2, new, k2.deferred, k2.slot, Slots)
    BY Solvable
  <1>7. CASE DOMAIN k2.slot = {}
    <2>1. Fits(c2, new, k2)
      BY <1>1, <1>4, <1>6, <1>7 DEF Fits
    <2> QED BY <2>1
  <1>8. CASE DOMAIN k2.slot # {}
    <2>1. k.stamp = Stamp(e.old)
      BY <1>3, <1>4, <1>8 DEF Has
    <2>2. PICK c : Fits(c, old, k)
      BY <2>1
    <2>3. \A d \in k2.deferred : /\ d \in Slots /\ d \in DOMAIN k.slot /\ k2.slot[d] = k.slot[d]
                                 /\ c2[d].is = c[d].is /\ d \notin Literals /\ Same(e)
      <3> SUFFICES ASSUME NEW d \in k2.deferred
                   PROVE  /\ d \in Slots /\ d \in DOMAIN k.slot /\ k2.slot[d] = k.slot[d]
                          /\ c2[d].is = c[d].is /\ d \notin Literals /\ Same(e)
        OBVIOUS
      <3>1. d \in f0.deferred /\ d \in DOMAIN k2.slot /\ d \in DOMAIN k.slot /\ d \in Slots
        BY <1>2, <1>3, <1>4
      <3>2. k2.slot[d] = k.slot[d] /\ d \notin Literals /\ Same(e)
        BY <1>1, <1>4, <3>1 DEF Seeded
      <3>3. c2[d].is = k2.slot[d].is
        BY <1>6, <3>1 DEF Solves
      <3> QED BY <2>2, <3>1, <3>2, <3>3 DEF Fits
    <2>4. ASSUME NEW d \in Slots, Clean(k, e, d)
          PROVE  /\ \A x \in Deps(new, d) \cap Slots :
                       c2[x].is = c[x].is /\ c2[x].is = Content(new, x, c2)
                 /\ d \in Deps(new, d)
      <3> DEFINE X == Deps(old, d)
      <3>1. d \in Decls /\ d \in Slots \ (k.deferred \cup k.redo)
        BY <2>4, Places DEF Clean
      <3>2. Unmoved(old, new, X) /\ Deps(new, d) = X /\ d \in X
        BY <2>4, <3>1, CleanUnmoved, DepsClosed
      <3>3. \A x \in X \cap Slots : c[x].is = Content(old, x, c)
        BY <2>2, <3>1, FitsTold
      <3>4. \A x \in X \cap Slots : c2[x].is = c[x].is \/ c2[x].is = Content(new, x, c2)
        BY <1>6, <2>3 DEF Solves
      <3> HIDE DEF X, old, new
      <3>5. \A x \in X \cap Slots : c2[x].is = c[x].is
        BY <3>2, <3>3, <3>4, Agree
      <3>6. ASSUME NEW x \in X \cap Slots PROVE Content(new, x, c2) = Content(old, x, c)
        <4>1. /\ x \in Decls /\ new[x] = old[x] /\ Direct(new, x) = Direct(old, x)
              /\ \A m \in Direct(old, x) : new[m] = old[m]
          BY <3>2 DEF Unmoved
        <4>2. \A r \in Reads(x) : c2[r].is = c[r].is
          BY <3>2, <3>5 DEF Unmoved, Reads
        <4> QED BY <4>1, <4>2, ContentAgrees
      <3> QED BY <3>2, <3>3, <3>5, <3>6
    <2>5. ASSUME NEW d \in DOMAIN k2.slot \ k2.deferred, d \in Literals, k2.slot[d] = Literal(e, d)
          PROVE  k2.slot[d].is = c2[d].is
      <3>1. d \in Slots /\ d \in Decls
        BY <1>2, <1>3, <1>4, Places
      <3>2. Reads(d) = {}
        BY <2>5, <3>1, ProgramAssumption DEF Reads
      <3>3. \A r \in Reads(d) : c2[r].is = (<<>>)[r].is
        BY <3>2
      <3>4. Content(new, d, <<>>) = Content(new, d, c2)
        BY <3>1, <3>3, ContentSame
      <3>5. c2[d].is = Content(new, d, c2)
        BY <1>6, <3>1, <2>5 DEF Solves
      <3>6. k2.slot[d].is = Content(new, d, <<>>)
        BY <2>5 DEF Literal
      <3> QED BY <3>4, <3>5, <3>6
    <2>6. ASSUME NEW d \in DOMAIN k2.slot \ k2.deferred
          PROVE  \/ Clean(k, e, d) /\ k2.slot[d] = k.slot[d]
                 \/ d \in Literals /\ k2.slot[d] = Literal(e, d)
      BY <1>1, <1>4 DEF Seeded
    <2>7. ASSUME NEW d \in DOMAIN k2.slot PROVE k2.slot[d].is = c2[d].is /\ <<d, new[d]>> \notin Raises
      <3>1. d \in Slots /\ d \in Decls /\ d \in DOMAIN k.slot
        BY <1>2, <1>3, <1>4, Places
      <3>2. k.slot[d].is = c[d].is /\ <<d, old[d]>> \notin Raises
        BY <2>2, <3>1 DEF Fits
      <3>3. CASE d \in k2.deferred
        <4>1. d # y
          BY <2>3, <3>3 DEF EditsOne
        <4>2. new[d] = old[d]
          BY <3>1, <4>1 DEF EditsOne
        <4> QED BY <2>3, <3>2, <3>3, <4>2
      <3>4. CASE d \notin k2.deferred /\ Clean(k, e, d) /\ k2.slot[d] = k.slot[d]
        <4>1. d # y
          BY <3>1, <3>4, DepsClosed DEF EditsOne, Clean, Touched
        <4>2. new[d] = old[d]
          BY <3>1, <4>1 DEF EditsOne
        <4> QED BY <2>4, <3>1, <3>2, <3>4, <4>2
      <3>5. CASE d \notin k2.deferred /\ d \in Literals /\ k2.slot[d] = Literal(e, d)
        <4>1. new[d] \in {0, 1}
          BY <3>1 DEF EditsOne
        <4>2. <<d, new[d]>> \notin Raises
          BY <3>1, <3>5, <4>1, ProgramAssumption
        <4> QED BY <2>5, <3>5, <4>2
      <3> QED BY <2>6, <3>3, <3>4, <3>5
    <2>8. ASSUME NEW i \in DOMAIN Segments, Stores(i) \cap k2.deferred # {}
          PROVE  Stores(i) \subseteq DOMAIN k2.slot \ k2.redo
      BY <1>1, <1>4, <1>5, <2>8
    <2>9. ASSUME NEW d \in Slots \ (k2.deferred \cup k2.redo), NEW x \in Deps(new, d) \cap k2.deferred
          PROVE  c2[x].is = Content(new, x, c2)
      <3>1. d \in DOMAIN k2.slot \ k2.deferred /\ x \in Slots /\ d \in Decls
        BY <1>1, <2>3, <2>9, Places
      <3>2. CASE Clean(k, e, d)
        BY <2>4, <3>1, <3>2
      <3>3. CASE d \in Literals
        <4>1. Deps(new, d) = {d}
          <5>1. Mentions[d] = {}
            BY <3>1, <3>3, ProgramAssumption
          <5>2. \A o : Reached(o, d) = {d}
            BY <3>1, <5>1 DEF Reached
          <5> QED BY <3>1, <5>2, DepsIs
        <4> QED BY <3>1, <4>1
      <3> QED BY <2>6, <3>1, <3>2, <3>3
    <2>10. Fits(c2, new, k2)
      BY <1>6, <2>7, <2>8, <2>9 DEF Fits
    <2> QED BY <2>10
  <1> QED BY <1>7, <1>8
-----------------------------------------------------------------------------
(* What a stack has to do with the program.                                *)

(* The table is stamped by the program only while it is of its text, and   *)
(* stamps are used once: a stamp of the lowering there is now is no newer  *)
(* than the program, one of no lowering is that of an empty table.         *)
Stamped(k, p) ==
  /\ k.stamp[1] = 0 => Bare(k)
  /\ k.stamp[1] = p.lowering /\ p.lowering # 0 => k.stamp[2] \in Nat /\ k.stamp[2] <= p.revision

Exact(k, p) == k.stamp = Stamp(p) => \E c : Fits(c, p.text, k)

Kept(k, p) == Stamped(k, p) /\ Exact(k, p) /\ Answers(k, p.text)

(* A frame that may be skipped shows the text there is now.                *)
Current(k, p) ==
  k.gate = "settled" /\ ~k.parked =>
     /\ k.stamp = Stamp(p) /\ p.lowering # 0
     /\ \E c : Fits(c, p.text, k) /\ k.shown = Shown(p.text, c)

Fresh(k, p) == Kept(k, p) /\ Current(k, p)

LEMMA DropFresh ==
  ASSUME NEW k, Bare(k), k.stamp = NoStamp, k.memo = {}, k.gate = "run", NEW p
  PROVE  Fresh(k, p)
  <1>1. k.stamp[1] = 0
    BY DEF NoStamp
  <1>2. Stamped(k, p) /\ Exact(k, p)
    BY <1>1, BareFits DEF Stamped, Exact
  <1> QED BY <1>2 DEF Fresh, Kept, Answers, Current

LEMMA SameFresh ==
  ASSUME NEW k, NEW p, Fresh(k, p), NEW k2,
         \A f \in {"stamp", "slot", "prior", "deferred", "redo", "memo", "gate", "shown", "parked"} :
            k2[f] = k[f]
  PROVE  Fresh(k2, p)
  <1>1. /\ k2.stamp = k.stamp /\ k2.slot = k.slot /\ k2.prior = k.prior /\ k2.deferred = k.deferred
        /\ k2.redo = k.redo /\ k2.memo = k.memo /\ k2.gate = k.gate /\ k2.shown = k.shown
        /\ k2.parked = k.parked
    OBVIOUS
  <1>2. \A c : Fits(c, p.text, k) => Fits(c, p.text, k2)
    BY <1>1, SameFits
  <1>3. Stamped(k2, p)
    BY <1>1 DEF Fresh, Kept, Stamped, Bare
  <1>4. Exact(k2, p) /\ Answers(k2, p.text)
    BY <1>1, <1>2 DEF Fresh, Kept, Exact, Answers
  <1>5. Current(k2, p)
    BY <1>1, <1>2 DEF Fresh, Current
  <1> QED BY <1>3, <1>4, <1>5 DEF Fresh, Kept

LEMMA RebuildsKept ==
  ASSUME NEW k, Shape(k), NEW p, Kept(k, p), NEW q
  PROVE  Kept(Rebuilds(k, q), p) /\ Rebuilds(k, q).gate = "run"
  <1> DEFINE k2 == Rebuilds(k, q)
  <1>1. /\ k2.gate = "run" /\ k2.memo = k.memo
        /\ \/ Flushed(k, k2) /\ k2.stamp = k.stamp
           \/ Bare(k2) /\ k2.stamp = NoStamp
    BY RebuildsIs DEF Shape
  <1> HIDE DEF k2
  <1>2. Answers(k2, p.text)
    BY <1>1 DEF Kept, Answers
  <1>3. CASE Flushed(k, k2) /\ k2.stamp = k.stamp
    <2>1. Bare(k) => Bare(k2)
      BY <1>3 DEF Bare, Flushed
    <2>2. Stamped(k2, p)
      BY <1>3, <2>1 DEF Kept, Stamped
    <2>3. Exact(k2, p)
      BY <1>3, FlushFits DEF Kept, Exact
    <2> QED BY <1>1, <1>2, <2>2, <2>3 DEF Kept, k2
  <1>4. CASE Bare(k2) /\ k2.stamp = NoStamp
    <2>1. k2.stamp[1] = 0
      BY <1>4 DEF NoStamp
    <2>2. Stamped(k2, p) /\ Exact(k2, p)
      BY <1>4, <2>1, BareFits DEF Stamped, Exact
    <2> QED BY <1>1, <1>2, <2>2 DEF Kept, k2
  <1> QED BY <1>1, <1>3, <1>4

LEMMA SyncKept ==
  ASSUME NEW k, Shape(k), NEW p, Kept(k, p), p.lowering # 0, p.revision \in Nat
  PROVE  Kept(Sync(k, p), p) /\ Sync(k, p).stamp = Stamp(p)
  <1> DEFINE k2 == Sync(k, p)
  <1>1. /\ k2.stamp = Stamp(p) /\ k2.memo = k.memo
        /\ k2 = k \/ Bare(k2)
    BY SyncIs DEF Shape
  <1> HIDE DEF k2
  <1>2. k2.stamp[1] = p.lowering /\ k2.stamp[2] = p.revision
    BY <1>1 DEF Stamp
  <1>3. Stamped(k2, p) /\ Answers(k2, p.text)
    BY <1>1, <1>2 DEF Stamped, Kept, Answers
  <1>4. Exact(k2, p)
    BY <1>1, BareFits DEF Kept, Exact
  <1> QED BY <1>1, <1>3, <1>4 DEF Kept, k2

LEMMA ExecuteFresh ==
  ASSUME NEW k, Shape(k), NEW p, Kept(k, p), k.stamp = Stamp(p), p.lowering # 0
  PROVE  Fresh(Execute(k, p), p)
  <1> DEFINE k2 == Execute(k, p)
  <1>1. PICK c : Fits(c, p.text, k)
    BY DEF Kept, Exact
  <1>2. Fits(c, p.text, k2) /\ k2.shown = Shown(p.text, c) /\ Answers(k2, p.text)
    BY <1>1, RunFits DEF Kept
  <1>3. k2.stamp = k.stamp
    BY <1>1, FitsReady, ExecuteShows DEF Kept, Shape
  <1> HIDE DEF k2
  <1>4. k.stamp[1] # 0
    BY DEF Stamp
  <1>5. Stamped(k2, p) /\ Exact(k2, p) /\ Current(k2, p)
    BY <1>2, <1>3, <1>4 DEF Kept, Stamped, Exact, Current
  <1> QED BY <1>2, <1>5 DEF Fresh, Kept, k2

(* A lowering that is made takes the stamp of no table.                    *)
LEMMA LoweredFresh ==
  ASSUME Live \subseteq Stacks, IsProgram(program), NEW s \in Live, Fresh(stack[s], program)
  PROVE  Fresh(stack[s], Lowered(program))
  <1> DEFINE q == Lowered(program)
  <1>1. /\ q.text = program.text /\ q.revision = program.revision
        /\ \/ program.lowering # 0 /\ q = program
           \/ program.lowering = 0 /\ q.lowering \notin Lowerings
    BY LoweredIs
  <1> HIDE DEF q
  <1> SUFFICES Fresh(stack[s], q)
    BY DEF q
  <1>2. CASE program.lowering # 0 /\ q = program
    BY <1>2
  <1>3. CASE program.lowering = 0 /\ q.lowering \notin Lowerings
    <2>1. stack[s].stamp[1] # q.lowering
      BY <1>3 DEF Lowerings
    <2>2. stack[s].stamp # Stamp(q)
      BY <2>1 DEF Stamp
    <2>3. Stamped(stack[s], q) /\ Exact(stack[s], q) /\ Answers(stack[s], q.text)
      BY <1>1, <2>1, <2>2 DEF Fresh, Kept, Stamped, Exact
    <2>4. Current(stack[s], q)
      BY <1>3 DEF Fresh, Current
    <2> QED BY <2>3, <2>4 DEF Fresh, Kept
  <1> QED BY <1>1, <1>2, <1>3

(* The program an edit makes is told apart from the tables there are.      *)
Turned(old, new) ==
  /\ new.revision \in Nat
  /\ \/ old.lowering = 0 /\ new.lowering = 0
     \/ /\ old.lowering # 0 /\ new.lowering # 0
        /\ \/ new.lowering = old.lowering /\ new.revision = old.revision + 1
           \/ new.lowering \notin Lowerings

LEMMA ToldFresh ==
  ASSUME NEW s \in Live, Shape(stack[s]), Fresh(stack[s], program), program.revision \in Nat,
         NEW new, Turned(program, new)
  PROVE  Fresh(Told(stack[s]), new)
  <1> DEFINE k  == stack[s]
             k2 == Told(k)
  <1>1. /\ k2.stamp = k.stamp /\ k2.slot = k.slot /\ k2.prior = k.prior /\ k2.deferred = k.deferred
        /\ k2.redo = k.redo /\ k2.memo = {} /\ k2.gate = "run"
    BY DEF Told, Shape, IsStack, StackFields
  <1>2. k.stamp[1] \in Lowerings
    BY DEF Lowerings
  <1>3. Stamped(k, program)
    BY DEF Fresh, Kept
  <1> HIDE DEF k, k2
  <1>4. Stamped(k2, new)
    BY <1>1, <1>2, <1>3 DEF Turned, Stamped, Bare
  <1>5. ASSUME k2.stamp = Stamp(new) PROVE Bare(k2)
    <2>1. k.stamp[1] = new.lowering /\ k.stamp[2] = new.revision
      BY <1>1, <1>5 DEF Stamp
    <2> QED BY <1>1, <1>2, <1>3, <2>1 DEF Turned, Stamped, Bare
  <1>6. Exact(k2, new)
    BY <1>5, BareFits DEF Exact
  <1>7. Answers(k2, new.text) /\ Current(k2, new)
    BY <1>1 DEF Answers, Current
  <1> QED BY <1>4, <1>6, <1>7 DEF Fresh, Kept, k, k2

LEMMA FollowFresh ==
  ASSUME NEW k, Shape(k), NEW e, Fresh(k, e.old), Turned(e.old, e.new),
         NEW y, e.old.lowering # 0 => EditsOne(e, y)
  PROVE  Fresh(Follow(k, e), e.new)
  <1> DEFINE k2 == Follow(k, e)
  <1>1. /\ k2.gate = "run" /\ k2.memo = {}
        /\ \/ e.old.lowering = 0 /\ Bare(k2) /\ k2.stamp = NoStamp
           \/ e.old.lowering # 0 /\ Installed(k, e, k2) /\ k2.stamp = Stamp(e.new)
    BY FollowIs DEF Shape
  <1> HIDE DEF k2
  <1>2. CASE Bare(k2) /\ k2.stamp = NoStamp
    BY <1>1, <1>2, DropFresh DEF k2
  <1>3. CASE e.old.lowering # 0 /\ Installed(k, e, k2) /\ k2.stamp = Stamp(e.new)
    <2>1. k2.stamp[1] = e.new.lowering /\ k2.stamp[2] = e.new.revision
      BY <1>3 DEF Stamp
    <2>2. Stamped(k2, e.new)
      BY <1>3, <2>1 DEF Stamped, Turned
    <2>3. k.stamp = Stamp(e.old) => \E c : Fits(c, e.old.text, k)
      BY DEF Fresh, Kept, Exact
    <2>4. \E c : Fits(c, e.new.text, k2)
      BY <1>3, <2>3, InstallFits
    <2> QED BY <1>1, <2>2, <2>4 DEF Fresh, Kept, Exact, Answers, Current, k2
  <1> QED BY <1>1, <1>2, <1>3
-----------------------------------------------------------------------------
(* The edits.                                                              *)

(* The program an edit makes when it is lowered at once if it was before.  *)
LEMMA RelowerIs ==
  ASSUME Live \subseteq Stacks, NEW q, IsProgram(q), q.revision \in Nat,
         \/ q.lowering = 0
         \/ q.lowering = program.lowering /\ q.revision = program.revision + 1,
         NEW new, new = IF program.lowering = 0 THEN q ELSE Lowered(q)
  PROVE  /\ Turned(program, new) /\ new.text = q.text
         /\ program.lowering # 0 /\ q.lowering = 0 => new.lowering # program.lowering
  <1>1. CASE program.lowering = 0
    BY <1>1 DEF Turned
  <1>2. CASE program.lowering # 0
    <2>1. /\ new.text = q.text /\ new.revision = q.revision
          /\ \/ q.lowering # 0 /\ new = q
             \/ q.lowering = 0 /\ new.lowering \in Nat \ {0} /\ new.lowering \notin Lowerings
      BY <1>2, LoweredIs
    <2>2. program.lowering \in Lowerings
      BY DEF Lowerings
    <2> QED BY <1>2, <2>1, <2>2 DEF Turned
  <1> QED BY <1>1, <1>2

(* e is the edit of y that the step makes.                                 *)
EditStep(e, y) ==
  /\ e.old = program /\ e.new = program' /\ Turned(program, program')
  /\ program.lowering # 0 => EditsOne(e, y)

LEMMA PatchIs ==
  ASSUME Live \subseteq Stacks, IsProgram(program), program.revision \in Nat,
         NEW s, NEW d \in Edited, NEW live, NEW retargeted, Patch(s, d, live, retargeted)
  PROVE  \E e : /\ EditStep(e, d)
                /\ stack' = [t \in Live |-> IF t = s THEN Follow(stack[t], e) ELSE Told(stack[t])]
  <1> DEFINE q   == [program EXCEPT !.text[d] = Other(@), !.revision = @ + 1,
                                    !.lowering = IF retargeted THEN @ ELSE 0]
             new == IF program.lowering = 0 THEN q ELSE Lowered(q)
             e   == [old |-> program, new |-> new, changed |-> {d}, cleared |-> FALSE, live |-> live]
  <1>1. /\ d \in Literals /\ program' = new
        /\ stack' = [t \in Live |-> IF t = s THEN Follow(stack[t], e) ELSE Told(stack[t])]
    BY Zenon DEF Patch
  <1>2. d \in Decls
    BY ProgramAssumption
  <1>3. /\ IsProgram(q) /\ q.text \in [Decls -> {0, 1}]
        /\ q.revision = program.revision + 1 /\ q.lowering \in {program.lowering, 0}
        /\ \A x \in Decls : x # d => q.text[x] = program.text[x]
    <2>1. IsProgram(q)
      BY <1>2, EditedIs
    <2>2. /\ q.text = [program.text EXCEPT ![d] = Other(@)]
          /\ q.revision = program.revision + 1 /\ q.lowering \in {program.lowering, 0}
      BY DEF IsProgram, ProgramFields
    <2> QED BY <1>2, <2>1, <2>2 DEF IsProgram
  <1> HIDE DEF q
  <1>4. Turned(program, new) /\ new.text = q.text
    BY <1>3, RelowerIs
  <1> HIDE DEF new
  <1>5. e.old = program /\ e.new = new /\ e.changed = {d}
    OBVIOUS
  <1> HIDE DEF e
  <1>6. EditsOne(e, d)
    BY <1>1, <1>2, <1>3, <1>4, <1>5 DEF EditsOne
  <1>7. EditStep(e, d)
    BY <1>1, <1>4, <1>5, <1>6 DEF EditStep
  <1> QED BY <1>1, <1>7

LEMMA RecompileIs ==
  ASSUME Live \subseteq Stacks, IsProgram(program),
         NEW s, NEW d \in Edited, NEW cleared, Recompile(s, d, cleared)
  PROVE  \E e : /\ EditStep(e, d)
                /\ stack' = [t \in Live |-> IF t = s THEN Follow(stack[t], e) ELSE Left(stack[t])]
  <1> DEFINE q   == [program EXCEPT !.text[d] = Other(@), !.revision = 0, !.lowering = 0]
             new == IF program.lowering = 0 THEN q ELSE Lowered(q)
             e   == [old |-> program, new |-> new, changed |-> {d}, cleared |-> cleared, live |-> FALSE]
  <1>1. /\ program' = new
        /\ stack' = [t \in Live |-> IF t = s THEN Follow(stack[t], e) ELSE Left(stack[t])]
    BY Zenon DEF Recompile
  <1>2. d \in Decls
    BY ProgramAssumption
  <1>3. /\ IsProgram(q) /\ q.text \in [Decls -> {0, 1}] /\ q.revision = 0 /\ q.lowering = 0
        /\ \A x \in Decls : x # d => q.text[x] = program.text[x]
    <2>1. IsProgram(q)
      BY <1>2, EditedIs
    <2>2. /\ q.text = [program.text EXCEPT ![d] = Other(@)]
          /\ q.revision = 0 /\ q.lowering = 0
      BY DEF IsProgram, ProgramFields
    <2> QED BY <1>2, <2>1, <2>2 DEF IsProgram
  <1> HIDE DEF q
  <1>4. /\ Turned(program, new) /\ new.text = q.text
        /\ program.lowering # 0 => new.lowering # program.lowering
    BY <1>3, RelowerIs
  <1> HIDE DEF new
  <1>5. e.old = program /\ e.new = new /\ e.changed = {d}
    OBVIOUS
  <1> HIDE DEF e
  <1>6. program.lowering # 0 => EditsOne(e, d)
    BY <1>2, <1>3, <1>4, <1>5 DEF EditsOne, Same
  <1>7. EditStep(e, d)
    BY <1>1, <1>4, <1>5, <1>6 DEF EditStep
  <1> QED BY <1>1, <1>7

-----------------------------------------------------------------------------
(* A step.                                                                 *)

AllFresh == program.revision \in Nat /\ \A s \in Live : Fresh(stack[s], program)

LEMMA DropDerivedFresh ==
  ASSUME NEW k, Shape(k), NEW p
  PROVE  Fresh(DropDerived(k), p)
  BY DropDerivedIs, DropFresh DEF Shape

LEMMA LeftFresh ==
  ASSUME Snapshots = TRUE, NEW k, Shape(k), NEW p
  PROVE  Fresh(Left(k), p)
  <1> DEFINE c  == DropDerived(k)
             k2 == [c EXCEPT !.parked = TRUE]
  <1>1. Left(k) = k2
    BY DEF Left
  <1>2. IsStack(c) /\ Bare(c) /\ c.stamp = NoStamp /\ c.memo = {} /\ c.gate = "run"
    BY DropDerivedIs DEF Shape
  <1> HIDE DEF c
  <1>3. Bare(k2) /\ k2.stamp = NoStamp /\ k2.memo = {} /\ k2.gate = "run"
    BY <1>2 DEF IsStack, StackFields, Bare
  <1> QED BY <1>1, <1>3, DropFresh

LEMMA RestoreFresh ==
  ASSUME NEW k, Shape(k), NEW at, NEW p
  PROVE  Fresh([DropDerived(k) EXCEPT !.at = at, !.parked = FALSE], p)
  <1> DEFINE c  == DropDerived(k)
             k2 == [c EXCEPT !.at = at, !.parked = FALSE]
  <1>1. IsStack(c) /\ Bare(c) /\ c.stamp = NoStamp /\ c.memo = {} /\ c.gate = "run"
    BY DropDerivedIs DEF Shape
  <1> HIDE DEF c
  <1>2. Bare(k2) /\ k2.stamp = NoStamp /\ k2.memo = {} /\ k2.gate = "run"
    BY <1>1 DEF IsStack, StackFields, Bare
  <1>3. Fresh(k2, p)
    BY <1>2, DropFresh
  <1> QED BY <1>3 DEF c

LEMMA NewFresh ==
  ASSUME NEW p
  PROVE  Fresh(NewStack(Main), p)
  <1> DEFINE k == NewStack(Main)
  <1>1. k.slot = <<>> /\ k.prior = <<>> /\ k.deferred = {} /\ k.redo = {}
        /\ k.stamp = NoStamp /\ k.memo = {} /\ k.gate = "run"
    BY DEF NewStack
  <1> HIDE DEF k
  <1>2. Bare(k)
    BY <1>1 DEF Bare
  <1> QED BY <1>1, <1>2, DropFresh DEF k

LEMMA NextFresh ==
  ASSUME Snapshots = TRUE, IInv, AllFresh, [Next]_vars
  PROVE  AllFresh'
  <1>0. /\ Main \in Live /\ Live \subseteq Stacks /\ \A s \in Live : Shape(stack[s])
        /\ IsProgram(program) /\ program.revision \in Nat
        /\ \A s \in Live : Fresh(stack[s], program)
    BY DEF IInv, Shapes, AllFresh
  <1> DEFINE Goal == program'.revision \in Nat /\ \A t \in Live' : Fresh(stack'[t], program')
  <1>a. ASSUME program' = program, \A t \in Live' : Fresh(stack'[t], program) PROVE Goal
    BY <1>0, <1>a
  <1>b. ASSUME NEW p, p = program', p.revision \in Nat, Live' = Live, \A t \in Live : Fresh(stack'[t], p)
        PROVE  Goal
    BY <1>b
  <1> SUFFICES Goal
    BY DEF AllFresh
  <1> HIDE DEF Goal
  <1>1. ASSUME NEW s \in Live, Run(s) PROVE Goal
    <2> DEFINE q == Lowered(program)
               k == IF Due(stack[s]) /\ ~Bounded THEN Rebuilds(stack[s], program) ELSE stack[s]
    <2>1. program' = q /\ stack' = [stack EXCEPT ![s] = Execute(Sync(k, q), q)]
      BY <1>1, Zenon DEF Run
    <2>2. q.lowering # 0 /\ q.revision \in Nat
      BY <1>0, LoweredIs
    <2>3. \A t \in Live : Fresh(stack[t], q)
      BY <1>0, LoweredFresh
    <2> HIDE DEF q
    <2>4. k = stack[s] \/ k = Rebuilds(stack[s], program)
      BY Zenon
    <2> HIDE DEF k
    <2>5. Shape(k) /\ Kept(k, q)
      BY <1>0, <2>3, <2>4, RebuildsShape, RebuildsKept DEF Fresh
    <2>6. Shape(Sync(k, q)) /\ Kept(Sync(k, q), q) /\ Sync(k, q).stamp = Stamp(q)
      BY <2>2, <2>5, SyncShape, SyncKept
    <2>7. Fresh(Execute(Sync(k, q), q), q)
      BY <2>2, <2>6, ExecuteFresh
    <2>8. Live' = Live /\ stack'[s] = Execute(Sync(k, q), q)
          /\ \A t \in Live : t # s => stack'[t] = stack[t]
      BY <2>1 DEF Live
    <2>9. \A t \in Live : Fresh(stack'[t], q)
      BY <2>3, <2>7, <2>8
    <2> QED BY <2>1, <2>2, <2>8, <2>9, <1>b
  <1>2. ASSUME NEW s \in Live, NEW d \in Edited, NEW live, NEW retargeted, Patch(s, d, live, retargeted)
        PROVE  Goal
    <2>1. PICK e : /\ EditStep(e, d)
                   /\ stack' = [t \in Live |-> IF t = s THEN Follow(stack[t], e) ELSE Told(stack[t])]
      BY <1>0, <1>2, PatchIs
    <2> DEFINE new == program'
    <2>2. /\ e.old = program /\ e.new = new /\ Turned(program, new) /\ new.revision \in Nat
          /\ e.old.lowering # 0 => EditsOne(e, d)
      BY <2>1 DEF EditStep, Turned
    <2>3. Live' = Live
      BY <2>1 DEF Live
    <2> HIDE DEF new
    <2>4. ASSUME NEW t \in Live PROVE Fresh(stack'[t], new)
      <3>1. Fresh(Told(stack[t]), new)
        BY <1>0, <2>2, ToldFresh
      <3>2. Fresh(Follow(stack[t], e), new)
        BY <1>0, <2>2, FollowFresh
      <3> QED BY <2>1, <3>1, <3>2
    <2> QED BY <2>2, <2>3, <2>4, <1>b DEF new
  <1>3. ASSUME NEW s \in Live, NEW d \in Edited, NEW cleared, Recompile(s, d, cleared)
        PROVE  Goal
    <2>1. PICK e : /\ EditStep(e, d)
                   /\ stack' = [t \in Live |-> IF t = s THEN Follow(stack[t], e) ELSE Left(stack[t])]
      BY <1>0, <1>3, RecompileIs
    <2> DEFINE new == program'
    <2>2. /\ e.old = program /\ e.new = new /\ Turned(program, new) /\ new.revision \in Nat
          /\ e.old.lowering # 0 => EditsOne(e, d)
      BY <2>1 DEF EditStep, Turned
    <2>3. Live' = Live
      BY <2>1 DEF Live
    <2> HIDE DEF new
    <2>4. ASSUME NEW t \in Live PROVE Fresh(stack'[t], new)
      <3>1. Fresh(Left(stack[t]), new)
        BY <1>0, LeftFresh
      <3>2. Fresh(Follow(stack[t], e), new)
        BY <1>0, <2>2, FollowFresh
      <3> QED BY <2>1, <3>1, <3>2
    <2> QED BY <2>2, <2>3, <2>4, <1>b DEF new
  <1>4. ASSUME Quiet PROVE Goal
    <2>1. program' = program /\ Live' = Live /\ \A t \in Live : stack'[t] = [stack[t] EXCEPT !.recent = FALSE]
      BY <1>4 DEF Quiet, Live
    <2>2. ASSUME NEW t \in Live PROVE Fresh([stack[t] EXCEPT !.recent = FALSE], program)
      <3> DEFINE k == stack[t]
                 k2 == [k EXCEPT !.recent = FALSE]
      <3>1. IsStack(k) /\ Fresh(k, program)
        BY <1>0 DEF Shape
      <3> HIDE DEF k
      <3>2. \A f \in {"stamp", "slot", "prior", "deferred", "redo", "memo", "gate", "shown", "parked"} :
               k2[f] = k[f]
        BY <3>1 DEF IsStack, StackFields
      <3> HIDE DEF k2
      <3>3. Fresh(k2, program)
        BY <3>1, <3>2, SameFresh
      <3> QED BY <3>3 DEF k2, k
    <2> QED BY <2>1, <2>2, <1>a
  <1>5. ASSUME NEW s \in Live, FlushStaticRebuilds(s) PROVE Goal
    <2>1. program' = program /\ Live' = Live /\ stack'[s] = Rebuilds(stack[s], program)
          /\ \A t \in Live : t # s => stack'[t] = stack[t]
      BY <1>5 DEF FlushStaticRebuilds, Live
    <2>2. Fresh(Rebuilds(stack[s], program), program)
      BY <1>0, RebuildsKept DEF Fresh, Current
    <2> QED BY <2>1, <2>2, <1>0, <1>a
  <1>6. ASSUME NEW s \in Stacks, CreateStack(s) PROVE Goal
    <2>1. program' = program /\ Live' = Live \cup {s} /\ stack'[s] = NewStack(Main)
          /\ \A t \in Live : stack'[t] = stack[t]
      BY <1>6 DEF CreateStack, Live, Over, Only
    <2> QED BY <2>1, <1>0, NewFresh, <1>a
  <1>7. ASSUME NEW src \in Live, NEW s \in Stacks, ForkExecution(src, s) PROVE Goal
    <2> DEFINE k == stack[src]
               k2 == [k EXCEPT !.at = s]
    <2>1. program' = program /\ Live' = Live \cup {s} /\ stack'[s] = k2
          /\ \A t \in Live : stack'[t] = stack[t]
      BY <1>7 DEF ForkExecution, Live, Over, Only
    <2>2. IsStack(k) /\ Fresh(k, program)
      BY <1>0 DEF Shape
    <2> HIDE DEF k
    <2>3. \A f \in {"stamp", "slot", "prior", "deferred", "redo", "memo", "gate", "shown", "parked"} :
             k2[f] = k[f]
      BY <2>2 DEF IsStack, StackFields
    <2> HIDE DEF k2
    <2>4. Fresh(k2, program)
      BY <2>2, <2>3, SameFresh
    <2> QED BY <2>1, <2>4, <1>0, <1>a
  <1>8. ASSUME NEW s \in Live, DropStack(s) PROVE Goal
    <2>1. program' = program /\ Live' = Live \ {s} /\ \A t \in Live' : stack'[t] = stack[t]
      BY <1>8 DEF DropStack, Live, Restrict
    <2> QED BY <2>1, <1>0, <1>a
  <1>9. ASSUME NEW dst \in Live, NEW src \in Live, RestoreExecution(dst, src) PROVE Goal
    <2>1. program' = program /\ Live' = Live
      BY <1>9 DEF RestoreExecution, Live
    <2>2. ASSUME NEW t \in Live PROVE Fresh(stack'[t], program)
      <3>1. \/ stack'[t] = [DropDerived(stack[src]) EXCEPT !.at = stack[dst].at, !.parked = FALSE]
            \/ stack'[t] = DropDerived(stack[t])
            \/ stack'[t] = stack[t]
        BY <1>9 DEF RestoreExecution
      <3>2. Fresh([DropDerived(stack[src]) EXCEPT !.at = stack[dst].at, !.parked = FALSE], program)
        BY <1>0, RestoreFresh
      <3>3. Fresh(DropDerived(stack[t]), program)
        BY <1>0, DropDerivedFresh
      <3> QED BY <3>1, <3>2, <3>3, <1>0
    <2> QED BY <2>1, <2>2, <1>a
  <1>10. ASSUME UNCHANGED vars PROVE Goal
    BY <1>10, <1>0, <1>a DEF vars, Live
  <1> QED BY <1>1, <1>2, <1>3, <1>4, <1>5, <1>6, <1>7, <1>8, <1>9, <1>10 DEF Next

(* A run of what waits, and nothing else, shows the same.                  *)
LEMMA FreshShows ==
  IInv /\ AllFresh => SkipShowsPresent
  <1> SUFFICES ASSUME IInv, AllFresh, NEW s \in Live, ~stack[s].parked, ~RunNeeded(stack[s])
               PROVE  stack[s].shown = Present(s)
    BY Zenon DEF SkipShowsPresent
  <1> DEFINE k    == stack[s]
             wait == IF k.stamp = Stamp(program) THEN Restrict(k.slot, k.deferred) ELSE <<>>
             new  == NewStack(Main)
             k2   == [new EXCEPT !.slot = wait]
  <1>1. Shape(k) /\ Fresh(k, program) /\ ~k.parked /\ k.gate # "run"
    BY DEF IInv, Shapes, AllFresh, RunNeeded
  <1>2. Present(s) = Execute(k2, program).shown
    BY Zenon DEF Present
  <1>3. IsStack(new) /\ new.memo = {}
    BY DEF NewStack, IsStack, StackFields
  <1> HIDE DEF k, new
  <1>4. k.stamp = Stamp(program) /\ \E c : Fits(c, program.text, k) /\ k.shown = Shown(program.text, c)
    BY <1>1 DEF Shape, Fresh, Current
  <1>5. PICK c : Fits(c, program.text, k) /\ k.shown = Shown(program.text, c)
    BY <1>4
  <1>6. wait = Restrict(k.slot, k.deferred)
    BY <1>4
  <1> HIDE DEF wait
  <1>7. IsStack(k2) /\ k2.slot = wait /\ k2.memo = {}
    BY <1>3 DEF IsStack, StackFields
  <1> HIDE DEF k2
  <1>8. Execute(k2, program).shown = Shown(program.text, c)
    BY <1>1, <1>5, <1>6, <1>7, WaitingShows DEF Shape
  <1> QED BY <1>2, <1>5, <1>8 DEF k

LEMMA InitFresh ==
  Init => AllFresh
  <1> SUFFICES ASSUME Init PROVE AllFresh
    OBVIOUS
  <1>1. Live = {Main} /\ stack[Main] = NewStack(Main) /\ program.revision = 0
    BY DEF Init, Live, Only
  <1> QED BY <1>1, NewFresh DEF AllFresh

(* A frame that the gate skips shows what a run would show, through edits  *)
(* of whatever stack, drags, pauses, forks and restores, for any program   *)
(* and any number of stacks: where a stack is only a snapshot once another *)
(* has had the program compiled again.                                     *)
THEOREM SkippedFrames ==
  ASSUME Snapshots = TRUE
  PROVE  Spec => []SkipShowsPresent
  <1>1. IInv /\ AllFresh /\ [Next]_vars => AllFresh'
    BY NextFresh
  <1> QED BY <1>1, InitFresh, FreshShows, InductiveIInv, PTL DEF Spec
=============================================================================
