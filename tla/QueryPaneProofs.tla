--------------------------- MODULE QueryPaneProofs ---------------------------
(***************************************************************************)
(* Proofs about QueryPane, for any set of keys, any number of request ids, *)
(* any policies and any clock.                                             *)
(***************************************************************************)
EXTENDS QueryPane, SequenceTheorems, FiniteSetTheorems, WellFoundedInduction, TLAPS

-----------------------------------------------------------------------------
(* Sequences, element by element.                                          *)

(* What Append does to the elements.                                       *)
LEMMA Appended ==
  ASSUME NEW S, NEW s \in Seq(S), NEW e \in S
  PROVE  /\ Append(s, e) \in Seq(S) /\ Len(Append(s, e)) = Len(s) + 1
         /\ Len(s) \in Nat /\ DOMAIN s = 1 .. Len(s)
         /\ DOMAIN Append(s, e) = 1 .. Len(s) + 1
         /\ \A i \in DOMAIN s : Append(s, e)[i] = s[i]
         /\ Append(s, e)[Len(s) + 1] = e
         /\ ToSet(Append(s, e)) = ToSet(s) \union {e}
  <1>1. /\ Append(s, e) \in Seq(S) /\ Len(Append(s, e)) = Len(s) + 1
        /\ Len(s) \in Nat /\ DOMAIN s = 1 .. Len(s)
        /\ \A i \in 1 .. Len(s) : Append(s, e)[i] = s[i]
        /\ Append(s, e)[Len(s) + 1] = e
    BY AppendProperties, LenProperties
  <1>2. DOMAIN Append(s, e) = 1 .. Len(s) + 1
    BY <1>1, LenProperties
  <1>3. ToSet(Append(s, e)) = ToSet(s) \union {e}
    BY <1>1, <1>2 DEF ToSet
  <1> QED
    BY <1>1, <1>2, <1>3

(* What Head and Tail make of a sequence that is not empty.                *)
LEMMA Beheaded ==
  ASSUME NEW S, NEW s \in Seq(S), s # <<>>
  PROVE  /\ Head(s) \in S /\ Tail(s) \in Seq(S)
         /\ Len(s) \in Nat /\ DOMAIN s = 1 .. Len(s) /\ Len(s) > 0
         /\ Len(Tail(s)) = Len(s) - 1 /\ DOMAIN Tail(s) = 1 .. Len(s) - 1
         /\ Head(s) = s[1]
         /\ \A i \in DOMAIN Tail(s) : Tail(s)[i] = s[i + 1]
         /\ ToSet(s) = {Head(s)} \union ToSet(Tail(s))
  <1>1. /\ Head(s) \in S /\ Tail(s) \in Seq(S) /\ Len(Tail(s)) = Len(s) - 1
        /\ \A i \in 1 .. Len(Tail(s)) : Tail(s)[i] = s[i + 1]
    BY HeadTailProperties
  <1>2. /\ Len(s) \in Nat /\ DOMAIN s = 1 .. Len(s) /\ Len(s) > 0
        /\ DOMAIN Tail(s) = 1 .. Len(s) - 1
    BY <1>1, LenProperties, EmptySeq
  <1>3. Head(s) = s[1]
    BY <1>2
  <1>4. ASSUME NEW i \in DOMAIN s, i # 1
        PROVE  i - 1 \in DOMAIN Tail(s) /\ Tail(s)[i - 1] = s[i]
    BY <1>1, <1>2, <1>4
  <1>5. ToSet(s) \subseteq {Head(s)} \union ToSet(Tail(s))
    BY <1>3, <1>4 DEF ToSet
  <1>6. \A i \in DOMAIN Tail(s) : i + 1 \in DOMAIN s /\ Tail(s)[i] = s[i + 1]
    BY <1>1, <1>2
  <1>7. 1 \in DOMAIN s
    BY <1>2
  <1>8. {Head(s)} \union ToSet(Tail(s)) \subseteq ToSet(s)
    BY <1>3, <1>6, <1>7 DEF ToSet
  <1> QED
    BY <1>1, <1>2, <1>3, <1>5, <1>8

(* The elements of a concatenation.                                        *)
LEMMA Concatenated ==
  ASSUME NEW S, NEW s \in Seq(S), NEW t \in Seq(S)
  PROVE  s \o t \in Seq(S) /\ ToSet(s \o t) = ToSet(s) \union ToSet(t)
  <1>1. /\ s \o t \in Seq(S) /\ Len(s \o t) = Len(s) + Len(t)
        /\ \A i \in 1 .. Len(s) + Len(t) :
             (s \o t)[i] = IF i <= Len(s) THEN s[i] ELSE t[i - Len(s)]
    BY ConcatProperties
  <1>2. /\ Len(s) \in Nat /\ DOMAIN s = 1 .. Len(s)
        /\ Len(t) \in Nat /\ DOMAIN t = 1 .. Len(t)
        /\ DOMAIN (s \o t) = 1 .. Len(s) + Len(t)
    BY <1>1, LenProperties
  <1>3. ToSet(s \o t) \subseteq ToSet(s) \union ToSet(t)
    BY <1>1, <1>2 DEF ToSet
  <1>4. \A i \in DOMAIN s : i \in DOMAIN (s \o t) /\ (s \o t)[i] = s[i]
    BY <1>1, <1>2
  <1>5. \A i \in DOMAIN t : i + Len(s) \in DOMAIN (s \o t) /\ (s \o t)[i + Len(s)] = t[i]
    BY <1>1, <1>2
  <1>6. ToSet(s) \union ToSet(t) \subseteq ToSet(s \o t)
    BY <1>4, <1>5 DEF ToSet
  <1> QED
    BY <1>1, <1>3, <1>6

(* The empty sequence has no element.                                      *)
LEMMA NoElements ==
  /\ \A S : <<>> \in Seq(S)
  /\ ToSet(<<>>) = {} /\ DOMAIN <<>> = {} /\ Len(<<>>) = 0
  BY DEF ToSet

(* An arrangement of a finite set is a sequence of its members, all of them. *)
LEMMA Arranged ==
  ASSUME NEW S, IsFiniteSet(S), NEW f \in SetToSeqs(S)
  PROVE  f \in Seq(S) /\ ToSet(f) = S
  <1> DEFINE n == Cardinality(S)
             D == 1 .. n
  <1>1. n \in Nat
    BY FS_CardinalityType
  <1>2. f \in [D -> S] /\ \A i, j \in D : i # j => f[i] # f[j]
    BY DEF SetToSeqs
  <1>3. f \in Seq(S)
    BY <1>1, <1>2, SeqDef, Zenon
  <1>4. f \in Injection(D, S)
    BY <1>2 DEF Injection, IsInjective
  <1>5. IsFiniteSet(D) /\ Cardinality(D) = n
    BY <1>1, FS_Interval
  <1>6. f \in Surjection(D, S)
    BY <1>4, <1>5, FS_Injection
  <1>7. \A x \in S : \E i \in D : f[i] = x
    BY <1>6 DEF Surjection
  <1>8. ToSet(f) = S
    BY <1>2, <1>7 DEF ToSet
  <1> QED
    BY <1>3, <1>8

(* A set of numbers that is not empty has a least one.                     *)
LEMMA LeastNumber ==
  ASSUME NEW S, S \subseteq Nat, S # {}
  PROVE  \E m \in S : \A n \in S : m <= n
  <1>1. IsWellFoundedOn(OpToRel(<, Nat), Nat)
    BY NatLessThanWellFounded
  <1>2. PICK m \in S : \A n \in S : ~ (<<n, m>> \in OpToRel(<, Nat))
    BY <1>1, WFMin, Zenon
  <1>3. \A n \in S : ~ (n < m)
    BY <1>2 DEF OpToRel
  <1> QED
    BY <1>3

(* An id is there for a request as long as one is free.                    *)
LEMMA FreshIdFree ==
  ASSUME FreshIds # {}
  PROVE  FreshId \in FreshIds /\ FreshId \in Ids /\ FreshId \notin DOMAIN pending
  <1>1. FreshIds \subseteq Nat
    BY PaneAssumption DEF FreshIds
  <1>2. FreshId \in FreshIds
    BY <1>1, LeastNumber, Zenon DEF FreshId
  <1> QED
    BY <1>2 DEF FreshIds, SomeoneHolds

-----------------------------------------------------------------------------
(* The cache: each operation keeps its type.                               *)

(* A lookup answers with an answer, or that it is loading.                 *)
LEMMA LookupType ==
  ASSUME NEW c \in CacheType, NEW k \in Keys, NEW t
  PROVE  LookupResult(c, k, t) \in Answers \union {Loading}
  <1>1. c.entries[k] \in EntryType \union {Missing}
    BY DEF CacheType
  <1>2. CASE c.entries[k] = Missing
    BY <1>2 DEF LookupResult, Held
  <1>3. CASE c.entries[k] \in EntryType
    BY <1>3 DEF LookupResult, EntryType
  <1> QED
    BY <1>1, <1>2, <1>3

(* What the lookups of a run do to the cache.                              *)
LEMMA LookedUpFacts ==
  ASSUME NEW c \in CacheType, NEW ks, ks \subseteq Keys, IsFiniteSet(ks), NEW t,
         NEW order \in SetToSeqs(Needed(c, ks, t))
  PROVE  /\ LookedUp(c, ks, order, t) \in CacheType
         /\ ToSet(LookedUp(c, ks, order, t).outbox)
              = ToSet(c.outbox) \union Needed(c, ks, t)
  <1> DEFINE need == Needed(c, ks, t)
  <1>1. need \subseteq ks /\ need \subseteq Keys
    BY DEF Needed
  <1>2. IsFiniteSet(need)
    BY <1>1, FS_Subset
  <1> HIDE DEF need
  <1>3. order \in Seq(need) /\ ToSet(order) = need
    BY <1>2, Arranged DEF need
  <1>4. order \in Seq(Keys)
    BY <1>1, <1>3, SeqMonotonic
  <1>5. c.outbox \in Seq(Keys) /\ c.requested \subseteq Keys
        /\ c.entries \in [Keys -> EntryType \union {Missing}]
    BY DEF CacheType
  <1>6. /\ c.outbox \o order \in Seq(Keys)
        /\ ToSet(c.outbox \o order) = ToSet(c.outbox) \union need
    BY <1>3, <1>4, <1>5, Concatenated
  <1> QED
    BY <1>1, <1>5, <1>6 DEF LookedUp, CacheType, need

(* An invalidate drops entries and marks, and nothing else.                *)
LEMMA InvalidatedFacts ==
  ASSUME NEW c \in CacheType, NEW ks
  PROVE  /\ Invalidated(c, ks) \in CacheType
         /\ Invalidated(c, ks).outbox = c.outbox
         /\ Invalidated(c, ks).requested = c.requested \ ks
         /\ Invalidated(c, ks).entries = [k \in Keys |-> IF k \in ks THEN Missing
                                                         ELSE c.entries[k]]
  BY DEF Invalidated, CacheType

(* An answer takes the place of its key's entry and mark.                  *)
LEMMA ResolvedFacts ==
  ASSUME NEW c \in CacheType, NEW k \in Keys, NEW answer \in Answers,
         NEW policy \in PolicyType, NEW t \in Nat
  PROVE  /\ Resolved(c, k, answer, policy, t) \in CacheType
         /\ Resolved(c, k, answer, policy, t).outbox = c.outbox
         /\ Resolved(c, k, answer, policy, t).requested = c.requested \ {k}
         /\ Resolved(c, k, answer, policy, t).entries
              = [c.entries EXCEPT ![k] = [answer |-> answer, policy |-> policy, at |-> t]]
  BY DEF Resolved, CacheType, EntryType

-----------------------------------------------------------------------------
(* The pipe. No two messages on their way carry one id, and each request   *)
(* is the one the pane wrote down for its id.                              *)

Numbered(m) == m.what \in Correlated
IdsOf(s) == {m.id : m \in {x \in ToSet(s) : Numbered(x)}}
Once(s) == \A i, j \in DOMAIN s :
  Numbered(s[i]) /\ Numbered(s[j]) /\ s[i].id = s[j].id => i = j
ServingIds == IF serving = Idle THEN {} ELSE {serving.id}

IdsDistinct ==
  /\ Once(toClient) /\ Once(toHost)
  /\ IdsOf(toClient) \intersect IdsOf(toHost) = {}
  /\ ServingIds \intersect (IdsOf(toClient) \union IdsOf(toHost)) = {}

Asking == \A m \in ToSet(toClient) :
  /\ m.id \in DOMAIN pending
  /\ pending[m.id] = IF m.what = "query" THEN m.key ELSE Mutation

PipeInv == IdsDistinct /\ Asking

(* A message with a new id, written to a pipe of messages with distinct    *)
(* ids.                                                                    *)
LEMMA IdsAppended ==
  ASSUME NEW S, NEW s \in Seq(S), NEW e \in S
  PROVE  /\ IdsOf(Append(s, e)) = IdsOf(s) \union (IF Numbered(e) THEN {e.id} ELSE {})
         /\ Once(s) /\ (Numbered(e) => e.id \notin IdsOf(s)) => Once(Append(s, e))
  <1> DEFINE a == Append(s, e)
  <1>1. /\ Len(s) \in Nat /\ DOMAIN s = 1 .. Len(s) /\ DOMAIN a = 1 .. Len(s) + 1
        /\ \A i \in DOMAIN s : a[i] = s[i]
        /\ a[Len(s) + 1] = e
        /\ ToSet(a) = ToSet(s) \union {e}
    BY Appended
  <1> HIDE DEF a
  <1>2. IdsOf(a) = IdsOf(s) \union (IF Numbered(e) THEN {e.id} ELSE {})
    BY <1>1 DEF IdsOf
  <1>3. ASSUME Once(s), Numbered(e) => e.id \notin IdsOf(s),
               NEW i \in DOMAIN a, NEW j \in DOMAIN a,
               Numbered(a[i]), Numbered(a[j]), a[i].id = a[j].id
        PROVE  i = j
    <2>1. \A x \in DOMAIN s : Numbered(s[x]) => s[x].id \in IdsOf(s)
      BY DEF IdsOf, ToSet
    <2>2. CASE i \in DOMAIN s /\ j \in DOMAIN s
      BY <2>2, <1>1, <1>3 DEF Once
    <2>3. CASE i \in DOMAIN s /\ j = Len(s) + 1
      BY <2>1, <2>3, <1>1, <1>3
    <2>4. CASE j \in DOMAIN s /\ i = Len(s) + 1
      BY <2>1, <2>4, <1>1, <1>3
    <2>5. i \in DOMAIN s \/ i = Len(s) + 1
      BY <1>1
    <2>6. j \in DOMAIN s \/ j = Len(s) + 1
      BY <1>1
    <2> QED
      BY <2>2, <2>3, <2>4, <2>5, <2>6
  <1> QED
    BY <1>2, <1>3 DEF Once, a

(* The first message of such a pipe is read.                               *)
LEMMA IdsBeheaded ==
  ASSUME NEW S, NEW s \in Seq(S), s # <<>>
  PROVE  /\ IdsOf(Tail(s)) \subseteq IdsOf(s)
         /\ Numbered(Head(s)) => Head(s).id \in IdsOf(s)
         /\ Once(s) => Once(Tail(s))
         /\ Once(s) /\ Numbered(Head(s)) => Head(s).id \notin IdsOf(Tail(s))
  <1> DEFINE t == Tail(s)
             h == Head(s)
  <1>1. /\ Len(s) \in Nat /\ DOMAIN s = 1 .. Len(s) /\ Len(s) > 0
        /\ DOMAIN t = 1 .. Len(s) - 1 /\ h = s[1]
        /\ \A i \in DOMAIN t : t[i] = s[i + 1]
        /\ ToSet(s) = {h} \union ToSet(t)
    BY Beheaded
  <1> HIDE DEF t, h
  <1>2. IdsOf(t) \subseteq IdsOf(s) /\ (Numbered(h) => h.id \in IdsOf(s))
    BY <1>1 DEF IdsOf
  <1>3. \A i \in DOMAIN t : i + 1 \in DOMAIN s /\ i \in Int /\ i + 1 # 1
    BY <1>1
  <1>4. Once(s) => Once(t)
    <2> SUFFICES ASSUME Once(s), NEW i \in DOMAIN t, NEW j \in DOMAIN t,
                        Numbered(t[i]), Numbered(t[j]), t[i].id = t[j].id
                 PROVE  i = j
      BY DEF Once
    <2>1. i + 1 = j + 1
      BY <1>1, <1>3 DEF Once
    <2> QED
      BY <2>1, <1>3
  <1>5. ASSUME Once(s), Numbered(h), h.id \in IdsOf(t)
        PROVE  FALSE
    <2>1. PICK i \in DOMAIN t : Numbered(t[i]) /\ t[i].id = h.id
      BY <1>5 DEF IdsOf, ToSet
    <2>2. 1 \in DOMAIN s
      BY <1>1
    <2>3. i + 1 = 1
      BY <2>1, <2>2, <1>1, <1>3, <1>5 DEF Once
    <2> QED
      BY <2>3, <1>3
  <1> QED
    BY <1>2, <1>4, <1>5 DEF t, h

(* What the messages of each direction are.                                *)
LEMMA Kinds ==
  /\ \A m \in Requests : /\ Numbered(m) /\ m.id \in Ids
                         /\ m.what \in {"query", "mutate"}
                         /\ m.what = "query" => m.key \in Keys
  /\ \A e \in Responses : /\ Numbered(e) /\ e.id \in Ids
                          /\ e.what \in {"answer", "mutated"}
                          /\ e.what = "answer" =>
                               /\ e.answer \in Answers \union {Working}
                               /\ e.policy \in PolicyType
  /\ \A e \in Envelopes : Numbered(e) => e \in Responses
  /\ \A e \in Envelopes : e.what = "answer" =>
       e.answer \in Answers \union {Working} /\ e.policy \in PolicyType
  /\ \A e \in Envelopes : e.what = "invalidate" => e.key \in Keys
  /\ Responses \subseteq Envelopes
  BY DEF Numbered, Correlated, Requests, Responses, Envelopes

PaneInv == TypeOK /\ PipeInv

(* A new pane has all of this.                                             *)
LEMMA InitPane == Init => PaneInv
  <1> SUFFICES ASSUME Init PROVE PaneInv
    OBVIOUS
  <1> USE DEF Init
  <1>1. cache \in CacheType
    BY NoElements DEF CacheType, EmptyCache
  <1>2. MainTyped
    <2>1. left = 0 /\ Len(toHost) = 0
      BY NoElements
    <2>2. left \in 0 .. Len(toHost)
      BY <2>1
    <2> QED
      BY <2>2 DEF MainTyped
  <1>3. PanelTyped
    BY DEF PanelTyped, FreshGate, NoResources
  <1>4. PipeTyped
    BY NoElements DEF PipeTyped, NothingPending
  <1>5. ClientTyped
    BY DEF ClientTyped
  <1>6. Answering
    BY NoElements DEF Answering
  <1>7. PipeInv
    BY NoElements DEF PipeInv, Asking, IdsDistinct, Once, IdsOf, ServingIds
  <1> QED
    BY <1>1, <1>2, <1>3, <1>4, <1>5, <1>6, <1>7 DEF PaneInv, TypeOK

(* A frame keeps the types of the cache and of the panel.                  *)
LEMMA RunFrameTyped ==
  ASSUME cache \in CacheType, PanelTyped, now \in Nat, unseen \in BOOLEAN,
         NEW ks \in SUBSET Keys, NEW dropped \in SUBSET Keys, NEW before \in BOOLEAN,
         NEW order, RunFrame(ks, dropped, before, order)
  PROVE  cache' \in CacheType /\ PanelTyped' /\ unseen' \in BOOLEAN
  <1> DEFINE asked == IF before THEN Invalidated(cache, dropped) ELSE cache
             looked == LookedUp(asked, ks, order, now)
  <1>1. asked \in CacheType
    BY InvalidatedFacts
  <1>2. IsFiniteSet(ks) /\ order \in SetToSeqs(Needed(asked, ks, now))
    BY DEF RunFrame
  <1>3. cache' = IF before THEN looked ELSE Invalidated(looked, dropped)
    BY DEF RunFrame
  <1>4. \A k \in Keys : LookupResult(asked, k, now) \in Answers \union {Loading}
    <2> HIDE DEF asked
    <2> QED
      BY <1>1, LookupType
  <1>5. /\ shown' = [k \in Keys |-> IF k \in ks THEN Presented(asked, k) ELSE NotAsked]
        /\ resources' = [k \in Keys |-> IF k \in ks THEN ResourceAfter(asked, k)
                                        ELSE resources[k]]
        /\ wants' = ks /\ input' = FALSE /\ wake' = "idle"
        /\ gate' = [valid |-> TRUE, reads |-> ks # {}, changed |-> FALSE]
        /\ unseen' = (dropped # {})
    BY DEF RunFrame
  <1> HIDE DEF asked
  <1>6. looked \in CacheType
    BY <1>1, <1>2, LookedUpFacts
  <1> HIDE DEF looked
  <1>7. cache' \in CacheType
    BY <1>3, <1>6, InvalidatedFacts
  <1>8. resources \in [Keys -> Answers \union {Missing, Loading}]
    BY DEF PanelTyped
  <1>9. \A k \in Keys : /\ Presented(asked, k) \in Answers \union {NotAsked, Loading}
                        /\ ResourceAfter(asked, k) \in Answers \union {Missing, Loading}
    BY <1>4, <1>8 DEF Presented, ResourceAfter
  <1>10. gate' \in [valid : BOOLEAN, reads : BOOLEAN, changed : BOOLEAN]
    BY <1>5
  <1>11. shown' \in [Keys -> Answers \union {NotAsked, Loading}]
    BY <1>5, <1>9
  <1>12. resources' \in [Keys -> Answers \union {Missing, Loading}]
    BY <1>5, <1>8, <1>9
  <1> QED
    BY <1>5, <1>7, <1>10, <1>11, <1>12 DEF PanelTyped

LEMMA TickTyped ==
  ASSUME TypeOK, Tick
  PROVE  cache' \in CacheType /\ PanelTyped' /\ MainTyped'
  <1> USE DEF TypeOK
  <1>1. now \in Nat /\ unseen \in BOOLEAN /\ Noted \in BOOLEAN
    BY DEF MainTyped, Noted, RevalidationDue
  <1>2. ASSUME \E ks, dropped \in SUBSET Keys, before \in BOOLEAN :
                 \E order \in SetToAllKPermutations(ks) : RunFrame(ks, dropped, before, order)
        PROVE  cache' \in CacheType /\ PanelTyped' /\ unseen' \in BOOLEAN
    BY <1>1, <1>2, RunFrameTyped
  <1>3. ASSUME SkipFrame PROVE cache' \in CacheType /\ PanelTyped' /\ unseen' \in BOOLEAN
    BY <1>1, <1>3 DEF SkipFrame, PanelTyped
  <1>4. ASSUME TickAsleep PROVE cache' \in CacheType /\ PanelTyped' /\ unseen' \in BOOLEAN
    BY <1>4, <1>1 DEF TickAsleep, PanelTyped, panel
  <1>5. cache' \in CacheType /\ PanelTyped' /\ unseen' \in BOOLEAN
    BY <1>2, <1>3, <1>4 DEF Tick
  <1>6. MainTyped'
    BY <1>5 DEF Tick, MainTyped
  <1> QED
    BY <1>5, <1>6

(* The messages of a typed pipe, one by one.                               *)
LEMMA PipeFacts ==
  ASSUME TypeOK
  PROVE  /\ toClient \in Seq(Requests) /\ toHost \in Seq(Envelopes)
         /\ ToSet(toClient) \subseteq Requests /\ ToSet(toHost) \subseteq Envelopes
         /\ \A m \in ToSet(toClient) : Numbered(m) /\ m.id \in IdsOf(toClient)
         /\ \A e \in ToSet(toHost) : Numbered(e) => e.id \in IdsOf(toHost)
         /\ \A e \in ToSet(toHost) : e.what \in {"answer", "mutated"} => Numbered(e)
         /\ serving # Idle => serving \in Responses /\ Numbered(serving)
                              /\ serving.id \in ServingIds
  <1>1. toClient \in Seq(Requests) /\ toHost \in Seq(Envelopes)
    BY DEF TypeOK, PipeTyped
  <1>2. ToSet(toClient) \subseteq Requests
    BY <1>1, LenProperties, ElementOfSeq DEF ToSet
  <1>3. ToSet(toHost) \subseteq Envelopes
    BY <1>1, LenProperties, ElementOfSeq DEF ToSet
  <1>4. \A m \in ToSet(toClient) : Numbered(m) /\ m.id \in IdsOf(toClient)
    BY <1>2, Kinds DEF IdsOf
  <1>5. \A e \in ToSet(toHost) : Numbered(e) => e.id \in IdsOf(toHost)
    BY DEF IdsOf
  <1>6. \A e \in ToSet(toHost) : e.what \in {"answer", "mutated"} => Numbered(e)
    BY DEF Numbered, Correlated
  <1>7. serving # Idle => serving \in Responses /\ Numbered(serving)
                         /\ serving.id \in ServingIds
    BY Kinds DEF TypeOK, ClientTyped, ServingIds
  <1> QED
    BY <1>1, <1>2, <1>3, <1>4, <1>5, <1>6, <1>7

(* The host reads the next envelope, and completes its request or none.    *)
LEMMA HostReads ==
  ASSUME PaneInv, toHost # <<>>, toHost' = Tail(toHost), UNCHANGED <<toClient, serving>>,
         \/ pending' = pending
         \/ Numbered(Head(toHost)) /\ pending' = Completed(Head(toHost).id)
  PROVE  PipeInv' /\ PipeTyped' /\ Answering'
  <1> DEFINE h == Head(toHost)
             t == Tail(toHost)
  <1>1. TypeOK /\ IdsDistinct /\ Asking /\ Answering /\ PipeTyped
    BY DEF PaneInv, PipeInv, TypeOK
  <1>2. t \in Seq(Envelopes) /\ ToSet(t) \subseteq ToSet(toHost)
    BY <1>1, PipeFacts, Beheaded
  <1>3. /\ IdsOf(t) \subseteq IdsOf(toHost) /\ Once(t)
        /\ Numbered(h) => h.id \in IdsOf(toHost) /\ h.id \notin IdsOf(t)
    BY <1>1, PipeFacts, IdsBeheaded DEF IdsDistinct
  <1>4. /\ \A e \in ToSet(t) : Numbered(e) => e.id \in IdsOf(t)
        /\ \A e \in ToSet(t) : e.what \in {"answer", "mutated"} => Numbered(e)
    BY <1>1, <1>2, PipeFacts DEF IdsOf
  <1> HIDE DEF h, t
  <1>5. toHost' = t /\ (pending' = pending \/ (Numbered(h) /\ pending' = Completed(h.id)))
    BY DEF h, t
  <1>6. IdsDistinct'
    BY <1>1, <1>3, <1>5 DEF IdsDistinct, Once, IdsOf, ServingIds
  <1>7. ASSUME NEW id \in DOMAIN pending, Numbered(h) => id # h.id
        PROVE  id \in DOMAIN pending' /\ pending'[id] = pending[id]
    BY <1>5, <1>7 DEF Completed
  <1>8. DOMAIN pending' \subseteq DOMAIN pending
        /\ \A id \in DOMAIN pending' : pending'[id] = pending[id]
    BY <1>5 DEF Completed
  <1>9. PipeTyped'
    BY <1>1, <1>2, <1>5, <1>8 DEF PipeTyped
  <1>10. Asking'
    <2> SUFFICES ASSUME NEW m \in ToSet(toClient)
                 PROVE  /\ m.id \in DOMAIN pending'
                        /\ pending'[m.id] = IF m.what = "query" THEN m.key ELSE Mutation
      BY DEF Asking
    <2>1. m.id \in IdsOf(toClient)
      BY <1>1, PipeFacts
    <2>2. Numbered(h) => m.id # h.id
      BY <2>1, <1>1, <1>3 DEF IdsDistinct
    <2> QED
      BY <2>2, <1>1, <1>7 DEF Asking
  <1>11. Answering'
    <2> SUFFICES ASSUME NEW e \in ToSet(t) \union ({serving} \ {Idle})
                 PROVE  /\ e.what = "answer" => e.id \in DOMAIN pending' /\ pending'[e.id] \in Keys
                        /\ e.what = "mutated" => e.id \in DOMAIN pending' /\ pending'[e.id] = Mutation
      BY <1>5 DEF Answering
    <2>1. /\ e.what = "answer" => e.id \in DOMAIN pending /\ pending[e.id] \in Keys
          /\ e.what = "mutated" => e.id \in DOMAIN pending /\ pending[e.id] = Mutation
      BY <1>1, <1>2 DEF Answering
    <2>2. e.what \in {"answer", "mutated"} /\ Numbered(h) => e.id # h.id
      BY <1>1, <1>3, <1>4, PipeFacts DEF IdsDistinct
    <2> QED
      BY <2>1, <2>2, <1>7
  <1> QED
    BY <1>6, <1>9, <1>10, <1>11 DEF PipeInv

(* The pane writes a request under an id of its own.                       *)
LEMMA PaneSends ==
  ASSUME PaneInv, NEW id \in Ids \ DOMAIN pending, NEW request, NEW message \in Requests,
         message.id = id,
         request = IF message.what = "query" THEN message.key ELSE Mutation,
         Send(id, request, message), UNCHANGED <<toHost, serving>>
  PROVE  PipeInv' /\ PipeTyped' /\ Answering'
  <1>1. TypeOK /\ IdsDistinct /\ Asking /\ Answering /\ PipeTyped
    BY DEF PaneInv, PipeInv, TypeOK
  <1>2. request \in Keys \union {Mutation} /\ Numbered(message)
    BY Kinds
  <1>3. /\ DOMAIN pending' = DOMAIN pending \union {id}
        /\ pending'[id] = request
        /\ \A i \in DOMAIN pending : pending'[i] = pending[i]
    BY DEF Send
  <1>4. id \notin IdsOf(toClient)
    BY <1>1 DEF Asking, IdsOf
  <1>5. id \notin IdsOf(toHost)
    BY <1>1, PipeFacts, Kinds DEF Answering, IdsOf
  <1>6. id \notin ServingIds
    BY <1>1, PipeFacts, Kinds DEF Answering, ServingIds
  <1>7. /\ toClient' \in Seq(Requests)
        /\ IdsOf(toClient') \subseteq IdsOf(toClient) \union {id}
        /\ Once(toClient')
        /\ ToSet(toClient') \subseteq ToSet(toClient) \union {message}
    <2>1. toClient \in Seq(Requests) /\ Once(toClient)
      BY <1>1 DEF PipeTyped, IdsDistinct
    <2>2. CASE toClient' = toClient
      BY <2>1, <2>2
    <2>3. CASE toClient' = Append(toClient, message)
      BY <1>2, <1>4, <2>1, <2>3, Appended, IdsAppended
    <2> QED
      BY <2>2, <2>3 DEF Send
  <1>8. IdsDistinct'
    <2>1. Once(toHost') /\ IdsOf(toHost') = IdsOf(toHost) /\ ServingIds' = ServingIds
      BY <1>1 DEF IdsDistinct, Once, IdsOf, ServingIds
    <2>2. Once(toClient)' /\ IdsOf(toClient)' \subseteq IdsOf(toClient) \union {id}
      BY <1>7
    <2> QED
      BY <1>1, <1>5, <1>6, <2>1, <2>2 DEF IdsDistinct
  <1>9. Asking'
    BY <1>1, <1>3, <1>7 DEF Asking
  <1>10. PipeTyped'
    BY <1>1, <1>2, <1>3, <1>7 DEF PipeTyped
  <1>11. Answering'
    BY <1>1, <1>3 DEF Answering
  <1> QED
    BY <1>8, <1>9, <1>10, <1>11 DEF PipeInv

(* The serve loop takes a request: its response has the request's id, and  *)
(* its kind.                                                               *)
LEMMA ClientTakes ==
  ASSUME PaneInv, serving = Idle, toClient # <<>>, toClient' = Tail(toClient),
         UNCHANGED <<pending, toHost>>,
         serving' \in Responses, serving'.id = Head(toClient).id,
         serving'.what = IF Head(toClient).what = "query" THEN "answer" ELSE "mutated"
  PROVE  PipeInv' /\ PipeTyped' /\ Answering'
  <1> DEFINE h == Head(toClient)
             t == Tail(toClient)
  <1>1. TypeOK /\ IdsDistinct /\ Asking /\ Answering /\ PipeTyped
    BY DEF PaneInv, PipeInv, TypeOK
  <1>2. /\ h \in Requests /\ h \in ToSet(toClient)
        /\ t \in Seq(Requests) /\ ToSet(t) \subseteq ToSet(toClient)
    BY <1>1, PipeFacts, Beheaded
  <1>3. Numbered(h) /\ h.what \in {"query", "mutate"} /\ (h.what = "query" => h.key \in Keys)
    BY <1>2, Kinds
  <1>4. /\ IdsOf(t) \subseteq IdsOf(toClient) /\ Once(t)
        /\ h.id \in IdsOf(toClient) /\ h.id \notin IdsOf(t)
    BY <1>1, <1>3, PipeFacts, IdsBeheaded DEF IdsDistinct
  <1>5. /\ h.id \in DOMAIN pending
        /\ pending[h.id] = IF h.what = "query" THEN h.key ELSE Mutation
    BY <1>1, <1>2 DEF Asking
  <1> HIDE DEF h, t
  <1>6. /\ toClient' = t /\ serving'.id = h.id /\ serving' # Idle
        /\ serving'.what = IF h.what = "query" THEN "answer" ELSE "mutated"
    BY IdleAssumption DEF h, t
  <1>7. IdsDistinct'
    <2>1. Once(toHost)' /\ IdsOf(toHost)' = IdsOf(toHost)
      BY <1>1 DEF IdsDistinct, Once, IdsOf
    <2>2. Once(toClient)' /\ IdsOf(toClient)' \subseteq IdsOf(toClient)
          /\ h.id \notin IdsOf(toClient)'
      BY <1>4, <1>6
    <2>3. ServingIds' = {h.id}
      BY <1>6 DEF ServingIds
    <2> QED
      BY <1>1, <1>4, <2>1, <2>2, <2>3 DEF IdsDistinct
  <1>8. Asking'
    BY <1>1, <1>2, <1>6 DEF Asking
  <1>9. PipeTyped'
    BY <1>1, <1>2, <1>6 DEF PipeTyped
  <1>10. Answering'
    BY <1>1, <1>3, <1>5, <1>6 DEF Answering
  <1> QED
    BY <1>7, <1>8, <1>9, <1>10 DEF PipeInv

(* The serve loop writes its response.                                     *)
LEMMA ClientResponds ==
  ASSUME PaneInv, Respond
  PROVE  PipeInv' /\ PipeTyped' /\ Answering'
  <1>1. TypeOK /\ IdsDistinct /\ Asking /\ Answering /\ PipeTyped
    BY DEF PaneInv, PipeInv, TypeOK
  <1>2. /\ serving # Idle /\ toHost' = Append(toHost, serving) /\ serving' = Idle
        /\ UNCHANGED <<pending, toClient>>
    BY DEF Respond
  <1>3. serving \in Envelopes /\ Numbered(serving) /\ ServingIds = {serving.id}
    BY <1>1, <1>2, PipeFacts, Kinds DEF ServingIds
  <1>4. serving.id \notin IdsOf(toHost) /\ serving.id \notin IdsOf(toClient)
    BY <1>1, <1>3 DEF IdsDistinct
  <1>5. /\ toHost' \in Seq(Envelopes)
        /\ IdsOf(toHost)' = IdsOf(toHost) \union {serving.id}
        /\ Once(toHost)'
        /\ ToSet(toHost)' = ToSet(toHost) \union {serving}
    BY <1>1, <1>2, <1>3, <1>4, Appended, IdsAppended DEF PipeTyped, IdsDistinct
  <1>6. IdsDistinct'
    <2>1. Once(toClient)' /\ IdsOf(toClient)' = IdsOf(toClient) /\ ServingIds' = {}
      BY <1>1, <1>2 DEF IdsDistinct, Once, IdsOf, ServingIds
    <2> QED
      BY <1>1, <1>4, <1>5, <2>1 DEF IdsDistinct
  <1>7. Asking' /\ PipeTyped'
    BY <1>1, <1>2, <1>5 DEF Asking, PipeTyped
  <1>8. Answering'
    BY <1>1, <1>2, <1>5 DEF Answering
  <1> QED
    BY <1>6, <1>7, <1>8 DEF PipeInv

(* The client writes something that answers nobody.                        *)
LEMMA ClientPushes ==
  ASSUME PaneInv, NEW e \in Envelopes, ~ Numbered(e), toHost' = Append(toHost, e),
         UNCHANGED <<pending, toClient, serving>>
  PROVE  PipeInv' /\ PipeTyped' /\ Answering'
  <1>1. TypeOK /\ IdsDistinct /\ Asking /\ Answering /\ PipeTyped
    BY DEF PaneInv, PipeInv, TypeOK
  <1>2. /\ toHost' \in Seq(Envelopes)
        /\ IdsOf(toHost)' = IdsOf(toHost)
        /\ Once(toHost)'
        /\ ToSet(toHost)' = ToSet(toHost) \union {e}
    <2>1. toHost \in Seq(Envelopes) /\ Once(toHost)
      BY <1>1 DEF PipeTyped, IdsDistinct
    <2>2. /\ toHost' \in Seq(Envelopes)
          /\ ToSet(toHost') = ToSet(toHost) \union {e}
      BY <2>1, Appended
    <2>3. IdsOf(toHost') = IdsOf(toHost) /\ Once(toHost')
      BY <2>1, IdsAppended
    <2> QED
      BY <2>2, <2>3
  <1>3. IdsDistinct'
    <2>1. Once(toClient)' /\ IdsOf(toClient)' = IdsOf(toClient) /\ ServingIds' = ServingIds
      BY <1>1 DEF IdsDistinct, Once, IdsOf, ServingIds
    <2> QED
      BY <1>1, <1>2, <2>1 DEF IdsDistinct
  <1>4. Asking' /\ PipeTyped'
    BY <1>1, <1>2 DEF Asking, PipeTyped
  <1>5. e.what # "answer" /\ e.what # "mutated"
    BY DEF Numbered, Correlated
  <1>6. Answering'
    BY <1>1, <1>2, <1>5 DEF Answering
  <1> QED
    BY <1>3, <1>4, <1>6 DEF PipeInv

(* The pipe is as it was.                                                  *)
LEMMA PipeRests ==
  ASSUME PaneInv, UNCHANGED <<pending, toClient, toHost, serving>>
  PROVE  PipeInv' /\ PipeTyped' /\ Answering'
  BY DEF PaneInv, PipeInv, TypeOK, PipeTyped, Answering, Asking, IdsDistinct, Once,
         IdsOf, ServingIds

(* The client is gone, and what it had not written with it.                *)
LEMMA ClientGone ==
  ASSUME PaneInv, ClientExits
  PROVE  PipeInv' /\ PipeTyped' /\ Answering'
  <1>1. TypeOK /\ IdsDistinct /\ Answering /\ PipeTyped
    BY DEF PaneInv, PipeInv, TypeOK
  <1>2. toClient' = <<>> /\ serving' = Idle /\ UNCHANGED <<pending, toHost>>
    BY DEF ClientExits
  <1>3. IdsDistinct'
    <2>1. Once(toClient)' /\ IdsOf(toClient)' = {} /\ ServingIds' = {}
      BY <1>2, NoElements DEF Once, IdsOf, ServingIds
    <2>2. Once(toHost)'
      BY <1>1, <1>2 DEF Once, IdsDistinct
    <2> QED
      BY <2>1, <2>2 DEF IdsDistinct
  <1>4. Asking'
    BY <1>2, NoElements DEF Asking
  <1>5. PipeTyped' /\ Answering'
    BY <1>1, <1>2, NoElements DEF PipeTyped, Answering
  <1> QED
    BY <1>3, <1>4, <1>5 DEF PipeInv

-----------------------------------------------------------------------------
(* Type correctness: the pane, the pipe and the client, action by action.  *)

(* An envelope is applied: what its handler makes of cache and panel.      *)
LEMMA ApplyTyped ==
  ASSUME PaneInv, ApplyNext
  PROVE  /\ cache' \in CacheType /\ MainTyped' /\ PanelTyped'
         /\ PipeInv' /\ PipeTyped' /\ Answering'
  <1> DEFINE e == Head(toHost)
  <1>1. TypeOK /\ cache \in CacheType /\ MainTyped /\ PanelTyped /\ now \in Nat
    BY DEF PaneInv, TypeOK, MainTyped
  <1>2. /\ toHost' = Tail(toHost) /\ left > 0 /\ left' = left - 1
        /\ UNCHANGED <<now, awaited, wake, toClient, serving>>
        /\ ApplyAnswer(e) \/ ApplyMutated(e) \/ ApplyInvalidate(e) \/ ApplySetScript(e)
    BY DEF ApplyNext, client
  <1>3. left \in 0 .. Len(toHost) /\ toHost # <<>>
    BY <1>1, <1>2, NoElements DEF MainTyped
  <1>4. /\ e \in Envelopes /\ e \in ToSet(toHost)
        /\ Len(toHost) \in Nat /\ Len(Tail(toHost)) = Len(toHost) - 1
    BY <1>1, <1>3, PipeFacts, Beheaded
  <1> HIDE DEF e
  <1>5. left' \in 0 .. Len(toHost')
    BY <1>2, <1>3, <1>4
  <1>6. unseen \in BOOLEAN /\ changed \in BOOLEAN /\ pendingChanged \in BOOLEAN
        /\ main \in {"poll", "pump", "flush", "tick", "await", "rest"}
    BY <1>1 DEF MainTyped
  <1>7. CASE ApplyAnswer(e)
    <2>1. e.what = "answer" /\ pending' = Completed(e.id) /\ UNCHANGED <<main, panel>>
      BY <1>7 DEF ApplyAnswer
    <2>2. e.id \in DOMAIN pending /\ pending[e.id] \in Keys
      BY <1>1, <1>4, <2>1 DEF TypeOK, Answering
    <2>3. e.answer \in Answers \union {Working} /\ e.policy \in PolicyType
      BY <1>4, <2>1, Kinds
    <2>4. Forever \in PolicyType
      BY DEF Forever, PolicyType
    <2>5. cache' \in CacheType /\ unseen' \in BOOLEAN
      <3>1. CASE e.answer = Working
        BY <1>1, <1>6, <1>7, <3>1 DEF ApplyAnswer
      <3>2. CASE e.answer # Working
        <4>1. PICK policy \in PolicyType : Store(pending[e.id], e.answer, policy)
          BY <1>7, <2>3, <2>4, <3>2 DEF ApplyAnswer
        <4> QED
          BY <1>1, <2>2, <2>3, <3>2, <4>1, ResolvedFacts DEF Store
      <3> QED
        BY <3>1, <3>2
    <2>6. changed' \in BOOLEAN /\ pendingChanged' \in BOOLEAN
      BY <1>6, <1>7 DEF ApplyAnswer, NoteChanged
    <2>7. MainTyped'
      BY <1>1, <1>2, <1>5, <2>1, <2>5, <2>6 DEF MainTyped
    <2>8. PanelTyped'
      BY <1>1, <1>2, <2>1 DEF PanelTyped, panel
    <2>9. Numbered(e)
      BY <2>1 DEF Numbered, Correlated
    <2> QED
      BY <1>2, <1>3, <2>1, <2>5, <2>7, <2>8, <2>9, HostReads DEF e
  <1>8. CASE ApplyMutated(e)
    <2>1. /\ e.what = "mutated" /\ pending' = Completed(e.id)
          /\ UNCHANGED <<cache, unseen, changed, pendingChanged, panel>>
          /\ main' \in {"rest", main}
      BY <1>8 DEF ApplyMutated
    <2>2. MainTyped'
      BY <1>1, <1>2, <1>5, <1>6, <2>1 DEF MainTyped
    <2>3. PanelTyped'
      BY <1>1, <1>2, <2>1 DEF PanelTyped, panel
    <2>4. Numbered(e)
      BY <2>1 DEF Numbered, Correlated
    <2> QED
      BY <1>1, <1>2, <1>3, <2>1, <2>2, <2>3, <2>4, HostReads DEF e
  <1>9. CASE ApplyInvalidate(e)
    <2>1. /\ cache' = Invalidated(cache, {e.key}) /\ unseen' = TRUE
          /\ UNCHANGED <<main, pending, panel>>
      BY <1>9 DEF ApplyInvalidate
    <2>2. changed' \in BOOLEAN /\ pendingChanged' \in BOOLEAN
      BY <1>6, <1>9 DEF ApplyInvalidate, NoteChanged
    <2>3. MainTyped'
      BY <1>1, <1>2, <1>5, <2>1, <2>2 DEF MainTyped
    <2>4. PanelTyped'
      BY <1>1, <1>2, <2>1 DEF PanelTyped, panel
    <2> QED
      BY <1>1, <1>2, <1>3, <2>1, <2>3, <2>4, InvalidatedFacts, HostReads
  <1>10. CASE ApplySetScript(e)
    <2>1. UNCHANGED <<cache, unseen, main, pending>>
      BY <1>10 DEF ApplySetScript
    <2>2. changed' \in BOOLEAN /\ pendingChanged' \in BOOLEAN
      BY <1>6, <1>10 DEF ApplySetScript, NoteChanged
    <2>3. MainTyped'
      BY <1>1, <1>2, <1>5, <1>6, <2>1, <2>2 DEF MainTyped
    <2>4. PanelTyped'
      <3>1. \/ gate' = FreshGate /\ resources' = NoResources /\ UNCHANGED <<input, wants, shown>>
            \/ UNCHANGED <<gate, resources, input, wants, shown>>
        BY <1>10 DEF ApplySetScript, panel
      <3>2. FreshGate \in [valid : BOOLEAN, reads : BOOLEAN, changed : BOOLEAN]
        BY DEF FreshGate
      <3>3. NoResources \in [Keys -> Answers \union {Missing, Loading}]
        BY DEF NoResources
      <3> QED
        BY <1>1, <1>2, <3>1, <3>2, <3>3 DEF PanelTyped
    <2> QED
      BY <1>1, <1>2, <1>3, <2>1, <2>3, <2>4, HostReads
  <1> QED
    BY <1>2, <1>7, <1>8, <1>9, <1>10

(* Every step keeps the types and the pipe.                                *)
LEMMA NextPane ==
  ASSUME PaneInv, [Next]_vars
  PROVE  PaneInv'
  <1>1. /\ TypeOK /\ cache \in CacheType /\ MainTyped /\ PanelTyped /\ PipeTyped
        /\ ClientTyped
    BY DEF PaneInv, TypeOK
  <1>2. /\ toClient \in Seq(Requests) /\ toHost \in Seq(Envelopes)
        /\ Len(toHost) \in Nat /\ left \in 0 .. Len(toHost)
        /\ ToSet(toClient) \subseteq Requests
    BY <1>1, PipeFacts, LenProperties DEF MainTyped
  <1> SUFFICES /\ cache' \in CacheType /\ MainTyped' /\ PanelTyped' /\ ClientTyped'
               /\ PipeInv' /\ PipeTyped' /\ Answering'
    BY DEF PaneInv, TypeOK
  <1>3. CASE Tick
    <2>1. UNCHANGED <<pending, toClient, toHost, client>>
      BY <1>3 DEF Tick
    <2> QED
      BY <1>1, <1>3, <2>1, TickTyped, PipeRests DEF ClientTyped, client
  <1>4. CASE StartPump \/ StartFlush \/ EndPump \/ AwaitDrain \/ AwaitOver
    <2>1. UNCHANGED <<unseen, now, pending, toClient, toHost, client, panel>>
      BY <1>4 DEF StartPump, StartFlush, EndPump, AwaitDrain, AwaitOver
    <2>2. cache' = cache /\ wake' \in {wake, "active"}
      BY <1>4 DEF StartPump, StartFlush, EndPump, AwaitDrain, AwaitOver
    <2>3. MainTyped'
      <3>1. /\ main' \in {"poll", "pump", "flush", "tick", main}
            /\ left' \in {left, Len(toHost)}
            /\ changed' \in {changed, pendingChanged, FALSE}
            /\ pendingChanged' \in {pendingChanged, FALSE}
            /\ awaited' \in {awaited, Idle}
        BY <1>4
        DEF StartPump, StartFlush, EndPump, AwaitDrain, AwaitOver, CarriedOver
      <3>2. changed \in BOOLEAN /\ pendingChanged \in BOOLEAN
        BY <1>1 DEF MainTyped
      <3>3. changed' \in BOOLEAN /\ pendingChanged' \in BOOLEAN
        BY <3>1, <3>2, Zenon
      <3>4. left' \in 0 .. Len(toHost') /\ awaited' \in Ids \union {Idle}
        BY <1>1, <1>2, <2>1, <3>1 DEF MainTyped
      <3>5. main' \in {"poll", "pump", "flush", "tick", "await", "rest"}
        BY <1>1, <3>1 DEF MainTyped
      <3> QED
        BY <1>1, <2>1, <3>3, <3>4, <3>5 DEF MainTyped
    <2> QED
      BY <1>1, <2>1, <2>2, <2>3, PipeRests DEF ClientTyped, client, PanelTyped, panel
  <1>5. CASE ApplyNext
    BY <1>1, <1>5, ApplyTyped DEF ApplyNext, ClientTyped, client
  <1>6. CASE FlushNext
    <2>1. /\ main = "flush" /\ cache.outbox # <<>> /\ FreshIds # {}
          /\ Send(FreshId, Head(cache.outbox), Query(FreshId, Head(cache.outbox)))
          /\ cache' = [cache EXCEPT !.outbox = Tail(@)]
          /\ UNCHANGED <<unseen, now, pumping, panel, wake, toHost, client>>
      BY <1>6 DEF FlushNext
    <2>2. FreshId \in Ids \ DOMAIN pending
      BY <2>1, FreshIdFree
    <2>3. cache.outbox \in Seq(Keys)
      BY <1>1 DEF CacheType
    <2>4. Head(cache.outbox) \in Keys /\ Tail(cache.outbox) \in Seq(Keys)
      BY <2>1, <2>3, Beheaded
    <2>5. cache' \in CacheType
      BY <1>1, <2>1, <2>4 DEF CacheType
    <2> DEFINE message == Query(FreshId, Head(cache.outbox))
    <2>6. /\ message \in Requests /\ message.id = FreshId
          /\ Head(cache.outbox) = IF message.what = "query" THEN message.key ELSE Mutation
      BY <2>2, <2>4 DEF Query, Requests
    <2> HIDE DEF message
    <2>7. Send(FreshId, Head(cache.outbox), message) /\ UNCHANGED <<toHost, serving>>
      BY <2>1 DEF message, client
    <2>8. PipeInv' /\ PipeTyped' /\ Answering'
      BY <2>2, <2>6, <2>7, PaneSends
    <2> QED
      BY <1>1, <2>1, <2>5, <2>8
      DEF MainTyped, PanelTyped, ClientTyped, pumping, panel, client
  <1>7. CASE StartMutate
    <2>1. /\ FreshIds # {} /\ Send(FreshId, Mutation, Mutate(FreshId))
          /\ main' = "await" /\ awaited' = FreshId
          /\ UNCHANGED <<cache, unseen, now, left, changed, pendingChanged, panel, wake,
                         toHost, client>>
      BY <1>7 DEF StartMutate
    <2>2. FreshId \in Ids \ DOMAIN pending
      BY <2>1, FreshIdFree
    <2> DEFINE message == Mutate(FreshId)
    <2>3. /\ message \in Requests /\ message.id = FreshId
          /\ Mutation = IF message.what = "query" THEN message.key ELSE Mutation
      BY <2>2 DEF Mutate, Requests
    <2> HIDE DEF message
    <2>4. Send(FreshId, Mutation, message) /\ UNCHANGED <<toHost, serving>>
      BY <2>1 DEF message, client
    <2>5. PipeInv' /\ PipeTyped' /\ Answering'
      BY <2>2, <2>3, <2>4, PaneSends
    <2> QED
      BY <1>1, <2>1, <2>2, <2>5 DEF MainTyped, PanelTyped, ClientTyped, panel, client
  <1>8. CASE Input \/ FallAsleep \/ TimePasses
    <2>1. UNCHANGED <<cache, unseen, pumping, pending, toClient, toHost, client>>
      BY <1>8 DEF Input, FallAsleep, TimePasses
    <2>2. /\ wake' \in {wake, "active", "asleep"} /\ input' \in {input, TRUE}
          /\ now' \in {now, now + 1}
          /\ UNCHANGED <<gate, resources, wants, shown>>
      BY <1>8 DEF Input, FallAsleep, TimePasses, panel
    <2>3. MainTyped'
      BY <1>1, <2>1, <2>2 DEF MainTyped, pumping
    <2>4. PanelTyped'
      BY <1>1, <2>2 DEF PanelTyped
    <2>5. ClientTyped' /\ serving' = serving
      BY <1>1, <2>1 DEF ClientTyped, client
    <2> QED
      BY <1>1, <2>1, <2>3, <2>4, <2>5, PipeRests
  <1>9. ASSUME NEW busy \in BOOLEAN, NEW policy \in Policies, ServeQuery(busy, policy)
        PROVE  PaneInv'
    <2> DEFINE m == Head(toClient)
    <2>1. /\ serving = Idle /\ toClient # <<>> /\ m.what = "query"
          /\ toClient' = Tail(toClient)
          /\ UNCHANGED <<cache, unseen, now, pumping, panel, wake, pending, toHost, alive>>
          /\ serving' = Answer(m.id, IF busy THEN Working ELSE DataAnswer(m.key), policy)
          /\ working' = IF busy THEN working \union {m.key} ELSE working
          /\ UNCHANGED <<world, owed>>
      BY <1>9 DEF ServeQuery, Take
    <2>2. m \in Requests /\ m.id \in Ids /\ m.key \in Keys
      BY <1>2, <2>1, Beheaded, Kinds
    <2> HIDE DEF m
    <2>3. DataAnswer(m.key) \in Answers
      BY <1>1, <2>2 DEF DataAnswer, Answers, ClientTyped
    <2>4. serving' \in Responses /\ serving'.id = m.id /\ serving'.what = "answer"
      BY <2>1, <2>2, <2>3, PaneAssumption DEF Answer, Responses
    <2>5. PipeInv' /\ PipeTyped' /\ Answering'
      BY <2>1, <2>4, ClientTakes DEF m
    <2>6. ClientTyped'
      BY <1>1, <2>1, <2>2, <2>4 DEF ClientTyped
    <2> QED
      BY <1>1, <2>1, <2>5, <2>6 DEF PaneInv, TypeOK, MainTyped, PanelTyped, pumping, panel
  <1>10. ASSUME NEW edited \in SUBSET Keys, ServeMutate(edited)
         PROVE  PaneInv'
    <2> DEFINE m == Head(toClient)
    <2>1. /\ serving = Idle /\ toClient # <<>> /\ m.what = "mutate"
          /\ toClient' = Tail(toClient)
          /\ UNCHANGED <<cache, unseen, now, pumping, panel, wake, pending, toHost, alive>>
          /\ serving' = Mutated(m.id)
          /\ world' = [k \in Keys |-> IF k \in edited THEN world[k] + 1 ELSE world[k]]
          /\ owed' = owed \union edited
          /\ UNCHANGED working
      BY <1>10 DEF ServeMutate, Take
    <2>2. m \in Requests /\ m.id \in Ids
      BY <1>2, <2>1, Beheaded, Kinds
    <2> HIDE DEF m
    <2>3. serving' \in Responses /\ serving'.id = m.id /\ serving'.what = "mutated"
      BY <2>1, <2>2 DEF Mutated, Responses
    <2>4. PipeInv' /\ PipeTyped' /\ Answering'
      BY <2>1, <2>3, ClientTakes DEF m
    <2>5. ClientTyped'
      BY <1>1, <2>1, <2>3 DEF ClientTyped
    <2> QED
      BY <1>1, <2>1, <2>4, <2>5 DEF PaneInv, TypeOK, MainTyped, PanelTyped, pumping, panel
  <1>11. ASSUME UNCHANGED <<cache, unseen, now, pumping, panel, wake>>,
                Len(toHost') \in Nat, Len(toHost') >= Len(toHost)
         PROVE  cache' \in CacheType /\ MainTyped' /\ PanelTyped'
    BY <1>1, <1>2, <1>11 DEF MainTyped, PanelTyped, pumping, panel
  <1>12. CASE Respond
    <2>1. serving \in Envelopes
      BY <1>1, <1>12, PipeFacts, Kinds DEF Respond
    <2>2. Len(toHost') = Len(toHost) + 1
      BY <1>2, <1>12, <2>1, Appended DEF Respond
    <2>3. /\ UNCHANGED <<cache, unseen, now, pumping, panel, wake, alive, world, working, owed>>
          /\ serving' = Idle
      BY <1>12 DEF Respond
    <2>4. ClientTyped'
      BY <1>1, <2>3 DEF ClientTyped
    <2> QED
      BY <1>2, <1>11, <1>12, <2>2, <2>3, <2>4, ClientResponds
  <1>13. ASSUME NEW k \in Keys, WorkDone(k) \/ DataChanges(k)
         PROVE  PaneInv'
    <2>1. UNCHANGED <<cache, unseen, now, pumping, panel, wake, pending, toClient, toHost,
                      alive, serving>>
      BY <1>13 DEF WorkDone, DataChanges
    <2>2. ClientTyped'
      BY <1>1, <1>13 DEF ClientTyped, WorkDone, DataChanges
    <2> QED
      BY <1>2, <1>11, <2>1, <2>2, PipeRests DEF PaneInv, TypeOK
  <1>14. ASSUME NEW k \in Keys, PushInvalidate(k)
         PROVE  PaneInv'
    <2> DEFINE e == Invalidate(k)
    <2>1. e \in Envelopes /\ ~ Numbered(e)
      BY DEF Invalidate, Envelopes, Numbered, Correlated
    <2> HIDE DEF e
    <2>2. /\ toHost' = Append(toHost, e) /\ owed' = owed \ {k}
          /\ UNCHANGED <<cache, unseen, now, pumping, panel, wake, pending, toClient, alive,
                         serving, world, working>>
      BY <1>14 DEF PushInvalidate, e
    <2>3. Len(toHost') = Len(toHost) + 1
      BY <1>2, <2>1, <2>2, Appended
    <2>4. ClientTyped'
      BY <1>1, <2>2 DEF ClientTyped
    <2>5. PipeInv' /\ PipeTyped' /\ Answering'
      BY <2>1, <2>2, ClientPushes
    <2> QED
      BY <1>2, <1>11, <2>2, <2>3, <2>4, <2>5 DEF PaneInv, TypeOK
  <1>15. ASSUME NEW compiles \in BOOLEAN, PushScript(compiles)
         PROVE  PaneInv'
    <2> DEFINE e == SetScript(compiles)
    <2>1. e \in Envelopes /\ ~ Numbered(e)
      BY DEF SetScript, Envelopes, Numbered, Correlated
    <2> HIDE DEF e
    <2>2. /\ toHost' = Append(toHost, e)
          /\ UNCHANGED <<cache, unseen, now, pumping, panel, wake, pending, toClient, client>>
      BY <1>15 DEF PushScript, e
    <2>3. Len(toHost') = Len(toHost) + 1
      BY <1>2, <2>1, <2>2, Appended
    <2>4. ClientTyped' /\ serving' = serving
      BY <1>1, <2>2 DEF ClientTyped, client
    <2>5. PipeInv' /\ PipeTyped' /\ Answering'
      BY <2>1, <2>2, <2>4, ClientPushes
    <2> QED
      BY <1>2, <1>11, <2>2, <2>3, <2>4, <2>5 DEF PaneInv, TypeOK
  <1>16. CASE ClientExits
    <2>1. /\ UNCHANGED <<cache, unseen, now, pumping, panel, wake, toHost, world>>
          /\ alive' = FALSE /\ serving' = Idle /\ working' = {} /\ owed' = {}
      BY <1>16 DEF ClientExits
    <2>2. ClientTyped'
      BY <1>1, <2>1 DEF ClientTyped
    <2> QED
      BY <1>2, <1>11, <1>16, <2>1, <2>2, ClientGone
  <1>17. CASE UNCHANGED vars
    <2>1. UNCHANGED <<cache, unseen, now, pumping, panel, wake, pending, toClient, toHost, client>>
      BY <1>17 DEF vars
    <2> QED
      BY <1>1, <1>2, <1>11, <2>1, PipeRests DEF ClientTyped, client
  <1>18. ASSUME PaneInv'
         PROVE  /\ cache' \in CacheType /\ MainTyped' /\ PanelTyped' /\ ClientTyped'
                /\ PipeInv' /\ PipeTyped' /\ Answering'
    BY <1>18 DEF PaneInv, TypeOK
  <1>19. CASE ServeLoop \/ Pushes \/ Slow \/ Edit \/ Change \/ Script
    BY <1>9, <1>10, <1>12, <1>13, <1>14, <1>15, <1>18, <1>19
    DEF ServeLoop, Pushes, Slow, Edit, Change, Script
  <1> QED
    BY <1>3, <1>4, <1>5, <1>6, <1>7, <1>8, <1>16, <1>17, <1>19
    DEF Next, Steps, Events, Pump, Await

(* A pane's variables hold values of their kinds, and every response on    *)
(* its way answers a request that is still outstanding: an id is never     *)
(* used for two requests at a time, whatever is sent, answered late,       *)
(* pushed in between or lost with the client.                              *)
THEOREM PaneTypeCorrect == Spec => []TypeOK
  <1>1. Init => PaneInv
    BY InitPane
  <1>2. PaneInv /\ [Next]_vars => PaneInv'
    BY NextPane
  <1>3. PaneInv => TypeOK
    BY DEF PaneInv
  <1> QED
    BY <1>1, <1>2, <1>3, PTL DEF Spec

-----------------------------------------------------------------------------
(* The invariants of the three safety properties.                          *)

(* What a valid record whose gate has not been told of anything says: what *)
(* the last run was given for a key is what the cache and the resource     *)
(* table still hold, and a key without an entry is in flight.              *)
Settled == gate.valid /\ ~ gate.changed /\ ~ unseen =>
  \A k \in wants :
    \/ /\ cache.entries[k] # Missing
       /\ shown[k] = cache.entries[k].answer
    \/ /\ cache.entries[k] = Missing
       /\ shown[k] = IF resources[k] # Missing THEN resources[k] ELSE Loading
       /\ k \in cache.requested

FrameInv ==
  /\ gate.valid => (gate.reads <=> wants # {})
  /\ Settled

(* What is on its way for a key in flight. A "still loading" answer is     *)
(* nothing: what follows it counts.                                        *)
Backed(k) ==
  \/ k \in ToSet(cache.outbox)
  \/ \E m \in ToSet(toClient) : m.what = "query" /\ m.key = k
  \/ serving # Idle /\ Carries(serving, k)
  \/ \E e \in ToSet(toHost) : Carries(e, k)
  \/ k \in working \/ k \in owed \/ Invalidate(k) \in ToSet(toHost)

BackedInv == alive => \A k \in cache.requested : Backed(k)

(* A client without threads writes the invalidate of a change after every  *)
(* answer it made before.                                                  *)
InvalidateAfter(i, k) ==
  k \in owed \/ \E j \in DOMAIN toHost : j > i /\ toHost[j] = Invalidate(k)
Outdated(e, k) == Carries(e, k) /\ e.answer.version < world[k]

OrderInv == alive => \A k \in Keys :
  /\ cache.entries[k] # Missing /\ cache.entries[k].answer.version < world[k]
       => InvalidateAfter(0, k)
  /\ \A i \in DOMAIN toHost : Outdated(toHost[i], k) => InvalidateAfter(i, k)
  /\ serving # Idle /\ Outdated(serving, k) => k \in owed

(* What a run was given for a key is what the cache and the resource table *)
(* hold for it afterwards.                                                 *)
LEMMA RunFrameSettles ==
  ASSUME TypeOK, NEW ks \in SUBSET Keys, NEW dropped \in SUBSET Keys, NEW before \in BOOLEAN,
         NEW order, RunFrame(ks, dropped, before, order)
  PROVE  FrameInv'
  <1>1. /\ IsFiniteSet(ks) /\ unseen' = (dropped # {}) /\ wants' = ks
        /\ gate' = [valid |-> TRUE, reads |-> ks # {}, changed |-> FALSE]
    BY DEF RunFrame
  <1>2. gate'.valid => (gate'.reads <=> wants' # {})
    BY <1>1
  <1>3. ASSUME dropped = {}, NEW k \in ks
        PROVE  \/ /\ cache'.entries[k] # Missing
                  /\ shown'[k] = cache'.entries[k].answer
               \/ /\ cache'.entries[k] = Missing
                  /\ shown'[k] = IF resources'[k] # Missing THEN resources'[k] ELSE Loading
                  /\ k \in cache'.requested
    <2> DEFINE looked == LookedUp(cache, ks, order, now)
               entry == cache.entries[k]
    <2>1. /\ cache \in CacheType /\ entry \in EntryType \union {Missing}
          /\ cache.entries \in [Keys -> EntryType \union {Missing}]
          /\ cache.requested \in SUBSET Keys
      BY DEF TypeOK, CacheType
    <2>2. Invalidated(cache, {}) = cache
      BY <2>1 DEF Invalidated, CacheType
    <2>3. /\ order \in SetToSeqs(Needed(cache, ks, now))
          /\ cache' = IF before THEN looked ELSE Invalidated(looked, {})
          /\ shown'[k] = Presented(cache, k) /\ resources'[k] = ResourceAfter(cache, k)
      BY <1>3, <2>2 DEF RunFrame
    <2> HIDE DEF looked
    <2>4. looked \in CacheType
      BY <1>1, <2>1, <2>3, LookedUpFacts DEF looked
    <2>5. Invalidated(looked, {}) = looked
      BY <2>4 DEF Invalidated, CacheType
    <2>6. cache' = looked
      BY <2>3, <2>5
    <2>7. /\ looked.entries[k] = IF Held(cache, k, now) = "expired" THEN Missing ELSE entry
          /\ looked.requested = cache.requested \union Needed(cache, ks, now)
      BY <1>3 DEF looked, LookedUp
    <2>8. LookupResult(cache, k, now)
           = IF Held(cache, k, now) \in {"fresh", "stale"} THEN entry.answer ELSE Loading
      BY DEF LookupResult
    <2>9. Held(cache, k, now) # "fresh" => k \in looked.requested
      BY <1>3, <2>7 DEF Needed
    <2>10. entry = Missing <=> Held(cache, k, now) = "missing"
      BY DEF Held, FreshnessAt
    <2>11. Held(cache, k, now) \in {"missing", "fresh", "stale", "expired"}
      BY DEF Held, FreshnessAt
    <2>12. CASE Held(cache, k, now) \in {"fresh", "stale"}
      <3>1. entry \in EntryType /\ entry # Missing
        BY <2>1, <2>10, <2>12
      <3>2. entry.answer # Loading
        BY <3>1 DEF EntryType, Answers, Loading
      <3>3. shown'[k] = entry.answer
        BY <2>3, <2>8, <2>12, <3>2 DEF Presented
      <3> QED
        BY <2>6, <2>7, <2>12, <3>1, <3>3
    <2>13. CASE Held(cache, k, now) \in {"missing", "expired"}
      <3>1. LookupResult(cache, k, now) = Loading
        BY <2>8, <2>13
      <3>2. cache'.entries[k] = Missing /\ k \in cache'.requested
        BY <2>6, <2>7, <2>9, <2>10, <2>13
      <3>3. Loading.kind # "errored"
        BY DEF Loading
      <3>4. CASE resources[k] = Missing
        BY <2>3, <3>1, <3>2, <3>3, <3>4 DEF Presented, ResourceAfter
      <3>5. CASE resources[k] # Missing
        BY <2>3, <3>1, <3>2, <3>3, <3>5 DEF Presented, ResourceAfter
      <3> QED
        BY <3>4, <3>5
    <2> QED
      BY <2>11, <2>12, <2>13
  <1>4. Settled'
    BY <1>1, <1>3 DEF Settled
  <1> QED
    BY <1>2, <1>4 DEF FrameInv

(* Every step keeps the record true, or tells the gate.                    *)
LEMMA NextFrame ==
  ASSUME TypeOK, FrameInv, [Next]_vars
  PROVE  FrameInv'
  <1>1. ASSUME UNCHANGED <<gate, wants>>, unseen' = TRUE
        PROVE  FrameInv'
    BY <1>1 DEF FrameInv, Settled
  <1>2. ASSUME gate' = FreshGate
        PROVE  FrameInv'
    BY <1>2 DEF FrameInv, Settled, FreshGate
  <1>3. ASSUME UNCHANGED <<gate, wants, shown, resources, unseen>>,
               UNCHANGED <<cache.entries, cache.requested>>
        PROVE  FrameInv'
    BY <1>3 DEF FrameInv, Settled
  <1>4. ASSUME UNCHANGED <<cache, unseen, panel>>
        PROVE  FrameInv'
    BY <1>3, <1>4 DEF panel
  <1>5. ASSUME Tick
        PROVE  FrameInv'
    <2>1. ASSUME SkipFrame PROVE FrameInv'
      <3>1. /\ gate \in [valid : BOOLEAN, reads : BOOLEAN, changed : BOOLEAN]
            /\ gate' = [gate EXCEPT !.changed = @ \/ Noted]
            /\ UNCHANGED <<cache, resources, wants, shown>>
        BY <2>1 DEF SkipFrame, TypeOK, PanelTyped
      <3>2. /\ gate'.valid = gate.valid /\ gate'.reads = gate.reads
            /\ ~ gate'.changed => ~ gate.changed /\ ~ unseen
        BY <3>1 DEF Noted
      <3> QED
        BY <3>1, <3>2 DEF FrameInv, Settled
    <2>2. ASSUME TickAsleep PROVE FrameInv'
      BY <1>4, <2>2 DEF TickAsleep
    <2> QED
      BY <1>5, <2>1, <2>2, RunFrameSettles DEF Tick
  <1>6. ASSUME ApplyNext
        PROVE  FrameInv'
    <2> DEFINE e == Head(toHost)
    <2>1. ApplyAnswer(e) \/ ApplyMutated(e) \/ ApplyInvalidate(e) \/ ApplySetScript(e)
      BY <1>6 DEF ApplyNext
    <2> HIDE DEF e
    <2>2. ASSUME ApplyAnswer(e) PROVE FrameInv'
      <3>1. UNCHANGED panel /\ (UNCHANGED <<cache, unseen>> \/ unseen' = TRUE)
        BY <2>2 DEF ApplyAnswer, Store
      <3> QED
        BY <1>1, <1>4, <3>1 DEF panel
    <2>3. ASSUME ApplyMutated(e) PROVE FrameInv'
      BY <1>4, <2>3 DEF ApplyMutated
    <2>4. ASSUME ApplyInvalidate(e) PROVE FrameInv'
      BY <1>1, <2>4 DEF ApplyInvalidate, panel
    <2>5. ASSUME ApplySetScript(e) PROVE FrameInv'
      BY <1>2, <1>4, <2>5 DEF ApplySetScript
    <2> QED
      BY <2>1, <2>2, <2>3, <2>4, <2>5
  <1>7. ASSUME FlushNext
        PROVE  FrameInv'
    <2>1. cache' = [cache EXCEPT !.outbox = Tail(@)] /\ UNCHANGED <<unseen, panel>>
      BY <1>7 DEF FlushNext
    <2>2. UNCHANGED <<cache.entries, cache.requested>>
      BY <2>1 DEF TypeOK, CacheType
    <2> QED
      BY <1>3, <2>1, <2>2 DEF panel
  <1>8. ASSUME Input
        PROVE  FrameInv'
    BY <1>3, <1>8 DEF Input
  <1>9. ASSUME \/ StartPump \/ StartFlush \/ EndPump \/ Await \/ ServeLoop \/ Pushes
               \/ FallAsleep \/ TimePasses \/ StartMutate \/ Slow \/ Edit \/ Change
               \/ Script \/ ClientExits \/ UNCHANGED vars
        PROVE  FrameInv'
    <2>1. UNCHANGED <<cache, unseen, panel>>
      BY <1>9
      DEF StartPump, StartFlush, EndPump, Await, AwaitDrain, AwaitOver, ServeLoop,
          ServeQuery, ServeMutate, Take, Respond, Pushes, WorkDone, PushInvalidate,
          FallAsleep, TimePasses, StartMutate, Slow, Edit, Change, DataChanges, Script,
          PushScript, ClientExits, vars
    <2> QED
      BY <1>4, <2>1
  <1> QED
    BY <1>5, <1>6, <1>7, <1>8, <1>9 DEF Next, Steps, Events, Pump

(* An entry is fresh up to the tick at which its revalidation is due.      *)
LEMMA FreshUntilDue ==
  ASSUME TypeOK, ~ RevalidationDue(cache, now), NEW k \in Keys, cache.entries[k] # Missing
  PROVE  Held(cache, k, now) = "fresh"
  <1> DEFINE entry == cache.entries[k]
             policy == entry.policy
             age == now - entry.at
             ms == age \div TicksPerMs
  <1>1. entry \in EntryType /\ now \in Nat
    BY DEF TypeOK, CacheType, MainTyped
  <1>2. policy \in PolicyType /\ entry.at \in Nat /\ TicksPerMs \in Nat \ {0}
    BY <1>1, CacheAssumption DEF EntryType
  <1>3. /\ ~ policy.noStore
        /\ policy.maxAge # Unlimited => ~ (entry.at + policy.maxAge * TicksPerMs <= now)
    BY DEF RevalidationDue
  <1>4. Held(cache, k, now) = FreshnessAt(policy, age)
    BY DEF Held
  <1>5. CASE policy.maxAge = Unlimited
    BY <1>3, <1>4, <1>5 DEF FreshnessAt
  <1>6. CASE policy.maxAge # Unlimited
    <2>1. policy.maxAge \in Nat
      BY <1>2, <1>6 DEF PolicyType
    <2> DEFINE limit == policy.maxAge
    <2> HIDE DEF policy, limit
    <2>2. age \in Int /\ limit \in Nat /\ age < limit * TicksPerMs
      BY <1>1, <1>2, <1>3, <1>6, <2>1 DEF limit
    <2> HIDE DEF age
    <2>3. ms \in Int /\ TicksPerMs * ms <= age
      BY <1>2, <2>2
    <2> HIDE DEF ms
    <2>4. ~ (ms > limit)
      BY <1>2, <2>2, <2>3
    <2> QED
      BY <1>3, <1>4, <2>1, <2>2, <2>3, <2>4 DEF FreshnessAt, limit, ms
  <1> QED
    BY <1>5, <1>6

(* A frame is skipped only when another run would be given the same        *)
(* answers and would fetch nothing.                                        *)
LEMMA SettledIsCurrent ==
  ASSUME TypeOK, FrameInv
  PROVE  SkippedFrameIsCurrent
  <1> SUFFICES ASSUME ~ FrameNeeded, NEW k \in wants
               PROVE  /\ shown[k] = Presented(cache, k)
                      /\ Held(cache, k, now) = "fresh" \/ k \in cache.requested
    BY DEF SkippedFrameIsCurrent
  <1>1. gate \in [valid : BOOLEAN, reads : BOOLEAN, changed : BOOLEAN] /\ k \in Keys
    BY DEF TypeOK, PanelTyped
  <1>2. gate.valid /\ gate.reads
    BY <1>1 DEF FrameNeeded, FrameInv
  <1>3. ~ gate.changed /\ ~ unseen /\ ~ RevalidationDue(cache, now)
    BY <1>2 DEF FrameNeeded, Noted
  <1>4. CASE cache.entries[k] # Missing
    <2>1. Held(cache, k, now) = "fresh"
      BY <1>1, <1>3, <1>4, FreshUntilDue
    <2>2. LookupResult(cache, k, now) = cache.entries[k].answer
      BY <2>1 DEF LookupResult
    <2>3. cache.entries[k] \in EntryType
      BY <1>1, <1>4 DEF TypeOK, CacheType
    <2>4. cache.entries[k].answer # Loading
      BY <2>3 DEF EntryType, Answers, Loading
    <2>5. Presented(cache, k) = cache.entries[k].answer
      BY <2>2, <2>4 DEF Presented
    <2> QED
      BY <1>2, <1>3, <1>4, <2>1, <2>5 DEF FrameInv, Settled
  <1>5. CASE cache.entries[k] = Missing
    <2>1. LookupResult(cache, k, now) = Loading
      BY <1>5 DEF LookupResult, Held
    <2> QED
      BY <1>2, <1>3, <1>5, <2>1 DEF FrameInv, Settled, Presented
  <1> QED
    BY <1>4, <1>5

(* A frame is skipped only when running it would change nothing: every     *)
(* answer, error and invalidate since the last run, a reload and an answer *)
(* gone stale have reached the gate by the time it is asked, in whatever   *)
(* order the pump, the ticks, an await_response and the clock bring them.  *)
THEOREM SkippedFramesCurrent == Spec => []SkippedFrameIsCurrent
  <1>1. Init => FrameInv
    BY DEF Init, FrameInv, Settled, FreshGate
  <1>2. TypeOK /\ FrameInv /\ [Next]_vars => FrameInv'
    BY NextFrame
  <1>3. TypeOK /\ FrameInv => SkippedFrameIsCurrent
    BY SettledIsCurrent
  <1> QED
    BY <1>1, <1>2, <1>3, PaneTypeCorrect, PTL DEF Spec

-----------------------------------------------------------------------------
(* A key in flight is backed.                                              *)

(* What backs a key backs it still when no message is read and no request  *)
(* completed.                                                              *)
LEMMA BackedKept ==
  ASSUME TypeOK, NEW k \in Keys, Backed(k),
         ToSet(cache.outbox) \subseteq ToSet(cache'.outbox),
         ToSet(toClient) \subseteq ToSet(toClient'), ToSet(toHost) \subseteq ToSet(toHost'),
         \A id \in DOMAIN pending : pending'[id] = pending[id],
         serving' = serving, working \subseteq working', owed \subseteq owed'
  PROVE  Backed(k)'
  <1>1. ASSUME NEW e \in ToSet(toHost) \union ({serving} \ {Idle}), Carries(e, k)
        PROVE  Carries(e, k)'
    BY <1>1 DEF Carries, TypeOK, Answering
  <1>2. CASE serving # Idle /\ Carries(serving, k)
    BY <1>1, <1>2 DEF Backed, Carries
  <1>3. CASE \E e \in ToSet(toHost) : Carries(e, k)
    BY <1>1, <1>3 DEF Backed
  <1>4. CASE \/ k \in ToSet(cache.outbox)
             \/ \E m \in ToSet(toClient) : m.what = "query" /\ m.key = k
             \/ k \in working \/ k \in owed \/ Invalidate(k) \in ToSet(toHost)
    BY <1>4 DEF Backed
  <1> QED
    BY <1>2, <1>3, <1>4 DEF Backed

(* A run queues what it marks.                                             *)
LEMMA RunFrameBacked ==
  ASSUME TypeOK, BackedInv, NEW ks \in SUBSET Keys, NEW dropped \in SUBSET Keys,
         NEW before \in BOOLEAN, NEW order, RunFrame(ks, dropped, before, order),
         UNCHANGED <<pending, toClient, toHost, client>>
  PROVE  BackedInv'
  <1> DEFINE asked == IF before THEN Invalidated(cache, dropped) ELSE cache
             looked == LookedUp(asked, ks, order, now)
             need == Needed(asked, ks, now)
  <1>1. /\ asked \in CacheType /\ asked.outbox = cache.outbox
        /\ asked.requested \subseteq cache.requested
    <2>1. cache \in CacheType
      BY DEF TypeOK
    <2>2. /\ Invalidated(cache, dropped) \in CacheType
          /\ Invalidated(cache, dropped).outbox = cache.outbox
          /\ Invalidated(cache, dropped).requested = cache.requested \ dropped
      BY <2>1, InvalidatedFacts
    <2> QED
      BY <2>1, <2>2
  <1>2. /\ IsFiniteSet(ks) /\ order \in SetToSeqs(need)
        /\ cache' = IF before THEN looked ELSE Invalidated(looked, dropped)
    BY DEF RunFrame
  <1> HIDE DEF asked
  <1>3. /\ looked \in CacheType /\ looked.requested = asked.requested \union need
        /\ ToSet(looked.outbox) = ToSet(asked.outbox) \union need
    BY <1>1, <1>2, LookedUpFacts DEF LookedUp
  <1> HIDE DEF looked, need
  <1>4. /\ cache'.requested \subseteq cache.requested \union need
        /\ ToSet(cache'.outbox) = ToSet(cache.outbox) \union need
    <2>1. /\ Invalidated(looked, dropped).outbox = looked.outbox
          /\ Invalidated(looked, dropped).requested = looked.requested \ dropped
      BY <1>3, InvalidatedFacts
    <2>2. cache'.outbox = looked.outbox /\ cache'.requested \subseteq looked.requested
      BY <1>2, <2>1
    <2> QED
      BY <1>1, <1>3, <2>2
  <1>5. UNCHANGED <<pending, toClient, toHost, alive, serving, working, owed>>
    BY DEF client
  <1>6. ASSUME NEW k \in cache'.requested, alive
        PROVE  Backed(k)'
    <2>1. CASE k \in need
      BY <1>4, <2>1 DEF Backed
    <2>2. CASE k \in cache.requested
      BY <1>4, <1>5, <1>6, <2>2, BackedKept DEF BackedInv, TypeOK, CacheType
    <2> QED
      BY <1>4, <2>1, <2>2
  <1> QED
    BY <1>5, <1>6 DEF BackedInv

(* The host reads an envelope: the other requests stay the ones they were. *)
LEMMA OthersPending ==
  ASSUME PaneInv, toHost # <<>>,
         \/ pending' = pending
         \/ Numbered(Head(toHost)) /\ pending' = Completed(Head(toHost).id),
         NEW e \in ToSet(Tail(toHost)) \union ({serving} \ {Idle}), e.what = "answer"
  PROVE  pending'[e.id] = pending[e.id]
  <1> DEFINE h == Head(toHost)
             t == Tail(toHost)
  <1>1. TypeOK /\ IdsDistinct /\ Answering /\ toHost \in Seq(Envelopes)
    BY DEF PaneInv, PipeInv, TypeOK, PipeTyped
  <1>2. /\ Numbered(h) => h.id \in IdsOf(toHost) /\ h.id \notin IdsOf(t)
        /\ ToSet(t) \subseteq ToSet(toHost)
    BY <1>1, IdsBeheaded, Beheaded DEF IdsDistinct
  <1> HIDE DEF h, t
  <1>3. e.id \in DOMAIN pending
    BY <1>1, <1>2 DEF Answering, t
  <1>4. Numbered(h) => e.id # h.id
    <2>1. CASE e \in ToSet(t)
      <3>1. e.id \in IdsOf(t)
        BY <2>1 DEF IdsOf, Numbered, Correlated
      <3> QED
        BY <1>2, <3>1
    <2>2. CASE e = serving /\ serving # Idle
      BY <1>1, <1>2, <2>2 DEF IdsDistinct, ServingIds
    <2> QED
      BY <2>1, <2>2 DEF t
  <1> QED
    BY <1>3, <1>4 DEF Completed, h

(* An envelope is read: what backed a key by other means backs it still.   *)
LEMMA BackedByOthers ==
  ASSUME PaneInv, toHost # <<>>, toHost' = Tail(toHost),
         UNCHANGED <<toClient, serving, working, owed>>, cache'.outbox = cache.outbox,
         \/ pending' = pending
         \/ Numbered(Head(toHost)) /\ pending' = Completed(Head(toHost).id),
         NEW k \in Keys, Backed(k), ~ Carries(Head(toHost), k), Head(toHost) # Invalidate(k)
  PROVE  Backed(k)'
  <1>1. ASSUME NEW e \in ToSet(Tail(toHost)) \union ({serving} \ {Idle}), Carries(e, k)
        PROVE  Carries(e, k)'
    BY <1>1, OthersPending DEF Carries
  <1>2. ToSet(toHost) = {Head(toHost)} \union ToSet(toHost')
    BY Beheaded DEF PaneInv, TypeOK, PipeTyped
  <1>3. CASE serving # Idle /\ Carries(serving, k)
    BY <1>1, <1>3 DEF Backed, Carries
  <1>4. CASE \E e \in ToSet(toHost) : Carries(e, k)
    BY <1>1, <1>2, <1>4 DEF Backed
  <1>5. CASE \/ k \in ToSet(cache.outbox)
             \/ \E m \in ToSet(toClient) : m.what = "query" /\ m.key = k
             \/ k \in working \/ k \in owed \/ Invalidate(k) \in ToSet(toHost)
    BY <1>2, <1>5 DEF Backed
  <1> QED
    BY <1>3, <1>4, <1>5 DEF Backed

(* Whatever the host applies, the marks it leaves are backed without it.   *)
LEMMA ApplyBacked ==
  ASSUME PaneInv, BackedInv, ApplyNext
  PROVE  BackedInv'
  <1> DEFINE e == Head(toHost)
  <1>1. /\ TypeOK /\ cache \in CacheType /\ now \in Nat /\ left \in 0 .. Len(toHost)
        /\ toHost \in Seq(Envelopes)
    BY DEF PaneInv, TypeOK, MainTyped, PipeTyped
  <1>2. /\ toHost' = Tail(toHost) /\ left > 0
        /\ UNCHANGED <<toClient, alive, serving, working, owed>>
        /\ ApplyAnswer(e) \/ ApplyMutated(e) \/ ApplyInvalidate(e) \/ ApplySetScript(e)
    BY DEF ApplyNext, client
  <1>3. toHost # <<>>
    BY <1>1, <1>2, NoElements
  <1>4. e \in Envelopes /\ e \in ToSet(toHost)
    BY <1>1, <1>3, Beheaded
  <1> HIDE DEF e
  <1>5. SUFFICES ASSUME alive, NEW k \in cache'.requested
                 PROVE  Backed(k)'
    BY <1>2 DEF BackedInv
  <1>6. ASSUME k \in cache.requested, cache'.outbox = cache.outbox,
               \/ pending' = pending
               \/ Numbered(e) /\ pending' = Completed(e.id),
               ~ Carries(e, k), e # Invalidate(k)
        PROVE  Backed(k)'
    BY <1>1, <1>2, <1>3, <1>5, <1>6, BackedByOthers DEF BackedInv, CacheType, e
  <1>7. CASE ApplyAnswer(e)
    <2>1. e.what = "answer" /\ pending' = Completed(e.id) /\ Numbered(e) /\ e # Invalidate(k)
      BY <1>7 DEF ApplyAnswer, Numbered, Correlated, Invalidate
    <2>2. CASE e.answer = Working
      BY <1>5, <1>6, <1>7, <2>1, <2>2 DEF ApplyAnswer, Carries
    <2>3. CASE e.answer # Working
      <3>1. /\ pending[e.id] \in Keys /\ e.answer \in Answers /\ e.policy \in PolicyType
            /\ Forever \in PolicyType
        BY <1>1, <1>4, <2>1, <2>3, Kinds DEF TypeOK, Answering, Forever, PolicyType
      <3>2. PICK policy \in PolicyType : Store(pending[e.id], e.answer, policy)
        BY <1>7, <2>3, <3>1 DEF ApplyAnswer
      <3>3. /\ cache'.outbox = cache.outbox
            /\ cache'.requested = cache.requested \ {pending[e.id]}
        <4> DEFINE k0 == pending[e.id]
                   resolved == Resolved(cache, k0, e.answer, policy, now)
        <4>1. k0 \in Keys /\ cache' = resolved
          BY <3>1, <3>2 DEF Store
        <4> HIDE DEF k0
        <4>2. resolved.outbox = cache.outbox /\ resolved.requested = cache.requested \ {k0}
          BY <1>1, <4>1 DEF Resolved, CacheType
        <4> QED
          BY <4>1, <4>2 DEF k0
      <3> QED
        BY <1>5, <1>6, <2>1, <3>3 DEF Carries
    <2> QED
      BY <2>2, <2>3
  <1>8. CASE ApplyMutated(e)
    BY <1>5, <1>6, <1>8 DEF ApplyMutated, Carries, Invalidate, Numbered, Correlated
  <1>9. CASE ApplyInvalidate(e)
    <2>1. cache' = Invalidated(cache, {e.key}) /\ e.what = "invalidate" /\ pending' = pending
      BY <1>9 DEF ApplyInvalidate
    <2>2. cache'.requested = cache.requested \ {e.key} /\ cache'.outbox = cache.outbox
      BY <1>1, <2>1, InvalidatedFacts
    <2> QED
      BY <1>5, <1>6, <2>1, <2>2 DEF Carries, Invalidate
  <1>10. CASE ApplySetScript(e)
    BY <1>5, <1>6, <1>10 DEF ApplySetScript, Carries, Invalidate
  <1> QED
    BY <1>2, <1>7, <1>8, <1>9, <1>10

(* The next queued key becomes a request, which backs it instead.          *)
LEMMA FlushBacked ==
  ASSUME TypeOK, BackedInv, FlushNext
  PROVE  BackedInv'
  <1> DEFINE q == cache.outbox
             m == Query(FreshId, Head(q))
  <1>1. /\ q \in Seq(Keys) /\ q # <<>> /\ FreshIds # {} /\ Send(FreshId, Head(q), m)
        /\ cache' = [cache EXCEPT !.outbox = Tail(@)] /\ UNCHANGED <<toHost, client>>
        /\ cache \in CacheType
    BY DEF FlushNext, TypeOK, CacheType
  <1>2. cache'.requested = cache.requested /\ cache'.outbox = Tail(q)
    BY <1>1 DEF CacheType
  <1>3. ToSet(q) = {Head(q)} \union ToSet(cache'.outbox) /\ Head(q) \in Keys
    BY <1>1, <1>2, Beheaded
  <1>4. FreshId \in Ids /\ FreshId \notin DOMAIN pending
    BY <1>1, FreshIdFree
  <1>5. m \in Requests /\ m.what = "query" /\ m.key = Head(q)
    BY <1>3, <1>4 DEF Query, Requests
  <1> HIDE DEF m, q
  <1>6. \A id \in DOMAIN pending : pending'[id] = pending[id]
    BY <1>1, <1>4 DEF Send
  <1>7. UNCHANGED <<alive, serving, working, owed, toHost>>
    BY <1>1 DEF client
  <1>8. SUFFICES ASSUME alive, NEW k \in cache.requested
                 PROVE  Backed(k)'
    BY <1>2, <1>7 DEF BackedInv
  <1>9. ToSet(toClient') = ToSet(toClient) \union {m}
    BY <1>1, <1>5, <1>8, Appended DEF Send, TypeOK, PipeTyped
  <1>10. k \in Keys /\ Backed(k)
    BY <1>1, <1>8 DEF BackedInv, CacheType
  <1>11. CASE k = Head(q)
    BY <1>5, <1>9, <1>11 DEF Backed
  <1>12. CASE k # Head(q) /\ k \in ToSet(q)
    BY <1>3, <1>12 DEF Backed
  <1>13. CASE k \notin ToSet(q)
    <2>1. ASSUME NEW e \in ToSet(toHost) \union ({serving} \ {Idle}), Carries(e, k)
          PROVE  Carries(e, k)'
      BY <1>6, <2>1 DEF Carries, TypeOK, Answering
    <2>2. CASE serving # Idle /\ Carries(serving, k)
      BY <1>7, <2>1, <2>2 DEF Backed, Carries
    <2>3. CASE \E e \in ToSet(toHost) : Carries(e, k)
      BY <1>7, <2>1, <2>3 DEF Backed
    <2>4. CASE \/ \E x \in ToSet(toClient) : x.what = "query" /\ x.key = k
               \/ k \in working \/ k \in owed \/ Invalidate(k) \in ToSet(toHost)
      BY <1>7, <1>9, <2>4 DEF Backed
    <2> QED
      BY <1>10, <1>13, <2>2, <2>3, <2>4 DEF Backed, q
  <1> QED
    BY <1>11, <1>12, <1>13

(* The serve loop takes a request: a query's answer backs its key, or the  *)
(* work behind a "still loading" answer does.                              *)
LEMMA ServeBacked ==
  ASSUME PaneInv, BackedInv, serving = Idle, toClient # <<>>, toClient' = Tail(toClient),
         UNCHANGED <<cache, pending, toHost, alive>>,
         working \subseteq working', owed \subseteq owed',
         Head(toClient).what = "query" =>
           \/ Head(toClient).key \in working'
           \/ /\ serving' \in Responses /\ serving'.what = "answer"
              /\ serving'.answer # Working /\ serving'.id = Head(toClient).id
  PROVE  BackedInv'
  <1> DEFINE h == Head(toClient)
  <1>1. /\ TypeOK /\ cache \in CacheType /\ Asking /\ toClient \in Seq(Requests)
    BY DEF PaneInv, PipeInv, TypeOK, PipeTyped
  <1>2. ToSet(toClient) = {h} \union ToSet(toClient')
    BY <1>1, Beheaded
  <1>3. h.what = "query" => pending[h.id] = h.key
    BY <1>2 DEF PaneInv, PipeInv, Asking
  <1> HIDE DEF h
  <1>4. SUFFICES ASSUME alive, NEW k \in cache.requested
                 PROVE  Backed(k)'
    BY DEF BackedInv
  <1>5. Backed(k)
    BY <1>4 DEF BackedInv
  <1>6. CASE h.what = "query" /\ h.key = k
    <2>1. CASE k \in working'
      BY <2>1 DEF Backed
    <2>2. CASE k \notin working'
      <3>1. serving' # Idle /\ Carries(serving, k)'
        BY <1>3, <1>6, <2>2, IdleAssumption DEF Carries, h
      <3> QED
        BY <3>1 DEF Backed
    <2> QED
      BY <2>1, <2>2
  <1>7. CASE \E m \in ToSet(toClient') : m.what = "query" /\ m.key = k
    BY <1>7 DEF Backed
  <1>8. CASE \E e \in ToSet(toHost) : Carries(e, k)
    BY <1>8 DEF Backed, Carries
  <1>9. CASE k \in ToSet(cache.outbox) \/ k \in working \/ k \in owed
             \/ Invalidate(k) \in ToSet(toHost)
    BY <1>9 DEF Backed
  <1> QED
    BY <1>2, <1>5, <1>6, <1>7, <1>8, <1>9 DEF Backed

(* Every step of every actor keeps what is in flight backed.               *)
LEMMA NextBacked ==
  ASSUME PaneInv, BackedInv, [Next]_vars
  PROVE  BackedInv'
  <1>1. /\ TypeOK /\ cache \in CacheType /\ PipeTyped /\ ClientTyped
        /\ toHost \in Seq(Envelopes)
    BY DEF PaneInv, TypeOK, PipeTyped
  <1>2. ASSUME UNCHANGED <<cache, alive, serving>>,
               \A id \in DOMAIN pending : pending'[id] = pending[id],
               ToSet(toClient) \subseteq ToSet(toClient'), ToSet(toHost) \subseteq ToSet(toHost'),
               working \subseteq working', owed \subseteq owed'
        PROVE  BackedInv'
    BY <1>1, <1>2, BackedKept DEF BackedInv, CacheType
  <1>3. ASSUME Tick
        PROVE  BackedInv'
    <2>1. UNCHANGED <<pending, toClient, toHost, client>>
      BY <1>3 DEF Tick
    <2>2. CASE SkipFrame \/ TickAsleep
      BY <1>2, <2>1, <2>2 DEF SkipFrame, TickAsleep, client
    <2> QED
      BY <1>1, <1>3, <2>1, <2>2, RunFrameBacked DEF Tick
  <1>4. CASE ApplyNext
    BY <1>4, ApplyBacked
  <1>5. CASE FlushNext
    BY <1>1, <1>5, FlushBacked
  <1>6. CASE StartMutate
    <2>1. /\ FreshId \in Ids \ DOMAIN pending
          /\ Send(FreshId, Mutation, Mutate(FreshId)) /\ UNCHANGED <<cache, toHost, client>>
      BY <1>6, FreshIdFree DEF StartMutate
    <2>2. Mutate(FreshId) \in Requests
      BY <2>1 DEF Mutate, Requests
    <2>3. ToSet(toClient) \subseteq ToSet(toClient')
      BY <1>1, <2>1, <2>2, Appended DEF Send, PipeTyped
    <2>4. \A id \in DOMAIN pending : pending'[id] = pending[id]
      BY <2>1 DEF Send
    <2> QED
      BY <1>2, <2>1, <2>3, <2>4 DEF client
  <1>7. ASSUME NEW busy \in BOOLEAN, NEW policy \in Policies, ServeQuery(busy, policy)
        PROVE  BackedInv'
    <2> DEFINE h == Head(toClient)
    <2>1. /\ serving = Idle /\ toClient # <<>> /\ h.what = "query"
          /\ toClient' = Tail(toClient)
          /\ UNCHANGED <<cache, pending, toHost, alive, owed>>
          /\ serving' = Answer(h.id, IF busy THEN Working ELSE DataAnswer(h.key), policy)
          /\ working' = IF busy THEN working \union {h.key} ELSE working
      BY <1>7 DEF ServeQuery, Take
    <2>2. h \in Requests /\ h.id \in Ids /\ h.key \in Keys
      BY <1>1, <2>1, Beheaded, Kinds DEF PipeTyped
    <2> HIDE DEF h
    <2>3. DataAnswer(h.key) \in Answers /\ DataAnswer(h.key) # Working
      BY <1>1, <2>2, PaneAssumption DEF DataAnswer, Answers, ClientTyped
    <2>4. ~ busy => /\ serving' \in Responses /\ serving'.what = "answer"
                    /\ serving'.answer # Working /\ serving'.id = h.id
      BY <2>1, <2>2, <2>3, PaneAssumption DEF Answer, Responses
    <2>5. working \subseteq working' /\ (busy => h.key \in working')
      BY <2>1
    <2> QED
      BY <2>1, <2>4, <2>5, ServeBacked DEF h
  <1>8. ASSUME NEW edited \in SUBSET Keys, ServeMutate(edited)
        PROVE  BackedInv'
    <2>1. /\ serving = Idle /\ toClient # <<>> /\ Head(toClient).what = "mutate"
          /\ toClient' = Tail(toClient)
          /\ UNCHANGED <<cache, pending, toHost, alive, working>>
          /\ owed' = owed \union edited
      BY <1>8 DEF ServeMutate, Take
    <2> QED
      BY <2>1, ServeBacked
  <1>9. CASE Respond
    <2>1. /\ serving # Idle /\ toHost' = Append(toHost, serving)
          /\ UNCHANGED <<cache, pending, toClient, alive, working, owed>>
      BY <1>9 DEF Respond
    <2>2. ToSet(toHost') = ToSet(toHost) \union {serving}
      BY <1>1, <2>1, PipeFacts, Kinds, Appended
    <2>3. ASSUME NEW k \in Keys, Backed(k)
          PROVE  Backed(k)'
      <3>1. \A e : Carries(e, k)' <=> Carries(e, k)
        BY <2>1 DEF Carries
      <3> QED
        BY <2>1, <2>2, <2>3, <3>1 DEF Backed
    <2> QED
      BY <1>1, <2>1, <2>3 DEF BackedInv, CacheType
  <1>10. ASSUME NEW j \in Keys, WorkDone(j) \/ PushInvalidate(j)
         PROVE  BackedInv'
    <2>1. /\ UNCHANGED <<cache, pending, toClient, alive, serving>>
          /\ ToSet(toHost) \subseteq ToSet(toHost')
          /\ working \ {j} \subseteq working' /\ owed \ {j} \subseteq owed'
          /\ working' = working \/ j \in owed'
          /\ owed \subseteq owed' \/ Invalidate(j) \in ToSet(toHost')
      <3>1. CASE WorkDone(j)
        BY <3>1 DEF WorkDone
      <3>2. CASE PushInvalidate(j)
        <4>1. Invalidate(j) \in Envelopes
          BY DEF Invalidate, Envelopes
        <4>2. ToSet(toHost') = ToSet(toHost) \union {Invalidate(j)}
          BY <1>1, <3>2, <4>1, Appended DEF PushInvalidate
        <4> QED
          BY <3>2, <4>2 DEF PushInvalidate
      <3> QED
        BY <1>10, <3>1, <3>2
    <2>2. ASSUME NEW k \in Keys, Backed(k)
          PROVE  Backed(k)'
      <3>1. \A e : Carries(e, k)' <=> Carries(e, k)
        BY <2>1 DEF Carries
      <3>2. CASE k = j /\ (k \in working \/ k \in owed)
        BY <2>1, <3>2 DEF Backed
      <3>3. CASE k # j /\ (k \in working \/ k \in owed)
        BY <2>1, <3>3 DEF Backed
      <3>4. CASE k \notin working /\ k \notin owed
        BY <2>1, <2>2, <3>1, <3>4 DEF Backed
      <3> QED
        BY <3>2, <3>3, <3>4
    <2> QED
      BY <1>1, <2>1, <2>2 DEF BackedInv, CacheType
  <1>11. ASSUME NEW compiles \in BOOLEAN, PushScript(compiles)
         PROVE  BackedInv'
    <2>1. SetScript(compiles) \in Envelopes
      BY DEF SetScript, Envelopes
    <2>2. /\ ToSet(toHost') = ToSet(toHost) \union {SetScript(compiles)}
          /\ UNCHANGED <<cache, pending, toClient, client>>
      BY <1>1, <1>11, <2>1, Appended DEF PushScript
    <2> QED
      BY <1>2, <2>2 DEF client
  <1>12. CASE ClientExits
    BY <1>12 DEF ClientExits, BackedInv
  <1>13. ASSUME NEW k \in Keys, DataChanges(k)
         PROVE  BackedInv'
    BY <1>2, <1>13 DEF DataChanges
  <1>14. CASE \/ StartPump \/ StartFlush \/ EndPump \/ AwaitDrain \/ AwaitOver
              \/ Input \/ FallAsleep \/ TimePasses \/ UNCHANGED vars
    <2>1. UNCHANGED <<cache, pending, toClient, toHost, client>>
      BY <1>14 DEF StartPump, StartFlush, EndPump, AwaitDrain, AwaitOver, Input, FallAsleep,
                   TimePasses, vars
    <2> QED
      BY <1>2, <2>1 DEF client
  <1>15. CASE ServeLoop \/ Pushes \/ Slow \/ Edit \/ Change \/ Script
    BY <1>7, <1>8, <1>9, <1>10, <1>11, <1>13, <1>15
    DEF ServeLoop, Pushes, Slow, Edit, Change, Script
  <1> QED
    BY <1>3, <1>4, <1>5, <1>6, <1>12, <1>14, <1>15 DEF Next, Steps, Events, Pump, Await

(* What backs a key is a way to an answer or an invalidate for it.         *)
LEMMA BackedInFlight ==
  ASSUME PaneInv, BackedInv
  PROVE  InFlightBacked
  <1>1. TypeOK /\ Asking /\ toClient \in Seq(Requests) /\ toHost \in Seq(Envelopes)
    BY DEF PaneInv, PipeInv, TypeOK, PipeTyped
  <1> SUFFICES ASSUME alive, NEW k \in cache.requested
               PROVE  \/ k \in ToSet(cache.outbox)
                      \/ \E id \in DOMAIN pending : pending[id] = k /\ OnItsWay(id)
                      \/ k \in working \/ InvalidateComing(k)
    BY DEF InFlightBacked
  <1>2. Backed(k)
    BY DEF BackedInv
  <1>3. ASSUME NEW m \in ToSet(toClient), m.what = "query", m.key = k
        PROVE  \E id \in DOMAIN pending : pending[id] = k /\ OnItsWay(id)
    <2>1. PICK i \in DOMAIN toClient : toClient[i] = m
      BY DEF ToSet
    <2>2. m.id \in DOMAIN pending /\ pending[m.id] = k
      BY <1>1, <1>3 DEF Asking
    <2>3. OnItsWay(m.id)
      BY <1>3, <2>1 DEF OnItsWay, Correlated
    <2> QED
      BY <2>2, <2>3
  <1>4. ASSUME NEW e \in ToSet(toHost), Carries(e, k)
        PROVE  \E id \in DOMAIN pending : pending[id] = k /\ OnItsWay(id)
    <2>1. PICK i \in DOMAIN toHost : toHost[i] = e
      BY DEF ToSet
    <2>2. e.id \in DOMAIN pending /\ pending[e.id] = k
      BY <1>1, <1>4 DEF Carries, TypeOK, Answering
    <2>3. OnItsWay(e.id)
      BY <1>4, <2>1 DEF OnItsWay, Correlated, Carries
    <2> QED
      BY <2>2, <2>3
  <1>5. ASSUME serving # Idle, Carries(serving, k)
        PROVE  \E id \in DOMAIN pending : pending[id] = k /\ OnItsWay(id)
    <2>1. serving.id \in DOMAIN pending /\ pending[serving.id] = k
      BY <1>1, <1>5 DEF Carries, TypeOK, Answering
    <2> QED
      BY <1>5, <2>1 DEF OnItsWay
  <1>6. Invalidate(k) \in ToSet(toHost) \/ k \in owed => InvalidateComing(k)
    BY DEF ToSet, InvalidateComing
  <1> QED
    BY <1>2, <1>3, <1>4, <1>5, <1>6 DEF Backed

(* A key marked in flight is never forgotten while the client lives:       *)
(* nothing but an answer with a value or an error, or an invalidate, ever  *)
(* clears the mark, and one of them is always still to come, whether the   *)
(* request is queued, sent, served, answered "still loading" or pushed.    *)
THEOREM InFlightNeverForgotten == Spec => []InFlightBacked
  <1>1. Init => PaneInv
    BY InitPane
  <1>2. Init => BackedInv
    <2>1. Init => cache.requested = {}
      BY DEF Init, EmptyCache
    <2> QED
      BY <2>1 DEF BackedInv
  <1>3. PaneInv /\ [Next]_vars => PaneInv'
    BY NextPane
  <1>4. PaneInv /\ BackedInv /\ [Next]_vars => BackedInv'
    BY NextBacked
  <1>5. PaneInv /\ BackedInv => InFlightBacked
    BY BackedInFlight
  <1> QED
    BY <1>1, <1>2, <1>3, <1>4, <1>5, PTL DEF Spec

-----------------------------------------------------------------------------
(* A client without threads invalidates after it answers.                  *)

(* An envelope is read: what comes after the others comes after them still. *)
LEMMA AfterRead ==
  ASSUME NEW S, toHost \in Seq(S), toHost # <<>>, toHost' = Tail(toHost), owed' = owed, NEW k
  PROVE  /\ \A i \in DOMAIN toHost' : i + 1 \in DOMAIN toHost /\ toHost'[i] = toHost[i + 1]
         /\ \A i \in DOMAIN toHost' : InvalidateAfter(i + 1, k) => InvalidateAfter(i, k)'
         /\ InvalidateAfter(1, k) => InvalidateAfter(0, k)'
         /\ InvalidateAfter(0, k) /\ Head(toHost) # Invalidate(k) => InvalidateAfter(0, k)'
         /\ 1 \in DOMAIN toHost /\ toHost[1] = Head(toHost)
  <1>1. /\ Len(toHost) \in Nat /\ DOMAIN toHost = 1 .. Len(toHost) /\ Len(toHost) > 0
        /\ DOMAIN toHost' = 1 .. Len(toHost) - 1 /\ Head(toHost) = toHost[1]
        /\ \A i \in DOMAIN toHost' : toHost'[i] = toHost[i + 1]
    BY Beheaded
  <1>2. ASSUME NEW i \in Nat, NEW j \in DOMAIN toHost, j > i + 1, toHost[j] = Invalidate(k)
        PROVE  InvalidateAfter(i, k)'
    <2>1. j - 1 \in DOMAIN toHost' /\ j - 1 > i /\ (j - 1) + 1 = j
      BY <1>1, <1>2
    <2>2. toHost'[j - 1] = Invalidate(k)
      BY <1>1, <1>2, <2>1
    <2> QED
      BY <2>1, <2>2 DEF InvalidateAfter
  <1>3. \A i \in Nat : InvalidateAfter(i + 1, k) => InvalidateAfter(i, k)'
    BY <1>2 DEF InvalidateAfter
  <1>4. InvalidateAfter(0, k) /\ Head(toHost) # Invalidate(k) => InvalidateAfter(1, k)
    <2> SUFFICES ASSUME NEW j \in DOMAIN toHost, j > 0, toHost[j] = Invalidate(k),
                        Head(toHost) # Invalidate(k)
                 PROVE  j > 1
      BY DEF InvalidateAfter
    <2> QED
      BY <1>1
  <1>5. 0 \in Nat /\ 0 + 1 = 1 /\ 1 \in DOMAIN toHost
    BY <1>1
  <1>6. \A i \in DOMAIN toHost' : i \in Nat /\ i + 1 \in DOMAIN toHost
    BY <1>1
  <1>7. InvalidateAfter(1, k) => InvalidateAfter(0, k)'
    BY <1>3, <1>5
  <1> QED
    BY <1>1, <1>3, <1>4, <1>5, <1>6, <1>7

(* An envelope is written: the order of the others stands.                 *)
LEMMA AfterWritten ==
  ASSUME NEW S, toHost \in Seq(S), NEW e \in S, toHost' = Append(toHost, e), NEW k,
         \/ k \in owed => k \in owed'
         \/ e = Invalidate(k),
         NEW i \in 0 .. Len(toHost), InvalidateAfter(i, k)
  PROVE  InvalidateAfter(i, k)'
  <1>1. /\ Len(toHost) \in Nat /\ DOMAIN toHost' = 1 .. Len(toHost) + 1
        /\ DOMAIN toHost = 1 .. Len(toHost)
        /\ \A j \in DOMAIN toHost : toHost'[j] = toHost[j]
        /\ toHost'[Len(toHost) + 1] = e
    BY Appended
  <1>2. CASE e = Invalidate(k)
    <2>1. Len(toHost) + 1 \in DOMAIN toHost' /\ Len(toHost) + 1 > i
      BY <1>1
    <2> QED
      BY <1>1, <1>2, <2>1 DEF InvalidateAfter
  <1>3. CASE k \in owed => k \in owed'
    <2>1. DOMAIN toHost \subseteq DOMAIN toHost'
      BY <1>1
    <2> QED
      BY <1>1, <1>3, <2>1 DEF InvalidateAfter
  <1> QED
    BY <1>2, <1>3

(* Nothing is read, written or served, and what is changed is owed.        *)
LEMMA OrderKept ==
  ASSUME TypeOK, OrderInv, UNCHANGED <<toHost, serving, alive>>, owed \subseteq owed',
         \A id \in DOMAIN pending : pending'[id] = pending[id],
         \A k \in Keys : \/ k \in owed'
                         \/ /\ world'[k] = world[k]
                            /\ cache'.entries[k] \in {Missing, cache.entries[k]}
  PROVE  OrderInv'
  <1> SUFFICES ASSUME alive, NEW k \in Keys, k \notin owed'
               PROVE  /\ cache'.entries[k] # Missing /\ cache'.entries[k].answer.version < world'[k]
                           => InvalidateAfter(0, k)'
                      /\ \A i \in DOMAIN toHost : Outdated(toHost[i], k)' => InvalidateAfter(i, k)'
                      /\ serving # Idle => ~ Outdated(serving, k)'
    BY DEF OrderInv, InvalidateAfter
  <1>1. \A i : InvalidateAfter(i, k) => InvalidateAfter(i, k)'
    BY DEF InvalidateAfter
  <1>2. ASSUME NEW e \in ToSet(toHost) \union ({serving} \ {Idle}), Outdated(e, k)'
        PROVE  Outdated(e, k)
    BY <1>2 DEF Outdated, Carries, TypeOK, Answering
  <1>3. \A i \in DOMAIN toHost : Outdated(toHost[i], k)' => Outdated(toHost[i], k)
    <2> SUFFICES ASSUME NEW i \in DOMAIN toHost, Outdated(toHost[i], k)'
                 PROVE  Outdated(toHost[i], k)
      OBVIOUS
    <2>1. toHost[i] \in ToSet(toHost)
      BY DEF ToSet
    <2>2. Outdated(toHost[i], k)' <=> /\ toHost[i].what = "answer" /\ toHost[i].answer # Working
                                      /\ pending'[toHost[i].id] = k
                                      /\ toHost[i].answer.version < world'[k]
      BY DEF Outdated, Carries
    <2> QED
      BY <2>1, <2>2 DEF Outdated, Carries, TypeOK, Answering
  <1>4. serving # Idle /\ Outdated(serving, k)' => Outdated(serving, k)
    BY <1>2 DEF Outdated, Carries
  <1> QED
    BY <1>1, <1>3, <1>4 DEF OrderInv

(* The host applies an envelope.                                           *)
LEMMA ApplyOrder ==
  ASSUME PaneInv, OrderInv, ApplyNext
  PROVE  OrderInv'
  <1> DEFINE e == Head(toHost)
  <1>1. /\ TypeOK /\ cache \in CacheType /\ now \in Nat /\ left \in 0 .. Len(toHost)
        /\ toHost \in Seq(Envelopes)
    BY DEF PaneInv, TypeOK, MainTyped, PipeTyped
  <1>2. /\ toHost' = Tail(toHost) /\ left > 0
        /\ UNCHANGED <<toClient, alive, serving, working, owed, world>>
        /\ ApplyAnswer(e) \/ ApplyMutated(e) \/ ApplyInvalidate(e) \/ ApplySetScript(e)
    BY DEF ApplyNext, client
  <1>3. toHost # <<>>
    BY <1>1, <1>2, NoElements
  <1>4. e \in Envelopes /\ e \in ToSet(toHost)
    BY <1>1, <1>3, Beheaded
  <1>5. /\ pending' = pending \/ (Numbered(e) /\ pending' = Completed(e.id))
    BY <1>2 DEF ApplyAnswer, ApplyMutated, ApplyInvalidate, ApplySetScript, Numbered, Correlated
  <1>6. \A x \in ToSet(Tail(toHost)) \union ({serving} \ {Idle}) :
          x.what = "answer" => pending'[x.id] = pending[x.id]
    BY <1>3, <1>5, OthersPending
  <1> HIDE DEF e
  <1> SUFFICES ASSUME alive, NEW k \in Keys
               PROVE  /\ cache'.entries[k] # Missing /\ cache'.entries[k].answer.version < world[k]
                           => InvalidateAfter(0, k)'
                      /\ \A i \in DOMAIN toHost' : Outdated(toHost[i], k)' => InvalidateAfter(i, k)'
                      /\ serving # Idle /\ Outdated(serving, k)' => k \in owed
    BY <1>2 DEF OrderInv
  <1>7. \A i \in DOMAIN toHost' : Outdated(toHost[i], k)' => InvalidateAfter(i, k)'
    <2>1. /\ \A i \in DOMAIN toHost' : i + 1 \in DOMAIN toHost /\ toHost'[i] = toHost[i + 1]
          /\ \A i \in DOMAIN toHost' : InvalidateAfter(i + 1, k) => InvalidateAfter(i, k)'
      <3>1. toHost' = Tail(toHost) /\ owed' = owed
        BY <1>2
      <3> QED
        BY <1>1, <1>3, <3>1, AfterRead, Zenon
    <2> SUFFICES ASSUME NEW i \in DOMAIN toHost', Outdated(toHost[i], k)'
                 PROVE  InvalidateAfter(i, k)'
      OBVIOUS
    <2>2. /\ i + 1 \in DOMAIN toHost /\ toHost'[i] = toHost[i + 1]
          /\ InvalidateAfter(i + 1, k) => InvalidateAfter(i, k)'
      BY <2>1, Zenon
    <2>3. toHost'[i] \in ToSet(Tail(toHost))
      BY <1>2 DEF ToSet
    <2>4. /\ toHost'[i].what = "answer" /\ toHost'[i].answer # Working
          /\ pending'[toHost'[i].id] = k /\ toHost'[i].answer.version < world[k]
      BY <1>2 DEF Outdated, Carries
    <2>5. Outdated(toHost[i + 1], k)
      BY <1>6, <2>2, <2>3, <2>4 DEF Outdated, Carries
    <2> QED
      BY <2>2, <2>5 DEF OrderInv
  <1>8. serving # Idle /\ Outdated(serving, k)' => k \in owed
    BY <1>2, <1>6 DEF Outdated, Carries, OrderInv
  <1>9. ASSUME cache'.entries[k] \in {Missing, cache.entries[k]},
               e # Invalidate(k) \/ cache'.entries[k] = Missing
        PROVE  cache'.entries[k] # Missing /\ cache'.entries[k].answer.version < world[k]
                 => InvalidateAfter(0, k)'
    BY <1>1, <1>2, <1>3, <1>9, AfterRead DEF OrderInv, e
  <1>10. CASE ApplyAnswer(e)
    <2>1. e.what = "answer" /\ e # Invalidate(k)
      BY <1>10 DEF ApplyAnswer, Invalidate
    <2>2. CASE e.answer = Working
      BY <1>7, <1>8, <1>9, <1>10, <2>1, <2>2 DEF ApplyAnswer
    <2>3. CASE e.answer # Working
      <3> DEFINE k0 == pending[e.id]
      <3>1. /\ k0 \in Keys /\ e.answer \in Answers /\ e.policy \in PolicyType
            /\ Forever \in PolicyType
        BY <1>1, <1>4, <2>1, <2>3, Kinds DEF TypeOK, Answering, Forever, PolicyType
      <3>2. PICK policy \in PolicyType : cache' = Resolved(cache, k0, e.answer, policy, now)
        BY <1>10, <2>3, <3>1 DEF ApplyAnswer, Store
      <3> HIDE DEF k0
      <3>3. cache'.entries = [cache.entries EXCEPT ![k0] = [answer |-> e.answer,
                                                            policy |-> policy, at |-> now]]
        BY <1>1, <3>1, <3>2 DEF Resolved, CacheType
      <3>4. CASE k # k0
        BY <1>1, <1>7, <1>8, <1>9, <2>1, <3>3, <3>4 DEF CacheType
      <3>5. CASE k = k0
        <4>1. cache'.entries[k].answer = e.answer
          BY <1>1, <3>1, <3>3, <3>5 DEF CacheType
        <4>2. e.answer.version < world[k] => Outdated(e, k)
          BY <2>1, <2>3, <3>5 DEF Outdated, Carries, k0
        <4>3. Outdated(e, k) => InvalidateAfter(1, k)
          BY <1>1, <1>2, <1>3, AfterRead DEF OrderInv, e
        <4>4. InvalidateAfter(1, k) => InvalidateAfter(0, k)'
          BY <1>1, <1>2, <1>3, AfterRead
        <4> QED
          BY <1>7, <1>8, <4>1, <4>2, <4>3, <4>4
      <3> QED
        BY <3>4, <3>5
    <2> QED
      BY <2>2, <2>3
  <1>11. CASE ApplyMutated(e) \/ ApplySetScript(e)
    BY <1>7, <1>8, <1>9, <1>11 DEF ApplyMutated, ApplySetScript, Invalidate
  <1>12. CASE ApplyInvalidate(e)
    <2>1. cache' = Invalidated(cache, {e.key}) /\ e.what = "invalidate"
      BY <1>12 DEF ApplyInvalidate
    <2>2. cache'.entries[k] = IF k = e.key THEN Missing ELSE cache.entries[k]
      BY <1>1, <2>1 DEF Invalidated, CacheType
    <2>3. k # e.key => e # Invalidate(k)
      BY DEF Invalidate
    <2> QED
      BY <1>7, <1>8, <1>9, <2>2, <2>3
  <1> QED
    BY <1>2, <1>10, <1>11, <1>12

(* The serve loop, one client thread, answers from the data as it is.      *)
LEMMA ServeOrder ==
  ASSUME PaneInv, OrderInv, serving = Idle, UNCHANGED <<cache, pending, toHost, alive>>,
         owed \subseteq owed', serving' # Idle,
         \A k \in Keys : k \in owed' \/ (world'[k] = world[k] /\ ~ Outdated(serving, k)')
  PROVE  OrderInv'
  <1> SUFFICES ASSUME alive, NEW k \in Keys, k \notin owed'
               PROVE  /\ cache.entries[k] # Missing /\ cache.entries[k].answer.version < world'[k]
                           => InvalidateAfter(0, k)'
                      /\ \A i \in DOMAIN toHost : Outdated(toHost[i], k)' => InvalidateAfter(i, k)'
                      /\ ~ Outdated(serving, k)'
    BY DEF OrderInv, InvalidateAfter
  <1>1. \A i : InvalidateAfter(i, k) => InvalidateAfter(i, k)'
    BY DEF InvalidateAfter
  <1>2. world'[k] = world[k] /\ ~ Outdated(serving, k)'
    OBVIOUS
  <1>3. \A i \in DOMAIN toHost : Outdated(toHost[i], k)' => Outdated(toHost[i], k)
    BY <1>2 DEF Outdated, Carries
  <1> QED
    BY <1>1, <1>2, <1>3 DEF OrderInv

(* A run keeps an entry or drops it.                                       *)
LEMMA RunFrameEntries ==
  ASSUME cache \in CacheType, NEW ks \in SUBSET Keys, NEW dropped \in SUBSET Keys,
         NEW before \in BOOLEAN, NEW order, RunFrame(ks, dropped, before, order), NEW k \in Keys
  PROVE  cache'.entries[k] \in {Missing, cache.entries[k]}
  <1>1. \A c : LookedUp(c, ks, order, now).entries[k] \in {Missing, c.entries[k]}
    BY DEF LookedUp
  <1>2. Invalidated(cache, dropped).entries[k] \in {Missing, cache.entries[k]}
    BY DEF Invalidated, CacheType
  <1>3. CASE before
    BY <1>1, <1>2, <1>3 DEF RunFrame
  <1>4. CASE ~ before
    <2> DEFINE looked == LookedUp(cache, ks, order, now)
    <2>1. IsFiniteSet(ks) /\ order \in SetToSeqs(Needed(cache, ks, now))
          /\ cache' = Invalidated(looked, dropped)
      BY <1>4 DEF RunFrame
    <2>2. looked \in CacheType /\ looked.entries[k] \in {Missing, cache.entries[k]}
      BY <1>1, <2>1, LookedUpFacts
    <2> HIDE DEF looked
    <2>3. Invalidated(looked, dropped).entries[k] \in {Missing, looked.entries[k]}
      BY <2>2 DEF Invalidated, CacheType
    <2> QED
      BY <2>1, <2>2, <2>3
  <1> QED
    BY <1>3, <1>4

(* Every step of every actor keeps the order, when only the serve loop     *)
(* writes.                                                                 *)
LEMMA NextOrder ==
  ASSUME ~ Threaded, PaneInv, OrderInv, [Next]_vars
  PROVE  OrderInv'
  <1>1. /\ TypeOK /\ cache \in CacheType /\ PipeTyped /\ ClientTyped /\ Asking
        /\ toHost \in Seq(Envelopes) /\ Len(toHost) \in Nat
        /\ DOMAIN toHost = 1 .. Len(toHost)
    BY LenProperties DEF PaneInv, PipeInv, TypeOK, PipeTyped
  <1>2. ASSUME UNCHANGED <<toHost, client>>,
               \A id \in DOMAIN pending : pending'[id] = pending[id],
               \A k \in Keys : cache'.entries[k] \in {Missing, cache.entries[k]}
        PROVE  OrderInv'
    BY <1>1, <1>2, OrderKept DEF client
  <1>3. CASE Tick
    <2>1. UNCHANGED <<pending, toClient, toHost, client>>
      BY <1>3 DEF Tick
    <2>2. CASE SkipFrame \/ TickAsleep
      BY <1>2, <2>1, <2>2 DEF SkipFrame, TickAsleep
    <2>3. ASSUME NEW ks \in SUBSET Keys, NEW dropped \in SUBSET Keys, NEW before \in BOOLEAN,
                 NEW order, RunFrame(ks, dropped, before, order), NEW k \in Keys
          PROVE  cache'.entries[k] \in {Missing, cache.entries[k]}
      BY <1>1, <2>3, RunFrameEntries
    <2>4. CASE \E ks, dropped \in SUBSET Keys, before \in BOOLEAN :
                 \E order \in SetToAllKPermutations(ks) : RunFrame(ks, dropped, before, order)
      BY <1>2, <2>1, <2>3, <2>4
    <2> QED
      BY <1>3, <2>2, <2>4 DEF Tick
  <1>4. CASE ApplyNext
    BY <1>4, ApplyOrder
  <1>5. CASE FlushNext \/ StartMutate
    <2>1. /\ UNCHANGED <<toHost, client>> /\ cache'.entries = cache.entries
          /\ FreshId \in Ids \ DOMAIN pending
      BY <1>1, <1>5, FreshIdFree DEF FlushNext, StartMutate, CacheType
    <2>2. \E request, message : Send(FreshId, request, message)
      BY <1>5 DEF FlushNext, StartMutate
    <2>3. \A id \in DOMAIN pending : pending'[id] = pending[id]
      BY <2>1, <2>2 DEF Send
    <2> QED
      BY <1>2, <2>1, <2>3
  <1>6. ASSUME NEW busy \in BOOLEAN, NEW policy \in Policies, ServeQuery(busy, policy)
        PROVE  OrderInv'
    <2> DEFINE h == Head(toClient)
    <2>1. /\ serving = Idle /\ toClient # <<>> /\ h.what = "query"
          /\ UNCHANGED <<cache, pending, toHost, alive, owed, world>>
          /\ serving' = Answer(h.id, IF busy THEN Working ELSE DataAnswer(h.key), policy)
      BY <1>6 DEF ServeQuery, Take
    <2>2. h \in Requests /\ h.id \in Ids /\ h.key \in Keys /\ h \in ToSet(toClient)
      BY <1>1, <2>1, Beheaded, Kinds DEF PipeTyped
    <2>3. pending[h.id] = h.key
      BY <1>1, <2>1, <2>2 DEF Asking
    <2> HIDE DEF h
    <2>4. world[h.key] \in Nat
      BY <1>1, <2>2 DEF ClientTyped
    <2>5. DataAnswer(h.key) \in Answers /\ DataAnswer(h.key).version = world[h.key]
      BY <2>4 DEF DataAnswer, Answers
    <2>6. serving' \in Responses
      BY <2>1, <2>2, <2>5, PaneAssumption DEF Answer, Responses
    <2>7. ASSUME NEW k \in Keys
          PROVE  ~ Outdated(serving, k)'
      <3>1. /\ serving'.id = h.id
            /\ serving'.answer = IF busy THEN Working ELSE DataAnswer(h.key)
        BY <2>1 DEF Answer
      <3> QED
        BY <2>1, <2>3, <2>4, <2>5, <3>1 DEF Outdated, Carries
    <2> QED
      BY <2>1, <2>6, <2>7, IdleAssumption, ServeOrder
  <1>7. ASSUME NEW edited \in SUBSET Keys, ServeMutate(edited)
        PROVE  OrderInv'
    <2>1. /\ serving = Idle /\ toClient # <<>>
          /\ UNCHANGED <<cache, pending, toHost, alive>>
          /\ serving' = Mutated(Head(toClient).id)
          /\ world' = [k \in Keys |-> IF k \in edited THEN world[k] + 1 ELSE world[k]]
          /\ owed' = owed \union edited
      BY <1>7 DEF ServeMutate, Take
    <2>2. Head(toClient).id \in Ids
      BY <1>1, <2>1, Beheaded, Kinds DEF PipeTyped
    <2>3. serving' \in Responses /\ serving'.what = "mutated"
      BY <2>1, <2>2 DEF Mutated, Responses
    <2>4. \A k : ~ Outdated(serving, k)'
      BY <2>3 DEF Outdated, Carries
    <2> QED
      BY <2>1, <2>3, <2>4, IdleAssumption, ServeOrder
  <1>8. ASSUME NEW j \in Keys, DataChanges(j) \/ WorkDone(j)
        PROVE  OrderInv'
    <2>1. /\ UNCHANGED <<cache, pending, toHost, serving, alive>>
          /\ owed' = owed \union {j}
          /\ \A k \in Keys : k = j \/ world'[k] = world[k]
      BY <1>1, <1>8 DEF DataChanges, WorkDone, ClientTyped
    <2> QED
      BY <1>1, <2>1, OrderKept
  <1>9. ASSUME NEW e \in Envelopes, toHost' = Append(toHost, e), serving' = Idle,
               UNCHANGED <<cache, pending, alive, world>>,
               \A k \in Keys : /\ (k \in owed => k \in owed') \/ e = Invalidate(k)
                               /\ Outdated(e, k) => k \in owed'
        PROVE  OrderInv'
    <2> SUFFICES ASSUME alive, NEW k \in Keys
                 PROVE  /\ cache.entries[k] # Missing /\ cache.entries[k].answer.version < world[k]
                             => InvalidateAfter(0, k)'
                        /\ \A i \in DOMAIN toHost' : Outdated(toHost[i], k)' => InvalidateAfter(i, k)'
      BY <1>9 DEF OrderInv
    <2>1. /\ DOMAIN toHost' = 1 .. Len(toHost) + 1 /\ toHost'[Len(toHost) + 1] = e
          /\ \A i \in DOMAIN toHost : toHost'[i] = toHost[i]
      BY <1>1, <1>9, Appended
    <2>2. \A i \in 0 .. Len(toHost) : InvalidateAfter(i, k) => InvalidateAfter(i, k)'
      <3>1. (k \in owed => k \in owed') \/ e = Invalidate(k)
        BY <1>9
      <3>2. toHost' = Append(toHost, e) /\ e \in Envelopes
        BY <1>9
      <3> QED
        BY <1>1, <3>1, <3>2, AfterWritten
    <2>3. \A i \in DOMAIN toHost' : Outdated(toHost[i], k)' <=> Outdated(toHost'[i], k)
      BY <1>9 DEF Outdated, Carries
    <2>4. ASSUME NEW i \in DOMAIN toHost', Outdated(toHost[i], k)'
          PROVE  InvalidateAfter(i, k)'
      <3>1. Outdated(toHost'[i], k)
        BY <2>3, <2>4
      <3>2. CASE i \in DOMAIN toHost
        <4>1. InvalidateAfter(i, k) /\ i \in 0 .. Len(toHost)
          BY <1>1, <2>1, <3>1, <3>2 DEF OrderInv
        <4> QED
          BY <2>2, <4>1
      <3>3. CASE i = Len(toHost) + 1
        <4>1. Outdated(e, k)
          BY <2>1, <3>1, <3>3
        <4>2. k \in owed'
          BY <1>9, <4>1
        <4> QED
          BY <4>2 DEF InvalidateAfter
      <3> QED
        BY <1>1, <2>1, <3>2, <3>3
    <2>5. 0 \in 0 .. Len(toHost)
      BY <1>1
    <2> QED
      BY <2>2, <2>4, <2>5 DEF OrderInv
  <1>10. CASE Respond
    <2>1. /\ serving # Idle /\ toHost' = Append(toHost, serving) /\ serving' = Idle
          /\ UNCHANGED <<cache, pending, alive, world, owed>>
      BY <1>10 DEF Respond
    <2>2. serving \in Envelopes
      BY <1>1, <2>1, PipeFacts, Kinds
    <2>3. CASE alive
      BY <1>9, <2>1, <2>2, <2>3 DEF OrderInv
    <2>4. CASE ~ alive
      BY <2>1, <2>4 DEF OrderInv
    <2> QED
      BY <2>3, <2>4
  <1>11. ASSUME NEW j \in Keys, PushInvalidate(j)
         PROVE  OrderInv'
    <2>1. /\ serving = Idle /\ toHost' = Append(toHost, Invalidate(j)) /\ owed' = owed \ {j}
          /\ UNCHANGED <<cache, pending, alive, world, serving>>
      BY <1>11 DEF PushInvalidate, MayPush
    <2>2. Invalidate(j) \in Envelopes /\ Invalidate(j).what # "answer"
      BY DEF Invalidate, Envelopes
    <2>3. \A k : ~ Outdated(Invalidate(j), k)
      BY <2>2 DEF Outdated, Carries
    <2> QED
      BY <1>9, <2>1, <2>2, <2>3
  <1>12. ASSUME NEW compiles \in BOOLEAN, PushScript(compiles)
         PROVE  OrderInv'
    <2> DEFINE e == SetScript(compiles)
    <2>1. /\ e \in Envelopes /\ e.what # "answer"
          /\ toHost' = Append(toHost, e) /\ UNCHANGED <<cache, pending, client>>
      BY <1>12 DEF PushScript, SetScript, Envelopes
    <2> HIDE DEF e
    <2>2. UNCHANGED <<alive, serving, world, owed>>
      BY <2>1 DEF client
    <2> SUFFICES ASSUME alive, NEW k \in Keys
                 PROVE  /\ cache.entries[k] # Missing /\ cache.entries[k].answer.version < world[k]
                             => InvalidateAfter(0, k)'
                        /\ \A i \in DOMAIN toHost' : Outdated(toHost[i], k)' => InvalidateAfter(i, k)'
                        /\ serving # Idle /\ Outdated(serving, k) => k \in owed
      BY <2>1, <2>2 DEF OrderInv, Outdated, Carries
    <2>3. /\ DOMAIN toHost' = 1 .. Len(toHost) + 1 /\ toHost'[Len(toHost) + 1] = e
          /\ \A i \in DOMAIN toHost : toHost'[i] = toHost[i]
      BY <1>1, <2>1, Appended
    <2>4. \A i \in 0 .. Len(toHost) : InvalidateAfter(i, k) => InvalidateAfter(i, k)'
      BY <1>1, <2>1, <2>2, AfterWritten
    <2>5. \A i \in DOMAIN toHost' : Outdated(toHost[i], k)' <=> Outdated(toHost'[i], k)
      BY <2>1, <2>2 DEF Outdated, Carries
    <2>6. ASSUME NEW i \in DOMAIN toHost', Outdated(toHost[i], k)'
          PROVE  InvalidateAfter(i, k)'
      <3>1. Outdated(toHost'[i], k)
        BY <2>5, <2>6
      <3>2. i \in DOMAIN toHost
        BY <1>1, <2>1, <2>3, <3>1 DEF Outdated, Carries
      <3>3. InvalidateAfter(i, k) /\ i \in 0 .. Len(toHost)
        BY <1>1, <2>3, <3>1, <3>2 DEF OrderInv
      <3> QED
        BY <2>4, <3>3
    <2>7. 0 \in 0 .. Len(toHost)
      BY <1>1
    <2> QED
      BY <2>4, <2>6, <2>7 DEF OrderInv
  <1>13. CASE ClientExits
    BY <1>13 DEF ClientExits, OrderInv
  <1>14. CASE \/ StartPump \/ StartFlush \/ EndPump \/ AwaitDrain \/ AwaitOver
              \/ Input \/ FallAsleep \/ TimePasses \/ UNCHANGED vars
    <2>1. UNCHANGED <<cache, pending, toClient, toHost, client>>
      BY <1>14 DEF StartPump, StartFlush, EndPump, AwaitDrain, AwaitOver, Input, FallAsleep,
                   TimePasses, vars
    <2> QED
      BY <1>2, <2>1
  <1>15. CASE ServeLoop \/ Pushes \/ Slow \/ Edit \/ Change \/ Script
    BY <1>6, <1>7, <1>8, <1>10, <1>11, <1>12, <1>15
    DEF ServeLoop, Pushes, Slow, Edit, Change, Script
  <1> QED
    BY <1>3, <1>4, <1>5, <1>13, <1>14, <1>15 DEF Next, Steps, Events, Pump, Await

(* When the client writes from its serve loop alone, no answer made before *)
(* a change outlives it: while an answer older than the data is cached,    *)
(* the invalidate that drops it is owed or on its way, because it is       *)
(* written after every answer made from the older data. A client with      *)
(* threads breaks the order: the run pane_race shows how.                  *)
THEOREM OutdatedDropped == ~ Threaded => (Spec => []OutdatedIsInvalidated)
  <1> SUFFICES ASSUME ~ Threaded
               PROVE  Spec => []OutdatedIsInvalidated
    OBVIOUS
  <1>1. Init => PaneInv
    BY InitPane
  <1>2. Init => OrderInv
    <2>1. Init => /\ \A k \in Keys : cache.entries[k] = Missing
                  /\ DOMAIN toHost = {} /\ serving = Idle
      BY NoElements DEF Init, EmptyCache
    <2> QED
      BY <2>1 DEF OrderInv
  <1>3. PaneInv /\ [Next]_vars => PaneInv'
    BY NextPane
  <1>4. PaneInv /\ OrderInv /\ [Next]_vars => OrderInv'
    BY NextOrder
  <1>5. OrderInv => OutdatedIsInvalidated
    BY DEF OrderInv, OutdatedIsInvalidated, InvalidateAfter, InvalidateComing
  <1> QED
    BY <1>1, <1>2, <1>3, <1>4, <1>5, PTL DEF Spec

-----------------------------------------------------------------------------
(* The pane implements Feed.                                               *)

Behind(n, k) == \A v \in InReach(k) : n <= v

(* Answers for a key lie on the pipe in the order of their versions, the   *)
(* one the client has made and not written after them, none of them ahead  *)
(* of the data.                                                            *)
Queued(k) ==
  /\ \A i \in DOMAIN toHost : Carries(toHost[i], k) =>
       /\ toHost[i].answer.version <= world[k]
       /\ serving # Idle /\ Carries(serving, k)
            => toHost[i].answer.version <= serving.answer.version
       /\ \A j \in DOMAIN toHost : j > i /\ Carries(toHost[j], k)
            => toHost[i].answer.version <= toHost[j].answer.version
  /\ serving # Idle /\ Carries(serving, k) => serving.answer.version <= world[k]

EntryFirst(k) ==
  cache.entries[k] # Missing => Behind(cache.entries[k].answer.version, k)

(* What has been shown, and what is kept to be shown while a key loads.    *)
PastBehind(k) ==
  /\ shown[k] # NotAsked => Behind(shown[k].version, k)
  /\ resources[k] # Missing => /\ resources[k].kind # "ready"
                               /\ Behind(resources[k].version, k)

FeedInv == \A k \in Keys : Queued(k) /\ EntryFirst(k) /\ PastBehind(k)

(* Nothing older than what was within reach comes within reach.            *)
NoneOlder(k) == \A w \in InReach(k)' : w \in Nat /\ \E v \in InReach(k) : v <= w

(* The versions within reach are numbers, and there is one.                *)
LEMMA ReachTyped ==
  ASSUME TypeOK, NEW k \in Keys
  PROVE  /\ InReach(k) \subseteq Nat /\ world[k] \in InReach(k)
         /\ \A e \in Coming(k) : e.answer.version \in InReach(k)
         /\ cache.entries[k] # Missing => cache.entries[k].answer.version \in InReach(k)
  <1>1. world[k] \in Nat
    BY DEF TypeOK, ClientTyped
  <1>2. ASSUME NEW e \in Coming(k) PROVE e.answer.version \in Nat
    <2>1. e \in Envelopes /\ e.what = "answer" /\ e.answer # Working
      BY PipeFacts, Kinds DEF Coming, Carries
    <2>2. e.answer \in Answers
      BY <2>1, Kinds
    <2> QED
      BY <2>2 DEF Answers
  <1>3. cache.entries[k] # Missing => cache.entries[k].answer.version \in Nat
    BY DEF TypeOK, CacheType, EntryType, Answers
  <1> QED
    BY <1>1, <1>2, <1>3 DEF InReach

(* The oldest version within reach is one of them.                         *)
LEMMA OldestIs ==
  ASSUME NEW S, S \subseteq Nat, S # {}
  PROVE  LET m == CHOOSE v \in S : \A other \in S : v <= other
         IN  m \in S /\ \A other \in S : m <= other
  BY LeastNumber, Zenon

(* It is the least of them.                                                *)
LEMMA OldestFirst ==
  ASSUME TypeOK, NEW k \in Keys
  PROVE  /\ Oldest(k) \in InReach(k) /\ Oldest(k) \in Nat
         /\ \A v \in InReach(k) : Oldest(k) <= v
  <1>1. InReach(k) \subseteq Nat /\ InReach(k) # {}
    BY ReachTyped
  <1> QED
    BY <1>1, OldestIs, Zenon DEF Oldest

(* It moves on, and not past the data, while nothing older comes up.       *)
LEMMA OldestMoves ==
  ASSUME TypeOK, NEW k \in Keys, NoneOlder(k), world'[k] \in Nat
  PROVE  /\ Oldest(k) \in Nat /\ Oldest(k)' \in Nat
         /\ Oldest(k) <= Oldest(k)' /\ Oldest(k)' <= world'[k]
  <1>1. InReach(k)' \subseteq Nat /\ world'[k] \in InReach(k)'
    BY DEF NoneOlder, InReach
  <1>2. Oldest(k)' \in InReach(k)' /\ \A w \in InReach(k)' : Oldest(k)' <= w
    <2> DEFINE S == InReach(k)'
               m == CHOOSE v \in S : \A other \in S : v <= other
    <2>1. Oldest(k)' = m
      BY DEF Oldest
    <2>2. S \subseteq Nat /\ S # {}
      BY <1>1
    <2> HIDE DEF S
    <2>3. m \in S /\ \A other \in S : m <= other
      BY <2>2, OldestIs
    <2> QED
      BY <2>1, <2>3 DEF S
  <1>3. PICK v \in InReach(k) : v <= Oldest(k)'
    BY <1>2 DEF NoneOlder
  <1>4. Oldest(k) <= v /\ Oldest(k) \in Nat /\ v \in Nat
    BY <1>3, OldestFirst, ReachTyped
  <1> QED
    BY <1>1, <1>2, <1>3, <1>4

(* What nothing within reach is older than stays so.                       *)
LEMMA BehindKept ==
  ASSUME TypeOK, NEW k \in Keys, NoneOlder(k), NEW n \in Nat, \A v \in InReach(k) : n <= v
  PROVE  \A w \in InReach(k)' : n <= w
  <1> SUFFICES ASSUME NEW w \in InReach(k)' PROVE n <= w
    OBVIOUS
  <1>1. PICK v \in InReach(k) : v <= w
    BY DEF NoneOlder
  <1>2. v \in Nat /\ w \in Nat /\ n <= v
    BY <1>1, ReachTyped DEF NoneOlder
  <1> QED
    BY <1>1, <1>2

(* What comes within reach by any of its three ways.                       *)
LEMMA Travels ==
  ASSUME TypeOK, NEW k \in Keys, world'[k] \in Nat, world[k] <= world'[k],
         \A e \in Coming(k)' : /\ e.answer.version \in Nat
                               /\ \E v \in InReach(k) : v <= e.answer.version,
         cache'.entries[k] # Missing =>
           /\ cache'.entries[k].answer.version \in Nat
           /\ \E v \in InReach(k) : v <= cache'.entries[k].answer.version
  PROVE  NoneOlder(k)
  <1>1. world[k] \in InReach(k)
    BY ReachTyped
  <1> SUFFICES ASSUME NEW w \in InReach(k)'
               PROVE  w \in Nat /\ \E v \in InReach(k) : v <= w
    BY DEF NoneOlder
  <1>2. CASE w = world'[k]
    BY <1>1, <1>2
  <1>3. CASE \E e \in Coming(k)' : w = e.answer.version
    BY <1>3
  <1>4. CASE cache'.entries[k] # Missing /\ w = cache'.entries[k].answer.version
    BY <1>4
  <1> QED
    BY <1>2, <1>3, <1>4 DEF InReach

(* Nothing is new on the pipe.                                             *)
LEMMA ComingKept ==
  ASSUME ToSet(toHost') \union ({serving'} \ {Idle})
           \subseteq ToSet(toHost) \union ({serving} \ {Idle}),
         \A e \in ToSet(toHost') \union ({serving'} \ {Idle}) :
           e.what = "answer" => pending'[e.id] = pending[e.id],
         NEW k
  PROVE  Coming(k)' \subseteq Coming(k)
  BY DEF Coming, Carries

(* With nothing new on the pipe or in the cache, nothing older comes up.   *)
LEMMA NothingNew ==
  ASSUME TypeOK, NEW k \in Keys, world'[k] \in Nat, world[k] <= world'[k],
         Coming(k)' \subseteq Coming(k),
         cache'.entries[k] \in {Missing, cache.entries[k]}
  PROVE  NoneOlder(k)
  <1>1. \A v \in InReach(k) : v \in Nat /\ v <= v
    BY ReachTyped
  <1>2. \A e \in Coming(k)' : e.answer.version \in InReach(k)
    BY ReachTyped
  <1>3. cache'.entries[k] # Missing => cache'.entries[k].answer.version \in InReach(k)
    BY ReachTyped
  <1> QED
    BY <1>1, <1>2, <1>3, Travels

(* An entry that is not replaced is still the oldest within reach.         *)
LEMMA EntryKept ==
  ASSUME TypeOK, NEW k \in Keys, EntryFirst(k), NoneOlder(k),
         cache'.entries[k] \in {Missing, cache.entries[k]}
  PROVE  EntryFirst(k)'
  <1> SUFFICES ASSUME cache'.entries[k] # Missing
               PROVE  \A w \in InReach(k)' : cache'.entries[k].answer.version <= w
    BY DEF EntryFirst, Behind
  <1>1. /\ cache'.entries[k] = cache.entries[k] /\ cache.entries[k] # Missing
        /\ cache.entries[k].answer.version \in Nat
    BY DEF TypeOK, CacheType, EntryType, Answers
  <1>2. \A v \in InReach(k) : cache.entries[k].answer.version <= v
    BY <1>1 DEF EntryFirst, Behind
  <1>3. \A n \in Nat : (\A v \in InReach(k) : n <= v) => \A w \in InReach(k)' : n <= w
    BY BehindKept
  <1> QED
    BY <1>1, <1>2, <1>3

(* The pipe rests, or the client goes with what it had not written.        *)
LEMMA PipeKeptFeeds ==
  ASSUME TypeOK, NEW k \in Keys, Queued(k), EntryFirst(k),
         toHost' = toHost, serving' \in {serving, Idle},
         \A id \in DOMAIN pending : pending'[id] = pending[id],
         world'[k] \in Nat, world[k] <= world'[k],
         cache'.entries[k] \in {Missing, cache.entries[k]}
  PROVE  NoneOlder(k) /\ Queued(k)' /\ EntryFirst(k)'
  <1>1. \A e \in ToSet(toHost') \union ({serving'} \ {Idle}) :
          /\ e \in ToSet(toHost) \union ({serving} \ {Idle})
          /\ e.what = "answer" => pending'[e.id] = pending[e.id]
    BY DEF TypeOK, Answering
  <1>2. NoneOlder(k)
    BY <1>1, ComingKept, NothingNew
  <1>3. \A i \in DOMAIN toHost : Carries(toHost[i], k)' <=> Carries(toHost[i], k)
    <2> SUFFICES ASSUME NEW i \in DOMAIN toHost
                 PROVE  Carries(toHost[i], k)' <=> Carries(toHost[i], k)
      OBVIOUS
    <2>1. toHost[i] \in ToSet(toHost')
      BY DEF ToSet
    <2> QED
      BY <1>1, <2>1 DEF Carries
  <1>4. serving' # Idle => /\ serving' = serving /\ serving # Idle
                          /\ Carries(serving, k)' <=> Carries(serving, k)
    BY <1>1 DEF Carries
  <1>5. \A e \in Coming(k) : e.answer.version \in Nat
    BY ReachTyped
  <1>6. \A i \in DOMAIN toHost : Carries(toHost[i], k) => toHost[i].answer.version \in Nat
    BY <1>5 DEF Coming, ToSet
  <1>7. serving # Idle /\ Carries(serving, k) => serving.answer.version \in Nat
    BY <1>5 DEF Coming
  <1>8. world[k] \in Nat
    BY DEF TypeOK, ClientTyped
  <1>9. Queued(k)'
    BY <1>3, <1>4, <1>6, <1>7, <1>8 DEF Queued
  <1> QED
    BY <1>2, <1>9, EntryKept

(* The host reads an envelope, and an answer for the key in it becomes its *)
(* entry: it is the first on the pipe, and nothing within reach is older.  *)
LEMMA ReadFeeds ==
  ASSUME PaneInv, NEW k \in Keys, Queued(k), EntryFirst(k),
         toHost # <<>>, toHost' = Tail(toHost), UNCHANGED <<serving, world>>,
         \/ pending' = pending
         \/ Numbered(Head(toHost)) /\ pending' = Completed(Head(toHost).id),
         \/ cache'.entries[k] \in {Missing, cache.entries[k]}
         \/ /\ Carries(Head(toHost), k)
            /\ cache'.entries[k].answer = Head(toHost).answer
  PROVE  NoneOlder(k) /\ Queued(k)' /\ EntryFirst(k)'
  <1> DEFINE h == Head(toHost)
  <1>1. TypeOK /\ toHost \in Seq(Envelopes) /\ world[k] \in Nat /\ world' = world
    BY DEF PaneInv, TypeOK, PipeTyped, ClientTyped
  <1>2. /\ Len(toHost) \in Nat /\ DOMAIN toHost = 1 .. Len(toHost) /\ Len(toHost) > 0
        /\ DOMAIN toHost' = 1 .. Len(toHost) - 1 /\ h = toHost[1]
        /\ \A i \in DOMAIN toHost' : toHost'[i] = toHost[i + 1]
        /\ ToSet(toHost) = {h} \union ToSet(toHost')
    BY <1>1, Beheaded
  <1>3. \A e \in ToSet(toHost') \union ({serving} \ {Idle}) :
          e.what = "answer" => pending'[e.id] = pending[e.id]
    BY OthersPending
  <1> HIDE DEF h
  <1>4. Coming(k)' \subseteq Coming(k)
    <2>1. ToSet(toHost') \union ({serving'} \ {Idle}) \subseteq ToSet(toHost) \union ({serving} \ {Idle})
      BY <1>2
    <2>2. \A e \in ToSet(toHost') \union ({serving'} \ {Idle}) :
            e.what = "answer" => pending'[e.id] = pending[e.id]
      BY <1>3
    <2> QED
      BY <2>1, <2>2, ComingKept
  <1>5. ASSUME NEW i \in DOMAIN toHost'
        PROVE  /\ i + 1 \in DOMAIN toHost /\ i \in Nat /\ toHost'[i] = toHost[i + 1]
               /\ Carries(toHost[i], k)' => Carries(toHost[i + 1], k)
    <2>1. i + 1 \in DOMAIN toHost /\ i \in Nat /\ toHost'[i] = toHost[i + 1]
      BY <1>2
    <2>2. toHost'[i] \in ToSet(toHost')
      BY DEF ToSet
    <2>3. toHost'[i].what = "answer" => pending'[toHost'[i].id] = pending[toHost'[i].id]
      BY <1>3, <2>2
    <2> QED
      BY <2>1, <2>3 DEF Carries
  <1>6. serving # Idle => (Carries(serving, k)' => Carries(serving, k))
    BY <1>3 DEF Carries
  <1>7. Queued(k)'
    <2> SUFFICES
          /\ \A i \in DOMAIN toHost' : Carries(toHost[i], k)' =>
               /\ toHost'[i].answer.version <= world[k]
               /\ serving # Idle /\ Carries(serving, k)'
                    => toHost'[i].answer.version <= serving.answer.version
               /\ \A j \in DOMAIN toHost' : j > i /\ Carries(toHost[j], k)'
                    => toHost'[i].answer.version <= toHost'[j].answer.version
          /\ serving # Idle /\ Carries(serving, k)' => serving.answer.version <= world[k]
      BY <1>1 DEF Queued
    <2>1. ASSUME NEW i \in DOMAIN toHost', Carries(toHost[i], k)'
          PROVE  /\ toHost'[i].answer.version <= world[k]
                 /\ serving # Idle /\ Carries(serving, k)'
                      => toHost'[i].answer.version <= serving.answer.version
                 /\ \A j \in DOMAIN toHost' : j > i /\ Carries(toHost[j], k)'
                      => toHost'[i].answer.version <= toHost'[j].answer.version
      <3>1. /\ i + 1 \in DOMAIN toHost /\ i \in Nat /\ toHost'[i] = toHost[i + 1]
            /\ Carries(toHost[i + 1], k)
        BY <1>5, <2>1
      <3>2. ASSUME NEW j \in DOMAIN toHost', j > i, Carries(toHost[j], k)'
            PROVE  toHost'[i].answer.version <= toHost'[j].answer.version
        <4>1. /\ j + 1 \in DOMAIN toHost /\ j \in Nat /\ toHost'[j] = toHost[j + 1]
              /\ Carries(toHost[j + 1], k)
          BY <1>5, <3>2
        <4>2. j + 1 > i + 1
          BY <3>1, <3>2, <4>1
        <4> QED
          BY <3>1, <4>1, <4>2 DEF Queued
      <3> QED
        BY <1>6, <3>1, <3>2 DEF Queued
    <2>2. serving # Idle /\ Carries(serving, k)' => serving.answer.version <= world[k]
      BY <1>6 DEF Queued
    <2> QED
      BY <2>1, <2>2
  <1>8. CASE cache'.entries[k] \in {Missing, cache.entries[k]}
    <2>1. NoneOlder(k)
      BY <1>1, <1>4, <1>8, NothingNew
    <2> QED
      BY <1>1, <1>7, <1>8, <2>1, EntryKept
  <1>9. CASE Carries(h, k) /\ cache'.entries[k].answer = h.answer
    <2> DEFINE n == h.answer.version
    <2>1. h \in Coming(k) /\ 1 \in DOMAIN toHost /\ h = toHost[1]
      BY <1>2, <1>9 DEF Coming
    <2>2. n \in InReach(k) /\ InReach(k) \subseteq Nat
      BY <1>1, <2>1, ReachTyped
    <2>3. n <= world[k] /\ cache'.entries[k].answer.version = n
      BY <1>9, <2>1 DEF Queued
    <2>4. ASSUME NEW e \in Coming(k)' PROVE e.answer.version \in InReach(k) /\ n <= e.answer.version
      <3>1. e \in Coming(k) /\ e.answer.version \in InReach(k)
        BY <1>1, <1>4, <2>4, ReachTyped
      <3>2. CASE e \in ToSet(toHost')
        <4>1. PICK i \in DOMAIN toHost' : e = toHost'[i]
          BY <3>2 DEF ToSet
        <4>2. i + 1 \in DOMAIN toHost /\ i + 1 > 1 /\ e = toHost[i + 1]
          BY <1>5, <4>1
        <4>3. Carries(e, k)
          BY <3>1 DEF Coming
        <4> QED
          BY <1>9, <2>1, <3>1, <4>2, <4>3 DEF Queued
      <3>3. CASE e = serving /\ serving # Idle
        BY <1>9, <2>1, <3>1, <3>3 DEF Queued, Coming
      <3> QED
        BY <2>4, <3>2, <3>3 DEF Coming
    <2> HIDE DEF n
    <2>5. \A v \in InReach(k) : v \in Nat /\ v <= v
      BY <2>2
    <2>6. NoneOlder(k)
      <3>1. \A e \in Coming(k)' : /\ e.answer.version \in Nat
                                 /\ \E v \in InReach(k) : v <= e.answer.version
        BY <2>4, <2>5
      <3>2. /\ cache'.entries[k].answer.version \in Nat
            /\ \E v \in InReach(k) : v <= cache'.entries[k].answer.version
        BY <2>2, <2>3, <2>5
      <3>3. world'[k] \in Nat /\ world[k] <= world'[k]
        BY <1>1
      <3> QED
        BY <1>1, <3>1, <3>2, <3>3, Travels
    <2>7. EntryFirst(k)'
      <3> SUFFICES ASSUME NEW w \in InReach(k)' PROVE cache'.entries[k].answer.version <= w
        BY DEF EntryFirst, Behind
      <3>1. \/ w = world'[k]
            \/ \E e \in Coming(k)' : w = e.answer.version
            \/ w = cache'.entries[k].answer.version
        BY DEF InReach
      <3> QED
        BY <1>1, <2>2, <2>3, <2>4, <3>1
    <2> QED
      BY <1>7, <2>6, <2>7
  <1> QED
    BY <1>8, <1>9 DEF h

(* The client writes the answer it has made, or something that is none.    *)
LEMMA WriteFeeds ==
  ASSUME TypeOK, NEW k \in Keys, Queued(k), EntryFirst(k),
         NEW e \in Envelopes, toHost' = Append(toHost, e),
         UNCHANGED <<cache, pending, world>>,
         \/ serving # Idle /\ e = serving /\ serving' = Idle
         \/ e.what # "answer" /\ serving' = serving
  PROVE  NoneOlder(k) /\ Queued(k)' /\ EntryFirst(k)'
  <1>1. /\ Len(toHost) \in Nat /\ DOMAIN toHost = 1 .. Len(toHost)
        /\ DOMAIN toHost' = 1 .. Len(toHost) + 1
        /\ \A i \in DOMAIN toHost : toHost'[i] = toHost[i]
        /\ toHost'[Len(toHost) + 1] = e
        /\ ToSet(toHost') = ToSet(toHost) \union {e}
    BY Appended DEF TypeOK, PipeTyped
  <1>3. Coming(k)' \subseteq Coming(k)
    BY <1>1 DEF Coming, Carries
  <1>4. world[k] \in Nat /\ world'[k] = world[k] /\ world[k] <= world'[k] /\ cache' = cache
    BY DEF TypeOK, ClientTyped
  <1>5. NoneOlder(k)
    BY <1>3, <1>4, NothingNew
  <1>6. EntryFirst(k)'
    BY <1>4, <1>5, EntryKept
  <1>7. \A i \in DOMAIN toHost' : Carries(toHost[i], k)' =>
          \/ i \in DOMAIN toHost /\ toHost'[i] = toHost[i] /\ Carries(toHost[i], k)
          \/ /\ i = Len(toHost) + 1 /\ toHost'[i] = serving /\ Carries(serving, k)
             /\ serving # Idle /\ serving' = Idle
    <2> SUFFICES ASSUME NEW i \in DOMAIN toHost', Carries(toHost[i], k)'
                 PROVE  \/ /\ i \in DOMAIN toHost /\ toHost'[i] = toHost[i]
                           /\ Carries(toHost[i], k)
                        \/ /\ i = Len(toHost) + 1 /\ toHost'[i] = serving
                           /\ Carries(serving, k) /\ serving # Idle /\ serving' = Idle
      OBVIOUS
    <2>1. /\ toHost'[i].what = "answer" /\ toHost'[i].answer # Working
          /\ pending[toHost'[i].id] = k
      BY DEF Carries
    <2>2. i \in DOMAIN toHost \/ i = Len(toHost) + 1
      BY <1>1
    <2> QED
      BY <1>1, <2>1, <2>2 DEF Carries
  <1>8. serving' # Idle => (Carries(serving, k)' => serving' = serving /\ Carries(serving, k))
    BY DEF Carries
  <1> SUFFICES
        /\ \A i \in DOMAIN toHost' : Carries(toHost[i], k)' =>
             /\ toHost'[i].answer.version <= world[k]
             /\ serving' # Idle /\ Carries(serving, k)'
                  => toHost'[i].answer.version <= serving'.answer.version
             /\ \A j \in DOMAIN toHost' : j > i /\ Carries(toHost[j], k)'
                  => toHost'[i].answer.version <= toHost'[j].answer.version
        /\ serving' # Idle /\ Carries(serving, k)' => serving'.answer.version <= world[k]
    BY <1>4, <1>5, <1>6 DEF Queued
  <1>9. ASSUME NEW i \in DOMAIN toHost', Carries(toHost[i], k)'
        PROVE  /\ toHost'[i].answer.version <= world[k]
               /\ serving' # Idle /\ Carries(serving, k)'
                    => toHost'[i].answer.version <= serving'.answer.version
               /\ \A j \in DOMAIN toHost' : j > i /\ Carries(toHost[j], k)'
                    => toHost'[i].answer.version <= toHost'[j].answer.version
    <2>1. CASE i \in DOMAIN toHost /\ toHost'[i] = toHost[i] /\ Carries(toHost[i], k)
      <3>1. ASSUME NEW j \in DOMAIN toHost', j > i, Carries(toHost[j], k)'
            PROVE  toHost'[i].answer.version <= toHost'[j].answer.version
        BY <1>7, <2>1, <3>1 DEF Queued
      <3> QED
        BY <1>8, <2>1, <3>1 DEF Queued
    <2>2. CASE /\ i = Len(toHost) + 1 /\ toHost'[i] = serving /\ Carries(serving, k)
               /\ serving # Idle /\ serving' = Idle
      <3>1. \A j \in DOMAIN toHost' : ~ (j > i)
        BY <1>1, <2>2
      <3> QED
        BY <2>2, <3>1 DEF Queued
    <2> QED
      BY <1>7, <1>9, <2>1, <2>2
  <1>10. serving' # Idle /\ Carries(serving, k)' => serving'.answer.version <= world[k]
    BY <1>8 DEF Queued
  <1> QED
    BY <1>9, <1>10

(* The client makes a response: an answer has the data as it is.           *)
LEMMA ServeFeeds ==
  ASSUME TypeOK, NEW k \in Keys, Queued(k), EntryFirst(k),
         serving = Idle, UNCHANGED <<cache, pending, toHost>>,
         world'[k] \in Nat, world[k] <= world'[k],
         serving' # Idle /\ Carries(serving, k)' => serving'.answer.version = world[k]
  PROVE  NoneOlder(k) /\ Queued(k)' /\ EntryFirst(k)'
  <1>1. /\ world[k] \in Nat /\ world[k] \in InReach(k)
        /\ \A e \in Coming(k) : e.answer.version \in InReach(k)
        /\ InReach(k) \subseteq Nat
        /\ cache.entries[k] # Missing => cache.entries[k].answer.version \in InReach(k)
    BY ReachTyped DEF TypeOK, ClientTyped
  <1>2. \A e \in Coming(k)' : e \in Coming(k) \/ e.answer.version = world[k]
    BY DEF Coming, Carries
  <1>3. NoneOlder(k)
    <2>1. \A v \in InReach(k) : v \in Nat /\ v <= v
      BY <1>1
    <2>2. \A e \in Coming(k)' : e.answer.version \in InReach(k)
      BY <1>1, <1>2
    <2>3. \A e \in Coming(k)' : /\ e.answer.version \in Nat
                               /\ \E v \in InReach(k) : v <= e.answer.version
      BY <2>1, <2>2
    <2>4. cache'.entries[k] # Missing =>
            /\ cache'.entries[k].answer.version \in Nat
            /\ \E v \in InReach(k) : v <= cache'.entries[k].answer.version
      BY <1>1, <2>1
    <2> QED
      BY <2>3, <2>4, Travels
  <1>4. EntryFirst(k)'
    BY <1>3, EntryKept
  <1>5. ASSUME NEW i \in DOMAIN toHost, Carries(toHost[i], k)'
        PROVE  Carries(toHost[i], k) /\ toHost[i].answer.version \in Nat
    <2>1. Carries(toHost[i], k)
      BY <1>5 DEF Carries
    <2>2. toHost[i] \in Coming(k)
      BY <2>1 DEF Coming, ToSet
    <2> QED
      BY <1>1, <2>1, <2>2
  <1>6. Queued(k)'
    <2> SUFFICES
          /\ \A i \in DOMAIN toHost : Carries(toHost[i], k)' =>
               /\ toHost[i].answer.version <= world'[k]
               /\ serving' # Idle /\ Carries(serving, k)'
                    => toHost[i].answer.version <= serving'.answer.version
               /\ \A j \in DOMAIN toHost : j > i /\ Carries(toHost[j], k)'
                    => toHost[i].answer.version <= toHost[j].answer.version
          /\ serving' # Idle /\ Carries(serving, k)' => serving'.answer.version <= world'[k]
      BY DEF Queued
    <2>1. ASSUME NEW i \in DOMAIN toHost, Carries(toHost[i], k)'
          PROVE  /\ toHost[i].answer.version <= world'[k]
                 /\ serving' # Idle /\ Carries(serving, k)'
                      => toHost[i].answer.version <= serving'.answer.version
                 /\ \A j \in DOMAIN toHost : j > i /\ Carries(toHost[j], k)'
                      => toHost[i].answer.version <= toHost[j].answer.version
      <3>1. Carries(toHost[i], k) /\ toHost[i].answer.version \in Nat
        BY <1>5, <2>1
      <3>2. toHost[i].answer.version <= world[k]
        BY <3>1 DEF Queued
      <3>3. ASSUME NEW j \in DOMAIN toHost, j > i, Carries(toHost[j], k)'
            PROVE  toHost[i].answer.version <= toHost[j].answer.version
        <4>1. Carries(toHost[j], k)
          BY <1>5, <3>3
        <4> QED
          BY <3>1, <3>3, <4>1 DEF Queued
      <3>4. toHost[i].answer.version <= world'[k]
        BY <1>1, <3>1, <3>2
      <3> QED
        BY <3>2, <3>3, <3>4
    <2>2. serving' # Idle /\ Carries(serving, k)' => serving'.answer.version <= world'[k]
      OBVIOUS
    <2> QED
      BY <2>1, <2>2
  <1> QED
    BY <1>3, <1>4, <1>6

(* The host applies an envelope: an answer becomes the entry of the key    *)
(* its request was for, an invalidate drops one, and no other changes.     *)
LEMMA ApplyFeeds ==
  ASSUME PaneInv, NEW k \in Keys, Queued(k), EntryFirst(k), ApplyNext
  PROVE  NoneOlder(k) /\ Queued(k)' /\ EntryFirst(k)'
  <1> DEFINE e == Head(toHost)
  <1>1. /\ TypeOK /\ cache \in CacheType /\ now \in Nat /\ left \in 0 .. Len(toHost)
        /\ toHost \in Seq(Envelopes)
    BY DEF PaneInv, TypeOK, MainTyped, PipeTyped
  <1>2. /\ toHost' = Tail(toHost) /\ left > 0 /\ UNCHANGED <<serving, world>>
        /\ ApplyAnswer(e) \/ ApplyMutated(e) \/ ApplyInvalidate(e) \/ ApplySetScript(e)
    BY DEF ApplyNext, client
  <1>3. toHost # <<>>
    BY <1>1, <1>2, NoElements
  <1>4. e \in Envelopes /\ e \in ToSet(toHost)
    BY <1>1, <1>3, Beheaded
  <1>5. pending' = pending \/ (Numbered(e) /\ pending' = Completed(e.id))
    BY <1>2 DEF ApplyAnswer, ApplyMutated, ApplyInvalidate, ApplySetScript, Numbered, Correlated
  <1> HIDE DEF e
  <1>6. \/ cache'.entries[k] \in {Missing, cache.entries[k]}
        \/ Carries(e, k) /\ cache'.entries[k].answer = e.answer
    <2>1. CASE ApplyAnswer(e) /\ e.answer # Working
      <3> DEFINE k0 == pending[e.id]
      <3>1. e.what = "answer"
        BY <2>1 DEF ApplyAnswer
      <3>2. /\ k0 \in Keys /\ e.answer \in Answers /\ e.policy \in PolicyType
            /\ Forever \in PolicyType
        BY <1>1, <1>4, <2>1, <3>1, Kinds DEF TypeOK, Answering, Forever, PolicyType
      <3>3. PICK policy \in PolicyType : cache' = Resolved(cache, k0, e.answer, policy, now)
        BY <2>1, <3>2 DEF ApplyAnswer, Store
      <3>4. k = k0 => Carries(e, k)
        BY <2>1, <3>1 DEF Carries
      <3> HIDE DEF k0
      <3>5. cache'.entries = [cache.entries EXCEPT ![k0] = [answer |-> e.answer,
                                                            policy |-> policy, at |-> now]]
        BY <1>1, <3>2, <3>3 DEF Resolved, CacheType
      <3> QED
        BY <1>1, <3>2, <3>4, <3>5 DEF CacheType
    <2>2. CASE ApplyInvalidate(e)
      BY <1>1, <2>2 DEF ApplyInvalidate, Invalidated, CacheType
    <2>3. CASE \/ ApplyAnswer(e) /\ e.answer = Working
               \/ ApplyMutated(e) \/ ApplySetScript(e)
      BY <2>3 DEF ApplyAnswer, ApplyMutated, ApplySetScript
    <2> QED
      BY <1>2, <2>1, <2>2, <2>3
  <1> QED
    BY <1>2, <1>3, <1>5, <1>6, ReadFeeds DEF e

(* Every step, of the client with threads too, brings nothing older within *)
(* reach of a key and keeps its answers in order.                          *)
LEMMA NextFeeds ==
  ASSUME PaneInv, [Next]_vars, NEW k \in Keys, Queued(k), EntryFirst(k)
  PROVE  /\ NoneOlder(k) /\ Queued(k)' /\ EntryFirst(k)'
         /\ world'[k] \in Nat /\ world[k] <= world'[k]
  <1>1. /\ TypeOK /\ cache \in CacheType /\ PipeTyped /\ ClientTyped /\ Asking
        /\ world[k] \in Nat /\ world[k] <= world[k]
    BY DEF PaneInv, PipeInv, TypeOK, ClientTyped
  <1>2. ASSUME UNCHANGED <<toHost, serving, world>>,
               \A id \in DOMAIN pending : pending'[id] = pending[id],
               cache'.entries[k] \in {Missing, cache.entries[k]}
        PROVE  /\ NoneOlder(k) /\ Queued(k)' /\ EntryFirst(k)'
               /\ world'[k] \in Nat /\ world[k] <= world'[k]
    BY <1>1, <1>2, PipeKeptFeeds
  <1>3. CASE Tick
    <2>1. UNCHANGED <<toHost, serving, world, pending>>
      BY <1>3 DEF Tick, client
    <2>2. CASE SkipFrame \/ TickAsleep
      BY <1>2, <2>1, <2>2 DEF SkipFrame, TickAsleep
    <2>3. CASE \E ks, dropped \in SUBSET Keys, before \in BOOLEAN :
                 \E order \in SetToAllKPermutations(ks) : RunFrame(ks, dropped, before, order)
      BY <1>1, <1>2, <2>1, <2>3, RunFrameEntries
    <2> QED
      BY <1>3, <2>2, <2>3 DEF Tick
  <1>4. CASE ApplyNext
    <2>1. world' = world
      BY <1>4 DEF ApplyNext, client
    <2> QED
      BY <1>1, <1>4, <2>1, ApplyFeeds
  <1>5. CASE FlushNext \/ StartMutate
    <2>1. /\ UNCHANGED <<toHost, client>> /\ cache'.entries = cache.entries
          /\ FreshId \in Ids \ DOMAIN pending
      BY <1>1, <1>5, FreshIdFree DEF FlushNext, StartMutate, CacheType
    <2>2. \E request, message : Send(FreshId, request, message)
      BY <1>5 DEF FlushNext, StartMutate
    <2>3. \A id \in DOMAIN pending : pending'[id] = pending[id]
      BY <2>1, <2>2 DEF Send
    <2> QED
      BY <1>2, <2>1, <2>3 DEF client
  <1>6. ASSUME NEW busy \in BOOLEAN, NEW policy \in Policies, ServeQuery(busy, policy)
        PROVE  /\ NoneOlder(k) /\ Queued(k)' /\ EntryFirst(k)'
               /\ world'[k] \in Nat /\ world[k] <= world'[k]
    <2> DEFINE h == Head(toClient)
    <2>1. /\ serving = Idle /\ toClient # <<>> /\ h.what = "query"
          /\ UNCHANGED <<cache, pending, toHost, world>>
          /\ serving' = Answer(h.id, IF busy THEN Working ELSE DataAnswer(h.key), policy)
      BY <1>6 DEF ServeQuery, Take
    <2>2. h.key \in Keys /\ pending[h.id] = h.key
      BY <1>1, <2>1, Beheaded, Kinds DEF PipeTyped, Asking
    <2> HIDE DEF h
    <2>3. /\ serving'.id = h.id
          /\ serving'.answer = IF busy THEN Working ELSE DataAnswer(h.key)
      BY <2>1 DEF Answer
    <2>4. DataAnswer(h.key).version = world[h.key]
      BY DEF DataAnswer
    <2>5. Carries(serving, k)' => serving'.answer.version = world[k]
      BY <2>1, <2>2, <2>3, <2>4 DEF Carries
    <2> QED
      BY <1>1, <2>1, <2>5, ServeFeeds
  <1>7. ASSUME NEW edited \in SUBSET Keys, ServeMutate(edited)
        PROVE  /\ NoneOlder(k) /\ Queued(k)' /\ EntryFirst(k)'
               /\ world'[k] \in Nat /\ world[k] <= world'[k]
    <2>1. /\ serving = Idle /\ UNCHANGED <<cache, pending, toHost>>
          /\ serving' = Mutated(Head(toClient).id)
          /\ world' = [j \in Keys |-> IF j \in edited THEN world[j] + 1 ELSE world[j]]
      BY <1>7 DEF ServeMutate, Take
    <2>2. serving'.what = "mutated"
      BY <2>1 DEF Mutated
    <2>3. ~ Carries(serving, k)'
      BY <2>2 DEF Carries
    <2>4. world'[k] \in Nat /\ world[k] <= world'[k]
      BY <1>1, <2>1
    <2> QED
      BY <1>1, <2>1, <2>3, <2>4, ServeFeeds
  <1>8. ASSUME NEW j \in Keys, DataChanges(j) \/ WorkDone(j)
        PROVE  /\ NoneOlder(k) /\ Queued(k)' /\ EntryFirst(k)'
               /\ world'[k] \in Nat /\ world[k] <= world'[k]
    <2>1. UNCHANGED <<cache, pending, toHost, serving>>
      BY <1>8 DEF DataChanges, WorkDone
    <2>2. world'[k] \in Nat /\ world[k] <= world'[k]
      BY <1>1, <1>8 DEF DataChanges, WorkDone, ClientTyped
    <2> QED
      BY <1>1, <2>1, <2>2, PipeKeptFeeds
  <1>9. ASSUME NEW e \in Envelopes, toHost' = Append(toHost, e),
               UNCHANGED <<cache, pending, world>>,
               \/ serving # Idle /\ e = serving /\ serving' = Idle
               \/ e.what # "answer" /\ serving' = serving
        PROVE  /\ NoneOlder(k) /\ Queued(k)' /\ EntryFirst(k)'
               /\ world'[k] \in Nat /\ world[k] <= world'[k]
    BY <1>1, <1>9, WriteFeeds
  <1>10. CASE Respond
    <2>1. /\ serving # Idle /\ toHost' = Append(toHost, serving) /\ serving' = Idle
          /\ UNCHANGED <<cache, pending, world>>
      BY <1>10 DEF Respond
    <2>2. serving \in Envelopes
      BY <1>1, <2>1, PipeFacts, Kinds
    <2> QED
      BY <1>9, <2>1, <2>2
  <1>11. ASSUME NEW j \in Keys, PushInvalidate(j)
         PROVE  /\ NoneOlder(k) /\ Queued(k)' /\ EntryFirst(k)'
                /\ world'[k] \in Nat /\ world[k] <= world'[k]
    <2>1. /\ toHost' = Append(toHost, Invalidate(j))
          /\ UNCHANGED <<cache, pending, world, serving>>
      BY <1>11 DEF PushInvalidate
    <2>2. Invalidate(j) \in Envelopes /\ Invalidate(j).what # "answer"
      BY DEF Invalidate, Envelopes
    <2> QED
      BY <1>9, <2>1, <2>2
  <1>12. ASSUME NEW compiles \in BOOLEAN, PushScript(compiles)
         PROVE  /\ NoneOlder(k) /\ Queued(k)' /\ EntryFirst(k)'
                /\ world'[k] \in Nat /\ world[k] <= world'[k]
    <2>1. /\ toHost' = Append(toHost, SetScript(compiles))
          /\ UNCHANGED <<cache, pending, world, serving>>
      BY <1>12 DEF PushScript, client
    <2>2. SetScript(compiles) \in Envelopes /\ SetScript(compiles).what # "answer"
      BY DEF SetScript, Envelopes
    <2> QED
      BY <1>9, <2>1, <2>2
  <1>13. CASE ClientExits
    <2>1. UNCHANGED <<cache, pending, toHost, world>> /\ serving' = Idle
      BY <1>13 DEF ClientExits
    <2> QED
      BY <1>1, <2>1, PipeKeptFeeds
  <1>14. CASE \/ StartPump \/ StartFlush \/ EndPump \/ AwaitDrain \/ AwaitOver
              \/ Input \/ FallAsleep \/ TimePasses \/ UNCHANGED vars
    <2>1. UNCHANGED <<cache, pending, toHost, serving, world>>
      BY <1>14 DEF StartPump, StartFlush, EndPump, AwaitDrain, AwaitOver, Input, FallAsleep,
                   TimePasses, vars, client
    <2> QED
      BY <1>2, <2>1
  <1>15. CASE ServeLoop \/ Pushes \/ Slow \/ Edit \/ Change \/ Script
    BY <1>6, <1>7, <1>8, <1>10, <1>11, <1>12, <1>15
    DEF ServeLoop, Pushes, Slow, Edit, Change, Script
  <1> QED
    BY <1>3, <1>4, <1>5, <1>13, <1>14, <1>15 DEF Next, Steps, Events, Pump, Await

(* What the cache answers, when it does, is the oldest within reach.       *)
LEMMA LookupOldest ==
  ASSUME TypeOK, NEW k \in Keys, EntryFirst(k), NEW c \in CacheType,
         c.entries[k] \in {Missing, cache.entries[k]}, LookupResult(c, k, now) # Loading
  PROVE  /\ LookupResult(c, k, now) \in Answers
         /\ LookupResult(c, k, now).version = Oldest(k)
  <1>1. LookupResult(c, k, now) \in Answers
    BY LookupType
  <1>2. /\ cache.entries[k] # Missing
        /\ LookupResult(c, k, now) = cache.entries[k].answer
    BY DEF LookupResult, Held
  <1> DEFINE n == cache.entries[k].answer.version
  <1>3. n \in InReach(k) /\ InReach(k) \subseteq Nat
    BY <1>2, ReachTyped
  <1>4. \A v \in InReach(k) : n <= v
    BY <1>2 DEF EntryFirst, Behind
  <1> HIDE DEF n
  <1>5. Oldest(k) = n
    BY <1>3, <1>4, OldestFirst
  <1> QED
    BY <1>1, <1>2, <1>5 DEF n

(* What a run shows, and what it keeps to show while the key loads.        *)
LEMMA FrameShows ==
  ASSUME TypeOK, NEW ks \in SUBSET Keys, NEW dropped \in SUBSET Keys, NEW before \in BOOLEAN,
         NEW order, RunFrame(ks, dropped, before, order), NEW k \in Keys,
         EntryFirst(k), PastBehind(k)
  PROVE  /\ F!Shows(k, shown'[k])
         /\ shown'[k] # NotAsked => shown'[k].version <= Oldest(k)
         /\ resources'[k] # Missing => /\ resources'[k].kind # "ready"
                                      /\ resources'[k].version <= Oldest(k)
  <1> DEFINE asked == IF before THEN Invalidated(cache, dropped) ELSE cache
             answer == LookupResult(asked, k, now)
  <1>1. cache \in CacheType
    BY DEF TypeOK
  <1>2. asked \in CacheType /\ asked.entries[k] \in {Missing, cache.entries[k]}
    <2>1. /\ Invalidated(cache, dropped) \in CacheType
          /\ Invalidated(cache, dropped).entries[k] \in {Missing, cache.entries[k]}
      BY <1>1 DEF Invalidated, CacheType
    <2> QED
      BY <1>1, <2>1
  <1>3. /\ shown'[k] = IF k \in ks THEN Presented(asked, k) ELSE NotAsked
        /\ resources'[k] = IF k \in ks THEN ResourceAfter(asked, k) ELSE resources[k]
    BY DEF RunFrame
  <1> HIDE DEF asked
  <1>4. answer # Loading => answer \in Answers /\ answer.version = Oldest(k)
    BY <1>2, LookupOldest
  <1>5. /\ Presented(asked, k) = IF answer = Loading /\ resources[k] # Missing THEN resources[k]
                                 ELSE answer
        /\ ResourceAfter(asked, k) = IF answer.kind = "errored" THEN answer
                                     ELSE IF answer = Loading /\ resources[k] = Missing
                                          THEN Loading ELSE resources[k]
    BY DEF Presented, ResourceAfter
  <1> HIDE DEF answer
  <1>6. /\ Oldest(k) \in Nat /\ Oldest(k) \in InReach(k)
        /\ Oldest(k) <= Oldest(k)
    BY OldestFirst
  <1>7. /\ Loading.kind = "loading" /\ Loading.version = 0 /\ 0 <= Oldest(k)
        /\ NotAsked.kind = "not asked"
    BY <1>6 DEF Loading, NotAsked
  <1>8. resources[k] # Missing =>
          /\ resources[k].kind \in {"errored", "loading"}
          /\ resources[k].version <= Oldest(k)
    <2>1. resources[k] # Missing => resources[k] \in Answers \/ resources[k] = Loading
      BY DEF TypeOK, PanelTyped
    <2>2. resources[k] # Missing => /\ resources[k].kind # "ready"
                                    /\ resources[k].version <= Oldest(k)
      BY <1>6 DEF PastBehind, Behind
    <2> QED
      BY <1>7, <2>1, <2>2 DEF Answers
  <1>9. answer.kind \in {"ready", "errored", "loading"} /\ answer.version <= Oldest(k)
    BY <1>4, <1>6, <1>7 DEF Answers
  <1>10. F!Shows(k, shown'[k])
    <2>1. F!Shows(k, shown'[k]) <=>
            \/ shown'[k].kind \in {"not asked", "loading"}
            \/ shown'[k].kind = "ready" /\ shown'[k].version = Oldest(k)
            \/ shown'[k].kind = "errored" /\ shown'[k].version <= Oldest(k)
      BY DEF F!Shows
    <2>2. CASE k \notin ks
      BY <1>3, <1>7, <2>1, <2>2
    <2>3. CASE k \in ks /\ answer = Loading
      BY <1>3, <1>5, <1>7, <1>8, <2>1, <2>3
    <2>4. CASE k \in ks /\ answer # Loading
      BY <1>3, <1>4, <1>5, <1>9, <2>1, <2>4 DEF Answers
    <2> QED
      BY <2>2, <2>3, <2>4
  <1>11. shown'[k] # NotAsked => shown'[k].version <= Oldest(k)
    BY <1>3, <1>5, <1>8, <1>9
  <1>12. resources'[k] # Missing => /\ resources'[k].kind # "ready"
                                   /\ resources'[k].version <= Oldest(k)
    BY <1>3, <1>5, <1>7, <1>8, <1>9
  <1> QED
    BY <1>10, <1>11, <1>12

(* Whatever is shown or kept has a version.                                *)
LEMMA VersionTyped ==
  ASSUME NEW a \in Answers \union {NotAsked, Loading}
  PROVE  a.version \in Nat
  <1>1. CASE a \in Answers
    BY <1>1 DEF Answers
  <1>2. NotAsked.version = 0 /\ Loading.version = 0
    BY Zenon DEF NotAsked, Loading
  <1> QED
    BY <1>1, <1>2

(* What has been shown stays behind, and so does what is kept to be shown. *)
LEMMA NextPastBehind ==
  ASSUME TypeOK, NEW k \in Keys, EntryFirst(k), PastBehind(k), NoneOlder(k), [Next]_vars
  PROVE  PastBehind(k)'
  <1>1. \A n \in Nat : (\A v \in InReach(k) : n <= v) => \A w \in InReach(k)' : n <= w
    BY BehindKept
  <1>2. /\ \A v \in InReach(k) : v \in Nat /\ Oldest(k) <= v
        /\ Oldest(k) \in Nat
    BY OldestFirst, ReachTyped
  <1>3. \A w \in InReach(k)' : w \in Nat /\ Oldest(k) <= w
    BY <1>1, <1>2 DEF NoneOlder
  <1>4. /\ shown[k] \in Answers \union {NotAsked, Loading}
        /\ resources[k] \in Answers \union {Missing, Loading}
    BY DEF TypeOK, PanelTyped
  <1>5. /\ shown[k].version \in Nat
        /\ resources[k] # Missing => resources[k].version \in Nat
    BY <1>4, VersionTyped
  <1>6. CASE shown' = shown /\ resources' \in {resources, NoResources}
    <2>1. shown[k] # NotAsked => \A w \in InReach(k)' : shown[k].version <= w
      BY <1>1, <1>5 DEF PastBehind, Behind
    <2>2. resources[k] # Missing => /\ resources[k].kind # "ready"
                                    /\ \A w \in InReach(k)' : resources[k].version <= w
      BY <1>1, <1>5 DEF PastBehind, Behind
    <2>3. resources'[k] \in {resources[k], Missing}
      BY <1>6 DEF NoResources
    <2> QED
      BY <1>6, <2>1, <2>2, <2>3 DEF PastBehind, Behind
  <1>7. ASSUME NEW ks \in SUBSET Keys, NEW dropped \in SUBSET Keys, NEW before \in BOOLEAN,
               NEW order, RunFrame(ks, dropped, before, order)
        PROVE  PastBehind(k)'
    <2>1. /\ shown'[k] # NotAsked => shown'[k].version <= Oldest(k)
          /\ resources'[k] # Missing => /\ resources'[k].kind # "ready"
                                       /\ resources'[k].version <= Oldest(k)
      BY <1>7, FrameShows
    <2>2. PanelTyped'
      BY <1>7, RunFrameTyped DEF TypeOK, MainTyped
    <2>3. /\ shown'[k].version \in Nat
          /\ resources'[k] # Missing => resources'[k].version \in Nat
      <3>1. /\ shown'[k] \in Answers \union {NotAsked, Loading}
            /\ resources'[k] \in Answers \union {Missing, Loading}
        BY <2>2 DEF PanelTyped
      <3> QED
        BY <3>1, VersionTyped
    <2>4. /\ shown'[k] # NotAsked => \A w \in InReach(k)' : shown'[k].version <= w
          /\ resources'[k] # Missing => \A w \in InReach(k)' : resources'[k].version <= w
      BY <1>2, <1>3, <2>1, <2>3
    <2> QED
      BY <2>1, <2>4 DEF PastBehind, Behind
  <1>8. CASE Tick
    <2>1. CASE SkipFrame \/ TickAsleep
      BY <1>6, <2>1 DEF SkipFrame, TickAsleep, panel
    <2> QED
      BY <1>7, <1>8, <2>1 DEF Tick
  <1>9. CASE ApplyNext
    BY <1>6, <1>9 DEF ApplyNext, ApplyAnswer, ApplyMutated, ApplyInvalidate, ApplySetScript, panel
  <1>10. CASE StartPump \/ StartFlush \/ FlushNext \/ EndPump \/ Await
    BY <1>6, <1>10 DEF StartPump, StartFlush, FlushNext, EndPump, Await, AwaitDrain, AwaitOver, panel
  <1>11. CASE ServeLoop \/ Pushes
    BY <1>6, <1>11 DEF ServeLoop, Pushes, ServeQuery, ServeMutate, Take, Respond, WorkDone,
                       PushInvalidate, panel
  <1>12. CASE Events
    BY <1>6, <1>12 DEF Events, Input, FallAsleep, TimePasses, StartMutate, Slow, Edit, Change,
                       Script, ServeQuery, ServeMutate, Take, DataChanges, PushScript,
                       ClientExits, panel
  <1>13. CASE UNCHANGED vars
    BY <1>6, <1>13 DEF vars, panel
  <1> QED
    BY <1>8, <1>9, <1>10, <1>11, <1>12, <1>13 DEF Next, Steps, Pump

(* Every step keeps what the refinement rests on.                          *)
LEMMA NextFeedInv ==
  ASSUME PaneInv, FeedInv, [Next]_vars
  PROVE  FeedInv'
  <1> SUFFICES ASSUME NEW k \in Keys
               PROVE  Queued(k)' /\ EntryFirst(k)' /\ PastBehind(k)'
    BY DEF FeedInv
  <1>1. Queued(k) /\ EntryFirst(k) /\ PastBehind(k) /\ TypeOK
    BY DEF FeedInv, PaneInv
  <1>2. NoneOlder(k) /\ Queued(k)' /\ EntryFirst(k)'
    BY <1>1, NextFeeds
  <1>3. PastBehind(k)'
    BY <1>1, <1>2, NextPastBehind
  <1> QED
    BY <1>2, <1>3

(* A new pane has been shown nothing, and only the data is within reach.   *)
LEMMA InitFeed == Init => FeedInv /\ F!Init
  <1> SUFFICES ASSUME Init PROVE FeedInv /\ F!Init
    OBVIOUS
  <1>1. /\ toHost = <<>> /\ serving = Idle /\ world = [k \in Keys |-> 0]
        /\ shown = [k \in Keys |-> NotAsked] /\ resources = [k \in Keys |-> Missing]
        /\ cache.entries = [k \in Keys |-> Missing]
    BY DEF Init, EmptyCache, NoResources
  <1>2. NotAsked.kind = "not asked"
    BY Zenon DEF NotAsked
  <1>3. TypeOK
    BY InitPane DEF PaneInv
  <1>4. ASSUME NEW k \in Keys
        PROVE  /\ Queued(k) /\ EntryFirst(k) /\ PastBehind(k)
               /\ Oldest(k) = 0 /\ shown[k] = NotAsked
    <2>1. DOMAIN toHost = {} /\ ToSet(toHost) = {}
      BY <1>1, NoElements
    <2>2. Coming(k) = {} /\ cache.entries[k] = Missing /\ world[k] = 0
      BY <1>1, <2>1 DEF Coming
    <2>3. InReach(k) = {0}
      BY <2>2 DEF InReach
    <2>4. Oldest(k) = 0
      BY <1>3, <2>3, OldestFirst
    <2>5. Queued(k)
      BY <1>1, <2>1 DEF Queued
    <2>6. EntryFirst(k) /\ PastBehind(k) /\ shown[k] = NotAsked
      BY <1>1, <2>2 DEF EntryFirst, PastBehind
    <2> QED
      BY <2>4, <2>5, <2>6
  <1>5. [k \in Keys |-> Oldest(k)] = [k \in Keys |-> 0]
    BY <1>4
  <1>6. \A k \in Keys : shown[k].kind = "not asked"
    BY <1>2, <1>4, Zenon
  <1>7. F!Init
    BY <1>1, <1>5, <1>6, Zenon DEF F!Init
  <1> QED
    BY <1>4, <1>7 DEF FeedInv

(* A run of the script is a Frame of Feed; every other step is a Change,   *)
(* or nothing.                                                             *)
LEMMA NextFeed ==
  ASSUME PaneInv, FeedInv, [Next]_vars
  PROVE  F!Next
  <1>1. TypeOK /\ now \in Nat
    BY DEF PaneInv, TypeOK, MainTyped
  <1>2. ASSUME NEW k \in Keys
        PROVE  /\ Queued(k) /\ EntryFirst(k) /\ PastBehind(k)
               /\ Oldest(k) <= Oldest(k)' /\ Oldest(k)' <= world'[k]
               /\ world[k] <= world'[k]
    <2>1. Queued(k) /\ EntryFirst(k) /\ PastBehind(k)
      BY DEF FeedInv
    <2>2. NoneOlder(k) /\ world'[k] \in Nat /\ world[k] <= world'[k]
      BY <2>1, NextFeeds
    <2> QED
      BY <1>1, <2>1, <2>2, OldestMoves
  <1>3. F!Onward
    BY <1>2 DEF F!Onward
  <1>4. CASE shown' = shown
    <2>1. F!Change
      BY <1>2, <1>3, <1>4 DEF F!Change
    <2> QED
      BY <2>1 DEF F!Next
  <1>5. ASSUME NEW ks \in SUBSET Keys, NEW dropped \in SUBSET Keys, NEW before \in BOOLEAN,
               NEW order, RunFrame(ks, dropped, before, order), world' = world
        PROVE  F!Next
    <2>1. \A k \in Keys : F!Shows(k, shown'[k])
      BY <1>1, <1>2, <1>5, FrameShows
    <2>2. F!Frame
      BY <1>3, <1>5, <2>1 DEF F!Frame
    <2> QED
      BY <2>2 DEF F!Next
  <1>6. CASE Tick
    <2>1. CASE SkipFrame \/ TickAsleep
      BY <1>4, <2>1 DEF SkipFrame, TickAsleep, panel
    <2>2. world' = world
      BY <1>6 DEF Tick, client
    <2> QED
      BY <1>5, <1>6, <2>1, <2>2 DEF Tick
  <1>7. CASE ApplyNext
    BY <1>4, <1>7 DEF ApplyNext, ApplyAnswer, ApplyMutated, ApplyInvalidate, ApplySetScript, panel
  <1>8. CASE StartPump \/ StartFlush \/ FlushNext \/ EndPump \/ Await
    BY <1>4, <1>8 DEF StartPump, StartFlush, FlushNext, EndPump, Await, AwaitDrain, AwaitOver, panel
  <1>9. CASE ServeLoop \/ Pushes
    BY <1>4, <1>9 DEF ServeLoop, Pushes, ServeQuery, ServeMutate, Take, Respond, WorkDone,
                      PushInvalidate, panel
  <1>10. CASE Events
    BY <1>4, <1>10 DEF Events, Input, FallAsleep, TimePasses, StartMutate, Slow, Edit, Change,
                       Script, ServeQuery, ServeMutate, Take, DataChanges, PushScript,
                       ClientExits, panel
  <1>11. CASE UNCHANGED vars
    BY <1>4, <1>11 DEF vars, panel
  <1> QED
    BY <1>6, <1>7, <1>8, <1>9, <1>10, <1>11 DEF Next, Steps, Pump

(* The pane and its client implement Feed, a client that pushes from       *)
(* threads as well: what the script is shown of a key is what its data was *)
(* at some time, and no answer is shown after a newer one, however the     *)
(* cache expires, refetches, drops and stores, and however requests,       *)
(* answers, pushes, reloads and the client's end are interleaved.          *)
THEOREM PaneImplementsFeed == Spec => ImplementsFeed
  <1>1. Init => PaneInv /\ FeedInv /\ F!Init
    BY InitPane, InitFeed
  <1>2. PaneInv /\ FeedInv /\ [Next]_vars => PaneInv' /\ FeedInv'
    BY NextPane, NextFeedInv
  <1>3. PaneInv /\ FeedInv /\ [Next]_vars => [F!Next]_(F!vars)
    BY NextFeed
  <1> QED
    BY <1>1, <1>2, <1>3, PTL DEF Spec, ImplementsFeed, F!Spec

(* Nothing older than v is on the screen, or within reach.                 *)
OnlyFrom(k, v) ==
  /\ v <= Oldest(k)
  /\ shown[k].kind = "ready" => v <= shown[k].version

(* Once an answer of version v has been on the screen for a key, no older  *)
(* value ever is, however often the key is loading, dropped or rejected in *)
(* between.                                                                *)
THEOREM ScreenNeverGoesBack ==
  ASSUME NEW k \in Keys, NEW v \in Nat
  PROVE  Spec => F!NeverBack(k, v)
  <1> DEFINE Seen == shown[k].kind \in {"ready", "errored"} /\ shown[k].version = v
  <1>1. Init => PaneInv /\ FeedInv
    BY InitPane, InitFeed
  <1>2. PaneInv /\ FeedInv /\ [Next]_vars => PaneInv' /\ FeedInv'
    BY NextPane, NextFeedInv
  <1>3. ASSUME PaneInv, FeedInv, Seen
        PROVE  OnlyFrom(k, v)
    <2>1. TypeOK /\ PastBehind(k)
      BY <1>3 DEF PaneInv, FeedInv
    <2>2. shown[k] # NotAsked
      <3>1. NotAsked.kind = "not asked"
        BY Zenon DEF NotAsked
      <3>2. NotAsked.kind # "ready" /\ NotAsked.kind # "errored"
        BY <3>1, Zenon
      <3> QED
        BY <1>3, <3>2
    <2>3. v <= Oldest(k)
      BY <1>3, <2>1, <2>2, OldestFirst DEF PastBehind, Behind
    <2> QED
      BY <1>3, <2>3 DEF OnlyFrom
  <1>4. ASSUME PaneInv, FeedInv, OnlyFrom(k, v), [Next]_vars
        PROVE  OnlyFrom(k, v)'
    <2>1. TypeOK /\ Queued(k) /\ EntryFirst(k)
      BY <1>4 DEF PaneInv, FeedInv
    <2>2. NoneOlder(k) /\ world'[k] \in Nat
      BY <1>4, <2>1, NextFeeds
    <2>3. /\ Oldest(k) \in Nat /\ Oldest(k)' \in Nat /\ Oldest(k) <= Oldest(k)'
          /\ v <= Oldest(k)
      BY <1>4, <2>1, <2>2, OldestMoves DEF OnlyFrom
    <2>4. v <= Oldest(k)'
      BY <2>3
    <2>5. shown'[k].kind = "ready" => v <= shown'[k].version
      <3>1. CASE shown' = shown
        BY <1>4, <3>1 DEF OnlyFrom
      <3>2. CASE F!Frame
        <4>1. shown'[k].kind = "ready" => shown'[k].version = Oldest(k)
          BY <3>2 DEF F!Frame, F!Shows
        <4> QED
          BY <2>3, <4>1
      <3>3. F!Change \/ F!Frame
        BY <1>4, NextFeed DEF F!Next
      <3> QED
        BY <3>1, <3>2, <3>3 DEF F!Change
    <2> QED
      BY <2>4, <2>5 DEF OnlyFrom
  <1>5. OnlyFrom(k, v) => (shown[k].kind = "ready" => v <= shown[k].version)
    BY DEF OnlyFrom
  <1>6. Spec => [](Seen => [](shown[k].kind = "ready" => v <= shown[k].version))
    BY <1>1, <1>2, <1>3, <1>4, <1>5, PTL DEF Spec
  <1> QED
    BY <1>6 DEF F!NeverBack
=============================================================================
