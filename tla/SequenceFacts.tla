--------------------------- MODULE SequenceFacts ----------------------------
(***************************************************************************)
(* Facts about sequences whose elements have no type: what the operators   *)
(* of Sequences make of them, element by element.                          *)
(***************************************************************************)
EXTENDS Integers, Sequences, SequenceTheorems, TLAPS

IsSeq(s) == Len(s) \in Nat /\ s = [i \in 1 .. Len(s) |-> s[i]]

(* A function on 1 .. n is a sequence of length n.                         *)
LEMMA MadeSeq ==
  ASSUME NEW n \in Nat, NEW s, s = [i \in 1 .. n |-> s[i]]
  PROVE  Len(s) = n /\ IsSeq(s)
  <1> DEFINE S == {s[i] : i \in 1 .. n}
  <1>1. s \in [1 .. n -> S]
    OBVIOUS
  <1>2. s \in Seq(S)
    BY <1>1, SeqDef, Zenon
  <1>3. Len(s) \in Nat /\ DOMAIN s = 1 .. Len(s)
    BY <1>2, LenProperties
  <1>4. DOMAIN s = 1 .. n
    OBVIOUS
  <1> HIDE DEF S
  <1>5. Len(s) = n
    BY <1>3, <1>4
  <1> QED
    BY <1>5 DEF IsSeq

(* A sequence is a sequence over a set, whatever else the set holds.       *)
LEMMA SeqOver ==
  ASSUME NEW s, IsSeq(s), NEW e
  PROVE  \E S : s \in Seq(S) /\ e \in S
  <1> DEFINE S == {s[i] : i \in 1 .. Len(s)} \cup {e}
  <1>1. s \in [1 .. Len(s) -> S]
    BY DEF IsSeq
  <1>2. s \in Seq(S)
    BY <1>1, SeqDef, Zenon DEF IsSeq
  <1> QED
    BY <1>2

(* Sequences of one length with the same elements are the same.            *)
LEMMA SeqSame ==
  ASSUME NEW s, NEW t, IsSeq(s), IsSeq(t), Len(s) = Len(t),
         \A i \in 1 .. Len(s) : s[i] = t[i]
  PROVE  s = t
  BY DEF IsSeq

(* The empty sequence is the one of length 0.                              *)
LEMMA EmptyFacts ==
  /\ IsSeq(<<>>) /\ Len(<<>>) = 0
  /\ \A s : IsSeq(s) => (s = <<>> <=> Len(s) = 0)
  <1>1. Len(<<>>) = 0
    OBVIOUS
  <1>2. <<>> = [i \in 1 .. 0 |-> <<>>[i]]
    OBVIOUS
  <1>3. ASSUME NEW s, IsSeq(s), Len(s) = 0 PROVE s = <<>>
    BY <1>1, <1>2, <1>3, MadeSeq, SeqSame
  <1> QED
    BY <1>1, <1>2, <1>3, MadeSeq

(* The first elements of a sequence.                                       *)
LEMMA SubSeqFacts ==
  ASSUME NEW s, IsSeq(s), NEW k \in 0 .. Len(s)
  PROVE  /\ IsSeq(SubSeq(s, 1, k)) /\ Len(SubSeq(s, 1, k)) = k
         /\ \A i \in 1 .. k : SubSeq(s, 1, k)[i] = s[i]
  <1>1. PICK S : s \in Seq(S)
    BY SeqOver
  <1>2. k \in Int /\ \A i \in 1 .. k : s[i] \in S
    BY <1>1, ElementOfSeq DEF IsSeq
  <1>3. /\ SubSeq(s, 1, k) \in Seq(S)
        /\ Len(SubSeq(s, 1, k)) = IF 1 <= k THEN k - 1 + 1 ELSE 0
        /\ \A i \in 1 .. k - 1 + 1 : SubSeq(s, 1, k)[i] = s[1 + i - 1]
    BY <1>2, SubSeqProperties
  <1>4. Len(SubSeq(s, 1, k)) = k
    BY <1>2, <1>3
  <1>5. SubSeq(s, 1, k) = [i \in 1 .. k |-> SubSeq(s, 1, k)[i]]
    BY <1>3, <1>4, LenProperties
  <1> QED
    BY <1>3, <1>4, <1>5 DEF IsSeq

(* A sequence with one element more.                                       *)
LEMMA AppendFacts ==
  ASSUME NEW s, IsSeq(s), NEW e
  PROVE  /\ IsSeq(Append(s, e)) /\ Len(Append(s, e)) = Len(s) + 1
         /\ \A i \in 1 .. Len(s) : Append(s, e)[i] = s[i]
         /\ Append(s, e)[Len(s) + 1] = e
  <1>1. PICK S : s \in Seq(S) /\ e \in S
    BY SeqOver
  <1>2. /\ Append(s, e) \in Seq(S)
        /\ Len(Append(s, e)) = Len(s) + 1
        /\ \A i \in 1 .. Len(s) : Append(s, e)[i] = s[i]
        /\ Append(s, e)[Len(s) + 1] = e
    BY <1>1, AppendProperties
  <1>3. /\ Len(Append(s, e)) \in Nat
        /\ Append(s, e) = [i \in 1 .. Len(Append(s, e)) |-> Append(s, e)[i]]
    BY <1>2, LenProperties
  <1> QED
    BY <1>2, <1>3 DEF IsSeq

(* A sequence without its first element.                                   *)
LEMMA TailFacts ==
  ASSUME NEW s, IsSeq(s), Len(s) # 0
  PROVE  /\ Head(s) = s[1]
         /\ IsSeq(Tail(s)) /\ Len(Tail(s)) = Len(s) - 1
         /\ \A i \in 1 .. Len(s) - 1 : Tail(s)[i] = s[i + 1]
  <1>1. PICK S : s \in Seq(S)
    BY SeqOver
  <1>2. s # <<>>
    OBVIOUS
  <1>3. /\ Tail(s) \in Seq(S)
        /\ Len(Tail(s)) = Len(s)-1
        /\ \A i \in 1 .. Len(Tail(s)) : Tail(s)[i] = s[i+1]
    BY <1>1, <1>2, HeadTailProperties
  <1>4. Len(Tail(s)) \in Nat /\ Tail(s) = [i \in 1 .. Len(Tail(s)) |-> Tail(s)[i]]
    BY <1>3, LenProperties
  <1>5. Head(s) = s[1]
    BY <1>1, <1>2
  <1> QED
    BY <1>3, <1>4, <1>5 DEF IsSeq

(* A sequence with one element changed.                                    *)
LEMMA ExceptFacts ==
  ASSUME NEW s, IsSeq(s), NEW k \in 1 .. Len(s), NEW e
  PROVE  /\ IsSeq([s EXCEPT ![k] = e]) /\ Len([s EXCEPT ![k] = e]) = Len(s)
         /\ \A i \in 1 .. Len(s) :
              [s EXCEPT ![k] = e][i] = IF i = k THEN e ELSE s[i]
  <1> DEFINE t == [s EXCEPT ![k] = e]
  <1>1. t = [i \in 1 .. Len(s) |-> IF i = k THEN e ELSE s[i]]
    BY DEF IsSeq
  <1>2. Len(s) \in Nat /\ t = [i \in 1 .. Len(s) |-> t[i]]
    BY <1>1 DEF IsSeq
  <1> HIDE DEF t
  <1>3. Len(t) = Len(s) /\ IsSeq(t)
    BY <1>2, MadeSeq
  <1> QED
    BY <1>1, <1>3 DEF t
=============================================================================
