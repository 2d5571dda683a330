--------------------------- MODULE SequenceLemmas ---------------------------
(***************************************************************************)
(* Facts about finite sequences that the proofs of several modules use:    *)
(* appending, taking the first element, and erasing one in the middle.     *)
(***************************************************************************)
EXTENDS SequencesExt, FiniteSetTheorems, TLAPS

(* The elements of a sequence after each operation. *)
LEMMA EmptyRange == Range(<<>>) = {} /\ DOMAIN <<>> = {}
BY DEF Range

LEMMA SequenceFacts ==
  ASSUME NEW S, NEW s \in Seq(S)
  PROVE  /\ Range(s) \subseteq S
         /\ \A x \in S : Append(s, x) \in Seq(S) /\ Range(Append(s, x)) = Range(s) \cup {x}
         /\ s # <<>> => Tail(s) \in Seq(S) /\ Range(Tail(s)) \subseteq Range(s)
         /\ s # <<>> => 1 \in DOMAIN s /\ Head(s) = s[1] /\ Head(s) \in Range(s)
<1>1. Range(s) \subseteq S
  BY DEF Range
<1>2. ASSUME NEW x \in S
      PROVE  Append(s, x) \in Seq(S) /\ Range(Append(s, x)) = Range(s) \cup {x}
  <2>1. Append(s, x) \in Seq(S) /\ Len(Append(s, x)) = Len(s) + 1
    OBVIOUS
  <2>2. \A i \in 1..Len(s) : Append(s, x)[i] = s[i]
    OBVIOUS
  <2>3. Append(s, x)[Len(s) + 1] = x
    OBVIOUS
  <2>4. DOMAIN Append(s, x) = 1..(Len(s) + 1) /\ DOMAIN s = 1..Len(s) /\ Len(s) \in Nat
    BY <2>1
  <2>5. \A i \in 1..(Len(s) + 1) : i \in 1..Len(s) \/ i = Len(s) + 1
    BY <2>4
  <2>6. 1..Len(s) \subseteq 1..(Len(s) + 1) /\ Len(s) + 1 \in 1..(Len(s) + 1)
    BY <2>4
  <2>7. Range(Append(s, x)) \subseteq Range(s) \cup {x}
    BY <2>2, <2>3, <2>4, <2>5 DEF Range
  <2>8. Range(s) \cup {x} \subseteq Range(Append(s, x))
    BY <2>2, <2>3, <2>4, <2>6, Zenon DEF Range
  <2> QED  BY <2>1, <2>7, <2>8
<1>3. ASSUME s # <<>>
      PROVE  /\ Tail(s) \in Seq(S) /\ Range(Tail(s)) \subseteq Range(s)
             /\ 1 \in DOMAIN s /\ Head(s) = s[1] /\ Head(s) \in Range(s)
  BY <1>3 DEF Range
<1> QED  BY <1>1, <1>2, <1>3

(* Erasing one element keeps the others in their order. *)
LEMMA RemoveAtFacts ==
  ASSUME NEW S, NEW s \in Seq(S), NEW i \in DOMAIN s
  PROVE  /\ RemoveAt(s, i) \in Seq(S)
         /\ Len(RemoveAt(s, i)) = Len(s) - 1
         /\ \A j \in 1..(Len(s) - 1) : RemoveAt(s, i)[j] = s[IF j < i THEN j ELSE j + 1]
         /\ Range(RemoveAt(s, i)) \subseteq Range(s)
<1> DEFINE l == SubSeq(s, 1, i - 1)
           r == SubSeq(s, i + 1, Len(s))
<1>1. Len(s) \in Nat /\ i \in 1..Len(s)
  OBVIOUS
<1>2. l \in Seq(S) /\ Len(l) = i - 1 /\ \A j \in 1..(i - 1) : l[j] = s[j]
  BY <1>1
<1>3. r \in Seq(S) /\ Len(r) = Len(s) - i /\ \A j \in 1..(Len(s) - i) : r[j] = s[i + j]
  BY <1>1
<1>4. RemoveAt(s, i) = l \o r
  BY DEF RemoveAt
<1> HIDE DEF l, r
<1>5. RemoveAt(s, i) \in Seq(S) /\ Len(RemoveAt(s, i)) = Len(s) - 1
  BY <1>1, <1>2, <1>3, <1>4
<1>6. ASSUME NEW j \in 1..(Len(s) - 1)
      PROVE  RemoveAt(s, i)[j] = s[IF j < i THEN j ELSE j + 1]
  <2>1. CASE j < i
    BY <1>1, <1>2, <1>3, <1>4, <2>1
  <2>2. CASE ~(j < i)
    <3>1. j - (i - 1) \in 1..(Len(s) - i) /\ i + (j - (i - 1)) = j + 1
      BY <1>1, <2>2
    <3>2. (l \o r)[j] = r[j - Len(l)]
      BY <1>1, <1>2, <1>3, <2>2
    <3>3. r[j - (i - 1)] = s[j + 1]
      BY <1>3, <3>1
    <3> QED  BY <1>2, <1>4, <2>2, <3>2, <3>3
  <2> QED  BY <2>1, <2>2
<1>7. Range(RemoveAt(s, i)) \subseteq Range(s)
  <2> SUFFICES ASSUME NEW j \in 1..(Len(s) - 1) PROVE RemoveAt(s, i)[j] \in Range(s)
    BY <1>5 DEF Range
  <2>1. (IF j < i THEN j ELSE j + 1) \in DOMAIN s
    BY <1>1
  <2> QED  BY <1>6, <2>1 DEF Range
<1> QED  BY <1>5, <1>6, <1>7

(* Every element is the first one or in the rest. *)
LEMMA HeadAndTail ==
  ASSUME NEW S, NEW s \in Seq(S), s # <<>>
  PROVE  /\ Head(s) \in S /\ Head(s) \in Range(s)
         /\ Tail(s) \in Seq(S)
         /\ Range(s) \subseteq {Head(s)} \cup Range(Tail(s))
<1>1. Head(s) \in S /\ Head(s) = s[1] /\ 1 \in DOMAIN s
  OBVIOUS
<1>2. Tail(s) \in Seq(S) /\ Len(Tail(s)) = Len(s) - 1 /\ Len(s) \in Nat \ {0}
  OBVIOUS
<1>3. ASSUME NEW i \in DOMAIN s, i # 1
      PROVE  s[i] \in Range(Tail(s))
  <2>1. i - 1 \in DOMAIN Tail(s) /\ Tail(s)[i - 1] = s[i]
    BY <1>2, <1>3
  <2> QED  BY <2>1 DEF Range
<1>4. Range(s) \subseteq {Head(s)} \cup Range(Tail(s))
  BY <1>1, <1>3 DEF Range
<1> QED  BY <1>1, <1>2, <1>4 DEF Range

(* No repetitions. *)
Unique(s) == \A i, j \in DOMAIN s : s[i] = s[j] => i = j

LEMMA UniqueAppend ==
  ASSUME NEW S, NEW s \in Seq(S), Unique(s), NEW x \in S, x \notin Range(s)
  PROVE  Unique(Append(s, x))
<1>1. DOMAIN Append(s, x) = 1..(Len(s) + 1) /\ DOMAIN s = 1..Len(s) /\ Len(s) \in Nat
  OBVIOUS
<1>2. \A i \in 1..Len(s) : Append(s, x)[i] = s[i]
  OBVIOUS
<1>3. Append(s, x)[Len(s) + 1] = x
  OBVIOUS
<1>4. \A i \in 1..(Len(s) + 1) : i \in 1..Len(s) \/ i = Len(s) + 1
  BY <1>1
<1> QED  BY <1>1, <1>2, <1>3, <1>4 DEF Range, Unique

LEMMA RemoveAtUnique ==
  ASSUME NEW S, NEW s \in Seq(S), Unique(s), NEW i \in DOMAIN s
  PROVE  /\ Unique(RemoveAt(s, i))
         /\ Range(RemoveAt(s, i)) = Range(s) \ {s[i]}
<1> DEFINE e == RemoveAt(s, i)
<1>2. Len(s) \in Nat /\ i \in 1..Len(s) /\ DOMAIN s = 1..Len(s)
  OBVIOUS
<1>3. e \in Seq(S) /\ Len(e) = Len(s) - 1
  BY RemoveAtFacts
<1>4. \A j \in 1..(Len(s) - 1) : e[j] = s[IF j < i THEN j ELSE j + 1]
  BY RemoveAtFacts
<1> HIDE DEF e
<1>5. DOMAIN e = 1..(Len(s) - 1)
  BY <1>3
<1>6. ASSUME NEW j \in DOMAIN e
      PROVE  e[j] \in Range(s) \ {s[i]}
  <2>1. (IF j < i THEN j ELSE j + 1) \in DOMAIN s /\ (IF j < i THEN j ELSE j + 1) # i
    BY <1>2, <1>5
  <2> QED  BY <1>4, <1>5, <2>1 DEF Unique, Range
<1>7. ASSUME NEW k \in DOMAIN s, k # i
       PROVE  s[k] \in Range(e)
  <2>1. CASE k < i
    <3>1. k \in DOMAIN e /\ e[k] = s[k]
      BY <1>2, <1>4, <1>5, <2>1
    <3> QED  BY <3>1 DEF Range
  <2>2. CASE ~(k < i)
    <3>1. k - 1 \in DOMAIN e /\ e[k - 1] = s[(k - 1) + 1] /\ (k - 1) + 1 = k
      BY <1>2, <1>4, <1>5, <1>7, <2>2
    <3> QED  BY <3>1 DEF Range
  <2> QED  BY <2>1, <2>2
<1>8. Range(e) = Range(s) \ {s[i]}
  BY <1>6, <1>7 DEF Range
<1>9. ASSUME NEW j \in DOMAIN e, NEW k \in DOMAIN e, e[j] = e[k]
       PROVE  j = k
  <2>1. /\ (IF j < i THEN j ELSE j + 1) \in DOMAIN s
        /\ (IF k < i THEN k ELSE k + 1) \in DOMAIN s
    BY <1>2, <1>5
  <2>2. (IF j < i THEN j ELSE j + 1) = (IF k < i THEN k ELSE k + 1)
    BY <1>4, <1>5, <1>9, <2>1 DEF Unique
  <2> QED  BY <1>2, <1>5, <2>2
<1> QED  BY <1>8, <1>9 DEF Unique, e
(* The first element of a sequence without repetitions is not in the rest. *)
LEMMA UniqueTail ==
  ASSUME NEW S, NEW s \in Seq(S), Unique(s), s # <<>>
  PROVE  /\ Unique(Tail(s))
         /\ Range(Tail(s)) = Range(s) \ {Head(s)}
<1>1. /\ Tail(s) \in Seq(S) /\ Len(Tail(s)) = Len(s) - 1 /\ Len(s) \in Nat \ {0}
      /\ DOMAIN s = 1..Len(s) /\ DOMAIN Tail(s) = 1..(Len(s) - 1)
  OBVIOUS
<1>2. \A i \in 1..(Len(s) - 1) : Tail(s)[i] = s[i + 1] /\ i + 1 \in DOMAIN s /\ i + 1 # 1
  BY <1>1
<1>3. Head(s) = s[1] /\ 1 \in DOMAIN s
  BY <1>1
<1>4. Unique(Tail(s))
  BY <1>1, <1>2 DEF Unique
<1>5. Range(Tail(s)) \subseteq Range(s) \ {Head(s)}
  BY <1>1, <1>2, <1>3 DEF Range, Unique
<1>6. Range(s) \subseteq {Head(s)} \cup Range(Tail(s))
  BY HeadAndTail
<1> QED  BY <1>4, <1>5, <1>6

(* The elements of a finite set in some order. *)
LEMMA SetToSeqFacts ==
  ASSUME NEW S, IsFiniteSet(S)
  PROVE  SetToSeq(S) \in Seq(S)
<1>1. Cardinality(S) \in Nat
  BY FS_CardinalityType
<1>2. PICK f : f \in Bijection(1..Cardinality(S), S)
  BY FS_CardinalityType DEF ExistsBijection
<1>3. f \in [1..Cardinality(S) -> S] /\ IsInjective(f)
  BY <1>2 DEF Bijection, Injection, IsInjective
<1>4. SetToSeq(S) \in [1..Cardinality(S) -> S]
  BY <1>3 DEF SetToSeq
<1> QED  BY <1>1, <1>4
=============================================================================
