------------------------------ MODULE ListLemmas ------------------------------
(***************************************************************************)
(* What the operators on lists that the specifications use return, for     *)
(* lists in which nothing stands twice: how one more at the end, the first *)
(* or the last one gone, or one gone from anywhere changes what is on the  *)
(* list, and what is at its ends; and where an element is inserted, which  *)
(* needs that a set of naturals has a least element.                       *)
(***************************************************************************)
EXTENDS SequencesExt, SequenceTheorems, WellFoundedInduction, TLAPS

LEMMA EmptyList == IsInjective(<<>>) /\ Range(<<>>) = {}
  BY DEF IsInjective, Range

LEMMA ListWith ==
  ASSUME NEW S, NEW s \in Seq(S), IsInjective(s), NEW e \in S, e \notin Range(s)
  PROVE  /\ Append(s, e) \in Seq(S) /\ IsInjective(Append(s, e))
         /\ Range(Append(s, e)) = Range(s) \cup {e}
         /\ Append(s, e) # <<>> /\ Last(Append(s, e)) = e
         /\ Append(s, e)[1] = IF s = <<>> THEN e ELSE s[1]
<1> DEFINE t == Append(s, e)
<1>1. /\ t \in Seq(S) /\ DOMAIN t = DOMAIN s \cup {Len(s) + 1} /\ Len(s) + 1 \notin DOMAIN s
      /\ \A i \in DOMAIN s : t[i] = s[i]
      /\ t[Len(s) + 1] = e
  OBVIOUS
<1> HIDE DEF t
<1>2. \A i \in DOMAIN s : s[i] # e
  BY DEF Range
<1>3. IsInjective(t)
  BY <1>1, <1>2 DEF IsInjective
<1>4. Range(t) = Range(s) \cup {e}
  BY <1>1 DEF Range
<1>5. t # <<>> /\ Last(t) = e /\ t[1] = IF s = <<>> THEN e ELSE s[1]
  <2>1. Len(t) = Len(s) + 1 /\ (s # <<>> => 1 \in DOMAIN s) /\ (s = <<>> => Len(s) = 0)
    BY DEF t
  <2> QED BY <1>1, <2>1 DEF Last
<1> QED BY <1>1, <1>3, <1>4, <1>5 DEF t

LEMMA ListTail ==
  ASSUME NEW S, NEW s \in Seq(S), IsInjective(s), s # <<>>
  PROVE  /\ Tail(s) \in Seq(S) /\ Head(s) \in S /\ Head(s) \in Range(s)
         /\ IsInjective(Tail(s)) /\ Range(Tail(s)) = Range(s) \ {Head(s)}
<1> DEFINE t == Tail(s)
<1>1. /\ t \in Seq(S) /\ Head(s) = s[1] /\ Head(s) \in S /\ 1 \in DOMAIN s
      /\ DOMAIN t = {i \in Nat : i + 1 \in DOMAIN s /\ i # 0}
      /\ \A i \in DOMAIN t : t[i] = s[i + 1]
      /\ \A i \in DOMAIN s : i = 1 \/ (i - 1 \in DOMAIN t /\ s[i] = t[i - 1])
  OBVIOUS
<1> HIDE DEF t
<1>2. IsInjective(t)
  BY <1>1 DEF IsInjective
<1>3. \A i \in DOMAIN t : t[i] \in Range(s) /\ t[i] # Head(s)
  BY <1>1 DEF Range, IsInjective
<1>4. \A i \in DOMAIN s : s[i] # Head(s) => s[i] \in Range(t)
  BY <1>1 DEF Range
<1>5. Range(t) = Range(s) \ {Head(s)}
  BY <1>3, <1>4 DEF Range
<1> QED BY <1>1, <1>2, <1>5 DEF t, Range

LEMMA ListFront ==
  ASSUME NEW S, NEW s \in Seq(S), IsInjective(s), s # <<>>
  PROVE  /\ Front(s) \in Seq(S) /\ Last(s) \in S /\ Last(s) \in Range(s)
         /\ IsInjective(Front(s)) /\ Range(Front(s)) = Range(s) \ {Last(s)}
         /\ Front(s) # <<>> => Front(s)[1] = s[1]
<1> DEFINE t == Front(s)
<1>1. Len(s) \in Nat \ {0} /\ DOMAIN s = 1 .. Len(s) /\ \A i \in DOMAIN s : s[i] \in S
  OBVIOUS
<1>2. /\ t \in Seq(S) /\ DOMAIN t = 1 .. Len(s) - 1 /\ \A i \in DOMAIN t : t[i] = s[i]
  <2>1. t = SubSeq(s, 1, Len(s) - 1)
    BY DEF Front
  <2>2. /\ t \in Seq(S) /\ Len(t) = Len(s) - 1
        /\ \A i \in 1 .. Len(s) - 1 : t[i] = s[i]
    BY <1>1, <2>1, SubSeqProperties
  <2> QED BY <2>2
<1>3. Last(s) = s[Len(s)] /\ Len(s) \in DOMAIN s
  BY <1>1 DEF Last
<1> HIDE DEF t
<1>4. IsInjective(t)
  BY <1>1, <1>2 DEF IsInjective
<1>5. \A i \in DOMAIN t : i \in DOMAIN s /\ i # Len(s)
  BY <1>1, <1>2
<1>6. Range(t) = Range(s) \ {Last(s)}
  <2>1. \A i \in DOMAIN t : t[i] \in Range(s) /\ t[i] # Last(s)
    BY <1>2, <1>3, <1>5 DEF Range, IsInjective
  <2>2. \A i \in DOMAIN s : s[i] # Last(s) => i \in DOMAIN t
    BY <1>1, <1>2, <1>3
  <2> QED BY <1>2, <2>1, <2>2 DEF Range
<1>7. t # <<>> => t[1] = s[1]
  <2>1. t # <<>> => 1 \in DOMAIN t
    BY <1>2
  <2> QED BY <1>2, <2>1
<1> QED BY <1>1, <1>2, <1>3, <1>4, <1>6, <1>7 DEF t, Range

\* A list whose ends differ has a second element.
LEMMA ListEnds ==
  ASSUME NEW S, NEW s \in Seq(S), s # <<>>
  PROVE  /\ Head(s) = s[1] /\ Head(s) \in S /\ Contains(s, Head(s)) /\ Contains(s, Last(s))
         /\ Head(s) # Last(s) => s[2] \in S /\ Contains(s, s[2])
<1>1. Len(s) \in Nat \ {0} /\ \A i \in 1 .. Len(s) : s[i] \in S
  OBVIOUS
<1>2. Head(s) = s[1] /\ Last(s) = s[Len(s)]
  BY DEF Last
<1>3. Head(s) # Last(s) => 2 \in 1 .. Len(s)
  BY <1>1, <1>2
<1>4. 1 \in 1 .. Len(s) /\ Len(s) \in 1 .. Len(s)
  BY <1>1
<1> QED BY <1>1, <1>2, <1>3, <1>4 DEF Contains

LEMMA ContainsIsRange ==
  ASSUME NEW S, NEW s \in Seq(S)
  PROVE  \A x : Contains(s, x) <=> x \in Range(s)
  BY DEF Contains, Range

LEMMA RemoveAtEntries ==
  ASSUME NEW S, NEW s \in Seq(S), NEW i \in DOMAIN s
  PROVE  /\ RemoveAt(s, i) \in Seq(S) /\ Len(RemoveAt(s, i)) = Len(s) - 1
         /\ \A j \in 1 .. Len(s) - 1 : RemoveAt(s, i)[j] = IF j < i THEN s[j] ELSE s[j + 1]
<1> DEFINE a == SubSeq(s, 1, i - 1)
           b == SubSeq(s, i + 1, Len(s))
<1>1. /\ a \in Seq(S) /\ Len(a) = i - 1 /\ \A j \in 1 .. i - 1 : a[j] = s[j]
      /\ b \in Seq(S) /\ Len(b) = Len(s) - i /\ \A j \in 1 .. Len(s) - i : b[j] = s[i + j]
  <2>1. i \in Nat /\ Len(s) \in Nat /\ i # 0 /\ i <= Len(s) /\ \A j \in 1 .. Len(s) : s[j] \in S
    OBVIOUS
  <2> QED BY <2>1, SubSeqProperties
<1> HIDE DEF a, b
<1>2. /\ a \o b \in Seq(S) /\ Len(a \o b) = Len(s) - 1
      /\ \A j \in 1 .. Len(s) - 1 : (a \o b)[j] = IF j <= i - 1 THEN a[j] ELSE b[j - (i - 1)]
  <2>1. /\ a \o b \in Seq(S) /\ Len(a \o b) = Len(a) + Len(b)
        /\ \A j \in 1 .. Len(a) + Len(b) :
             (a \o b)[j] = IF j <= Len(a) THEN a[j] ELSE b[j - Len(a)]
    BY <1>1, ConcatProperties
  <2>2. i \in Nat /\ Len(s) \in Nat /\ (i - 1) + (Len(s) - i) = Len(s) - 1 OBVIOUS
  <2> QED BY <1>1, <2>1, <2>2
<1>3. \A j \in 1 .. Len(s) - 1 : j > i - 1 => b[j - (i - 1)] = s[j + 1]
  <2> TAKE j \in 1 .. Len(s) - 1
  <2> HAVE j > i - 1
  <2>1. j - (i - 1) \in 1 .. Len(s) - i /\ i + (j - (i - 1)) = j + 1
    OBVIOUS
  <2> QED BY <2>1, <1>1
<1>4. RemoveAt(s, i) = a \o b
  BY DEF RemoveAt, a, b
<1>5. \A j \in 1 .. Len(s) - 1 : (a \o b)[j] = IF j < i THEN s[j] ELSE s[j + 1]
  <2> TAKE j \in 1 .. Len(s) - 1
  <2>1. CASE j < i
    <3>1. i \in Nat /\ j \in 1 .. i - 1 BY <2>1
    <3> QED BY <2>1, <1>1, <1>2, <3>1
  <2>2. CASE ~(j < i)
    BY <2>2, <1>2, <1>3
  <2> QED BY <2>1, <2>2
<1> QED BY <1>2, <1>4, <1>5

LEMMA RemoveFirstIsRemoveAt ==
  ASSUME NEW S, NEW s \in Seq(S), IsInjective(s), NEW i \in DOMAIN s
  PROVE  RemoveFirst(s, s[i]) = RemoveAt(s, i)
<1>1. {j \in 1..Len(s) : s[j] = s[i]} = {i}
  BY DEF IsInjective
<1>2. Min({i}) = i
  BY DEF Min
<1> QED BY <1>1, <1>2 DEF RemoveFirst, SelectInSeq

LEMMA ListWithout ==
  ASSUME NEW S, NEW s \in Seq(S), IsInjective(s), NEW e \in Range(s)
  PROVE  /\ RemoveFirst(s, e) \in Seq(S) /\ IsInjective(RemoveFirst(s, e))
         /\ Range(RemoveFirst(s, e)) = Range(s) \ {e}
<1>1. PICK i \in DOMAIN s : s[i] = e
  BY DEF Range
<1>2. RemoveFirst(s, e) = RemoveAt(s, i)
  BY <1>1, RemoveFirstIsRemoveAt
<1> DEFINE t == RemoveAt(s, i)
<1>3. /\ t \in Seq(S) /\ DOMAIN t = 1 .. Len(s) - 1
      /\ \A j \in DOMAIN t : t[j] = IF j < i THEN s[j] ELSE s[j + 1]
  <2>1. t \in Seq(S) /\ Len(t) = Len(s) - 1 /\ Len(s) \in Nat \ {0}
    BY RemoveAtEntries
  <2>2. DOMAIN t = 1 .. Len(t)
    BY <2>1
  <2> QED BY <2>1, <2>2, RemoveAtEntries
<1> HIDE DEF t
<1>4. IsInjective(t)
  BY <1>3 DEF IsInjective
<1>5. \A j \in DOMAIN t : t[j] \in Range(s) \ {e}
  BY <1>1, <1>3 DEF IsInjective, Range
<1>6. ASSUME NEW k \in DOMAIN s, s[k] # e PROVE s[k] \in Range(t)
  <2>1. CASE k < i
    BY <2>1, <1>3, k \in DOMAIN t DEF Range
  <2>2. CASE k > i
    <3>1. k - 1 \in DOMAIN t /\ t[k - 1] = s[k]
      BY <2>2, <1>3
    <3> QED BY <3>1 DEF Range
  <2> QED BY <1>1, <1>6, <2>1, <2>2
<1> QED BY <1>2, <1>3, <1>4, <1>5, <1>6 DEF Range, t

LEMMA RemoveFirstOfNone ==
  ASSUME NEW S, NEW s \in Seq(S), NEW e, ~Contains(s, e)
  PROVE  RemoveFirst(s, e) = s
  BY DEF RemoveFirst, Contains

-----------------------------------------------------------------------------
\* What the library says of `<` as a relation R, said of `<=`.
LEMMA LeastOf ==
  ASSUME NEW T \in SUBSET Nat, T # {}, NEW R, \A x, y \in Nat : <<y, x>> \in R <=> y < x,
         \E x \in T : \A y \in T : <<y, x>> \notin R
  PROVE  \E x \in T : \A y \in T : x <= y
<1>1. PICK x \in T : \A y \in T : <<y, x>> \notin R
  OBVIOUS
<1>2. ASSUME NEW y \in T PROVE x <= y
  <2>1. x \in Nat /\ y \in Nat
    OBVIOUS
  <2>2. ~(y < x)
    BY <1>1, <2>1
  <2> QED BY <2>1, <2>2
<1> QED BY <1>2

\* A set of naturals has a least element, be it finite or not.
LEMMA MinOf ==
  ASSUME NEW T \in SUBSET Nat, T # {}
  PROVE  Min(T) \in T /\ \A x \in T : Min(T) <= x
<1> DEFINE R == OpToRel(<, Nat)
<1>1. \A x, y \in Nat : <<y, x>> \in R <=> y < x
  BY DEF OpToRel
<1>2. \E x \in T : \A y \in T : <<y, x>> \notin R
  BY NatLessThanWellFounded, WFMin
<1> HIDE DEF R
<1>3. \E x \in T : \A y \in T : x <= y
  BY <1>1, <1>2, LeastOf
<1> QED BY <1>3 DEF Min

LEMMA InsertAtEntries ==
  ASSUME NEW S, NEW s \in Seq(S), NEW e \in S, NEW i \in 1 .. Len(s) + 1
  PROVE  /\ InsertAt(s, i, e) \in Seq(S) /\ Len(InsertAt(s, i, e)) = Len(s) + 1
         /\ \A j \in 1 .. Len(s) + 1 :
              InsertAt(s, i, e)[j] = IF j < i THEN s[j] ELSE IF j = i THEN e ELSE s[j - 1]
<1> DEFINE a == SubSeq(s, 1, i - 1)
           b == SubSeq(s, i, Len(s))
           m == a \o <<e>>
<1>1. /\ a \in Seq(S) /\ Len(a) = i - 1 /\ \A j \in 1 .. i - 1 : a[j] = s[j]
      /\ b \in Seq(S) /\ Len(b) = Len(s) - i + 1
      /\ \A j \in 1 .. Len(s) - i + 1 : b[j] = s[i + j - 1]
  <2>1. i \in Nat /\ Len(s) \in Nat /\ i # 0 /\ i <= Len(s) + 1 /\ \A j \in 1 .. Len(s) : s[j] \in S
    OBVIOUS
  <2> QED BY <2>1, SubSeqProperties
<1> HIDE DEF a, b
<1>2. m \in Seq(S) /\ Len(m) = i /\ \A j \in 1 .. i : m[j] = IF j < i THEN s[j] ELSE e
  <2>1. <<e>> \in Seq(S) /\ Len(<<e>>) = 1 /\ <<e>>[1] = e
    OBVIOUS
  <2>2. /\ m \in Seq(S) /\ Len(m) = Len(a) + 1
        /\ \A j \in 1 .. Len(a) + 1 : m[j] = IF j <= Len(a) THEN a[j] ELSE <<e>>[j - Len(a)]
    BY <1>1, <2>1, ConcatProperties
  <2>3. i \in Nat /\ (i - 1) + 1 = i
    OBVIOUS
  <2>4. ASSUME NEW j \in 1 .. i PROVE m[j] = IF j < i THEN s[j] ELSE e
    <3>1. CASE j < i
      <4>1. j \in 1 .. i - 1 /\ j <= i - 1
        BY <3>1
      <4> QED BY <1>1, <2>2, <2>3, <3>1, <4>1
    <3>2. CASE j = i
      <4>1. ~(j <= Len(a)) /\ j - Len(a) = 1 /\ j \in 1 .. Len(a) + 1
        BY <3>2, <1>1
      <4>2. m[j] = <<e>>[j - Len(a)]
        BY <2>2, <4>1
      <4>3. m[j] = e
        BY <2>1, <4>1, <4>2
      <4>4. ~(j < i)
        BY <3>2
      <4> QED BY <4>3, <4>4
    <3>3. j < i \/ j = i
      BY <2>3
    <3> QED BY <3>1, <3>2, <3>3
  <2> QED BY <1>1, <2>2, <2>3, <2>4
<1> HIDE DEF m
<1>3. /\ m \o b \in Seq(S) /\ Len(m \o b) = Len(s) + 1
      /\ \A j \in 1 .. Len(s) + 1 : (m \o b)[j] = IF j <= i THEN m[j] ELSE b[j - i]
  <2>1. /\ m \o b \in Seq(S) /\ Len(m \o b) = Len(m) + Len(b)
        /\ \A j \in 1 .. Len(m) + Len(b) : (m \o b)[j] = IF j <= Len(m) THEN m[j]
                                                         ELSE b[j - Len(m)]
    BY <1>1, <1>2, ConcatProperties
  <2>2. Len(m) = i /\ Len(m) + Len(b) = Len(s) + 1
    <3>1. i \in Nat /\ Len(s) \in Nat /\ i + (Len(s) - i + 1) = Len(s) + 1
      OBVIOUS
    <3> QED BY <1>1, <1>2, <3>1
  <2> QED BY <2>1, <2>2
<1>5. ASSUME NEW j \in 1 .. Len(s) + 1
      PROVE  (m \o b)[j] = IF j < i THEN s[j] ELSE IF j = i THEN e ELSE s[j - 1]
  <2>1. CASE j <= i
    <3>1. j \in 1 .. i
      BY <2>1
    <3> QED BY <2>1, <3>1, <1>2, <1>3
  <2>2. CASE i < j
    <3>1. j - i \in 1 .. Len(s) - i + 1 /\ i + (j - i) - 1 = j - 1
      BY <2>2
    <3>2. (m \o b)[j] = b[j - i]
      BY <2>2, <1>3
    <3>3. b[j - i] = s[j - 1]
      BY <3>1, <1>1
    <3>4. ~(j < i) /\ j # i
      BY <2>2
    <3> QED BY <3>2, <3>3, <3>4
  <2>3. j <= i \/ i < j
    OBVIOUS
  <2> QED BY <2>1, <2>2, <2>3
<1>6. InsertAt(s, i, e) = m \o b
  BY DEF InsertAt, a, b, m
<1> QED BY <1>3, <1>5, <1>6

LEMMA ListInsert ==
  ASSUME NEW S, NEW s \in Seq(S), IsInjective(s), NEW e \in S, e \notin Range(s),
         NEW i \in 1 .. Len(s) + 1
  PROVE  IsInjective(InsertAt(s, i, e)) /\ Range(InsertAt(s, i, e)) = Range(s) \cup {e}
<1> DEFINE t == InsertAt(s, i, e)
<1>1. /\ DOMAIN t = 1 .. Len(s) + 1 /\ DOMAIN s = 1 .. Len(s) /\ Len(s) \in Nat
      /\ \A j \in DOMAIN t : t[j] = IF j < i THEN s[j] ELSE IF j = i THEN e ELSE s[j - 1]
  <2>1. t \in Seq(S) /\ Len(t) = Len(s) + 1
    BY InsertAtEntries
  <2>2. DOMAIN t = 1 .. Len(s) + 1 /\ DOMAIN s = 1 .. Len(s) /\ Len(s) \in Nat
    BY <2>1
  <2>3. \A j \in 1 .. Len(s) + 1 : t[j] = IF j < i THEN s[j] ELSE IF j = i THEN e ELSE s[j - 1]
    BY InsertAtEntries
  <2> QED BY <2>2, <2>3
<1> HIDE DEF t
<1>2. \A j \in DOMAIN s : s[j] # e
  BY DEF Range
<1>3. IsInjective(t)
  BY <1>1, <1>2 DEF IsInjective
<1>4. \A j \in DOMAIN t : t[j] \in Range(s) \cup {e}
  BY <1>1 DEF Range
<1>5. ASSUME NEW j \in DOMAIN s PROVE s[j] \in Range(t)
  <2>1. CASE j < i
    <3>1. j \in DOMAIN t /\ t[j] = s[j]
      BY <2>1, <1>1
    <3> QED BY <3>1 DEF Range
  <2>2. CASE ~(j < i)
    <3>1. j + 1 \in DOMAIN t /\ t[j + 1] = s[j]
      BY <2>2, <1>1
    <3> QED BY <3>1 DEF Range
  <2> QED BY <2>1, <2>2
<1>6. e \in Range(t)
  <2>1. i \in DOMAIN t /\ t[i] = e
    BY <1>1
  <2> QED BY <2>1 DEF Range
<1> QED BY <1>3, <1>4, <1>5, <1>6 DEF Range, t
=============================================================================
