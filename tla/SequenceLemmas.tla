--------------------------- MODULE SequenceLemmas ---------------------------
(***************************************************************************)
(* Facts about sequences that the proofs of the packet modules share: what *)
(* FlattenSeq computes, and what the splitter of a reader takes off the    *)
(* front of its buffer.  Both are recursive functions; that each has a     *)
(* solution is proved by induction over a set of natural numbers.          *)
(***************************************************************************)
EXTENDS Integers, Sequences, SequencesExt, SequenceTheorems, NaturalsInduction,
        WellFoundedInduction, TLAPS

\* Induction over the natural numbers, for a set in the place of a predicate.
LEMMA NatSetInduction ==
    ASSUME NEW S, 0 \in S, \A n \in Nat : n \in S => n + 1 \in S
    PROVE  Nat \subseteq S
<1> SUFFICES ASSUME NEW m \in Nat, m \notin S PROVE FALSE
  OBVIOUS
<1> DEFINE T == {n \in Nat : n \notin S}
<1> DEFINE R == OpToRel(<, Nat)
<1>1. IsWellFoundedOn(R, Nat)
  BY NatLessThanWellFounded
<1>2. T \subseteq Nat /\ T # {}
  OBVIOUS
<1> HIDE DEF R
<1>3. \E x \in T : \A y \in T : ~ (<<y, x>> \in R)
  BY <1>1, <1>2, WFMin
<1>4. \A x, y \in Nat : x < y => <<x, y>> \in R
  BY DEF R, OpToRel
<1>5. PICK x \in T : \A y \in T : ~ (<<y, x>> \in R)
  BY <1>3
<1>6. x \in Nat /\ x # 0 /\ x \notin S
  BY <1>5
<1>7. x - 1 \in Nat /\ x - 1 < x /\ (x - 1) + 1 = x
  BY <1>6
<1>8. x - 1 \notin T
  BY <1>4, <1>5, <1>6, <1>7
<1>9. x - 1 \in S
  BY <1>7, <1>8
<1> QED
  BY <1>6, <1>7, <1>9

\* A concatenation.
LEMMA Join ==
    ASSUME NEW S, NEW s \in Seq(S), NEW t \in Seq(S)
    PROVE  /\ s \o t \in Seq(S) /\ Len(s \o t) = Len(s) + Len(t)
           /\ Len(s) \in Nat /\ Len(t) \in Nat
           /\ \A k \in 1..Len(s) : (s \o t)[k] = s[k]
           /\ \A k \in 1..Len(t) : (s \o t)[Len(s) + k] = t[k]
<1>1. Len(s) \in Nat /\ Len(t) \in Nat
  BY LenProperties
<1>2. /\ s \o t \in Seq(S) /\ Len(s \o t) = Len(s) + Len(t)
      /\ \A i \in 1 .. Len(s) + Len(t) : (s \o t)[i] = IF i <= Len(s) THEN s[i] ELSE t[i - Len(s)]
  BY ConcatProperties
<1>3. ASSUME NEW k \in 1..Len(s) PROVE (s \o t)[k] = s[k]
  <2>1. k \in 1 .. Len(s) + Len(t) /\ k <= Len(s)
    BY <1>1
  <2> QED
    BY <1>2, <2>1
<1>4. ASSUME NEW k \in 1..Len(t) PROVE (s \o t)[Len(s) + k] = t[k]
  <2>1. Len(s) + k \in 1 .. Len(s) + Len(t) /\ ~(Len(s) + k <= Len(s)) /\ Len(s) + k - Len(s) = k
    BY <1>1
  <2>2. (s \o t)[Len(s) + k] = t[Len(s) + k - Len(s)]
    BY <1>2, <2>1
  <2> QED
    BY <2>1, <2>2
<1> QED
  BY <1>1, <1>2, <1>3, <1>4

----------------------------------------------------------------------------
(* FlattenSeq.                                                             *)

\* One step of FlattenSeq, from the results g for fewer elements.
Flat(s, g, n) == IF n = 1 THEN s[n] ELSE g[n - 1] \o s[n]

\* The recursion of FlattenSeq has a solution.
LEMMA FlatExists ==
    ASSUME NEW s, NEW m \in Nat
    PROVE  \E g : g = [n \in 1..m |-> Flat(s, g, n)]
<1> DEFINE N == {k \in Nat : \E g : g = [n \in 1..k |-> Flat(s, g, n)]}
<1>1. 0 \in N
  <2> DEFINE g == [n \in 1..0 |-> <<>>]
  <2>1. 1..0 = {}
    OBVIOUS
  <2>2. g = [n \in 1..0 |-> Flat(s, g, n)]
    BY <2>1
  <2> QED
    BY <2>2
<1>2. ASSUME NEW k \in Nat, k \in N PROVE k + 1 \in N
  <2>1. PICK g : g = [n \in 1..k |-> Flat(s, g, n)]
    BY <1>2
  <2> DEFINE h == [n \in 1..(k + 1) |-> IF n = k + 1 THEN Flat(s, g, n) ELSE g[n]]
  <2>2. ASSUME NEW n \in 1..(k + 1) PROVE h[n] = Flat(s, h, n)
    <3>0. h[n] = Flat(s, g, n)
      <4>1. CASE n = k + 1
        BY <4>1
      <4>2. CASE n # k + 1
        <5>1. n \in 1..k
          BY <4>2
        <5> QED
          BY <2>1, <4>2, <5>1
      <4> QED
        BY <4>1, <4>2
    <3>1. CASE n = 1
      <4> HIDE DEF h
      <4> QED
        BY <3>0, <3>1 DEF Flat
    <3>2. CASE n # 1
      <4>1. n - 1 \in 1..k /\ n - 1 \in 1..(k + 1) /\ n - 1 # k + 1
        BY <3>2
      <4>2. h[n - 1] = g[n - 1]
        BY <4>1
      <4> HIDE DEF h
      <4> QED
        BY <3>0, <3>2, <4>2 DEF Flat
    <3> QED
      BY <3>1, <3>2
  <2>3. h = [n \in 1..(k + 1) |-> h[n]]
    OBVIOUS
  <2> HIDE DEF h
  <2>4. h = [n \in 1..(k + 1) |-> Flat(s, h, n)]
    BY <2>2, <2>3
  <2> QED
    BY <2>4
<1> HIDE DEF N
<1>3. Nat \subseteq N
  BY <1>1, <1>2, NatSetInduction
<1> QED
  BY <1>3 DEF N

\* The prefixes of a flattened sequence: g[n] is what the first n elements give.
FlatPrefixes(T, s, g) ==
    /\ g \in [0..Len(s) -> Seq(T)] /\ g[0] = <<>>
    /\ \A n \in 1..Len(s) : g[n] = g[n - 1] \o s[n]

\* FlattenSeq is the last of these prefixes.
LEMMA FlatPrefixesExist ==
    ASSUME NEW T, NEW s \in Seq(Seq(T))
    PROVE  \E g : FlatPrefixes(T, s, g) /\ FlattenSeq(s) = g[Len(s)]
<1>0. Len(s) \in Nat /\ \A n \in 1..Len(s) : s[n] \in Seq(T)
  BY LenProperties, ElementOfSeq
<1>1. <<>> \in Seq(T)
  BY EmptySeq
<1>2. CASE Len(s) = 0
  <2> DEFINE g == [n \in 0..0 |-> <<>>]
  <2>1. FlattenSeq(s) = s
    BY <1>2 DEF FlattenSeq
  <2>2. s = <<>>
    BY <1>2, EmptySeq
  <2>3. g \in [0..Len(s) -> Seq(T)] /\ g[0] = <<>> /\ 1..Len(s) = {}
    BY <1>1, <1>2
  <2> HIDE DEF g
  <2>4. FlatPrefixes(T, s, g) /\ FlattenSeq(s) = g[Len(s)]
    BY <1>2, <2>1, <2>2, <2>3 DEF FlatPrefixes
  <2> QED
    BY <2>4
<1>3. CASE Len(s) # 0
  <2> DEFINE f == CHOOSE h : h = [n \in 1..Len(s) |-> Flat(s, h, n)]
  <2>1. FlattenSeq(s) = f[Len(s)]
    BY <1>3 DEF FlattenSeq, Flat
  <2>2. f = [n \in 1..Len(s) |-> Flat(s, f, n)]
    <3>1. \E h : h = [n \in 1..Len(s) |-> Flat(s, h, n)]
      BY <1>0, FlatExists
    <3> QED
      BY <3>1
  <2> HIDE DEF f
  <2>3. \A n \in 1..Len(s) : f[n] = Flat(s, f, n)
    BY <2>2
  <2> DEFINE N == {k \in Nat : k + 1 \in 1..Len(s) => f[k + 1] \in Seq(T)}
  <2>4. 0 \in N
    <3>1. 0 + 1 = 1 /\ 1 \in 1..Len(s)
      BY <1>0, <1>3
    <3>2. f[1] = s[1] /\ s[1] \in Seq(T)
      BY <1>0, <2>3, <3>1 DEF Flat
    <3> QED
      BY <3>1, <3>2
  <2>5. ASSUME NEW k \in Nat, k \in N PROVE k + 1 \in N
    <3> SUFFICES ASSUME (k + 1) + 1 \in 1..Len(s) PROVE f[(k + 1) + 1] \in Seq(T)
      OBVIOUS
    <3>1. k + 1 \in 1..Len(s) /\ (k + 1) + 1 # 1 /\ ((k + 1) + 1) - 1 = k + 1
      BY <1>0
    <3>2. f[(k + 1) + 1] = f[k + 1] \o s[(k + 1) + 1]
      BY <2>3, <3>1 DEF Flat
    <3>3. f[k + 1] \in Seq(T) /\ s[(k + 1) + 1] \in Seq(T)
      BY <1>0, <2>5, <3>1
    <3> QED
      BY <3>2, <3>3, ConcatProperties
  <2> HIDE DEF N
  <2>6. Nat \subseteq N
    BY <2>4, <2>5, NatSetInduction
  <2>7. ASSUME NEW n \in 1..Len(s) PROVE f[n] \in Seq(T)
    <3>1. n - 1 \in Nat /\ (n - 1) + 1 = n
      OBVIOUS
    <3>2. n - 1 \in N
      BY <2>6, <3>1
    <3> QED
      BY <3>1, <3>2 DEF N
  <2> DEFINE g == [n \in 0..Len(s) |-> IF n = 0 THEN <<>> ELSE f[n]]
  <2>8. g \in [0..Len(s) -> Seq(T)]
    <3>1. ASSUME NEW n \in 0..Len(s), n # 0 PROVE n \in 1..Len(s)
      BY <1>0, <3>1
    <3> QED
      BY <1>1, <2>7, <3>1
  <2>9. g[0] = <<>> /\ g[Len(s)] = f[Len(s)]
    BY <1>0, <1>3
  <2>10. ASSUME NEW n \in 1..Len(s) PROVE g[n] = g[n - 1] \o s[n]
    <3>1. n \in 0..Len(s) /\ n # 0 /\ n - 1 \in 0..Len(s) /\ n \in Int
      BY <1>0
    <3>2. g[n] = f[n]
      BY <3>1
    <3>3. CASE n = 1
      <4>1. g[n - 1] = <<>> /\ f[n] = s[n] /\ s[n] \in Seq(T)
        BY <1>0, <2>3, <3>3 DEF Flat
      <4> QED
        BY <3>2, <4>1, ConcatEmptySeq
    <3>4. CASE n # 1
      <4>1. n - 1 # 0
        BY <3>4
      <4>2. g[n - 1] = f[n - 1]
        BY <3>1, <4>1
      <4>3. f[n] = f[n - 1] \o s[n]
        BY <2>3, <3>4 DEF Flat
      <4> HIDE DEF g
      <4> QED
        BY <3>2, <4>2, <4>3
    <3> QED
      BY <3>3, <3>4
  <2> HIDE DEF g
  <2>11. FlatPrefixes(T, s, g) /\ FlattenSeq(s) = g[Len(s)]
    BY <2>1, <2>8, <2>9, <2>10 DEF FlatPrefixes
  <2> QED
    BY <2>11
<1> QED
  BY <1>2, <1>3

\* They are the only ones.
LEMMA FlattenIs ==
    ASSUME NEW T, NEW s \in Seq(Seq(T)), NEW g, FlatPrefixes(T, s, g)
    PROVE  FlattenSeq(s) = g[Len(s)]
<1>1. PICK h : FlatPrefixes(T, s, h) /\ FlattenSeq(s) = h[Len(s)]
  BY FlatPrefixesExist
<1>2. Len(s) \in Nat
  BY LenProperties
<1> DEFINE N == {k \in Nat : k <= Len(s) => g[k] = h[k]}
<1>3. 0 \in N
  BY <1>1 DEF FlatPrefixes
<1>4. ASSUME NEW k \in Nat, k \in N PROVE k + 1 \in N
  <2> SUFFICES ASSUME k + 1 <= Len(s) PROVE g[k + 1] = h[k + 1]
    OBVIOUS
  <2>1. k + 1 \in 1..Len(s) /\ (k + 1) - 1 = k /\ k <= Len(s)
    BY <1>2
  <2>2. g[k] = h[k]
    BY <1>4, <2>1
  <2>3. g[k + 1] = g[k] \o s[k + 1] /\ h[k + 1] = h[k] \o s[k + 1]
    BY <1>1, <2>1 DEF FlatPrefixes
  <2> QED
    BY <2>2, <2>3
<1> HIDE DEF N
<1>5. Nat \subseteq N
  BY <1>3, <1>4, NatSetInduction
<1>6. Len(s) \in N
  BY <1>2, <1>5
<1>7. g[Len(s)] = h[Len(s)]
  BY <1>2, <1>6 DEF N
<1> QED
  BY <1>1, <1>7

\* A flattened sequence has the elements of its parts.
LEMMA FlattenType ==
    ASSUME NEW T, NEW s \in Seq(Seq(T))
    PROVE  FlattenSeq(s) \in Seq(T)
<1>1. PICK g : FlatPrefixes(T, s, g) /\ FlattenSeq(s) = g[Len(s)]
  BY FlatPrefixesExist
<1>2. Len(s) \in 0..Len(s)
  BY LenProperties
<1> QED
  BY <1>1, <1>2 DEF FlatPrefixes

\* To flatten a concatenation is to concatenate what its halves give.
LEMMA FlattenConcat ==
    ASSUME NEW T, NEW s \in Seq(Seq(T)), NEW t \in Seq(Seq(T))
    PROVE  FlattenSeq(s \o t) = FlattenSeq(s) \o FlattenSeq(t)
<1>1. PICK g : FlatPrefixes(T, s, g) /\ FlattenSeq(s) = g[Len(s)]
  BY FlatPrefixesExist
<1>2. PICK h : FlatPrefixes(T, t, h) /\ FlattenSeq(t) = h[Len(t)]
  BY FlatPrefixesExist
<1>3. PICK m \in Nat, n \in Nat : m = Len(s) /\ n = Len(t)
  BY LenProperties
<1>4. PICK a \in Seq(T) : a = FlattenSeq(s)
  BY FlattenType
<1>5. /\ s \o t \in Seq(Seq(T)) /\ Len(s \o t) = m + n
      /\ \A k \in 1..m : (s \o t)[k] = s[k]
      /\ \A k \in 1..n : (s \o t)[m + k] = t[k]
  BY <1>3, Join
<1>6. /\ g \in [0..m -> Seq(T)] /\ g[0] = <<>> /\ g[m] = a
      /\ \A k \in 1..m : g[k] = g[k - 1] \o s[k]
  BY <1>1, <1>3, <1>4 DEF FlatPrefixes
<1>7. /\ h \in [0..n -> Seq(T)] /\ h[0] = <<>> /\ h[n] = FlattenSeq(t)
      /\ \A k \in 1..n : h[k] = h[k - 1] \o t[k]
  BY <1>2, <1>3 DEF FlatPrefixes
<1>8. \A k \in 1..n : t[k] \in Seq(T)
  BY <1>3, ElementOfSeq
<1> DEFINE f == [k \in 0..(m + n) |-> IF k <= m THEN g[k] ELSE a \o h[k - m]]
<1>9. \A k \in 0..m : f[k] = g[k]
  BY <1>3
<1>10. \A k \in 0..n : f[m + k] = a \o h[k]
  <2> SUFFICES ASSUME NEW k \in 0..n PROVE f[m + k] = a \o h[k]
    OBVIOUS
  <2>1. m + k \in 0..(m + n) /\ (m + k) - m = k
    OBVIOUS
  <2>2. CASE k = 0
    <3>1. m + k = m /\ m \in 0..m /\ h[k] = <<>>
      BY <1>7, <2>2
    <3>2. f[m + k] = a
      BY <1>6, <1>9, <3>1
    <3> HIDE DEF f
    <3> QED
      BY <3>1, <3>2, ConcatEmptySeq
  <2>3. CASE k # 0
    <3>1. ~(m + k <= m)
      BY <2>3
    <3> QED
      BY <2>1, <3>1
  <2> QED
    BY <2>2, <2>3
<1>11. f \in [0..(m + n) -> Seq(T)]
  <2> SUFFICES ASSUME NEW k \in 0..(m + n) PROVE (IF k <= m THEN g[k] ELSE a \o h[k - m]) \in Seq(T)
    OBVIOUS
  <2>1. CASE k <= m
    <3>1. k \in 0..m
      BY <2>1
    <3> QED
      BY <1>6, <2>1, <3>1
  <2>2. CASE ~(k <= m)
    <3>1. k - m \in 0..n
      BY <2>2
    <3>2. h[k - m] \in Seq(T)
      BY <1>7, <3>1
    <3>3. a \o h[k - m] \in Seq(T)
      BY <3>2, ConcatProperties
    <3> QED
      BY <2>2, <3>3
  <2> QED
    BY <2>1, <2>2
<1> HIDE DEF f
<1>12. ASSUME NEW k \in 1..(m + n) PROVE f[k] = f[k - 1] \o (s \o t)[k]
  <2>1. CASE k <= m
    <3>1. k \in 1..m /\ k \in 0..m /\ k - 1 \in 0..m
      BY <2>1
    <3> QED
      BY <1>5, <1>6, <1>9, <3>1
  <2>2. CASE ~(k <= m)
    <3>1. k - m \in 1..n
      BY <2>2
    <3>2. PICK i \in 1..n : i = k - m
      BY <3>1
    <3>3. k = m + i /\ k - 1 = m + (i - 1) /\ i \in 0..n /\ i - 1 \in 0..n
      BY <3>2
    <3>4. h[i - 1] \in Seq(T) /\ t[i] \in Seq(T)
      BY <1>7, <1>8, <3>3
    <3>a. f[k] = a \o h[i]
      BY <1>10, <3>3
    <3>b. PICK j \in 0..n : j = i - 1
      BY <3>3
    <3>c. f[m + j] = a \o h[j]
      BY <1>10
    <3>d. f[k - 1] = a \o h[i - 1]
      BY <3>b, <3>c, <3>3
    <3>e. (s \o t)[k] = t[i]
      BY <1>5, <3>2, <3>3
    <3>f. h[i] = h[i - 1] \o t[i]
      BY <1>7, <3>2
    <3>5. f[k] = a \o (h[i - 1] \o t[i]) /\ f[k - 1] = a \o h[i - 1] /\ (s \o t)[k] = t[i]
      BY <3>a, <3>d, <3>e, <3>f
    <3>g. PICK x \in Seq(T), y \in Seq(T) : x = h[i - 1] /\ y = t[i]
      BY <3>4
    <3>h. (a \o x) \o y = a \o (x \o y)
      BY ConcatAssociative
    <3>6. (a \o h[i - 1]) \o t[i] = a \o (h[i - 1] \o t[i])
      BY <3>g, <3>h
    <3> QED
      BY <3>5, <3>6
  <2> QED
    BY <2>1, <2>2
<1>13. f[0] = <<>>
  BY <1>6, <1>9
<1>14. FlatPrefixes(T, s \o t, f)
  BY <1>5, <1>11, <1>12, <1>13 DEF FlatPrefixes
<1>15. FlattenSeq(s \o t) = f[m + n]
  BY <1>5, <1>14, FlattenIs
<1>16. f[m + n] = a \o h[n]
  BY <1>10
<1> QED
  BY <1>4, <1>7, <1>15, <1>16

\* Flattening nothing, and a single sequence.
LEMMA FlattenNone ==
    FlattenSeq(<<>>) = <<>>
<1>1. Len(<<>>) = 0
  BY EmptySeq
<1> QED
  BY <1>1 DEF FlattenSeq

\* A single sequence is its own flattening.
LEMMA FlattenOne ==
    ASSUME NEW T, NEW x \in Seq(T)
    PROVE  <<x>> \in Seq(Seq(T)) /\ FlattenSeq(<<x>>) = x
<1>1. <<x>> \in Seq(Seq(T)) /\ Len(<<x>>) = 1 /\ <<x>>[1] = x
  OBVIOUS
<1>2. PICK g : FlatPrefixes(T, <<x>>, g) /\ FlattenSeq(<<x>>) = g[Len(<<x>>)]
  BY <1>1, FlatPrefixesExist
<1>3. 1 \in 1..Len(<<x>>) /\ 1 - 1 = 0
  BY <1>1
<1>4. g[1] = g[0] \o <<x>>[1] /\ g[0] = <<>>
  BY <1>2, <1>3 DEF FlatPrefixes
<1>5. <<>> \o x = x
  BY ConcatEmptySeq
<1> QED
  BY <1>1, <1>2, <1>4, <1>5

\* What follows a prefix of a sequence.
LEMMA AfterPrefix ==
    ASSUME NEW T, NEW a \in Seq(T), NEW b \in Seq(T)
    PROVE  SubSeq(a \o b, Len(a) + 1, Len(a \o b)) = b
<1>1. /\ a \o b \in Seq(T) /\ Len(a \o b) = Len(a) + Len(b)
      /\ Len(a) \in Nat /\ Len(b) \in Nat
      /\ \A k \in 1..Len(b) : (a \o b)[Len(a) + k] = b[k]
  BY Join
<1> DEFINE m == Len(a)  n == Len(b)  c == a \o b
<1>2. m \in Nat /\ n \in Nat /\ Len(c) = m + n
  BY <1>1
<1>3. \A i \in (m + 1)..(m + n) : c[i] \in T
  <2> SUFFICES ASSUME NEW i \in (m + 1)..(m + n) PROVE c[i] \in T
    OBVIOUS
  <2>1. i \in 1..Len(c)
    BY <1>2
  <2> HIDE DEF c, m, n
  <2>2. c \in Seq(T)
    BY <1>1 DEF c
  <2> QED
    BY <2>1, <2>2, ElementOfSeq
<1>4. \A k \in 1..n : c[m + k] = b[k]
  BY <1>1
<1>b. b \in Seq(T) /\ Len(b) = n
  OBVIOUS
<1> HIDE DEF c, m, n
<1> DEFINE d == SubSeq(c, m + 1, m + n)
<1>5. /\ d \in Seq(T) /\ Len(d) = IF m + 1 <= m + n THEN (m + n) - (m + 1) + 1 ELSE 0
      /\ \A i \in 1 .. (m + n) - (m + 1) + 1 : d[i] = c[(m + 1) + i - 1]
  <2>1. m + 1 \in Int /\ m + n \in Int
    BY <1>2
  <2> QED
    BY <1>3, <2>1, SubSeqProperties
<1> HIDE DEF d
<1>6. Len(d) = n /\ (m + n) - (m + 1) + 1 = n
  BY <1>2, <1>5
<1>7. ASSUME NEW i \in 1..n PROVE d[i] = b[i]
  <2>1. (m + 1) + i - 1 = m + i
    BY <1>2
  <2> QED
    BY <1>4, <1>5, <1>6, <2>1
<1>8. d = b
  BY <1>b, <1>5, <1>6, <1>7, SeqEqual
<1> QED
  BY <1>2, <1>8 DEF c, m, n, d

\* A piece of a sequence.
LEMMA Slice ==
    ASSUME NEW T, NEW s \in Seq(T), NEW a \in Nat, NEW b \in Nat, a <= b, b <= Len(s)
    PROVE  /\ SubSeq(s, a + 1, b) \in Seq(T) /\ Len(SubSeq(s, a + 1, b)) = b - a
           /\ \A k \in 1..(b - a) : SubSeq(s, a + 1, b)[k] = s[a + k]
<1>1. Len(s) \in Nat /\ \A i \in 1..Len(s) : s[i] \in T
  BY LenProperties
<1>2. a + 1 \in Int /\ b \in Int /\ \A i \in (a + 1)..b : s[i] \in T
  BY <1>1
<1> DEFINE c == SubSeq(s, a + 1, b)
<1>4. /\ c \in Seq(T)
      /\ Len(c) = IF a + 1 <= b THEN b - (a + 1) + 1 ELSE 0
      /\ \A i \in 1 .. b - (a + 1) + 1 : c[i] = s[(a + 1) + i - 1]
  BY <1>2, SubSeqProperties
<1> HIDE DEF c
<1>6. Len(c) = b - a
  BY <1>1, <1>4
<1>7. ASSUME NEW k \in 1..(b - a) PROVE c[k] = s[a + k]
  <2>1. k \in 1 .. b - (a + 1) + 1 /\ (a + 1) + k - 1 = a + k
    OBVIOUS
  <2>3. c[k] = s[(a + 1) + k - 1]
    BY <1>4, <2>1
  <2> QED
    BY <2>1, <2>3
<1> QED
  BY <1>4, <1>6, <1>7 DEF c

----------------------------------------------------------------------------
(* The splitter: the whole frames at the front of a buffer whose bytes name *)
(* their frame first, if len is the length of a frame.                      *)

\* Where it stops: what is left is no whole frame.
Stops(buf, len, i) == ~(i < Len(buf) /\ i + len[buf[i + 1][1]] <= Len(buf))

SplitStep(buf, len, g, i) ==
    IF i < Len(buf) /\ i + len[buf[i + 1][1]] <= Len(buf)
    THEN <<SubSeq(buf, i + 1, i + len[buf[i + 1][1]])>> \o g[i + len[buf[i + 1][1]]]
    ELSE <<>>

WholeFrames(buf, len) ==
    LET from[i \in 0..Len(buf)] == SplitStep(buf, len, from, i)
    IN  from[0]

Sized(T, len) == \A t \in T : len[t[1]] \in Nat \ {0}

\* Where the splitter goes on, a frame begins and is whole.
LEMMA StepAhead ==
    ASSUME NEW T, NEW buf \in Seq(T), NEW len, Sized(T, len), NEW i \in Nat,
           ~Stops(buf, len, i)
    PROVE  /\ len[buf[i + 1][1]] \in Nat \ {0} /\ buf[i + 1] \in T
           /\ i < Len(buf) /\ i + len[buf[i + 1][1]] <= Len(buf)
<1>1. i < Len(buf) /\ i + len[buf[i + 1][1]] <= Len(buf)
  BY DEF Stops
<1>2. Len(buf) \in Nat
  BY LenProperties
<1>3. i + 1 \in 1..Len(buf)
  BY <1>1, <1>2
<1>4. buf[i + 1] \in T
  BY <1>3, ElementOfSeq
<1> QED
  BY <1>1, <1>4 DEF Sized

\* The recursion of the splitter has a solution: it only goes forward.
LEMMA SplitExists ==
    ASSUME NEW T, NEW buf \in Seq(T), NEW len, Sized(T, len)
    PROVE  \E g : g = [i \in 0..Len(buf) |-> SplitStep(buf, len, g, i)]
<1>1. PICK L \in Nat : L = Len(buf)
  BY LenProperties
<1> DEFINE N == {k \in Nat : k <= L => \E g : g = [i \in (L - k)..L |-> SplitStep(buf, len, g, i)]}
<1>2. 0 \in N
  <2> DEFINE g == [i \in (L - 0)..L |-> <<>>]
  <2>1. ASSUME NEW i \in (L - 0)..L PROVE <<>> = SplitStep(buf, len, g, i)
    <3>1. ~(i < Len(buf))
      BY <1>1
    <3> QED
      BY <3>1 DEF SplitStep
  <2>2. g = [i \in (L - 0)..L |-> SplitStep(buf, len, g, i)]
    BY <2>1
  <2> QED
    BY <2>2
<1>3. ASSUME NEW k \in Nat, k \in N PROVE k + 1 \in N
  <2> SUFFICES ASSUME k + 1 <= L
               PROVE  \E g : g = [i \in (L - (k + 1))..L |-> SplitStep(buf, len, g, i)]
    OBVIOUS
  <2>1. PICK g : g = [i \in (L - k)..L |-> SplitStep(buf, len, g, i)]
    BY <1>3
  <2> DEFINE a == L - (k + 1)
             h == [i \in a..L |-> IF i = a THEN SplitStep(buf, len, g, i) ELSE g[i]]
  <2>2. a \in Nat /\ a + 1 = L - k
    OBVIOUS
  <2>3. \A i \in (L - k)..L : h[i] = g[i]
    BY <2>2
  <2>4. ASSUME NEW i \in a..L PROVE h[i] = SplitStep(buf, len, g, i)
    <3>1. CASE i = a
      BY <3>1
    <3>2. CASE i # a
      <4>1. i \in (L - k)..L
        BY <2>2, <3>2
      <4>2. g[i] = SplitStep(buf, len, g, i)
        BY <2>1, <4>1
      <4> QED
        BY <2>3, <4>1, <4>2
    <3> QED
      BY <3>1, <3>2
  <2>5. h = [i \in a..L |-> h[i]]
    OBVIOUS
  <2> HIDE DEF h
  <2>6. ASSUME NEW i \in a..L PROVE h[i] = SplitStep(buf, len, h, i)
    <3>1. i \in Nat
      BY <2>2
    <3>2. CASE Stops(buf, len, i)
      BY <2>4, <3>2 DEF SplitStep, Stops
    <3>3. CASE ~Stops(buf, len, i)
      <4>1. /\ len[buf[i + 1][1]] \in Nat \ {0}
            /\ i < Len(buf) /\ i + len[buf[i + 1][1]] <= Len(buf)
        BY <3>1, <3>3, StepAhead
      <4>2. i + len[buf[i + 1][1]] \in (L - k)..L
        BY <1>1, <2>2, <4>1
      <4>3. h[i + len[buf[i + 1][1]]] = g[i + len[buf[i + 1][1]]]
        BY <2>3, <4>2
      <4> QED
        BY <2>4, <4>3 DEF SplitStep
    <3> QED
      BY <3>2, <3>3
  <2>7. h = [i \in a..L |-> SplitStep(buf, len, h, i)]
    BY <2>5, <2>6
  <2> QED
    BY <2>7
<1> HIDE DEF N
<1>4. Nat \subseteq N
  BY <1>2, <1>3, NatSetInduction
<1>5. L \in N
  BY <1>4
<1>6. L <= L /\ L - L = 0
  OBVIOUS
<1> QED
  BY <1>1, <1>5, <1>6 DEF N

\* Every frame has a first byte and the length that it names.
FullFrame(x, len) == x # <<>> /\ Len(x) = len[x[1][1]]
FullFrames(F, len) == \A k \in 1..Len(F) : FullFrame(F[k], len)

\* F is what the splitter takes off the buffer from position i on.
SplitFrom(T, buf, len, i, F) ==
    /\ F \in Seq(Seq(T)) /\ FullFrames(F, len)
    /\ \E e \in Nat : /\ i <= e /\ e <= Len(buf) /\ Stops(buf, len, e)
                      /\ FlattenSeq(F) = SubSeq(buf, i + 1, e)

\* It stops at once, or takes one frame and goes on behind it.
LEMMA SplitNone ==
    ASSUME NEW T, NEW buf \in Seq(T), NEW len, NEW i \in Nat, i <= Len(buf),
           Stops(buf, len, i)
    PROVE  SplitFrom(T, buf, len, i, <<>>)
<1>1. <<>> \in Seq(Seq(T)) /\ Len(<<>>) = 0
  BY EmptySeq
<1>2. FullFrames(<<>>, len)
  BY <1>1 DEF FullFrames
<1>3. FlattenSeq(<<>>) = <<>>
  BY FlattenNone
<1>4. SubSeq(buf, i + 1, i) = <<>>
  <2>1. i + 1 \in Int /\ i \in Int /\ i < i + 1
    OBVIOUS
  <2> QED
    BY <2>1, SubSeqEmpty
<1>5. i <= i
  OBVIOUS
<1> QED
  BY <1>1, <1>2, <1>3, <1>4, <1>5 DEF SplitFrom

\* One frame in front of what is split behind it.
LEMMA SplitOne ==
    ASSUME NEW T, NEW buf \in Seq(T), NEW len, Sized(T, len), NEW i \in Nat,
           ~Stops(buf, len, i), NEW F,
           SplitFrom(T, buf, len, i + len[buf[i + 1][1]], F)
    PROVE  SplitFrom(T, buf, len, i, <<SubSeq(buf, i + 1, i + len[buf[i + 1][1]])>> \o F)
<1>1. /\ len[buf[i + 1][1]] \in Nat \ {0} /\ buf[i + 1] \in T
      /\ i < Len(buf) /\ i + len[buf[i + 1][1]] <= Len(buf)
  BY StepAhead
<1>2. PICK n \in Nat \ {0} : n = len[buf[i + 1][1]]
  BY <1>1
<1>3. PICK L \in Nat : L = Len(buf)
  BY LenProperties
<1>4. PICK j \in Nat : j = i + n
  BY <1>2
<1>5. i < j /\ j <= L /\ j - i = n
  BY <1>1, <1>2, <1>3, <1>4
<1>6. F \in Seq(Seq(T)) /\ FullFrames(F, len)
  BY DEF SplitFrom
<1>7. PICK e \in Nat : /\ j <= e /\ e <= L /\ Stops(buf, len, e)
                       /\ FlattenSeq(F) = SubSeq(buf, j + 1, e)
  BY <1>2, <1>3, <1>4 DEF SplitFrom
<1> DEFINE x == SubSeq(buf, i + 1, j)
<1>8. /\ x \in Seq(T) /\ Len(x) = n
      /\ \A k \in 1..(j - i) : x[k] = buf[i + k]
  BY <1>3, <1>5, Slice
<1>9. x[1] = buf[i + 1]
  <2>1. 1 \in 1..(j - i)
    BY <1>5
  <2> QED
    BY <1>8, <2>1
<1>10. x \o SubSeq(buf, j + 1, e) = SubSeq(buf, i + 1, e)
  <2>1. i + 1 \in 1..(Len(buf) + 1) /\ j \in ((i + 1) - 1)..Len(buf) /\ e \in j..Len(buf)
    BY <1>3, <1>5, <1>7
  <2> QED
    BY <2>1, ConcatAdjacentSubSeq
<1> HIDE DEF x
<1>11. <<x>> \in Seq(Seq(T)) /\ FlattenSeq(<<x>>) = x
  BY <1>8, FlattenOne
<1>12. Len(<<x>>) = 1 /\ <<x>>[1] = x
  OBVIOUS
<1>13. FlattenSeq(<<x>> \o F) = SubSeq(buf, i + 1, e)
  <2>1. FlattenSeq(<<x>> \o F) = FlattenSeq(<<x>>) \o FlattenSeq(F)
    BY <1>6, <1>11, FlattenConcat
  <2> QED
    BY <2>1, <1>7, <1>10, <1>11
<1>14. /\ <<x>> \o F \in Seq(Seq(T)) /\ Len(<<x>> \o F) = 1 + Len(F) /\ Len(F) \in Nat
       /\ \A k \in 1..1 : (<<x>> \o F)[k] = <<x>>[k]
       /\ \A k \in 1..Len(F) : (<<x>> \o F)[1 + k] = F[k]
  BY <1>6, <1>11, <1>12, Join
<1> DEFINE G == <<x>> \o F
<1> HIDE DEF G
<1>15. ASSUME NEW k \in 1..Len(G) PROVE FullFrame(G[k], len)
  <2>1. CASE k = 1
    <3>1. G[k] = x
      BY <1>12, <1>14, <2>1 DEF G
    <3>2. x # <<>>
      BY <1>8, EmptySeq
    <3> QED
      BY <3>1, <3>2, <1>2, <1>8, <1>9 DEF FullFrame
  <2>2. CASE k # 1
    <3>1. k - 1 \in 1..Len(F) /\ 1 + (k - 1) = k
      BY <1>14, <2>2 DEF G
    <3>2. G[k] = F[k - 1]
      BY <1>14, <3>1 DEF G
    <3> QED
      BY <1>6, <3>1, <3>2 DEF FullFrames
  <2> QED
    BY <2>1, <2>2
<1>16. FullFrames(G, len)
  BY <1>15 DEF FullFrames
<1>17. i <= e
  BY <1>5, <1>7
<1>18. SplitFrom(T, buf, len, i, G)
  BY <1>3, <1>7, <1>13, <1>14, <1>16, <1>17 DEF SplitFrom, G
<1> QED
  BY <1>2, <1>4, <1>18 DEF G, x

\* What the splitter returns.
LEMMA SplitResult ==
    ASSUME NEW T, NEW buf \in Seq(T), NEW len, Sized(T, len)
    PROVE  /\ SplitFrom(T, buf, len, 0, WholeFrames(buf, len))
           /\ Stops(buf, len, 0) => WholeFrames(buf, len) = <<>>
<1>1. PICK L \in Nat : L = Len(buf)
  BY LenProperties
<1> DEFINE f == CHOOSE h : h = [i \in 0..Len(buf) |-> SplitStep(buf, len, h, i)]
<1>2. WholeFrames(buf, len) = f[0]
  BY DEF WholeFrames
<1>3. f = [i \in 0..Len(buf) |-> SplitStep(buf, len, f, i)]
  <2>1. \E h : h = [i \in 0..Len(buf) |-> SplitStep(buf, len, h, i)]
    BY SplitExists
  <2> QED
    BY <2>1
<1> HIDE DEF f
<1>4. \A i \in 0..L : f[i] = SplitStep(buf, len, f, i)
  BY <1>1, <1>3
\* By induction on how far i is from the end.
<1> DEFINE N == {k \in Nat : \A i \in 0..L : L - i <= k => SplitFrom(T, buf, len, i, f[i])}
<1>5. ASSUME NEW i \in 0..L, Stops(buf, len, i)
      PROVE  f[i] = <<>> /\ SplitFrom(T, buf, len, i, f[i])
  <2>1. f[i] = <<>>
    BY <1>4, <1>5 DEF SplitStep, Stops
  <2>2. i \in Nat /\ i <= Len(buf)
    BY <1>1
  <2> QED
    BY <1>5, <2>1, <2>2, SplitNone
<1>6. 0 \in N
  <2> SUFFICES ASSUME NEW i \in 0..L, L - i <= 0 PROVE SplitFrom(T, buf, len, i, f[i])
    OBVIOUS
  <2>1. ~(i < Len(buf))
    BY <1>1
  <2> QED
    BY <1>5, <2>1 DEF Stops
<1>7. ASSUME NEW k \in Nat, k \in N PROVE k + 1 \in N
  <2> SUFFICES ASSUME NEW i \in 0..L, L - i <= k + 1 PROVE SplitFrom(T, buf, len, i, f[i])
    OBVIOUS
  <2>1. CASE Stops(buf, len, i)
    BY <1>5, <2>1
  <2>2. CASE ~Stops(buf, len, i)
    <3>1. /\ len[buf[i + 1][1]] \in Nat \ {0}
          /\ i < Len(buf) /\ i + len[buf[i + 1][1]] <= Len(buf)
      BY <2>2, StepAhead
    <3>2. /\ i + len[buf[i + 1][1]] \in 0..L
          /\ L - (i + len[buf[i + 1][1]]) <= k
      BY <1>1, <3>1
    <3>3. SplitFrom(T, buf, len, i + len[buf[i + 1][1]], f[i + len[buf[i + 1][1]]])
      BY <1>7, <3>2
    <3>4. f[i] = <<SubSeq(buf, i + 1, i + len[buf[i + 1][1]])>> \o f[i + len[buf[i + 1][1]]]
      BY <1>4, <3>1 DEF SplitStep
    <3>5. i \in Nat
      OBVIOUS
    <3> QED
      BY <2>2, <3>3, <3>4, <3>5, SplitOne
  <2> QED
    BY <2>1, <2>2
<1> HIDE DEF N
<1>8. Nat \subseteq N
  BY <1>6, <1>7, NatSetInduction
<1>9. L \in N /\ 0 \in 0..L /\ L - 0 <= L
  BY <1>8
<1>10. SplitFrom(T, buf, len, 0, f[0])
  BY <1>9 DEF N
<1> QED
  BY <1>2, <1>5, <1>9, <1>10

\* AfterPrefix, for a buffer that is known to be a concatenation.
LEMMA FlattenPrefixed ==
    ASSUME NEW T, NEW buf \in Seq(T), NEW a \in Seq(T), NEW b \in Seq(T), a \o b = buf
    PROVE  SubSeq(buf, Len(a) + 1, Len(buf)) = b
BY AfterPrefix

\* What is left of the buffer behind some of its frames.
After(buf, frames) == SubSeq(buf, Len(FlattenSeq(frames)) + 1, Len(buf))

\* What the splitter has taken, with what it leaves, is the buffer; what it
\* leaves holds no whole frame.
LEMMA FramesTaken ==
    ASSUME NEW T, NEW buf \in Seq(T), NEW len, Sized(T, len), NEW F,
           F = WholeFrames(buf, len)
    PROVE  /\ F \in Seq(Seq(T)) /\ FullFrames(F, len) /\ After(buf, F) \in Seq(T)
           /\ FlattenSeq(F) \o After(buf, F) = buf
           /\ WholeFrames(After(buf, F), len) = <<>>
<1> DEFINE rest == After(buf, F)
<1>0. rest = SubSeq(buf, Len(FlattenSeq(F)) + 1, Len(buf))
  BY DEF After
<1> HIDE DEF rest
<1>1. SplitFrom(T, buf, len, 0, F)
  BY SplitResult
<1>2. F \in Seq(Seq(T)) /\ FullFrames(F, len)
  BY <1>1 DEF SplitFrom
<1>3. PICK e \in Nat : /\ e <= Len(buf) /\ Stops(buf, len, e)
                       /\ FlattenSeq(F) = SubSeq(buf, 0 + 1, e)
  BY <1>1 DEF SplitFrom
<1>4. PICK L \in Nat : L = Len(buf)
  BY LenProperties
<1>5. 0 <= e /\ e - 0 = e /\ 0 + 1 = 1
  OBVIOUS
<1>6. SubSeq(buf, 0 + 1, e) \in Seq(T) /\ Len(SubSeq(buf, 0 + 1, e)) = e - 0
  BY <1>3, <1>5, Slice
<1>7. rest = SubSeq(buf, e + 1, L)
  BY <1>0, <1>3, <1>4, <1>5, <1>6
<1>8. /\ rest \in Seq(T) /\ Len(rest) = L - e
      /\ \A k \in 1..(L - e) : rest[k] = buf[e + k]
  <2>1. e <= L /\ L <= Len(buf)
    BY <1>3, <1>4
  <2>2. /\ SubSeq(buf, e + 1, L) \in Seq(T) /\ Len(SubSeq(buf, e + 1, L)) = L - e
        /\ \A k \in 1..(L - e) : SubSeq(buf, e + 1, L)[k] = buf[e + k]
    BY <2>1, Slice
  <2> QED
    BY <1>7, <2>2
<1>9. SubSeq(buf, 1, e) \o SubSeq(buf, e + 1, L) = SubSeq(buf, 1, L)
  <2>1. 1 \in 1..(Len(buf) + 1) /\ e \in (1 - 1)..Len(buf) /\ L \in e..Len(buf)
    BY <1>3, <1>4
  <2> QED
    BY <2>1, ConcatAdjacentSubSeq
<1>10. SubSeq(buf, 1, L) = buf
  BY <1>4, SubSeqFull
<1>11. FlattenSeq(F) \o rest = buf
  BY <1>3, <1>5, <1>7, <1>9, <1>10
<1>12. Stops(rest, len, 0)
  <2> SUFFICES ASSUME 0 < Len(rest), 0 + len[rest[0 + 1][1]] <= Len(rest) PROVE FALSE
    BY DEF Stops
  <2>1. 1 \in 1..(L - e) /\ 0 + 1 = 1 /\ e < L
    BY <1>3, <1>4, <1>8
  <2>2. rest[0 + 1] = buf[e + 1]
    BY <1>8, <2>1
  <2>3. e + 1 \in 1..Len(buf)
    BY <1>4, <2>1
  <2>4. len[buf[e + 1][1]] \in Nat
    BY <2>3, ElementOfSeq DEF Sized
  <2>5. e + len[buf[e + 1][1]] <= L
    BY <1>8, <2>2, <2>4, <1>3, <1>4
  <2> QED
    BY <1>3, <1>4, <2>1, <2>5 DEF Stops
<1>13. WholeFrames(rest, len) = <<>>
  BY <1>8, <1>12, SplitResult
<1> QED
  BY <1>2, <1>8, <1>11, <1>13 DEF rest

\* Whole frames at the front of the buffer.
TakenOff(T, len, buf, frames) ==
    /\ frames \in Seq(Seq(T)) /\ FullFrames(frames, len) /\ After(buf, frames) \in Seq(T)
    /\ FlattenSeq(frames) \o After(buf, frames) = buf

\* The same after only some of the frames.
LEMMA FramesPartlyTaken ==
    ASSUME NEW T, NEW buf \in Seq(T), NEW len, Sized(T, len),
           NEW k \in 1..Len(WholeFrames(buf, len))
    PROVE  TakenOff(T, len, buf, SubSeq(WholeFrames(buf, len), 1, k - 1))
<1> DEFINE F == WholeFrames(buf, len)  done == SubSeq(F, 1, k - 1)
<1>a. F = WholeFrames(buf, len) /\ done = SubSeq(F, 1, k - 1) /\ k \in 1..Len(F)
  OBVIOUS
<1> HIDE DEF F, done
<1> DEFINE rest == After(buf, done)  left == After(buf, F)
<1>0. rest = SubSeq(buf, Len(FlattenSeq(done)) + 1, Len(buf))
  BY DEF After
<1> HIDE DEF rest
<1>1. /\ F \in Seq(Seq(T)) /\ FullFrames(F, len) /\ left \in Seq(T)
      /\ FlattenSeq(F) \o left = buf
  BY <1>a, FramesTaken
<1> HIDE DEF left
<1>2. PICK m \in Nat : m = Len(F)
  BY <1>1, LenProperties
<1>3. PICK j \in Nat : j = k - 1
  BY <1>a, <1>2
<1>4. j <= m /\ 0 <= j /\ j - 0 = j /\ 0 + 1 = 1
  BY <1>a, <1>2, <1>3
<1>5. /\ done \in Seq(Seq(T)) /\ Len(done) = j
      /\ \A i \in 1..j : done[i] = F[0 + i]
  <2>1. /\ SubSeq(F, 0 + 1, j) \in Seq(Seq(T)) /\ Len(SubSeq(F, 0 + 1, j)) = j - 0
        /\ \A i \in 1..(j - 0) : SubSeq(F, 0 + 1, j)[i] = F[0 + i]
    BY <1>1, <1>2, <1>4, Slice
  <2>2. done = SubSeq(F, 0 + 1, j)
    BY <1>a, <1>3, <1>4
  <2> QED
    BY <1>4, <2>1, <2>2
<1>6. FullFrames(done, len)
  <2> SUFFICES ASSUME NEW i \in 1..Len(done) PROVE FullFrame(done[i], len)
    BY DEF FullFrames
  <2>1. i \in 1..j /\ i \in 1..Len(F) /\ 0 + i = i
    BY <1>2, <1>4, <1>5
  <2>2. done[i] = F[i]
    BY <1>5, <2>1
  <2> QED
    BY <1>1, <2>1, <2>2 DEF FullFrames
<1> DEFINE others == SubSeq(F, j + 1, m)
<1>7. others \in Seq(Seq(T))
  BY <1>1, <1>2, <1>4, Slice
<1>8. done \o others = F
  <2>1. 1 \in 1..(Len(F) + 1) /\ j \in (1 - 1)..Len(F) /\ m \in j..Len(F)
    BY <1>2, <1>4
  <2>2. SubSeq(F, 1, j) \o SubSeq(F, j + 1, m) = SubSeq(F, 1, m)
    BY <1>1, <2>1, ConcatAdjacentSubSeq
  <2>3. SubSeq(F, 1, m) = F
    BY <1>1, <1>2, SubSeqFull
  <2> QED
    BY <1>a, <1>3, <2>2, <2>3
<1> HIDE DEF others
<1>9. /\ FlattenSeq(F) = FlattenSeq(done) \o FlattenSeq(others)
      /\ FlattenSeq(done) \in Seq(T) /\ FlattenSeq(others) \in Seq(T)
  BY <1>5, <1>7, <1>8, FlattenConcat, FlattenType
<1>10. PICK x \in Seq(T), y \in Seq(T) : x = FlattenSeq(done) /\ y = FlattenSeq(others)
  BY <1>9
<1>11. (x \o y) \o left = x \o (y \o left) /\ y \o left \in Seq(T)
  <2>1. PICK z \in Seq(T) : z = left
    BY <1>1
  <2>2. (x \o y) \o z = x \o (y \o z)
    BY ConcatAssociative
  <2>3. y \o z \in Seq(T)
    BY ConcatProperties
  <2> QED
    BY <2>1, <2>2, <2>3
<1>12. x \o (y \o left) = buf
  BY <1>1, <1>9, <1>10, <1>11
<1>13. rest = y \o left
  <2>1. PICK z \in Seq(T) : z = y \o left
    BY <1>11
  <2>2. SubSeq(buf, Len(x) + 1, Len(buf)) = z
    BY <1>12, <2>1, FlattenPrefixed
  <2> QED
    BY <1>0, <1>10, <2>1, <2>2
<1>14. TakenOff(T, len, buf, done)
  BY <1>5, <1>6, <1>10, <1>11, <1>12, <1>13 DEF rest, TakenOff
<1> QED
  BY <1>14 DEF F, done

\* A buffer without whole frames is shorter than its first frame.
LEMMA NoFrames ==
    ASSUME NEW T, NEW buf \in Seq(T), NEW len, Sized(T, len)
    PROVE  /\ WholeFrames(<<>>, len) = <<>>
           /\ WholeFrames(buf, len) = <<>> /\ Len(buf) > 0 => len[buf[1][1]] > Len(buf)
<1>1. WholeFrames(<<>>, len) = <<>>
  <2>1. <<>> \in Seq(T) /\ Len(<<>>) = 0
    BY EmptySeq
  <2>2. Stops(<<>>, len, 0)
    BY <2>1 DEF Stops
  <2> QED
    BY <2>1, <2>2, SplitResult
<1>2. ASSUME WholeFrames(buf, len) = <<>>, Len(buf) > 0 PROVE len[buf[1][1]] > Len(buf)
  <2>1. SplitFrom(T, buf, len, 0, <<>>)
    BY <1>2, SplitResult
  <2>2. PICK e \in Nat : /\ e <= Len(buf) /\ Stops(buf, len, e)
                         /\ FlattenSeq(<<>>) = SubSeq(buf, 0 + 1, e)
    BY <2>1 DEF SplitFrom
  <2>3. Len(SubSeq(buf, 0 + 1, e)) = e - 0
    BY <2>2, Slice
  <2>4. Len(SubSeq(buf, 0 + 1, e)) = 0
    BY <2>2, FlattenNone, EmptySeq
  <2>5. e = 0
    BY <2>3, <2>4
  <2>6. Len(buf) \in Nat /\ 1 \in 1..Len(buf) /\ 0 + 1 = 1
    BY <1>2, LenProperties
  <2>7. len[buf[1][1]] \in Nat
    BY <2>6, ElementOfSeq DEF Sized
  <2>8. ~(0 + len[buf[0 + 1][1]] <= Len(buf))
    BY <1>2, <2>2, <2>5 DEF Stops
  <2> QED
    BY <2>6, <2>7, <2>8
<1> QED
  BY <1>1, <1>2

----------------------------------------------------------------------------
(* A connection that has taken some bytes of a stream, has given the frames *)
(* D to the dispatcher and keeps the bytes B.                               *)

ReadSoFar(T, len, stream, count, D, B) ==
    /\ count \in Nat /\ count <= Len(stream)
    /\ D \in Seq(Seq(T)) /\ B \in Seq(T) /\ FullFrames(D, len)
    /\ FlattenSeq(D) \o B = SubSeq(stream, 1, count)

\* It does not matter that the stream grows.
LEMMA StreamGrows ==
    ASSUME NEW T, NEW len, NEW stream \in Seq(T), NEW more \in Seq(T), NEW count, NEW D, NEW B,
           ReadSoFar(T, len, stream, count, D, B)
    PROVE  ReadSoFar(T, len, stream \o more, count, D, B)
<1>1. count \in Nat /\ count <= Len(stream)
  BY DEF ReadSoFar
<1> DEFINE s == stream \o more
<1>2. /\ s \in Seq(T) /\ Len(s) = Len(stream) + Len(more)
      /\ Len(stream) \in Nat /\ Len(more) \in Nat
      /\ \A k \in 1..Len(stream) : s[k] = stream[k]
  BY Join
<1> HIDE DEF s
<1>3. 0 <= count /\ count <= Len(s) /\ count - 0 = count /\ 0 + 1 = 1
  BY <1>1, <1>2
<1> DEFINE x == SubSeq(stream, 0 + 1, count)  y == SubSeq(s, 0 + 1, count)
<1>4. /\ x \in Seq(T) /\ Len(x) = count - 0
      /\ \A k \in 1..(count - 0) : x[k] = stream[0 + k]
  BY <1>1, <1>3, Slice
<1>5. /\ y \in Seq(T) /\ Len(y) = count - 0
      /\ \A k \in 1..(count - 0) : y[k] = s[0 + k]
  BY <1>1, <1>2, <1>3, Slice
<1> HIDE DEF x, y
<1>6. ASSUME NEW k \in 1..count PROVE x[k] = y[k]
  <2>1. k \in 1..(count - 0) /\ 0 + k = k /\ k \in 1..Len(stream)
    BY <1>1, <1>2
  <2> QED
    BY <1>2, <1>4, <1>5, <2>1
<1>7. x = y
  BY <1>3, <1>4, <1>5, <1>6, SeqEqual
<1>8. SubSeq(s, 1, count) = SubSeq(stream, 1, count)
  BY <1>3, <1>7 DEF x, y
<1> QED
  BY <1>3, <1>8 DEF ReadSoFar, s

\* A read appends to the buffer what comes next.
LEMMA ReadAppends ==
    ASSUME NEW T, NEW len, NEW stream \in Seq(T), NEW count, NEW D, NEW B,
           ReadSoFar(T, len, stream, count, D, B), NEW n \in Nat, count + n <= Len(stream)
    PROVE  ReadSoFar(T, len, stream, count + n, D, B \o SubSeq(stream, count + 1, count + n))
<1>1. /\ count \in Nat /\ count <= Len(stream)
      /\ D \in Seq(Seq(T)) /\ B \in Seq(T) /\ FullFrames(D, len)
      /\ FlattenSeq(D) \o B = SubSeq(stream, 1, count)
  BY DEF ReadSoFar
<1>2. PICK m \in Nat : m = count + n
  BY <1>1
<1>3. count <= m /\ m <= Len(stream) /\ Len(stream) \in Nat
  BY <1>1, <1>2, LenProperties
<1>4. SubSeq(stream, count + 1, m) \in Seq(T)
  BY <1>1, <1>3, Slice
<1>5. PICK x \in Seq(T) : x = SubSeq(stream, count + 1, m)
  BY <1>4
<1>6. PICK f \in Seq(T) : f = FlattenSeq(D)
  BY <1>1, FlattenType
<1>7. (f \o B) \o x = f \o (B \o x) /\ B \o x \in Seq(T)
  <2>1. PICK b \in Seq(T) : b = B
    BY <1>1
  <2>2. (f \o b) \o x = f \o (b \o x) /\ b \o x \in Seq(T)
    BY ConcatAssociative, ConcatProperties
  <2> QED
    BY <2>1, <2>2
<1>8. SubSeq(stream, 1, count) \o SubSeq(stream, count + 1, m) = SubSeq(stream, 1, m)
  <2>1. 1 \in 1..(Len(stream) + 1) /\ count \in (1 - 1)..Len(stream) /\ m \in count..Len(stream)
    BY <1>1, <1>3
  <2> QED
    BY <2>1, ConcatAdjacentSubSeq
<1>9. f \o (B \o x) = SubSeq(stream, 1, m)
  BY <1>1, <1>5, <1>6, <1>7, <1>8
<1> QED
  BY <1>1, <1>2, <1>3, <1>5, <1>6, <1>7, <1>9 DEF ReadSoFar

\* Frames at the front of the buffer move to the dispatcher.
LEMMA FramesMove ==
    ASSUME NEW T, NEW len, NEW stream \in Seq(T), NEW count, NEW D, NEW B,
           ReadSoFar(T, len, stream, count, D, B),
           NEW F \in Seq(Seq(T)), FullFrames(F, len), NEW rest \in Seq(T),
           FlattenSeq(F) \o rest = B
    PROVE  ReadSoFar(T, len, stream, count, D \o F, rest)
<1>1. /\ count \in Nat /\ count <= Len(stream)
      /\ D \in Seq(Seq(T)) /\ FullFrames(D, len)
      /\ FlattenSeq(D) \o B = SubSeq(stream, 1, count)
  BY DEF ReadSoFar
<1>2. PICK d \in Seq(T) : d = FlattenSeq(D)
  BY <1>1, FlattenType
<1>3. PICK f \in Seq(T) : f = FlattenSeq(F)
  BY FlattenType
<1>4. (d \o f) \o rest = d \o (f \o rest)
  BY ConcatAssociative
<1>5. FlattenSeq(D \o F) = d \o f
  BY <1>1, <1>2, <1>3, FlattenConcat
<1> DEFINE G == D \o F
<1>6. /\ G \in Seq(Seq(T)) /\ Len(G) = Len(D) + Len(F)
      /\ Len(D) \in Nat /\ Len(F) \in Nat
      /\ \A k \in 1..Len(D) : G[k] = D[k]
      /\ \A k \in 1..Len(F) : G[Len(D) + k] = F[k]
  BY <1>1, Join
<1> HIDE DEF G
<1>7. ASSUME NEW k \in 1..Len(G) PROVE FullFrame(G[k], len)
  <2>1. CASE k <= Len(D)
    <3>1. k \in 1..Len(D)
      BY <1>6, <2>1
    <3> QED
      BY <1>1, <1>6, <3>1 DEF FullFrames
  <2>2. CASE ~(k <= Len(D))
    <3>1. k - Len(D) \in 1..Len(F) /\ Len(D) + (k - Len(D)) = k
      BY <1>6, <2>2
    <3>2. G[k] = F[k - Len(D)]
      BY <1>6, <3>1
    <3> QED
      BY <3>1, <3>2 DEF FullFrames
  <2> QED
    BY <2>1, <2>2
<1>8. FullFrames(G, len)
  BY <1>7 DEF FullFrames
<1>9. FlattenSeq(G) \o rest = SubSeq(stream, 1, count)
  BY <1>1, <1>2, <1>3, <1>4, <1>5 DEF G
<1> QED
  BY <1>1, <1>6, <1>8, <1>9 DEF ReadSoFar, G

\* The bytes of the buffer come from the stream.
LEMMA BufferOfStream ==
    ASSUME NEW T, NEW len, NEW stream \in Seq(T), NEW count, NEW D, NEW B,
           ReadSoFar(T, len, stream, count, D, B), NEW k \in 1..Len(B)
    PROVE  \E i \in 1..Len(stream) : B[k] = stream[i]
<1>1. /\ count \in Nat /\ count <= Len(stream)
      /\ D \in Seq(Seq(T)) /\ B \in Seq(T)
      /\ FlattenSeq(D) \o B = SubSeq(stream, 1, count)
  BY DEF ReadSoFar
<1>2. PICK d \in Seq(T) : d = FlattenSeq(D)
  BY <1>1, FlattenType
<1>3. /\ Len(d \o B) = Len(d) + Len(B) /\ Len(d) \in Nat /\ Len(B) \in Nat
      /\ (d \o B)[Len(d) + k] = B[k]
  BY <1>1, Join
<1>4. 0 <= count /\ count - 0 = count /\ 0 + 1 = 1
  BY <1>1
<1>5. /\ Len(SubSeq(stream, 0 + 1, count)) = count - 0
      /\ \A i \in 1..(count - 0) : SubSeq(stream, 0 + 1, count)[i] = stream[0 + i]
  BY <1>1, <1>4, Slice
<1>6. PICK i \in Nat : i = Len(d) + k
  BY <1>3
<1>7. i \in 1..count /\ Len(stream) \in Nat
  BY <1>1, <1>2, <1>3, <1>4, <1>5, <1>6, LenProperties
<1>8. i \in 1..Len(stream) /\ 0 + i = i /\ i \in 1..(count - 0)
  BY <1>1, <1>4, <1>7
<1>9. B[k] = stream[i]
  BY <1>1, <1>2, <1>3, <1>4, <1>5, <1>6, <1>8
<1> QED
  BY <1>8, <1>9
=============================================================================
