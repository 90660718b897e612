------------------------------- MODULE B64Facts ------------------------------
(***************************************************************************)
(* What the proofs about the codecs rest on: facts about \div and % by a   *)
(* divisor that is not a numeral, induction on the natural numbers, and    *)
(* from these the facts about the texts and strings of bytes of B64Units.  *)
(***************************************************************************)
EXTENDS B64Units, WellFoundedInduction, SequenceTheorems, TLAPS

(* A positive multiple of M is at least M.                                 *)
LEMMA TimesOrder ==
    ASSUME NEW M \in Nat, NEW z \in Int, z >= 1
    PROVE  M * z >= M
<1>1. z - 1 \in Nat /\ M * (z - 1) = M * z - M
  OBVIOUS
<1>2. \A a, b \in Nat : a * b >= 0
  OBVIOUS
<1>3. M * (z - 1) >= 0
  BY <1>1, <1>2
<1>4. M * z \in Int
  OBVIOUS
<1>5. QED
  BY <1>1, <1>3, <1>4

(* There is one way to write a number as quotient times M plus remainder.  *)
LEMMA DivisionUnique ==
    ASSUME NEW M \in Nat \ {0}, NEW a \in Int, NEW c \in Int,
           NEW b \in 0..(M - 1), NEW d \in 0..(M - 1),
           M * a + b = M * c + d
    PROVE  a = c /\ b = d
<1>1. M * (a - c) = d - b
  <2>1. M * (a - c) = M * a - M * c
    OBVIOUS
  <2>2. M * a \in Int /\ M * c \in Int
    OBVIOUS
  <2>3. QED
    BY <2>1, <2>2
<1>2. ~(a - c >= 1)
  <2>1. SUFFICES ASSUME a - c >= 1 PROVE FALSE
    OBVIOUS
  <2>2. M * (a - c) >= M
    BY <2>1, TimesOrder
  <2>3. QED
    BY <1>1, <2>2
<1>3. ~(c - a >= 1)
  <2>1. SUFFICES ASSUME c - a >= 1 PROVE FALSE
    OBVIOUS
  <2>2. M * (c - a) >= M
    BY <2>1, TimesOrder
  <2>3. M * (c - a) = -(M * (a - c))
    OBVIOUS
  <2>4. QED
    BY <1>1, <2>2, <2>3
<1>4. a = c
  BY <1>2, <1>3
<1>5. QED
  BY <1>1, <1>4, M * 0 = 0

(* Quotient and remainder of an integer, with the remainder's range.       *)
LEMMA Division ==
    ASSUME NEW M \in Nat \ {0}, NEW x \in Int
    PROVE  x = M * (x \div M) + (x % M) /\ x % M \in 0..(M - 1) /\ x \div M \in Int
OBVIOUS

(* The quotient and the remainder of a number written that way.            *)
LEMMA DivisionIs ==
    ASSUME NEW M \in Nat \ {0}, NEW q \in Int, NEW r \in 0..(M - 1)
    PROVE  (M * q + r) \div M = q /\ (M * q + r) % M = r
<1> DEFINE x == M * q + r
<1>1. x \in Int
  OBVIOUS
<1>2. x = M * (x \div M) + (x % M) /\ x % M \in 0..(M - 1) /\ x \div M \in Int
  BY <1>1, Division
<1>3. QED
  BY <1>2, DivisionUnique

(* Reducing a summand first does not change the remainder of a sum.        *)
LEMMA ModPlus ==
    ASSUME NEW M \in Nat \ {0}, NEW n \in Int, NEW k \in Int
    PROVE  ((n % M) + k) % M = (n + k) % M
<1> DEFINE q == n \div M
           r == n % M
           y == r + k
<1>1. n = M * q + r /\ r \in Int /\ q \in Int
  BY Division
<1>2. y = M * (y \div M) + (y % M) /\ y % M \in 0..(M - 1) /\ y \div M \in Int
  <2>1. y \in Int
    BY <1>1
  <2> HIDE DEF y
  <2>2. QED
    BY <2>1, Division
<1> DEFINE a == y \div M
           b == y % M
<1>3. n + k = M * (q + a) + b
  <2>1. n + k = M * q + y
    BY <1>1
  <2> HIDE DEF q, r, y
  <2>2. y = M * a + b /\ a \in Int /\ b \in Int /\ y \in Int /\ q \in Int
    BY <1>1, <1>2
  <2> HIDE DEF a, b
  <2>3. M * (q + a) = M * q + M * a
    BY <2>2
  <2>4. M * q \in Int /\ M * a \in Int
    BY <2>2
  <2>5. QED
    BY <2>1, <2>2, <2>3, <2>4
<1>4. q + a \in Int /\ b \in 0..(M - 1)
  BY <1>1, <1>2
<1> HIDE DEF q, r, a, b
<1>5. (M * (q + a) + b) % M = b
  BY <1>4, DivisionIs
<1>6. QED
  BY <1>3, <1>5 DEF b, y, r


-----------------------------------------------------------------------------
(* Induction.  The provers cannot instantiate an induction rule over       *)
(* predicates; a set of numbers takes the predicate's place, and the rule  *)
(* comes from the order on Nat being well founded.                         *)

LEMMA LeastOf ==
    ASSUME NEW T \in SUBSET Nat, T # {}
    PROVE  \E n \in T : \A m \in T : n <= m
<1> DEFINE R == OpToRel(<, Nat)
<1>1. IsWellFoundedOn(R, Nat)
  BY NatLessThanWellFounded
<1>2. \A x, y \in Nat : << y, x >> \in R <=> y < x
  BY DEF OpToRel
<1> HIDE DEF R
<1>3. PICK n \in T : \A y \in T : ~ (<< y, n >> \in R)
  BY <1>1, WFMin
<1>4. ASSUME NEW m \in T PROVE n <= m
  <2>1. m \in Nat /\ n \in Nat
    OBVIOUS
  <2>2. ~ (<< m, n >> \in R)
    BY <1>3
  <2>3. ~ (m < n)
    BY <1>2, <2>1, <2>2
  <2>4. QED
    BY <2>1, <2>3
<1>5. QED
  BY <1>4

(* Induction as a fact about a set of numbers, which the provers
   instantiate.                                                            *)
LEMMA Induction ==
    ASSUME NEW S \in SUBSET Nat, 0 \in S, \A n \in S : n + 1 \in S
    PROVE  S = Nat
<1> SUFFICES ASSUME Nat \ S # {} PROVE FALSE
  OBVIOUS
<1>1. PICK n \in Nat \ S : \A m \in Nat \ S : n <= m
  BY LeastOf
<1>2. n - 1 \in S
  BY <1>1
<1>3. QED
  BY <1>1, <1>2

-----------------------------------------------------------------------------
(* Among is defined by a recursive function; it has the values its         *)
(* definition says.                                                        *)

(* g filters the first n members of s.                                     *)
Filters(S, s, n, g) ==
    /\ g = [i \in 0..n |-> g[i]]
    /\ g[0] = << >>
    /\ \A i \in 1..n :
          g[i] = IF s[i] \in S THEN Append(g[i - 1], s[i]) ELSE g[i - 1]

(* The fold that filters a sequence has its partial results up to any n.   *)
LEMMA FilterExists ==
    ASSUME NEW S, NEW s
    PROVE  \A n \in Nat : \E g : Filters(S, s, n, g)
<1> DEFINE Good == {n \in Nat : \E g : Filters(S, s, n, g)}
<1>1. 0 \in Good
  <2> DEFINE g == [i \in 0..0 |-> << >>]
  <2>1. Filters(S, s, 0, g)
    BY DEF Filters
  <2>2. QED
    BY <2>1
<1>2. ASSUME NEW n \in Good PROVE n + 1 \in Good
  <2>1. PICK g : Filters(S, s, n, g)
    OBVIOUS
  <2> DEFINE last == IF s[n + 1] \in S THEN Append(g[n], s[n + 1]) ELSE g[n]
             h == [i \in 0..(n + 1) |-> IF i <= n THEN g[i] ELSE last]
  <2>2. n \in Nat /\ h[0] = << >> /\ h[n + 1] = last /\ h[n] = g[n]
    BY <2>1 DEF Filters
  <2>3. ASSUME NEW i \in 1..(n + 1)
        PROVE  h[i] = IF s[i] \in S THEN Append(h[i - 1], s[i]) ELSE h[i - 1]
    <3>1. CASE i <= n
      <4>1. i \in 1..n /\ h[i] = g[i] /\ h[i - 1] = g[i - 1]
        BY <2>2, <3>1
      <4>2. QED
        BY <2>1, <4>1 DEF Filters
    <3>2. CASE i = n + 1
      <4>1. h[i - 1] = g[n] /\ h[i] = last
        BY <2>2, <3>2
      <4>2. QED
        BY <3>2, <4>1
    <3>3. QED
      BY <2>2, <3>1, <3>2
  <2>4. h = [i \in 0..(n + 1) |-> h[i]]
    OBVIOUS
  <2> HIDE DEF h
  <2>5. Filters(S, s, n + 1, h)
    BY <2>2, <2>3, <2>4 DEF Filters
  <2>6. QED
    BY <2>2, <2>5
<1> HIDE DEF Good
<1>3. Good = Nat
  <2>1. Good \in SUBSET Nat
    BY DEF Good
  <2>2. QED
    BY <1>1, <1>2, <2>1, Induction
<1>4. QED
  BY <1>3 DEF Good

(* Two such folds agree as far as the shorter of them goes.                *)
LEMMA FilterUnique ==
    ASSUME NEW S, NEW s, NEW n \in Nat, NEW g, NEW h, NEW m \in Nat, m <= n,
           Filters(S, s, m, g), Filters(S, s, n, h)
    PROVE  g[m] = h[m]
<1> DEFINE Same == {i \in Nat : i <= m => g[i] = h[i]}
<1>1. 0 \in Same
  BY DEF Filters
<1>2. ASSUME NEW i \in Same PROVE i + 1 \in Same
  <2>1. SUFFICES ASSUME i + 1 <= m PROVE g[i + 1] = h[i + 1]
    OBVIOUS
  <2>2. g[i] = h[i] /\ i + 1 \in 1..m /\ i + 1 \in 1..n /\ (i + 1) - 1 = i
    BY <2>1
  <2>3. g[i + 1] = IF s[i + 1] \in S THEN Append(g[i], s[i + 1]) ELSE g[i]
    BY <2>2 DEF Filters
  <2>4. h[i + 1] = IF s[i + 1] \in S THEN Append(h[i], s[i + 1]) ELSE h[i]
    BY <2>2 DEF Filters
  <2>5. CASE s[i + 1] \in S
    BY <2>2, <2>3, <2>4, <2>5, Zenon
  <2>6. CASE s[i + 1] \notin S
    BY <2>2, <2>3, <2>4, <2>6, Zenon
  <2>7. QED
    BY <2>5, <2>6
<1> HIDE DEF Same
<1>3. Same = Nat
  <2>1. Same \in SUBSET Nat
    BY DEF Same
  <2>2. QED
    BY <1>1, <1>2, <2>1, Induction
<1>4. QED
  BY <1>3 DEF Same

(* Among is the last partial result of any such fold.                      *)
LEMMA AmongIs ==
    ASSUME NEW S, NEW s, Len(s) \in Nat,
           NEW g, Filters(S, s, Len(s), g)
    PROVE  Among(S, s) = g[Len(s)]
<1> DEFINE Recurs(f) ==
             f = [n \in 0..Len(s) |->
                    IF n = 0 THEN << >>
                    ELSE IF s[n] \in S THEN Append(f[n - 1], s[n])
                    ELSE f[n - 1]]
           kept == CHOOSE f : Recurs(f)
<1>1. Recurs(g)
  <2>1. \A n \in 0..Len(s) :
          g[n] = IF n = 0 THEN << >>
                 ELSE IF s[n] \in S THEN Append(g[n - 1], s[n])
                 ELSE g[n - 1]
    <3>1. \A n \in 0..Len(s) : n = 0 \/ n \in 1..Len(s)
      OBVIOUS
    <3>2. g[0] = << >>
      BY DEF Filters
    <3>3. \A n \in 1..Len(s) :
            n # 0 /\ g[n] = IF s[n] \in S THEN Append(g[n - 1], s[n]) ELSE g[n - 1]
      BY DEF Filters
    <3>4. QED
      BY <3>1, <3>2, <3>3
  <2>2. g = [n \in 0..Len(s) |-> g[n]]
    BY DEF Filters
  <2>3. QED
    BY <2>1, <2>2
<1>2. Recurs(kept)
  BY <1>1
<1>3. Among(S, s) = kept[Len(s)]
  BY DEF Among
<1> HIDE DEF kept
<1>4. Filters(S, s, Len(s), kept)
  <2>1. \A n \in 0..Len(s) :
          kept[n] = IF n = 0 THEN << >>
                    ELSE IF s[n] \in S THEN Append(kept[n - 1], s[n])
                    ELSE kept[n - 1]
    BY <1>2
  <2>2. kept = [n \in 0..Len(s) |-> kept[n]]
    BY <1>2
  <2>3. kept[0] = << >>
    BY <2>1
  <2>4. \A n \in 1..Len(s) :
          kept[n] = IF s[n] \in S THEN Append(kept[n - 1], s[n]) ELSE kept[n - 1]
    <3>1. \A n \in 1..Len(s) : n # 0 /\ n \in 0..Len(s)
      OBVIOUS
    <3>2. QED
      BY <2>1, <3>1
  <2>5. QED
    BY <2>2, <2>3, <2>4 DEF Filters
<1>5. QED
  BY <1>3, <1>4, FilterUnique

(* Nothing is kept of the empty sequence.                                  *)
LEMMA AmongEmpty ==
    ASSUME NEW S
    PROVE  Among(S, << >>) = << >>
<1>1. PICK g : Filters(S, << >>, 0, g)
  BY FilterExists
<1>2. Len(<< >>) = 0
  OBVIOUS
<1>3. QED
  BY <1>1, <1>2, AmongIs DEF Filters

(* What is kept after one more element: it too, or the same as before.     *)
LEMMA AmongAppend ==
    ASSUME NEW S, NEW X, NEW s \in Seq(X), NEW e \in X
    PROVE  Among(S, Append(s, e)) =
             IF e \in S THEN Append(Among(S, s), e) ELSE Among(S, s)
<1> DEFINE t == Append(s, e)
           n == Len(s)
<1>1. n \in Nat /\ Len(t) = n + 1 /\ t[n + 1] = e /\ \A i \in 1..n : t[i] = s[i]
  OBVIOUS
<1> HIDE DEF t, n
<1>2. PICK g : Filters(S, t, n + 1, g)
  <2>1. n + 1 \in Nat
    BY <1>1
  <2>2. QED
    BY <2>1, FilterExists
<1>3. PICK h : Filters(S, s, n, h)
  BY <1>1, FilterExists
<1>4. Filters(S, t, n, h)
  BY <1>1, <1>3 DEF Filters
<1>5. h[n] = g[n]
  BY <1>1, <1>2, <1>4, FilterUnique
<1>6. g[n + 1] = IF e \in S THEN Append(h[n], e) ELSE h[n]
  <2>1. n + 1 \in 1..(n + 1) /\ (n + 1) - 1 = n
    BY <1>1
  <2>2. g[n + 1] = IF t[n + 1] \in S THEN Append(g[n], t[n + 1]) ELSE g[n]
    BY <1>2, <2>1 DEF Filters
  <2>3. QED
    BY <1>1, <1>5, <2>2
<1>7. Among(S, t) = g[n + 1]
  BY <1>1, <1>2, AmongIs
<1>8. Among(S, s) = h[n]
  BY <1>1, <1>3, AmongIs DEF n
<1>9. QED
  BY <1>6, <1>7, <1>8 DEF t

-----------------------------------------------------------------------------
(* Induction on sequences, with a set in the predicate's place.            *)

LEMMA SeqInduction ==
    ASSUME NEW X, NEW P \in SUBSET Seq(X), << >> \in P,
           \A s \in P : \A e \in X : Append(s, e) \in P
    PROVE  P = Seq(X)
<1> DEFINE Good == {n \in Nat : \A s \in Seq(X) : Len(s) = n => s \in P}
<1>1. 0 \in Good
  OBVIOUS
<1>2. ASSUME NEW n \in Good PROVE n + 1 \in Good
  <2>1. SUFFICES ASSUME NEW s \in Seq(X), Len(s) = n + 1 PROVE s \in P
    OBVIOUS
  <2>2. PICK t \in Seq(X), e \in X : s = Append(t, e)
    <3>1. s # << >>
      BY <2>1
    <3>2. QED
      BY <3>1, SequenceEmptyOrAppend
  <2>3. Len(t) = n
    <3>1. Len(s) = Len(t) + 1 /\ Len(t) \in Nat /\ n \in Nat
      BY <2>2
    <3>2. QED
      BY <2>1, <3>1
  <2>4. t \in P
    BY <2>2, <2>3
  <2>5. QED
    BY <2>2, <2>4
<1> HIDE DEF Good
<1>3. Good = Nat
  <2>1. Good \in SUBSET Nat
    BY DEF Good
  <2>2. QED
    BY <1>1, <1>2, <2>1, Induction
<1>4. ASSUME NEW s \in Seq(X) PROVE s \in P
  <2>1. Len(s) \in Good
    BY <1>3
  <2>2. QED
    BY <2>1 DEF Good
<1>5. QED
  BY <1>4

(* What is kept are elements of the sequence that are in S.                *)
LEMMA AmongType ==
    ASSUME NEW S, NEW X, NEW s \in Seq(X)
    PROVE  Among(S, s) \in Seq(S \cap X)
<1> DEFINE P == {t \in Seq(X) : Among(S, t) \in Seq(S \cap X)}
<1>1. << >> \in P
  BY AmongEmpty, EmptySeq
<1>2. ASSUME NEW t \in P, NEW e \in X PROVE Append(t, e) \in P
  <2>1. Append(t, e) \in Seq(X) /\ Among(S, t) \in Seq(S \cap X)
    OBVIOUS
  <2>2. Among(S, Append(t, e)) =
          IF e \in S THEN Append(Among(S, t), e) ELSE Among(S, t)
    BY AmongAppend
  <2>3. \A a \in Seq(S \cap X) : e \in S => Append(a, e) \in Seq(S \cap X)
    OBVIOUS
  <2>4. Among(S, Append(t, e)) \in Seq(S \cap X)
    BY <2>1, <2>2, <2>3, Zenon
  <2>5. QED
    BY <2>1, <2>4, Zenon
<1> HIDE DEF P
<1>3. P = Seq(X)
  <2>1. P \in SUBSET Seq(X)
    BY DEF P
  <2>2. QED
    BY <1>1, <1>2, <2>1, SeqInduction
<1>4. QED
  BY <1>3 DEF P

(* Appending to the second of two joined sequences appends to the whole.   *)
LEMMA AppendConcat ==
    ASSUME NEW X, NEW s \in Seq(X), NEW t \in Seq(X), NEW e \in X
    PROVE  s \o Append(t, e) = Append(s \o t, e)
OBVIOUS

(* Filtering two joined sequences joins what is kept of each.              *)
LEMMA AmongConcat ==
    ASSUME NEW S, NEW X, NEW s \in Seq(X), NEW t \in Seq(X)
    PROVE  Among(S, s \o t) = Among(S, s) \o Among(S, t)
<1> DEFINE P == {u \in Seq(X) : Among(S, s \o u) = Among(S, s) \o Among(S, u)}
<1>1. << >> \in P
  <2>1. s \o << >> = s
    BY ConcatEmptySeq
  <2>2. Among(S, s) \o << >> = Among(S, s)
    BY AmongType, ConcatEmptySeq
  <2>3. Among(S, << >>) = << >> /\ << >> \in Seq(X)
    BY AmongEmpty, EmptySeq
  <2>4. Among(S, s \o << >>) = Among(S, s) \o Among(S, << >>)
    BY <2>1, <2>2, <2>3, Zenon
  <2>5. QED
    BY <2>3, <2>4
<1>2. ASSUME NEW u \in P, NEW e \in X PROVE Append(u, e) \in P
  <2>1. /\ Append(u, e) \in Seq(X) /\ s \o u \in Seq(X)
        /\ Among(S, s \o u) = Among(S, s) \o Among(S, u)
    OBVIOUS
  <2>2. s \o Append(u, e) = Append(s \o u, e)
    BY AppendConcat
  <2>3. CASE e \in S
    <3>1. Among(S, s \o Append(u, e)) = Append(Among(S, s \o u), e)
      BY <2>1, <2>2, <2>3, AmongAppend
    <3>2. Among(S, Append(u, e)) = Append(Among(S, u), e)
      BY <2>3, AmongAppend
    <3>3. Among(S, s) \o Append(Among(S, u), e)
            = Append(Among(S, s) \o Among(S, u), e)
      BY <2>3, AmongType, AppendConcat
    <3>4. QED
      BY <2>1, <3>1, <3>2, <3>3
  <2>4. CASE e \notin S
    <3>1. \A v \in Seq(X) : Among(S, Append(v, e)) = Among(S, v)
      BY <2>4, AmongAppend
    <3>2. Among(S, Append(u, e)) = Among(S, u)
      BY <2>4, AmongAppend
    <3>3. QED
      BY <2>1, <2>2, <3>1, <3>2
  <2>5. QED
    BY <2>3, <2>4
<1> HIDE DEF P
<1>3. P = Seq(X)
  <2>1. P \in SUBSET Seq(X)
    BY DEF P
  <2>2. QED
    BY <1>1, <1>2, <2>1, SeqInduction
<1>4. QED
  BY <1>3 DEF P

(* A sequence of elements of S is kept whole.                              *)
LEMMA AmongAll ==
    ASSUME NEW S, NEW s \in Seq(S)
    PROVE  Among(S, s) = s
<1> DEFINE P == {t \in Seq(S) : Among(S, t) = t}
<1>1. << >> \in P
  BY AmongEmpty
<1>2. ASSUME NEW t \in P, NEW e \in S PROVE Append(t, e) \in P
  BY AmongAppend
<1> HIDE DEF P
<1>3. P = Seq(S)
  <2>1. P \in SUBSET Seq(S)
    BY DEF P
  <2>2. QED
    BY <1>1, <1>2, <2>1, SeqInduction
<1>4. QED
  BY <1>3 DEF P

(* Filtering by a larger set first makes no difference.                    *)
LEMMA AmongAmong ==
    ASSUME NEW S, NEW T \in SUBSET S, NEW X, NEW s \in Seq(X)
    PROVE  Among(T, Among(S, s)) = Among(T, s)
<1> DEFINE P == {t \in Seq(X) : Among(T, Among(S, t)) = Among(T, t)}
<1>1. << >> \in P
  BY AmongEmpty
<1>2. ASSUME NEW t \in P, NEW e \in X PROVE Append(t, e) \in P
  <2>1. Append(t, e) \in Seq(X) /\ Among(T, Among(S, t)) = Among(T, t)
    OBVIOUS
  <2>2. Among(T, Append(t, e)) =
          IF e \in T THEN Append(Among(T, t), e) ELSE Among(T, t)
    BY AmongAppend
  <2>3. CASE e \in S
    <3>1. Among(S, Append(t, e)) = Append(Among(S, t), e)
      BY <2>3, AmongAppend
    <3>2. Among(S, t) \in Seq(X)
      <4>1. Among(S, t) \in Seq(S \cap X) /\ S \cap X \subseteq X
        BY AmongType
      <4>2. QED
        BY <4>1, SeqMonotonic
    <3>3. Among(T, Append(Among(S, t), e)) =
            IF e \in T THEN Append(Among(T, Among(S, t)), e)
                       ELSE Among(T, Among(S, t))
      BY <3>2, AmongAppend
    <3>4. QED
      BY <2>1, <2>2, <3>1, <3>3
  <2>4. CASE e \notin S
    <3>1. Among(S, Append(t, e)) = Among(S, t) /\ e \notin T
      BY <2>4, AmongAppend
    <3>2. QED
      BY <2>1, <2>2, <3>1
  <2>5. QED
    BY <2>3, <2>4
<1> HIDE DEF P
<1>3. P = Seq(X)
  <2>1. P \in SUBSET Seq(X)
    BY DEF P
  <2>2. QED
    BY <1>1, <1>2, <2>1, SeqInduction
<1>4. QED
  BY <1>3 DEF P

-----------------------------------------------------------------------------
(* Texts.  A finished or unfinished text is a run of characters laid out   *)
(* on lines; the characters are a function on Nat, so that a run can grow  *)
(* without the function changing.                                          *)

(* n characters of pl on lines of w.                                       *)
Laid(pl, n, w) ==
    [p \in 1..(n + Separators(n, w)) |->
        IF w = 0 THEN pl[p - 1]
        ELSE IF p % (w + 1) = 0 THEN NL
        ELSE pl[p - 1 - p \div (w + 1)]]

(* A count of characters is whole lines and the column, which is 0 only
   of no characters.                                                       *)
LEMMA ColumnIs ==
    ASSUME NEW w \in Nat \ {0}, NEW n \in Nat
    PROVE  /\ Separators(n, w) \in Nat /\ Column(n, w) \in 0..w
           /\ n = w * Separators(n, w) + Column(n, w)
           /\ Column(n, w) = 0 => n = 0 /\ Separators(n, w) = 0
<1>1. CASE n = 0
  BY <1>1, w * 0 = 0 DEF Column, Separators
<1>2. CASE n # 0
  <2> DEFINE q == (n - 1) \div w
             r == (n - 1) % w
  <2>1. n - 1 = w * q + r /\ r \in 0..(w - 1) /\ q \in Int
    <3>1. \A x \in Int :
            x = w * (x \div w) + (x % w) /\ x % w \in 0..(w - 1) /\ x \div w \in Int
      BY Division
    <3>2. n - 1 \in Int
      OBVIOUS
    <3>3. QED
      BY <3>1, <3>2
  <2>2. Separators(n, w) = q /\ Column(n, w) = r + 1
    BY <1>2 DEF Separators, Column
  <2> HIDE DEF q, r
  <2>3. q >= 0
    <3>1. SUFFICES ASSUME -q >= 1 PROVE FALSE
      BY <2>1
    <3>2. w * (-q) >= w
      BY <2>1, <3>1, TimesOrder
    <3>3. w * (-q) = -(w * q) /\ w * q \in Int
      BY <2>1
    <3>4. QED
      BY <1>2, <2>1, <3>2, <3>3
  <2>4. w * q \in Int
    BY <2>1
  <2>5. n = w * q + (r + 1)
    BY <1>2, <2>1, <2>4
  <2>6. QED
    BY <1>2, <2>1, <2>2, <2>3, <2>5
<1>3. QED
  BY <1>1, <1>2

(* One more character moves the column by one, or starts a line after one
   more separator.                                                         *)
LEMMA ColumnNext ==
    ASSUME NEW w \in Nat \ {0}, NEW n \in Nat
    PROVE  IF Column(n, w) = w
           THEN Column(n + 1, w) = 1 /\ Separators(n + 1, w) = Separators(n, w) + 1
           ELSE Column(n + 1, w) = Column(n, w) + 1
                /\ Separators(n + 1, w) = Separators(n, w)
<1> DEFINE q == Separators(n, w)
           c == Column(n, w)
<1>1. q \in Nat /\ c \in 0..w /\ n = w * q + c
  BY ColumnIs
<1>2. Column(n + 1, w) = (n % w) + 1 /\ Separators(n + 1, w) = n \div w
  BY DEF Column, Separators
<1> HIDE DEF q, c
<1>3. CASE c = w
  <2>1. w * (q + 1) = w * q + w /\ w * q \in Int
    BY <1>1
  <2>2. n = w * (q + 1) + 0
    BY <1>1, <1>3, <2>1
  <2>3. n \div w = q + 1 /\ n % w = 0
    BY <1>1, <2>2, DivisionIs
  <2>4. QED
    BY <1>2, <1>3, <2>3 DEF q, c
<1>4. CASE c # w
  <2>1. c \in 0..(w - 1)
    BY <1>1, <1>4
  <2>2. n \div w = q /\ n % w = c
    BY <1>1, <2>1, DivisionIs
  <2>3. QED
    BY <1>2, <1>4, <2>2 DEF q, c
<1>5. QED
  BY <1>3, <1>4

(* Where a position that is not a line's end finds its character.          *)
LEMMA LineIndex ==
    ASSUME NEW w \in Nat \ {0}, NEW p \in Nat \ {0}
    PROVE  p - 1 - p \div (w + 1) \in Nat
<1> DEFINE a == p \div (w + 1)
           b == p % (w + 1)
<1>1. p = (w + 1) * a + b /\ b \in 0..w /\ a \in Int
  <2>1. w + 1 \in Nat \ {0} /\ (w + 1) - 1 = w /\ p \in Int
    OBVIOUS
  <2>2. \A M \in Nat \ {0} :
          p = M * (p \div M) + (p % M) /\ p % M \in 0..(M - 1) /\ p \div M \in Int
    BY <2>1, Division
  <2>3. QED
    BY <2>1, <2>2
<1> HIDE DEF a, b
<1>2. CASE a >= 1
  <2>1. w * a >= w /\ (w + 1) * a = w * a + a /\ w * a \in Int
    BY <1>1, <1>2, TimesOrder
  <2>2. w * a >= a
    <3>1. a * w >= a
      BY <1>1, <1>2, TimesOrder
    <3>2. a * w = w * a
      BY <1>1
    <3>3. QED
      BY <3>1, <3>2
  <2>3. p - 1 - a \in Nat
    BY <1>1, <2>1, <2>2, <1>2
  <2>4. QED
    BY <2>3 DEF a
<1>3. CASE a = 0
  <2>1. p - 1 - a \in Nat
    BY <1>3
  <2>2. QED
    BY <2>1 DEF a
<1>4. CASE a < 0
  <2>1. (w + 1) * (-a) >= w + 1 /\ (w + 1) * (-a) = -((w + 1) * a)
    BY <1>1, <1>4, TimesOrder
  <2>2. FALSE
    BY <1>1, <2>1, (w + 1) * a \in Int
  <2>3. QED
    BY <2>2
<1>5. QED
  BY <1>1, <1>2, <1>3, <1>4

(* A position of a laid out text is a newline or shows a character.        *)
LEMMA LaidType ==
    ASSUME NEW X, NL \in X, NEW pl \in [Nat -> X], NEW n \in Nat, NEW w \in Nat
    PROVE  /\ Laid(pl, n, w) \in Seq(X)
           /\ Len(Laid(pl, n, w)) = n + Separators(n, w)
           /\ Separators(n, w) \in Nat
<1>1. Separators(n, w) \in Nat
  <2>1. CASE w = 0
    BY <2>1 DEF Separators
  <2>2. CASE w # 0
    BY <2>2, ColumnIs
  <2>3. QED
    BY <2>1, <2>2
<1>2. \A p \in Nat \ {0} : w # 0 => p - 1 - p \div (w + 1) \in Nat
  BY LineIndex
<1>3. ASSUME NEW p \in 1..(n + Separators(n, w))
      PROVE  (IF w = 0 THEN pl[p - 1]
              ELSE IF p % (w + 1) = 0 THEN NL
              ELSE pl[p - 1 - p \div (w + 1)]) \in X
  <2>1. p \in Nat \ {0} /\ p - 1 \in Nat
    BY <1>1
  <2>2. QED
    BY <1>2, <2>1
<1>4. Laid(pl, n, w) \in [1..(n + Separators(n, w)) -> X]
  BY <1>3 DEF Laid
<1>5. n + Separators(n, w) \in Nat
  BY <1>1
<1>6. QED
  BY <1>1, <1>4, <1>5

(* No characters laid out are the empty text, at any width.                *)
LEMMA LaidNone ==
    ASSUME NEW pl, NEW w \in Nat
    PROVE  Laid(pl, 0, w) = << >>
BY DEF Laid, Separators

(* One character more: at the end of a full line it comes after a newline. *)
LEMMA LaidMore ==
    ASSUME NEW X, NL \in X, NEW pl \in [Nat -> X], NEW n \in Nat, NEW w \in Nat
    PROVE  Laid(pl, n + 1, w) =
             IF w # 0 /\ Column(n, w) = w
             THEN Append(Append(Laid(pl, n, w), NL), pl[n])
             ELSE Append(Laid(pl, n, w), pl[n])
<1> DEFINE s == Laid(pl, n, w)
           t == Laid(pl, n + 1, w)
           N == n + Separators(n, w)
           at(p) == IF w = 0 THEN pl[p - 1]
                    ELSE IF p % (w + 1) = 0 THEN NL
                    ELSE pl[p - 1 - p \div (w + 1)]
<1>1. s \in Seq(X) /\ Len(s) = N /\ N \in Nat /\ pl[n] \in X
  <2>1. s \in Seq(X) /\ Len(s) = N /\ Separators(n, w) \in Nat
    BY LaidType
  <2>2. N \in Nat /\ pl[n] \in X
    BY <2>1
  <2>3. QED
    BY <2>1, <2>2
<1>2. t \in Seq(X) /\ Len(t) = n + 1 + Separators(n + 1, w) /\ n + 1 \in Nat
  BY LaidType
<1>3. \A p \in 1..N : s[p] = at(p)
  BY DEF Laid
<1>4. \A p \in 1..Len(t) : t[p] = at(p)
  BY <1>2 DEF Laid
<1>5. CASE w = 0
  <2>1. Separators(n, w) = 0 /\ Separators(n + 1, w) = 0
    BY <1>5 DEF Separators
  <2>2. Len(t) = N + 1 /\ N = n
    BY <1>2, <2>1
  <2>3. t[N + 1] = pl[n] /\ \A p \in 1..N : t[p] = s[p]
    BY <1>3, <1>4, <1>5, <2>2
  <2> HIDE DEF s, t, N
  <2>4. t = Append(s, pl[n])
    BY <1>1, <1>2, <2>2, <2>3, SeqEqual
  <2>5. QED
    BY <1>5, <2>4 DEF s, t
<1>6. CASE w # 0
  <2> DEFINE q == Separators(n, w)
             c == Column(n, w)
             W == w + 1
  <2>1. /\ q \in Nat /\ c \in 0..w /\ n = w * q + c
        /\ w * q \in Int /\ W * q \in Int
        /\ N = W * q + c
    <3>1. q \in Nat /\ c \in 0..w /\ n = w * q + c
      BY <1>6, ColumnIs
    <3> HIDE DEF q, c
    <3>2. W * q = w * q + q /\ w * q \in Int
      BY <3>1
    <3>3. QED
      BY <3>1, <3>2 DEF q
  <2>2. W \in Nat \ {0}
    BY <1>6
  <2>6. \A p \in 1..Len(t) : p % W # 0 => t[p] = pl[p - 1 - p \div W]
    BY <1>4, <1>6
  <2>3. CASE c = w
    <3>1. Len(t) = N + 2
      <4>1. Separators(n + 1, w) = q + 1
        BY <1>6, <2>3, ColumnNext
      <4>2. Len(t) = n + 1 + (q + 1) /\ N = n + q
        BY <1>2, <4>1
      <4>3. q \in Nat
        BY <2>1
      <4> HIDE DEF N, t, q
      <4>4. QED
        BY <4>2, <4>3
    <3>2. W * (q + 1) = W * q + W
      BY <2>1, <2>2
    <3>3. N + 1 = W * (q + 1) + 0 /\ N + 2 = W * (q + 1) + 1
      BY <2>1, <2>3, <3>2
    <3>4. /\ (N + 1) % W = 0
          /\ (N + 2) % W = 1 /\ (N + 2) \div W = q + 1
      <4> HIDE DEF q, c, N, W
      <4>1. q + 1 \in Int /\ 0 \in 0..(W - 1) /\ 1 \in 0..(W - 1)
        BY <1>6, <2>1, <2>2 DEF W
      <4>2. QED
        BY <2>2, <3>3, <4>1, DivisionIs
    <3>5. (N + 2) - 1 - (q + 1) = n
      BY <2>1
    <3>6. \A p \in 1..N : p \in 1..Len(t)
      BY <1>1, <3>1
    <3>7. t[N + 1] = NL
      <4>1. N + 1 \in 1..Len(t)
        BY <1>1, <3>1
      <4>2. QED
        BY <1>4, <1>6, <3>4, <4>1
    <3>8. t[N + 2] = pl[n]
      <4>1. N + 2 \in 1..Len(t)
        BY <1>1, <3>1
      <4>2. t[N + 2] = pl[(N + 2) - 1 - (q + 1)]
        <5> DEFINE z == N + 2
        <5>1. z \in 1..Len(t) /\ z % W # 0 /\ z \div W = q + 1 /\ z = N + 2
          BY <3>4, <4>1
        <5> HIDE DEF N, W, t, q, z
        <5>2. t[z] = pl[z - 1 - (q + 1)]
          BY <2>6, <5>1
        <5>3. QED
          BY <5>1, <5>2
      <4>3. QED
        BY <3>5, <4>2
    <3> HIDE DEF s, t, N, q, c, W
    <3>9. t = Append(Append(s, NL), pl[n])
      <4> DEFINE u == Append(Append(s, NL), pl[n])
      <4>1. /\ u \in Seq(X) /\ Len(u) = N + 2
            /\ u[N + 1] = NL /\ u[N + 2] = pl[n]
            /\ \A p \in 1..N : u[p] = s[p]
        BY <1>1
      <4> HIDE DEF u
      <4>2. \A p \in 1..(N + 2) : p \in 1..N \/ p = N + 1 \/ p = N + 2
        BY <1>1
      <4>3. \A p \in 1..Len(t) : t[p] = u[p]
        BY <1>3, <1>4, <3>1, <3>6, <3>7, <3>8, <4>1, <4>2
      <4>4. QED
        BY <1>2, <3>1, <4>1, <4>3, SeqEqual DEF u
    <3>10. QED
      BY <1>6, <2>3, <3>9 DEF s, t, c
  <2>4. CASE c # w
    <3>1. Len(t) = N + 1
      <4>1. Separators(n + 1, w) = q
        BY <1>6, <2>4, ColumnNext
      <4>2. Len(t) = n + 1 + q /\ N = n + q
        BY <1>2, <4>1
      <4>3. \A x, y \in Nat : (x + 1) + y = (x + y) + 1
        OBVIOUS
      <4> HIDE DEF q, N, t, s, c, W
      <4>4. QED
        BY <2>1, <4>2, <4>3, Zenon
    <3>2. N + 1 = W * q + (c + 1) /\ c + 1 \in 0..(W - 1) /\ c + 1 # 0
      BY <2>1, <2>4
    <3>3. (N + 1) % W = c + 1 /\ (N + 1) \div W = q
      <4> HIDE DEF q, c, N, W
      <4>1. QED
        BY <2>1, <2>2, <3>2, DivisionIs
    <3>4. (N + 1) - 1 - q = n
      BY <2>1
    <3>5. t[N + 1] = pl[n]
      <4>1. N + 1 \in 1..Len(t)
        BY <1>1, <3>1
      <4>2. t[N + 1] = pl[(N + 1) - 1 - q]
        <5> DEFINE z == N + 1
        <5>1. z \in 1..Len(t) /\ z % W # 0 /\ z \div W = q /\ z = N + 1
          <6> HIDE DEF N, W, t, q, c
          <6>1. QED
            BY <3>2, <3>3, <4>1
        <5> HIDE DEF N, W, t, q, z
        <5>2. t[z] = pl[z - 1 - q]
          BY <2>6, <5>1
        <5>3. QED
          BY <5>1, <5>2, Zenon
      <4>3. QED
        BY <3>4, <4>2
    <3>6. \A p \in 1..N : t[p] = s[p]
      <4>1. \A p \in 1..N : p \in 1..Len(t)
        BY <1>1, <3>1
      <4> HIDE DEF s, t, N, at
      <4>2. QED
        BY <1>3, <1>4, <4>1, Zenon
    <3> HIDE DEF s, t, N, q, c, W
    <3>7. t = Append(s, pl[n])
      BY <1>1, <1>2, <3>1, <3>5, <3>6, SeqEqual
    <3>8. QED
      BY <1>6, <2>4, <3>7 DEF s, t, c
  <2>5. QED
    BY <2>3, <2>4
<1>7. QED
  BY <1>5, <1>6

(* Only the characters laid out matter.                                    *)
LEMMA LaidSame ==
    ASSUME NEW X, NL \in X, NEW pl \in [Nat -> X], NEW ql \in [Nat -> X],
           NEW n \in Nat, NEW w \in Nat, \A j \in 0..(n - 1) : pl[j] = ql[j]
    PROVE  Laid(pl, n, w) = Laid(ql, n, w)
<1> DEFINE Good == {k \in Nat : k <= n => Laid(pl, k, w) = Laid(ql, k, w)}
<1>1. 0 \in Good
  BY LaidNone
<1>2. ASSUME NEW k \in Good PROVE k + 1 \in Good
  <2>1. SUFFICES ASSUME k + 1 <= n PROVE Laid(pl, k + 1, w) = Laid(ql, k + 1, w)
    OBVIOUS
  <2>2. k \in Nat /\ Laid(pl, k, w) = Laid(ql, k, w) /\ pl[k] = ql[k]
    BY <2>1
  <2>3. QED
    BY <2>2, LaidMore
<1> HIDE DEF Good
<1>3. Good = Nat
  <2>1. Good \in SUBSET Nat
    BY DEF Good
  <2>2. QED
    BY <1>1, <1>2, <2>1, Induction
<1>4. QED
  BY <1>3 DEF Good

-----------------------------------------------------------------------------
(* The characters of the texts of B64Units.                                *)

PayloadOf(b, m) == [j \in Nat |-> PayloadChar(b, m, j)]

(* The crumbs of a byte string are the crumbs of its bytes, four each.     *)
LEMMA CrumbIs ==
    ASSUME NEW b, NEW m \in Nat, NEW i \in 0..(m - 1), NEW k \in 0..3
    PROVE  CrumbAt(b, m, 4 * i + k) = b[i + 1][k + 1]
<1> DEFINE c == 4 * i + k
<1>1. c < 4 * m /\ c \div 4 = i /\ c % 4 = k
  OBVIOUS
<1> HIDE DEF c
<1>2. CrumbAt(b, m, c) = b[i + 1][k + 1]
  BY <1>1 DEF CrumbAt
<1>3. QED
  BY <1>2 DEF c

(* Byte strings with a common prefix have the crumbs of the prefix in
   common.                                                                 *)
LEMMA CrumbSame ==
    ASSUME NEW b, NEW d, NEW m \in Nat, NEW n \in Nat, m <= n,
           \A i \in 1..m : b[i] = d[i], NEW c \in 0..(4 * m - 1)
    PROVE  CrumbAt(b, m, c) = CrumbAt(d, n, c)
<1>1. c < 4 * m /\ c < 4 * n /\ (c \div 4) + 1 \in 1..m
  OBVIOUS
<1>2. b[(c \div 4) + 1] = d[(c \div 4) + 1]
  BY <1>1
<1>3. QED
  BY <1>1, <1>2 DEF CrumbAt

(* A crumb of a byte string, or the padding after its end, is a crumb.     *)
LEMMA CrumbType ==
    ASSUME NEW b \in Seq(Byte), NEW m \in 0..Len(b), NEW c \in Nat
    PROVE  CrumbAt(b, m, c) \in Crumb
<1>1. CASE c < 4 * m
  <2>1. (c \div 4) + 1 \in 1..Len(b) /\ (c % 4) + 1 \in 1..4
    BY <1>1
  <2>2. b[(c \div 4) + 1] \in Byte
    BY <2>1
  <2>3. \A e \in Byte : \A k \in 1..4 : e[k] \in Crumb
    <3>1. \A e \in Byte : e[1] \in Crumb /\ e[2] \in Crumb /\ e[3] \in Crumb /\ e[4] \in Crumb
      BY DEF Byte
    <3>2. \A k \in 1..4 : k = 1 \/ k = 2 \/ k = 3 \/ k = 4
      OBVIOUS
    <3>3. QED
      BY <3>1, <3>2
  <2>4. QED
    BY <1>1, <2>1, <2>2, <2>3 DEF CrumbAt
<1>2. CASE ~(c < 4 * m)
  BY <1>2, UnitsAssumption DEF CrumbAt
<1>3. QED
  BY <1>1, <1>2

(* The j-th sextet of a byte string is a sextet.                           *)
LEMMA SextetAtType ==
    ASSUME NEW b \in Seq(Byte), NEW m \in 0..Len(b), NEW j \in Nat
    PROVE  SextetAt(b, m, j) \in Sextet
<1>1. 3 * j \in Nat /\ 3 * j + 1 \in Nat /\ 3 * j + 2 \in Nat
  OBVIOUS
<1>2. QED
  BY <1>1, CrumbType DEF SextetAt, Sextet

(* The payload of m bytes is defined for every position, PAD included.     *)
LEMMA PayloadType ==
    ASSUME NEW b \in Seq(Byte), NEW m \in 0..Len(b)
    PROVE  PayloadOf(b, m) \in [Nat -> Char]
<1>1. \A j \in Nat : PayloadChar(b, m, j) \in Char
  BY SextetAtType DEF PayloadChar, Char
<1>2. QED
  BY <1>1 DEF PayloadOf

(* A character that m bytes determine stays what it is when more follow.   *)
LEMMA PayloadSettled ==
    ASSUME NEW b, NEW d, NEW m \in Nat, NEW n \in Nat, m <= n,
           \A i \in 1..m : b[i] = d[i], NEW j \in 0..(OpenCount(m) - 1)
    PROVE  /\ PayloadOf(b, m)[j] = PayloadOf(d, n)[j]
           /\ PayloadOf(b, m)[j] = SextetAt(b, m, j)
<1>1. /\ 3 * j \in 0..(4 * m - 1) /\ 3 * j + 1 \in 0..(4 * m - 1)
      /\ 3 * j + 2 \in 0..(4 * m - 1)
      /\ 3 * j < 4 * m /\ 3 * j < 4 * n /\ j \in Nat
  BY DEF OpenCount
<1>2. SextetAt(b, m, j) = SextetAt(d, n, j)
  BY <1>1, CrumbSame DEF SextetAt
<1>3. QED
  BY <1>1, <1>2 DEF PayloadOf, PayloadChar

(* The text of EncodeText is the payload laid out in lines.                *)
LEMMA TextIsLaid ==
    ASSUME NEW b \in Seq(Byte), NEW m \in 0..Len(b), NEW n \in Nat, NEW w \in Nat
    PROVE  [p \in 1..(n + Separators(n, w)) |-> TextChar(b, m, w, p)]
             = Laid(PayloadOf(b, m), n, w)
<1>1. ASSUME NEW p \in 1..(n + Separators(n, w))
      PROVE  TextChar(b, m, w, p) =
               IF w = 0 THEN PayloadOf(b, m)[p - 1]
               ELSE IF p % (w + 1) = 0 THEN NL
               ELSE PayloadOf(b, m)[p - 1 - p \div (w + 1)]
  <2>1. p \in Nat \ {0} /\ p - 1 \in Nat
    BY LaidType, PayloadType DEF Char
  <2>2. w # 0 => p - 1 - p \div (w + 1) \in Nat
    BY <2>1, LineIndex
  <2>3. QED
    BY <2>1, <2>2 DEF TextChar, PayloadOf
<1>2. QED
  BY <1>1 DEF Laid

(* The character counts are numbers, and closing never shortens the text.  *)
LEMMA CountTypes ==
    ASSUME NEW m \in Nat
    PROVE  /\ OpenCount(m) \in Nat /\ ClosedCount(m) \in Nat
           /\ OpenCount(m) <= ClosedCount(m)
BY DEF OpenCount, ClosedCount

(* The text of an unfinished stream: the characters are those of all of    *)
(* the input, of which m bytes determine the first.                        *)
LEMMA OpenIsLaid ==
    ASSUME NEW b \in Seq(Byte), NEW m \in 0..Len(b), NEW w \in Nat
    PROVE  OpenText(b, m, w) = Laid(PayloadOf(b, Len(b)), OpenCount(m), w)
<1>1. m \in Nat /\ Len(b) \in Nat /\ Len(b) \in 0..Len(b) /\ OpenCount(m) \in Nat
  BY CountTypes
<1>2. OpenText(b, m, w) = Laid(PayloadOf(b, m), OpenCount(m), w)
  BY <1>1, TextIsLaid DEF OpenText
<1>3. \A j \in 0..(OpenCount(m) - 1) : PayloadOf(b, m)[j] = PayloadOf(b, Len(b))[j]
  BY <1>1, PayloadSettled
<1>4. NL \in Char /\ PayloadOf(b, m) \in [Nat -> Char]
      /\ PayloadOf(b, Len(b)) \in [Nat -> Char]
  BY <1>1, PayloadType DEF Char
<1> DEFINE pl == PayloadOf(b, m)
           ql == PayloadOf(b, Len(b))
           n  == OpenCount(m)
<1>5. pl \in [Nat -> Char] /\ ql \in [Nat -> Char] /\ NL \in Char /\ n \in Nat
      /\ \A j \in 0..(n - 1) : pl[j] = ql[j]
  BY <1>1, <1>3, <1>4
<1> HIDE DEF pl, ql, n
<1>6. Laid(pl, n, w) = Laid(ql, n, w)
  BY <1>5, LaidSame
<1>7. QED
  BY <1>2, <1>6 DEF pl, ql, n

(* The finished text is the laid payload, and a final newline when a
   width is set.                                                           *)
LEMMA ClosedIsLaid ==
    ASSUME NEW b \in Seq(Byte), NEW m \in 0..Len(b), NEW w \in Nat
    PROVE  LET body == Laid(PayloadOf(b, m), ClosedCount(m), w)
           IN  ClosedText(b, m, w) = IF w = 0 THEN body ELSE Append(body, NL)
<1>1. m \in Nat /\ ClosedCount(m) \in Nat
  BY CountTypes
<1>2. QED
  BY <1>1, TextIsLaid DEF ClosedText

-----------------------------------------------------------------------------
(* Taking a text apart again.                                              *)

(* Without its newlines a laid out text is the same run on one line.       *)
LEMMA WrapInserts ==
    ASSUME NEW pl \in [Nat -> Char \ {NL}], NEW n \in Nat, NEW w \in Nat
    PROVE  Among(Char \ {NL}, Laid(pl, n, w)) = Laid(pl, n, 0)
<1> DEFINE C == Char \ {NL}
           Good == {k \in Nat : Among(C, Laid(pl, k, w)) = Laid(pl, k, 0)}
<1>1. 0 \in Good
  BY LaidNone, AmongEmpty
<1>2. ASSUME NEW k \in Good PROVE k + 1 \in Good
  <2>1. /\ k \in Nat /\ NL \in Char /\ pl \in [Nat -> Char] /\ pl[k] \in C
        /\ Among(C, Laid(pl, k, w)) = Laid(pl, k, 0)
    BY DEF Char
  <2>2. Laid(pl, k, w) \in Seq(Char)
    BY <2>1, LaidType
  <2>3. Laid(pl, k + 1, 0) = Append(Laid(pl, k, 0), pl[k])
    BY <2>1, LaidMore
  <2> DEFINE s == Laid(pl, k, w)
  <2>4. \A u \in Seq(Char) : \A e \in Char :
           Among(C, Append(u, e)) = IF e \in C THEN Append(Among(C, u), e)
                                               ELSE Among(C, u)
    <3> HIDE DEF C
    <3>1. QED
      BY AmongAppend
  <2>5. \A u \in Seq(Char) : Among(C, Append(u, pl[k])) = Append(Among(C, u), pl[k])
    <3>1. pl[k] \in Char
      BY <2>1
    <3> HIDE DEF C
    <3>2. QED
      BY <2>1, <2>4, <3>1
  <2>6. \A u \in Seq(Char) : Among(C, Append(u, NL)) = Among(C, u)
    <3>1. NL \notin C
      OBVIOUS
    <3> HIDE DEF C
    <3>2. QED
      BY <2>1, <2>4, <3>1
  <2>7. CASE w # 0 /\ Column(k, w) = w
    <3>1. Laid(pl, k + 1, w) = Append(Append(s, NL), pl[k])
      BY <2>1, <2>7, LaidMore
    <3> HIDE DEF s, C
    <3>2. s \in Seq(Char) /\ Append(s, NL) \in Seq(Char)
      BY <2>1, <2>2 DEF s
    <3>3. Among(C, Append(Append(s, NL), pl[k])) = Append(Among(C, s), pl[k])
      BY <2>5, <2>6, <3>2
    <3>4. Among(C, Laid(pl, k + 1, w)) = Laid(pl, k + 1, 0)
      BY <2>1, <2>3, <3>1, <3>3 DEF s
    <3>5. QED
      BY <2>1, <3>4
  <2>8. CASE ~(w # 0 /\ Column(k, w) = w)
    <3>1. Laid(pl, k + 1, w) = Append(s, pl[k])
      BY <2>1, <2>8, LaidMore
    <3>2. Among(C, Append(s, pl[k])) = Append(Among(C, s), pl[k])
      BY <2>2, <2>5
    <3>3. Among(C, Laid(pl, k + 1, w)) = Laid(pl, k + 1, 0)
      BY <2>1, <2>3, <3>1, <3>2
    <3>4. QED
      BY <2>1, <3>3
  <2>9. QED
    BY <2>7, <2>8
<1> HIDE DEF Good
<1>3. Good = Nat
  <2>1. Good \in SUBSET Nat
    BY DEF Good
  <2>2. QED
    BY <1>1, <1>2, <2>1, Induction
<1>4. QED
  BY <1>3 DEF Good

(* Laid out without a width, the payload is one line of just its
   characters.                                                             *)
LEMMA OneLine ==
    ASSUME NEW X, NL \in X, NEW pl \in [Nat -> X], NEW n \in Nat
    PROVE  /\ Laid(pl, n, 0) \in Seq(X) /\ Len(Laid(pl, n, 0)) = n
           /\ \A p \in 1..n : Laid(pl, n, 0)[p] = pl[p - 1]
<1>1. Separators(n, 0) = 0 /\ n + 0 = n
  BY DEF Separators
<1>2. QED
  BY <1>1, LaidType DEF Laid

(* The 6-bit values of a text are those of its characters other than NL.   *)
LEMMA ValuesIs ==
    ASSUME NEW t \in Seq(Char)
    PROVE  /\ Values(t, Len(t)) = Among(Sextet, t)
           /\ Values(t, Len(t)) = Among(Sextet, Among(Char \ {NL}, t))
<1>1. SubSeq(t, 1, Len(t)) = t
  BY SubSeqFull
<1>2. Values(t, Len(t)) = Among(Sextet, t)
  BY <1>1 DEF Values
<1> DEFINE C == Char \ {NL}
<1>3. Sextet \in SUBSET C
  BY UnitsAssumption DEF Char
<1> HIDE DEF C
<1>4. Among(Sextet, Among(C, t)) = Among(Sextet, t)
  BY <1>3, AmongAmong
<1>5. QED
  BY <1>2, <1>4 DEF C

(* The crumbs of the sextets of a byte string are the crumbs of the
   string.                                                                 *)
LEMMA ValueCrumbIs ==
    ASSUME NEW b, NEW m, NEW v, NEW n \in Nat,
           \A p \in 1..n : v[p] = SextetAt(b, m, p - 1),
           NEW c \in 0..(3 * n - 1)
    PROVE  ValueCrumb(v, c) = CrumbAt(b, m, c)
<1> DEFINE j == c \div 3
<1>1. /\ j \in Nat /\ j + 1 \in 1..n /\ (j + 1) - 1 = j
      /\ \/ c = 3 * j /\ c % 3 = 0
         \/ c = 3 * j + 1 /\ c % 3 = 1
         \/ c = 3 * j + 2 /\ c % 3 = 2
  OBVIOUS
<1> HIDE DEF j
<1>2. v[j + 1] = SextetAt(b, m, j)
  BY <1>1
<1>3. ValueCrumb(v, c) = SextetAt(b, m, j)[(c % 3) + 1]
  BY <1>2 DEF ValueCrumb, j
<1>4. QED
  BY <1>1, <1>3 DEF SextetAt

(* n 6-bit values of the text of m bytes make the bytes they cover.        *)
LEMMA BytesOf ==
    ASSUME NEW b \in Seq(Byte), NEW m \in 0..Len(b), NEW n \in Nat,
           (3 * n) \div 4 <= m,
           NEW v, Len(v) = n,
           \A p \in 1..n : v[p] = SextetAt(b, m, p - 1)
    PROVE  Bytes(v) = SubSeq(b, 1, (3 * n) \div 4)
<1> DEFINE k == (3 * n) \div 4
           s == SubSeq(b, 1, k)
<1>1. k \in 0..Len(b) /\ k <= m /\ 4 * k <= 3 * n
  OBVIOUS
<1> HIDE DEF k
<1>2. s \in Seq(Byte) /\ Len(s) = k /\ \A i \in 1..k : s[i] = b[i]
  BY <1>1
<1>3. ASSUME NEW i \in 1..k
      PROVE  LET c == 4 * (i - 1)
             IN  << ValueCrumb(v, c),     ValueCrumb(v, c + 1),
                    ValueCrumb(v, c + 2), ValueCrumb(v, c + 3) >> = b[i]
  <2> DEFINE c == 4 * (i - 1)
  <2>1. /\ i - 1 \in 0..(m - 1) /\ (i - 1) + 1 = i /\ m \in Nat
        /\ c \in 0..(3 * n - 1) /\ c + 1 \in 0..(3 * n - 1)
        /\ c + 2 \in 0..(3 * n - 1) /\ c + 3 \in 0..(3 * n - 1)
        /\ c = 4 * (i - 1) + 0
    BY <1>1
  <2>2. /\ ValueCrumb(v, c) = CrumbAt(b, m, c)
        /\ ValueCrumb(v, c + 1) = CrumbAt(b, m, c + 1)
        /\ ValueCrumb(v, c + 2) = CrumbAt(b, m, c + 2)
        /\ ValueCrumb(v, c + 3) = CrumbAt(b, m, c + 3)
    <3> HIDE DEF c
    <3>1. \A x \in 0..(3 * n - 1) : ValueCrumb(v, x) = CrumbAt(b, m, x)
      BY ValueCrumbIs
    <3>2. QED
      BY <2>1, <3>1, Zenon
  <2>3. \A r \in 0..3 : CrumbAt(b, m, 4 * (i - 1) + r) = b[i][r + 1]
    <3>1. \A a \in 0..(m - 1) : \A r \in 0..3 :
            CrumbAt(b, m, 4 * a + r) = b[a + 1][r + 1]
      BY <2>1, CrumbIs
    <3>2. QED
      BY <2>1, <3>1
  <2>4. /\ CrumbAt(b, m, c) = b[i][1] /\ CrumbAt(b, m, c + 1) = b[i][2]
        /\ CrumbAt(b, m, c + 2) = b[i][3] /\ CrumbAt(b, m, c + 3) = b[i][4]
    BY <2>1, <2>3
  <2>5. b[i] = << b[i][1], b[i][2], b[i][3], b[i][4] >>
    <3>1. b[i] \in Byte
      BY <1>1
    <3>2. QED
      BY <3>1 DEF Byte
  <2> HIDE DEF c
  <2>6. QED
    BY <2>2, <2>4, <2>5 DEF c
<1>4. Bytes(v) = [i \in 1..k |-> b[i]]
  BY <1>3 DEF Bytes, k
<1>5. s = [i \in 1..k |-> b[i]]
  BY <1>2
<1>6. QED
  BY <1>4, <1>5 DEF k, s

(* The 6-bit values of the closed text of m bytes.                         *)
LEMMA ClosedValues ==
    ASSUME NEW b \in Seq(Byte), NEW m \in 0..Len(b)
    PROVE  Among(Sextet, Laid(PayloadOf(b, m), ClosedCount(m), 0))
             = Laid(PayloadOf(b, m), (4 * m + 2) \div 3, 0)
<1> DEFINE pl == PayloadOf(b, m)
           n == (4 * m + 2) \div 3
           N == ClosedCount(m)
<1>1. /\ m \in Nat /\ n \in Nat /\ N \in {n, n + 1, n + 2}
      /\ \A j \in Nat : j < n <=> 3 * j < 4 * m
  BY DEF ClosedCount
<1>2. /\ \A j \in Nat : j < n => pl[j] \in Sextet
      /\ \A j \in Nat : j >= n => pl[j] = PAD
  BY <1>1, SextetAtType DEF PayloadOf, PayloadChar
<1>3. pl \in [Nat -> Char] /\ NL \in Char /\ PAD \in Char /\ PAD \notin Sextet
  BY PayloadType, UnitsAssumption DEF Char
<1> HIDE DEF pl, n, N
<1>4. /\ Laid(pl, n, 0) \in Seq(Char) /\ Len(Laid(pl, n, 0)) = n
      /\ \A p \in 1..n : Laid(pl, n, 0)[p] = pl[p - 1]
  BY <1>1, <1>3, OneLine
<1>5. Laid(pl, n, 0) \in Seq(Sextet)
  <2>1. \A p \in 1..n : Laid(pl, n, 0)[p] \in Sextet
    <3>1. \A p \in 1..n : p - 1 \in Nat /\ p - 1 < n
      BY <1>1
    <3>2. QED
      BY <1>2, <1>4, <3>1, Zenon
  <2>2. QED
    BY <1>4, <2>1
<1>6. Among(Sextet, Laid(pl, n, 0)) = Laid(pl, n, 0)
  BY <1>5, AmongAll
<1>7. \A s \in Seq(Char) : Among(Sextet, Append(s, PAD)) = Among(Sextet, s)
  BY <1>3, AmongAppend
<1>8. \A j \in Nat : j >= n =>
        Laid(pl, j + 1, 0) = Append(Laid(pl, j, 0), PAD) /\ Laid(pl, j, 0) \in Seq(Char)
  <2>1. \A j \in Nat : Laid(pl, j + 1, 0) = Append(Laid(pl, j, 0), pl[j])
    BY <1>3, LaidMore
  <2>2. \A j \in Nat : Laid(pl, j, 0) \in Seq(Char)
    BY <1>3, OneLine
  <2>3. QED
    BY <1>2, <2>1, <2>2
<1>9. Among(Sextet, Laid(pl, n + 1, 0)) = Laid(pl, n, 0)
  <2>1. n >= n
    BY <1>1
  <2>2. QED
    BY <1>1, <1>6, <1>7, <1>8, <2>1
<1>10. Among(Sextet, Laid(pl, n + 2, 0)) = Laid(pl, n, 0)
  <2>1. n + 1 \in Nat /\ n + 1 >= n /\ (n + 1) + 1 = n + 2
    BY <1>1
  <2>2. QED
    BY <1>7, <1>8, <1>9, <2>1
<1>11. Among(Sextet, Laid(pl, N, 0)) = Laid(pl, n, 0)
  BY <1>1, <1>6, <1>9, <1>10
<1>12. QED
  BY <1>11 DEF pl, n, N

(* An unfinished text, without its newlines, decodes to all the bytes fed  *)
(* but the one whose last bits are not written yet, a finished one to all. *)
LEMMA OpenDecodes ==
    ASSUME NEW b \in Seq(Byte), NEW m \in 0..Len(b), NEW t \in Seq(Char),
           Among(Char \ {NL}, t) = OpenText(b, m, 0)
    PROVE  /\ Decoded(t) = SubSeq(b, 1, (3 * OpenCount(m)) \div 4)
           /\ (3 * OpenCount(m)) \div 4 \in 0..m
           /\ m - (3 * OpenCount(m)) \div 4 \in {0, 1}
<1> DEFINE n == OpenCount(m)
           v == Laid(PayloadOf(b, m), n, 0)
<1>1. m \in Nat /\ n \in Nat /\ (3 * n) \div 4 \in 0..m /\ m - (3 * n) \div 4 \in {0, 1}
  BY DEF OpenCount
<1>2. PayloadOf(b, m) \in [Nat -> Char] /\ NL \in Char
  BY PayloadType DEF Char
<1>3. \A p \in 1..n : p - 1 \in 0..(OpenCount(m) - 1)
  BY <1>1
<1>4. \A p \in 1..n : PayloadOf(b, m)[p - 1] = SextetAt(b, m, p - 1)
  BY <1>1, <1>3, PayloadSettled
<1>5. v = OpenText(b, m, 0)
  BY <1>1, TextIsLaid DEF OpenText
<1>6. /\ v \in Seq(Char) /\ Len(v) = n
      /\ \A p \in 1..n : v[p] = PayloadOf(b, m)[p - 1]
  BY <1>1, <1>2, OneLine
<1>7. \A p \in 1..n : v[p] = SextetAt(b, m, p - 1) /\ v[p] \in Sextet
  <2>1. \A p \in 1..n : p - 1 \in Nat
    BY <1>1
  <2>2. QED
    BY <1>4, <1>6, <2>1, SextetAtType
<1> HIDE DEF v, n
<1>8. v \in Seq(Sextet)
  BY <1>6, <1>7
<1>9. Values(t, Len(t)) = v
  BY <1>5, <1>8, ValuesIs, AmongAll
<1>10. Bytes(v) = SubSeq(b, 1, (3 * n) \div 4)
  BY <1>1, <1>6, <1>7, BytesOf
<1>11. QED
  BY <1>1, <1>9, <1>10 DEF Decoded, n

(* Whatever newlines it carries, the finished text of m bytes decodes to
   them.                                                                   *)
LEMMA ClosedDecodes ==
    ASSUME NEW b \in Seq(Byte), NEW m \in 0..Len(b), NEW t \in Seq(Char),
           Among(Char \ {NL}, t) = ClosedText(b, m, 0)
    PROVE  Decoded(t) = SubSeq(b, 1, m)
<1> DEFINE n == (4 * m + 2) \div 3
           v == Laid(PayloadOf(b, m), n, 0)
<1>1. /\ m \in Nat /\ n \in Nat /\ (3 * n) \div 4 = m
      /\ \A j \in Nat : j < n => 3 * j < 4 * m
  OBVIOUS
<1>2. PayloadOf(b, m) \in [Nat -> Char] /\ NL \in Char
  BY PayloadType DEF Char
<1>3. Values(t, Len(t)) = v
  BY ValuesIs, ClosedIsLaid, ClosedValues
<1>4. /\ Len(v) = n
      /\ \A p \in 1..n : v[p] = PayloadOf(b, m)[p - 1]
  <2> DEFINE pl == PayloadOf(b, m)
  <2> HIDE DEF pl, n
  <2>1. pl \in [Nat -> Char] /\ NL \in Char /\ n \in Nat
    BY <1>1, <1>2 DEF pl
  <2>2. /\ Len(Laid(pl, n, 0)) = n
        /\ \A p \in 1..n : Laid(pl, n, 0)[p] = pl[p - 1]
    BY <2>1, OneLine
  <2>3. QED
    BY <2>2 DEF pl
<1>5. \A p \in 1..n : v[p] = SextetAt(b, m, p - 1)
  <2>1. \A p \in 1..n : p - 1 \in Nat /\ p - 1 < n
    BY <1>1
  <2>2. QED
    BY <1>1, <1>4, <2>1 DEF PayloadOf, PayloadChar
<1> HIDE DEF v, n
<1>6. Bytes(v) = SubSeq(b, 1, (3 * n) \div 4)
  BY <1>1, <1>4, <1>5, BytesOf
<1>7. QED
  BY <1>1, <1>3, <1>6 DEF Decoded

(* Wrapping does not matter to the characters other than the newlines.     *)
LEMMA ClosedWithoutNewlines ==
    ASSUME NEW b \in Seq(Byte), NEW m \in 0..Len(b), NEW w \in Nat
    PROVE  /\ ClosedText(b, m, w) \in Seq(Char)
           /\ Among(Char \ {NL}, ClosedText(b, m, w)) = ClosedText(b, m, 0)
<1> DEFINE pl == PayloadOf(b, m)
           n == ClosedCount(m)
           body == Laid(pl, n, w)
<1>1. n \in Nat /\ m \in Nat
  BY CountTypes
<1>2. pl \in [Nat -> Char] /\ NL \in Char
  BY PayloadType DEF Char
<1>3. \A j \in Nat : pl[j] # NL
  BY SextetAtType, UnitsAssumption DEF PayloadOf, PayloadChar
<1>4. pl \in [Nat -> Char \ {NL}]
  BY <1>2, <1>3
<1>5. ClosedText(b, m, w) = IF w = 0 THEN body ELSE Append(body, NL)
  BY ClosedIsLaid
<1>6. ClosedText(b, m, 0) = Laid(pl, n, 0)
  BY ClosedIsLaid
<1>7. body \in Seq(Char)
  BY <1>1, <1>2, LaidType
<1> HIDE DEF pl, n
<1>8. Among(Char \ {NL}, body) = Laid(pl, n, 0)
  BY <1>1, <1>4, WrapInserts
<1> HIDE DEF body
<1>9. Among(Char \ {NL}, Append(body, NL)) = Among(Char \ {NL}, body)
  BY <1>2, <1>7, AmongAppend
<1>10. QED
  BY <1>2, <1>5, <1>6, <1>7, <1>8, <1>9

(* Encoding and then decoding gives the bytes back, on lines of any width. *)
THEOREM RoundTrip ==
    ASSUME NEW b \in Seq(Byte), NEW w \in Nat
    PROVE  Decoded(ClosedText(b, Len(b), w)) = b
<1>1. Len(b) \in 0..Len(b)
  OBVIOUS
<1>2. Decoded(ClosedText(b, Len(b), w)) = SubSeq(b, 1, Len(b))
  BY <1>1, ClosedWithoutNewlines, ClosedDecodes
<1>3. QED
  BY <1>2, SubSeqFull

-----------------------------------------------------------------------------
(* How a text grows.                                                       *)

(* The text t begins with the text s.                                      *)
Extends(X, t, s) == \E u \in Seq(X) : t = s \o u

(* A text that extends s still does with one more character.               *)
LEMMA ExtendsMore ==
    ASSUME NEW X, NEW s \in Seq(X), NEW t, Extends(X, t, s), NEW e \in X
    PROVE  Extends(X, Append(t, e), s)
<1>1. PICK u \in Seq(X) : t = s \o u
  BY DEF Extends
<1>2. Append(s \o u, e) = s \o Append(u, e)
  OBVIOUS
<1>3. Append(u, e) \in Seq(X)
  BY AppendProperties
<1>4. QED
  BY <1>1, <1>2, <1>3, Zenon DEF Extends

(* More payload laid out extends less of it: lines already written stay.   *)
LEMMA LaidExtends ==
    ASSUME NEW pl \in [Nat -> Char], NEW n \in Nat, NEW k \in Nat, NEW w \in Nat
    PROVE  Extends(Char, Laid(pl, n + k, w), Laid(pl, n, w))
<1> DEFINE s == Laid(pl, n, w)
           Good == {j \in Nat : Extends(Char, Laid(pl, n + j, w), s)}
<1>1. s \in Seq(Char) /\ NL \in Char
  BY LaidType DEF Char
<1>2. 0 \in Good
  <2>1. n + 0 = n
    OBVIOUS
  <2> HIDE DEF s
  <2>2. << >> \in Seq(Char) /\ s = s \o << >>
    BY <1>1, EmptySeq, ConcatEmptySeq
  <2>3. Extends(Char, s, s)
    BY <2>2, Zenon DEF Extends
  <2>4. QED
    BY <2>1, <2>3 DEF s
<1>3. ASSUME NEW j \in Good PROVE j + 1 \in Good
  <2>1. j \in Nat /\ n + j \in Nat /\ n + (j + 1) = (n + j) + 1 /\ pl[n + j] \in Char
    OBVIOUS
  <2> DEFINE t == Laid(pl, n + j, w)
  <2> HIDE DEF s, t
  <2>2. Extends(Char, t, s)
    BY DEF t
  <2>3. \/ Laid(pl, (n + j) + 1, w) = Append(Append(t, NL), pl[n + j])
        \/ Laid(pl, (n + j) + 1, w) = Append(t, pl[n + j])
    BY <1>1, <2>1, LaidMore DEF t
  <2>4. Extends(Char, Append(t, NL), s) /\ Extends(Char, Append(t, pl[n + j]), s)
        /\ Extends(Char, Append(Append(t, NL), pl[n + j]), s)
    BY <1>1, <2>1, <2>2, ExtendsMore
  <2>5. Extends(Char, Laid(pl, n + (j + 1), w), s)
    BY <2>1, <2>3, <2>4
  <2>6. j + 1 \in Nat
    BY <2>1
  <2>7. QED
    BY <2>5, <2>6
<1> HIDE DEF Good
<1>4. Good = Nat
  <2>1. Good \in SUBSET Nat
    BY DEF Good
  <2>2. QED
    BY <1>2, <1>3, <2>1, Induction
<1>5. QED
  BY <1>4 DEF Good

(* The unfinished text: its type, and its length as characters and
   separators.                                                             *)
LEMMA OpenTextType ==
    ASSUME NEW b \in Seq(Byte), NEW m \in 0..Len(b), NEW w \in Nat
    PROVE  /\ OpenText(b, m, w) \in Seq(Char)
           /\ Len(OpenText(b, m, w)) = OpenCount(m) + Separators(OpenCount(m), w)
           /\ Separators(OpenCount(m), w) \in Nat
<1>1. m \in Nat /\ OpenCount(m) \in Nat /\ Len(b) \in 0..Len(b)
  BY CountTypes
<1> DEFINE pl == PayloadOf(b, Len(b))
<1>2. pl \in [Nat -> Char] /\ NL \in Char
  BY <1>1, PayloadType DEF Char
<1>3. OpenText(b, m, w) = Laid(pl, OpenCount(m), w)
  BY OpenIsLaid
<1> HIDE DEF pl
<1>4. QED
  BY <1>1, <1>2, <1>3, LaidType

(* The length of the finished text, with the final newline of a width.     *)
LEMMA ClosedLength ==
    ASSUME NEW b \in Seq(Byte), NEW m \in 0..Len(b), NEW w \in Nat
    PROVE  /\ Len(ClosedText(b, m, w)) =
                IF w = 0 THEN ClosedCount(m)
                ELSE ClosedCount(m) + Separators(ClosedCount(m), w) + 1
           /\ Separators(ClosedCount(m), w) \in Nat
<1> DEFINE n == ClosedCount(m)
           pl == PayloadOf(b, m)
           body == Laid(pl, n, w)
<1>1. m \in Nat /\ n \in Nat
  BY CountTypes
<1>2. pl \in [Nat -> Char] /\ NL \in Char
  BY PayloadType DEF Char
<1>3. ClosedText(b, m, w) = IF w = 0 THEN body ELSE Append(body, NL)
  BY ClosedIsLaid
<1> HIDE DEF n, pl
<1>4. body \in Seq(Char) /\ Len(body) = n + Separators(n, w) /\ Separators(n, w) \in Nat
  <2>1. /\ Laid(pl, n, w) \in Seq(Char)
        /\ Len(Laid(pl, n, w)) = n + Separators(n, w) /\ Separators(n, w) \in Nat
    BY <1>1, <1>2, LaidType
  <2>2. QED
    BY <2>1
<1>5. w = 0 => Separators(n, w) = 0
  BY DEF Separators
<1> HIDE DEF body
<1>6. Len(Append(body, NL)) = Len(body) + 1
  <2>1. \A x \in Seq(Char) : Len(Append(x, NL)) = Len(x) + 1
    BY <1>2
  <2>2. QED
    BY <1>4, <2>1
<1>7. QED
  BY <1>1, <1>3, <1>4, <1>5, <1>6 DEF n

(* More bytes only ever add to the text of an unfinished stream ...        *)
LEMMA OpenExtends ==
    ASSUME NEW b \in Seq(Byte), NEW d \in Seq(Byte), NEW w \in Nat
    PROVE  Extends(Char, OpenText(b \o d, Len(b \o d), w), OpenText(b, Len(b), w))
<1> DEFINE c == b \o d
           m == Len(b)
           M == Len(c)
           n == OpenCount(m)
           k == OpenCount(M) - n
           pl == PayloadOf(c, M)
<1>1. /\ c \in Seq(Byte) /\ m \in Nat /\ M \in Nat /\ m <= M
      /\ m \in 0..m /\ M \in 0..M
      /\ \A i \in 1..m : b[i] = c[i]
  BY ConcatProperties
<1> HIDE DEF c, M, m
<1>2. n \in Nat /\ k \in Nat /\ OpenCount(M) = n + k
  BY <1>1 DEF OpenCount
<1>3. /\ OpenText(b, m, w) = Laid(PayloadOf(b, m), n, w)
      /\ OpenText(c, M, w) = Laid(pl, OpenCount(M), w)
      /\ PayloadOf(b, m) \in [Nat -> Char] /\ pl \in [Nat -> Char]
      /\ NL \in Char
  BY <1>1, OpenIsLaid, PayloadType DEF m, M, Char
<1>4. \A j \in 0..(n - 1) : PayloadOf(b, m)[j] = pl[j]
  BY <1>1, PayloadSettled
<1>5. OpenText(b, m, w) = Laid(pl, n, w)
  <2> DEFINE ql == PayloadOf(b, m)
  <2> HIDE DEF n, pl, ql
  <2>1. ql \in [Nat -> Char] /\ pl \in [Nat -> Char] /\ NL \in Char /\ n \in Nat
        /\ \A j \in 0..(n - 1) : ql[j] = pl[j]
    BY <1>2, <1>3, <1>4 DEF ql
  <2>2. Laid(ql, n, w) = Laid(pl, n, w)
    BY <2>1, LaidSame
  <2>3. QED
    BY <1>3, <2>2 DEF ql
<1> HIDE DEF k, n, pl
<1>6. Extends(Char, Laid(pl, n + k, w), Laid(pl, n, w))
  BY <1>2, <1>3, LaidExtends
<1>7. QED
  BY <1>2, <1>3, <1>5, <1>6 DEF c, M, m

(* ... and so does its end.                                                *)
LEMMA ClosedExtends ==
    ASSUME NEW b \in Seq(Byte), NEW w \in Nat
    PROVE  Extends(Char, ClosedText(b, Len(b), w), OpenText(b, Len(b), w))
<1> DEFINE m == Len(b)
           n == OpenCount(m)
           k == ClosedCount(m) - n
           pl == PayloadOf(b, m)
           s == Laid(pl, n, w)
<1>1. m \in Nat /\ m \in 0..m /\ n \in Nat /\ k \in Nat /\ n + k = ClosedCount(m)
  BY DEF OpenCount, ClosedCount
<1>2. pl \in [Nat -> Char] /\ NL \in Char
  BY <1>1, PayloadType DEF Char
<1>3. OpenText(b, m, w) = s
  BY <1>1, OpenIsLaid
<1>4. ClosedText(b, m, w) = IF w = 0 THEN Laid(pl, n + k, w)
                            ELSE Append(Laid(pl, n + k, w), NL)
  BY <1>1, ClosedIsLaid
<1> HIDE DEF m, n, k, pl
<1>5. Extends(Char, Laid(pl, n + k, w), s) /\ s \in Seq(Char)
  BY <1>1, <1>2, LaidExtends, LaidType
<1> HIDE DEF s
<1>6. Extends(Char, Append(Laid(pl, n + k, w), NL), s)
  BY <1>2, <1>5, ExtendsMore
<1>7. Extends(Char, ClosedText(b, m, w), s)
  BY <1>4, <1>5, <1>6
<1>8. QED
  BY <1>3, <1>7 DEF m

(* ConcatAssociative in the form a first-order leaf instantiates.          *)
LEMMA Associative ==
    \A S : \A x, y, z \in Seq(S) : (x \o y) \o z = x \o (y \o z)
BY ConcatAssociative, Zenon

(* Extends is transitive.                                                  *)
LEMMA ExtendsThrough ==
    ASSUME NEW X, NEW s \in Seq(X), NEW t, NEW r, Extends(X, t, s), Extends(X, r, t)
    PROVE  Extends(X, r, s) /\ t \in Seq(X) /\ r \in Seq(X)
<1>1. PICK u \in Seq(X) : t = s \o u
  BY DEF Extends
<1>2. PICK v \in Seq(X) : r = t \o v
  BY DEF Extends
<1>3. u \o v \in Seq(X) /\ (s \o u) \o v = s \o (u \o v) /\ s \o u \in Seq(X)
      /\ (s \o u) \o v \in Seq(X)
  <2>1. \A x, y \in Seq(X) : x \o y \in Seq(X)
    BY ConcatProperties
  <2>2. (s \o u) \o v = s \o (u \o v)
    BY Associative
  <2>3. QED
    BY <2>1, <2>2, Zenon
<1>4. r = s \o (u \o v)
  BY <1>1, <1>2, <1>3, Zenon
<1>5. QED
  BY <1>1, <1>2, <1>3, <1>4, Zenon DEF Extends

(* The rest of a text that begins with s.                                  *)
LEMMA RestOf ==
    ASSUME NEW X, NEW s \in Seq(X), NEW t, Extends(X, t, s)
    PROVE  /\ SubSeq(t, Len(s) + 1, Len(t)) \in Seq(X)
           /\ t = s \o SubSeq(t, Len(s) + 1, Len(t))
           /\ Len(s) <= Len(t)
<1>1. PICK u \in Seq(X) : t = s \o u
  BY DEF Extends
<1>2. SubSeq(s \o u, Len(s) + 1, Len(s \o u)) = u
  BY SubSeqOfConcat2
<1>3. Len(s \o u) = Len(s) + Len(u) /\ Len(u) \in Nat /\ Len(s) \in Nat
  BY ConcatProperties
<1>4. QED
  BY <1>1, <1>2, <1>3

(* What is extended is a prefix of the longer sequence.                    *)
LEMMA ExtendsPrefix ==
    ASSUME NEW X, NEW s \in Seq(X), NEW t, Extends(X, t, s)
    PROVE  s = SubSeq(t, 1, Len(s))
<1>1. PICK u \in Seq(X) : t = s \o u
  BY DEF Extends
<1>2. CASE s = << >>
  <2>1. Len(s) = 0 /\ SubSeq(t, 1, 0) = << >>
    BY <1>2, SubSeqEmpty
  <2>2. QED
    BY <1>2, <2>1
<1>3. CASE s # << >>
  <2>1. 1 \in 1..Len(s) /\ Len(s) \in 1..Len(s)
    BY <1>3, EmptySeq
  <2>2. SubSeq(s \o u, 1, Len(s)) = SubSeq(s, 1, Len(s))
    BY <2>1, SubSeqOfConcat1
  <2>3. QED
    BY <1>1, <2>2, SubSeqFull
<1>4. QED
  BY <1>2, <1>3

(* Pieces of a sequence.                                                   *)
LEMMA PieceType ==
    ASSUME NEW X, NEW s \in Seq(X), NEW a \in 0..Len(s), NEW b \in 0..Len(s)
    PROVE  /\ SubSeq(s, a + 1, b) \in Seq(X)
           /\ Len(SubSeq(s, a + 1, b)) = IF a <= b THEN b - a ELSE 0
<1>1. \A i \in (a + 1)..b : s[i] \in X
  OBVIOUS
<1>2. QED
  BY <1>1, SubSeqProperties

(* Two adjacent pieces of a sequence, the first from its start, join to
   one piece.                                                              *)
LEMMA PiecesJoin ==
    ASSUME NEW X, NEW s \in Seq(X), NEW a \in 0..Len(s), NEW b \in a..Len(s)
    PROVE  SubSeq(s, 1, a) \o SubSeq(s, a + 1, b) = SubSeq(s, 1, b)
<1>1. 1 \in 1..(Len(s) + 1) /\ a \in (1 - 1)..Len(s) /\ b \in a..Len(s)
  OBVIOUS
<1>2. QED
  BY <1>1, ConcatAdjacentSubSeq

(* A multiple of M that is at most M * y and a remainder is at most M *
   y.                                                                      *)
LEMMA TimesBelow ==
    ASSUME NEW M \in Nat \ {0}, NEW z \in Int, NEW y \in Int,
           NEW r \in 0..(M - 1), M * z <= M * y + r
    PROVE  z <= y
<1>1. SUFFICES ASSUME z - y >= 1 PROVE FALSE
  OBVIOUS
<1>2. M * (z - y) >= M
  BY <1>1, TimesOrder
<1>3. M * (z - y) = M * z - M * y /\ M * z \in Int /\ M * y \in Int
  OBVIOUS
<1>4. QED
  BY <1>2, <1>3

(* k characters more take at most one newline for every w of them begun.   *)
LEMMA SeparatorsGrow ==
    ASSUME NEW w \in Nat \ {0}, NEW n \in Nat, NEW k \in Nat \ {0}
    PROVE  Separators(n + k, w) - Separators(n, w) <= (k - 1) \div w + 1
<1> DEFINE q == Separators(n, w)
           c == Column(n, w)
           p == Separators(n + k, w)
           d == Column(n + k, w)
           a == (k - 1) \div w
           r == (k - 1) % w
<1>1. q \in Nat /\ c \in 0..w /\ n = w * q + c
  BY ColumnIs
<1>2. p \in Nat /\ d \in 0..w /\ n + k = w * p + d /\ (d = 0 => n + k = 0)
  <2>1. n + k \in Nat
    OBVIOUS
  <2>2. QED
    BY <2>1, ColumnIs
<1>3. k - 1 = w * a + r /\ r \in 0..(w - 1) /\ a \in Int
  <2>1. \A x \in Int :
          x = w * (x \div w) + (x % w) /\ x % w \in 0..(w - 1) /\ x \div w \in Int
    BY Division
  <2>2. k - 1 \in Int
    OBVIOUS
  <2>3. QED
    BY <2>1, <2>2
<1> HIDE DEF q, c, p, d, a, r
<1>4. d >= 1
  BY <1>2
<1>5. w * q \in Int /\ w * p \in Int /\ w * a \in Int
  BY <1>1, <1>2, <1>3
<1>6. w * (p - q) = w * p - w * q /\ w * (a + 1) = w * a + w
  BY <1>1, <1>2, <1>3
<1>7. w * (p - q) <= w * (a + 1) + r
  BY <1>1, <1>2, <1>3, <1>4, <1>5, <1>6
<1>8. p - q <= a + 1
  BY <1>1, <1>2, <1>3, <1>7, TimesBelow
<1>9. QED
  BY <1>8 DEF p, q, a

(* A quotient grows with the dividend.                                     *)
LEMMA QuotientOrder ==
    ASSUME NEW w \in Nat \ {0}, NEW a \in Nat, NEW b \in Nat, a <= b
    PROVE  a \div w <= b \div w
<1> DEFINE y == a \div w
           z == b \div w
           r == a % w
           s == b % w
<1>1. \A x \in Int :
          x = w * (x \div w) + (x % w) /\ x % w \in 0..(w - 1) /\ x \div w \in Int
  BY Division
<1>2. /\ a = w * y + r /\ r \in 0..(w - 1) /\ y \in Int
      /\ b = w * z + s /\ s \in 0..(w - 1) /\ z \in Int
  BY <1>1
<1> HIDE DEF y, z, r, s
<1>3. w * y \in Int /\ w * z \in Int
  BY <1>2
<1>4. w * y <= w * z + s
  BY <1>2, <1>3
<1>5. y <= z
  BY <1>2, <1>4, TimesBelow
<1>6. QED
  BY <1>5 DEF y, z

(* Writing a part of what is to be written.                                *)
LEMMA PartWritten ==
    ASSUME NEW X, NEW s \in Seq(X), NEW t \in Seq(X), NEW k \in 0..Len(t)
    PROVE  /\ s \o SubSeq(t, 1, k) \in Seq(X)
           /\ Extends(X, s \o t, s \o SubSeq(t, 1, k))
<1> DEFINE u == SubSeq(t, 1, k)
           v == SubSeq(t, k + 1, Len(t))
<1>1. Len(t) \in k..Len(t) /\ 0 \in 0..Len(t) /\ Len(t) \in 0..Len(t)
  OBVIOUS
<1>2. u \in Seq(X) /\ v \in Seq(X)
  <2>1. SubSeq(t, 0 + 1, k) \in Seq(X)
    BY <1>1, PieceType
  <2>2. v \in Seq(X)
    BY <1>1, PieceType
  <2>3. QED
    BY <2>1, <2>2
<1>3. u \o v = t
  BY <1>1, PiecesJoin, SubSeqFull
<1> HIDE DEF u, v
<1>4. (s \o u) \o v = s \o (u \o v)
  <2>1. s \in Seq(X) /\ u \in Seq(X) /\ v \in Seq(X)
    BY <1>2
  <2>2. QED
    BY ONLY <2>1
<1>5. s \o u \in Seq(X)
  BY <1>2, ConcatProperties
<1>6. Extends(X, s \o t, s \o u)
  BY <1>2, <1>3, <1>4, Zenon DEF Extends
<1>7. QED
  BY <1>5, <1>6 DEF u

-----------------------------------------------------------------------------
(* Characters put on lines in several goes.                                *)

(* There is one way to write a count as whole lines and a column.          *)
LEMMA ColumnUnique ==
    ASSUME NEW w \in Nat \ {0}, NEW n \in Nat, NEW q \in Nat, NEW r \in 1..w,
           n = w * q + r
    PROVE  Separators(n, w) = q /\ Column(n, w) = r
<1>1. w * q \in Nat
  OBVIOUS
<1>2. n # 0 /\ n - 1 = w * q + (r - 1) /\ r - 1 \in 0..(w - 1)
  BY <1>1
<1>3. (n - 1) \div w = q /\ (n - 1) % w = r - 1
  BY <1>2, DivisionIs
<1>4. QED
  BY <1>2, <1>3 DEF Separators, Column

(* Counting on from the column of m characters is counting from m.         *)
LEMMA ColumnAfter ==
    ASSUME NEW w \in Nat \ {0}, NEW m \in Nat, NEW k \in Nat
    PROVE  /\ Column(Column(m, w) + k, w) = Column(m + k, w)
           /\ Separators(m + k, w) = Separators(m, w) + Separators(Column(m, w) + k, w)
<1> DEFINE c == Column(m, w)
           s == Separators(m, w)
           r == Column(c + k, w)
           q == Separators(c + k, w)
<1>1. s \in Nat /\ c \in 0..w /\ m = w * s + c /\ (c = 0 => m = 0)
  BY ColumnIs
<1> HIDE DEF c, s
<1>2. c + k \in Nat
  BY <1>1
<1>3. q \in Nat /\ r \in 0..w /\ c + k = w * q + r /\ (r = 0 => c + k = 0)
  BY <1>2, ColumnIs
<1> HIDE DEF r, q
<1>4. CASE r = 0
  <2>1. c = 0 /\ k = 0 /\ m = 0
    BY <1>1, <1>3, <1>4
  <2>2. s = 0 /\ q = 0 /\ r = Column(0, w) /\ Separators(m + k, w) = 0
    BY <2>1 DEF Separators, s, q, r
  <2>3. QED
    BY <2>1, <2>2 DEF c, s, r, q
<1>5. CASE r # 0
  <2>1. w * (s + q) = w * s + w * q /\ w * s \in Int /\ w * q \in Int
    BY <1>1, <1>3
  <2>2. m + k = w * (s + q) + r /\ r \in 1..w /\ s + q \in Nat /\ m + k \in Nat
    BY <1>1, <1>3, <1>5, <2>1
  <2>3. Separators(m + k, w) = s + q /\ Column(m + k, w) = r
    BY <2>2, ColumnUnique
  <2>4. QED
    BY <2>3 DEF c, s, r, q
<1>6. QED
  BY <1>4, <1>5

(* A place behind column c that is not a line's end shows one of the n     *)
(* characters.                                                             *)
LEMMA PlaceOf ==
    ASSUME NEW w \in Nat \ {0}, NEW c \in 0..w, NEW n \in Nat,
           NEW p \in 1..(n + Separators(c + n, w)), (c + p) % (w + 1) # 0
    PROVE  p - (c + p) \div (w + 1) \in 1..n
<1> DEFINE W == w + 1
           Q == (c + p) \div W
           R == (c + p) % W
           S == Separators(c + n, w)
           C == Column(c + n, w)
<1>1. c + n \in Nat
  OBVIOUS
<1>2. S \in Nat /\ C \in 0..w /\ c + n = w * S + C
  BY <1>1, ColumnIs
<1>3. p \in Nat /\ 1 <= p /\ p <= n + S
  BY <1>2
<1> HIDE DEF S, C
<1>4. W \in Nat \ {0} /\ W - 1 = w /\ c + p \in Int
  BY <1>3
<1>5. c + p = W * Q + R /\ R \in 0..w /\ Q \in Int
  <2>1. c + p = W * Q + R /\ R \in 0..(W - 1) /\ Q \in Int
    <3> HIDE DEF W
    <3>1. QED
      BY <1>4, Division
  <2>2. QED
    BY <1>4, <2>1
<1>6. R # 0
  OBVIOUS
<1> HIDE DEF Q, R
<1>7. W * Q = w * Q + Q /\ w * Q \in Int /\ W * S = w * S + S /\ w * S \in Int
  BY <1>2, <1>5
<1> HIDE DEF W
<1>8. p - Q = w * Q + R - c
  BY <1>3, <1>5, <1>7
<1>9. 0 <= Q
  <2>1. W * 0 <= W * Q + R /\ W * 0 = 0
    BY <1>3, <1>4, <1>5
  <2>2. R \in 0..(W - 1) /\ 0 \in Int
    BY <1>4, <1>5
  <2>3. QED
    BY <1>4, <1>5, <2>1, <2>2, TimesBelow
<1>10. 1 <= p - Q
  <2>1. CASE Q = 0
    BY <1>3, <2>1
  <2>2. CASE Q # 0
    <3>1. w * Q >= w
      BY <1>5, <1>9, <2>2, TimesOrder
    <3>2. QED
      BY <1>5, <1>6, <1>7, <1>8, <3>1
  <2>3. QED
    BY <2>1, <2>2
<1>11. W * Q + R <= W * S + C
  BY <1>2, <1>3, <1>5, <1>7
<1>12. Q <= S
  <2>1. W * Q <= W * S + C /\ C \in 0..(W - 1)
    BY <1>2, <1>4, <1>5, <1>7, <1>11
  <2>2. QED
    BY <1>2, <1>4, <1>5, <2>1, TimesBelow
<1>13. p - Q <= n
  <2>1. CASE Q = S
    <3>1. w * Q = w * S
      BY <2>1
    <3>2. R <= C
      BY <1>2, <1>5, <1>7, <1>11, <2>1
    <3>3. QED
      BY <1>2, <1>5, <1>7, <1>8, <3>1, <3>2
  <2>2. CASE Q # S
    <3>1. w * (S - Q) >= w /\ w * (S - Q) = w * S - w * Q
      BY <1>2, <1>5, <1>12, <2>2, TimesOrder
    <3>2. QED
      BY <1>2, <1>5, <1>7, <1>8, <3>1
  <2>3. QED
    BY <2>1, <2>2
<1>14. QED
  BY <1>3, <1>5, <1>10, <1>13 DEF Q, W

(* Characters put on lines are a text, longer by their separators.         *)
LEMMA WrappedType ==
    ASSUME NEW X, NL \in X, NEW s \in Seq(X), NEW w \in Nat, NEW c \in 0..w
    PROVE  /\ Wrapped(s, w, c) \in Seq(X)
           /\ Len(Wrapped(s, w, c)) = Len(s) + Separators(c + Len(s), w)
           /\ Separators(c + Len(s), w) \in Nat /\ Column(c + Len(s), w) \in 0..w
<1>1. CASE w = 0
  BY <1>1 DEF Wrapped, Separators, Column
<1>2. CASE w # 0
  <2> DEFINE n == Len(s)
             S == Separators(c + n, w)
  <2>1. n \in Nat /\ c + n \in Nat
    OBVIOUS
  <2> HIDE DEF n
  <2>2. S \in Nat /\ Column(c + n, w) \in 0..w
    BY <1>2, <2>1, ColumnIs
  <2> HIDE DEF S
  <2> DEFINE at(p) == IF (c + p) % (w + 1) = 0 THEN NL ELSE s[p - (c + p) \div (w + 1)]
             N == n + S
  <2>3. ASSUME NEW p \in 1..N PROVE at(p) \in X
    <3>1. (c + p) % (w + 1) # 0 => p - (c + p) \div (w + 1) \in 1..n
      BY <1>2, <2>1, <2>3, PlaceOf DEF S
    <3>2. \A i \in 1..n : s[i] \in X
      BY DEF n
    <3>3. QED
      BY <3>1, <3>2
  <2>4. Wrapped(s, w, c) = [p \in 1..N |-> at(p)]
    BY <1>2 DEF Wrapped, n, S
  <2>5. N \in Nat
    BY <2>1, <2>2
  <2> HIDE DEF at, N
  <2>6. Wrapped(s, w, c) \in [1..N -> X]
    BY <2>3, <2>4
  <2>7. Wrapped(s, w, c) \in Seq(X) /\ Len(Wrapped(s, w, c)) = N
    BY <2>5, <2>6
  <2>8. QED
    BY <2>2, <2>7 DEF N, n, S
<1>3. QED
  BY <1>1, <1>2

(* What stands at a place of them.                                         *)
LEMMA WrappedAt ==
    ASSUME NEW s, NEW w \in Nat \ {0}, NEW c,
           NEW p \in 1..(Len(s) + Separators(c + Len(s), w))
    PROVE  Wrapped(s, w, c)[p] = IF (c + p) % (w + 1) = 0 THEN NL
                                 ELSE s[p - (c + p) \div (w + 1)]
BY DEF Wrapped

(* Whole lines before a place change neither its remainder nor what is     *)
(* found there.                                                            *)
LEMMA LinesBefore ==
    ASSUME NEW M \in Nat \ {0}, NEW q \in Int, NEW x \in Int
    PROVE  (M * q + x) % M = x % M /\ (M * q + x) \div M = q + x \div M
<1> DEFINE a == x \div M
           r == x % M
<1>1. x = M * a + r /\ r \in 0..(M - 1) /\ a \in Int
  BY Division
<1> HIDE DEF a, r
<1>2. M * (q + a) = M * q + M * a /\ M * q \in Int /\ M * a \in Int
  BY <1>1
<1>3. M * q + x = M * (q + a) + r /\ q + a \in Int
  BY <1>1, <1>2
<1>4. (M * q + x) \div M = q + a /\ (M * q + x) % M = r
  BY <1>1, <1>3, DivisionIs
<1>5. QED
  BY <1>4 DEF a, r

(* Two runs of characters put on lines one after the other, the second     *)
(* from the column the first ends in, are on the lines of the whole.       *)
LEMMA WrappedJoins ==
    ASSUME NEW X, NL \in X, NEW s \in Seq(X), NEW t \in Seq(X),
           NEW w \in Nat, NEW c \in 0..w
    PROVE  Wrapped(s \o t, w, c)
             = Wrapped(s, w, c) \o Wrapped(t, w, Column(c + Len(s), w))
<1>1. CASE w = 0
  BY <1>1 DEF Wrapped
<1>2. CASE w # 0
  <2> DEFINE n == Len(s)
             k == Len(t)
             u == s \o t
             C == Column(c + n, w)
             S == Separators(c + n, w)
             T == Separators(C + k, w)
             W == w + 1
             x == Wrapped(s, w, c)
             y == Wrapped(t, w, C)
             z == Wrapped(u, w, c)
  <2>1. /\ n \in Nat /\ k \in Nat /\ c + n \in Nat
        /\ u \in Seq(X) /\ Len(u) = n + k
        /\ \A i \in 1..n : u[i] = s[i]
        /\ \A i \in 1..k : u[n + i] = t[i]
    BY ConcatProperties
  <2>2. S \in Nat /\ C \in 0..w /\ c + n = w * S + C
    BY <1>2, <2>1, ColumnIs
  <2>3. Separators(c + Len(u), w) = S + T
    <3>1. Separators((c + n) + k, w) = S + T
      BY <1>2, <2>1, ColumnAfter
    <3>2. (c + n) + k = c + Len(u)
      BY <2>1
    <3>3. QED
      BY <3>1, <3>2
  <2>4. x \in Seq(X) /\ Len(x) = n + S
    BY WrappedType
  <2>5. y \in Seq(X) /\ Len(y) = k + T /\ T \in Nat
    BY <2>2, WrappedType
  <2>6. z \in Seq(X) /\ Len(z) = Len(u) + (S + T)
    <3>1. u \in Seq(X)
      BY <2>1
    <3> HIDE DEF u
    <3>2. z \in Seq(X) /\ Len(z) = Len(u) + Separators(c + Len(u), w)
      BY <3>1, WrappedType
    <3>3. QED
      BY <2>3, <3>2
  <2>7. /\ \A p \in 1..(n + S) :
             x[p] = IF (c + p) % W = 0 THEN NL ELSE s[p - (c + p) \div W]
        /\ \A p \in 1..(k + T) :
             y[p] = IF (C + p) % W = 0 THEN NL ELSE t[p - (C + p) \div W]
        /\ \A p \in 1..(Len(u) + (S + T)) :
             z[p] = IF (c + p) % W = 0 THEN NL ELSE u[p - (c + p) \div W]
    <3> DEFINE Is(r, d) ==
                 \A p \in 1..(Len(r) + Separators(d + Len(r), w)) :
                    Wrapped(r, w, d)[p] =
                       IF (d + p) % W = 0 THEN NL ELSE r[p - (d + p) \div W]
    <3>1. \A r, d : Is(r, d)
      BY <1>2, WrappedAt
    <3> HIDE DEF Is
    <3>2. Is(s, c) /\ Is(t, C) /\ Is(u, c)
      BY <3>1, Zenon
    <3> USE DEF Is
    <3>3. \A p \in 1..(n + S) :
             x[p] = IF (c + p) % W = 0 THEN NL ELSE s[p - (c + p) \div W]
      BY <3>2, Zenon
    <3>4. \A p \in 1..(k + T) :
             y[p] = IF (C + p) % W = 0 THEN NL ELSE t[p - (C + p) \div W]
      BY <3>2, Zenon
    <3> HIDE DEF u
    <3>5. \A p \in 1..(Len(u) + Separators(c + Len(u), w)) :
             z[p] = IF (c + p) % W = 0 THEN NL ELSE u[p - (c + p) \div W]
      BY <3>2, Zenon
    <3>6. QED
      BY <2>3, <3>3, <3>4, <3>5
  <2>8. /\ \A p \in 1..(n + S) : (c + p) % W # 0 => p - (c + p) \div W \in 1..n
        /\ \A p \in 1..(k + T) : (C + p) % W # 0 => p - (C + p) \div W \in 1..k
    <3>1. \A p \in 1..(n + S) : (c + p) % W # 0 => p - (c + p) \div W \in 1..n
      BY <1>2, <2>1, PlaceOf
    <3>2. \A p \in 1..(k + T) : (C + p) % W # 0 => p - (C + p) \div W \in 1..k
      BY <1>2, <2>1, <2>2, PlaceOf
    <3>3. QED
      BY <3>1, <3>2
  <2>a. W \in Nat \ {0} /\ W * S = w * S + S /\ w * S \in Int
    BY <1>2, <2>2
  <2> HIDE DEF n, k, u, C, S, T, x, y, z, W
  <2>9. ASSUME NEW p \in 1..(n + S) PROVE z[p] = x[p]
    <3>1. p \in 1..(Len(u) + (S + T))
      BY <2>1, <2>2, <2>5
    <3>2. CASE (c + p) % W = 0
      BY <2>7, <3>1, <3>2
    <3>3. CASE (c + p) % W # 0
      <4>1. p - (c + p) \div W \in 1..n
        BY <2>8, <3>3
      <4>2. u[p - (c + p) \div W] = s[p - (c + p) \div W]
        BY <2>1, <4>1
      <4>3. QED
        BY <2>7, <3>1, <3>3, <4>2
    <3>4. QED
      BY <3>2, <3>3
  <2>10. ASSUME NEW p \in 1..(k + T) PROVE z[(n + S) + p] = y[p]
    <3>1. (n + S) + p \in 1..(Len(u) + (S + T)) /\ p \in Int
      BY <2>1, <2>2, <2>5
    <3>2. c + ((n + S) + p) = W * S + (C + p) /\ C + p \in Int
      <4>1. c \in Int /\ n \in Int /\ S \in Int /\ C \in Int /\ p \in Int
        BY <2>1, <2>2, <3>1
      <4> DEFINE v == w * S
                 V == W * S
      <4>2. v \in Int /\ V = v + S /\ c + n = v + C
        BY <2>2, <2>a
      <4> HIDE DEF v, V
      <4>3. c + ((n + S) + p) = V + (C + p) /\ C + p \in Int
        BY <4>1, <4>2
      <4>4. QED
        BY <4>3 DEF V
    <3>3. /\ (c + ((n + S) + p)) % W = (C + p) % W
          /\ (c + ((n + S) + p)) \div W = S + (C + p) \div W
      <4>1. S \in Int
        BY <2>2
      <4>2. /\ (W * S + (C + p)) % W = (C + p) % W
            /\ (W * S + (C + p)) \div W = S + (C + p) \div W
        BY <2>a, <3>2, <4>1, LinesBefore
      <4>3. QED
        BY <3>2, <4>2, Zenon
    <3>4. CASE (C + p) % W = 0
      BY <2>7, <3>1, <3>3, <3>4
    <3>5. CASE (C + p) % W # 0
      <4> DEFINE i == p - (C + p) \div W
      <4>1. i \in 1..k
        BY <2>8, <3>5
      <4>2. (C + p) \div W \in Int
        BY <2>a, <3>2, Division
      <4>3. ((n + S) + p) - (S + (C + p) \div W) = n + i
        BY <2>1, <2>2, <3>1, <4>2
      <4> HIDE DEF i
      <4>4. u[n + i] = t[i]
        BY <2>1, <4>1
      <4>5. z[(n + S) + p] = u[n + i]
        BY <2>7, <3>1, <3>3, <3>5, <4>3
      <4>6. y[p] = t[i]
        BY <2>7, <3>5 DEF i
      <4>7. QED
        BY <4>4, <4>5, <4>6
    <3>6. QED
      BY <3>4, <3>5
  <2>11. /\ x \o y \in Seq(X) /\ Len(x \o y) = (n + S) + (k + T)
         /\ \A p \in 1..(n + S) : (x \o y)[p] = x[p]
         /\ \A p \in 1..(k + T) : (x \o y)[(n + S) + p] = y[p]
    <3>1. \A a, b \in Seq(X) :
            /\ a \o b \in Seq(X) /\ Len(a \o b) = Len(a) + Len(b)
            /\ \A p \in 1..Len(a) : (a \o b)[p] = a[p]
            /\ \A p \in 1..Len(b) : (a \o b)[Len(a) + p] = b[p]
      OBVIOUS
    <3>2. /\ x \o y \in Seq(X) /\ Len(x \o y) = Len(x) + Len(y)
          /\ \A p \in 1..Len(x) : (x \o y)[p] = x[p]
          /\ \A p \in 1..Len(y) : (x \o y)[Len(x) + p] = y[p]
      BY <2>4, <2>5, <3>1
    <3>3. QED
      BY <2>4, <2>5, <3>2
  <2>12. Len(z) = (n + S) + (k + T)
    BY <2>1, <2>2, <2>5, <2>6
  <2>13. ASSUME NEW p \in 1..Len(z) PROVE z[p] = (x \o y)[p]
    <3>1. CASE p <= n + S
      <4>1. p \in 1..(n + S)
        BY <2>1, <2>2, <3>1
      <4>2. QED
        BY <2>9, <2>11, <4>1
    <3>2. CASE ~(p <= n + S)
      <4>1. p - (n + S) \in 1..(k + T) /\ p = (n + S) + (p - (n + S))
        BY <2>1, <2>2, <2>5, <2>12, <3>2
      <4>2. z[(n + S) + (p - (n + S))] = (x \o y)[(n + S) + (p - (n + S))]
        BY <2>10, <2>11, <4>1
      <4>3. QED
        BY <4>1, <4>2
    <3>3. QED
      BY <3>1, <3>2
  <2>14. z = x \o y
    <3>1. z \in Seq(X) /\ x \o y \in Seq(X) /\ Len(z) = Len(x \o y)
      BY <2>6, <2>11, <2>12
    <3>2. QED
      BY <2>13, <3>1, SeqEqual
  <2>15. QED
    BY <2>14 DEF x, y, z, C, n, u
<1>3. QED
  BY <1>1, <1>2

(* n characters of a text on lines of w.                                   *)
TextOf(b, m, w, n) ==
    [p \in 1..(n + Separators(n, w)) |-> TextChar(b, m, w, p)]

(* They are the same characters unwrapped, put on those lines.             *)
LEMMA TextIsWrapped ==
    ASSUME NEW b, NEW m, NEW n \in Nat, NEW w \in Nat
    PROVE  TextOf(b, m, w, n) = Wrapped(TextOf(b, m, 0, n), w, 0)
<1> SUFFICES [p \in 1..(n + Separators(n, w)) |-> TextChar(b, m, w, p)]
               = Wrapped([p \in 1..n |-> TextChar(b, m, 0, p)], w, 0)
  <2>1. TextOf(b, m, 0, n) = [p \in 1..n |-> TextChar(b, m, 0, p)]
    BY DEF TextOf, Separators
  <2>2. QED
    BY <2>1 DEF TextOf
<1> DEFINE s == [p \in 1..n |-> TextChar(b, m, 0, p)]
           N == n + Separators(n, w)
<1>1. Len(s) = n /\ \A p \in 1..n : s[p] = PayloadChar(b, m, p - 1)
  BY DEF TextChar
<1>2. CASE w = 0
  BY <1>2 DEF Wrapped, Separators
<1>3. CASE w # 0
  <2>1. ASSUME NEW p \in 1..N
        PROVE  TextChar(b, m, w, p) =
                 IF (0 + p) % (w + 1) = 0 THEN NL ELSE s[p - (0 + p) \div (w + 1)]
    <3>1. Separators(n, w) \in Nat
      BY <1>3, ColumnIs
    <3>2. p \in Int /\ 0 + p = p /\ 0 + n = n /\ 0 \in 0..w
      BY <3>1
    <3>3. CASE p % (w + 1) = 0
      BY <1>3, <3>2, <3>3 DEF TextChar
    <3>4. CASE p % (w + 1) # 0
      <4> DEFINE i == p - p \div (w + 1)
      <4>1. i \in 1..n
        BY <1>3, <3>2, <3>4, PlaceOf
      <4>2. p \div (w + 1) \in Int /\ p - 1 - p \div (w + 1) = i - 1
        <5>1. w + 1 \in Nat \ {0}
          OBVIOUS
        <5>2. p \div (w + 1) \in Int
          BY <3>2, <5>1, Division
        <5> DEFINE e == p \div (w + 1)
        <5>3. e \in Int /\ i = p - e
          BY <5>2
        <5> HIDE DEF e, i
        <5>4. p - 1 - e = i - 1
          BY <3>2, <5>3
        <5>5. QED
          BY <5>2, <5>4 DEF e
      <4> HIDE DEF i
      <4>3. s[i] = PayloadChar(b, m, i - 1)
        BY <1>1, <4>1
      <4>4. TextChar(b, m, w, p) = PayloadChar(b, m, i - 1)
        BY <1>3, <3>4, <4>2 DEF TextChar
      <4>5. QED
        BY <3>2, <3>4, <4>3, <4>4 DEF i
    <3>5. QED
      BY <3>3, <3>4
  <2>2. Wrapped(s, w, 0) =
          [p \in 1..N |->
             IF (0 + p) % (w + 1) = 0 THEN NL ELSE s[p - (0 + p) \div (w + 1)]]
    <3>1. 0 + Len(s) = n
      BY <1>1
    <3> HIDE DEF s
    <3>2. QED
      BY <1>1, <1>3, <3>1 DEF Wrapped
  <2> HIDE DEF s, N
  <2>3. QED
    BY <2>1, <2>2 DEF N, s
<1>4. QED
  BY <1>2, <1>3

(* The text of an unfinished stream is its characters put on lines ...     *)
LEMMA OpenIsWrapped ==
    ASSUME NEW b \in Seq(Byte), NEW w \in Nat
    PROVE  OpenText(b, Len(b), w) = Wrapped(OpenText(b, Len(b), 0), w, 0)
<1>1. OpenCount(Len(b)) \in Nat
  BY CountTypes
<1>2. \A v : OpenText(b, Len(b), v) = TextOf(b, Len(b), v, OpenCount(Len(b)))
  BY DEF OpenText, TextOf
<1>3. QED
  BY <1>1, <1>2, TextIsWrapped

(* ... and so is that of a finished one, with the newline behind it.       *)
LEMMA ClosedIsWrapped ==
    ASSUME NEW b \in Seq(Byte), NEW w \in Nat
    PROVE  LET body == Wrapped(ClosedText(b, Len(b), 0), w, 0)
           IN  ClosedText(b, Len(b), w) = IF w = 0 THEN body ELSE Append(body, NL)
<1>1. ClosedCount(Len(b)) \in Nat
  BY CountTypes
<1> DEFINE text(v) == TextOf(b, Len(b), v, ClosedCount(Len(b)))
<1>2. \A v : ClosedText(b, Len(b), v) = IF v = 0 THEN text(v) ELSE Append(text(v), NL)
  BY DEF ClosedText, TextOf
<1>3. text(w) = Wrapped(text(0), w, 0)
  BY <1>1, TextIsWrapped
<1> HIDE DEF text
<1>4. ClosedText(b, Len(b), 0) = text(0)
  BY <1>2
<1>5. QED
  BY <1>2, <1>3, <1>4

(* What one piece and the next add is what both add.                       *)
LEMMA BeyondJoins ==
    ASSUME NEW X, NEW a \in Seq(X), NEW b, NEW c, Extends(X, b, a), Extends(X, c, b)
    PROVE  /\ Beyond(a, b) \in Seq(X) /\ Beyond(b, c) \in Seq(X)
           /\ Extends(X, c, a)
           /\ Beyond(a, c) = Beyond(a, b) \o Beyond(b, c)
<1>1. b \in Seq(X) /\ Extends(X, c, a)
  BY ExtendsThrough
<1>2. /\ Beyond(a, b) \in Seq(X) /\ b = a \o Beyond(a, b)
      /\ Beyond(b, c) \in Seq(X) /\ c = b \o Beyond(b, c)
      /\ Beyond(a, c) \in Seq(X) /\ c = a \o Beyond(a, c)
  BY <1>1, RestOf DEF Beyond
<1> DEFINE x == Beyond(a, b)
           y == Beyond(b, c)
           z == Beyond(a, c)
<1>3. /\ x \in Seq(X) /\ y \in Seq(X) /\ z \in Seq(X)
      /\ b = a \o x /\ c = b \o y /\ c = a \o z
  BY <1>2
<1> HIDE DEF x, y, z
<1>4. (a \o x) \o y = a \o (x \o y) /\ x \o y \in Seq(X)
  <2>1. a \in Seq(X) /\ x \in Seq(X) /\ y \in Seq(X)
    BY <1>3
  <2>2. (a \o x) \o y = a \o (x \o y)
    BY ONLY <2>1, Associative
  <2>3. QED
    BY <1>3, <2>2, ConcatProperties
<1>5. a \o z = a \o (x \o y)
  BY <1>3, <1>4, Zenon
<1>6. z = x \o y
  BY <1>3, <1>4, <1>5, ConcatSimplifications
<1>7. QED
  BY <1>1, <1>3, <1>6 DEF x, y, z

(* What a piece and the end add completes the text.                        *)
LEMMA TextInPieces ==
    ASSUME NEW b \in Seq(Byte), NEW d \in Seq(Byte), NEW w \in Nat
    PROVE  /\ OpenText(b, Len(b), w) \in Seq(Char)
           /\ PieceText(b, d, w) \in Seq(Char) /\ EndText(b, w) \in Seq(Char)
           /\ OpenText(b, Len(b), w) \o PieceText(b, d, w)
                = OpenText(b \o d, Len(b \o d), w)
           /\ OpenText(b, Len(b), w) \o EndText(b, w) = ClosedText(b, Len(b), w)
<1>1. OpenText(b, Len(b), w) \in Seq(Char)
  <2>1. Len(b) \in 0..Len(b)
    OBVIOUS
  <2>2. QED
    BY <2>1, OpenTextType
<1>2. /\ PieceText(b, d, w) \in Seq(Char)
      /\ OpenText(b \o d, Len(b \o d), w) = OpenText(b, Len(b), w) \o PieceText(b, d, w)
  BY <1>1, OpenExtends, RestOf DEF PieceText, Beyond
<1>3. /\ EndText(b, w) \in Seq(Char)
      /\ ClosedText(b, Len(b), w) = OpenText(b, Len(b), w) \o EndText(b, w)
  BY <1>1, ClosedExtends, RestOf DEF EndText, Beyond
<1>4. QED
  BY <1>1, <1>2, <1>3

(* A text that goes on after n characters, put on lines: the rest starts   *)
(* in their column.                                                        *)
LEMMA WrappedOn ==
    ASSUME NEW b \in Seq(Byte), NEW x \in Seq(Char), NEW w \in Nat
    PROVE  Wrapped(OpenText(b, Len(b), 0) \o x, w, 0)
             = OpenText(b, Len(b), w) \o Wrapped(x, w, Column(OpenCount(Len(b)), w))
<1> DEFINE s == OpenText(b, Len(b), 0)
<1>1. s \in Seq(Char) /\ Len(s) = OpenCount(Len(b)) /\ OpenCount(Len(b)) \in Nat
  <2>1. Len(b) \in 0..Len(b) /\ Len(b) \in Nat /\ 0 \in Nat
    OBVIOUS
  <2>2. s \in Seq(Char) /\ Len(s) = OpenCount(Len(b)) + Separators(OpenCount(Len(b)), 0)
    BY <2>1, OpenTextType
  <2>3. Separators(OpenCount(Len(b)), 0) = 0 /\ OpenCount(Len(b)) \in Nat
    BY <2>1, CountTypes DEF Separators
  <2>4. QED
    BY <2>2, <2>3
<1>2. OpenText(b, Len(b), w) = Wrapped(s, w, 0)
  BY OpenIsWrapped
<1> HIDE DEF s
<1>3. NL \in Char /\ 0 \in 0..w
  BY DEF Char
<1>4. Wrapped(s \o x, w, 0) = Wrapped(s, w, 0) \o Wrapped(x, w, Column(0 + Len(s), w))
  BY <1>1, <1>3, WrappedJoins
<1>5. 0 + Len(s) = OpenCount(Len(b))
  BY <1>1
<1>6. QED
  BY <1>2, <1>4, <1>5 DEF s

(* What a piece and the end add to a wrapped text.                         *)
LEMMA WrappedPieces ==
    ASSUME NEW b \in Seq(Byte), NEW d \in Seq(Byte), NEW w \in Nat
    PROVE  LET col == Column(OpenCount(Len(b)), w)
               end == Wrapped(EndText(b, 0), w, col)
           IN  /\ OpenText(b \o d, Len(b \o d), w)
                    = OpenText(b, Len(b), w) \o Wrapped(PieceText(b, d, 0), w, col)
               /\ ClosedText(b, Len(b), w)
                    = OpenText(b, Len(b), w) \o (IF w = 0 THEN end ELSE Append(end, NL))
<1> DEFINE col == Column(OpenCount(Len(b)), w)
           x == PieceText(b, d, 0)
           y == EndText(b, 0)
           end == Wrapped(y, w, col)
           s == OpenText(b, Len(b), 0)
           open == OpenText(b, Len(b), w)
<1>1. /\ x \in Seq(Char) /\ y \in Seq(Char)
      /\ s \o x = OpenText(b \o d, Len(b \o d), 0)
      /\ s \o y = ClosedText(b, Len(b), 0)
  BY TextInPieces
<1>2. open \in Seq(Char) /\ b \o d \in Seq(Byte)
  BY TextInPieces, ConcatProperties
<1>3. /\ Wrapped(s \o x, w, 0) = open \o Wrapped(x, w, col)
      /\ Wrapped(s \o y, w, 0) = open \o end
  BY <1>1, WrappedOn
<1>4. OpenText(b \o d, Len(b \o d), w) = open \o Wrapped(x, w, col)
  BY <1>1, <1>2, <1>3, OpenIsWrapped
<1>5. ClosedText(b, Len(b), w) = IF w = 0 THEN open \o end ELSE Append(open \o end, NL)
  BY <1>1, <1>3, ClosedIsWrapped
<1>6. end \in Seq(Char) /\ NL \in Char
  <2>1. col \in 0..w
    <3>1. OpenCount(Len(b)) \in Nat
      BY CountTypes
    <3>2. CASE w = 0
      BY <3>2 DEF Column
    <3>3. CASE w # 0
      BY <3>1, <3>3, ColumnIs
    <3>4. QED
      BY <3>2, <3>3
  <2> HIDE DEF col, y
  <2>2. QED
    BY <1>1, <2>1, WrappedType DEF Char
<1> HIDE DEF end, open, x, col
<1>7. Append(open \o end, NL) = open \o Append(end, NL)
  <2>1. \A p, q \in Seq(Char) : \A e \in Char : p \o Append(q, e) = Append(p \o q, e)
    BY AppendConcat
  <2>2. QED
    BY <1>2, <1>6, <2>1, Zenon
<1>8. QED
  BY <1>4, <1>5, <1>7 DEF end, open, x, col, y

(* How many characters the text of a stream grows by: with a piece by what *)
(* it determines, and by no more than n when it is no longer than what n   *)
(* characters stand for; with its end by no more than three.               *)
LEMMA TextGrows ==
    ASSUME NEW b \in Seq(Byte), NEW d \in Seq(Byte)
    PROVE  /\ OpenCount(Len(b)) + Len(PieceText(b, d, 0)) = OpenCount(Len(b \o d))
           /\ \A n \in Nat : 4 * Len(d) <= 3 * n => Len(PieceText(b, d, 0)) <= n
           /\ Len(EndText(b, 0)) <= 3
<1> DEFINE m == Len(b)
           g == Len(d)
           M == Len(b \o d)
           s == OpenText(b, m, 0)
           t == OpenText(b \o d, M, 0)
           u == ClosedText(b, m, 0)
           x == PieceText(b, d, 0)
           y == EndText(b, 0)
<1>1. /\ b \o d \in Seq(Byte) /\ m \in Nat /\ g \in Nat /\ M = m + g
      /\ m \in 0..m /\ M \in 0..M
  BY ConcatProperties
<1>2. Len(s) = OpenCount(m) /\ Len(t) = OpenCount(M) /\ Len(u) = ClosedCount(m)
  <2>1. \A k \in Int : Separators(k, 0) = 0
    BY DEF Separators
  <2>2. OpenCount(m) \in Nat /\ OpenCount(M) \in Nat
    BY <1>1, CountTypes
  <2>3. Len(s) = OpenCount(m) + 0
    <3> HIDE DEF m
    <3>1. m \in 0..Len(b) /\ 0 \in Nat
      BY <1>1 DEF m
    <3>2. Len(OpenText(b, m, 0)) = OpenCount(m) + Separators(OpenCount(m), 0)
      BY <3>1, OpenTextType
    <3>3. QED
      BY <2>1, <2>2, <3>2
  <2>4. Len(t) = OpenCount(M) + 0
    <3> DEFINE c == b \o d
    <3>1. c \in Seq(Byte) /\ M \in 0..Len(c)
      BY <1>1
    <3> HIDE DEF c, M
    <3>2. Len(OpenText(c, M, 0)) = OpenCount(M) + Separators(OpenCount(M), 0)
      BY <3>1, OpenTextType
    <3>3. QED
      BY <2>1, <2>2, <3>2 DEF c
  <2>5. Len(u) = ClosedCount(m)
    BY <1>1, ClosedLength
  <2>6. QED
    BY <2>2, <2>3, <2>4, <2>5
<1>3. /\ x \in Seq(Char) /\ y \in Seq(Char) /\ s \in Seq(Char)
      /\ t = s \o x /\ u = s \o y
  BY TextInPieces
<1> HIDE DEF x, y, s, t, u
<1>4. /\ OpenCount(M) = OpenCount(m) + Len(x) /\ Len(x) \in Nat
      /\ ClosedCount(m) = OpenCount(m) + Len(y) /\ Len(y) \in Nat
  <2>1. \A p, q \in Seq(Char) : Len(p \o q) = Len(p) + Len(q) /\ Len(q) \in Nat
    OBVIOUS
  <2>2. /\ Len(t) = Len(s) + Len(x) /\ Len(x) \in Nat
        /\ Len(u) = Len(s) + Len(y) /\ Len(y) \in Nat
    BY <1>3, <2>1
  <2>3. QED
    BY <1>2, <2>2
<1>5. OpenCount(m) \in Nat /\ ClosedCount(m) - OpenCount(m) <= 3
  BY <1>1 DEF OpenCount, ClosedCount
<1>6. ASSUME NEW n \in Nat, 4 * g <= 3 * n PROVE OpenCount(M) - OpenCount(m) <= n
  <2> HIDE DEF m, g, M
  <2>1. QED
    BY <1>1, <1>6 DEF OpenCount
<1> DEFINE o == OpenCount(m)
<1> HIDE DEF o
<1>7. QED
  BY <1>4, <1>5, <1>6 DEF m, g, M, x, y, o

(* A quotient is no more than the dividend.                                *)
LEMMA QuotientBelow ==
    ASSUME NEW w \in Nat \ {0}, NEW x \in Nat
    PROVE  x \div w \in 0..x
<1> DEFINE y == x \div w
           r == x % w
<1>1. x = w * y + r /\ r \in 0..(w - 1) /\ y \in Int
  BY Division
<1> HIDE DEF y, r
<1>2. 0 <= y
  <2>1. w * 0 <= w * y + r
    BY <1>1
  <2>2. QED
    BY <1>1, <2>1, TimesBelow
<1>3. w * y >= y
  <2>1. (w - 1) * y >= 0 /\ (w - 1) * y = w * y - y
    BY <1>1, <1>2
  <2>2. w * y \in Int
    BY <1>1
  <2>3. QED
    BY <1>1, <2>1, <2>2
<1>4. w * y \in Int
  BY <1>1
<1>5. y <= x
  BY <1>1, <1>3, <1>4
<1>6. QED
  BY <1>1, <1>2, <1>5 DEF y

(* No more than n characters take, from any column, no more room than n of *)
(* them and a newline for every line begun.                                *)
LEMMA WrappedGrows ==
    ASSUME NEW s \in Seq(Char), NEW w \in Nat, NEW c \in 0..w,
           NEW n \in Nat \ {0}, Len(s) <= n
    PROVE  Len(Wrapped(s, w, c)) <= n + (IF w = 0 THEN 0 ELSE (n - 1) \div w + 1)
<1> DEFINE k == Len(s)
           p == Separators(c + k, w)
<1>1. Len(Wrapped(s, w, c)) = k + p /\ p \in Nat /\ k \in Nat
  <2>1. NL \in Char /\ k \in Nat
    BY DEF Char
  <2>2. Len(Wrapped(s, w, c)) = k + p /\ p \in Nat
    BY <2>1, WrappedType
  <2>3. QED
    BY <2>1, <2>2
<1>2. CASE w = 0
  <2>1. p = 0
    BY <1>2 DEF Separators
  <2>2. QED
    BY <1>1, <1>2, <2>1
<1>3. CASE w # 0
  <2>1. (n - 1) \div w \in Nat
    BY <1>3
  <2>2. Separators(c, w) = 0
    <3>1. CASE c = 0
      BY <3>1 DEF Separators
    <3>2. CASE c # 0
      <4>1. c \in Nat /\ 0 \in Nat /\ c \in 1..w /\ c = w * 0 + c
        BY <3>2
      <4>2. QED
        BY <1>3, <4>1, ColumnUnique
    <3>3. QED
      BY <3>1, <3>2
  <2>3. p <= (n - 1) \div w + 1
    <3>1. CASE k = 0
      <4>1. p = 0
        BY <2>2, <3>1
      <4>2. QED
        BY <2>1, <4>1
    <3>2. CASE k # 0
      <4>1. k \in Nat \ {0} /\ k - 1 \in Nat /\ n - 1 \in Nat /\ k - 1 <= n - 1
        BY <1>1, <3>2
      <4>2. p - Separators(c, w) <= (k - 1) \div w + 1
        <5> HIDE DEF k
        <5>1. QED
          BY <1>3, <4>1, SeparatorsGrow
      <4>3. (k - 1) \div w <= (n - 1) \div w /\ (k - 1) \div w \in Int
        <5> HIDE DEF k
        <5>1. QED
          BY <1>3, <4>1, QuotientOrder
      <4> DEFINE a == (k - 1) \div w
                 b == (n - 1) \div w
      <4> HIDE DEF p, a, b
      <4>4. p - 0 <= a + 1 /\ a <= b /\ a \in Int /\ b \in Int /\ p \in Int
        BY <1>1, <2>1, <2>2, <4>2, <4>3 DEF a, b
      <4>5. p <= b + 1
        BY <4>4
      <4>6. QED
        BY <4>5 DEF b
    <3>3. QED
      BY <3>1, <3>2
  <2> HIDE DEF p, k
  <2>4. k <= n
    BY DEF k
  <2> DEFINE b == (n - 1) \div w
  <2>5. b \in Nat /\ p <= b + 1
    BY <2>1, <2>3
  <2> HIDE DEF b
  <2>6. k + p <= n + (b + 1)
    BY <1>1, <2>4, <2>5
  <2>7. QED
    BY <1>1, <1>3, <2>6 DEF b
<1>4. QED
  BY <1>2, <1>3

-----------------------------------------------------------------------------
(* How the bytes of a text grow.                                           *)

LEMMA AmongLength ==
    ASSUME NEW S, NEW X, NEW s \in Seq(X)
    PROVE  Len(Among(S, s)) \in 0..Len(s)
<1> DEFINE P == {t \in Seq(X) : Len(Among(S, t)) \in 0..Len(t)}
<1>1. << >> \in P
  BY AmongEmpty, EmptySeq
<1>2. ASSUME NEW t \in P, NEW e \in X PROVE Append(t, e) \in P
  <2>1. Append(t, e) \in Seq(X) /\ Len(Append(t, e)) = Len(t) + 1
        /\ t \in Seq(X) /\ Len(t) \in Nat /\ Len(Among(S, t)) \in 0..Len(t)
    OBVIOUS
  <2>2. Among(S, t) \in Seq(S \cap X)
    BY <2>1, AmongType
  <2>3. Among(S, Append(t, e)) = IF e \in S THEN Append(Among(S, t), e) ELSE Among(S, t)
    BY <2>1, AmongAppend
  <2>4. e \in S => Len(Append(Among(S, t), e)) = Len(Among(S, t)) + 1
    BY <2>2
  <2>5. Len(Among(S, Append(t, e))) \in 0..(Len(t) + 1)
    BY <2>1, <2>3, <2>4
  <2>6. QED
    BY <2>1, <2>5
<1> HIDE DEF P
<1>3. P = Seq(X)
  <2>1. P \in SUBSET Seq(X)
    BY DEF P
  <2>2. QED
    BY <1>1, <1>2, <2>1, SeqInduction
<1>4. QED
  BY <1>3 DEF P

(* A crumb of decoded sextets is a crumb.                                  *)
LEMMA ValueCrumbType ==
    ASSUME NEW v \in Seq(Sextet), NEW c \in 0..(3 * Len(v) - 1)
    PROVE  ValueCrumb(v, c) \in Crumb
<1>1. c \div 3 + 1 \in 1..Len(v) /\ c % 3 \in {0, 1, 2}
  OBVIOUS
<1>2. v[c \div 3 + 1] \in Sextet
  BY <1>1
<1>3. QED
  BY <1>1, <1>2 DEF ValueCrumb, Sextet

(* n sextets give (3 * n) div 4 whole bytes.                               *)
LEMMA BytesType ==
    ASSUME NEW v \in Seq(Sextet)
    PROVE  /\ Bytes(v) \in Seq(Byte)
           /\ Len(Bytes(v)) = (3 * Len(v)) \div 4
<1> DEFINE k == (3 * Len(v)) \div 4
<1>1. k \in Nat /\ 4 * k <= 3 * Len(v) /\ Len(v) \in Nat
  OBVIOUS
<1>2. Bytes(v) = [i \in 1..k |->
                    << ValueCrumb(v, 4 * (i - 1)),     ValueCrumb(v, 4 * (i - 1) + 1),
                       ValueCrumb(v, 4 * (i - 1) + 2), ValueCrumb(v, 4 * (i - 1) + 3) >>]
  BY DEF Bytes
<1> HIDE DEF k
<1>3. ASSUME NEW i \in 1..k
      PROVE  << ValueCrumb(v, 4 * (i - 1)),     ValueCrumb(v, 4 * (i - 1) + 1),
                ValueCrumb(v, 4 * (i - 1) + 2), ValueCrumb(v, 4 * (i - 1) + 3) >> \in Byte
  <2>1. /\ 4 * (i - 1) \in 0..(3 * Len(v) - 1) /\ 4 * (i - 1) + 1 \in 0..(3 * Len(v) - 1)
        /\ 4 * (i - 1) + 2 \in 0..(3 * Len(v) - 1) /\ 4 * (i - 1) + 3 \in 0..(3 * Len(v) - 1)
    BY <1>1
  <2>2. /\ ValueCrumb(v, 4 * (i - 1)) \in Crumb /\ ValueCrumb(v, 4 * (i - 1) + 1) \in Crumb
        /\ ValueCrumb(v, 4 * (i - 1) + 2) \in Crumb /\ ValueCrumb(v, 4 * (i - 1) + 3) \in Crumb
    BY <2>1, ValueCrumbType
  <2>3. QED
    BY <2>2 DEF Byte
<1>4. QED
  BY <1>1, <1>2, <1>3 DEF k

(* More 6-bit values make more bytes, and the same ones first.             *)
LEMMA BytesExtend ==
    ASSUME NEW v \in Seq(Sextet), NEW u \in Seq(Sextet)
    PROVE  Extends(Byte, Bytes(v \o u), Bytes(v))
<1> DEFINE x == v \o u
           k == Len(Bytes(v))
           s == SubSeq(Bytes(x), 1, k)
           t == SubSeq(Bytes(x), k + 1, Len(Bytes(x)))
<1>1. /\ x \in Seq(Sextet) /\ Len(v) \in Nat /\ Len(u) \in Nat /\ Len(x) = Len(v) + Len(u)
      /\ \A p \in 1..Len(v) : x[p] = v[p]
  BY ConcatProperties
<1> HIDE DEF x
<1>2. /\ Bytes(v) \in Seq(Byte) /\ Bytes(x) \in Seq(Byte)
      /\ k = (3 * Len(v)) \div 4 /\ Len(Bytes(x)) = (3 * Len(x)) \div 4
  BY <1>1, BytesType
<1>3. k \in Nat /\ k \in 0..Len(Bytes(x)) /\ Len(Bytes(x)) \in k..Len(Bytes(x))
      /\ Len(Bytes(x)) \in 0..Len(Bytes(x)) /\ 0 \in 0..Len(Bytes(x))
      /\ 4 * k <= 3 * Len(v)
  BY <1>1, <1>2
<1>4. s \in Seq(Byte) /\ t \in Seq(Byte) /\ Len(s) = k
  <2>1. SubSeq(Bytes(x), 0 + 1, k) \in Seq(Byte) /\ Len(SubSeq(Bytes(x), 0 + 1, k)) = k
    BY <1>2, <1>3, PieceType
  <2>2. t \in Seq(Byte)
    BY <1>2, <1>3, PieceType
  <2>3. QED
    BY <2>1, <2>2
<1>5. s \o t = Bytes(x)
  BY <1>2, <1>3, PiecesJoin, SubSeqFull
<1>6. \A c \in 0..(3 * Len(v) - 1) : ValueCrumb(x, c) = ValueCrumb(v, c)
  <2>1. ASSUME NEW c \in 0..(3 * Len(v) - 1) PROVE ValueCrumb(x, c) = ValueCrumb(v, c)
    <3>1. c \div 3 + 1 \in 1..Len(v)
      BY <1>1
    <3>2. x[c \div 3 + 1] = v[c \div 3 + 1]
      BY <1>1, <3>1
    <3>3. QED
      BY <3>2 DEF ValueCrumb
  <2>2. QED
    BY <2>1
<1>7. ASSUME NEW i \in 1..k PROVE s[i] = Bytes(v)[i]
  <2>1. s[i] = Bytes(x)[i] /\ i \in 1..((3 * Len(x)) \div 4) /\ i \in 1..((3 * Len(v)) \div 4)
    BY <1>2, <1>3
  <2>2. /\ 4 * (i - 1) \in 0..(3 * Len(v) - 1) /\ 4 * (i - 1) + 1 \in 0..(3 * Len(v) - 1)
        /\ 4 * (i - 1) + 2 \in 0..(3 * Len(v) - 1) /\ 4 * (i - 1) + 3 \in 0..(3 * Len(v) - 1)
    BY <1>1, <1>3
  <2>3. /\ ValueCrumb(x, 4 * (i - 1)) = ValueCrumb(v, 4 * (i - 1))
        /\ ValueCrumb(x, 4 * (i - 1) + 1) = ValueCrumb(v, 4 * (i - 1) + 1)
        /\ ValueCrumb(x, 4 * (i - 1) + 2) = ValueCrumb(v, 4 * (i - 1) + 2)
        /\ ValueCrumb(x, 4 * (i - 1) + 3) = ValueCrumb(v, 4 * (i - 1) + 3)
    BY <1>6, <2>2
  <2>4. Bytes(x)[i] = Bytes(v)[i]
    BY <2>1, <2>3 DEF Bytes
  <2>5. QED
    BY <2>1, <2>4
<1> HIDE DEF s, t
<1>8. s = Bytes(v)
  <2> HIDE DEF k
  <2>1. Len(Bytes(v)) = k
    BY DEF k
  <2>2. QED
    BY <1>2, <1>4, <1>7, <2>1, SeqEqual
<1>9. Bytes(x) = Bytes(v) \o t
  BY <1>5, <1>8
<1>10. QED
  BY <1>4, <1>9, Zenon DEF Extends, x

(* The values of a text are at most its characters, and fix how many
   bytes it decodes to.                                                    *)
LEMMA DecodedType ==
    ASSUME NEW t \in Seq(Char)
    PROVE  /\ Values(t, Len(t)) \in Seq(Sextet)
           /\ Len(Values(t, Len(t))) \in 0..Len(t)
           /\ Decoded(t) \in Seq(Byte)
           /\ Len(Decoded(t)) = (3 * Len(Values(t, Len(t)))) \div 4
<1>1. Values(t, Len(t)) = Among(Sextet, t)
  BY ValuesIs
<1>2. Sextet \cap Char = Sextet
  BY DEF Char
<1>3. Among(Sextet, t) \in Seq(Sextet)
  BY <1>2, AmongType
<1>4. Len(Among(Sextet, t)) \in 0..Len(t)
  BY AmongLength
<1>5. QED
  BY <1>1, <1>3, <1>4, BytesType DEF Decoded

(* A decoder delivers more the more it is given, and never otherwise.      *)
LEMMA DecodedExtends ==
    ASSUME NEW s \in Seq(Char), NEW t \in Seq(Char)
    PROVE  /\ s \o t \in Seq(Char)
           /\ Len(Values(s \o t, Len(s \o t))) = Len(Values(s, Len(s))) + Len(Values(t, Len(t)))
           /\ Extends(Byte, Decoded(s \o t), Decoded(s))
<1>1. s \o t \in Seq(Char)
  BY ConcatProperties
<1> DEFINE r == s \o t
           a == Values(s, Len(s))
           b == Values(t, Len(t))
<1>2. a = Among(Sextet, s) /\ b = Among(Sextet, t) /\ Values(r, Len(r)) = Among(Sextet, r)
  BY <1>1, ValuesIs
<1>3. Values(r, Len(r)) = a \o b
  BY <1>2, AmongConcat
<1>4. a \in Seq(Sextet) /\ b \in Seq(Sextet)
  BY DecodedType
<1>5. Decoded(r) = Bytes(Values(r, Len(r))) /\ Decoded(s) = Bytes(a)
  BY DEF Decoded
<1> HIDE DEF r, a, b
<1>6. Extends(Byte, Bytes(a \o b), Bytes(a)) /\ Len(a \o b) = Len(a) + Len(b)
  BY <1>4, BytesExtend, ConcatProperties
<1>7. QED
  BY <1>1, <1>3, <1>5, <1>6 DEF r, a, b

(* How much a piece of n characters adds, and the byte that is begun then. *)
LEMMA DecodedGrows ==
    ASSUME NEW s \in Seq(Char), NEW t \in Seq(Char), NEW n \in Nat, Len(t) <= n
    PROVE  LET begun == IF Len(Values(s \o t, Len(s \o t))) % 4 = 0 THEN 0 ELSE 1
           IN  Len(Decoded(s \o t)) - Len(Decoded(s)) + begun <= (n \div 4) * 3 + 3
<1> DEFINE a == Len(Values(s, Len(s)))
           b == Len(Values(t, Len(t)))
           c == Len(Values(s \o t, Len(s \o t)))
<1>1. s \o t \in Seq(Char) /\ c = a + b
  BY DecodedExtends
<1>2. a \in Nat /\ b \in Nat /\ b <= n
  <2>1. a \in 0..Len(s) /\ b \in 0..Len(t)
    BY DecodedType
  <2>2. QED
    BY <2>1
<1>3. Len(Decoded(s \o t)) = (3 * c) \div 4 /\ Len(Decoded(s)) = (3 * a) \div 4
  BY <1>1, DecodedType
<1> HIDE DEF a, b, c
<1>4. (3 * c) \div 4 - (3 * a) \div 4 + (IF c % 4 = 0 THEN 0 ELSE 1) <= (n \div 4) * 3 + 3
  BY <1>1, <1>2
<1>5. QED
  BY <1>3, <1>4 DEF c

-----------------------------------------------------------------------------
(* The bytes of a text, one character or one run of values at a time.      *)

(* What one more 6-bit value completes, after v.                           *)
Completed(v, x) ==
    LET last == v[Len(v)]
    IN  CASE Len(v) % 4 = 1 -> << last[1], last[2], last[3], x[1] >>
          [] Len(v) % 4 = 2 -> << last[2], last[3], x[1], x[2] >>
          [] Len(v) % 4 = 3 -> << last[3], x[1], x[2], x[3] >>

(* The crumbs of the last sextet and of the one before it, where a new
   sextet puts them.                                                       *)
LEMMA CrumbsOfLast ==
    ASSUME NEW v \in Seq(Sextet), NEW x \in Sextet, NEW r \in 0..2
    PROVE  /\ ValueCrumb(Append(v, x), 3 * Len(v) + r) = x[r + 1]
           /\ Len(v) > 0 =>
                ValueCrumb(Append(v, x), 3 * (Len(v) - 1) + r) = v[Len(v)][r + 1]
<1> DEFINE n == Len(v)
           t == Append(v, x)
<1>1. n \in Nat /\ t[n + 1] = x /\ (n > 0 => t[n] = v[n])
  OBVIOUS
<1> HIDE DEF n, t
<1>2. /\ (3 * n + r) \div 3 = n /\ (3 * n + r) % 3 = r
      /\ n > 0 => (3 * (n - 1) + r) \div 3 = n - 1 /\ (3 * (n - 1) + r) % 3 = r
                  /\ (n - 1) + 1 = n
  BY <1>1
<1>3. ValueCrumb(t, 3 * n + r) = t[n + 1][r + 1]
  BY <1>2 DEF ValueCrumb
<1>4. n > 0 => ValueCrumb(t, 3 * (n - 1) + r) = t[n][r + 1]
  BY <1>2 DEF ValueCrumb
<1>5. QED
  BY <1>1, <1>3, <1>4 DEF n, t

(* How (3 * n) div 4 moves with n, by the four positions in a group.       *)
LEMMA QuarterSteps ==
    ASSUME NEW n \in Nat, NEW k, k = (3 * n) \div 4,
           NEW j, j = (3 * (n + 1)) \div 4
    PROVE  /\ k \in Nat
           /\ n % 4 = 0 => j = k + 0
           /\ n % 4 # 0 => j = k + 1 /\ n > 0
           /\ n % 4 \in 0..3
           /\ n % 4 = 1 => 4 * k = 3 * (n - 1)
           /\ n % 4 = 2 => 4 * k = 3 * (n - 1) + 1
           /\ n % 4 = 3 => 4 * k = 3 * (n - 1) + 2
<1>1. PICK q \in Nat : \E r \in 0..3 : n = 4 * q + r
  <2>1. n \div 4 \in Nat /\ n % 4 \in 0..3 /\ n = 4 * (n \div 4) + (n % 4)
    OBVIOUS
  <2>2. QED
    BY <2>1
<1>2. PICK r \in 0..3 : n = 4 * q + r
  BY <1>1
<1>3. n % 4 = r
  BY <1>2
<1>4. CASE r = 0
  BY <1>2, <1>3, <1>4
<1>5. CASE r = 1
  BY <1>2, <1>3, <1>5
<1>6. CASE r = 2
  BY <1>2, <1>3, <1>6
<1>7. CASE r = 3
  BY <1>2, <1>3, <1>7
<1>8. QED
  BY <1>4, <1>5, <1>6, <1>7

(* Every sextet but the first of a group completes one byte.               *)
LEMMA QuarterNext ==
    \A n \in Nat : n % 4 # 0 => (3 * (n + 1)) \div 4 = (3 * n) \div 4 + 1
<1>1. TAKE n \in Nat
<1> DEFINE k == (3 * n) \div 4
           j == (3 * (n + 1)) \div 4
<1>2. k = (3 * n) \div 4 /\ j = (3 * (n + 1)) \div 4
  OBVIOUS
<1> HIDE DEF k, j
<1>3. n % 4 # 0 => j = k + 1
  BY <1>2, QuarterSteps
<1>4. QED
  BY <1>2, <1>3

(* One more sextet completes a byte, or, as the first of its group, none.  *)
LEMMA BytesAppend ==
    ASSUME NEW v \in Seq(Sextet), NEW x \in Sextet
    PROVE  Bytes(Append(v, x)) = IF Len(v) % 4 = 0 THEN Bytes(v)
                                 ELSE Append(Bytes(v), Completed(v, x))
<1> DEFINE n == Len(v)
           t == Append(v, x)
           k == (3 * n) \div 4
<1>1. n \in Nat /\ t \in Seq(Sextet) /\ Len(t) = n + 1 /\ t = v \o << x >>
      /\ << x >> \in Seq(Sextet)
  OBVIOUS
<1> HIDE DEF t
<1>2. Extends(Byte, Bytes(t), Bytes(v))
  BY <1>1, BytesExtend
<1>3. /\ Bytes(v) \in Seq(Byte) /\ Len(Bytes(v)) = k
      /\ Len(Bytes(t)) = (3 * (n + 1)) \div 4
  BY <1>1, BytesType
<1>4. PICK w \in Seq(Byte) : Bytes(t) = Bytes(v) \o w
  BY <1>2, Zenon DEF Extends
<1>5. /\ Len(w) \in Nat /\ Len(Bytes(v) \o w) = Len(Bytes(v)) + Len(w)
      /\ \A i \in 1..Len(w) : (Bytes(v) \o w)[Len(Bytes(v)) + i] = w[i]
  <2>1. \A a, b \in Seq(Byte) :
          /\ Len(b) \in Nat /\ Len(a \o b) = Len(a) + Len(b)
          /\ \A i \in 1..Len(b) : (a \o b)[Len(a) + i] = b[i]
    OBVIOUS
  <2>2. QED
    BY <1>3, <2>1
<1>6. /\ k \in Nat
      /\ n % 4 = 0 => k + Len(w) = k + 0
      /\ n % 4 # 0 => k + Len(w) = k + 1 /\ n > 0
      /\ n % 4 \in 0..3
      /\ n % 4 = 1 => 4 * k = 3 * (n - 1)
      /\ n % 4 = 2 => 4 * k = 3 * (n - 1) + 1
      /\ n % 4 = 3 => 4 * k = 3 * (n - 1) + 2
  <2>1. k + Len(w) = (3 * (n + 1)) \div 4
    BY <1>3, <1>4, <1>5
  <2>2. k = (3 * n) \div 4
    OBVIOUS
  <2> HIDE DEF k, n
  <2>3. QED
    BY <1>1, <2>1, <2>2, QuarterSteps
<1>7. k + Len(w) = Len(Bytes(t)) /\ \A i \in 1..Len(w) : Bytes(t)[k + i] = w[i]
  BY <1>3, <1>4, <1>5
<1>8. Len(Bytes(t)) = (3 * (n + 1)) \div 4
  BY <1>3
<1>9. Bytes(v) \in Seq(Byte)
  BY <1>3
<1> HIDE DEF k, n
<1>10. CASE n % 4 = 0
  <2>1. Len(w) = 0
    BY <1>5, <1>6, <1>10
  <2>2. w = << >>
    BY <2>1, EmptySeq
  <2>3. Bytes(v) \o << >> = Bytes(v)
    BY <1>9, ConcatEmptySeq
  <2>4. QED
    BY <1>4, <1>10, <2>2, <2>3 DEF t, n
<1>11. CASE n % 4 # 0
  <2>1. Len(w) = 1 /\ n > 0
    <3>1. k \in Nat /\ Len(w) \in Nat /\ k + Len(w) = k + 1 /\ n > 0
      BY <1>5, <1>6, <1>11
    <3>2. \A a, b \in Nat : a + b = a + 1 => b = 1
      OBVIOUS
    <3>3. QED
      BY <3>1, <3>2
  <2>2. k + 1 \in 1..((3 * (n + 1)) \div 4)
    BY <1>6, <1>7, <1>8, <2>1
  <2>3. w = << w[1] >> /\ w[1] = Bytes(t)[k + 1]
    BY <1>7, <2>1
  <2>4. Bytes(t)[k + 1] =
          << ValueCrumb(t, 4 * k),     ValueCrumb(t, 4 * k + 1),
             ValueCrumb(t, 4 * k + 2), ValueCrumb(t, 4 * k + 3) >>
    <3>1. 4 * ((k + 1) - 1) = 4 * k
      BY <1>6
    <3>2. Bytes(t)[k + 1] =
            << ValueCrumb(t, 4 * ((k + 1) - 1)),     ValueCrumb(t, 4 * ((k + 1) - 1) + 1),
               ValueCrumb(t, 4 * ((k + 1) - 1) + 2), ValueCrumb(t, 4 * ((k + 1) - 1) + 3) >>
      BY <1>1, <2>2 DEF Bytes
    <3>3. QED
      BY <3>1, <3>2
  <2>5. /\ ValueCrumb(t, 3 * n + 0) = x[1] /\ ValueCrumb(t, 3 * n + 1) = x[2]
        /\ ValueCrumb(t, 3 * n + 2) = x[3]
        /\ ValueCrumb(t, 3 * (n - 1) + 0) = v[n][1]
        /\ ValueCrumb(t, 3 * (n - 1) + 1) = v[n][2]
        /\ ValueCrumb(t, 3 * (n - 1) + 2) = v[n][3]
    <3>1. 0 \in 0..2 /\ 1 \in 0..2 /\ 2 \in 0..2 /\ 0 + 1 = 1 /\ 1 + 1 = 2 /\ 2 + 1 = 3
      OBVIOUS
    <3>2. QED
      BY <2>1, <3>1, CrumbsOfLast DEF t, n
  <2>6. ASSUME n % 4 = 1 PROVE Bytes(t)[k + 1] = Completed(v, x)
    <3>1. /\ 4 * k = 3 * (n - 1) + 0 /\ 4 * k + 1 = 3 * (n - 1) + 1
          /\ 4 * k + 2 = 3 * (n - 1) + 2 /\ 4 * k + 3 = 3 * n + 0
      BY <1>1, <1>6, <2>6
    <3>2. QED
      BY <2>4, <2>5, <2>6, <3>1 DEF Completed, n
  <2>7. ASSUME n % 4 = 2 PROVE Bytes(t)[k + 1] = Completed(v, x)
    <3>1. /\ 4 * k = 3 * (n - 1) + 1 /\ 4 * k + 1 = 3 * (n - 1) + 2
          /\ 4 * k + 2 = 3 * n + 0 /\ 4 * k + 3 = 3 * n + 1
      BY <1>1, <1>6, <2>7
    <3>2. QED
      BY <2>4, <2>5, <2>7, <3>1 DEF Completed, n
  <2>8. ASSUME n % 4 = 3 PROVE Bytes(t)[k + 1] = Completed(v, x)
    <3>1. /\ 4 * k = 3 * (n - 1) + 2 /\ 4 * k + 1 = 3 * n + 0
          /\ 4 * k + 2 = 3 * n + 1 /\ 4 * k + 3 = 3 * n + 2
      BY <1>1, <1>6, <2>8
    <3>2. QED
      BY <2>4, <2>5, <2>8, <3>1 DEF Completed, n
  <2>9. w[1] = Completed(v, x)
    BY <1>6, <1>11, <2>3, <2>6, <2>7, <2>8
  <2>10. Bytes(v) \o << w[1] >> = Append(Bytes(v), w[1])
    <3>1. \A i \in 1..Len(w) : w[i] \in Byte
      OBVIOUS
    <3>2. w[1] \in Byte
      BY <2>1, <3>1, 1 \in 1..1
    <3>3. QED
      BY <1>9, <3>2
  <2>11. Bytes(t) = Append(Bytes(v), Completed(v, x))
    BY <1>4, <2>3, <2>9, <2>10, Zenon
  <2>12. QED
    BY <1>11, <2>11 DEF t, n
<1>12. QED
  BY <1>10, <1>11

(* The position in a group is not changed by whole groups before it.       *)
LEMMA AfterWholeGroups ==
    ASSUME NEW a \in Nat, NEW b \in Nat, a % 4 = 0
    PROVE  (a + b) % 4 = b % 4
<1>1. a = 4 * (a \div 4) /\ a \div 4 \in Nat
  OBVIOUS
<1>2. PICK q \in Nat : a = 4 * q
  BY <1>1
<1>3. QED
  BY <1>2

(* Behind whole groups of four, 6-bit values make bytes of their own.      *)
LEMMA BytesJoin ==
    ASSUME NEW v \in Seq(Sextet), NEW u \in Seq(Sextet), Len(v) % 4 = 0
    PROVE  Bytes(v \o u) = Bytes(v) \o Bytes(u)
<1> DEFINE P == {r \in Seq(Sextet) : Bytes(v \o r) = Bytes(v) \o Bytes(r)}
<1>1. << >> \in P
  <2>1. << >> \in Seq(Sextet) /\ v \o << >> = v
    BY ConcatEmptySeq
  <2>2. Bytes(<< >>) \in Seq(Byte) /\ Len(Bytes(<< >>)) = 0
    <3>1. Len(<< >>) = 0 /\ (3 * 0) \div 4 = 0
      OBVIOUS
    <3>2. QED
      BY <2>1, <3>1, BytesType
  <2>3. Bytes(<< >>) = << >>
    BY <2>2, EmptySeq
  <2>4. Bytes(v) \o << >> = Bytes(v)
    BY BytesType, ConcatEmptySeq
  <2>5. QED
    BY <2>1, <2>3, <2>4
<1>2. ASSUME NEW r \in P, NEW e \in Sextet PROVE Append(r, e) \in P
  <2>1. r \in Seq(Sextet) /\ Bytes(v \o r) = Bytes(v) \o Bytes(r)
        /\ Append(r, e) \in Seq(Sextet)
    OBVIOUS
  <2>2. v \o r \in Seq(Sextet) /\ Len(v \o r) = Len(v) + Len(r)
        /\ Len(v) \in Nat /\ Len(r) \in Nat
    BY <2>1
  <2>3. v \o Append(r, e) = Append(v \o r, e)
    BY <2>1, AppendConcat
  <2>4. Len(v \o r) % 4 = Len(r) % 4
    BY <2>2, AfterWholeGroups
  <2>5. Bytes(Append(v \o r, e)) = IF Len(r) % 4 = 0 THEN Bytes(v \o r)
                                   ELSE Append(Bytes(v \o r), Completed(v \o r, e))
    BY <2>2, <2>4, BytesAppend
  <2>6. Bytes(Append(r, e)) = IF Len(r) % 4 = 0 THEN Bytes(r)
                              ELSE Append(Bytes(r), Completed(r, e))
    BY <2>1, BytesAppend
  <2>7. CASE Len(r) % 4 = 0
    BY <2>1, <2>3, <2>5, <2>6, <2>7
  <2>8. CASE Len(r) % 4 # 0
    <3>1. Len(r) # 0
      BY <2>8, 0 % 4 = 0
    <3>a. Len(r) \in 1..Len(r)
      BY <2>2, <3>1
    <3>b. \A a, b \in Seq(Sextet) : \A i \in 1..Len(b) : (a \o b)[Len(a) + i] = b[i]
      OBVIOUS
    <3>2. (v \o r)[Len(v \o r)] = r[Len(r)]
      BY <2>1, <2>2, <3>a, <3>b
    <3>3. Completed(v \o r, e) = Completed(r, e)
      BY <2>4, <3>2 DEF Completed
    <3>4. Bytes(v) \in Seq(Byte) /\ Bytes(r) \in Seq(Byte)
          /\ Bytes(Append(r, e)) \in Seq(Byte)
          /\ Len(Bytes(Append(r, e))) = Len(Bytes(r)) + 1
      <4>1. /\ Bytes(v) \in Seq(Byte) /\ Bytes(r) \in Seq(Byte)
            /\ Bytes(Append(r, e)) \in Seq(Byte)
            /\ Len(Bytes(r)) = (3 * Len(r)) \div 4
            /\ Len(Bytes(Append(r, e))) = (3 * Len(Append(r, e))) \div 4
        BY <2>1, BytesType
      <4>2. Len(Append(r, e)) = Len(r) + 1
        BY <2>1
      <4>3. Len(Bytes(Append(r, e))) = (3 * (Len(r) + 1)) \div 4
        BY <4>1, <4>2
      <4>4. (3 * (Len(r) + 1)) \div 4 = (3 * Len(r)) \div 4 + 1
        BY <2>2, <2>8, QuarterNext, Zenon
      <4>5. Len(Bytes(Append(r, e))) = Len(Bytes(r)) + 1
        BY <4>1, <4>3, <4>4, Zenon
      <4>6. QED
        BY <4>1, <4>5
    <3> DEFINE c == Completed(r, e)
    <3>5. Bytes(Append(r, e)) = Append(Bytes(r), c)
      BY <2>6, <2>8
    <3>6. Bytes(Append(v \o r, e)) = Append(Bytes(v) \o Bytes(r), c)
      BY <2>1, <2>5, <2>8, <3>3
    <3>7. c \in Byte
      <4> HIDE DEF c
      <4> DEFINE a == Bytes(r)
                 b == Bytes(Append(r, e))
      <4>1. a \in Seq(Byte) /\ b \in Seq(Byte) /\ b = Append(a, c)
        BY <3>4, <3>5
      <4> HIDE DEF a, b
      <4>2. Len(a) + 1 \in 1..Len(b) /\ b[Len(a) + 1] = c
        BY <4>1
      <4>3. QED
        BY <4>1, <4>2
    <3> HIDE DEF c
    <3>8. Bytes(v) \o Append(Bytes(r), c) = Append(Bytes(v) \o Bytes(r), c)
      BY <3>4, <3>7, AppendConcat
    <3>9. Bytes(v \o Append(r, e)) = Bytes(v) \o Bytes(Append(r, e))
      BY <2>3, <3>5, <3>6, <3>8, Zenon
    <3>10. QED
      BY <2>1, <3>9
  <2>9. QED
    BY <2>7, <2>8
<1> HIDE DEF P
<1>3. P = Seq(Sextet)
  <2>1. P \in SUBSET Seq(Sextet)
    BY DEF P
  <2>2. QED
    BY <1>1, <1>2, <2>1, SeqInduction
<1>4. QED
  BY <1>3 DEF P

(* The 6-bit values of a text: one character more ...                      *)
LEMMA ValuesNext ==
    ASSUME NEW t \in Seq(Char), NEW p \in 0..(Len(t) - 1)
    PROVE  /\ t[p + 1] \in Char
           /\ Values(t, p + 1) = IF t[p + 1] \in Sextet
                                 THEN Append(Values(t, p), t[p + 1])
                                 ELSE Values(t, p)
<1>1. p + 1 \in 1..Len(t) /\ t[p + 1] \in Char /\ p \in 0..Len(t)
  OBVIOUS
<1>2. SubSeq(t, 1, p) \in Seq(Char) /\ Len(SubSeq(t, 1, p)) = p
  BY <1>1
<1>3. SubSeq(t, 1, p + 1) = Append(SubSeq(t, 1, p), t[p + 1])
  BY <1>1
<1>4. Among(Sextet, Append(SubSeq(t, 1, p), t[p + 1])) =
        IF t[p + 1] \in Sextet THEN Append(Among(Sextet, SubSeq(t, 1, p)), t[p + 1])
        ELSE Among(Sextet, SubSeq(t, 1, p))
  <2> DEFINE s == SubSeq(t, 1, p)
             e == t[p + 1]
  <2>1. s \in Seq(Char) /\ e \in Char
    BY <1>1, <1>2
  <2> HIDE DEF s, e
  <2>2. Among(Sextet, Append(s, e)) =
          IF e \in Sextet THEN Append(Among(Sextet, s), e) ELSE Among(Sextet, s)
    BY <2>1, AmongAppend
  <2>3. QED
    BY <2>2 DEF s, e
<1>5. QED
  BY <1>1, <1>3, <1>4, Zenon DEF Values

(* The values among the first p characters of a text are sextets.          *)
LEMMA ValuesType ==
    ASSUME NEW t \in Seq(Char), NEW p \in 0..Len(t)
    PROVE  Values(t, p) \in Seq(Sextet)
<1>1. SubSeq(t, 1, p) \in Seq(Char)
  OBVIOUS
<1>2. Sextet \cap Char = Sextet
  BY DEF Char
<1>3. QED
  BY <1>1, <1>2, AmongType DEF Values

(* ... and a run of values.                                                *)
LEMMA ValuesRun ==
    ASSUME NEW t \in Seq(Char), NEW p \in 0..Len(t), NEW n \in 0..(Len(t) - p),
           \A i \in (p + 1)..(p + n) : t[i] \in Sextet
    PROVE  /\ SubSeq(t, p + 1, p + n) \in Seq(Sextet)
           /\ Len(SubSeq(t, p + 1, p + n)) = n
           /\ \A i \in 1..n : SubSeq(t, p + 1, p + n)[i] = t[p + i]
           /\ Values(t, p + n) = Values(t, p) \o SubSeq(t, p + 1, p + n)
<1> DEFINE r == SubSeq(t, p + 1, p + n)
<1>1. p + n \in p..Len(t) /\ p + n \in 0..Len(t) /\ p \in Nat /\ n \in Nat
      /\ Len(t) \in Nat
  OBVIOUS
<1>2. r \in Seq(Sextet) /\ Len(r) = n /\ \A i \in 1..n : r[i] = t[p + i]
  <2>1. Len(r) = n /\ \A i \in 1..n : r[i] = t[p + i]
    <3>1. Len(r) = IF p <= p + n THEN (p + n) - p ELSE 0
      BY <1>1, PieceType
    <3>2. \A i \in 1..Len(r) : r[i] = t[(p + 1) + i - 1]
      BY <1>1
    <3> HIDE DEF r
    <3>3. \A i \in 1..n : (p + 1) + i - 1 = p + i
      BY <1>1
    <3>4. Len(r) = n
      BY <1>1, <3>1
    <3>5. QED
      BY <3>2, <3>3, <3>4
  <2>2. \A i \in 1..n : p + i \in (p + 1)..(p + n)
    BY <1>1
  <2>3. r \in Seq(Char)
    BY <1>1, PieceType
  <2> HIDE DEF r
  <2>4. \A i \in 1..n : r[i] \in Sextet
    BY <2>1, <2>2
  <2>5. QED
    BY <2>1, <2>3, <2>4
<1>3. SubSeq(t, 1, p) \o r = SubSeq(t, 1, p + n)
  BY <1>1, PiecesJoin
<1>4. SubSeq(t, 1, p) \in Seq(Char) /\ r \in Seq(Char)
  <2>1. SubSeq(t, 1, p) \in Seq(Char)
    BY <1>1
  <2>2. r \in Seq(Char)
    BY <1>1, PieceType
  <2>3. QED
    BY <2>1, <2>2
<1> HIDE DEF r
<1>5. Among(Sextet, SubSeq(t, 1, p) \o r) = Among(Sextet, SubSeq(t, 1, p)) \o Among(Sextet, r)
  BY <1>4, AmongConcat
<1>6. Among(Sextet, r) = r
  BY <1>2, AmongAll
<1>7. QED
  BY <1>2, <1>3, <1>5, <1>6 DEF Values, r

=============================================================================
