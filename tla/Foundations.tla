---------------------------- MODULE Foundations ----------------------------
(***************************************************************************)
(* What the proofs of several components rest on: induction over numbers,  *)
(* stated for sets; the functions on 0 .. n that the specifications define *)
(* by recursion; sequences.                                                *)
(***************************************************************************)
EXTENDS Integers, Sequences, FiniteSets, SequencesExt, WellFoundedInduction,
        SequenceTheorems, FiniteSetTheorems, TLAPS

\* A set of numbers has a least one.
LEMMA LeastNat ==
  ASSUME NEW T, T \subseteq Nat, T # {}
  PROVE  \E n \in T : \A m \in T : n <= m
<1> DEFINE R == {ss \in Nat \X Nat : ss[1] < ss[2]}
<1>1. IsWellFoundedOn(R, Nat)
  BY NatLessThanWellFounded, Zenon DEF OpToRel
<1> HIDE DEF R
<1>2. \E x \in T : \A y \in T : <<y, x>> \notin R
  BY <1>1, WFMin
<1>3. PICK n \in T : \A m \in T : <<m, n>> \notin R
  BY <1>2
<1>4. ASSUME NEW m \in T PROVE n <= m
  <2>1. <<m, n>> \notin R /\ m \in Nat /\ n \in Nat
    BY <1>3
  <2>2. ~(m < n)
    BY <2>1 DEF R
  <2> QED
    BY <2>1, <2>2
<1> QED
  BY <1>4

\* A set of numbers up to n has a greatest one.
LEMMA GreatestNat ==
  ASSUME NEW n \in Nat, NEW T, T \subseteq 0 .. n, T # {}
  PROVE  \E m \in T : \A k \in T : k <= m
<1> DEFINE U == {k \in Nat : k <= n /\ n - k \in T}
<1>1. U \subseteq Nat /\ U # {}
  <2>1. PICK k \in T : TRUE
    OBVIOUS
  <2>2. n - k \in Nat /\ n - (n - k) = k /\ n - k <= n
    BY <2>1
  <2>3. n - k \in U
    BY <2>2
  <2> QED
    BY <2>3
<1>2. PICK k \in U : \A m \in U : k <= m
  BY <1>1, LeastNat
<1>3. n - k \in T /\ k \in Nat
  BY <1>2
<1>4. ASSUME NEW j \in T PROVE j <= n - k
  <2>1. j \in 0 .. n /\ n - j \in Nat /\ n - (n - j) = j /\ n - j <= n
    OBVIOUS
  <2>2. n - j \in U
    BY <2>1
  <2>3. k <= n - j
    BY <1>2, <2>2
  <2> QED
    BY <1>3, <2>1, <2>3
<1> QED
  BY <1>3, <1>4

\* Induction, for a set of numbers.
LEMMA SetInduction ==
  ASSUME NEW T, 0 \in T, \A n \in Nat : n \in T => n + 1 \in T
  PROVE  Nat \subseteq T
<1> SUFFICES ASSUME Nat \ T # {} PROVE FALSE
  OBVIOUS
<1>1. PICK n \in Nat \ T : \A m \in Nat \ T : n <= m
  BY LeastNat
<1>2. n # 0 /\ n - 1 \in Nat
  BY <1>1
<1> QED
  BY <1>1, <1>2

\* Induction up to n.
LEMMA UpToInduction ==
  ASSUME NEW n \in Nat, NEW T, 0 \in T, \A i \in 1 .. n : i - 1 \in T => i \in T
  PROVE  0 .. n \subseteq T
<1> DEFINE U == {k \in Nat : k <= n => k \in T}
<1>1. 0 \in U
  OBVIOUS
<1>2. ASSUME NEW k \in Nat, k \in U PROVE k + 1 \in U
  <2> SUFFICES ASSUME k + 1 <= n PROVE k + 1 \in T
    OBVIOUS
  <2>1. k \in T /\ k + 1 \in 1 .. n /\ (k + 1) - 1 = k
    BY <1>2
  <2> QED
    BY <2>1
<1> HIDE DEF U
<1>3. Nat \subseteq U
  BY <1>1, <1>2, SetInduction
<1> QED
  BY <1>3 DEF U

\* f is the function that starts with a and goes on with g.
Iterates(n, a, g, f) == f = [i \in 0 .. n |-> IF i = 0 THEN a ELSE g[i][f[i - 1]]]

\* There is one.
LEMMA Iteration ==
  ASSUME NEW n \in Nat, NEW T, NEW a \in T, NEW g,
         \A i \in 1 .. n : \A t \in T : g[i][t] \in T
  PROVE  \E f \in [0 .. n -> T] : Iterates(n, a, g, f)
<1> DEFINE U == {m \in 0 .. n : \E f \in [0 .. m -> T] : Iterates(m, a, g, f)}
<1>1. 0 \in U
  <2> DEFINE f == [i \in 0 .. 0 |-> a]
  <2>1. f \in [0 .. 0 -> T] /\ Iterates(0, a, g, f)
    BY DEF Iterates
  <2> QED
    BY <2>1
<1>2. ASSUME NEW m \in 1 .. n, m - 1 \in U PROVE m \in U
  <2>1. m \in 0 .. n /\ m - 1 \in 0 .. m - 1 /\ m \in Nat
    OBVIOUS
  <2>2. PICK f \in [0 .. m - 1 -> T] : Iterates(m - 1, a, g, f)
    BY <1>2
  <2>3. \A i \in 0 .. m - 1 : f[i] = IF i = 0 THEN a ELSE g[i][f[i - 1]]
    BY <2>2 DEF Iterates
  <2> DEFINE h == [i \in 0 .. m |-> IF i = m THEN g[m][f[m - 1]] ELSE f[i]]
  <2>4. h \in [0 .. m -> T]
    <3>1. g[m][f[m - 1]] \in T
      BY <2>1, <2>2
    <3>2. ASSUME NEW i \in 0 .. m PROVE (IF i = m THEN g[m][f[m - 1]] ELSE f[i]) \in T
      <4>1. i # m => i \in 0 .. m - 1
        BY <2>1
      <4> QED
        BY <2>2, <3>1, <4>1
    <3> QED
      BY <3>2
  <2>5. ASSUME NEW i \in 0 .. m PROVE h[i] = IF i = 0 THEN a ELSE g[i][h[i - 1]]
    <3>1. CASE i = m
      <4>1. m - 1 \in 0 .. m /\ m - 1 # m /\ m # 0
        BY <2>1
      <4>2. h[m - 1] = f[m - 1] /\ h[m] = g[m][f[m - 1]]
        BY <2>1, <4>1
      <4> QED
        BY <3>1, <4>1, <4>2
    <3>2. CASE i # m
      <4>1. i \in 0 .. m - 1 /\ (i # 0 => i - 1 \in 0 .. m /\ i - 1 # m)
        BY <2>1, <3>2
      <4>2. h[i] = f[i] /\ (i # 0 => h[i - 1] = f[i - 1])
        BY <2>1, <3>2, <4>1
      <4> QED
        BY <2>3, <4>1, <4>2
    <3> QED
      BY <3>1, <3>2
  <2> HIDE DEF h
  <2>6. Iterates(m, a, g, h)
    <3>1. DOMAIN h = 0 .. m /\ h = [i \in DOMAIN h |-> h[i]]
      BY <2>4
    <3> QED
      BY <2>5, <3>1 DEF Iterates
  <2> QED
    BY <2>1, <2>4, <2>6
<1> HIDE DEF U
<1>3. n \in U
  BY <1>1, <1>2, UpToInduction
<1> QED
  BY <1>3 DEF U

-----------------------------------------------------------------------------
(* Sequences. *)

\* Functions of a sequence.
LEMMA RangeFacts ==
  ASSUME NEW A, NEW s \in Seq(A)
  PROVE  /\ Range(s) \subseteq A
         /\ \A i \in 1 .. Len(s) : s[i] \in A
         /\ \A i \in 1 .. Len(s) : s[i] \in Range(s)
         /\ \A x \in Range(s) : \E i \in 1 .. Len(s) : s[i] = x
  BY LenProperties DEF Range

\* A function on 1 .. n is a sequence.
LEMMA FunctionSeq ==
  ASSUME NEW A, NEW n \in Nat, NEW s \in [1 .. n -> A]
  PROVE  s \in Seq(A) /\ Len(s) = n
<1>1. s \in Seq(A)
  BY SeqDef
<1>2. Len(s) \in Nat /\ 1 .. n = 1 .. Len(s)
  BY <1>1, LenProperties
<1>3. n = Len(s)
  <2>1. n \in 1 .. n <=> n \in 1 .. Len(s)
    BY <1>2
  <2>2. Len(s) \in 1 .. n <=> Len(s) \in 1 .. Len(s)
    BY <1>2
  <2> QED
    BY <1>2, <2>1, <2>2
<1> QED
  BY <1>1, <1>3

\* A part of a sequence.
LEMMA PartFacts ==
  ASSUME NEW A, NEW s \in Seq(A), NEW i, i \in 1 .. Len(s) + 1, NEW j, j \in i - 1 .. Len(s)
  PROVE  /\ SubSeq(s, i, j) \in Seq(A) /\ Len(SubSeq(s, i, j)) = j - i + 1
         /\ \A k \in 1 .. j - i + 1 : SubSeq(s, i, j)[k] = s[i + k - 1]
<1>1. Len(s) \in Nat /\ i \in Int /\ j \in Int
  BY LenProperties
<1>2. \A k \in i .. j : s[k] \in A
  <2>1. \A k \in i .. j : k \in 1 .. Len(s)
    BY <1>1
  <2> QED
    BY <2>1, RangeFacts
<1>3. /\ SubSeq(s, i, j) \in Seq(A)
      /\ Len(SubSeq(s, i, j)) = IF i <= j THEN j - i + 1 ELSE 0
      /\ \A k \in 1 .. j - i + 1 : SubSeq(s, i, j)[k] = s[i + k - 1]
  BY <1>1, <1>2, SubSeqProperties
<1> QED
  BY <1>1, <1>3

\* A sequence backwards.
LEMMA ReverseFacts ==
  ASSUME NEW A, NEW s \in Seq(A)
  PROVE  /\ Reverse(s) \in Seq(A) /\ Len(Reverse(s)) = Len(s)
         /\ \A i \in 1 .. Len(s) : Reverse(s)[i] = s[Len(s) - i + 1]
<1> PICK n : n = Len(s)
  OBVIOUS
<1> PICK r : r = Reverse(s)
  OBVIOUS
<1>1. n \in Nat /\ r = [i \in 1 .. n |-> s[n - i + 1]]
  BY LenProperties DEF Reverse
<1>2. \A i \in 1 .. n : s[n - i + 1] \in A
  <2>1. \A i \in 1 .. n : n - i + 1 \in 1 .. n
    BY <1>1
  <2> QED
    BY <2>1, RangeFacts
<1>3. r \in [1 .. n -> A] /\ \A i \in 1 .. n : r[i] = s[n - i + 1]
  BY <1>1, <1>2
<1>4. r \in Seq(A) /\ Len(r) = n
  BY <1>1, <1>3, FunctionSeq
<1> QED
  BY <1>3, <1>4

\* The end of a sequence from i on, backwards.
LEMMA EndFacts ==
  ASSUME NEW A, NEW s \in Seq(A), NEW i \in 1 .. Len(s)
  PROVE  LET p == Reverse(SubSeq(s, i, Len(s)))
             n == Len(s) - i + 1
         IN  /\ p \in Seq(A) /\ Len(p) = n /\ n \in Nat /\ n > 0
             /\ \A k \in 1 .. n : Len(s) - k + 1 \in i .. Len(s) /\ p[k] = s[Len(s) - k + 1]
<1> PICK t : t = SubSeq(s, i, Len(s))
  OBVIOUS
<1> PICK n : n = Len(s) - i + 1
  OBVIOUS
<1>1. /\ Len(s) \in Nat /\ i \in Nat /\ n \in Nat /\ n > 0 /\ n = Len(s) - i + 1
      /\ i \in 1 .. Len(s) + 1 /\ Len(s) \in i - 1 .. Len(s)
  BY LenProperties
<1>2. /\ t \in Seq(A) /\ Len(t) = n
      /\ \A k \in 1 .. n : t[k] = s[i + k - 1]
  BY <1>1, PartFacts
<1>3. /\ Reverse(t) \in Seq(A) /\ Len(Reverse(t)) = n
      /\ \A k \in 1 .. n : Reverse(t)[k] = t[n - k + 1]
  <2>1. t \in Seq(A)
    BY <1>2
  <2>2. /\ Reverse(t) \in Seq(A) /\ Len(Reverse(t)) = Len(t)
        /\ \A k \in 1 .. Len(t) : Reverse(t)[k] = t[Len(t) - k + 1]
    BY ONLY <2>1, ReverseFacts
  <2> QED
    BY <1>2, <2>2
<1>4. ASSUME NEW k \in 1 .. n
      PROVE  Len(s) - k + 1 \in i .. Len(s) /\ Reverse(t)[k] = s[Len(s) - k + 1]
  <2>1. n - k + 1 \in 1 .. n /\ i + (n - k + 1) - 1 = Len(s) - k + 1 /\ Len(s) - k + 1 \in i .. Len(s)
    BY <1>1
  <2> QED
    BY <1>2, <1>3, <2>1
<1> QED
  BY <1>1, <1>3, <1>4

\* No member comes twice.
Distinct(s) == \A i, j \in 1 .. Len(s) : s[i] = s[j] => i = j

\* One more at the end.
LEMMA AppendedFacts ==
  ASSUME NEW A, NEW s \in Seq(A), NEW e \in A
  PROVE  /\ Append(s, e) \in Seq(A)
         /\ \A x : x \in Range(Append(s, e)) <=> x \in Range(s) \/ x = e
         /\ Distinct(s) /\ e \notin Range(s) => Distinct(Append(s, e))
         /\ Len(Append(s, e)) = Len(s) + 1
         /\ \A i \in 1 .. Len(s) : Append(s, e)[i] = s[i]
         /\ Append(s, e)[Len(s) + 1] = e
<1> PICK n, t : n = Len(s) /\ t = Append(s, e)
  OBVIOUS
<1>1. /\ t \in Seq(A) /\ Len(t) = n + 1 /\ n \in Nat
      /\ \A i \in 1 .. n : t[i] = s[i]
      /\ t[n + 1] = e
  BY AppendProperties, LenProperties
<1>2. \A i \in 1 .. n + 1 : i \in 1 .. n \/ i = n + 1
  BY <1>1
<1>3. /\ \A i \in 1 .. n : s[i] \in Range(s)
      /\ \A x \in Range(s) : \E i \in 1 .. n : s[i] = x
  BY RangeFacts
<1>4. /\ \A i \in 1 .. n + 1 : t[i] \in Range(t)
      /\ \A x \in Range(t) : \E i \in 1 .. n + 1 : t[i] = x
  <2>1. t \in Seq(A)
    BY <1>1
  <2>2. /\ \A i \in 1 .. Len(t) : t[i] \in Range(t)
        /\ \A x \in Range(t) : \E i \in 1 .. Len(t) : t[i] = x
    BY ONLY <2>1, RangeFacts
  <2> QED
    BY <1>1, <2>2
<1>5. \A i \in 1 .. n : i \in 1 .. n + 1
  BY <1>1
<1>6. n + 1 \in 1 .. n + 1
  BY <1>1
<1>7. ASSUME NEW x PROVE x \in Range(t) <=> x \in Range(s) \/ x = e
  BY <1>1, <1>2, <1>3, <1>4, <1>5, <1>6
<1>8. ASSUME Distinct(s), e \notin Range(s) PROVE Distinct(t)
  <2> SUFFICES ASSUME NEW i \in 1 .. n + 1, NEW j \in 1 .. n + 1, t[i] = t[j] PROVE i = j
    BY <1>1 DEF Distinct
  <2> QED
    BY <1>1, <1>2, <1>3, <1>8 DEF Distinct
<1> QED
  BY <1>1, <1>7, <1>8

\* Two sequences, one behind the other.
LEMMA JoinedFacts ==
  ASSUME NEW A, NEW s \in Seq(A), NEW t \in Seq(A)
  PROVE  /\ s \o t \in Seq(A)
         /\ Len(s \o t) = Len(s) + Len(t)
         /\ \A i \in 1 .. Len(s) : (s \o t)[i] = s[i]
         /\ \A i \in Len(s) + 1 .. Len(s) + Len(t) :
              i - Len(s) \in 1 .. Len(t) /\ (s \o t)[i] = t[i - Len(s)]
         /\ \A x : x \in Range(s \o t) <=> x \in Range(s) \/ x \in Range(t)
         /\ Distinct(s) /\ Distinct(t) /\ Range(s) \cap Range(t) = {} => Distinct(s \o t)
<1> PICK m, n, u : m = Len(s) /\ n = Len(t) /\ u = s \o t
  OBVIOUS
<1>1. m \in Nat /\ n \in Nat
  BY LenProperties
<1>2. /\ u \in Seq(A) /\ Len(u) = m + n
      /\ \A i \in 1 .. m + n : u[i] = IF i <= m THEN s[i] ELSE t[i - m]
  BY ConcatProperties
<1>3. \A i \in 1 .. m : i \in 1 .. m + n /\ u[i] = s[i]
  BY <1>1, <1>2
<1>4. \A i \in m + 1 .. m + n : i \in 1 .. m + n /\ i - m \in 1 .. n /\ u[i] = t[i - m]
  BY <1>1, <1>2
<1>5. \A i \in 1 .. m + n : i \in 1 .. m \/ i \in m + 1 .. m + n
  BY <1>1
<1>6. /\ \A i \in 1 .. m : s[i] \in Range(s)
      /\ \A x \in Range(s) : \E i \in 1 .. m : s[i] = x
  BY RangeFacts
<1>7. /\ \A i \in 1 .. n : t[i] \in Range(t)
      /\ \A x \in Range(t) : \E i \in 1 .. n : t[i] = x
  BY RangeFacts
<1>8. /\ \A i \in 1 .. m + n : u[i] \in Range(u)
      /\ \A x \in Range(u) : \E i \in 1 .. m + n : u[i] = x
  <2>1. u \in Seq(A)
    BY <1>2
  <2>2. /\ \A i \in 1 .. Len(u) : u[i] \in Range(u)
        /\ \A x \in Range(u) : \E i \in 1 .. Len(u) : u[i] = x
    BY ONLY <2>1, RangeFacts
  <2> QED
    BY <1>2, <2>2
<1>9. ASSUME NEW x PROVE x \in Range(u) <=> x \in Range(s) \/ x \in Range(t)
  <2>1. x \in Range(s) => x \in Range(u)
    BY <1>3, <1>6, <1>8
  <2>2. ASSUME x \in Range(t) PROVE x \in Range(u)
    <3>1. PICK i \in 1 .. n : t[i] = x
      BY <1>7, <2>2
    <3>2. m + i \in m + 1 .. m + n /\ m + i - m = i
      BY <1>1
    <3> QED
      BY <1>4, <1>8, <3>1, <3>2
  <2>3. ASSUME x \in Range(u) PROVE x \in Range(s) \/ x \in Range(t)
    <3>1. PICK i \in 1 .. m + n : u[i] = x
      BY <1>8, <2>3
    <3>2. i \in 1 .. m => x \in Range(s)
      BY <1>3, <1>6, <3>1
    <3>3. i \in m + 1 .. m + n => x \in Range(t)
      BY <1>4, <1>7, <3>1
    <3> QED
      BY <1>5, <3>2, <3>3
  <2> QED
    BY <2>1, <2>2, <2>3
<1>10. ASSUME Distinct(s), Distinct(t), Range(s) \cap Range(t) = {} PROVE Distinct(u)
  <2> SUFFICES ASSUME NEW i \in 1 .. m + n, NEW j \in 1 .. m + n, u[i] = u[j] PROVE i = j
    BY <1>2 DEF Distinct
  <2>1. CASE i \in 1 .. m /\ j \in 1 .. m
    BY <1>3, <1>10, <2>1 DEF Distinct
  <2>2. CASE i \in m + 1 .. m + n /\ j \in m + 1 .. m + n
    <3>1. i - m = j - m
      BY <1>4, <1>10, <2>2 DEF Distinct
    <3> QED
      BY <1>1, <2>2, <3>1
  <2>3. CASE i \in 1 .. m /\ j \in m + 1 .. m + n
    BY <1>3, <1>4, <1>6, <1>7, <1>10, <2>3
  <2>4. CASE i \in m + 1 .. m + n /\ j \in 1 .. m
    BY <1>3, <1>4, <1>6, <1>7, <1>10, <2>4
  <2> QED
    BY <1>5, <2>1, <2>2, <2>3, <2>4
<1> QED
  BY <1>2, <1>3, <1>4, <1>9, <1>10

\* The empty sequence.
LEMMA EmptyFacts ==
  ASSUME NEW A
  PROVE  <<>> \in Seq(A) /\ Len(<<>>) = 0 /\ Range(<<>>) = {} /\ Distinct(<<>>)
<1>1. <<>> \in Seq(A) /\ Len(<<>>) = 0
  BY EmptySeq
<1>2. 1 .. Len(<<>>) = {}
  BY <1>1
<1> QED
  BY <1>1, <1>2, RangeFacts DEF Distinct

\* A sequence without repetition is as long as its range.
LEMMA DistinctLength ==
  ASSUME NEW A, IsFiniteSet(A), NEW s \in Seq(A), Distinct(s), \A x \in A : x \in Range(s)
  PROVE  Len(s) = Cardinality(A)
<1> PICK n : n = Len(s)
  OBVIOUS
<1>1. n \in Nat /\ s \in [1 .. n -> A]
  BY LenProperties
<1>2. \A x \in A : \E i \in 1 .. n : s[i] = x
  BY RangeFacts
<1>3. ExistsBijection(1 .. n, A)
  BY <1>1, <1>2 DEF Distinct, ExistsBijection, Bijection, Injection, Surjection, IsInjective
<1>4. Cardinality(A) = n
  BY <1>1, <1>3, FS_CountingElements, FS_NatBijection, FS_CardinalityType
<1> QED
  BY <1>4

\* A sequence of one.
LEMMA SingleFacts ==
  ASSUME NEW A, NEW e \in A
  PROVE  <<e>> \in Seq(A) /\ Len(<<e>>) = 1 /\ Distinct(<<e>>) /\ \A x : x \in Range(<<e>>) <=> x = e
<1> PICK s : s = <<e>>
  OBVIOUS
<1>1. s \in Seq(A) /\ Len(s) = 1 /\ s[1] = e
  OBVIOUS
<1>2. \A i \in 1 .. Len(s) : i = 1
  BY <1>1
<1>3. Distinct(s)
  BY <1>2 DEF Distinct
<1>4. \A x : x \in Range(s) <=> x = e
  <2>1. /\ \A i \in 1 .. Len(s) : s[i] \in Range(s)
        /\ \A x \in Range(s) : \E i \in 1 .. Len(s) : s[i] = x
    BY ONLY <1>1, RangeFacts
  <2>2. 1 \in 1 .. Len(s)
    BY <1>1
  <2> QED
    BY <1>1, <1>2, <2>1, <2>2
<1> QED
  BY <1>1, <1>3, <1>4

\* One more in front.
LEMMA PrependedFacts ==
  ASSUME NEW A, NEW s \in Seq(A), NEW e \in A
  PROVE  /\ <<e>> \o s \in Seq(A)
         /\ Len(<<e>> \o s) = Len(s) + 1
         /\ (<<e>> \o s)[1] = e
         /\ \A i \in 1 .. Len(s) : (<<e>> \o s)[i + 1] = s[i]
         /\ \A x : x \in Range(<<e>> \o s) <=> x = e \/ x \in Range(s)
         /\ Distinct(s) /\ e \notin Range(s) => Distinct(<<e>> \o s)
<1> PICK h, n : h = <<e>> /\ n = Len(s)
  OBVIOUS
<1>1. h \in Seq(A) /\ Len(h) = 1 /\ Distinct(h) /\ h[1] = e /\ \A x : x \in Range(h) <=> x = e
  BY SingleFacts
<1>2. n \in Nat
  BY LenProperties
<1>3. /\ h \o s \in Seq(A) /\ Len(h \o s) = 1 + n
      /\ \A i \in 1 .. 1 : (h \o s)[i] = h[i]
      /\ \A i \in 1 + 1 .. 1 + n : (h \o s)[i] = s[i - 1]
      /\ \A x : x \in Range(h \o s) <=> x \in Range(h) \/ x \in Range(s)
      /\ Distinct(h) /\ Distinct(s) /\ Range(h) \cap Range(s) = {} => Distinct(h \o s)
  <2>1. h \in Seq(A) /\ s \in Seq(A)
    BY <1>1
  <2>2. /\ h \o s \in Seq(A) /\ Len(h \o s) = Len(h) + Len(s)
        /\ \A i \in 1 .. Len(h) : (h \o s)[i] = h[i]
        /\ \A i \in Len(h) + 1 .. Len(h) + Len(s) : (h \o s)[i] = s[i - Len(h)]
        /\ \A x : x \in Range(h \o s) <=> x \in Range(h) \/ x \in Range(s)
        /\ Distinct(h) /\ Distinct(s) /\ Range(h) \cap Range(s) = {} => Distinct(h \o s)
    BY ONLY <2>1, JoinedFacts
  <2> QED
    BY <1>1, <2>2
<1>4. \A i \in 1 .. n : i + 1 \in 1 + 1 .. 1 + n /\ (i + 1) - 1 = i
  BY <1>2
<1> QED
  BY <1>1, <1>2, <1>3, <1>4

\* The first taken away.
LEMMA TailFacts ==
  ASSUME NEW A, NEW s \in Seq(A), s # <<>>
  PROVE  /\ Head(s) \in A /\ Head(s) = s[1] /\ Len(s) >= 1
         /\ Tail(s) \in Seq(A) /\ Len(Tail(s)) = Len(s) - 1
         /\ \A i \in 1 .. Len(s) - 1 : Tail(s)[i] = s[i + 1]
         /\ \A x : x \in Range(s) <=> x = Head(s) \/ x \in Range(Tail(s))
         /\ Distinct(s) => Distinct(Tail(s)) /\ Head(s) \notin Range(Tail(s))
         /\ s = <<Head(s)>> \o Tail(s)
<1> PICK h, t, n : h = Head(s) /\ t = Tail(s) /\ n = Len(s)
  OBVIOUS
<1>1. n \in Nat /\ n >= 1
  BY EmptySeq, LenProperties
<1>2. /\ h \in A /\ h = s[1]
      /\ t \in Seq(A) /\ Len(t) = n - 1
      /\ \A i \in 1 .. n - 1 : t[i] = s[i + 1]
  BY HeadTailProperties
<1>3. s = <<h>> \o t
  BY <1>1, <1>2
<1>4. \A x : x \in Range(s) <=> x = h \/ x \in Range(t)
  <2>1. h \in A /\ t \in Seq(A)
    BY <1>2
  <2>2. \A x : x \in Range(<<h>> \o t) <=> x = h \/ x \in Range(t)
    BY ONLY <2>1, PrependedFacts
  <2> QED
    BY <1>3, <2>2
<1>5. ASSUME Distinct(s) PROVE Distinct(t) /\ h \notin Range(t)
  <2>1. \A i \in 1 .. n - 1 : i + 1 \in 1 .. n
    BY <1>1
  <2>2. Distinct(t)
    BY <1>1, <1>2, <1>5, <2>1 DEF Distinct
  <2>3. ASSUME h \in Range(t) PROVE FALSE
    <3>1. PICK i \in 1 .. n - 1 : t[i] = h
      <4>1. t \in Seq(A)
        BY <1>2
      <4>2. \A x \in Range(t) : \E i \in 1 .. Len(t) : t[i] = x
        BY ONLY <4>1, RangeFacts
      <4> QED
        BY <1>2, <2>3, <4>2
    <3> QED
      BY <1>1, <1>2, <1>5, <2>1, <3>1 DEF Distinct
  <2> QED
    BY <2>2, <2>3
<1> QED
  BY <1>1, <1>2, <1>3, <1>4, <1>5

\* A sequence cut in two.
LEMMA CutFacts ==
  ASSUME NEW A, NEW s \in Seq(A), NEW n \in 0 .. Len(s)
  PROVE  LET a == SubSeq(s, 1, n)
             b == SubSeq(s, n + 1, Len(s))
         IN  /\ a \in Seq(A) /\ b \in Seq(A) /\ Len(a) = n /\ Len(b) = Len(s) - n
             /\ \A x : x \in Range(s) <=> x \in Range(a) \/ x \in Range(b)
             /\ Distinct(s) => Distinct(a) /\ Distinct(b) /\ Range(a) \cap Range(b) = {}
<1> PICK a, b : a = SubSeq(s, 1, n) /\ b = SubSeq(s, n + 1, Len(s))
  OBVIOUS
<1> PICK m : m = Len(s)
  OBVIOUS
<1>1. m \in Nat /\ n \in Nat /\ n <= m
  BY LenProperties
<1>2. a \in Seq(A) /\ Len(a) = n /\ \A i \in 1 .. n : a[i] = s[i]
  <2>1. 1 \in 1 .. m + 1 /\ n \in 1 - 1 .. m /\ n - 1 + 1 = n /\ \A i \in 1 .. n : 1 + i - 1 = i
    BY <1>1
  <2>2. /\ SubSeq(s, 1, n) \in Seq(A) /\ Len(SubSeq(s, 1, n)) = n - 1 + 1
        /\ \A k \in 1 .. n - 1 + 1 : SubSeq(s, 1, n)[k] = s[1 + k - 1]
    BY <2>1, PartFacts
  <2> QED
    BY <2>1, <2>2
<1>3. b \in Seq(A) /\ Len(b) = m - n /\ \A i \in 1 .. m - n : b[i] = s[n + i]
  <2>1. /\ n + 1 \in 1 .. m + 1 /\ m \in (n + 1) - 1 .. m /\ m - (n + 1) + 1 = m - n
        /\ \A i \in 1 .. m - n : (n + 1) + i - 1 = n + i
    BY <1>1
  <2>2. /\ SubSeq(s, n + 1, m) \in Seq(A) /\ Len(SubSeq(s, n + 1, m)) = m - (n + 1) + 1
        /\ \A k \in 1 .. m - (n + 1) + 1 : SubSeq(s, n + 1, m)[k] = s[(n + 1) + k - 1]
    BY <2>1, PartFacts
  <2> QED
    BY <2>1, <2>2
<1>4. /\ \A i \in 1 .. m : s[i] \in Range(s)
      /\ \A x \in Range(s) : \E i \in 1 .. m : s[i] = x
  BY RangeFacts
<1>5. /\ \A i \in 1 .. n : a[i] \in Range(a)
      /\ \A x \in Range(a) : \E i \in 1 .. n : a[i] = x
  <2>1. a \in Seq(A)
    BY <1>2
  <2>2. /\ \A i \in 1 .. Len(a) : a[i] \in Range(a)
        /\ \A x \in Range(a) : \E i \in 1 .. Len(a) : a[i] = x
    BY ONLY <2>1, RangeFacts
  <2> QED
    BY <1>2, <2>2
<1>6. /\ \A i \in 1 .. m - n : b[i] \in Range(b)
      /\ \A x \in Range(b) : \E i \in 1 .. m - n : b[i] = x
  <2>1. b \in Seq(A)
    BY <1>3
  <2>2. /\ \A i \in 1 .. Len(b) : b[i] \in Range(b)
        /\ \A x \in Range(b) : \E i \in 1 .. Len(b) : b[i] = x
    BY ONLY <2>1, RangeFacts
  <2> QED
    BY <1>3, <2>2
<1>7. /\ \A i \in 1 .. m : i \in 1 .. n \/ (i - n \in 1 .. m - n /\ n + (i - n) = i)
      /\ \A i \in 1 .. n : i \in 1 .. m
      /\ \A i \in 1 .. m - n : n + i \in 1 .. m
  BY <1>1
<1>8. ASSUME NEW x PROVE x \in Range(s) <=> x \in Range(a) \/ x \in Range(b)
  <2>1. ASSUME x \in Range(s) PROVE x \in Range(a) \/ x \in Range(b)
    <3>1. PICK i \in 1 .. m : s[i] = x
      BY <1>4, <2>1
    <3>2. i \in 1 .. n => x \in Range(a)
      BY <1>2, <1>5, <3>1
    <3>3. i - n \in 1 .. m - n /\ n + (i - n) = i => x \in Range(b)
      <4> PICK j : j = i - n
        OBVIOUS
      <4> QED
        BY <1>3, <1>6, <3>1
    <3> QED
      BY <1>7, <3>2, <3>3
  <2>2. x \in Range(a) => x \in Range(s)
    BY <1>2, <1>4, <1>5, <1>7
  <2>3. x \in Range(b) => x \in Range(s)
    BY <1>3, <1>4, <1>6, <1>7
  <2> QED
    BY <2>1, <2>2, <2>3
<1>9. ASSUME Distinct(s) PROVE Distinct(a) /\ Distinct(b) /\ Range(a) \cap Range(b) = {}
  <2>1. Distinct(a)
    BY <1>2, <1>7, <1>9 DEF Distinct
  <2>2. Distinct(b)
    <3> SUFFICES ASSUME NEW i \in 1 .. m - n, NEW j \in 1 .. m - n, b[i] = b[j] PROVE i = j
      BY <1>3 DEF Distinct
    <3>1. n + i = n + j
      BY <1>3, <1>7, <1>9 DEF Distinct
    <3> QED
      BY <1>1, <3>1
  <2>3. ASSUME NEW x \in Range(a), x \in Range(b) PROVE FALSE
    <3>1. PICK i \in 1 .. n : a[i] = x
      BY <1>5
    <3>2. PICK j \in 1 .. m - n : b[j] = x
      BY <1>6, <2>3
    <3>3. i = n + j
      BY <1>2, <1>3, <1>7, <1>9, <3>1, <3>2 DEF Distinct
    <3> QED
      BY <1>1, <3>3
  <2> QED
    BY <2>1, <2>2, <2>3
<1> QED
  BY <1>2, <1>3, <1>8, <1>9

\* The numbers of S up to n, from the least to the greatest.
Numbers(S, n) ==
  LET Upto[i \in 0 .. n] ==
        IF i = 0 THEN <<>>
        ELSE IF i \in S THEN Append(Upto[i-1], i) ELSE Upto[i-1]
  IN  Upto[n]

\* Each of them comes once.
LEMMA NumbersFacts ==
  ASSUME NEW S1, NEW n \in Nat
  PROVE  /\ Numbers(S1, n) \in Seq(1 .. n) /\ Distinct(Numbers(S1, n))
         /\ \A x : x \in Range(Numbers(S1, n)) <=> x \in 1 .. n /\ x \in S1
<1> DEFINE Eq(R) == R = [i \in 0 .. n |-> IF i = 0 THEN <<>>
                                          ELSE IF i \in S1 THEN Append(R[i-1], i) ELSE R[i-1]]
           T == Seq(1 .. n)
           g == [i \in 1 .. n |-> [t \in T |-> IF i \in S1 THEN Append(t, i) ELSE t]]
           U == CHOOSE R : Eq(R)
<1>1. <<>> \in T
  BY EmptyFacts
<1>2. ASSUME NEW i \in 1 .. n, NEW t \in T PROVE g[i][t] \in T
  BY AppendProperties
<1>3. \E R \in [0 .. n -> T] : Iterates(n, <<>>, g, R)
  <2> HIDE DEF T, g
  <2> QED
    BY <1>1, <1>2, Iteration
<1>4. PICK R \in [0 .. n -> T] : Iterates(n, <<>>, g, R)
  BY <1>3
<1>5. ASSUME NEW i \in 0 .. n
      PROVE  (IF i = 0 THEN <<>> ELSE g[i][R[i - 1]])
             = IF i = 0 THEN <<>> ELSE IF i \in S1 THEN Append(R[i-1], i) ELSE R[i-1]
  <2>1. i # 0 => i \in 1 .. n /\ i - 1 \in 0 .. n
    OBVIOUS
  <2>2. i # 0 => R[i - 1] \in T
    BY <1>4, <2>1
  <2> HIDE DEF T
  <2> QED
    BY <2>1, <2>2
<1>6. Eq(R)
  <2> HIDE DEF g, T
  <2> QED
    BY <1>4, <1>5 DEF Iterates
<1>7. Eq(U)
  <2> HIDE DEF Eq
  <2> QED
    BY <1>6
<1>8. Numbers(S1, n) = U[n]
  BY DEF Numbers
<1> HIDE DEF U
<1> DEFINE V == {i \in 0 .. n : /\ U[i] \in T /\ Distinct(U[i])
                                /\ \A x : x \in Range(U[i]) <=> x \in 1 .. i /\ x \in S1}
<1>9. 0 \in V
  <2>1. U[0] = <<>>
    BY <1>7
  <2>2. 1 .. 0 = {}
    OBVIOUS
  <2> QED
    <3> PICK e : e = U[0]
      OBVIOUS
    <3>1. Range(e) = {} /\ Distinct(e) /\ e \in T
      BY <1>1, <2>1, EmptyFacts
    <3>2. \A x : x \in Range(e) <=> x \in 1 .. 0 /\ x \in S1
      BY <2>2, <3>1
    <3>3. 0 \in 0 .. n
      OBVIOUS
    <3> HIDE DEF T
    <3> QED
      BY <3>1, <3>2, <3>3
<1>10. ASSUME NEW i \in 1 .. n, i - 1 \in V PROVE i \in V
  <2> PICK s : s = U[i - 1]
    OBVIOUS
  <2>1. U[i] = IF i \in S1 THEN Append(s, i) ELSE s
    <3>1. i \in 0 .. n /\ i # 0
      OBVIOUS
    <3> QED
      BY <1>7, <3>1
  <2>2. /\ s \in T /\ Distinct(s)
        /\ \A x : x \in Range(s) <=> x \in 1 .. i - 1 /\ x \in S1
    BY <1>10
  <2>3. \A x : x \in 1 .. i <=> x \in 1 .. i - 1 \/ x = i
    OBVIOUS
  <2>4. i \notin 1 .. i - 1 /\ i \in 0 .. n
    OBVIOUS
  <2> HIDE DEF V
  <2>5. /\ U[i] \in T /\ Distinct(U[i])
        /\ \A x : x \in Range(U[i]) <=> x \in 1 .. i /\ x \in S1
    <3>1. CASE i \in S1
      <4>1. /\ Append(s, i) \in Seq(1 .. n)
            /\ \A x : x \in Range(Append(s, i)) <=> x \in Range(s) \/ x = i
            /\ Distinct(s) /\ i \notin Range(s) => Distinct(Append(s, i))
        BY <2>2, AppendedFacts
      <4> QED
        BY <2>1, <2>2, <2>3, <2>4, <3>1, <4>1
    <3>2. CASE i \notin S1
      BY <2>1, <2>2, <2>3, <3>2
    <3> QED
      BY <3>1, <3>2
  <2> QED
    BY <2>4, <2>5 DEF V
<1> HIDE DEF V
<1>11. n \in V
  <2>1. \A i \in 1 .. n : i - 1 \in V => i \in V
    BY <1>10
  <2>2. 0 .. n \subseteq V
    BY ONLY n \in Nat, <1>9, <2>1, UpToInduction
  <2> QED
    BY <2>2
<1> QED
  BY <1>8, <1>11 DEF V

-----------------------------------------------------------------------------
(* Closures. *)

\* C starts with S and grows by g, within B.
Grows(B, S, g, C) ==
  /\ S \subseteq B /\ g \in [SUBSET B -> SUBSET B]
  /\ \A X, Y \in SUBSET B : X \subseteq Y => g[X] \subseteq g[Y]
  /\ C[0] = S
  /\ \A k \in 1 .. Cardinality(B) : C[k-1] \in SUBSET B => C[k] = C[k-1] \cup g[C[k-1]]

\* c is the least set with S that g does not leave.
Closure(B, S, g, c) ==
  /\ S \subseteq c /\ c \subseteq B /\ g[c] \subseteq c
  /\ \A X \in SUBSET B : S \subseteq X /\ g[X] \subseteq X => c \subseteq X

\* That is what S grows to in as many rounds as there are members of B.
LEMMA ClosureFacts ==
  ASSUME NEW B, IsFiniteSet(B), NEW S, NEW g, NEW C, Grows(B, S, g, C)
  PROVE  Closure(B, S, g, C[Cardinality(B)])
<1> USE DEF Grows
<1> DEFINE n == Cardinality(B)
           T == {k \in 0 .. n : /\ S \subseteq C[k] /\ C[k] \subseteq B
                                /\ g[C[k]] \subseteq C[k] \/ k <= Cardinality(C[k])}
<1>1. n \in Nat
  BY FS_CardinalityType
<1>2. 0 \in T
  <2>1. IsFiniteSet(S) /\ Cardinality(S) \in Nat
    BY FS_Subset, FS_CardinalityType
  <2> QED
    BY <1>1, <2>1
<1>3. ASSUME NEW k \in 1 .. n, k - 1 \in T PROVE k \in T
  <2> PICK a, b : a = C[k - 1] /\ b = C[k]
    OBVIOUS
  <2>1. /\ S \subseteq a /\ a \subseteq B
        /\ g[a] \subseteq a \/ k - 1 <= Cardinality(a)
    BY <1>3
  <2>2. b = a \cup g[a]
    BY <2>1
  <2> HIDE DEF T
  <2>3. S \subseteq b /\ b \subseteq B /\ a \subseteq b
    BY <2>1, <2>2
  <2>4. g[b] \subseteq b \/ k <= Cardinality(b)
    <3>1. CASE g[a] \subseteq a
      <4>1. b = a
        BY <2>2, <3>1
      <4> QED
        BY <3>1, <4>1
    <3>2. CASE ~(g[a] \subseteq a)
      <4>1. b # a
        BY <2>2, <3>2
      <4>2. IsFiniteSet(b)
        BY <2>3, FS_Subset
      <4>3. /\ IsFiniteSet(a) /\ Cardinality(a) <= Cardinality(b)
            /\ Cardinality(a) = Cardinality(b) => a = b
        BY <2>3, <4>2, FS_Subset
      <4>4. Cardinality(a) \in Nat /\ Cardinality(b) \in Nat
        BY <4>2, <4>3, FS_CardinalityType
      <4> QED
        BY <2>1, <3>2, <4>1, <4>3, <4>4
    <3> QED
      BY <3>1, <3>2
  <2> QED
    BY <1>1, <2>3, <2>4 DEF T
<1> HIDE DEF T
<1>4. n \in T
  BY <1>1, <1>2, <1>3, UpToInduction
<1>5. S \subseteq C[n] /\ C[n] \subseteq B
  BY <1>4 DEF T
<1>6. g[C[n]] \subseteq C[n]
  <2>1. CASE n <= Cardinality(C[n])
    <3>1. /\ Cardinality(C[n]) <= n /\ IsFiniteSet(C[n])
          /\ Cardinality(C[n]) = n => C[n] = B
      BY <1>5, FS_Subset DEF n
    <3>2. Cardinality(C[n]) \in Nat
      BY <3>1, FS_CardinalityType
    <3>3. C[n] = B
      BY <1>1, <2>1, <3>1, <3>2
    <3> QED
      BY <3>3
  <2> QED
    BY <1>4, <2>1 DEF T
<1>7. ASSUME NEW X \in SUBSET B, S \subseteq X, g[X] \subseteq X PROVE C[n] \subseteq X
  <2> DEFINE U == {k \in 0 .. n : C[k] \subseteq X}
  <2>1. 0 \in U
    BY <1>1, <1>7
  <2>2. ASSUME NEW k \in 1 .. n, k - 1 \in U PROVE k \in U
    <3>1. C[k - 1] \subseteq X
      BY <2>2
    <3>2. C[k] = C[k-1] \cup g[C[k-1]]
      BY <3>1
    <3>3. g[C[k-1]] \subseteq g[X]
      BY <3>1
    <3> QED
      BY <1>1, <1>7, <3>1, <3>2, <3>3
  <2> HIDE DEF U
  <2>3. n \in U
    BY <1>1, <2>1, <2>2, UpToInduction
  <2> QED
    BY <2>3 DEF U
<1> QED
  BY <1>5, <1>6, <1>7 DEF Closure
=============================================================================
