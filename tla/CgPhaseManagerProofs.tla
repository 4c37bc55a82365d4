------------------------- MODULE CgPhaseManagerProofs -------------------------
(***************************************************************************)
(* Theorems about CgPhaseManager for any command lines and any number of   *)
(* functions.                                                              *)
(***************************************************************************)
EXTENDS CgPhaseManager, SequenceTheorems, WellFoundedInduction, TLAPS

-----------------------------------------------------------------------------
(* Induction over the positions of a sequence, and what it says of Needed. *)

\* A set of numbers has a least one.
LEMMA LeastNat ==
  ASSUME NEW T, T \subseteq Nat, T # {}
  PROVE  \E n \in T : \A m \in T : n <= m
<1> DEFINE R == {ss \in Nat \X Nat : ss[1] < ss[2]}
<1>1. IsWellFoundedOn(R, Nat)
  BY NatLessThanWellFounded, Zenon DEF OpToRel
<1> HIDE DEF R
<1>2. \E x \in T : \A y \in T : <<y, x>> \notin R
  BY <1>1, WFMin
<1>3. PICK n \in T : \A m \in T : <<m, n>> \notin R
  BY <1>2
<1>4. ASSUME NEW m \in T PROVE n <= m
  <2>1. <<m, n>> \notin R /\ m \in Nat /\ n \in Nat
    BY <1>3
  <2>2. ~(m < n)
    BY <2>1 DEF R
  <2> QED
    BY <2>1, <2>2
<1> QED
  BY <1>4

\* Induction, for a set of numbers.
LEMMA SetInduction ==
  ASSUME NEW T, 0 \in T, \A n \in Nat : n \in T => n + 1 \in T
  PROVE  Nat \subseteq T
<1> SUFFICES ASSUME Nat \ T # {} PROVE FALSE
  OBVIOUS
<1>1. PICK n \in Nat \ T : \A m \in Nat \ T : n <= m
  BY LeastNat
<1>2. n # 0 /\ n - 1 \in Nat
  BY <1>1
<1> QED
  BY <1>1, <1>2

\* The function Needed is defined with.
UpTo(phases, n, f) ==
  f = [i \in 0 .. n |->
         IF i = 0 THEN <<>>
         ELSE IF phases[i] \in CanSkip THEN f[i - 1]
         ELSE Append(f[i - 1], phases[i])]

\* There is such a function.
LEMMA UpToExists ==
  ASSUME NEW phases, NEW n \in Nat
  PROVE  \E f : UpTo(phases, n, f)
<1> DEFINE T == {m \in Nat : \E f : UpTo(phases, m, f)}
<1>1. 0 \in T
  <2>1. UpTo(phases, 0, [i \in 0 .. 0 |-> <<>>])
    BY DEF UpTo
  <2> QED
    BY <2>1
<1>2. ASSUME NEW m \in Nat, m \in T PROVE m + 1 \in T
  <2>1. PICK f : UpTo(phases, m, f)
    BY <1>2
  <2> DEFINE last == IF phases[m + 1] \in CanSkip THEN f[m] ELSE Append(f[m], phases[m + 1])
             g == [i \in 0 .. m + 1 |-> IF i = m + 1 THEN last ELSE f[i]]
  <2>2. \A i \in 0 .. m : g[i] = f[i]
    OBVIOUS
  <2>3. \A i \in 0 .. m : f[i] = IF i = 0 THEN <<>>
                                 ELSE IF phases[i] \in CanSkip THEN f[i - 1]
                                 ELSE Append(f[i - 1], phases[i])
    BY <2>1 DEF UpTo
  <2>4. g[m + 1] = IF phases[m + 1] \in CanSkip THEN g[m] ELSE Append(g[m], phases[m + 1])
    BY <2>2
  <2> HIDE DEF g, last
  <2>5. \A i \in 0 .. m + 1 : g[i] = IF i = 0 THEN <<>>
                                     ELSE IF phases[i] \in CanSkip THEN g[i - 1]
                                     ELSE Append(g[i - 1], phases[i])
    <3> SUFFICES ASSUME NEW i \in 0 .. m + 1
                 PROVE  g[i] = IF i = 0 THEN <<>>
                               ELSE IF phases[i] \in CanSkip THEN g[i - 1]
                               ELSE Append(g[i - 1], phases[i])
      OBVIOUS
    <3>1. CASE i = m + 1
      BY <2>4, <3>1
    <3>2. CASE i \in 1 .. m
      <4>1. g[i] = f[i] /\ g[i - 1] = f[i - 1]
        BY <2>2, <3>2
      <4> QED
        BY <2>3, <3>2, <4>1
    <3>3. CASE i = 0
      BY <2>2, <2>3, <3>3
    <3> QED
      BY <3>1, <3>2, <3>3
  <2>6. UpTo(phases, m + 1, g)
    <3>1. g = [i \in 0 .. m + 1 |-> g[i]]
      BY DEF g
    <3> QED
      BY <2>5, <3>1 DEF UpTo
  <2> QED
    BY <2>6
<1> HIDE DEF T
<1>3. n \in T
  BY <1>1, <1>2, SetInduction
<1> QED
  BY <1>3 DEF T

\* Two such functions agree where both sequences are the same.
LEMMA UpToAgree ==
  ASSUME NEW s, NEW t, NEW n \in Nat, NEW k \in Nat, n <= k, NEW f, NEW g,
         \A i \in 1 .. n : s[i] = t[i], UpTo(s, n, f), UpTo(t, k, g)
  PROVE  \A i \in 0 .. n : f[i] = g[i]
<1> DEFINE T == {i \in Nat : i <= n => f[i] = g[i]}
<1>1. \A i \in 0 .. n : f[i] = IF i = 0 THEN <<>>
                               ELSE IF s[i] \in CanSkip THEN f[i - 1]
                               ELSE Append(f[i - 1], s[i])
  BY DEF UpTo
<1>2. \A i \in 0 .. k : g[i] = IF i = 0 THEN <<>>
                               ELSE IF t[i] \in CanSkip THEN g[i - 1]
                               ELSE Append(g[i - 1], t[i])
  BY DEF UpTo
<1>3. 0 \in T
  BY <1>1, <1>2
<1>4. ASSUME NEW i \in Nat, i \in T PROVE i + 1 \in T
  <2> SUFFICES ASSUME i + 1 <= n PROVE f[i + 1] = g[i + 1]
    OBVIOUS
  <2>1. /\ i + 1 \in 0 .. n /\ i + 1 \in 0 .. k /\ (i + 1) - 1 = i /\ i + 1 # 0
        /\ s[i + 1] = t[i + 1] /\ f[i] = g[i]
    BY <1>4
  <2> HIDE DEF T
  <2> QED
    BY <1>1, <1>2, <2>1
<1> HIDE DEF T
<1>5. Nat \subseteq T
  BY <1>3, <1>4, SetInduction
<1> QED
  BY <1>5 DEF T

\* How Needed goes over a sequence of phases.
LEMMA NeededAppend ==
  ASSUME NEW A, NEW s \in Seq(A), NEW p \in A
  PROVE  Needed(Append(s, p)) = IF p \in CanSkip THEN Needed(s) ELSE Append(Needed(s), p)
<1> DEFINE t == Append(s, p)
           n == Len(s)
           f == CHOOSE g : UpTo(s, n, g)
           h == CHOOSE g : UpTo(t, n + 1, g)
<1>1. /\ n \in Nat /\ Len(t) = n + 1 /\ t[n + 1] = p /\ \A i \in 1 .. n : s[i] = t[i]
  BY LenProperties, AppendProperties
<1>2. Needed(s) = f[n] /\ Needed(t) = h[n + 1]
  BY <1>1 DEF Needed, UpTo
<1> HIDE DEF t, n, f, h
<1>3. UpTo(s, n, f) /\ UpTo(t, n + 1, h)
  <2>1. n \in Nat /\ n + 1 \in Nat
    BY <1>1
  <2>2. \E g : UpTo(s, n, g)
    BY <2>1, UpToExists
  <2>3. \E g : UpTo(t, n + 1, g)
    BY <2>1, UpToExists
  <2> QED
    BY <2>2, <2>3, Zenon DEF f, h
<1>4. f[n] = h[n]
  BY <1>1, <1>3, UpToAgree
<1>5. h[n + 1] = IF t[n + 1] \in CanSkip THEN h[n] ELSE Append(h[n], t[n + 1])
  <2>1. \A i \in 0 .. n + 1 : h[i] = IF i = 0 THEN <<>>
                                     ELSE IF t[i] \in CanSkip THEN h[i - 1]
                                     ELSE Append(h[i - 1], t[i])
    BY <1>3 DEF UpTo
  <2>2. n + 1 \in 0 .. n + 1 /\ n + 1 # 0 /\ (n + 1) - 1 = n
    BY <1>1
  <2> QED
    BY <2>1, <2>2
<1> QED
  BY <1>1, <1>2, <1>4, <1>5 DEF t

\* The first n phases and one more.
LEMMA NeededStep ==
  ASSUME NEW A, NEW s \in Seq(A), NEW n \in Nat, n < Len(s)
  PROVE  Needed(SubSeq(s, 1, n + 1)) = IF s[n + 1] \in CanSkip THEN Needed(SubSeq(s, 1, n))
                                       ELSE Append(Needed(SubSeq(s, 1, n)), s[n + 1])
<1>1. /\ SubSeq(s, 1, n) \in Seq(A) /\ s[n + 1] \in A
      /\ SubSeq(s, 1, n + 1) = Append(SubSeq(s, 1, n), s[n + 1])
  BY LenProperties, SubSeqProperties, AppendProperties
<1> QED
  BY <1>1, NeededAppend

\* Phases that can be skipped make no difference.
LEMMA NeededSkip ==
  ASSUME NEW A, NEW s \in Seq(A), NEW n \in Nat, NEW k \in Nat, n <= k, k <= Len(s),
         \A i \in n + 1 .. k : s[i] \in CanSkip
  PROVE  Needed(SubSeq(s, 1, k)) = Needed(SubSeq(s, 1, n))
<1> DEFINE T == {d \in Nat : n + d <= k =>
                   Needed(SubSeq(s, 1, n + d)) = Needed(SubSeq(s, 1, n))}
<1>1. 0 \in T
  OBVIOUS
<1>2. ASSUME NEW d \in Nat, d \in T PROVE d + 1 \in T
  <2> SUFFICES ASSUME n + (d + 1) <= k
               PROVE  Needed(SubSeq(s, 1, n + (d + 1))) = Needed(SubSeq(s, 1, n))
    OBVIOUS
  <2>1. /\ n + d \in Nat /\ n + d < Len(s) /\ n + (d + 1) = (n + d) + 1
        /\ s[(n + d) + 1] \in CanSkip
        /\ Needed(SubSeq(s, 1, n + d)) = Needed(SubSeq(s, 1, n))
    BY <1>2, LenProperties
  <2> HIDE DEF T
  <2> QED
    BY <2>1, NeededStep
<1> HIDE DEF T
<1>3. k - n \in T
  BY <1>1, <1>2, SetInduction
<1> QED
  BY <1>3 DEF T
-----------------------------------------------------------------------------
(* The order of the phases, whichever of them the options leave out. *)

\* What phases are called.
Name ==
  CanSkip \cup {"layoutstackframe", "createstartendlabel", "buildehfunc", "handlefunction",
               "movevregargs", "moveregargs", "merge", "split", "regalloc",
               "generateproepilog", "offsetadjustforfplr", "dbgfixcallframeoffsets",
               "gencfi", "yieldpoint", "fixshortbranch", "emit"}

NoPhase    == ""
LastPhase  == "emit"
NoPart     == {NoPhase, LastPhase}
Scheduling == {"prescheduling", "scheduling"}
Splits     == {"split"}

\* Phases that are done with blocks merged, and phases that are begun with them.
LeavesMerged == {"merge", "prescheduling", "scheduling"}
TakesMerged  == {"prescheduling", "scheduling", "split"}

\* The phases after which no reaching definitions are left.
ClearsRD == {"globalopt", "prepeephole1"}

\* A part of the phase sequence, without emit and the phases of X, in which a split
\* follows each merge.
Part(s, X) ==
  /\ s \in Seq(Name)
  /\ \A i \in 1 .. Len(s) : s[i] \notin NoPart \cup X
  /\ \A i \in 1 .. Len(s) : s[i] \in Scheduling =>
       i < Len(s) /\ s[i + 1] \in Splits
  /\ \A i \in 1 .. Len(s) - 1 : s[i] \in LeavesMerged <=> s[i + 1] \in TakesMerged
  /\ Len(s) > 0 => s[1] \notin TakesMerged /\ s[Len(s)] \notin LeavesMerged

\* Parts of the sequence that follow each other.
LEMMA PartJoin ==
  ASSUME NEW X, NEW s, NEW t, Part(s, X), Part(t, X)
  PROVE  Part(s \o t, X)
<1> DEFINE r == s \o t
<1>1. s \in Seq(Name) /\ t \in Seq(Name) /\ Len(s) \in Nat /\ Len(t) \in Nat
  BY LenProperties DEF Part
<1>2. /\ r \in Seq(Name) /\ Len(r) = Len(s) + Len(t)
      /\ \A i \in 1 .. Len(s) : r[i] = s[i]
      /\ \A i \in Len(s) + 1 .. Len(s) + Len(t) : r[i] = t[i - Len(s)]
  BY <1>1, ConcatProperties
<1> HIDE DEF r
<1>3. ASSUME NEW i \in 1 .. Len(r) PROVE r[i] \notin NoPart \cup X
  <2>1. CASE i <= Len(s)
    <3>1. i \in 1 .. Len(s) /\ r[i] = s[i]
      BY <1>1, <1>2, <2>1
    <3> QED
      BY <3>1 DEF Part
  <2>2. CASE i > Len(s)
    <3>1. i - Len(s) \in 1 .. Len(t) /\ r[i] = t[i - Len(s)]
      BY <1>1, <1>2, <2>2
    <3> QED
      BY <3>1 DEF Part
  <2> QED
    BY <1>1, <1>2, <2>1, <2>2
<1>4. ASSUME NEW i \in 1 .. Len(r), r[i] \in Scheduling
      PROVE  i < Len(r) /\ r[i + 1] \in Splits
  <2>1. CASE i <= Len(s)
    <3>1. s[i] = r[i] /\ i \in 1 .. Len(s)
      BY <1>1, <1>2, <2>1
    <3>2. i < Len(s) /\ s[i + 1] \in Splits
      BY <1>4, <3>1 DEF Part
    <3>3. i < Len(r) /\ r[i + 1] = s[i + 1]
      BY <1>1, <1>2, <3>1, <3>2
    <3> QED
      BY <3>2, <3>3
  <2>2. CASE i > Len(s)
    <3>1. i - Len(s) \in 1 .. Len(t) /\ r[i] = t[i - Len(s)]
      BY <1>1, <1>2, <2>2
    <3>2. i - Len(s) < Len(t) /\ t[i - Len(s) + 1] \in Splits
      BY <1>4, <3>1 DEF Part
    <3>3. i < Len(r) /\ r[i + 1] = t[i + 1 - Len(s)] /\ i + 1 - Len(s) = i - Len(s) + 1
      BY <1>1, <1>2, <2>2, <3>2
    <3> QED
      BY <3>2, <3>3
  <2> QED
    BY <1>1, <1>2, <2>1, <2>2
<1>5. ASSUME NEW i \in 1 .. Len(r) - 1
      PROVE  r[i] \in LeavesMerged <=> r[i + 1] \in TakesMerged
  <2>1. CASE i < Len(s)
    <3>1. i \in 1 .. Len(s) - 1 /\ r[i] = s[i] /\ r[i + 1] = s[i + 1]
      BY <1>1, <1>2, <2>1
    <3> QED
      BY <3>1 DEF Part
  <2>2. CASE i > Len(s)
    <3>1. /\ i - Len(s) \in 1 .. Len(t) - 1 /\ r[i] = t[i - Len(s)]
          /\ r[i + 1] = t[i - Len(s) + 1]
      BY <1>1, <1>2, <2>2
    <3> QED
      BY <3>1 DEF Part
  <2>3. CASE i = Len(s)
    <3>1. /\ Len(s) > 0 /\ Len(t) > 0 /\ r[i] = s[Len(s)] /\ r[i + 1] = t[1]
      BY <1>1, <1>2, <2>3
    <3> QED
      BY <3>1 DEF Part
  <2> QED
    BY <1>1, <2>1, <2>2, <2>3
<1>6. ASSUME Len(r) > 0 PROVE r[1] \notin TakesMerged /\ r[Len(r)] \notin LeavesMerged
  <2>1. r[1] \notin TakesMerged
    <3>1. CASE Len(s) > 0
      <4>1. r[1] = s[1]
        BY <1>1, <1>2, <3>1
      <4> QED
        BY <3>1, <4>1 DEF Part
    <3>2. CASE Len(s) = 0
      <4>1. r[1] = t[1] /\ Len(t) > 0
        BY <1>1, <1>2, <1>6, <3>2
      <4> QED
        BY <4>1 DEF Part
    <3> QED
      BY <1>1, <3>1, <3>2
  <2>2. r[Len(r)] \notin LeavesMerged
    <3>1. CASE Len(t) > 0
      <4>1. r[Len(r)] = t[Len(t)]
        BY <1>1, <1>2, <3>1
      <4> QED
        BY <3>1, <4>1 DEF Part
    <3>2. CASE Len(t) = 0
      <4>1. r[Len(r)] = s[Len(s)] /\ Len(s) > 0
        BY <1>1, <1>2, <1>6, <3>2
      <4> QED
        BY <4>1 DEF Part
    <3> QED
      BY <1>1, <3>1, <3>2
  <2> QED
    BY <2>1, <2>2
<1> QED
  BY <1>2, <1>3, <1>4, <1>5, <1>6 DEF Part, r

\* Parts that an option leaves out.
LEMMA PartWhen ==
  ASSUME NEW X, NEW s, Part(s, X)
  PROVE  /\ Part(<<>>, X)
         /\ \A c \in BOOLEAN : Part(When(c, s), X)
         /\ \A flag : Part(On(flag, s), X)
<1>1. Part(<<>>, X)
  <2>1. <<>> \in Seq(Name) /\ Len(<<>>) = 0 /\ 1 .. 0 = {} /\ 1 .. 0 - 1 = {}
    OBVIOUS
  <2> QED
    BY <2>1 DEF Part
<1> QED
  BY <1>1 DEF When, On

\* Single phases.
LEMMA PartOne ==
  ASSUME NEW X, NEW p \in Name,
         p \notin NoPart \cup X \cup LeavesMerged \cup TakesMerged
  PROVE  Part(ADDPHASE(p), X)
<1>1. Part(<<p>>, X)
  <2> DEFINE s == <<p>>
  <2>1. s \in Seq(Name) /\ Len(s) = 1 /\ s[1] = p /\ 1 .. 1 = {1} /\ 1 .. 1 - 1 = {}
    OBVIOUS
  <2> HIDE DEF s
  <2>2. Part(s, X)
    BY <2>1 DEF Part, LeavesMerged, TakesMerged, Scheduling, Splits, NoPart, NoPhase, LastPhase
  <2> QED
    BY <2>2 DEF s
<1> QED
  BY <1>1, PartWhen DEF ADDPHASE, When

\* A merge and a split alone.
LEMMA PartTwo ==
  ASSUME NEW X, NEW m \in Name, NEW e \in Name, m \notin NoPart \cup X, e \notin NoPart \cup X,
         m \notin Scheduling, e \notin Scheduling,
         m \in LeavesMerged, m \notin TakesMerged, e \in TakesMerged, e \notin LeavesMerged
  PROVE  Part(<<m>> \o <<>> \o <<e>>, X)
<1> DEFINE r == <<m>> \o <<>> \o <<e>>
<1>1. r \in Seq(Name) /\ Len(r) = 2 /\ r[1] = m /\ r[2] = e
  OBVIOUS
<1> HIDE DEF r
<1>2. 1 .. 2 = {1, 2} /\ 1 .. 2 - 1 = {1}
  OBVIOUS
<1>3. Part(r, X)
  BY <1>1, <1>2 DEF Part
<1> QED
  BY <1>3 DEF r

\* The same with a scheduling phase between them.
LEMMA PartThree ==
  ASSUME NEW X, NEW m \in Name, NEW p \in Name, NEW e \in Name,
         m \notin NoPart \cup X, p \notin NoPart \cup X, e \notin NoPart \cup X,
         m \notin Scheduling, e \notin Scheduling, e \in Splits,
         p \in LeavesMerged, p \in TakesMerged,
         m \in LeavesMerged, m \notin TakesMerged, e \in TakesMerged, e \notin LeavesMerged
  PROVE  Part(<<m>> \o <<p>> \o <<e>>, X)
<1> DEFINE r == <<m>> \o <<p>> \o <<e>>
<1>1. r \in Seq(Name) /\ Len(r) = 3 /\ r[1] = m /\ r[2] = p /\ r[3] = e
  OBVIOUS
<1> HIDE DEF r
<1>2. 1 .. 3 = {1, 2, 3} /\ 1 .. 3 - 1 = {1, 2}
  OBVIOUS
<1>3. Part(r, X)
  BY <1>1, <1>2 DEF Part
<1> QED
  BY <1>3 DEF r

\* Scheduling between a merge and a split.
LEMMA PartSchedule ==
  ASSUME NEW X, "merge" \notin X, "split" \notin X, \A q \in Scheduling : q \notin X,
         opt \in Options, NEW p \in Scheduling
  PROVE  Part(ADDPHASE("merge") \o ADDPHASE(p) \o ADDPHASE("split"), X)
<1>1. /\ "merge" \notin opt.skipPhases /\ "split" \notin opt.skipPhases
      /\ ADDPHASE("merge") = <<"merge">> /\ ADDPHASE("split") = <<"split">>
      /\ ADDPHASE(p) = <<>> \/ ADDPHASE(p) = <<p>>
  BY CgPhaseManagerAssumption DEF CanSkip, ADDPHASE, When
<1>2. /\ "merge" \notin NoPart \cup X /\ p \notin NoPart \cup X /\ "split" \notin NoPart \cup X
      /\ "merge" \notin Scheduling /\ "split" \notin Scheduling /\ "split" \in Splits
      /\ p \in LeavesMerged /\ p \in TakesMerged /\ "merge" \in LeavesMerged
      /\ "merge" \notin TakesMerged /\ "split" \in TakesMerged /\ "split" \notin LeavesMerged
      /\ p \in Name /\ "merge" \in Name /\ "split" \in Name
  <2>1. p \notin X /\ (p = "prescheduling" \/ p = "scheduling")
    BY DEF Scheduling
  <2>2. p \in Name /\ "merge" \in Name /\ "split" \in Name
    <3>1. "merge" \in Name /\ "split" \in Name /\ "prescheduling" \in Name
          /\ "scheduling" \in Name
      BY DEF Name, CanSkip
    <3> QED
      BY <2>1, <3>1, Zenon
  <2>3. /\ "merge" \notin NoPart \cup X /\ "split" \notin NoPart \cup X
    BY DEF NoPart, NoPhase, LastPhase
  <2>4. p \notin NoPart \cup X
    BY <2>1 DEF NoPart, NoPhase, LastPhase
  <2>5. /\ "merge" \notin Scheduling /\ "split" \notin Scheduling /\ "split" \in Splits
        /\ "merge" \in LeavesMerged /\ "merge" \notin TakesMerged
        /\ "split" \in TakesMerged /\ "split" \notin LeavesMerged
    BY DEF Scheduling, Splits, LeavesMerged, TakesMerged
  <2>6. p \in LeavesMerged /\ p \in TakesMerged
    BY <2>1 DEF LeavesMerged, TakesMerged
  <2> QED
    BY <2>2, <2>3, <2>4, <2>5, <2>6
<1>3. Part(<<"merge">> \o <<>> \o <<"split">>, X)
  BY <1>2, PartTwo
<1>4. Part(<<"merge">> \o <<p>> \o <<"split">>, X)
  BY <1>2, PartThree
<1> QED
  BY <1>1, <1>3, <1>4

\* The phases up to storeloadopt.
LEMMA PartToStoreLoadOpt ==
  ASSUME opt \in Options
  PROVE  Part(AddPhasesToStoreLoadOpt, ClearsRD \cup {"regalloc"})
<1> DEFINE X == ClearsRD \cup {"regalloc"}
<1>1. \A p \in {"layoutstackframe", "createstartendlabel", "buildehfunc", "handlefunction",
                "optlocalref", "movevregargs", "moveregargs", "ebo", "prepeephole", "ico",
                "cfgo", "storeloadopt"} : Part(ADDPHASE(p), X)
  <2> SUFFICES ASSUME NEW p \in {"layoutstackframe", "createstartendlabel", "buildehfunc",
                "handlefunction", "optlocalref", "movevregargs", "moveregargs", "ebo",
                "prepeephole", "ico", "cfgo", "storeloadopt"}
               PROVE  Part(ADDPHASE(p), X)
    OBVIOUS
  <2>1. p \notin NoPart \cup X \cup LeavesMerged \cup TakesMerged
    BY DEF NoPart, NoPhase, LastPhase, ClearsRD, LeavesMerged, TakesMerged
  <2>2. p \in Name
    BY DEF Name, CanSkip
  <2> QED
    BY <2>1, <2>2, PartOne
<1> HIDE DEF X
<1>2. \A p \in {"buildehfunc", "ebo", "prepeephole", "ico", "cfgo", "storeloadopt"} :
        \A flag : Part(On(flag, ADDPHASE(p)), X)
  BY <1>1, PartWhen
<1>3. /\ Part(When(opt.java, ADDPHASE("optlocalref")), X)
      /\ Part(When(opt.java, On("doStoreLoadOpt", ADDPHASE("storeloadopt"))), X)
  <2>1. opt.java \in BOOLEAN
    BY CgPhaseManagerAssumption
  <2> QED
    BY <1>1, <1>2, <2>1, PartWhen
<1> QED
  BY <1>1, <1>2, <1>3, PartJoin DEF AddPhasesToStoreLoadOpt, X

\* The phases from there to the allocator.
LEMMA PartToPreSchedule ==
  ASSUME opt \in Options
  PROVE  Part(AddPhasesToPreSchedule, {"storeloadopt", "regalloc"})
<1> DEFINE X == {"storeloadopt", "regalloc"}
<1>1. \A p \in {"globalopt", "prepeephole1", "ebo1"} : Part(ADDPHASE(p), X)
  <2> SUFFICES ASSUME NEW p \in {"globalopt", "prepeephole1", "ebo1"}
               PROVE  Part(ADDPHASE(p), X)
    OBVIOUS
  <2>1. p \notin NoPart \cup X \cup LeavesMerged \cup TakesMerged
    BY DEF NoPart, NoPhase, LastPhase, LeavesMerged, TakesMerged
  <2>2. p \in Name
    BY DEF Name, CanSkip
  <2> QED
    BY <2>1, <2>2, PartOne
<1>2. Part(ADDPHASE("merge") \o ADDPHASE("prescheduling") \o ADDPHASE("split"), X)
  <2>1. /\ "merge" \notin X /\ "split" \notin X /\ \A q \in Scheduling : q \notin X
        /\ "prescheduling" \in Scheduling
    BY DEF Scheduling
  <2> HIDE DEF X
  <2> QED
    BY <2>1, PartSchedule
<1> HIDE DEF X
<1>3. /\ \A p \in {"globalopt", "prepeephole1", "ebo1"} :
           \A flag : Part(On(flag, ADDPHASE(p)), X)
      /\ Part(On("doPreSchedule", ADDPHASE("merge") \o ADDPHASE("prescheduling")
                                  \o ADDPHASE("split")), X)
  BY <1>1, <1>2, PartWhen
<1> QED
  BY <1>3, PartJoin DEF AddPhasesToPreSchedule, X

\* The phases from the allocator to emit.
LEMMA PartFromRegAlloc ==
  ASSUME opt \in Options
  PROVE  /\ Part(AddPhasesFromRegAlloc, ClearsRD \cup {"storeloadopt"})
         /\ Len(AddPhasesFromRegAlloc) > 0
         /\ AddPhasesFromRegAlloc[Len(AddPhasesFromRegAlloc)] = "fixshortbranch"
<1> DEFINE X == ClearsRD \cup {"storeloadopt"}
           last == ADDPHASE("fixshortbranch")
<1>1. \A p \in {"regalloc", "generateproepilog", "offsetadjustforfplr",
                "dbgfixcallframeoffsets", "peephole0", "postebo", "postcfgo", "peephole",
                "gencfi", "yieldpoint", "fixshortbranch"} : Part(ADDPHASE(p), X)
  <2> SUFFICES ASSUME NEW p \in {"regalloc", "generateproepilog", "offsetadjustforfplr",
                "dbgfixcallframeoffsets", "peephole0", "postebo", "postcfgo", "peephole",
                "gencfi", "yieldpoint", "fixshortbranch"}
               PROVE  Part(ADDPHASE(p), X)
    OBVIOUS
  <2>1. p \notin NoPart \cup X \cup LeavesMerged \cup TakesMerged
    BY DEF NoPart, NoPhase, LastPhase, ClearsRD, LeavesMerged, TakesMerged
  <2>2. p \in Name
    BY DEF Name, CanSkip
  <2> QED
    BY <2>1, <2>2, PartOne
<1>2. Part(ADDPHASE("merge") \o ADDPHASE("scheduling") \o ADDPHASE("split"), X)
  <2>1. /\ "merge" \notin X /\ "split" \notin X /\ \A q \in Scheduling : q \notin X
        /\ "scheduling" \in Scheduling
    BY DEF Scheduling, ClearsRD
  <2> HIDE DEF X
  <2> QED
    BY <2>1, PartSchedule
<1> HIDE DEF X
<1>3. /\ \A p \in {"peephole0", "postebo", "postcfgo", "peephole", "gencfi", "yieldpoint"} :
           \A flag : Part(On(flag, ADDPHASE(p)), X)
      /\ Part(On("doSchedule", ADDPHASE("merge") \o ADDPHASE("scheduling")
                               \o ADDPHASE("split")), X)
  BY <1>1, <1>2, PartWhen
<1>4. Part(When(opt.java, On("insertYieldpoint", ADDPHASE("yieldpoint"))), X)
  <2>1. opt.java \in BOOLEAN
    BY CgPhaseManagerAssumption
  <2> QED
    BY <1>1, <1>3, <2>1, PartWhen
<1>5. last = <<"fixshortbranch">> /\ last \in Seq(Name) /\ Len(last) = 1 /\ last[1] = "fixshortbranch"
  <2>1. last = <<"fixshortbranch">> /\ "fixshortbranch" \in Name
    BY CgPhaseManagerAssumption DEF CanSkip, ADDPHASE, When, Name
  <2>2. \A p \in Name : <<p>> \in Seq(Name) /\ Len(<<p>>) = 1 /\ <<p>>[1] = p
    OBVIOUS
  <2> HIDE DEF last
  <2> QED
    BY <2>1, <2>2, Zenon
<1> HIDE DEF last
<1>6. PICK s : Part(s, X) /\ AddPhasesFromRegAlloc = s \o last
  BY <1>1, <1>3, <1>4, PartJoin DEF AddPhasesFromRegAlloc, last
<1>7. Part(AddPhasesFromRegAlloc, X)
  BY <1>1, <1>6, PartJoin DEF last
<1>8. /\ s \in Seq(Name) /\ Len(s) \in Nat
      /\ Len(s \o last) = Len(s) + 1 /\ (s \o last)[Len(s) + 1] = last[1]
  <2>1. s \in Seq(Name)
    BY <1>6 DEF Part
  <2>2. Len(s) \in Nat
    BY <2>1, LenProperties
  <2> QED
    BY <1>5, <2>1, <2>2, ConcatProperties
<1> QED
  BY <1>5, <1>6, <1>7, <1>8 DEF X

\* What is known of the phase sequence, whatever the options.
Ordered(s) ==
  /\ s \in Seq(Name) /\ Len(s) > 1
  /\ \A i \in 1 .. Len(s) : s[i] # NoPhase
  /\ \A i \in 1 .. Len(s) : s[i] = LastPhase <=> i = Len(s)
  /\ s[Len(s) - 1] \notin CanSkip
  /\ \A i \in 1 .. Len(s) : s[i] \in Scheduling => i < Len(s) /\ s[i + 1] \in Splits
  /\ \A i \in 1 .. Len(s) - 1 : s[i] \in LeavesMerged <=> s[i + 1] \in TakesMerged
  /\ s[1] \notin TakesMerged
  /\ \A i, j \in 1 .. Len(s) :
       s[i] \in ClearsRD /\ s[j] \in {"storeloadopt"} => j < i
  /\ \A i, j \in 1 .. Len(s) :
       s[i] \in ClearsRD /\ s[j] \in {"regalloc"} => i < j

\* The phase sequence is in that order.
LEMMA PhasesAreOrdered ==
  ASSUME opt \in Options
  PROVE  Ordered(AddPhases)
<1> DEFINE a == AddPhasesToStoreLoadOpt
           b == AddPhasesToPreSchedule
           c == AddPhasesFromRegAlloc
           e == ADDPHASE("emit")
           ab == a \o b
           abc == ab \o c
           s == abc \o e
           last == "emit"
           Load == {"storeloadopt"}
           Alloc == {"regalloc"}
<1>1. /\ Part(a, ClearsRD \cup Alloc) /\ Part(b, Load \cup Alloc) /\ Part(c, ClearsRD \cup Load)
      /\ Len(c) > 0 /\ c[Len(c)] = "fixshortbranch"
  <2>1. {"storeloadopt", "regalloc"} = Load \cup Alloc
    OBVIOUS
  <2> QED
    BY <2>1, PartToStoreLoadOpt, PartToPreSchedule, PartFromRegAlloc
<1>2. e = <<last>> /\ last \in Name /\ AddPhases = s
  BY CgPhaseManagerAssumption DEF CanSkip, ADDPHASE, When, Name, AddPhases
<1>3. /\ last \in NoPart /\ last # "" /\ last \notin TakesMerged /\ last \notin Scheduling
      /\ last \notin ClearsRD /\ last \notin Load /\ last \notin Alloc
      /\ "fixshortbranch" \notin CanSkip
      /\ \A p : p \notin NoPart => p # "" /\ p # last
  BY DEF NoPart, NoPhase, LastPhase, TakesMerged, Scheduling, ClearsRD, CanSkip
<1> HIDE DEF a, b, c, e, last, Load, Alloc
<1>4. a \in Seq(Name) /\ b \in Seq(Name) /\ c \in Seq(Name) /\ e \in Seq(Name) /\ Len(e) = 1
      /\ e[1] = last
  BY <1>1, <1>2 DEF Part
<1>5. Part(abc, {})
  <2>1. Part(a, {}) /\ Part(b, {}) /\ Part(c, {})
    BY <1>1 DEF Part
  <2> QED
    BY <2>1, PartJoin
<1>6. /\ Len(a) \in Nat /\ Len(b) \in Nat /\ Len(c) \in Nat
      /\ ab \in Seq(Name) /\ Len(ab) = Len(a) + Len(b)
      /\ abc \in Seq(Name) /\ Len(abc) = Len(a) + Len(b) + Len(c)
      /\ \A i \in 1 .. Len(a) : abc[i] = a[i]
      /\ \A i \in Len(a) + 1 .. Len(ab) : abc[i] = b[i - Len(a)]
      /\ \A i \in Len(ab) + 1 .. Len(abc) : abc[i] = c[i - Len(ab)]
  <2>1. Len(a) \in Nat /\ Len(b) \in Nat /\ Len(c) \in Nat
    BY <1>4, LenProperties
  <2>2. /\ ab \in Seq(Name) /\ Len(ab) = Len(a) + Len(b)
        /\ \A i \in 1 .. Len(a) : ab[i] = a[i]
        /\ \A i \in Len(a) + 1 .. Len(ab) : ab[i] = b[i - Len(a)]
    BY <1>4, ConcatProperties
  <2> HIDE DEF ab
  <2>3. /\ abc \in Seq(Name) /\ Len(abc) = Len(ab) + Len(c)
        /\ \A i \in 1 .. Len(ab) : abc[i] = ab[i]
        /\ \A i \in Len(ab) + 1 .. Len(abc) : abc[i] = c[i - Len(ab)]
    <3>1. ab \in Seq(Name) /\ c \in Seq(Name)
      BY <1>4, <2>2
    <3>2. /\ abc \in Seq(Name) /\ Len(abc) = Len(ab) + Len(c)
          /\ \A i \in 1 .. Len(ab) : abc[i] = ab[i]
      BY <3>1, ConcatProperties
    <3>3. \A i \in Len(ab) + 1 .. Len(ab) + Len(c) : abc[i] = c[i - Len(ab)]
      BY <3>1, ConcatProperties
    <3> QED
      BY <3>2, <3>3
  <2> HIDE DEF abc
  <2> QED
    BY <2>1, <2>2, <2>3
<1>7. /\ \A i \in 1 .. Len(abc) : abc[i] \notin NoPart
      /\ \A i \in 1 .. Len(abc) : abc[i] \in ClearsRD => Len(a) < i /\ i <= Len(ab)
      /\ \A i \in 1 .. Len(abc) : abc[i] \in Load => i <= Len(a)
      /\ \A i \in 1 .. Len(abc) : abc[i] \in Alloc => Len(ab) < i
  <2> SUFFICES ASSUME NEW i \in 1 .. Len(abc)
               PROVE  /\ abc[i] \notin NoPart
                      /\ abc[i] \in ClearsRD => Len(a) < i /\ i <= Len(ab)
                      /\ abc[i] \in Load => i <= Len(a)
                      /\ abc[i] \in Alloc => Len(ab) < i
    OBVIOUS
  <2>1. CASE i <= Len(a)
    <3>1. i \in 1 .. Len(a) /\ abc[i] = a[i]
      BY <1>6, <2>1
    <3>2. a[i] \notin NoPart \cup (ClearsRD \cup Alloc)
      BY <1>1, <3>1 DEF Part
    <3> QED
      BY <2>1, <3>1, <3>2
  <2>2. CASE i > Len(a) /\ i <= Len(ab)
    <3>1. i - Len(a) \in 1 .. Len(b) /\ abc[i] = b[i - Len(a)]
      BY <1>6, <2>2
    <3>2. b[i - Len(a)] \notin NoPart \cup (Load \cup Alloc)
      BY <1>1, <3>1 DEF Part
    <3> QED
      BY <2>2, <3>1, <3>2
  <2>3. CASE i > Len(ab)
    <3>1. i - Len(ab) \in 1 .. Len(c) /\ abc[i] = c[i - Len(ab)]
      BY <1>6, <2>3
    <3>2. c[i - Len(ab)] \notin NoPart \cup (ClearsRD \cup Load)
      BY <1>1, <3>1 DEF Part
    <3> QED
      BY <2>3, <3>1, <3>2
  <2> QED
    BY <1>6, <2>1, <2>2, <2>3
<1>8. abc[Len(abc)] \notin CanSkip /\ Len(abc) > 0
  <2>1. abc[Len(abc)] = c[Len(c)] /\ Len(abc) > 0
    BY <1>1, <1>6
  <2> QED
    BY <1>1, <1>3, <2>1, Zenon
<1>9. /\ s \in Seq(Name) /\ Len(s) = Len(abc) + 1 /\ s[Len(s)] = last
      /\ \A i \in 1 .. Len(abc) : s[i] = abc[i]
  <2>1. abc \in Seq(Name) /\ e \in Seq(Name) /\ Len(abc) \in Nat
    BY <1>4, <1>6
  <2> HIDE DEF abc, ab
  <2>2. /\ s \in Seq(Name) /\ Len(s) = Len(abc) + Len(e)
        /\ \A i \in 1 .. Len(abc) : s[i] = abc[i]
        /\ \A i \in Len(abc) + 1 .. Len(abc) + Len(e) : s[i] = e[i - Len(abc)]
    BY <2>1, ConcatProperties
  <2> HIDE DEF s
  <2> QED
    BY <1>4, <2>1, <2>2
<1>10. /\ Len(abc) \in Nat /\ Len(a) \in Nat /\ Len(ab) \in Nat /\ Len(a) <= Len(ab)
  BY <1>6
<1> HIDE DEF abc, s, ab
<1>11. /\ s \in Seq(Name) /\ Len(s) > 1 /\ s[Len(s) - 1] \notin CanSkip
       /\ s[1] \notin TakesMerged
  <2>1. s[1] = abc[1] /\ s[Len(s) - 1] = abc[Len(abc)]
    BY <1>8, <1>9, <1>10
  <2> QED
    BY <1>5, <1>8, <1>9, <1>10, <2>1 DEF Part
<1>12. /\ \A i \in 1 .. Len(s) : s[i] # ""
       /\ \A i \in 1 .. Len(s) : s[i] = last <=> i = Len(s)
  <2> SUFFICES ASSUME NEW i \in 1 .. Len(s)
               PROVE  s[i] # "" /\ (s[i] = last <=> i = Len(s))
    OBVIOUS
  <2>1. CASE i = Len(s)
    BY <1>3, <1>9, <2>1
  <2>2. CASE i # Len(s)
    <3>1. i \in 1 .. Len(abc) /\ s[i] = abc[i]
      BY <1>9, <1>10, <2>2
    <3>2. s[i] \notin NoPart
      BY <1>7, <3>1
    <3>3. s[i] # "" /\ s[i] # last
      BY <1>3, <3>2, Zenon
    <3> QED
      BY <2>2, <3>3
  <2> QED
    BY <2>1, <2>2
<1>13. \A i \in 1 .. Len(s) : s[i] \in Scheduling => i < Len(s) /\ s[i + 1] \in Splits
  <2> SUFFICES ASSUME NEW i \in 1 .. Len(s), s[i] \in Scheduling
               PROVE  i < Len(s) /\ s[i + 1] \in Splits
    OBVIOUS
  <2>1. i # Len(s)
    BY <1>3, <1>9
  <2>2. i \in 1 .. Len(abc) /\ abc[i] = s[i]
    BY <1>9, <1>10, <2>1
  <2>3. i < Len(abc) /\ abc[i + 1] \in Splits
    BY <1>5, <2>2 DEF Part
  <2> QED
    BY <1>9, <1>10, <2>3
<1>14. \A i \in 1 .. Len(s) - 1 : s[i] \in LeavesMerged <=> s[i + 1] \in TakesMerged
  <2> SUFFICES ASSUME NEW i \in 1 .. Len(s) - 1
               PROVE  s[i] \in LeavesMerged <=> s[i + 1] \in TakesMerged
    OBVIOUS
  <2>1. CASE i < Len(abc)
    <3>1. i \in 1 .. Len(abc) - 1 /\ s[i] = abc[i] /\ s[i + 1] = abc[i + 1]
      BY <1>9, <1>10, <2>1
    <3> QED
      BY <1>5, <3>1 DEF Part
  <2>2. CASE i = Len(abc)
    <3>1. s[i] = abc[Len(abc)] /\ s[i + 1] = last
      BY <1>8, <1>9, <1>10, <2>2
    <3> QED
      BY <1>3, <1>5, <1>8, <3>1 DEF Part
  <2> QED
    BY <1>9, <1>10, <2>1, <2>2
<1>15. /\ \A i, j \in 1 .. Len(s) : s[i] \in ClearsRD /\ s[j] \in Load => j < i
       /\ \A i, j \in 1 .. Len(s) : s[i] \in ClearsRD /\ s[j] \in Alloc => i < j
  <2>1. ASSUME NEW i \in 1 .. Len(s), s[i] \in ClearsRD \cup Load \cup Alloc
        PROVE  i \in 1 .. Len(abc) /\ s[i] = abc[i]
    <3>1. i # Len(s)
      BY <1>3, <1>9, <2>1
    <3> QED
      BY <1>9, <1>10, <3>1
  <2>2. ASSUME NEW i \in 1 .. Len(s), NEW j \in 1 .. Len(s), s[i] \in ClearsRD, s[j] \in Load
        PROVE  j < i
    <3>1. /\ i \in 1 .. Len(abc) /\ abc[i] \in ClearsRD
          /\ j \in 1 .. Len(abc) /\ abc[j] \in Load
      BY <2>1, <2>2
    <3>2. Len(a) < i /\ j <= Len(a)
      BY <1>7, <3>1
    <3> QED
      BY <1>10, <3>2
  <2>3. ASSUME NEW i \in 1 .. Len(s), NEW j \in 1 .. Len(s), s[i] \in ClearsRD, s[j] \in Alloc
        PROVE  i < j
    <3>1. /\ i \in 1 .. Len(abc) /\ abc[i] \in ClearsRD
          /\ j \in 1 .. Len(abc) /\ abc[j] \in Alloc
      BY <2>1, <2>3
    <3>2. i <= Len(ab) /\ Len(ab) < j
      BY <1>7, <3>1
    <3> QED
      BY <1>10, <3>2
  <2> QED
    BY <2>2, <2>3
<1> QED
  BY <1>2, <1>11, <1>12, <1>13, <1>14, <1>15, Zenon DEF Ordered, NoPhase, LastPhase, last, Load, Alloc
-----------------------------------------------------------------------------
(* What a phase may take for granted between its steps. *)

\* All analyses but the reaching definitions.
Held == Analyses \ {"reachdef"}

\* What is known of the reaching definitions: there are none; their making has begun;
\* they are on the function but not yet in the cache; there are none or they are cached.
Modes == {"none", "open", "made", "any"}

RDIs(mode) ==
  /\ mode = "none" => fn.rd = 0 /\ ~fn.pseudo
  /\ mode = "open" => fn.rd = 0
  /\ mode = "made" => fn.rd = made + 1
  /\ mode = "any"  => fn.rd \in {0, cache["reachdef"]} /\ (fn.pseudo => fn.rd # 0)

\* A note of the analyses that may be in the cache, those known to be of the present
\* code, the reaching definitions and the merged blocks.
Notes == [cached : SUBSET Held, fresh : SUBSET Held, rd : Modes, sbb : {0, 1}]

Note(cached, fresh, mode, sbb) ==
  [cached |-> cached, fresh |-> fresh, rd |-> mode, sbb |-> sbb]

Calm(sbb, mode) == Note({}, {}, mode, sbb)

Describes(e) ==
  /\ e \in Notes
  /\ \A a \in e.fresh : cache[a] # 0 /\ madeFor[a] = fn.code
  /\ \A a \in Held : cache[a] # 0 => a \in e.cached
  /\ RDIs(e.rd) /\ fn.sbb = e.sbb

\* Phases that leave the merged blocks and the reaching definitions as they are, and
\* phases that work on reaching definitions.
Allocs  == {"regalloc"}
NeedsRD == {"storeloadopt", "globalopt"}

Steady(p, e, f) == p \in Allocs => f.rd = e.rd /\ f.sbb = e.sbb

\* What is known after a step of phase p, from what was known before it.
Does(p, e, op, f) ==
  /\ Steady(p, e, f)
  /\ \/ /\ op.do \in {"get", "made"} /\ op.a \in Held \ e.cached /\ e.rd # "made"
        /\ f = Note(e.cached \cup {op.a}, e.fresh \cup {op.a}, e.rd, e.sbb)
     \/ /\ op.do = "use" /\ op.a \in e.fresh /\ f = e
     \/ /\ op.do = "invalid" /\ op.a \in Held
        /\ f = Note(e.cached \ {op.a}, e.fresh \ {op.a}, e.rd, e.sbb)
     \/ /\ op.do = "change" /\ f = Note(e.cached, {}, e.rd, e.sbb)
     \/ /\ op.do = "get" /\ op.a = "reachdef" /\ p \in NeedsRD
        /\ e = Calm(0, "any") /\ f = e
     \/ /\ op.do = "needRD" /\ p \in NeedsRD /\ e = Calm(0, "any") /\ f = e
     \/ /\ op.do = "made" /\ op.a = "reachdef"
        /\ e \in {Calm(0, "none"), Calm(0, "made")} /\ f = Calm(0, "any")
     \/ /\ op.do = "invalid" /\ op.a = "reachdef" /\ e.rd = "none"
        /\ f.rd \in {"none", "any"} /\ f = Note(e.cached, e.fresh, f.rd, e.sbb)
     \/ /\ op.do = "addPseudo" /\ e.rd = "none"
        /\ f = Note(e.cached, {}, "open", e.sbb)
     \/ /\ op.do = "setRD" /\ e.rd = "open" /\ f = Note(e.cached, e.fresh, "made", e.sbb)
     \/ /\ op.do = "noRD" /\ e.rd = "none" /\ f = e
     \/ /\ op.do = "clearRD" /\ e.rd = "any"
        /\ f = Note(e.cached, {}, "none", e.sbb)
     \/ /\ op.do = "ifRD" /\ e = Calm(e.sbb, "any") /\ f = Calm(e.sbb, "none")
     \/ /\ op.do = "merge" /\ e.sbb = 0 /\ f = Note(e.cached, e.fresh, e.rd, 1)
     \/ /\ op.do \in {"split", "ifSBB"} /\ f = Note(e.cached, e.fresh, e.rd, 0)

Ops == [do : {"get", "made", "use", "invalid", "change", "needRD", "addPseudo", "setRD",
              "noRD", "clearRD", "ifRD", "merge", "split", "ifSBB"},
        a : Analyses \cup {""}]

\* The steps s take a phase p from e to f.
Leads(p, e, s, f) ==
  /\ s \in Seq(Ops)
  /\ \E h \in [1 .. Len(s) + 1 -> Notes] :
       /\ h[1] = e /\ h[Len(s) + 1] = f
       /\ \A i \in 1 .. Len(s) : Does(p, h[i], s[i], h[i + 1])

\* No step.
LEMMA LeadsNil ==
  ASSUME NEW p, NEW e \in Notes
  PROVE  Leads(p, e, <<>>, e)
<1>1. <<>> \in Seq(Ops) /\ Len(<<>>) = 0 /\ 1 .. 0 = {}
  OBVIOUS
<1> DEFINE h == [i \in 1 .. 0 + 1 |-> e]
<1>2. h \in [1 .. 0 + 1 -> Notes] /\ h[1] = e /\ h[0 + 1] = e
  OBVIOUS
<1> HIDE DEF h
<1> QED
  BY <1>1, <1>2 DEF Leads

\* One step.
LEMMA LeadsOne ==
  ASSUME NEW p, NEW e \in Notes, NEW f \in Notes, NEW op \in Ops, Does(p, e, op, f)
  PROVE  Leads(p, e, <<op>>, f)
<1> DEFINE s == <<op>>
           h == [i \in 1 .. 1 + 1 |-> IF i = 1 THEN e ELSE f]
<1>1. s \in Seq(Ops) /\ Len(s) = 1 /\ s[1] = op /\ 1 .. 1 = {1}
  OBVIOUS
<1>2. h \in [1 .. 1 + 1 -> Notes] /\ h[1] = e /\ h[1 + 1] = f
  OBVIOUS
<1> HIDE DEF s, h
<1>3. Leads(p, e, s, f)
  BY <1>1, <1>2 DEF Leads
<1> QED
  BY <1>3 DEF s

\* Steps after steps.
LEMMA LeadsConcat ==
  ASSUME NEW p, NEW e, NEW f, NEW g, NEW s, NEW t, Leads(p, e, s, f), Leads(p, f, t, g)
  PROVE  Leads(p, e, s \o t, g)
<1> DEFINE r == s \o t
           m == Len(s)
           n == Len(t)
<1>1. s \in Seq(Ops) /\ t \in Seq(Ops) /\ m \in Nat /\ n \in Nat
  BY LenProperties DEF Leads
<1>2. /\ r \in Seq(Ops) /\ Len(r) = m + n
      /\ \A i \in 1 .. m : r[i] = s[i]
      /\ \A i \in m + 1 .. m + n : r[i] = t[i - m]
  BY <1>1, ConcatProperties
<1>3. PICK h \in [1 .. m + 1 -> Notes] :
        /\ h[1] = e /\ h[m + 1] = f /\ \A i \in 1 .. m : Does(p, h[i], s[i], h[i + 1])
  BY DEF Leads
<1>4. PICK k \in [1 .. n + 1 -> Notes] :
        /\ k[1] = f /\ k[n + 1] = g /\ \A i \in 1 .. n : Does(p, k[i], t[i], k[i + 1])
  BY DEF Leads
<1> DEFINE z == [i \in 1 .. (m + n) + 1 |-> IF i <= m THEN h[i] ELSE k[i - m]]
<1> HIDE DEF r, m, n
<1>5. /\ z \in [1 .. (m + n) + 1 -> Notes] /\ z[(m + n) + 1] = g
      /\ \A i \in 1 .. m + 1 : z[i] = h[i]
      /\ \A i \in m + 1 .. (m + n) + 1 : z[i] = k[i - m]
  BY <1>1, <1>3, <1>4
<1> HIDE DEF z
<1>6. ASSUME NEW i \in 1 .. m + n PROVE Does(p, z[i], r[i], z[i + 1])
  <2>1. CASE i <= m
    <3>1. i \in 1 .. m /\ z[i] = h[i] /\ z[i + 1] = h[i + 1] /\ r[i] = s[i]
      BY <1>1, <1>2, <1>5, <2>1
    <3> QED
      BY <1>3, <3>1
  <2>2. CASE i > m
    <3>1. /\ i - m \in 1 .. n /\ z[i] = k[i - m] /\ z[i + 1] = k[(i - m) + 1]
          /\ r[i] = t[i - m]
      BY <1>1, <1>2, <1>5, <2>2
    <3> QED
      BY <1>4, <3>1
  <2> QED
    BY <1>1, <2>1, <2>2
<1>7. z[1] = e
  BY <1>1, <1>3, <1>5
<1>8. Leads(p, e, r, g)
  BY <1>2, <1>5, <1>6, <1>7 DEF Leads
<1> QED
  BY <1>8 DEF r

\* One step more.
LEMMA LeadsNext ==
  ASSUME NEW p, NEW e, NEW f, NEW g \in Notes, NEW s, NEW op \in Ops,
         Leads(p, e, s, f), Does(p, f, op, g)
  PROVE  Leads(p, e, Append(s, op), g)
<1>1. s \in Seq(Ops) /\ f \in Notes
  <2>1. s \in Seq(Ops) /\ Len(s) \in Nat
    BY LenProperties DEF Leads
  <2>2. Len(s) + 1 \in 1 .. Len(s) + 1
    BY <2>1
  <2> QED
    BY <2>1, <2>2 DEF Leads
<1>2. Append(s, op) = s \o <<op>>
  BY <1>1, AppendIsConcat
<1>3. Leads(p, f, <<op>>, g)
  BY <1>1, LeadsOne
<1> QED
  BY <1>2, <1>3, LeadsConcat

\* The first of the steps and the others.
LEMMA LeadsTail ==
  ASSUME NEW p, NEW e, NEW g, NEW s, s # <<>>, Leads(p, e, s, g)
  PROVE  \E f \in Notes : Does(p, e, Head(s), f) /\ Leads(p, f, Tail(s), g)
<1> DEFINE n == Len(s)
           t == Tail(s)
<1>1. /\ s \in Seq(Ops) /\ n \in Nat /\ n > 0
      /\ Head(s) = s[1] /\ t \in Seq(Ops) /\ Len(t) = n - 1
      /\ \A i \in 1 .. n - 1 : t[i] = s[i + 1]
  <2>1. s \in Seq(Ops)
    BY DEF Leads
  <2> QED
    BY <2>1, LenProperties, EmptySeq, HeadTailProperties
<1>2. PICK h \in [1 .. n + 1 -> Notes] :
        /\ h[1] = e /\ h[n + 1] = g /\ \A i \in 1 .. n : Does(p, h[i], s[i], h[i + 1])
  BY DEF Leads
<1> DEFINE k == [i \in 1 .. (n - 1) + 1 |-> h[i + 1]]
<1> HIDE DEF n, t
<1>3. /\ k \in [1 .. (n - 1) + 1 -> Notes] /\ k[1] = h[2] /\ k[(n - 1) + 1] = g
      /\ \A i \in 1 .. n - 1 : k[i] = h[i + 1] /\ k[i + 1] = h[(i + 1) + 1]
  BY <1>1, <1>2
<1> HIDE DEF k
<1>4. \A i \in 1 .. n - 1 : Does(p, k[i], t[i], k[i + 1])
  <2> SUFFICES ASSUME NEW i \in 1 .. n - 1 PROVE Does(p, k[i], t[i], k[i + 1])
    OBVIOUS
  <2>1. i + 1 \in 1 .. n
    BY <1>1
  <2> QED
    BY <1>1, <1>2, <1>3, <2>1
<1>5. Leads(p, h[2], t, g)
  BY <1>1, <1>3, <1>4 DEF Leads
<1>6. h[2] \in Notes /\ Does(p, e, Head(s), h[2])
  <2>1. 1 \in 1 .. n /\ 2 \in 1 .. n + 1 /\ 1 + 1 = 2
    BY <1>1
  <2> QED
    BY <1>1, <1>2, <2>1
<1> QED
  BY <1>5, <1>6 DEF t

\* When no step is left.
LEMMA LeadsDone ==
  ASSUME NEW p, NEW e, NEW f, Leads(p, e, <<>>, f)
  PROVE  e = f
<1>1. Len(<<>>) = 0 /\ 0 + 1 = 1
  OBVIOUS
<1> QED
  BY <1>1 DEF Leads
-----------------------------------------------------------------------------
(* Each step of a phase keeps what is known of it. *)

FnType == [hasBBs : BOOLEAN, code : Nat, rd : Nat, pseudo : BOOLEAN, sbb : Nat]

Typed ==
  /\ made \in Nat /\ cache \in [Analyses -> 0 .. made] /\ madeFor \in [Analyses -> Nat]
  /\ fn \in FnType

\* What is known, with the steps still to be taken and what they lead to.
Knows(p, e, x) == Describes(e) /\ Leads(p, e, todo, x)

\* A look at a result.
LEMMA LookKeeps ==
  ASSUME NEW p, NEW e, NEW x, Typed, Knows(p, e, x), Look
  PROVE  \E f : Knows(p, f, x)' /\ Steady(p, e, f)
<1>1. PICK f \in Notes : Does(p, e, Head(todo), f) /\ Leads(p, f, Tail(todo), x)
  BY LeadsTail DEF Look, Ready, Knows
<1> DEFINE op == Head(todo)
<1>2. op.do = "use" /\ todo' = Tail(todo) /\ UNCHANGED <<made, cache, madeFor, fn>>
  BY DEF Look, Ready
<1> HIDE DEF op
<1>3. f = e
  BY <1>1, <1>2 DEF Does, op
<1>4. Describes(f)'
  BY <1>2, <1>3 DEF Describes, RDIs, Knows
<1> QED
  BY <1>1, <1>2, <1>4 DEF Knows, Does

\* A result is deleted.
LEMMA InvalidKeeps ==
  ASSUME NEW p, NEW e, NEW x, Typed, Knows(p, e, x), InvalidAnalysisResult
  PROVE  \E f : Knows(p, f, x)' /\ Steady(p, e, f)
<1>1. PICK f \in Notes : Does(p, e, Head(todo), f) /\ Leads(p, f, Tail(todo), x)
  BY LeadsTail DEF InvalidAnalysisResult, Ready, Knows
<1> DEFINE op == Head(todo)
<1>2. /\ op.do = "invalid" /\ todo' = Tail(todo) /\ UNCHANGED <<made, madeFor, fn>>
      /\ cache' = [cache EXCEPT ![op.a] = 0]
  BY DEF InvalidAnalysisResult, Ready, Arg
<1> HIDE DEF op
<1>3. \/ op.a \in Held /\ f = Note(e.cached \ {op.a}, e.fresh \ {op.a}, e.rd, e.sbb)
      \/ /\ op.a = "reachdef" /\ e.rd = "none" /\ f.rd \in {"none", "any"}
         /\ f = Note(e.cached, e.fresh, f.rd, e.sbb)
  BY <1>1, <1>2 DEF Does, op
<1>4. Describes(e) /\ e \in Notes
  BY DEF Knows, Describes
<1>5. cache' = [a \in Analyses |-> IF a = op.a THEN 0 ELSE cache[a]]
  BY <1>2 DEF Typed
<1>6. CASE op.a \in Held /\ f = Note(e.cached \ {op.a}, e.fresh \ {op.a}, e.rd, e.sbb)
  <2>1. /\ f.cached = e.cached \ {op.a} /\ f.fresh = e.fresh \ {op.a} /\ f.rd = e.rd
        /\ f.sbb = e.sbb
    BY <1>4, <1>6 DEF Notes, Note
  <2>2. cache'["reachdef"] = cache["reachdef"] /\ \A a \in Held : a \in Analyses
    BY <1>5, <1>6 DEF Held, Analyses
  <2>3. RDIs(f.rd)'
    BY <1>2, <1>4, <2>1, <2>2 DEF RDIs, Describes
  <2>4. /\ \A a \in f.fresh : cache'[a] # 0 /\ madeFor[a] = fn.code
        /\ \A a \in Held : cache'[a] # 0 => a \in f.cached
    BY <1>4, <1>5, <2>1, <2>2 DEF Describes, Notes
  <2>5. Describes(f)'
    BY <1>1, <1>2, <1>4, <2>1, <2>3, <2>4 DEF Describes
  <2> QED
    BY <1>1, <1>2, <2>5 DEF Knows, Does
<1>7. CASE op.a = "reachdef" /\ e.rd = "none" /\ f.rd \in {"none", "any"}
           /\ f = Note(e.cached, e.fresh, f.rd, e.sbb)
  <2>1. f.cached = e.cached /\ f.fresh = e.fresh /\ f.sbb = e.sbb
    BY <1>4, <1>7 DEF Notes, Note
  <2>2. \A a \in Held : a \in Analyses /\ cache'[a] = cache[a]
    BY <1>5, <1>7 DEF Held
  <2>3. RDIs(f.rd)'
    BY <1>2, <1>4, <1>7 DEF RDIs, Describes
  <2>4. /\ \A a \in f.fresh : cache'[a] # 0 /\ madeFor[a] = fn.code
        /\ \A a \in Held : cache'[a] # 0 => a \in f.cached
    BY <1>4, <2>1, <2>2 DEF Describes, Notes
  <2>5. Describes(f)'
    BY <1>1, <1>2, <1>4, <2>1, <2>3, <2>4 DEF Describes
  <2> QED
    BY <1>1, <1>2, <2>5 DEF Knows, Does
<1> QED
  BY <1>3, <1>6, <1>7

\* An analysis returns its result.
LEMMA MadeKeeps ==
  ASSUME NEW p, NEW e, NEW x, Typed, Knows(p, e, x), Made
  PROVE  \E f : Knows(p, f, x)' /\ Steady(p, e, f)
<1>1. PICK f \in Notes : Does(p, e, Head(todo), f) /\ Leads(p, f, Tail(todo), x)
  BY LeadsTail DEF Made, Ready, Knows
<1> DEFINE op == Head(todo)
<1>2. /\ op.do = "made" /\ todo' = Tail(todo) /\ made' = made + 1 /\ fn' = fn
      /\ cache' = [cache EXCEPT ![op.a] = made + 1]
      /\ madeFor' = [madeFor EXCEPT ![op.a] = fn.code]
  BY DEF Made, Ready, Arg
<1> HIDE DEF op
<1>3. \/ /\ op.a \in Held /\ op.a \notin e.cached /\ e.rd # "made"
         /\ f = Note(e.cached \cup {op.a}, e.fresh \cup {op.a}, e.rd, e.sbb)
      \/ /\ op.a = "reachdef" /\ e \in {Calm(0, "none"), Calm(0, "made")}
         /\ f = Calm(0, "any")
  BY <1>1, <1>2 DEF Does, op
<1>4. Describes(e) /\ e \in Notes
  BY DEF Knows, Describes
<1>5. /\ cache' = [a \in Analyses |-> IF a = op.a THEN made + 1 ELSE cache[a]]
      /\ madeFor' = [a \in Analyses |-> IF a = op.a THEN fn.code ELSE madeFor[a]]
      /\ made + 1 # 0
  <2>1. cache' = [a \in Analyses |-> IF a = op.a THEN made + 1 ELSE cache[a]]
    BY <1>2 DEF Typed
  <2>2. madeFor' = [a \in Analyses |-> IF a = op.a THEN fn.code ELSE madeFor[a]]
    BY <1>2 DEF Typed
  <2>3. made + 1 # 0
    BY DEF Typed
  <2> QED
    BY <2>1, <2>2, <2>3
<1>6. CASE op.a \in Held /\ e.rd # "made" /\ op.a \notin e.cached
           /\ f = Note(e.cached \cup {op.a}, e.fresh \cup {op.a}, e.rd, e.sbb)
  <2>1. /\ f.cached = e.cached \cup {op.a} /\ f.fresh = e.fresh \cup {op.a} /\ f.rd = e.rd
        /\ f.sbb = e.sbb
    BY <1>4, <1>6 DEF Notes, Note
  <2>2. cache'["reachdef"] = cache["reachdef"] /\ \A a \in Held : a \in Analyses
    BY <1>5, <1>6 DEF Held, Analyses
  <2>3. RDIs(f.rd)'
    BY <1>2, <1>4, <1>6, <2>1, <2>2 DEF RDIs, Describes
  <2>4. /\ \A a \in f.fresh : cache'[a] # 0 /\ madeFor'[a] = fn.code
        /\ \A a \in Held : cache'[a] # 0 => a \in f.cached
    BY <1>4, <1>5, <1>6, <2>1, <2>2 DEF Describes, Notes
  <2>5. Describes(f)'
    BY <1>1, <1>2, <1>4, <2>1, <2>3, <2>4 DEF Describes
  <2> QED
    BY <1>1, <1>2, <2>5 DEF Knows, Does
<1>7. CASE op.a = "reachdef" /\ e \in {Calm(0, "none"), Calm(0, "made")}
           /\ f = Calm(0, "any")
  <2>1. /\ f.cached = e.cached /\ f.fresh = {} /\ f.sbb = e.sbb /\ f.rd = "any"
        /\ e.rd \in {"none", "made"}
    BY <1>7 DEF Calm, Note
  <2>2. /\ \A a \in Held : a \in Analyses /\ cache'[a] = cache[a]
        /\ cache'["reachdef"] = made + 1
    BY <1>5, <1>7 DEF Held, Analyses
  <2>3. RDIs(f.rd)'
    BY <1>2, <1>4, <1>5, <2>1, <2>2 DEF RDIs, Describes
  <2>4. \A a \in Held : cache'[a] # 0 => a \in f.cached
    BY <1>4, <2>1, <2>2 DEF Describes
  <2>5. Describes(f)'
    BY <1>1, <1>2, <1>4, <2>1, <2>3, <2>4 DEF Describes
  <2> QED
    BY <1>1, <1>2, <2>5 DEF Knows, Does
<1> QED
  BY <1>3, <1>6, <1>7

\* A step that changes the function.
LEMMA ActKeeps ==
  ASSUME NEW p, NEW e, NEW x, Typed, Knows(p, e, x), Act
  PROVE  \E f : Knows(p, f, x)' /\ Steady(p, e, f)
<1>1. PICK f \in Notes : Does(p, e, Head(todo), f) /\ Leads(p, f, Tail(todo), x)
  BY LeadsTail DEF Act, Ready, Knows
<1> DEFINE op == Head(todo)
<1>2. /\ op.do \in {"change", "addPseudo", "merge", "split", "noRD", "setRD", "clearRD"}
      /\ fn' = Effect(op.do) /\ todo' = Tail(todo) /\ UNCHANGED <<cache, made, madeFor>>
  BY DEF Act, Ready
<1> HIDE DEF op
<1>3. \/ op.do = "change" /\ f = Note(e.cached, {}, e.rd, e.sbb)
      \/ op.do = "addPseudo" /\ e.rd = "none" /\ f = Note(e.cached, {}, "open", e.sbb)
      \/ op.do = "setRD" /\ e.rd = "open" /\ f = Note(e.cached, e.fresh, "made", e.sbb)
      \/ op.do = "noRD" /\ e.rd = "none" /\ f = e
      \/ op.do = "clearRD" /\ f = Note(e.cached, {}, "none", e.sbb)
      \/ op.do = "merge" /\ e.sbb = 0 /\ f = Note(e.cached, e.fresh, e.rd, 1)
      \/ op.do = "split" /\ f = Note(e.cached, e.fresh, e.rd, 0)
  BY <1>1, <1>2 DEF Does, op
<1>4. Describes(e) /\ e \in Notes
  BY DEF Knows, Describes
<1>5. /\ f.cached = e.cached
      /\ \/ f.fresh = e.fresh /\ fn'.code = fn.code
         \/ f.fresh = {}
      /\ fn'.sbb = f.sbb
  <2>1. fn.sbb = e.sbb /\ fn \in FnType
    BY <1>4 DEF Describes, Typed
  <2>2. CASE op.do \in {"change", "addPseudo", "clearRD"}
    <3>1. f.fresh = {} /\ f.cached = e.cached /\ f.sbb = e.sbb
      BY <1>3, <1>4, <2>2 DEF Notes, Note
    <3>2. fn'.sbb = fn.sbb
      BY <1>2, <2>1, <2>2 DEF Effect, FnType
    <3> QED
      BY <2>1, <3>1, <3>2
  <2>3. CASE op.do \in {"setRD", "noRD"}
    <3>1. f.fresh = e.fresh /\ f.cached = e.cached /\ f.sbb = e.sbb
      BY <1>3, <1>4, <2>3 DEF Notes, Note
    <3>2. fn'.sbb = fn.sbb /\ fn'.code = fn.code
      BY <1>2, <2>1, <2>3 DEF Effect, FnType
    <3> QED
      BY <2>1, <3>1, <3>2
  <2>4. CASE op.do \in {"merge", "split"}
    <3>1. /\ f.fresh = e.fresh /\ f.cached = e.cached
          /\ f.sbb = IF op.do = "merge" THEN 1 ELSE 0
          /\ op.do = "merge" => e.sbb = 0
      BY <1>3, <1>4, <2>4 DEF Notes, Note
    <3>2. /\ fn'.sbb = IF op.do = "merge" THEN fn.sbb + 1 ELSE 0
          /\ fn'.code = fn.code
      BY <1>2, <2>1, <2>4 DEF Effect, FnType
    <3> QED
      BY <2>1, <3>1, <3>2
  <2> QED
    BY <1>2, <2>2, <2>3, <2>4
<1>6. RDIs(f.rd)'
  BY <1>2, <1>3, <1>4 DEF Effect, Note, Notes, Typed, FnType, Describes, RDIs
<1>7. Describes(f)'
  <2>1. \A a \in f.fresh : cache[a] # 0 /\ madeFor[a] = fn'.code
    BY <1>4, <1>5 DEF Describes
  <2> QED
    BY <1>1, <1>2, <1>4, <1>5, <1>6, <2>1 DEF Describes
<1> QED
  BY <1>1, <1>2, <1>7 DEF Knows, Does

\* Sequences that are written down.
LEMMA Tuples ==
  ASSUME NEW S, NEW u \in S, NEW v \in S, NEW w \in S
  PROVE  /\ Append(<<u>>, v) = <<u, v>>
         /\ Append(Append(<<u>>, v), w) = <<u, v, w>>
<1>1. ASSUME NEW s \in Seq(S), Len(s) = 2, s[1] = u, s[2] = v PROVE s = <<u, v>>
  BY <1>1
<1>2. ASSUME NEW s \in Seq(S), Len(s) = 3, s[1] = u, s[2] = v, s[3] = w
      PROVE  s = <<u, v, w>>
  BY <1>2, SeqEqual
<1> DEFINE a == Append(<<u>>, v)
           b == Append(a, w)
<1>3. a \in Seq(S) /\ Len(a) = 2 /\ a[1] = u /\ a[2] = v
  OBVIOUS
<1> HIDE DEF a
<1>4. b \in Seq(S) /\ Len(b) = 3 /\ b[1] = u /\ b[2] = v /\ b[3] = w
  <2>1. ASSUME NEW t \in Seq(S), Len(t) = 2
        PROVE  /\ Append(t, w) \in Seq(S) /\ Len(Append(t, w)) = 3
               /\ Append(t, w)[1] = t[1] /\ Append(t, w)[2] = t[2] /\ Append(t, w)[3] = w
    <3> DEFINE r == Append(t, w)
               n == Len(t)
    <3>1. /\ r \in Seq(S) /\ Len(r) = n + 1 /\ \A i \in 1 .. n : r[i] = t[i]
          /\ r[n + 1] = w
      BY LenProperties, AppendProperties
    <3> HIDE DEF r, n
    <3>2. n = 2
      BY <2>1 DEF n
    <3>3. 1 \in 1 .. n /\ 2 \in 1 .. n /\ n + 1 = 3
      BY <3>2
    <3> QED
      BY <3>1, <3>3, Zenon DEF r
  <2> QED
    BY <1>3, <2>1
<1> HIDE DEF b
<1> QED
  BY <1>1, <1>2, <1>3, <1>4 DEF a, b

\* What each step does to a note.
LEMMA DoesRules ==
  ASSUME NEW p, NEW C, NEW F, NEW m \in Modes, NEW b \in {0, 1},
         C \subseteq Held, F \subseteq Held
  PROVE  /\ Note(C, F, m, b) \in Notes
         /\ \A a \in Held : /\ Get(a) \in Ops /\ Use(a) \in Ops /\ Invalid(a) \in Ops
                            /\ [do |-> "made", a |-> a] \in Ops
         /\ m # "made" => \A a \in Held :
              a \notin C => /\ Does(p, Note(C, F, m, b), Get(a), Note(C \cup {a}, F \cup {a}, m, b))
                            /\ Does(p, Note(C, F, m, b), [do |-> "made", a |-> a],
                                    Note(C \cup {a}, F \cup {a}, m, b))
         /\ \A a \in F : Does(p, Note(C, F, m, b), Use(a), Note(C, F, m, b))
         /\ \A a \in Held :
              Does(p, Note(C, F, m, b), Invalid(a), Note(C \ {a}, F \ {a}, m, b))
         /\ Step("change") \in Ops /\ Does(p, Note(C, F, m, b), Step("change"), Note(C, {}, m, b))
<1>1. Note(C, F, m, b) \in Notes
  BY DEF Note, Notes
<1>2. Step("change") \in Ops /\ \A a \in Held : /\ Get(a) \in Ops /\ Use(a) \in Ops /\ Invalid(a) \in Ops
                         /\ [do |-> "made", a |-> a] \in Ops
  BY DEF Ops, Get, Use, Invalid, Held, Step
<1>3. ASSUME m # "made", NEW a \in Held, a \notin C
      PROVE  /\ Does(p, Note(C, F, m, b), Get(a), Note(C \cup {a}, F \cup {a}, m, b))
             /\ Does(p, Note(C, F, m, b), [do |-> "made", a |-> a],
                                    Note(C \cup {a}, F \cup {a}, m, b))
  BY <1>3 DEF Does, Steady, Note, Get
<1>4. ASSUME NEW a \in F
      PROVE  Does(p, Note(C, F, m, b), Use(a), Note(C, F, m, b))
  BY <1>4 DEF Does, Steady, Note, Use
<1>5. ASSUME NEW a \in Held
      PROVE  Does(p, Note(C, F, m, b), Invalid(a), Note(C \ {a}, F \ {a}, m, b))
  BY <1>5 DEF Does, Steady, Note, Invalid
<1>6. Does(p, Note(C, F, m, b), Step("change"), Note(C, {}, m, b))
  BY DEF Does, Steady, Note, Step
<1> QED
  BY <1>1, <1>2, <1>3, <1>4, <1>5, <1>6

\* What each step that is not about the other analyses does.
LEMMA DoesRulesRD ==
  ASSUME NEW p, p \notin Allocs, NEW C, NEW F, NEW m \in Modes, NEW b \in {0, 1}
  PROVE  /\ {Step("noRD"), Step("addPseudo"), Step("merge"), Step("setRD"), Step("split"),
             Step("ifSBB"), Step("ifRD"), Step("clearRD"), Step("needRD"), Get("reachdef"),
             Invalid("reachdef"), [do |-> "made", a |-> "reachdef"]} \subseteq Ops
         /\ Modes = {"none", "open", "made", "any"}
         /\ Does(p, Note(C, F, "none", b), Step("noRD"), Note(C, F, "none", b))
         /\ Does(p, Note(C, F, "none", b), Step("addPseudo"), Note(C, {}, "open", b))
         /\ Does(p, Note(C, F, m, 0), Step("merge"), Note(C, F, m, 1))
         /\ Does(p, Note(C, F, "open", b), Step("setRD"), Note(C, F, "made", b))
         /\ \A op \in {Step("split"), Step("ifSBB")} :
              Does(p, Note(C, F, m, b), op, Note(C, F, m, 0))
         /\ Does(p, Calm(b, "any"), Step("ifRD"), Calm(b, "none"))
         /\ Does(p, Note(C, F, "any", b), Step("clearRD"), Note(C, {}, "none", b))
         /\ Does(p, Note(C, F, "none", b), Invalid("reachdef"), Note(C, F, "none", b))
         /\ Does(p, Note(C, F, "none", b), Invalid("reachdef"), Note(C, F, "any", b))
         /\ \A e \in {Calm(0, "none"), Calm(0, "made")} :
              Does(p, e, [do |-> "made", a |-> "reachdef"], Calm(0, "any"))
         /\ p \in NeedsRD => \A op \in {Step("needRD"), Get("reachdef")} :
              Does(p, Calm(0, "any"), op, Calm(0, "any"))
<1>1. /\ {Step("noRD"), Step("addPseudo"), Step("merge"), Step("setRD"), Step("split"),
          Step("ifSBB"), Step("ifRD"), Step("clearRD"), Step("needRD"), Get("reachdef"),
          Invalid("reachdef"), [do |-> "made", a |-> "reachdef"]} \subseteq Ops
      /\ Modes = {"none", "open", "made", "any"}
  BY DEF Ops, Step, Get, Invalid, Analyses, Modes
<1>2. Does(p, Note(C, F, "none", b), Step("noRD"), Note(C, F, "none", b))
  BY DEF Does, Steady, Note, Step
<1>3. Does(p, Note(C, F, "none", b), Step("addPseudo"), Note(C, {}, "open", b))
  BY DEF Does, Steady, Note, Step
<1>4. Does(p, Note(C, F, m, 0), Step("merge"), Note(C, F, m, 1))
  BY DEF Does, Steady, Note, Step
<1>5. Does(p, Note(C, F, "open", b), Step("setRD"), Note(C, F, "made", b))
  BY DEF Does, Steady, Note, Step
<1>6. \A op \in {Step("split"), Step("ifSBB")} : Does(p, Note(C, F, m, b), op, Note(C, F, m, 0))
  <2>1. Does(p, Note(C, F, m, b), Step("split"), Note(C, F, m, 0))
    BY DEF Does, Steady, Note, Step
  <2>2. Does(p, Note(C, F, m, b), Step("ifSBB"), Note(C, F, m, 0))
    BY DEF Does, Steady, Note, Step
  <2> QED
    BY <2>1, <2>2
<1>7. Does(p, Calm(b, "any"), Step("ifRD"), Calm(b, "none"))
  BY DEF Does, Steady, Note, Step, Calm
<1>8. Does(p, Note(C, F, "any", b), Step("clearRD"), Note(C, {}, "none", b))
  BY DEF Does, Steady, Note, Step
<1>9. \A n \in {"none", "any"} :
        Does(p, Note(C, F, "none", b), Invalid("reachdef"), Note(C, F, n, b))
  BY DEF Does, Steady, Note, Invalid
<1>10. \A e \in {Calm(0, "none"), Calm(0, "made")} :
         Does(p, e, [do |-> "made", a |-> "reachdef"], Calm(0, "any"))
  BY DEF Does, Steady
<1>11. p \in NeedsRD => \A op \in {Step("needRD"), Get("reachdef")} :
         Does(p, Calm(0, "any"), op, Calm(0, "any"))
  <2>1. p \in NeedsRD => Does(p, Calm(0, "any"), Step("needRD"), Calm(0, "any"))
    BY DEF Does, Steady, Step
  <2>2. p \in NeedsRD => Does(p, Calm(0, "any"), Get("reachdef"), Calm(0, "any"))
    BY DEF Does, Steady, Get
  <2> QED
    BY <2>1, <2>2
<1> QED
  BY <1>1, <1>2, <1>3, <1>4, <1>5, <1>6, <1>7, <1>8, <1>9, <1>10, <1>11

\* Making the reaching definitions.
LEMMA ReachingDefinitionLeads ==
  ASSUME NEW p, p \notin Allocs, NEW run \in CgDoReachingDefinition
  PROVE  Leads(p, Calm(0, "none"), run \o <<[do |-> "made", a |-> "reachdef"]>>, Calm(0, "any"))
<1> DEFINE none  == Calm(0, "none")
           open  == Calm(0, "open")
           any   == Calm(0, "any")
           l     == "live"
           n     == "loopnoeh"
           ready == [do |-> "made", a |-> "reachdef"]
           s1    == Step("addPseudo")
           s2    == Step("merge")
           s7    == Step("setRD")
           s10   == Step("split")
           C     == ({} \cup {l}) \cup {n}
           D     == (C \ {l}) \ {n}
<1>1. run = <<Step("noRD")>>
      \/ run = <<s1, s2, Get(l), Get(n), Use(l), Use(n), s7, Invalid(l), Invalid(n), s10>>
  BY DEF CgDoReachingDefinition
<1>2. l \in Held /\ n \in Held /\ l # n
  BY DEF Held, Analyses
<1>3. /\ Does(p, none, Step("noRD"), none) /\ Does(p, none, ready, any)
      /\ Does(p, none, s1, open)
      /\ Does(p, open, s2, Note({}, {}, "open", 1))
      /\ Does(p, Note(C, C, "open", 1), s7, Note(C, C, "made", 1))
      /\ Does(p, Note(D, D, "made", 1), s10, Note(D, D, "made", 0))
      /\ Does(p, Calm(0, "made"), ready, any)
      /\ {Step("noRD"), s1, s2, s7, s10, ready} \subseteq Ops
  <2> HIDE DEF C, D
  <2>1. \A X : /\ Does(p, Note(X, X, "none", 0), Step("noRD"), Note(X, X, "none", 0))
               /\ Does(p, Note(X, X, "none", 0), s1, Note(X, {}, "open", 0))
               /\ Does(p, Note(X, X, "open", 0), s2, Note(X, X, "open", 1))
               /\ Does(p, Note(X, X, "open", 1), s7, Note(X, X, "made", 1))
               /\ Does(p, Note(X, X, "made", 1), s10, Note(X, X, "made", 0))
    <3>1. "open" \in Modes /\ "made" \in Modes
      BY DEF Modes
    <3> QED
      BY <3>1, DoesRulesRD
  <2>2. /\ Does(p, none, ready, any) /\ Does(p, Calm(0, "made"), ready, any)
        /\ {Step("noRD"), s1, s2, s7, s10, ready} \subseteq Ops
    <3>1. "made" \in Modes
      BY DEF Modes
    <3> QED
      BY <3>1, DoesRulesRD
  <2> QED
    BY <2>1, <2>2 DEF Calm
<1>4. /\ "none" \in Modes /\ "open" \in Modes /\ "made" \in Modes /\ "any" \in Modes
      /\ "open" # "made" /\ "made" # "none"
  BY DEF Modes
<1> HIDE DEF l, n, s1, s2, s7, s10, ready, D, C
<1>5. D = {} /\ C \subseteq Held /\ l \in C /\ n \in C /\ n \notin {} \cup {l}
  BY <1>2 DEF C, D
<1>6. /\ {none, open, any, Note({}, {}, "open", 1), Note(C, C, "open", 1),
          Note(C, C, "made", 1), Note(D, D, "made", 0), Note(D, D, "made", 1)} \subseteq Notes
      /\ {Get(l), Get(n), Use(l), Use(n), Invalid(l), Invalid(n)} \subseteq Ops
  <2>1. \A X \in SUBSET Held : \A m \in Modes : \A b \in {0, 1} : Note(X, X, m, b) \in Notes
    BY DEF Note, Notes
  <2>2. {} \in SUBSET Held /\ C \in SUBSET Held /\ D = {}
    BY <1>5
  <2>3. {Get(l), Get(n), Use(l), Use(n), Invalid(l), Invalid(n)} \subseteq Ops
    BY <1>2, <1>4, <2>2, DoesRules
  <2> QED
    BY <1>4, <2>1, <2>2, <2>3 DEF Calm
<1> DEFINE two == {} \cup {l}
           three == C \ {l}
<1>7. /\ Does(p, Note({}, {}, "open", 1), Get(l), Note(two, two, "open", 1))
      /\ Note(two, two, "open", 1) \in Notes
      /\ two \subseteq Held /\ three \subseteq Held /\ n \notin two
  BY <1>2, <1>4, <1>5, DoesRules
<1>8. Does(p, Note(two, two, "open", 1), Get(n), Note(C, C, "open", 1))
  <2>1. C = two \cup {n}
    BY DEF C
  <2> HIDE DEF two
  <2> QED
    BY <1>2, <1>4, <1>7, <2>1, DoesRules
<1>9. Does(p, Note(C, C, "made", 1), Invalid(l), Note(three, three, "made", 1))
  BY <1>2, <1>4, <1>5, DoesRules
<1>10. /\ Does(p, Note(three, three, "made", 1), Invalid(n), Note(D, D, "made", 1))
       /\ Note(three, three, "made", 1) \in Notes
  <2>1. D = three \ {n}
    BY DEF D
  <2> HIDE DEF three
  <2> QED
    BY <1>2, <1>4, <1>7, <2>1, DoesRules
<1>11. /\ Does(p, Note(C, C, "open", 1), Use(l), Note(C, C, "open", 1))
       /\ Does(p, Note(C, C, "open", 1), Use(n), Note(C, C, "open", 1))
  BY <1>4, <1>5, DoesRules
<1> HIDE DEF none, open, any, two, three
<1>12. CASE run = <<Step("noRD")>>
  <2>1. Leads(p, none, <<Step("noRD")>>, none) /\ Leads(p, none, <<ready>>, any)
    BY <1>3, <1>6, LeadsOne
  <2> QED
    BY <1>12, <2>1, LeadsConcat DEF none, any, ready
<1>13. CASE run = <<s1, s2, Get(l), Get(n), Use(l), Use(n), s7, Invalid(l), Invalid(n), s10>>
  <2> DEFINE gl == Get(l)
             gn == Get(n)
             ul == Use(l)
             un == Use(n)
             il == Invalid(l)
             in == Invalid(n)
  <2>1. Leads(p, none, Append(Append(<<s1>>, s2), gl), Note(two, two, "open", 1))
    BY <1>3, <1>6, <1>7, LeadsOne, LeadsNext DEF open
  <2>2. Leads(p, Note(two, two, "open", 1), Append(Append(<<gn>>, ul), un), Note(C, C, "open", 1))
    BY <1>6, <1>7, <1>8, <1>11, LeadsOne, LeadsNext
  <2>3. Leads(p, Note(C, C, "open", 1), Append(Append(<<s7>>, il), in), Note(D, D, "made", 1))
    BY <1>3, <1>6, <1>9, <1>10, LeadsOne, LeadsNext
  <2>4. Leads(p, Note(D, D, "made", 1), Append(<<s10>>, ready), any)
    BY <1>3, <1>5, <1>6, LeadsOne, LeadsNext DEF Calm
  <2> DEFINE a == Append(Append(<<s1>>, s2), gl)
             b == Append(Append(<<gn>>, ul), un)
             c == Append(Append(<<s7>>, il), in)
             d == Append(<<s10>>, ready)
  <2>5. Leads(p, none, ((a \o b) \o c) \o d, any)
    BY <2>1, <2>2, <2>3, <2>4, LeadsConcat
  <2>6. run \o <<ready>> = ((a \o b) \o c) \o d
    <3> HIDE DEF gl, gn, ul, un, il, in
    <3>1. /\ s1 \in Ops /\ s2 \in Ops /\ s7 \in Ops /\ s10 \in Ops /\ ready \in Ops
          /\ gl \in Ops /\ gn \in Ops /\ ul \in Ops /\ un \in Ops /\ il \in Ops /\ in \in Ops
      BY <1>3, <1>6 DEF gl, gn, ul, un, il, in
    <3>2. run = <<s1, s2, gl, gn, ul, un, s7, il, in, s10>>
      BY <1>13 DEF gl, gn, ul, un, il, in
    <3>3. <<s1, s2, gl, gn, ul, un, s7, il, in, s10>> \o <<ready>>
            = ((<<s1, s2, gl>> \o <<gn, ul, un>>) \o <<s7, il, in>>) \o <<s10, ready>>
      BY <3>1
    <3>4. a = <<s1, s2, gl>> /\ b = <<gn, ul, un>> /\ c = <<s7, il, in>> /\ d = <<s10, ready>>
      BY <3>1, Tuples
    <3> QED
      BY <3>2, <3>3, <3>4
  <2> QED
    BY <2>5, <2>6 DEF none, any, ready
<1> QED
  BY <1>1, <1>12, <1>13 DEF l, n, s1, s2, s7, s10

\* A phase asks for a result.
LEMMA GetKeeps ==
  ASSUME NEW p, NEW e, NEW x, Typed, Knows(p, e, x), GetAnalysisResult,
         NeedsRD \cap Allocs = {}
  PROVE  \E f : Knows(p, f, x)' /\ Steady(p, e, f)
<1>1. PICK f \in Notes : Does(p, e, Head(todo), f) /\ Leads(p, f, Tail(todo), x)
  BY LeadsTail DEF GetAnalysisResult, Ready, Knows
<1> DEFINE op == Head(todo)
           rest == Tail(todo)
           ready == [do |-> "made", a |-> op.a]
<1>2. /\ op.do = "get" /\ UNCHANGED <<made, cache, madeFor, fn>>
      /\ IF cache[op.a] # 0 THEN todo' = rest
         ELSE \E run \in Analysis(op.a) : todo' = run \o <<ready>> \o rest
  BY DEF GetAnalysisResult, Ready, Arg, mgrVars
<1> HIDE DEF op
<1>3. \/ /\ op.a \in Held /\ op.a \notin e.cached /\ e.rd # "made"
         /\ f = Note(e.cached \cup {op.a}, e.fresh \cup {op.a}, e.rd, e.sbb)
      \/ op.a = "reachdef" /\ p \in NeedsRD /\ e = Calm(0, "any") /\ f = e
  BY <1>1, <1>2 DEF Does, op
<1>4. Describes(e) /\ e \in Notes /\ Describes(e)'
  BY <1>2 DEF Knows, Describes, RDIs
<1>5. CASE op.a \in Held /\ op.a \notin e.cached /\ e.rd # "made"
           /\ f = Note(e.cached \cup {op.a}, e.fresh \cup {op.a}, e.rd, e.sbb)
  <2>1. cache[op.a] = 0 /\ Analysis(op.a) = {<<>>}
    BY <1>4, <1>5 DEF Describes, Analysis, Held
  <2>2. todo' = <<>> \o <<ready>> \o rest
    BY <1>2, <2>1
  <2>3. ready \in Ops /\ Does(p, e, ready, f)
    BY <1>5 DEF Does, Steady, Ops, Held, Note
  <2> HIDE DEF rest, ready
  <2>4. Leads(p, e, <<>>, e) /\ Leads(p, e, <<ready>>, f) /\ Leads(p, f, rest, x)
    BY <1>1, <1>4, <2>3, LeadsNil, LeadsOne DEF rest
  <2>5. Leads(p, e, todo', x)
    BY <2>2, <2>4, LeadsConcat
  <2> QED
    BY <1>4, <2>5 DEF Knows, Steady
<1>6. CASE op.a = "reachdef" /\ p \in NeedsRD /\ e = Calm(0, "any") /\ f = e
  <2>1. CASE cache["reachdef"] # 0
    BY <1>1, <1>2, <1>4, <1>6, <2>1 DEF Knows, Steady
  <2>2. CASE cache["reachdef"] = 0
    <3> DEFINE g == Calm(0, "none")
    <3>1. Describes(g)'
      <4>1. fn.rd = 0 /\ ~fn.pseudo
        BY <1>4, <1>6, <2>2 DEF Describes, RDIs, Calm, Note
      <4>2. RDIs("none")'
        BY <1>2, <4>1 DEF RDIs
      <4>3. /\ g.rd = "none" /\ g.cached = e.cached /\ g.fresh = e.fresh /\ g.sbb = e.sbb
            /\ g \in Notes
        BY <1>4, <1>6 DEF Calm, Note, Notes, Modes
      <4> HIDE DEF g
      <4> QED
        BY <1>4, <4>2, <4>3 DEF Describes
    <3>2. PICK run \in CgDoReachingDefinition : todo' = run \o <<ready>> \o rest
      BY <1>2, <1>6, <2>2 DEF Analysis
    <3>3. Leads(p, g, run \o <<ready>>, e)
      <4>1. p \notin Allocs
        BY <1>6
      <4> QED
        BY <1>6, <4>1, ReachingDefinitionLeads
    <3>4. Leads(p, g, todo', x)
      <4> HIDE DEF rest, ready, g
      <4> QED
        BY <1>1, <1>6, <3>2, <3>3, LeadsConcat DEF rest
    <3>5. Steady(p, e, g)
      BY <1>6 DEF Steady
    <3> HIDE DEF g
    <3> QED
      BY <3>1, <3>4, <3>5 DEF Knows
  <2> QED
    BY <2>1, <2>2
<1> QED
  BY <1>3, <1>5, <1>6

\* How a phase is left.
Exit(p, m) ==
  Calm(IF p \in LeavesMerged THEN 1 ELSE 0,
       IF p \in ClearsRD THEN "none" ELSE IF p \in NeedsRD THEN "any" ELSE m)

\* Where a phase goes on depends on the function.
LEMMA BranchKeeps ==
  ASSUME NEW p, NEW m, NEW e, Typed, Knows(p, e, Exit(p, m)), Branch,
         p \in NeedsRD => p \notin LeavesMerged /\ p \notin Allocs
  PROVE  \E f : Knows(p, f, Exit(p, m))' /\ Steady(p, e, f)
<1> DEFINE x == Exit(p, m)
           op == Head(todo)
           rest == Tail(todo)
<1> HIDE DEF x
<1>0. todo # <<>>
  BY DEF Branch, Ready
<1>1. PICK f \in Notes : Does(p, e, op, f) /\ Leads(p, f, rest, x)
  BY <1>0, LeadsTail DEF Knows, x
<1>2. /\ UNCHANGED <<made, cache, madeFor, fn>>
      /\ \/ op.do = "ifRD" /\ todo' = When(fn.rd # 0, ClearRD) \o rest
         \/ op.do = "ifSBB" /\ todo' = When(fn.sbb # 0, <<Step("split")>>) \o rest
         \/ op.do = "needRD" /\ todo' = IF fn.rd = 0 \/ cache["reachdef"] = 0
                                        THEN <<Invalid("reachdef")>> ELSE rest
  BY DEF Branch, Ready
<1>3. Leads(p, f, <<>> \o rest, x)
  BY <1>1, LeadsNil, LeadsConcat
<1> HIDE DEF op, rest
<1>4. Describes(e) /\ e \in Notes /\ \A g : Describes(g) => Describes(g)'
  BY <1>2 DEF Knows, Describes, RDIs
<1>5. CASE op.do = "ifRD" /\ todo' = When(fn.rd # 0, ClearRD) \o rest
  <2>1. e = Calm(e.sbb, "any") /\ f = Calm(e.sbb, "none") /\ Steady(p, e, f)
    BY <1>1, <1>5 DEF Does
  <2>2. p \notin Allocs
    BY <2>1 DEF Steady, Calm, Note
  <2>3. CASE fn.rd # 0
    <3> DEFINE o1 == Step("clearRD")
               o2 == Invalid("live")
               o3 == Invalid("reachdef")
               b  == e.sbb
    <3>1. todo' = <<o1, o2, o3>> \o rest
      BY <1>5, <2>3 DEF When, ClearRD
    <3>2. /\ Does(p, Note({}, {}, "any", b), o1, Note({}, {}, "none", b))
          /\ Does(p, Note({}, {}, "none", b), o2, Note({}, {}, "none", b))
          /\ Does(p, Note({}, {}, "none", b), o3, Note({}, {}, "none", b))
          /\ o1 \in Ops /\ o2 \in Ops /\ o3 \in Ops
          /\ {Note({}, {}, "any", b), Note({}, {}, "none", b)} \subseteq Notes
      <4>1. "live" \in Held /\ "none" \in Modes /\ "any" \in Modes /\ b \in {0, 1}
        BY <1>4 DEF Held, Analyses, Modes, Notes
      <4>2. {} \ {"live"} = {}
        OBVIOUS
      <4>3. /\ Does(p, Note({}, {}, "none", b), Invalid("live"),
                    Note({} \ {"live"}, {} \ {"live"}, "none", b))
            /\ Invalid("live") \in Ops
            /\ Note({}, {}, "any", b) \in Notes /\ Note({}, {}, "none", b) \in Notes
        <5> HIDE DEF b
        <5> QED
          BY <4>1, DoesRules
      <4>4. /\ Does(p, Note({}, {}, "any", b), o1, Note({}, {}, "none", b))
            /\ Does(p, Note({}, {}, "none", b), o3, Note({}, {}, "none", b))
            /\ o1 \in Ops /\ o3 \in Ops
        <5> HIDE DEF b
        <5> QED
          BY <2>2, <4>1, DoesRulesRD
      <4> QED
        BY <4>2, <4>3, <4>4
    <3> HIDE DEF o1, o2, o3, b
    <3>3. Leads(p, e, Append(Append(<<o1>>, o2), o3), f)
      BY <2>1, <3>2, LeadsOne, LeadsNext DEF b, Calm
    <3>4. Leads(p, e, todo', x)
      BY <1>1, <3>1, <3>2, <3>3, Tuples, LeadsConcat
    <3> QED
      BY <1>4, <3>4 DEF Knows, Steady, x
  <2>4. CASE fn.rd = 0
    <3>1. todo' = <<>> \o rest
      BY <1>5, <2>4 DEF When
    <3>2. RDIs("none")
      BY <1>4, <2>1, <2>4 DEF Describes, RDIs, Calm, Note
    <3>3. /\ f.rd = "none" /\ f.cached = e.cached /\ f.fresh = e.fresh /\ f.sbb = e.sbb
      BY <2>1 DEF Calm, Note
    <3>4. Describes(f)
      BY <1>1, <1>4, <3>2, <3>3 DEF Describes
    <3> QED
      BY <1>3, <1>4, <2>1, <3>1, <3>4 DEF Knows, x
  <2> QED
    BY <2>3, <2>4
<1>6. CASE op.do = "ifSBB" /\ todo' = When(fn.sbb # 0, <<Step("split")>>) \o rest
  <2>1. Steady(p, e, f) /\ f = Note(e.cached, e.fresh, e.rd, 0)
    BY <1>1, <1>6 DEF Does
  <2>2. CASE fn.sbb # 0
    <3> DEFINE o1 == Step("split")
    <3>1. todo' = <<o1>> \o rest
      BY <1>6, <2>2 DEF When
    <3>2. Does(p, e, o1, f) /\ o1 \in Ops
      BY <2>1 DEF Does, Step, Ops
    <3> HIDE DEF o1
    <3>3. Leads(p, e, todo', x)
      BY <1>1, <1>4, <3>1, <3>2, LeadsOne, LeadsConcat
    <3> QED
      BY <1>4, <3>3 DEF Knows, Steady, x
  <2>3. CASE fn.sbb = 0
    <3>1. todo' = <<>> \o rest
      BY <1>6, <2>3 DEF When
    <3>2. f.rd = e.rd /\ f.cached = e.cached /\ f.fresh = e.fresh /\ f.sbb = 0
      BY <2>1 DEF Note
    <3>3. Describes(f)
      BY <1>1, <1>4, <2>3, <3>2 DEF Describes
    <3> QED
      BY <1>3, <1>4, <2>1, <3>1, <3>3 DEF Knows, x
  <2> QED
    BY <2>2, <2>3
<1>7. CASE /\ op.do = "needRD"
           /\ todo' = IF fn.rd = 0 \/ cache["reachdef"] = 0
                      THEN <<Invalid("reachdef")>> ELSE rest
  <2>1. p \in NeedsRD /\ e = Calm(0, "any") /\ f = e
    BY <1>1, <1>7 DEF Does
  <2>2. CASE fn.rd = 0 \/ cache["reachdef"] = 0
    <3> DEFINE g == Calm(0, "none")
               o1 == Invalid("reachdef")
    <3>1. todo' = <<o1>>
      BY <1>7, <2>2
    <3>2. x = Calm(0, "none") \/ x = Calm(0, "any")
      BY <2>1 DEF x, Exit
    <3>3. /\ g.rd = "none" /\ g.cached = e.cached /\ g.fresh = e.fresh /\ g.sbb = e.sbb
          /\ g \in Notes /\ e \in Notes
      BY <1>4, <2>1 DEF Calm, Note, Notes, Modes
    <3>4. RDIs("none")
      BY <1>4, <2>1, <2>2 DEF Describes, RDIs, Calm, Note
    <3>5. Does(p, g, o1, x) /\ o1 \in Ops
      <4>1. p \notin Allocs /\ "none" \in Modes
        BY <2>1 DEF Modes
      <4> QED
        BY <3>2, <4>1, DoesRulesRD DEF Calm
    <3> HIDE DEF g, o1
    <3>6. Leads(p, g, <<o1>>, x)
      BY <2>1, <3>2, <3>3, <3>5, LeadsOne DEF g
    <3>7. Describes(g)
      BY <1>4, <3>3, <3>4 DEF Describes
    <3>8. Steady(p, e, g)
      BY <2>1 DEF Steady
    <3> QED
      BY <1>4, <3>1, <3>6, <3>7, <3>8 DEF Knows, x
  <2>3. CASE ~(fn.rd = 0 \/ cache["reachdef"] = 0)
    BY <1>1, <1>4, <1>7, <2>1, <2>3 DEF Knows, Steady, x
  <2> QED
    BY <2>2, <2>3
<1> QED
  BY <1>2, <1>5, <1>6, <1>7

\* How a phase is begun.
Entry(p, m) ==
  Calm(IF p \in TakesMerged THEN 1 ELSE 0,
       IF p \in NeedsRD \cup ClearsRD THEN "any" ELSE m)

\* A change of the code.
LEMMA ChangeLeads ==
  ASSUME NEW p, NEW b \in {0, 1}, NEW m \in Modes
  PROVE  Leads(p, Calm(b, m), <<Step("change")>>, Calm(b, m))
<1>1. /\ Calm(b, m) \in Notes /\ Step("change") \in Ops
      /\ Does(p, Calm(b, m), Step("change"), Calm(b, m))
  BY DoesRules DEF Calm
<1> QED
  BY <1>1, LeadsOne

\* An optimisation that asks for one analysis, or for none.
LEMMA AskLeads ==
  ASSUME NEW p, NEW b \in {0, 1}, NEW m \in Modes, m # "made", NEW a \in Held
  PROVE  /\ Leads(p, Calm(b, m), <<Get(a), Use(a)>>, Note({a}, {a}, m, b))
         /\ Leads(p, Note({a}, {a}, m, b), <<Step("change"), Invalid(a)>>, Calm(b, m))
         /\ Leads(p, Calm(b, m), <<Step("change"), Invalid(a)>>, Calm(b, m))
<1>1. /\ {} \cup {a} = {a} /\ {a} \ {a} = {} /\ {} \ {a} = {} /\ {a} \subseteq Held
      /\ a \notin {} /\ {} \subseteq Held
  OBVIOUS
<1>2. /\ Calm(b, m) \in Notes /\ Note({a}, {a}, m, b) \in Notes /\ Note({a}, {}, m, b) \in Notes
      /\ Get(a) \in Ops /\ Use(a) \in Ops /\ Invalid(a) \in Ops /\ Step("change") \in Ops
      /\ Does(p, Calm(b, m), Get(a), Note({a}, {a}, m, b))
  <2>1. Does(p, Note({}, {}, m, b), Get(a), Note({} \cup {a}, {} \cup {a}, m, b))
    BY <1>1, DoesRules
  <2> QED
    BY <1>1, <2>1, DoesRules DEF Calm
<1>3. /\ Does(p, Note({a}, {a}, m, b), Use(a), Note({a}, {a}, m, b))
      /\ Does(p, Note({a}, {a}, m, b), Step("change"), Note({a}, {}, m, b))
  BY <1>1, DoesRules
<1>4. /\ Does(p, Note({a}, {}, m, b), Invalid(a), Calm(b, m))
      /\ Does(p, Calm(b, m), Invalid(a), Calm(b, m))
      /\ Does(p, Calm(b, m), Step("change"), Calm(b, m))
  <2>1. Does(p, Note({a}, {}, m, b), Invalid(a), Note({a} \ {a}, {} \ {a}, m, b))
    BY <1>1, DoesRules
  <2>2. Does(p, Note({}, {}, m, b), Invalid(a), Note({} \ {a}, {} \ {a}, m, b))
    BY <1>1, DoesRules
  <2>3. Does(p, Note({}, {}, m, b), Step("change"), Note({}, {}, m, b))
    BY <1>1, DoesRules
  <2> QED
    BY <1>1, <2>1, <2>2, <2>3 DEF Calm
<1> DEFINE g == Get(a)
           u == Use(a)
           i == Invalid(a)
           c == Step("change")
           l == Note({a}, {a}, m, b)
           k == Note({a}, {}, m, b)
           n == Calm(b, m)
<1>5. /\ n \in Notes /\ l \in Notes /\ k \in Notes /\ g \in Ops /\ u \in Ops /\ i \in Ops
      /\ c \in Ops /\ Does(p, n, g, l) /\ Does(p, l, u, l) /\ Does(p, l, c, k)
      /\ Does(p, k, i, n) /\ Does(p, n, i, n) /\ Does(p, n, c, n)
  BY <1>2, <1>3, <1>4
<1> HIDE DEF g, u, i, c, l, k, n
<1>6. /\ Append(<<g>>, u) = <<g, u>> /\ Append(<<c>>, i) = <<c, i>>
  BY <1>5, Tuples
<1>7. /\ Leads(p, n, Append(<<g>>, u), l) /\ Leads(p, l, Append(<<c>>, i), n)
      /\ Leads(p, n, Append(<<c>>, i), n)
  BY <1>5, LeadsOne, LeadsNext
<1> QED
  BY <1>6, <1>7 DEF g, u, i, c, l, n

\* Phases that may ask for the live ranges.
LEMMA WithLiveLeads ==
  ASSUME NEW p, NEW b \in {0, 1}, NEW m \in {"none", "any"}, NEW asks \in BOOLEAN
  PROVE  Leads(p, Calm(b, m), WithLive(asks), Calm(b, m))
<1>1. "live" \in Held /\ m \in Modes /\ m # "made"
  BY DEF Held, Analyses, Modes
<1> DEFINE s == <<Get("live"), Use("live")>>
           t == <<Step("change"), Invalid("live")>>
           l == Note({"live"}, {"live"}, m, b)
<1>2. /\ Leads(p, Calm(b, m), s, l) /\ Leads(p, l, t, Calm(b, m))
      /\ Leads(p, Calm(b, m), t, Calm(b, m))
  BY <1>1, AskLeads
<1>3. Leads(p, Calm(b, m), <<>>, Calm(b, m))
  <2>1. Calm(b, m) \in Notes
    BY <1>1 DEF Calm, Note, Notes
  <2> QED
    BY <2>1, LeadsNil
<1>4. WithLive(asks) = s \o t \/ WithLive(asks) = <<>> \o t
  BY DEF WithLive, When
<1> HIDE DEF s, t, l
<1> QED
  BY <1>2, <1>3, <1>4, LeadsConcat

\* Phases that ask for the reaching definitions.
LEMMA NeedRDLeads ==
  ASSUME NEW p, p \in NeedsRD, p \notin Allocs
  PROVE  Leads(p, Calm(0, "any"), NeedRD, Calm(0, "any"))
<1> DEFINE e == Calm(0, "any")
           g == Get("reachdef")
           n == Step("needRD")
<1>1. /\ e \in Notes /\ g \in Ops /\ n \in Ops /\ Does(p, e, g, e) /\ Does(p, e, n, e)
  <2>1. e \in Notes
    BY DEF Calm, Note, Notes, Modes
  <2>2. g \in Ops /\ n \in Ops
    BY DEF Get, Step, Ops, Analyses
  <2>3. Does(p, e, g, e)
    BY DEF Does, Steady, Get
  <2>4. Does(p, e, n, e)
    BY DEF Does, Steady, Step
  <2> QED
    BY <2>1, <2>2, <2>3, <2>4
<1>2. NeedRD = <<g>> \o <<n>> \/ NeedRD = <<>> \o <<n>>
  BY DEF NeedRD, When
<1> HIDE DEF e, g, n
<1>3. Leads(p, e, <<g>>, e) /\ Leads(p, e, <<n>>, e) /\ Leads(p, e, <<>>, e)
  BY <1>1, LeadsOne, LeadsNil
<1>4. Leads(p, e, NeedRD, e)
  BY <1>2, <1>3, LeadsConcat
<1> QED
  BY <1>4 DEF e

\* Clearing the reaching definitions.
LEMMA ClearRDLeads ==
  ASSUME NEW p, p \notin Allocs
  PROVE  Leads(p, Calm(0, "any"), ClearRD, Calm(0, "none"))
<1> DEFINE c == Step("clearRD")
           l == Invalid("live")
           r == Invalid("reachdef")
           any == Calm(0, "any")
           none == Calm(0, "none")
<1>1. "live" \in Held /\ "none" \in Modes /\ "any" \in Modes /\ {} \ {"live"} = {}
  BY DEF Held, Analyses, Modes
<1>2. /\ none \in Notes /\ any \in Notes /\ l \in Ops /\ Does(p, none, l, none)
  BY <1>1, DoesRules DEF Calm
<1>3. /\ c \in Ops /\ r \in Ops /\ Does(p, any, c, none) /\ Does(p, none, r, none)
  BY <1>1, DoesRulesRD DEF Calm
<1>4. ClearRD = <<c, l, r>>
  BY DEF ClearRD
<1> HIDE DEF c, l, r, any, none
<1>5. Leads(p, any, Append(Append(<<c>>, l), r), none)
  BY <1>2, <1>3, LeadsOne, LeadsNext
<1>6. Leads(p, any, ClearRD, none)
  BY <1>2, <1>3, <1>4, <1>5, Tuples
<1> QED
  BY <1>6 DEF any, none

\* A round of the register allocator.
Round(live, asks) ==
  When(asks, <<Get(live)>>) \o <<Get("loop"), Use("loop")>>
  \o When(asks, <<Use(live)>>) \o <<Step("change"), Invalid("liveeh"), Invalid("live"),
                                    Invalid("loop")>>

\* A round leaves no result behind.
LEMMA RoundLeads ==
  ASSUME NEW p, NEW m \in {"none", "any"}, NEW live \in {"live", "liveeh"},
         NEW asks \in BOOLEAN
  PROVE  Leads(p, Calm(0, m), Round(live, asks), Calm(0, m))
<1> DEFINE L == "live"
           H == "liveeh"
           P == "loop"
           n == Calm(0, m)
           A == IF asks THEN {live} ELSE {}
           B == A \cup {P}
           e1 == Note(A, A, m, 0)
           e2 == Note(B, B, m, 0)
           e3 == Note(B, {}, m, 0)
           e4 == Note(B \ {H}, {}, m, 0)
           e5 == Note((B \ {H}) \ {L}, {}, m, 0)
           gl == Get(live)
           gp == Get(P)
           up == Use(P)
           ul == Use(live)
           c  == Step("change")
           ih == Invalid(H)
           il == Invalid(L)
           ip == Invalid(P)
<1>1. L \in Held /\ H \in Held /\ P \in Held /\ P # L /\ P # H /\ m \in Modes /\ m # "made"
  BY DEF Held, Analyses, Modes
<1> HIDE DEF L, H, P
<1>2. live = L \/ live = H
  BY DEF L, H
<1>3. /\ A \subseteq Held /\ B \subseteq Held /\ P \notin A /\ P \in B
      /\ ((B \ {H}) \ {L}) \ {P} = {} /\ live \in Held
      /\ asks => live \in B
  BY <1>1, <1>2
<1>4. /\ n \in Notes /\ e1 \in Notes /\ e2 \in Notes /\ e3 \in Notes /\ e4 \in Notes
      /\ e5 \in Notes
  <2>1. \A X, Y \in SUBSET Held : Note(X, Y, m, 0) \in Notes
    BY <1>1 DEF Note, Notes
  <2>2. /\ {} \in SUBSET Held /\ A \in SUBSET Held /\ B \in SUBSET Held
        /\ B \ {H} \in SUBSET Held /\ (B \ {H}) \ {L} \in SUBSET Held
    BY <1>3
  <2> HIDE DEF A, B
  <2> QED
    BY <2>1, <2>2 DEF Calm
<1>5. /\ gl \in Ops /\ gp \in Ops /\ up \in Ops /\ ul \in Ops /\ c \in Ops /\ ih \in Ops
      /\ il \in Ops /\ ip \in Ops
  <2>1. \A a \in Held : Get(a) \in Ops /\ Use(a) \in Ops /\ Invalid(a) \in Ops
    BY DEF Get, Use, Invalid, Ops, Held
  <2>2. c \in Ops
    BY DEF Step, Ops
  <2> QED
    BY <1>1, <1>3, <2>1, <2>2
<1>6. asks => Does(p, n, gl, e1)
  <2>1. Does(p, Note({}, {}, m, 0), Get(live), Note({} \cup {live}, {} \cup {live}, m, 0))
    BY <1>1, <1>3, DoesRules
  <2>2. asks => {} \cup {live} = A
    OBVIOUS
  <2> HIDE DEF A
  <2> QED
    BY <2>1, <2>2 DEF Calm
<1>7. ~asks => e1 = n
  BY DEF Calm
<1> HIDE DEF A
<1>8. Does(p, e1, gp, e2)
  BY <1>1, <1>3, DoesRules
<1> HIDE DEF B
<1>9. Does(p, e2, up, e2) /\ Does(p, e2, c, e3)
  BY <1>1, <1>3, DoesRules
<1>10. asks => Does(p, e2, ul, e2)
  BY <1>1, <1>3, DoesRules
<1>11. Does(p, e3, ih, e4)
  <2>1. Does(p, Note(B, {}, m, 0), Invalid(H), Note(B \ {H}, {} \ {H}, m, 0))
    BY <1>1, <1>3, DoesRules
  <2>2. {} \ {H} = {}
    OBVIOUS
  <2> QED
    BY <2>1, <2>2
<1>12. Does(p, e4, il, e5)
  <2> DEFINE X == B \ {H}
  <2>1. X \subseteq Held /\ {} \ {L} = {} /\ {} \subseteq Held
    BY <1>3
  <2> HIDE DEF X
  <2>2. Does(p, Note(X, {}, m, 0), Invalid(L), Note(X \ {L}, {} \ {L}, m, 0))
    BY <1>1, <2>1, DoesRules
  <2> QED
    BY <2>1, <2>2 DEF X
<1>13. Does(p, e5, ip, n)
  <2> DEFINE X == (B \ {H}) \ {L}
  <2>1. X \subseteq Held /\ {} \ {P} = {} /\ {} \subseteq Held /\ X \ {P} = {}
    BY <1>3
  <2> HIDE DEF X
  <2>2. Does(p, Note(X, {}, m, 0), Invalid(P), Note(X \ {P}, {} \ {P}, m, 0))
    BY <1>1, <2>1, DoesRules
  <2> QED
    BY <2>1, <2>2 DEF X, Calm
<1>14. Round(live, asks) = When(asks, <<gl>>) \o <<gp, up>> \o When(asks, <<ul>>) \o <<c, ih, il, ip>>
  BY DEF Round, L, H, P
<1> HIDE DEF n, e1, e2, e3, e4, e5, gl, gp, up, ul, c, ih, il, ip
<1>15. Leads(p, n, When(asks, <<gl>>), e1)
  <2>1. asks => Leads(p, n, <<gl>>, e1)
    BY <1>4, <1>5, <1>6, LeadsOne
  <2>2. ~asks => Leads(p, n, <<>>, e1)
    BY <1>4, <1>7, LeadsNil
  <2> QED
    BY <2>1, <2>2 DEF When
<1>16. Leads(p, e1, <<gp, up>>, e2)
  <2>1. Leads(p, e1, Append(<<gp>>, up), e2)
    BY <1>4, <1>5, <1>8, <1>9, LeadsOne, LeadsNext
  <2> QED
    BY <1>5, <2>1, Tuples
<1>17. Leads(p, e2, When(asks, <<ul>>), e2)
  <2>1. asks => Leads(p, e2, <<ul>>, e2)
    BY <1>4, <1>5, <1>10, LeadsOne
  <2>2. Leads(p, e2, <<>>, e2)
    BY <1>4, LeadsNil
  <2> QED
    BY <2>1, <2>2 DEF When
<1>18. Leads(p, e2, <<c, ih, il, ip>>, n)
  <2>1. Leads(p, e2, Append(<<c>>, ih), e4) /\ Leads(p, e4, Append(<<il>>, ip), n)
    BY <1>4, <1>5, <1>9, <1>11, <1>12, <1>13, LeadsOne, LeadsNext
  <2>2. <<c, ih, il, ip>> = <<c, ih>> \o <<il, ip>>
    BY <1>5
  <2>3. Leads(p, e2, <<c, ih>>, e4) /\ Leads(p, e4, <<il, ip>>, n)
    BY <1>5, <2>1, Tuples
  <2> QED
    BY <2>2, <2>3, LeadsConcat
<1>19. Leads(p, n, Round(live, asks), n)
  BY <1>14, <1>15, <1>16, <1>17, <1>18, LeadsConcat
<1> QED
  BY <1>19 DEF n

\* Whatever phase is run, its steps take it from its entry to its exit.
LEMMA RunsLead ==
  ASSUME NEW p, p # "emit", fn.hasBBs, NEW m \in {"none", "any"}, NEW run \in Runs(p)
  PROVE  Leads(p, Entry(p, m), run, Exit(p, m))
<1> DEFINE ask == {"ebo", "ebo1", "postebo", "ico", "prepeephole", "peephole0", "peephole",
                   "prescheduling", "scheduling"}
<1>1. m \in Modes /\ "none" \in Modes /\ "any" \in Modes /\ m # "made"
  BY DEF Modes
<1>2. CASE p \in ask
  <2>1. run = WithLive(TRUE) \/ run = WithLive(O2)
    <3>1. /\ CgDoEbo = {WithLive(O2)} /\ CgDoPrePeepHole = {WithLive(O2)}
          /\ CgDoPeepHole0 = {WithLive(O2)} /\ CgDoPeepHole = {WithLive(O2)}
          /\ CgDoIco = {WithLive(TRUE)} /\ CgDoPreScheduling = {WithLive(TRUE)}
          /\ CgDoScheduling = {WithLive(TRUE)}
      BY DEF CgDoEbo, CgDoPrePeepHole, CgDoPeepHole0, CgDoPeepHole, CgDoIco,
             CgDoPreScheduling, CgDoScheduling
    <3>2. Runs(p) \in {CgDoEbo, CgDoPrePeepHole, CgDoPeepHole0, CgDoPeepHole, CgDoIco,
                      CgDoPreScheduling, CgDoScheduling}
      BY <1>2 DEF Runs, Phases
    <3> HIDE DEF ask
    <3> QED
      BY <3>1, <3>2
  <2>2. O2 \in BOOLEAN
    BY DEF O2
  <2>3. PICK b \in {0, 1} : Entry(p, m) = Calm(b, m) /\ Exit(p, m) = Calm(b, m)
    BY <1>2 DEF Entry, Exit, TakesMerged, LeavesMerged, NeedsRD, ClearsRD
  <2> HIDE DEF ask
  <2> QED
    BY <2>1, <2>2, <2>3, WithLiveLeads
<1>3. CASE p = "prepeephole1"
  <2>1. run = <<Step("ifRD"), Step("change")>>
    BY <1>3 DEF Runs, Phases, CgDoPrePeepHole1
  <2>2. Entry(p, m) = Calm(0, "any") /\ Exit(p, m) = Calm(0, "none") /\ p \notin Allocs
    BY <1>3 DEF Entry, Exit, TakesMerged, LeavesMerged, ClearsRD, Allocs
  <2>3. /\ Step("ifRD") \in Ops /\ Step("change") \in Ops
        /\ Does(p, Calm(0, "any"), Step("ifRD"), Calm(0, "none"))
    BY <1>1, <2>2, DoesRulesRD DEF Step, Ops
  <2>4. /\ Does(p, Calm(0, "none"), Step("change"), Calm(0, "none"))
        /\ Calm(0, "any") \in Notes /\ Calm(0, "none") \in Notes
    BY <1>1, DoesRules DEF Calm
  <2> DEFINE i == Step("ifRD")
             c == Step("change")
  <2> HIDE DEF i, c
  <2>5. Leads(p, Calm(0, "any"), Append(<<i>>, c), Calm(0, "none"))
    BY <2>3, <2>4, LeadsOne, LeadsNext DEF i, c
  <2>6. i \in Ops /\ c \in Ops /\ run = <<i, c>>
    BY <2>1, <2>3 DEF i, c
  <2> QED
    BY <2>2, <2>5, <2>6, Tuples
<1>4. CASE p = "storeloadopt"
  <2> DEFINE a == "loopnoeh"
             s == <<Get(a), Use(a)>>
             t == <<Step("change"), Invalid(a)>>
             e == Calm(0, "any")
             l == Note({a}, {a}, "any", 0)
  <2>1. run = NeedRD \o <<Get(a), Use(a), Step("change"), Invalid(a)>>
    BY <1>4 DEF Runs, Phases, CgDoStoreLoadOpt
  <2>2. Entry(p, m) = e /\ Exit(p, m) = e /\ p \notin Allocs /\ p \in NeedsRD
    BY <1>4 DEF Entry, Exit, TakesMerged, LeavesMerged, NeedsRD, ClearsRD, Allocs
  <2>3. a \in Held /\ "any" # "made"
    BY DEF Held, Analyses
  <2> HIDE DEF a
  <2>4. Leads(p, e, s, l) /\ Leads(p, l, t, e)
    BY <1>1, <2>3, AskLeads
  <2>5. Leads(p, e, NeedRD, e)
    BY <2>2, NeedRDLeads
  <2>6. <<Get(a), Use(a), Step("change"), Invalid(a)>> = s \o t
    <3> DEFINE o1 == Get(a)
               o2 == Use(a)
               o3 == Step("change")
               o4 == Invalid(a)
    <3>1. o1 \in Ops /\ o2 \in Ops /\ o3 \in Ops /\ o4 \in Ops
      BY <2>3 DEF Get, Use, Step, Invalid, Ops, Held
    <3> HIDE DEF o1, o2, o3, o4
    <3>2. <<o1, o2, o3, o4>> = <<o1, o2>> \o <<o3, o4>>
      BY <3>1
    <3> QED
      BY <3>2 DEF o1, o2, o3, o4
  <2> HIDE DEF s, t, e, l
  <2> QED
    BY <2>1, <2>2, <2>4, <2>5, <2>6, LeadsConcat
<1>5. CASE p = "globalopt"
  <2>1. run = NeedRD \o <<Step("change")>> \o ClearRD
    BY <1>5 DEF Runs, Phases, CgDoGlobalOpt
  <2>2. /\ Entry(p, m) = Calm(0, "any") /\ Exit(p, m) = Calm(0, "none") /\ p \notin Allocs
        /\ p \in NeedsRD
    BY <1>5 DEF Entry, Exit, TakesMerged, LeavesMerged, NeedsRD, ClearsRD, Allocs
  <2>3. Leads(p, Calm(0, "any"), <<Step("change")>>, Calm(0, "any"))
    BY <1>1, ChangeLeads
  <2> QED
    BY <2>1, <2>2, <2>3, NeedRDLeads, ClearRDLeads, LeadsConcat
<1>6. CASE p = "regalloc"
  <2>1. PICK live \in {"live", "liveeh"} :
          run = Round(live, O2) \/ run = Round(live, O2) \o Round(live, O2)
    <3>1. run \in CgDoRegAlloc
      BY <1>6 DEF Runs, Phases
    <3>2. CASE "doLiveAnalysisEh" \in opt.on
      BY <3>1, <3>2 DEF CgDoRegAlloc, Round
    <3>3. CASE "doLiveAnalysisEh" \notin opt.on
      BY <3>1, <3>3 DEF CgDoRegAlloc, Round
    <3> QED
      BY <3>2, <3>3
  <2>2. Entry(p, m) = Calm(0, m) /\ Exit(p, m) = Calm(0, m)
    BY <1>6 DEF Entry, Exit, TakesMerged, LeavesMerged, NeedsRD, ClearsRD
  <2>3. Leads(p, Calm(0, m), Round(live, O2), Calm(0, m))
    <3>1. O2 \in BOOLEAN
      BY DEF O2
    <3> QED
      BY <3>1, RoundLeads
  <2> QED
    BY <2>1, <2>2, <2>3, LeadsConcat
<1>7. CASE p = "merge"
  <2>1. run = <<Step("merge")>>
    BY <1>7 DEF Runs, Phases, CgDoMerge
  <2>2. Entry(p, m) = Calm(0, m) /\ Exit(p, m) = Calm(1, m) /\ p \notin Allocs
    BY <1>7 DEF Entry, Exit, TakesMerged, LeavesMerged, NeedsRD, ClearsRD, Allocs
  <2>3. /\ Step("merge") \in Ops /\ Does(p, Calm(0, m), Step("merge"), Calm(1, m))
        /\ Calm(0, m) \in Notes /\ Calm(1, m) \in Notes
    <3>1. Calm(0, m) \in Notes /\ Calm(1, m) \in Notes
      BY <1>1 DEF Calm, Note, Notes
    <3> QED
      BY <1>1, <2>2, <3>1, DoesRulesRD DEF Calm
  <2> QED
    BY <2>1, <2>2, <2>3, LeadsOne
<1>8. CASE p = "split"
  <2>1. run = <<Step("ifSBB")>>
    BY <1>8 DEF Runs, Phases, CgDoSplit
  <2>2. Entry(p, m) = Calm(1, m) /\ Exit(p, m) = Calm(0, m) /\ p \notin Allocs
    BY <1>8 DEF Entry, Exit, TakesMerged, LeavesMerged, NeedsRD, ClearsRD, Allocs
  <2>3. /\ Step("ifSBB") \in Ops /\ Does(p, Calm(1, m), Step("ifSBB"), Calm(0, m))
        /\ Calm(0, m) \in Notes /\ Calm(1, m) \in Notes
    <3>1. Calm(0, m) \in Notes /\ Calm(1, m) \in Notes
      BY <1>1 DEF Calm, Note, Notes
    <3> QED
      BY <1>1, <2>2, <3>1, DoesRulesRD DEF Calm
  <2> QED
    BY <2>1, <2>2, <2>3, LeadsOne
<1>9. CASE p \notin ask \cup {"prepeephole1", "storeloadopt", "globalopt", "regalloc", "merge",
                            "split"}
  <2>1. run = <<Step("change")>>
    BY <1>9 DEF Runs, Phases, OtherPhases
  <2>2. Entry(p, m) = Calm(0, m) /\ Exit(p, m) = Calm(0, m)
    BY <1>9 DEF Entry, Exit, TakesMerged, LeavesMerged, NeedsRD, ClearsRD
  <2> QED
    BY <1>1, <2>1, <2>2, ChangeLeads
<1> QED
  BY <1>2, <1>3, <1>4, <1>5, <1>6, <1>7, <1>8, <1>9, Zenon
-----------------------------------------------------------------------------
(* The types, and where the manager is. *)

Types ==
  /\ opt \in Options /\ Ordered(phaseSeq) /\ TypeOK /\ Typed /\ ran \in Seq(Name)

Control ==
  /\ at = "driver" => phase = NoPhase /\ cache = None /\ ~inRange
  /\ at # "driver" => funcs < MaxFuncs
  /\ at = "emit" => phase = LastPhase /\ it = PhaseSeqEnd
  /\ at = "loop" /\ phase # NoPhase => it < Len(phaseSeq) /\ phase = phaseSeq[it]
  /\ phase \in NoPart \/ ~fn.hasBBs => todo = <<>>

\* What the flags of --skip-from and --skip-after do to the iterator.
LEMMA UnskippableIsNext ==
  ASSUME Ordered(phaseSeq), NEW i \in 1 .. Len(phaseSeq)
  PROVE  /\ Unskippable(i) \in i .. Len(phaseSeq)
         /\ phaseSeq[Unskippable(i)] \notin CanSkip
         /\ \A k \in i .. Unskippable(i) - 1 : phaseSeq[k] \in CanSkip
         /\ i < Len(phaseSeq) => Unskippable(i) < Len(phaseSeq)
<1> DEFINE n == Len(phaseSeq)
           needed == {j \in i .. n : phaseSeq[j] \notin CanSkip}
<1>0. LastPhase \notin CanSkip
  BY DEF LastPhase, CanSkip
<1>1. /\ n \in Nat /\ n > 1 /\ i \in 1 .. n
      /\ phaseSeq[n] = LastPhase /\ phaseSeq[n - 1] \notin CanSkip
  BY LenProperties DEF Ordered
<1> HIDE DEF n
<1>2. n \in needed /\ needed \subseteq Nat
  BY <1>0, <1>1
<1>3. \E j \in needed : \A k \in needed : j <= k
  <2> HIDE DEF needed
  <2> QED
    BY <1>2, LeastNat
<1> DEFINE j == Unskippable(i)
<1>4. j \in needed /\ \A k \in needed : j <= k
  <2>1. j = CHOOSE m \in needed : \A k \in needed : m <= k
    BY <1>2 DEF Unskippable, n
  <2> HIDE DEF j, needed
  <2> QED
    BY <1>3, <2>1
<1>5. i < n => n - 1 \in needed
  BY <1>1
<1> HIDE DEF j
<1>6. \A k \in i .. j - 1 : phaseSeq[k] \in CanSkip
  BY <1>1, <1>4
<1>7. j \in i .. n /\ phaseSeq[j] \notin CanSkip /\ (i < n => j < n)
  BY <1>1, <1>4, <1>5
<1> QED
  BY <1>6, <1>7 DEF j, n

\* The phase the loop runs next, and where the iterator is after it.
LEMMA IteratorMoves ==
  ASSUME Types, Control
  PROVE  /\ RunFuncPhase =>
              /\ it \in 1 .. Len(phaseSeq) - 1 /\ it' \in it .. Len(phaseSeq) - 1
              /\ phase' = phaseSeq[it'] /\ phase' \in Name \ NoPart
              /\ phase' \in ToSet(phaseSeq)
              /\ \A k \in it .. it' - 1 : phaseSeq[k] \in CanSkip
              /\ skipFromFlag' => phase' \notin CanSkip
              /\ ~skipFromFlag' => it' = it /\ phase' # opt.skipFrom
         /\ PassOver => it \in 1 .. Len(phaseSeq) - 1 /\ phaseSeq[it] \in RangePhases
         /\ LeaveEmit => it = Len(phaseSeq)
         /\ PhaseReturns =>
              /\ it \in 1 .. Len(phaseSeq) - 1 /\ it' \in it + 1 .. Len(phaseSeq)
              /\ \A k \in it + 1 .. it' - 1 : phaseSeq[k] \in CanSkip
              /\ skipAfterFlag' => phaseSeq[it'] \notin CanSkip
              /\ ~skipAfterFlag' => it' = it + 1 /\ phase # opt.skipAfter
<1> DEFINE n == Len(phaseSeq)
<1>1. /\ n \in Nat /\ n > 1 /\ it \in 1 .. n + 1
      /\ \A i \in 1 .. n : phaseSeq[i] \in Name /\ phaseSeq[i] # NoPhase
      /\ \A i \in 1 .. n : phaseSeq[i] = LastPhase <=> i = n
  BY LenProperties DEF Types, TypeOK, PhaseSeqEnd, Ordered
<1>2. \A i \in 1 .. n : phaseSeq[i] \in ToSet(phaseSeq)
  <2>1. phaseSeq \in Seq(Name) /\ DOMAIN phaseSeq = 1 .. n
    BY LenProperties DEF Types, Ordered
  <2> QED
    BY <2>1 DEF ToSet
<1>3. \A i \in 1 .. n : /\ Unskippable(i) \in i .. n
                        /\ phaseSeq[Unskippable(i)] \notin CanSkip
                        /\ \A k \in i .. Unskippable(i) - 1 : phaseSeq[k] \in CanSkip
                        /\ i < n => Unskippable(i) < n
  BY UnskippableIsNext DEF Types
<1>4. ASSUME RunFuncPhase
      PROVE  /\ it \in 1 .. n - 1 /\ it' \in it .. n - 1
             /\ phase' = phaseSeq[it'] /\ phase' \in Name \ NoPart
             /\ phase' \in ToSet(phaseSeq)
             /\ \A k \in it .. it' - 1 : phaseSeq[k] \in CanSkip
             /\ skipFromFlag' => phase' \notin CanSkip
             /\ ~skipFromFlag' => it' = it /\ phase' # opt.skipFrom
  <2>1. /\ it < n + 1 /\ phaseSeq[it] # LastPhase
        /\ it' = IF skipFromFlag' THEN Unskippable(it) ELSE it
        /\ phase' = phaseSeq[it']
        /\ skipFromFlag' = (skipFromFlag \/ phaseSeq[it] = opt.skipFrom)
    BY <1>4 DEF RunFuncPhase, SkipFrom, InLoop, PhaseSeqEnd, LastPhase
  <2> HIDE DEF n
  <2>2. it \in 1 .. n - 1 /\ it \in 1 .. n
    BY <1>1, <2>1
  <2>3. it' \in it .. n - 1 /\ \A k \in it .. it' - 1 : phaseSeq[k] \in CanSkip
    <3>1. CASE skipFromFlag'
      <4>1. it' = Unskippable(it)
        BY <2>1, <3>1
      <4> QED
        BY <1>1, <1>3, <2>2, <4>1
    <3>2. CASE ~skipFromFlag'
      <4>1. it' = it
        BY <2>1, <3>2
      <4> QED
        BY <1>1, <2>2, <4>1
    <3> QED
      BY <3>1, <3>2
  <2>4. phase' \in Name /\ phase' # NoPhase /\ phase' # LastPhase /\ phase' \in ToSet(phaseSeq)
    <3>1. it' \in 1 .. n /\ it' # n
      BY <1>1, <2>2, <2>3
    <3> QED
      BY <1>1, <1>2, <2>1, <3>1
  <2>5. skipFromFlag' => phase' \notin CanSkip
    BY <1>3, <2>1, <2>2
  <2>6. ~skipFromFlag' => it' = it /\ phase' # opt.skipFrom
    BY <2>1
  <2> QED
    BY <2>1, <2>2, <2>3, <2>4, <2>5, <2>6 DEF NoPart, n
<1>5. ASSUME PassOver
      PROVE  it \in 1 .. n - 1 /\ phaseSeq[it] \in RangePhases
  <2>1. it < n + 1 /\ phaseSeq[it] # LastPhase /\ phaseSeq[it] \in RangePhases
    BY <1>5 DEF PassOver, InLoop, PhaseSeqEnd, OutOfRange, LastPhase
  <2> HIDE DEF n
  <2> QED
    BY <1>1, <2>1
<1>6. ASSUME LeaveEmit
      PROVE  it = n
  <2>1. it < n + 1 /\ phaseSeq[it] = LastPhase
    BY <1>6 DEF LeaveEmit, InLoop, PhaseSeqEnd, LastPhase
  <2> HIDE DEF n
  <2> QED
    BY <1>1, <2>1
<1>7. ASSUME PhaseReturns
      PROVE  /\ it \in 1 .. n - 1 /\ it' \in it + 1 .. n
             /\ \A k \in it + 1 .. it' - 1 : phaseSeq[k] \in CanSkip
             /\ skipAfterFlag' => phaseSeq[it'] \notin CanSkip
             /\ ~skipAfterFlag' => it' = it + 1 /\ phase # opt.skipAfter
  <2>1. /\ it < n /\ skipAfterFlag' = (skipAfterFlag \/ phase = opt.skipAfter)
        /\ it' = IF skipAfterFlag' THEN Unskippable(it + 1) ELSE it + 1
    BY <1>7 DEF PhaseReturns, Control, NoPhase
  <2> HIDE DEF n
  <2>2. it \in 1 .. n - 1 /\ it + 1 \in 1 .. n
    BY <1>1, <2>1
  <2>3. it' \in it + 1 .. n /\ \A k \in it + 1 .. it' - 1 : phaseSeq[k] \in CanSkip
    <3>1. CASE skipAfterFlag'
      <4>1. it' = Unskippable(it + 1)
        BY <2>1, <3>1
      <4> QED
        BY <1>1, <1>3, <2>2, <4>1
    <3>2. CASE ~skipAfterFlag'
      <4>1. it' = it + 1
        BY <2>1, <3>2
      <4> QED
        BY <1>1, <2>2, <4>1
    <3> QED
      BY <3>1, <3>2
  <2>4. skipAfterFlag' => phaseSeq[it'] \notin CanSkip
    BY <1>3, <2>1, <2>2
  <2>5. ~skipAfterFlag' => it' = it + 1 /\ phase # opt.skipAfter
    BY <2>1
  <2> QED
    BY <2>2, <2>3, <2>4, <2>5 DEF n
<1> QED
  BY <1>4, <1>5, <1>6, <1>7

\* One phase more.
LEMMA ToSetAppend ==
  ASSUME NEW A, NEW s \in Seq(A), NEW x \in A
  PROVE  Append(s, x) \in Seq(A) /\ ToSet(Append(s, x)) = ToSet(s) \cup {x}
<1> DEFINE t == Append(s, x)
           n == Len(s)
<1>1. /\ n \in Nat /\ DOMAIN s = 1 .. n /\ t \in Seq(A) /\ DOMAIN t = 1 .. n + 1
      /\ t[n + 1] = x /\ \A i \in 1 .. n : t[i] = s[i]
  BY LenProperties, AppendProperties
<1> HIDE DEF t, n
<1>2. ToSet(t) = ToSet(s) \cup {x}
  BY <1>1 DEF ToSet
<1> QED
  BY <1>1, <1>2 DEF t

Kept == Types /\ Control

\* The steps of a phase keep the types.
LEMMA StepsAreTyped ==
  ASSUME Types, Control,
         GetAnalysisResult \/ Made \/ InvalidAnalysisResult \/ Branch \/ Act \/ Look
  PROVE  Kept' /\ fn'.hasBBs = fn.hasBBs
<1>1. /\ todo # <<>> /\ UNCHANGED mgrVars
  BY DEF GetAnalysisResult, Made, InvalidAnalysisResult, Branch, Act, Look, Ready
<1>2. /\ phase \notin NoPart /\ fn.hasBBs
  BY <1>1 DEF Control
<1>3. at # "driver" /\ at # "emit"
  BY <1>2 DEF Control, NoPart
<1>4. Typed' /\ fn'.hasBBs = fn.hasBBs
  <2>1. Typed
    BY DEF Types
  <2>2. CASE GetAnalysisResult \/ Branch \/ Look
    <3>1. UNCHANGED <<made, cache, madeFor, fn>>
      BY <2>2 DEF GetAnalysisResult, Branch, Look
    <3> QED
      BY <2>1, <3>1 DEF Typed
  <2>3. CASE Made
    <3>1. /\ made' = made + 1 /\ fn' = fn
          /\ cache' = [cache EXCEPT ![Arg] = made']
          /\ madeFor' = [madeFor EXCEPT ![Arg] = fn.code]
      BY <2>3 DEF Made
    <3>2. made' \in Nat /\ made' \in 0 .. made' /\ 0 .. made \subseteq 0 .. made'
      BY <2>1, <3>1 DEF Typed
    <3>3. fn.code \in Nat
      BY <2>1 DEF Typed, FnType
    <3> HIDE DEF Arg
    <3>4. cache' \in [Analyses -> 0 .. made'] /\ madeFor' \in [Analyses -> Nat]
      <4>1. cache \in [Analyses -> 0 .. made'] /\ madeFor \in [Analyses -> Nat]
        BY <2>1, <3>2 DEF Typed
      <4> QED
        BY <3>1, <3>2, <3>3, <4>1
    <3> QED
      BY <2>1, <3>1, <3>2, <3>4 DEF Typed
  <2>4. CASE InvalidAnalysisResult
    <3>1. UNCHANGED <<made, madeFor, fn>> /\ cache' = [cache EXCEPT ![Arg] = 0]
      BY <2>4 DEF InvalidAnalysisResult
    <3> HIDE DEF Arg
    <3>2. cache' \in [Analyses -> 0 .. made]
      <4>1. cache \in [Analyses -> 0 .. made] /\ 0 \in 0 .. made
        BY <2>1 DEF Typed
      <4> QED
        BY <3>1, <4>1
    <3> QED
      BY <2>1, <3>1, <3>2 DEF Typed
  <2>5. CASE Act
    <3>1. /\ UNCHANGED <<made, cache, madeFor>>
          /\ \E do \in {"change", "addPseudo", "merge", "split", "noRD", "setRD", "clearRD"} :
               fn' = Effect(do)
      BY <2>5 DEF Act
    <3>2. fn' \in FnType /\ fn'.hasBBs = fn.hasBBs
      <4>1. PICK do \in {"change", "addPseudo", "merge", "split", "noRD", "setRD", "clearRD"} :
              fn' = Effect(do)
        BY <3>1
      <4>2. fn \in FnType /\ made \in Nat
        BY <2>1 DEF Typed
      <4>3. CASE do \in {"change", "addPseudo", "clearRD"}
        <5>1. fn.code + 1 \in Nat
          BY <4>2 DEF FnType
        <5>2. CASE do = "change"
          BY <4>1, <4>2, <5>1, <5>2 DEF Effect, FnType
        <5>3. CASE do = "addPseudo"
          <6>1. fn' = [fn EXCEPT !.code = fn.code + 1, !.pseudo = TRUE]
            BY <4>1, <5>3 DEF Effect
          <6> QED
            BY <4>2, <5>1, <6>1 DEF FnType
        <5>4. CASE do = "clearRD"
          <6>1. fn' = [fn EXCEPT !.rd = 0, !.code = fn.code + 1, !.pseudo = FALSE]
            BY <4>1, <5>4 DEF Effect
          <6> QED
            BY <4>2, <5>1, <6>1 DEF FnType
        <5> QED
          BY <4>3, <5>2, <5>3, <5>4
      <4>4. CASE do \in {"merge", "split"}
        BY <4>1, <4>2, <4>4 DEF Effect, FnType
      <4>5. CASE do \in {"noRD", "setRD"}
        BY <4>1, <4>2, <4>5 DEF Effect, FnType
      <4> QED
        BY <4>3, <4>4, <4>5
    <3> QED
      BY <2>1, <3>1, <3>2 DEF Typed
  <2> QED
    BY <2>2, <2>3, <2>4, <2>5
<1>5. Types'
  <2>1. UNCHANGED <<opt, phaseSeq, ran, funcs, at, inRange, skipFromFlag, skipAfterFlag, it, phase>>
    BY <1>1 DEF mgrVars, cmd
  <2>2. TypeOK'
    <3>1. /\ {fn'.hasBBs, fn'.pseudo} \subseteq BOOLEAN /\ {fn'.code, fn'.rd, fn'.sbb} \subseteq Nat
          /\ made' \in Nat /\ cache' \in [Analyses -> 0 .. made']
      BY <1>4 DEF Typed, FnType
    <3>2. TypeOK
      BY DEF Types
    <3> QED
      BY <2>1, <3>1, <3>2 DEF TypeOK, PhaseSeqEnd
  <2> QED
    BY <1>4, <2>1, <2>2 DEF Types
<1>6. Control'
  BY <1>1, <1>2, <1>3, <1>4 DEF Control, mgrVars, cmd, PhaseSeqEnd
<1> QED
  BY <1>4, <1>5, <1>6 DEF Kept

\* The types are an invariant of the specification.
THEOREM TypesHold == Spec => []Kept
<1> USE DEF Kept
<1>1. Init => Kept
  <2> SUFFICES ASSUME Init PROVE Types /\ Control
    OBVIOUS
  <2>1. Ordered(phaseSeq) /\ opt \in Options
    BY PhasesAreOrdered DEF Init
  <2>2. PhaseSeqEnd \in Nat /\ 1 <= PhaseSeqEnd
    BY <2>1, LenProperties DEF Ordered, PhaseSeqEnd
  <2>3. None \in [Analyses -> 0 .. 0] /\ None \in [Analyses -> Nat]
    BY DEF None
  <2>4. /\ NewCGFunc(TRUE) \in FnType /\ fn = NewCGFunc(TRUE)
        /\ made = 0 /\ cache = None /\ madeFor = None /\ funcs = 0 /\ at = "driver"
        /\ inRange = FALSE /\ it = 1 /\ skipFromFlag = FALSE /\ skipAfterFlag = FALSE
        /\ phase = "" /\ todo = <<>> /\ ran = <<>>
    BY DEF Init, FnType, NewCGFunc
  <2>5. Typed
    BY <2>3, <2>4 DEF Typed
  <2>6. ToSet(ran) \subseteq ToSet(phaseSeq) /\ ran \in Seq(Name)
    <3>1. \A s : s = <<>> => ToSet(s) = {} /\ s \in Seq(Name)
      BY DEF ToSet
    <3> QED
      BY <2>4, <3>1
  <2>7. TypeOK
    <3>1. funcs \in 0 .. MaxFuncs
      <4>1. funcs = 0 /\ MaxFuncs \in Nat
        BY <2>4, CgPhaseManagerAssumption
      <4> QED
        BY <4>1
    <3>2. {fn.code, fn.rd, fn.sbb} \subseteq Nat /\ {fn.hasBBs, fn.pseudo} \subseteq BOOLEAN
      BY <2>4 DEF FnType
    <3>3. it \in 1 .. PhaseSeqEnd
      <4>1. it = 1
        BY <2>4
      <4> QED
        BY <2>2, <4>1
    <3> QED
      BY <2>3, <2>4, <2>6, <3>1, <3>2, <3>3 DEF TypeOK
  <2> QED
    BY <2>1, <2>4, <2>5, <2>6, <2>7 DEF Types, Control, NoPhase
<1>2. Kept /\ [Next]_vars => Kept'
  <2> SUFFICES ASSUME Types, Control, [Next]_vars PROVE Kept'
    OBVIOUS
  <2> USE DEF Kept
  <2>0. /\ phaseSeq \in Seq(Name) /\ Len(phaseSeq) \in Nat /\ it \in 1 .. Len(phaseSeq) + 1
        /\ Len(phaseSeq) > 1
    BY LenProperties DEF Types, Ordered, TypeOK, PhaseSeqEnd
  <2>00. /\ Typed /\ TypeOK /\ opt \in Options /\ Ordered(phaseSeq) /\ ran \in Seq(Name)
         /\ ToSet(ran) \subseteq ToSet(phaseSeq)
    BY DEF Types, TypeOK
  <2>000. MaxFuncs \in Nat
    BY CgPhaseManagerAssumption
  <2>1. CASE StartFunc
    <3>1. /\ UNCHANGED <<opt, phaseSeq, funcs, phase, todo, cache>> /\ at = "driver"
          /\ \E b \in BOOLEAN : fn' = NewCGFunc(b)
          /\ inRange' \in BOOLEAN
          /\ at' = "loop" /\ it' = 1 /\ skipFromFlag' = FALSE /\ skipAfterFlag' = FALSE
          /\ made' = 0 /\ madeFor' = None /\ ran' = <<>> /\ funcs < MaxFuncs
      BY <2>1, <2>00 DEF StartFunc, cmd, TypeOK
    <3>2. phase = NoPhase /\ cache = None /\ todo = <<>>
      BY <3>1 DEF Control, NoPart
    <3>3. fn' \in FnType
      BY <3>1 DEF NewCGFunc, FnType
    <3>4. Typed'
      BY <3>1, <3>2, <3>3 DEF Typed, None
    <3>5. ran' \in Seq(Name) /\ ToSet(ran') = {}
      BY <3>1 DEF ToSet
    <3>6. {fn'.code, fn'.rd, fn'.sbb} \subseteq Nat /\ {fn'.hasBBs, fn'.pseudo} \subseteq BOOLEAN
      BY <3>3 DEF FnType
    <3>7. TypeOK'
      <4>1. it' \in 1 .. PhaseSeqEnd'
        BY <2>0, <3>1 DEF PhaseSeqEnd
      <4> QED
        BY <2>00, <3>1, <3>4, <3>5, <3>6, <4>1 DEF TypeOK, Typed
    <3>8. Control'
      BY <3>1, <3>2 DEF Control
    <3> QED
      BY <2>00, <3>1, <3>4, <3>5, <3>7, <3>8 DEF Types
  <2>2. CASE LeaveEmit \/ PassOver
    <3>1. /\ UNCHANGED <<opt, phaseSeq, funcs, at, inRange, skipAfterFlag, phase, ran, todo,
                         cache, made, madeFor, fn>>
          /\ at = "loop" /\ phase = "" /\ it < PhaseSeqEnd
          /\ it' = it + 1 /\ skipFromFlag' \in BOOLEAN
      BY <2>2, <2>00 DEF LeaveEmit, PassOver, InLoop, cmd, TypeOK
    <3>2. it' \in 1 .. PhaseSeqEnd
      <4>1. it < PhaseSeqEnd /\ it' = it + 1
        BY <3>1
      <4> QED
        BY <2>0, <4>1 DEF PhaseSeqEnd
    <3>3. TypeOK'
      BY <2>00, <3>1, <3>2 DEF TypeOK, PhaseSeqEnd
    <3>4. Typed'
      BY <2>00, <3>1 DEF Typed
    <3>5. Control'
      BY <3>1 DEF Control, NoPhase
    <3> QED
      BY <2>00, <3>1, <3>3, <3>4, <3>5 DEF Types
  <2>3. CASE RunFuncPhase
    <3>1. /\ UNCHANGED <<opt, phaseSeq, funcs, at, inRange, skipAfterFlag, cache, made,
                         madeFor, fn>>
          /\ at = "loop" /\ ran' = Append(ran, phase') /\ skipFromFlag' \in BOOLEAN
          /\ todo' \in Runs(phase')
      BY <2>3, <2>00 DEF RunFuncPhase, SkipFrom, InLoop, cmd, TypeOK
    <3>2. /\ it' \in 1 .. Len(phaseSeq) - 1 /\ phase' = phaseSeq[it']
          /\ phase' \in Name \ NoPart /\ phase' \in ToSet(phaseSeq)
      <4>1. /\ it \in 1 .. Len(phaseSeq) - 1 /\ it' \in it .. Len(phaseSeq) - 1
            /\ phase' = phaseSeq[it'] /\ phase' \in Name \ NoPart
            /\ phase' \in ToSet(phaseSeq)
        BY <2>3, IteratorMoves
      <4> QED
        BY <2>0, <4>1
    <3>3. ran' \in Seq(Name) /\ ToSet(ran') = ToSet(ran) \cup {phase'}
      <4>1. phase' \in Name
        BY <3>2
      <4> DEFINE q == phase'
      <4> HIDE DEF q
      <4>2. q \in Name /\ ran' = Append(ran, q)
        BY <3>1, <4>1 DEF q
      <4>3. Append(ran, q) \in Seq(Name) /\ ToSet(Append(ran, q)) = ToSet(ran) \cup {q}
        BY <2>00, <4>2, ToSetAppend
      <4> QED
        BY <4>2, <4>3 DEF q
    <3>4. TypeOK'
      <4>1. it' \in 1 .. PhaseSeqEnd
        BY <2>0, <3>2 DEF PhaseSeqEnd
      <4> QED
        BY <2>00, <3>1, <3>2, <3>3, <4>1 DEF TypeOK, PhaseSeqEnd
    <3>5. Typed'
      BY <2>00, <3>1 DEF Typed
    <3>6. Control'
      <4>1. it' < Len(phaseSeq)
        BY <2>0, <3>2
      <4>2. ~fn'.hasBBs => todo' = <<>>
        BY <3>1 DEF Runs
      <4> QED
        BY <3>1, <3>2, <4>1, <4>2 DEF Control
    <3> QED
      BY <2>00, <3>1, <3>3, <3>4, <3>5, <3>6 DEF Types
  <2>4. CASE PhaseReturns
    <3>1. /\ UNCHANGED <<opt, phaseSeq, funcs, at, inRange, skipFromFlag, ran, todo, cache, made,
                         madeFor, fn>>
          /\ at = "loop" /\ phase' = "" /\ skipAfterFlag' \in BOOLEAN /\ todo = <<>>
      BY <2>4, <2>00 DEF PhaseReturns, cmd, TypeOK
    <3>2. it' \in 1 .. PhaseSeqEnd
      <4>1. it \in 1 .. Len(phaseSeq) - 1 /\ it' \in it + 1 .. Len(phaseSeq)
        BY <2>4, IteratorMoves
      <4> QED
        BY <2>0, <4>1 DEF PhaseSeqEnd
    <3>3. TypeOK'
      BY <2>00, <3>1, <3>2 DEF TypeOK, PhaseSeqEnd
    <3>4. Typed'
      BY <2>00, <3>1 DEF Typed
    <3>5. Control'
      BY <3>1 DEF Control, NoPhase
    <3> QED
      BY <2>00, <3>1, <3>3, <3>4, <3>5 DEF Types
  <2>5. CASE Emit
    <3>1. /\ UNCHANGED <<opt, phaseSeq, funcs, inRange, it, skipFromFlag, skipAfterFlag, cache,
                         made, madeFor, fn>>
          /\ at = "loop" /\ it = PhaseSeqEnd /\ at' = "emit" /\ phase' = LastPhase
          /\ todo' \in Runs("emit") /\ ran' = Append(ran, LastPhase)
      BY <2>5 DEF Emit, cmd, LastPhase
    <3>2. todo' = <<>>
      BY <3>1 DEF Runs, Phases, CgDoEmission
    <3>3. LastPhase \in ToSet(phaseSeq) /\ LastPhase \in Name
      <4>1. DOMAIN phaseSeq = 1 .. Len(phaseSeq) /\ Len(phaseSeq) \in 1 .. Len(phaseSeq)
        BY <2>0
      <4>2. phaseSeq[Len(phaseSeq)] = LastPhase
        BY <2>00, <4>1 DEF Ordered
      <4> QED
        BY <2>0, <4>1, <4>2 DEF ToSet
    <3>4. ran' \in Seq(Name) /\ ToSet(ran') = ToSet(ran) \cup {LastPhase}
      BY <2>00, <3>1, <3>3, ToSetAppend
    <3>5. TypeOK'
      BY <2>00, <3>1, <3>3, <3>4 DEF TypeOK, PhaseSeqEnd
    <3>6. Typed'
      BY <2>00, <3>1 DEF Typed
    <3>7. Control'
      BY <3>1, <3>2 DEF Control, PhaseSeqEnd
    <3> QED
      BY <2>00, <3>1, <3>4, <3>5, <3>6, <3>7 DEF Types
  <2>6. CASE EndFunc
    <3>1. /\ UNCHANGED <<opt, phaseSeq, it, skipFromFlag, skipAfterFlag, ran, todo, made, madeFor, fn>>
          /\ todo = <<>> /\ at' = "driver" /\ phase' = "" /\ cache' = None
          /\ funcs' = funcs + 1 /\ inRange' = FALSE
      BY <2>6 DEF EndFunc, cmd
    <3>2. Typed'
      <4>1. None \in [Analyses -> 0 .. made]
        BY <2>00 DEF None, Typed
      <4> QED
        BY <2>00, <3>1, <4>1 DEF Typed
    <3>3. funcs' \in 0 .. MaxFuncs
      <4>1. funcs < MaxFuncs /\ funcs \in 0 .. MaxFuncs
        BY <2>6, <2>00 DEF EndFunc, Control, TypeOK
      <4>2. funcs' = funcs + 1
        BY <3>1
      <4> QED
        BY <2>000, <4>1, <4>2
    <3>4. TypeOK'
      BY <2>00, <3>1, <3>2, <3>3 DEF TypeOK, PhaseSeqEnd, Typed
    <3>5. Control'
      BY <3>1 DEF Control, NoPhase
    <3> QED
      BY <2>00, <3>1, <3>2, <3>4, <3>5 DEF Types
  <2>7. CASE GetAnalysisResult \/ Made \/ InvalidAnalysisResult \/ Branch \/ Act \/ Look
    BY <2>7, StepsAreTyped
  <2>8. CASE UNCHANGED vars
    BY <2>8 DEF vars, mgrVars, cmd, Types, Control, TypeOK, Typed, PhaseSeqEnd
  <2> QED
    BY <2>1, <2>2, <2>3, <2>4, <2>5, <2>6, <2>7, <2>8 DEF Next
<1> QED
  BY <1>1, <1>2, PTL DEF Spec
-----------------------------------------------------------------------------
(* The work of the phases: what they keep of each other's results. *)

\* The blocks are merged before phase i of the sequence.
MergedAt(i) ==
  IF i \in 1 .. Len(phaseSeq) /\ phaseSeq[i] \in TakesMerged THEN 1 ELSE 0

\* A phase that clears the reaching definitions was not left out.
Cleared ==
  /\ ~skipFromFlag /\ ~skipAfterFlag
  /\ \E k \in 1 .. Len(phaseSeq) : k < it /\ phaseSeq[k] \in ClearsRD

Between(m) == Describes(Calm(MergedAt(it), m))

Within(m) ==
  \E e : Knows(phase, e, Exit(phase, m)) /\ (phase \in Allocs => e.rd = m /\ e.sbb = 0)

Work ==
  /\ fn.sbb \in {0, 1}
  /\ at # "driver" /\ ~fn.hasBBs => fn.rd = 0 /\ fn.sbb = 0 /\ ~fn.pseudo
  /\ at # "driver" /\ fn.hasBBs =>
       \E m \in {"none", "any"} :
         /\ Cleared => m = "none"
         /\ phase \in NoPart => Between(m)
         /\ phase \notin NoPart => Within(m)

\* Phases that are passed over come in no way between a merge and its split.
LEMMA MergedSame ==
  ASSUME Ordered(phaseSeq), NEW i \in 1 .. Len(phaseSeq), NEW j \in i .. Len(phaseSeq),
         \A k \in i .. j - 1 : phaseSeq[k] \in CanSkip,
         j > i => phaseSeq[j] \notin CanSkip
  PROVE  MergedAt(j) = MergedAt(i)
<1> DEFINE s == phaseSeq
           n == Len(s)
<1>1. /\ n \in Nat
      /\ \A k \in 1 .. n : s[k] \in Scheduling => k < n /\ s[k + 1] \in Splits
      /\ \A k \in 1 .. n - 1 : s[k] \in LeavesMerged <=> s[k + 1] \in TakesMerged
  BY LenProperties DEF Ordered
<1>2. /\ \A p : p \in Splits => p \notin CanSkip /\ p \notin Scheduling /\ p \in TakesMerged
      /\ \A p : p \in LeavesMerged /\ p \in CanSkip => p \in Scheduling
      /\ \A p : p \in Scheduling => p \in TakesMerged
      /\ \A p : p \in TakesMerged => p \in Scheduling \/ p \in Splits
  BY DEF Splits, CanSkip, Scheduling, LeavesMerged, TakesMerged
<1> HIDE DEF s, n
<1>3. i \in 1 .. n /\ j \in i .. n /\ j \in 1 .. n
  BY <1>1 DEF n, s
<1>4. (\A k \in i .. j - 1 : s[k] \in CanSkip) /\ (j > i => s[j] \notin CanSkip)
  BY DEF s
<1>5. s[i] \in TakesMerged <=> s[j] \in TakesMerged
  <2>1. CASE j = i
    BY <2>1
  <2>2. CASE j > i /\ s[i] \in TakesMerged
    <3>1. s[i] \in CanSkip
      BY <1>3, <1>4, <2>2
    <3>2. i < n /\ s[i + 1] \in Splits
      BY <1>1, <1>2, <1>3, <2>2, <3>1
    <3>3. j = i + 1
      <4>1. i + 1 \notin i .. j - 1
        BY <1>2, <1>4, <3>2
      <4> QED
        BY <1>3, <2>2, <4>1
    <3> QED
      BY <1>2, <2>2, <3>2, <3>3
  <2>3. CASE j > i /\ s[j] \in TakesMerged
    <3>1. j - 1 \in 1 .. n - 1 /\ j - 1 \in i .. j - 1 /\ (j - 1) + 1 = j
      BY <1>1, <1>3, <2>3
    <3>2. s[j - 1] \in LeavesMerged /\ s[j - 1] \in CanSkip
      BY <1>1, <1>4, <2>3, <3>1
    <3>3. s[j - 1] \in Scheduling
      BY <1>2, <3>2
    <3>4. CASE j - 1 = i
      BY <1>2, <2>3, <3>3, <3>4
    <3>5. CASE j - 1 # i
      <4>1. /\ j - 2 \in 1 .. n - 1 /\ j - 2 \in 1 .. n /\ j - 2 \in i .. j - 1
            /\ (j - 2) + 1 = j - 1
        BY <1>1, <1>3, <2>3, <3>5
      <4>2. s[j - 2] \in LeavesMerged /\ s[j - 2] \in CanSkip
        BY <1>1, <1>2, <1>4, <3>3, <4>1
      <4>3. s[j - 2] \in Scheduling
        BY <1>2, <4>2
      <4>4. s[j - 1] \in Splits
        BY <1>1, <4>1, <4>3
      <4> QED
        BY <1>2, <3>3, <4>4
    <3> QED
      BY <3>4, <3>5
  <2> QED
    BY <1>3, <2>1, <2>2, <2>3
<1> QED
  BY <1>3, <1>5 DEF MergedAt, s, n

\* What is known between phases is what the next one may take for granted.
LEMMA CalmWeaker ==
  ASSUME NEW b \in {0, 1}, NEW m \in {"none", "any"}, Typed, Describes(Calm(b, m))
  PROVE  Describes(Calm(b, "any"))
<1>1. CASE m = "any"
  BY <1>1
<1>2. CASE m = "none"
  <2>1. fn.rd = 0 /\ ~fn.pseudo
    BY <1>2 DEF Describes, RDIs, Calm, Note
  <2>2. RDIs("any")
    BY <2>1 DEF RDIs
  <2>3. Calm(b, "any") \in Notes
    BY DEF Calm, Note, Notes, Modes
  <2> QED
    BY <2>2, <2>3 DEF Describes, Calm, Note
<1> QED
  BY <1>1, <1>2

\* Before and after a phase that is run, and what it leaves to the others.
LEMMA PhasesAreDisjoint ==
  /\ NeedsRD \cap Allocs = {} /\ ClearsRD \cap Allocs = {} /\ TakesMerged \cap Allocs = {}
  /\ NeedsRD \cap LeavesMerged = {}
  /\ RangePhases \cap (LeavesMerged \cup TakesMerged \cup ClearsRD) = {}
  /\ LastPhase \notin LeavesMerged \cup TakesMerged \cup ClearsRD \cup Allocs
  /\ NeedsRD \ ClearsRD = {"storeloadopt"} /\ Allocs = {"regalloc"}
BY DEF NeedsRD, Allocs, ClearsRD, TakesMerged, LeavesMerged, RangePhases, LastPhase

\* The steps of a phase keep Work.
LEMMA StepsWork ==
  ASSUME Kept, Work, GetAnalysisResult \/ Made \/ InvalidAnalysisResult \/ Branch \/ Act \/ Look
  PROVE  Work'
<1>1. /\ todo # <<>> /\ UNCHANGED mgrVars
  BY DEF GetAnalysisResult, Made, InvalidAnalysisResult, Branch, Act, Look, Ready
<1>2. phase \notin NoPart /\ fn.hasBBs /\ at # "driver" /\ Typed /\ phase' = phase
  BY <1>1 DEF Kept, Control, Types, NoPart, mgrVars
<1>3. PICK m \in {"none", "any"} : (Cleared => m = "none") /\ Within(m)
  BY <1>2 DEF Work
<1>4. PICK e : /\ Knows(phase, e, Exit(phase, m))
               /\ phase \in Allocs => e.rd = m /\ e.sbb = 0
  BY <1>3 DEF Within
<1>5. PICK f : Knows(phase, f, Exit(phase, m))' /\ Steady(phase, e, f)
  <2>1. NeedsRD \cap Allocs = {} /\ NeedsRD \cap LeavesMerged = {}
    BY PhasesAreDisjoint
  <2>2. \E f : Knows(phase, f, Exit(phase, m))' /\ Steady(phase, e, f)
    <3>1. CASE GetAnalysisResult
      BY <1>2, <1>4, <2>1, <3>1, GetKeeps
    <3>2. CASE Made
      BY <1>2, <1>4, <2>1, <3>2, MadeKeeps
    <3>3. CASE InvalidAnalysisResult
      BY <1>2, <1>4, <2>1, <3>3, InvalidKeeps
    <3>4. CASE Branch
      BY <1>2, <1>4, <2>1, <3>4, BranchKeeps
    <3>5. CASE Act
      BY <1>2, <1>4, <2>1, <3>5, ActKeeps
    <3>6. CASE Look
      BY <1>2, <1>4, <2>1, <3>6, LookKeeps
    <3> QED
      BY <3>1, <3>2, <3>3, <3>4, <3>5, <3>6
  <2> QED
    BY <1>2, <2>2
<1>6. Within(m)'
  BY <1>2, <1>4, <1>5 DEF Within, Steady
<1>7. Cleared' = Cleared
  BY <1>1 DEF Cleared, mgrVars, cmd
<1>8. fn'.sbb \in {0, 1} /\ fn'.hasBBs
  <2>1. f \in Notes /\ fn'.sbb = f.sbb
    BY <1>5 DEF Knows, Describes
  <2>2. fn'.hasBBs = fn.hasBBs
    BY StepsAreTyped DEF Kept
  <2> QED
    BY <1>2, <2>1, <2>2 DEF Notes
<1> QED
  BY <1>2, <1>3, <1>6, <1>7, <1>8 DEF Work

\* A phase is run.
LEMMA RunWorks ==
  ASSUME Kept, Work, RunFuncPhase
  PROVE  Work'
<1> DEFINE s == phaseSeq
           n == Len(phaseSeq)
<1>0. PICK p : p = phaseSeq[it']
  OBVIOUS
<1>1. /\ it \in 1 .. n - 1 /\ it' \in it .. n - 1
      /\ phase' = p /\ p \notin NoPart
      /\ \A k \in it .. it' - 1 : s[k] \in CanSkip
      /\ skipFromFlag' => p \notin CanSkip
      /\ ~skipFromFlag' => it' = it
  BY <1>0, IteratorMoves DEF Kept
<1>2. /\ UNCHANGED <<opt, phaseSeq, at, skipAfterFlag, cache, made, madeFor, fn>>
      /\ at = "loop" /\ phase = NoPhase /\ skipFromFlag' = (skipFromFlag \/ s[it] = opt.skipFrom)
      /\ todo' \in Runs(phase')
  BY DEF RunFuncPhase, SkipFrom, InLoop, cmd, NoPhase
<1>3. Ordered(s) /\ n \in Nat /\ Typed /\ skipFromFlag \in BOOLEAN
  BY LenProperties DEF Kept, Types, Ordered, TypeOK
<1>4. /\ fn'.sbb \in {0, 1}
      /\ ~fn'.hasBBs => fn'.rd = 0 /\ fn'.sbb = 0 /\ ~fn'.pseudo
  BY <1>2 DEF Work
<1>5. ASSUME fn.hasBBs
      PROVE  \E m \in {"none", "any"} : (Cleared' => m = "none") /\ Within(m)'
  <2>1. PICK m \in {"none", "any"} : (Cleared => m = "none") /\ Between(m)
    BY <1>2, <1>5 DEF Work, NoPart
  <2>2. Cleared' => m = "none"
    <3>1. Cleared' => Cleared
      BY <1>1, <1>2, <1>3 DEF Cleared
    <3> QED
      BY <2>1, <3>1
  <2>3. MergedAt(it') = MergedAt(it)
    <3> DEFINE i == it
    <3>0. PICK j : j = it'
      OBVIOUS
    <3> HIDE DEF i, n
    <3>1. i \in 1 .. n /\ j \in i .. n /\ (j > i => p \notin CanSkip)
      <4>1. i \in 1 .. n - 1 /\ j \in i .. n - 1
        BY <1>1, <3>0 DEF i
      <4>2. skipFromFlag' \/ j = i
        BY <1>1, <3>0 DEF i
      <4> QED
        BY <1>1, <1>3, <3>0, <1>0, <4>1, <4>2 DEF i
    <3>2. \A k \in i .. j - 1 : s[k] \in CanSkip
      BY <1>1, <3>0 DEF i
    <3>3. MergedAt(j) = MergedAt(i)
      BY <1>3, <3>1, <3>2, MergedSame, <1>0, <3>0 DEF n
    <3> QED
      BY <3>0, <3>3 DEF i
  <2>4. MergedAt(it') = IF p \in TakesMerged THEN 1 ELSE 0
    <3>1. it' \in 1 .. n
      BY <1>1, <1>3
    <3> QED
      BY <1>0, <3>1 DEF MergedAt
  <2>5. Describes(Entry(p, m))
    <3> DEFINE b == MergedAt(it')
    <3>1. Describes(Calm(b, m)) /\ b \in {0, 1}
      BY <2>1, <2>3, <2>4 DEF Between
    <3>2. Describes(Calm(b, "any"))
      BY <1>3, <3>1, CalmWeaker
    <3> QED
      BY <2>4, <3>1, <3>2 DEF Entry
  <2>6. Describes(Entry(p, m))'
    BY <1>2, <1>1, <2>5 DEF Describes, RDIs
  <2>7. Leads(p, Entry(p, m), todo', Exit(p, m))
    BY <1>1, <1>2, <1>5, RunsLead DEF NoPart, LastPhase
  <2>8. p \in Allocs => Entry(p, m).rd = m /\ Entry(p, m).sbb = 0
    BY PhasesAreDisjoint DEF Entry, Calm, Note
  <2>9. Within(m)'
    BY <1>1, <2>6, <2>7, <2>8 DEF Within, Knows
  <2> QED
    BY <2>1, <2>2, <2>9
<1> QED
  BY <1>1, <1>2, <1>4, <1>5 DEF Work

\* A phase returns.
LEMMA ReturnWorks ==
  ASSUME Kept, Work, PhaseReturns
  PROVE  Work'
<1> DEFINE s == phaseSeq
           n == Len(phaseSeq)
           p == phase
<1>1. /\ it \in 1 .. n - 1 /\ it' \in it + 1 .. n
      /\ \A k \in it + 1 .. it' - 1 : s[k] \in CanSkip
      /\ skipAfterFlag' => s[it'] \notin CanSkip
      /\ ~skipAfterFlag' => it' = it + 1
  BY IteratorMoves DEF Kept
<1>2. /\ UNCHANGED <<opt, phaseSeq, at, skipFromFlag, todo, cache, made, madeFor, fn>>
      /\ at = "loop" /\ phase # NoPhase /\ phase' = NoPhase /\ todo = <<>>
      /\ skipAfterFlag' = (skipAfterFlag \/ phase = opt.skipAfter)
  BY DEF PhaseReturns, cmd, NoPhase
<1>3. Ordered(s) /\ n \in Nat /\ Typed /\ skipAfterFlag \in BOOLEAN
  BY LenProperties DEF Kept, Types, Ordered, TypeOK
<1>4. /\ fn'.sbb \in {0, 1}
      /\ ~fn'.hasBBs => fn'.rd = 0 /\ fn'.sbb = 0 /\ ~fn'.pseudo
  BY <1>2 DEF Work
<1>5. p = s[it] /\ p \notin NoPart
  <2>1. p = s[it] /\ it < n
    BY <1>2 DEF Kept, Control
  <2>2. it \in 1 .. n /\ it # n
    BY <1>1, <1>3, <2>1
  <2>3. p # LastPhase
    BY <1>3, <2>1, <2>2 DEF Ordered
  <2> QED
    BY <1>2, <2>1, <2>3 DEF NoPart
<1>6. ASSUME fn.hasBBs
      PROVE  \E m \in {"none", "any"} : (Cleared' => m = "none") /\ Between(m)'
  <2>1. PICK m \in {"none", "any"} : (Cleared => m = "none") /\ Within(m)
    BY <1>2, <1>5, <1>6 DEF Work
  <2>0. PICK r : r = IF p \in ClearsRD THEN "none" ELSE IF p \in NeedsRD THEN "any" ELSE m
    OBVIOUS
  <2>2. Describes(Exit(p, m))
    <3>1. PICK e : Describes(e) /\ Leads(p, e, todo, Exit(p, m))
      BY <2>1 DEF Within, Knows
    <3>2. Leads(p, e, <<>>, Exit(p, m))
      BY <1>2, <3>1
    <3> QED
      BY <3>1, <3>2, LeadsDone
  <2>3. r \in {"none", "any"}
    BY <2>0
  <2>4. Cleared' => r = "none"
    <3> SUFFICES ASSUME Cleared', p \notin ClearsRD PROVE r = "none"
      BY <2>0
    <3>1. /\ ~skipFromFlag /\ ~skipAfterFlag /\ it' = it + 1
          /\ \E k \in 1 .. n : k < it' /\ s[k] \in ClearsRD
      BY <1>1, <1>2, <1>3 DEF Cleared
    <3>2. PICK k \in 1 .. n : k < it + 1 /\ s[k] \in ClearsRD
      BY <3>1
    <3>3. k < it /\ it \in 1 .. n
      <4>1. k # it
        BY <1>5, <3>2
      <4> QED
        BY <1>1, <1>3, <3>2, <4>1
    <3>4. Cleared
      BY <3>1, <3>2, <3>3 DEF Cleared
    <3>5. p \notin {"storeloadopt"}
      <4>1. p \in {"storeloadopt"} => it < k
        BY <1>3, <1>5, <3>2, <3>3 DEF Ordered
      <4>2. ~(it < k)
        BY <1>3, <3>2, <3>3
      <4> QED
        BY <4>1, <4>2
    <3>6. p \notin NeedsRD
      BY <3>5, PhasesAreDisjoint
    <3> QED
      BY <2>0, <2>1, <3>4, <3>6
  <2>5. MergedAt(it') = MergedAt(it + 1)
    <3>0. PICK j : j = it'
      OBVIOUS
    <3> DEFINE i == it + 1
    <3>1. i \in 1 .. n /\ j \in i .. n /\ (j > i => s[j] \notin CanSkip)
      <4>1. it \in 1 .. n - 1 /\ j \in it + 1 .. n
        BY <1>1, <3>0
      <4>2. s[j] \notin CanSkip \/ j = it + 1
        BY <1>1, <3>0
      <4> HIDE DEF n, s
      <4> QED
        BY <1>3, <4>1, <4>2
    <3>2. \A k \in i .. j - 1 : s[k] \in CanSkip
      BY <1>1, <3>0
    <3> HIDE DEF i
    <3>3. MergedAt(j) = MergedAt(i)
      BY <1>3, <3>1, <3>2, MergedSame
    <3> QED
      BY <3>0, <3>3 DEF i
  <2>6. MergedAt(it + 1) = IF p \in LeavesMerged THEN 1 ELSE 0
    <3>1. it \in 1 .. n - 1 /\ it + 1 \in 1 .. n
      BY <1>1, <1>3
    <3>2. s[it] \in LeavesMerged <=> s[it + 1] \in TakesMerged
      BY <1>3, <3>1 DEF Ordered
    <3> QED
      BY <1>5, <3>1, <3>2 DEF MergedAt
  <2>7. Describes(Calm(MergedAt(it'), r))
    <3>1. Exit(p, m) = Calm(MergedAt(it'), r)
      BY <2>0, <2>5, <2>6 DEF Exit
    <3> QED
      BY <2>2, <3>1
  <2>8. Between(r)'
    <3>1. PICK b : b = MergedAt(it')
      OBVIOUS
    <3>2. MergedAt(it)' = b
      BY <1>2, <3>1 DEF MergedAt
    <3>3. Describes(Calm(b, r))'
      BY <1>2, <2>7, <3>1 DEF Describes, RDIs
    <3> QED
      BY <3>2, <3>3 DEF Between
  <2> QED
    BY <2>3, <2>4, <2>8
<1>7. phase' \in NoPart
  BY <1>2 DEF NoPart
<1> QED
  BY <1>2, <1>4, <1>6, <1>7 DEF Work

\* The work of the phases is an invariant of the specification.
THEOREM WorkHolds == Spec => []Work
<1>1. Init /\ Kept => Work
  <2> SUFFICES ASSUME Init, Kept PROVE Work
    OBVIOUS
  <2>1. fn = NewCGFunc(TRUE) /\ at = "driver"
    BY DEF Init
  <2> QED
    BY <2>1 DEF Work, NewCGFunc
<1>2. Work /\ Kept /\ Kept' /\ [Next]_vars => Work'
  <2> SUFFICES ASSUME Work, Kept, Kept', [Next]_vars PROVE Work'
    OBVIOUS
  <2>0. /\ Ordered(phaseSeq) /\ Len(phaseSeq) \in Nat /\ it \in 1 .. Len(phaseSeq) + 1 /\ Typed
        /\ Len(phaseSeq) > 1
        /\ fn.sbb \in {0, 1}
    BY LenProperties DEF Kept, Types, Ordered, TypeOK, PhaseSeqEnd, Work
  <2>00. \A e : UNCHANGED <<made, cache, madeFor, fn>> /\ Describes(e) => Describes(e)'
    BY DEF Describes, RDIs
  <2>1. CASE StartFunc
    <3>1. /\ UNCHANGED <<opt, phaseSeq, phase, cache>> /\ at = "driver"
          /\ \E b \in BOOLEAN : fn' = NewCGFunc(b)
          /\ it' = 1
      BY <2>1 DEF StartFunc, cmd
    <3>2. phase = NoPhase /\ cache = None
      BY <3>1 DEF Kept, Control
    <3>3. fn'.sbb = 0 /\ fn'.rd = 0 /\ fn'.pseudo = FALSE
      BY <3>1 DEF NewCGFunc
    <3>4. ~Cleared'
      <4>1. \A k \in 1 .. Len(phaseSeq) : ~(k < 1)
        BY <2>0
      <4> QED
        BY <3>1, <4>1 DEF Cleared
    <3>5. Between("none")'
      <4>1. MergedAt(it)' = 0
        <5>1. phaseSeq[1] \notin TakesMerged
          BY <2>0 DEF Ordered
        <5> QED
          BY <3>1, <5>1 DEF MergedAt
      <4>2. RDIs("none")'
        BY <3>3 DEF RDIs
      <4>3. Calm(0, "none") \in Notes
        BY DEF Calm, Note, Notes, Modes
      <4>4. \A a \in Held : cache'[a] = 0
        BY <3>1, <3>2 DEF None, Held
      <4>5. Describes(Calm(0, "none"))'
        BY <3>3, <4>2, <4>3, <4>4 DEF Describes, Calm, Note
      <4> QED
        BY <4>1, <4>5 DEF Between
    <3>6. phase' \in NoPart
      BY <3>1, <3>2 DEF NoPart
    <3> QED
      BY <3>3, <3>4, <3>5, <3>6 DEF Work
  <2>2. CASE LeaveEmit \/ PassOver
    <3>1. /\ UNCHANGED <<opt, phaseSeq, at, skipAfterFlag, phase, cache, made, madeFor, fn>>
          /\ at = "loop" /\ phase = NoPhase /\ it' = it + 1
          /\ ~skipFromFlag' => ~skipFromFlag
          /\ it \in 1 .. Len(phaseSeq)
      <4>1. /\ UNCHANGED <<opt, phaseSeq, at, skipAfterFlag, phase, cache, made, madeFor, fn>>
            /\ at = "loop" /\ phase = NoPhase /\ it' = it + 1
        BY <2>2 DEF LeaveEmit, PassOver, InLoop, cmd, NoPhase
      <4>2. ~skipFromFlag' => ~skipFromFlag
        BY <2>2 DEF LeaveEmit, PassOver
      <4>3. it < Len(phaseSeq) + 1
        BY <2>2 DEF LeaveEmit, PassOver, InLoop, PhaseSeqEnd
      <4> QED
        BY <2>0, <4>1, <4>2, <4>3
    <3>2. phaseSeq[it] \notin LeavesMerged \cup TakesMerged \cup ClearsRD
      <4>1. CASE LeaveEmit
        BY <4>1, PhasesAreDisjoint DEF LeaveEmit, LastPhase
      <4>2. CASE PassOver
        BY <4>2, IteratorMoves, PhasesAreDisjoint DEF Kept
      <4> QED
        BY <2>2, <4>1, <4>2
    <3>3. MergedAt(it') = 0 /\ MergedAt(it) = 0
      <4>1. it + 1 \in 1 .. Len(phaseSeq) => phaseSeq[it + 1] \notin TakesMerged
        <5>1. it + 1 \in 1 .. Len(phaseSeq) => it \in 1 .. Len(phaseSeq) - 1
          BY <2>0, <3>1
        <5> QED
          BY <2>0, <3>2, <5>1 DEF Ordered
      <4> QED
        BY <3>1, <3>2, <4>1 DEF MergedAt
    <3>4. Cleared' => Cleared
      <4> SUFFICES ASSUME Cleared' PROVE Cleared
        OBVIOUS
      <4>1. /\ ~skipFromFlag /\ ~skipAfterFlag
            /\ \E k \in 1 .. Len(phaseSeq) : k < it + 1 /\ phaseSeq[k] \in ClearsRD
        BY <3>1 DEF Cleared
      <4>2. PICK k \in 1 .. Len(phaseSeq) : k < it + 1 /\ phaseSeq[k] \in ClearsRD
        BY <4>1
      <4>3. k # it
        BY <3>2, <4>2
      <4>4. k < it
        BY <2>0, <4>2, <4>3
      <4> QED
        BY <4>1, <4>2, <4>4 DEF Cleared
    <3>5. ASSUME fn.hasBBs
          PROVE  \E m \in {"none", "any"} : (Cleared' => m = "none") /\ Between(m)'
      <4>1. PICK m \in {"none", "any"} : (Cleared => m = "none") /\ Between(m)
        BY <3>1, <3>5 DEF Work, NoPart
      <4>2. Describes(Calm(0, m))
        BY <3>3, <4>1 DEF Between
      <4>3. MergedAt(it)' = 0
        BY <3>1, <3>3 DEF MergedAt
      <4>4. Between(m)'
        BY <2>00, <3>1, <4>2, <4>3 DEF Between
      <4> QED
        BY <3>4, <4>1, <4>4
    <3> QED
      BY <3>1, <3>5 DEF Work, NoPart
  <2>3. CASE RunFuncPhase
    BY <2>3, RunWorks
  <2>4. CASE PhaseReturns
    BY <2>4, ReturnWorks
  <2>5. CASE Emit
    <3>1. /\ UNCHANGED <<opt, phaseSeq, it, skipFromFlag, skipAfterFlag, cache, made, madeFor, fn>>
          /\ at = "loop" /\ phase = NoPhase /\ phase' = LastPhase
      BY <2>5 DEF Emit, cmd, NoPhase, LastPhase
    <3>2. ASSUME fn.hasBBs
          PROVE  \E m \in {"none", "any"} : (Cleared' => m = "none") /\ Between(m)'
      <4>1. PICK m \in {"none", "any"} : (Cleared => m = "none") /\ Between(m)
        BY <3>1, <3>2 DEF Work, NoPart
      <4>2. MergedAt(it)' = MergedAt(it) /\ Cleared' = Cleared
        BY <3>1 DEF MergedAt, Cleared
      <4>3. Between(m)'
        BY <2>00, <3>1, <4>1, <4>2 DEF Between
      <4> QED
        BY <4>1, <4>2, <4>3
    <3> QED
      BY <3>1, <3>2 DEF Work, NoPart
  <2>6. CASE EndFunc
    BY <2>6 DEF EndFunc, Work
  <2>7. CASE GetAnalysisResult \/ Made \/ InvalidAnalysisResult \/ Branch \/ Act \/ Look
    BY <2>7, StepsWork
  <2>8. CASE UNCHANGED vars
    <3>1. UNCHANGED <<opt, phaseSeq, at, it, skipFromFlag, skipAfterFlag, phase, todo, cache, made,
                      madeFor, fn>>
      BY <2>8 DEF vars, mgrVars, cmd
    <3> QED
      BY <3>1 DEF Work, Cleared, Between, Within, MergedAt, Knows, Describes, RDIs
  <2> QED
    BY <2>1, <2>2, <2>3, <2>4, <2>5, <2>6, <2>7, <2>8 DEF Next
<1> QED
  BY <1>1, <1>2, TypesHold, PTL DEF Spec

\* AnalysesAreSound: no phase works on an analysis that is missing, of former code or of
\* another function, whatever the options.
THEOREM AnalysesHold == Spec => []AnalysesAreSound
<1>1. Kept /\ Work => AnalysesAreSound
  <2> SUFFICES ASSUME Kept, Work PROVE AnalysesAreSound
    OBVIOUS
  <2>1. TypeOK /\ LeavesNothingBehind
    BY DEF Kept, Types, Control, LeavesNothingBehind
  <2>2. AnalysisIsCurrent
    <3> SUFFICES ASSUME Ready("use") PROVE cache[Arg] # 0 /\ madeFor[Arg] = fn.code
      BY DEF AnalysisIsCurrent
    <3>1. todo # <<>> /\ Head(todo).do = "use"
      BY DEF Ready
    <3>2. phase \notin NoPart /\ fn.hasBBs /\ at # "driver"
      BY <3>1 DEF Kept, Control, NoPart
    <3>3. PICK m \in {"none", "any"} : Within(m)
      BY <3>2 DEF Work
    <3>4. PICK e : Describes(e) /\ Leads(phase, e, todo, Exit(phase, m))
      BY <3>3 DEF Within, Knows
    <3> DEFINE op == Head(todo)
    <3>5. PICK f : Does(phase, e, op, f)
      BY <3>1, <3>4, LeadsTail
    <3>6. op.do = "use"
      BY <3>1
    <3> HIDE DEF op
    <3>7. op.a \in e.fresh
      BY <3>5, <3>6 DEF Does
    <3>8. cache[op.a] # 0 /\ madeFor[op.a] = fn.code
      BY <3>4, <3>7 DEF Describes
    <3> QED
      BY <3>8 DEF op, Arg
  <2>3. ReachingDefinitionIsCached
    <3> SUFFICES ASSUME at # "driver", fn.rd # 0, todo = <<>> PROVE cache["reachdef"] = fn.rd
      BY DEF ReachingDefinitionIsCached
    <3>1. fn.hasBBs
      BY DEF Work
    <3>2. PICK m \in {"none", "any"} :
            (phase \in NoPart => Between(m)) /\ (phase \notin NoPart => Within(m))
      BY <3>1 DEF Work
    <3>3. \E b, r : r \in {"none", "any"} /\ Describes(Calm(b, r))
      <4>1. CASE phase \in NoPart
        BY <3>2, <4>1 DEF Between
      <4>2. CASE phase \notin NoPart
        <5>1. PICK e : Describes(e) /\ Leads(phase, e, <<>>, Exit(phase, m))
          BY <3>2, <4>2 DEF Within, Knows
        <5>2. Describes(Exit(phase, m))
          BY <5>1, LeadsDone
        <5> QED
          BY <3>2, <5>2 DEF Exit
      <4> QED
        BY <4>1, <4>2
    <3>4. PICK b, r : r \in {"none", "any"} /\ Describes(Calm(b, r))
      BY <3>3
    <3>5. RDIs(r)
      BY <3>4 DEF Describes, Calm, Note
    <3> QED
      BY <3>4, <3>5 DEF RDIs
  <2> QED
    BY <2>1, <2>2, <2>3 DEF AnalysesAreSound
<1> QED
  BY <1>1, TypesHold, WorkHolds, PTL

\* CodeIsRestored: blocks are not left merged and no added instruction is left when the
\* phases run that could not work with them.
THEOREM CodeHolds == Spec => []CodeIsRestored
<1>1. Kept /\ Work => CodeIsRestored
  <2> SUFFICES ASSUME Kept, Work PROVE CodeIsRestored
    OBVIOUS
  <2>0. Ordered(phaseSeq) /\ Len(phaseSeq) \in Nat
    BY LenProperties DEF Kept, Types, Ordered
  <2>1. ASSUME phase = "regalloc"
        PROVE  /\ fn.sbb = 0
               /\ Cleared => ~fn.pseudo
               /\ it \in 1 .. Len(phaseSeq) /\ phaseSeq[it] = "regalloc"
    <3>1. phase \notin NoPart /\ phase \in Allocs /\ phase # NoPhase /\ phase # LastPhase
      BY <2>1 DEF NoPart, NoPhase, LastPhase, Allocs
    <3>2. at \in {"driver", "loop", "emit"}
      BY DEF Kept, Types, TypeOK
    <3>3. at = "loop" /\ it < Len(phaseSeq) /\ phase = phaseSeq[it]
      BY <3>1, <3>2 DEF Kept, Control
    <3>4. it \in 1 .. Len(phaseSeq)
      <4>1. it \in 1 .. Len(phaseSeq) + 1
        BY DEF Kept, Types, TypeOK, PhaseSeqEnd
      <4> QED
        BY <2>0, <3>3, <4>1
    <3>5. CASE ~fn.hasBBs
      BY <2>1, <3>3, <3>4, <3>5 DEF Work
    <3>6. CASE fn.hasBBs
      <4>1. PICK m \in {"none", "any"} : (Cleared => m = "none") /\ Within(m)
        BY <3>1, <3>3, <3>6 DEF Work
      <4>2. PICK e : Describes(e) /\ e.rd = m /\ e.sbb = 0
        BY <3>1, <4>1 DEF Within, Knows
      <4>3. fn.sbb = 0 /\ RDIs(m)
        BY <4>2 DEF Describes
      <4>4. Cleared => ~fn.pseudo
        BY <4>1, <4>3 DEF RDIs
      <4> QED
        BY <2>1, <3>3, <3>4, <4>3, <4>4
    <3> QED
      BY <3>5, <3>6
  <2>2. phase = "emit" => fn.sbb = 0
    <3> SUFFICES ASSUME phase = LastPhase PROVE fn.sbb = 0
      BY DEF LastPhase
    <3>1. it \in 1 .. Len(phaseSeq) + 1 /\ at \in {"driver", "loop", "emit"}
      BY DEF Kept, Types, TypeOK, PhaseSeqEnd
    <3>2. at = "emit" /\ it = Len(phaseSeq) + 1
      <4>1. at # "driver"
        BY DEF Kept, Control, NoPhase, LastPhase
      <4>2. at # "loop"
        <5> SUFFICES ASSUME at = "loop" PROVE FALSE
          OBVIOUS
        <5>1. it < Len(phaseSeq) /\ phase = phaseSeq[it]
          BY DEF Kept, Control, NoPhase, LastPhase
        <5>2. it \in 1 .. Len(phaseSeq) /\ it # Len(phaseSeq)
          BY <2>0, <3>1, <5>1
        <5> QED
          BY <2>0, <5>1, <5>2 DEF Ordered
      <4> QED
        BY <3>1, <4>1, <4>2 DEF Kept, Control, PhaseSeqEnd
    <3>3. CASE ~fn.hasBBs
      BY <3>2, <3>3 DEF Work
    <3>4. CASE fn.hasBBs
      <4>1. PICK m \in {"none", "any"} : Between(m)
        BY <3>2, <3>4 DEF Work, NoPart
      <4>2. MergedAt(it) = 0
        <5>1. it \notin 1 .. Len(phaseSeq)
          BY <2>0, <3>2
        <5> QED
          BY <5>1 DEF MergedAt
      <4> QED
        BY <4>1, <4>2 DEF Between, Describes, Calm, Note
    <3> QED
      BY <3>3, <3>4
  <2>3. BlocksAreSplit
    BY <2>1, <2>2 DEF BlocksAreSplit, Work
  <2>4. PseudoInsnsAreRemoved
    <3> SUFFICES ASSUME phase = "regalloc", ~skipFromFlag, ~skipAfterFlag,
                        ClearsRD \cap ToSet(phaseSeq) # {}
                 PROVE  ~fn.pseudo
      BY DEF PseudoInsnsAreRemoved, ClearsRD
    <3>1. PICK k \in 1 .. Len(phaseSeq) : phaseSeq[k] \in ClearsRD
      BY <2>0 DEF Ordered, ToSet
    <3>2. k < it
      BY <2>0, <2>1, <3>1 DEF Ordered
    <3> QED
      BY <2>1, <3>1, <3>2 DEF Cleared
  <2> QED
    BY <2>3, <2>4 DEF CodeIsRestored
<1> QED
  BY <1>1, TypesHold, WorkHolds, PTL
-----------------------------------------------------------------------------
(* What the options take away. *)

InTheRange == opt.useRange /\ funcs \in opt.range[1] .. opt.range[2]

NoFlags == ~skipFromFlag /\ ~skipAfterFlag

\* Behind the iterator lie phases that were run or that the options take away; behind
\* a raised flag no phase can be skipped.
Behind ==
  /\ at = "loop" => /\ skipAfterFlag /\ phase = NoPhase =>
                         \A i \in 1 .. Len(phaseSeq) : i = it => phaseSeq[i] \notin CanSkip
                    /\ opt.skipAfter \in ToSet(ran) => skipAfterFlag \/ phase = opt.skipAfter
                    /\ phase # NoPhase => phase \in ToSet(ran)
                    /\ NoFlags /\ phase # NoPhase => phase # opt.skipFrom
                    /\ NoFlags => \A i \in 1 .. Len(phaseSeq) - 1 :
                                    i < it => phaseSeq[i] # opt.skipFrom

InRangeOnly ==
  at # "driver" =>
    /\ inRange <=> InTheRange
    /\ opt.skipFrom = NoPhase /\ opt.skipAfter = NoPhase => NoFlags
    /\ NoFlags => \A i \in 1 .. Len(phaseSeq) - 1 :
                    i < it => phaseSeq[i] \in ToSet(ran) \/ OutOfRange(phaseSeq[i])
    /\ \A p \in ToSet(ran) : ~OutOfRange(p)

Obeyed == Behind /\ InRangeOnly

\* The positions of phases, and what is known of the phase that is run.
LEMMA RunAppends ==
  ASSUME Kept, RunFuncPhase
  PROVE  ToSet(ran)' = ToSet(ran) \cup {phase'} /\ phase' # NoPhase
<1>1. PICK q : q = phase'
  OBVIOUS
<1>2. q \in Name \ NoPart
  BY <1>1, IteratorMoves DEF Kept
<1>3. ran' = Append(ran, q) /\ ran \in Seq(Name)
  BY <1>1 DEF RunFuncPhase, Kept, Types
<1>4. ToSet(Append(ran, q)) = ToSet(ran) \cup {q}
  BY <1>2, <1>3, ToSetAppend
<1> QED
  BY <1>1, <1>2, <1>3, <1>4 DEF NoPart

\* Obeyed is an invariant of the specification.
THEOREM ObeyedHolds == Spec => []Obeyed
<1>1. Init => Obeyed
  BY DEF Init, Obeyed, Behind, InRangeOnly
<1>2. Obeyed /\ Kept /\ Kept' /\ [Next]_vars => Obeyed'
  <2> SUFFICES ASSUME Obeyed, Kept, Kept', [Next]_vars PROVE Obeyed'
    OBVIOUS
  <2>0. /\ Ordered(phaseSeq) /\ Len(phaseSeq) \in Nat /\ it \in 1 .. Len(phaseSeq) + 1
        /\ Len(phaseSeq) > 1 /\ ran \in Seq(Name) /\ ToSet(ran) \subseteq ToSet(phaseSeq)
        /\ {inRange, skipFromFlag, skipAfterFlag} \subseteq BOOLEAN
    BY LenProperties DEF Kept, Types, Ordered, TypeOK, PhaseSeqEnd
  <2>1. CASE StartFunc
    <3>1. /\ UNCHANGED <<opt, phaseSeq, funcs, phase>> /\ at = "driver"
          /\ inRange' = (inRange \/ InTheRange)
          /\ at' = "loop" /\ it' = 1 /\ skipFromFlag' = FALSE /\ skipAfterFlag' = FALSE
          /\ ran' = <<>>
      BY <2>1 DEF StartFunc, cmd, InTheRange
    <3>2. phase = NoPhase /\ inRange = FALSE
      BY <2>0, <3>1 DEF Kept, Control
    <3>3. ToSet(ran') = {}
      BY <3>1 DEF ToSet
    <3>4. \A i \in 1 .. Len(phaseSeq) : ~(i < 1)
      BY <2>0
    <3>5. \A i \in 1 .. Len(phaseSeq) - 1 : ~(i < 1)
      BY <2>0
    <3>6. InTheRange' = InTheRange
      BY <3>1 DEF InTheRange
    <3>7. Behind'
      BY <3>1, <3>2, <3>3, <3>5 DEF Behind
    <3>8. InRangeOnly'
      BY <3>1, <3>2, <3>3, <3>5, <3>6 DEF InRangeOnly, NoFlags
    <3> QED
      BY <3>7, <3>8 DEF Obeyed
  <2>2. CASE LeaveEmit
    <3>1. /\ UNCHANGED <<opt, phaseSeq, funcs, at, inRange, skipFromFlag, skipAfterFlag, phase, ran>>
          /\ at = "loop" /\ phase = NoPhase /\ it' = it + 1
      BY <2>2 DEF LeaveEmit, InLoop, cmd, NoPhase
    <3>2. it = Len(phaseSeq)
      BY <2>2, IteratorMoves DEF Kept
    <3>3. /\ \A i \in 1 .. Len(phaseSeq) : i # it'
          /\ \A i \in 1 .. Len(phaseSeq) - 1 : i < it
      BY <2>0, <3>1, <3>2
    <3>4. Behind'
      BY <3>1, <3>3 DEF Obeyed, Behind, NoFlags
    <3>5. InRangeOnly'
      BY <3>1, <3>3 DEF Obeyed, InRangeOnly, NoFlags, InTheRange, OutOfRange
    <3> QED
      BY <3>4, <3>5 DEF Obeyed
  <2>3. CASE PassOver
    <3>1. /\ UNCHANGED <<opt, phaseSeq, funcs, at, inRange, skipAfterFlag, phase, ran>>
          /\ at = "loop" /\ phase = NoPhase /\ it' = it + 1
          /\ ~skipFromFlag' /\ OutOfRange(phaseSeq[it])
          /\ skipFromFlag' = (skipFromFlag \/ phaseSeq[it] = opt.skipFrom)
      BY <2>3 DEF PassOver, InLoop, cmd, NoPhase
    <3>2. it \in 1 .. Len(phaseSeq) - 1 /\ phaseSeq[it] \in CanSkip
      BY <2>3, IteratorMoves DEF Kept, RangePhases, CanSkip
    <3>3. it \in 1 .. Len(phaseSeq) /\ \A i \in 1 .. Len(phaseSeq) - 1 : i < it' => i < it \/ i = it
      BY <2>0, <3>1, <3>2
    <3>4. ~skipAfterFlag /\ ~skipFromFlag /\ phaseSeq[it] # opt.skipFrom
      BY <3>1, <3>2, <3>3 DEF Obeyed, Behind
    <3>5. Behind'
      BY <3>1, <3>3, <3>4 DEF Obeyed, Behind, NoFlags
    <3>6. InRangeOnly'
      <4>1. \A p : OutOfRange(p)' = OutOfRange(p)
        BY <3>1 DEF OutOfRange
      <4>2. InTheRange' = InTheRange
        BY <3>1 DEF InTheRange
      <4> QED
        BY <3>1, <3>3, <3>4, <4>1, <4>2 DEF Obeyed, InRangeOnly, NoFlags
    <3> QED
      BY <3>5, <3>6 DEF Obeyed
  <2>4. CASE RunFuncPhase
    <3>1. /\ UNCHANGED <<opt, phaseSeq, funcs, at, inRange, skipAfterFlag>>
          /\ at = "loop" /\ phase = NoPhase /\ ~OutOfRange(phase')
          /\ skipFromFlag' = (skipFromFlag \/ phaseSeq[it] = opt.skipFrom)
      BY <2>4 DEF RunFuncPhase, SkipFrom, InLoop, cmd, NoPhase
    <3>2. /\ it \in 1 .. Len(phaseSeq) - 1
          /\ ~skipFromFlag' => it' = it /\ phase' # opt.skipFrom
          /\ phase' # NoPhase /\ ToSet(ran)' = ToSet(ran) \cup {phase'}
      BY <2>4, IteratorMoves, RunAppends DEF Kept
    <3>3. ~skipFromFlag' => ~skipFromFlag
      BY <2>0, <3>1
    <3>4. phaseSeq[it] # NoPhase
      <4>1. it \in 1 .. Len(phaseSeq)
        BY <2>0, <3>2
      <4> QED
        BY <2>0, <4>1 DEF Ordered
    <3>5. Behind'
      <4>1. opt.skipAfter \in ToSet(ran)' => skipAfterFlag \/ phase' = opt.skipAfter
        <5>1. opt.skipAfter \in ToSet(ran) => skipAfterFlag \/ opt.skipAfter = NoPhase
          BY <3>1 DEF Obeyed, Behind
        <5>2. NoPhase \notin ToSet(ran)
          <6>1. NoPhase \notin ToSet(phaseSeq)
            BY <2>0 DEF Ordered, ToSet
          <6> QED
            BY <2>0, <6>1
        <5> QED
          BY <3>2, <5>1, <5>2
      <4> QED
        BY <3>1, <3>2, <3>3, <4>1 DEF Obeyed, Behind, NoFlags
    <3>6. InRangeOnly'
      <4>1. \A p : OutOfRange(p)' = OutOfRange(p)
        BY <3>1 DEF OutOfRange
      <4>2. InTheRange' = InTheRange
        BY <3>1 DEF InTheRange
      <4>3. opt.skipFrom = NoPhase /\ opt.skipAfter = NoPhase => NoFlags'
        BY <3>1, <3>4 DEF Obeyed, InRangeOnly, NoFlags
      <4>4. \A p \in ToSet(ran)' : ~OutOfRange(p)
        BY <3>1, <3>2 DEF Obeyed, InRangeOnly
      <4>5. NoFlags' => \A i \in 1 .. Len(phaseSeq) - 1 :
                          i < it' => phaseSeq[i] \in ToSet(ran)' \/ OutOfRange(phaseSeq[i])
        BY <3>1, <3>2, <3>3 DEF Obeyed, InRangeOnly, NoFlags
      <4> QED
        BY <3>1, <4>1, <4>2, <4>3, <4>4, <4>5 DEF Obeyed, InRangeOnly
    <3> QED
      BY <3>5, <3>6 DEF Obeyed
  <2>5. CASE PhaseReturns
    <3>1. /\ UNCHANGED <<opt, phaseSeq, funcs, at, inRange, skipFromFlag, ran>>
          /\ at = "loop" /\ phase # NoPhase /\ phase' = NoPhase
          /\ skipAfterFlag' = (skipAfterFlag \/ phase = opt.skipAfter)
      BY <2>5 DEF PhaseReturns, cmd, NoPhase
    <3>2. /\ it \in 1 .. Len(phaseSeq) - 1
          /\ skipAfterFlag' => phaseSeq[it'] \notin CanSkip
          /\ ~skipAfterFlag' => it' = it + 1 /\ phase # opt.skipAfter
          /\ phase = phaseSeq[it]
      BY <2>5, <3>1, IteratorMoves DEF Kept, Control
    <3>3. ~skipAfterFlag' => ~skipAfterFlag
      BY <2>0, <3>1
    <3>4. ~skipAfterFlag' =>
            \A i \in 1 .. Len(phaseSeq) - 1 : i < it' => i < it \/ i = it
      <4>1. \A i \in 1 .. Len(phaseSeq) - 1 : i < it + 1 => i < it \/ i = it
        BY <2>0
      <4> QED
        BY <3>2, <4>1
    <3>5. Behind'
      BY <3>1, <3>2, <3>3, <3>4 DEF Obeyed, Behind, NoFlags
    <3>6. InRangeOnly'
      <4>1. \A p : OutOfRange(p)' = OutOfRange(p)
        BY <3>1 DEF OutOfRange
      <4>2. InTheRange' = InTheRange
        BY <3>1 DEF InTheRange
      <4>3. opt.skipFrom = NoPhase /\ opt.skipAfter = NoPhase => NoFlags'
        BY <3>1 DEF Obeyed, InRangeOnly, NoFlags
      <4>4. NoFlags' => \A i \in 1 .. Len(phaseSeq) - 1 :
                          i < it' => phaseSeq[i] \in ToSet(ran) \/ OutOfRange(phaseSeq[i])
        BY <3>1, <3>2, <3>3, <3>4 DEF Obeyed, Behind, InRangeOnly, NoFlags
      <4> QED
        BY <3>1, <4>1, <4>2, <4>3, <4>4 DEF Obeyed, InRangeOnly
    <3> QED
      BY <3>5, <3>6 DEF Obeyed
  <2>6. CASE Emit
    <3>1. /\ UNCHANGED <<opt, phaseSeq, funcs, inRange, it, skipFromFlag, skipAfterFlag>>
          /\ at = "loop" /\ at' = "emit" /\ ran' = Append(ran, LastPhase)
      BY <2>6 DEF Emit, cmd, LastPhase
    <3>2. ToSet(ran)' = ToSet(ran) \cup {LastPhase}
      <4>1. LastPhase \in Name
        BY DEF LastPhase, Name
      <4> QED
        BY <2>0, <3>1, <4>1, ToSetAppend
    <3>3. \A p : OutOfRange(p)' = OutOfRange(p)
      BY <3>1 DEF OutOfRange
    <3>4. InTheRange' = InTheRange /\ NoFlags' = NoFlags
      BY <3>1 DEF InTheRange, NoFlags
    <3>5. ~OutOfRange(LastPhase)
      BY DEF OutOfRange, RangePhases, LastPhase
    <3>6. InRangeOnly'
      BY <3>1, <3>2, <3>3, <3>4, <3>5 DEF Obeyed, InRangeOnly
    <3> QED
      BY <3>1, <3>6 DEF Obeyed, Behind
  <2>7. CASE EndFunc
    BY <2>7 DEF EndFunc, Obeyed, Behind, InRangeOnly
  <2>8. CASE UNCHANGED mgrVars
    <3>1. UNCHANGED <<opt, phaseSeq, funcs, at, inRange, it, skipFromFlag, skipAfterFlag, phase, ran>>
      BY <2>8 DEF mgrVars, cmd
    <3> QED
      BY <3>1 DEF Obeyed, Behind, InRangeOnly, NoFlags, InTheRange, OutOfRange
  <2>9. CASE GetAnalysisResult \/ Made \/ InvalidAnalysisResult \/ Branch \/ Act \/ Look
             \/ UNCHANGED vars
    BY <2>8, <2>9 DEF GetAnalysisResult, Made, InvalidAnalysisResult, Branch, Act, Look, vars
  <2> QED
    BY <2>1, <2>2, <2>3, <2>4, <2>5, <2>6, <2>7, <2>9 DEF Next
<1> QED
  BY <1>1, <1>2, TypesHold, PTL DEF Spec

\* OptionsAreObeyed: --skip-from, --skip-after and the range take away exactly the
\* phases they name.
THEOREM OptionsHold == Spec => OptionsAreObeyed
<1> DEFINE Rest == Started => /\ \A i \in 1 .. it' : phaseSeq[i] # opt.skipFrom
                              /\ opt.skipAfter \notin ToSet(ran)
<1>1. Obeyed /\ Kept /\ [Next]_vars => [Rest]_vars
  <2> SUFFICES ASSUME Obeyed, Kept, [Next]_vars, Started PROVE Rest
    BY DEF Started
  <2>1. phase = NoPhase /\ phase' # NoPhase /\ phase' \in CanSkip
    BY DEF Started, NoPhase
  <2>2. RunFuncPhase
    <3>1. ~Emit
      BY <2>1 DEF Emit, CanSkip
    <3>2. UNCHANGED mgrVars \/ StartFunc \/ LeaveEmit \/ PassOver => phase' = phase
      BY DEF mgrVars, StartFunc, LeaveEmit, PassOver
    <3>3. PhaseReturns \/ EndFunc => phase' = NoPhase
      BY DEF PhaseReturns, EndFunc, NoPhase
    <3>4. GetAnalysisResult \/ Made \/ InvalidAnalysisResult \/ Branch \/ Act \/ Look
            \/ UNCHANGED vars => UNCHANGED mgrVars
      BY DEF GetAnalysisResult, Made, InvalidAnalysisResult, Branch, Act, Look, vars
    <3> QED
      BY <2>1, <3>1, <3>2, <3>3, <3>4 DEF Next
  <2>3. /\ it \in 1 .. Len(phaseSeq) - 1 /\ phase' = phaseSeq[it']
        /\ skipFromFlag' => phase' \notin CanSkip
        /\ ~skipFromFlag' => it' = it /\ phase' # opt.skipFrom
    BY <2>2, IteratorMoves DEF Kept
  <2>4. /\ at = "loop" /\ skipFromFlag' = (skipFromFlag \/ phaseSeq[it] = opt.skipFrom)
        /\ skipFromFlag \in BOOLEAN
    BY <2>2 DEF RunFuncPhase, SkipFrom, InLoop, Kept, Types, TypeOK
  <2>5. /\ Len(phaseSeq) \in Nat /\ Ordered(phaseSeq)
        /\ ToSet(ran) \subseteq ToSet(phaseSeq)
    BY LenProperties DEF Kept, Types, Ordered, TypeOK
  <2>6. ~skipFromFlag /\ it' = it /\ phase' # opt.skipFrom
    BY <2>1, <2>3, <2>4
  <2>7. ~skipAfterFlag
    <3>1. it \in 1 .. Len(phaseSeq)
      BY <2>3, <2>5
    <3> QED
      BY <2>1, <2>3, <2>4, <2>6, <3>1 DEF Obeyed, Behind
  <2>8. \A i \in 1 .. it : phaseSeq[i] # opt.skipFrom
    <3>1. \A i \in 1 .. it : i = it \/ (i \in 1 .. Len(phaseSeq) - 1 /\ i < it)
      BY <2>3, <2>5
    <3> QED
      BY <2>3, <2>4, <2>6, <2>7, <3>1 DEF Obeyed, Behind, NoFlags
  <2>9. opt.skipAfter \notin ToSet(ran)
    <3>1. NoPhase \notin ToSet(phaseSeq)
      BY <2>5 DEF Ordered, ToSet
    <3> QED
      BY <2>1, <2>4, <2>5, <2>7, <3>1 DEF Obeyed, Behind
  <2> QED
    BY <2>6, <2>8, <2>9
<1>2. Obeyed /\ Kept => RangeIsObeyed
  <2> SUFFICES ASSUME Obeyed, Kept, at = "emit", opt.skipFrom = NoPhase, opt.skipAfter = NoPhase,
                      NEW p \in RangePhases \cap ToSet(phaseSeq)
               PROVE  p \in ToSet(ran) <=> (opt.useRange => funcs \in opt.range[1] .. opt.range[2])
    BY DEF RangeIsObeyed, NoPhase
  <2>1. Len(phaseSeq) \in Nat /\ Ordered(phaseSeq) /\ it = Len(phaseSeq) + 1
    BY LenProperties DEF Kept, Types, Ordered, Control, PhaseSeqEnd
  <2>2. PICK k \in 1 .. Len(phaseSeq) : p = phaseSeq[k]
    BY <2>1 DEF Ordered, ToSet
  <2>3. k # Len(phaseSeq)
    <3>1. LastPhase \notin RangePhases
      BY DEF LastPhase, RangePhases
    <3> QED
      BY <2>1, <2>2, <3>1 DEF Ordered
  <2>4. k \in 1 .. Len(phaseSeq) - 1 /\ k < it
    BY <2>1, <2>2, <2>3
  <2>5. NoFlags /\ (inRange <=> InTheRange)
    BY DEF Obeyed, InRangeOnly
  <2>6. p \in ToSet(ran) <=> ~OutOfRange(p)
    BY <2>2, <2>4, <2>5 DEF Obeyed, InRangeOnly
  <2>7. OutOfRange(p) <=> opt.useRange /\ ~InTheRange
    BY <2>5 DEF OutOfRange
  <2> QED
    BY <2>6, <2>7 DEF InTheRange
<1>3. Spec => [][Rest]_vars
  BY <1>1, TypesHold, ObeyedHolds, PTL DEF Spec
<1>4. Spec => SkipsTheRest
  BY <1>3 DEF SkipsTheRest
<1>5. Spec => []RangeIsObeyed
  BY <1>2, TypesHold, ObeyedHolds, PTL
<1> QED
  BY <1>4, <1>5, PTL DEF OptionsAreObeyed
-----------------------------------------------------------------------------
(* The phases that cannot be skipped. *)

\* The part of the phase sequence the function has gone through, without emit.
Reached ==
  IF phase \notin NoPart THEN it ELSE IF it <= Len(phaseSeq) THEN it - 1 ELSE Len(phaseSeq) - 1

NeededSoFar ==
  /\ at = "loop" => Needed(ran) = Needed(SubSeq(phaseSeq, 1, Reached))
  /\ at = "emit" \/ (at = "driver" /\ funcs > 0) => Needed(ran) = Needed(phaseSeq)

\* NeededSoFar is an invariant of the specification.
THEOREM NeededHolds == Spec => []NeededSoFar
<1>1. Init => NeededSoFar
  <2>1. Init => at = "driver" /\ funcs = 0
    BY DEF Init
  <2>2. ~(0 > 0)
    OBVIOUS
  <2> QED
    BY <2>1, <2>2 DEF NeededSoFar
<1>2. NeededSoFar /\ Kept /\ Kept' /\ [Next]_vars => NeededSoFar'
  <2> SUFFICES ASSUME NeededSoFar, Kept, Kept', [Next]_vars PROVE NeededSoFar'
    OBVIOUS
  <2> DEFINE s == phaseSeq
             n == Len(phaseSeq)
  <2>0. /\ Ordered(s) /\ s \in Seq(Name) /\ n \in Nat /\ it \in 1 .. n + 1
        /\ n = Len(s) /\ n > 1 /\ ran \in Seq(Name)
    BY LenProperties DEF Kept, Types, Ordered, TypeOK, PhaseSeqEnd
  <2>1. CASE StartFunc
    <3>1. /\ UNCHANGED <<phaseSeq, phase>> /\ at = "driver" /\ at' = "loop" /\ it' = 1 /\ ran' = <<>>
      BY <2>1 DEF StartFunc, cmd
    <3>2. phase' = NoPhase
      BY <3>1 DEF Kept, Control
    <3>3. Reached' = 0
      <4>1. 1 <= n /\ 1 - 1 = 0
        BY <2>0
      <4> QED
        BY <3>1, <3>2, <4>1 DEF Reached, NoPart
    <3>4. SubSeq(s, 1, 0) = <<>>
      BY <2>0
    <3> QED
      BY <3>1, <3>3, <3>4 DEF NeededSoFar
  <2>2. CASE LeaveEmit \/ PassOver
    <3>1. /\ UNCHANGED <<phaseSeq, at, phase, ran>> /\ at = "loop" /\ phase = NoPhase /\ it' = it + 1
      BY <2>2 DEF LeaveEmit, PassOver, InLoop, cmd, NoPhase
    <3>2. it \in 1 .. n
      <4>1. LeaveEmit => it = n
        BY IteratorMoves DEF Kept
      <4>2. PassOver => it \in 1 .. n - 1
        BY IteratorMoves DEF Kept
      <4> HIDE DEF n
      <4> QED
        BY <2>0, <2>2, <4>1, <4>2
    <3>3. Reached = it - 1 /\ (it = n => Reached' = n - 1) /\ (it # n => Reached' = it)
      <4>1. it <= n /\ (it = n => ~(it + 1 <= n)) /\ (it # n => it + 1 <= n /\ (it + 1) - 1 = it)
        BY <2>0, <3>2
      <4> QED
        BY <3>1, <4>1 DEF Reached, NoPart
    <3>4. Needed(SubSeq(s, 1, Reached')) = Needed(SubSeq(s, 1, Reached))
      <4>1. CASE it = n
        BY <3>3, <4>1
      <4>2. CASE it # n
        <5>1. PassOver /\ s[it] \in CanSkip
          BY <2>2, <4>2, IteratorMoves DEF Kept, RangePhases, CanSkip
        <5>2. it - 1 \in Nat /\ it - 1 < n /\ (it - 1) + 1 = it
          BY <2>0, <3>2
        <5>3. Needed(SubSeq(s, 1, (it - 1) + 1)) = Needed(SubSeq(s, 1, it - 1))
          BY <2>0, <5>1, <5>2, NeededStep
        <5> QED
          BY <3>3, <4>2, <5>2, <5>3
      <4> QED
        BY <4>1, <4>2
    <3> QED
      BY <3>1, <3>4 DEF NeededSoFar
  <2>3. CASE RunFuncPhase
    <3>1. /\ UNCHANGED <<phaseSeq, at>> /\ at = "loop" /\ phase = NoPhase /\ ran' = Append(ran, phase')
      BY <2>3 DEF RunFuncPhase, SkipFrom, InLoop, cmd, NoPhase
    <3>2. PICK p, j : p = phase' /\ j = it'
      OBVIOUS
    <3>3. /\ it \in 1 .. n - 1 /\ j \in it .. n - 1 /\ p = s[j] /\ p \in Name /\ p \notin NoPart
          /\ \A k \in it .. j - 1 : s[k] \in CanSkip
      BY <2>3, <3>2, IteratorMoves DEF Kept
    <3> HIDE DEF s, n
    <3>4. /\ it - 1 \in Nat /\ j - 1 \in Nat /\ it - 1 <= j - 1 /\ j - 1 <= n /\ j - 1 < n
          /\ (it - 1) + 1 = it /\ (j - 1) + 1 = j /\ it <= n
      BY <2>0, <3>3
    <3>5. Needed(SubSeq(s, 1, j - 1)) = Needed(SubSeq(s, 1, it - 1))
      BY <2>0, <3>3, <3>4, NeededSkip
    <3>6. Needed(SubSeq(s, 1, j)) = Needed(Append(ran, p))
      <4>1. Needed(ran) = Needed(SubSeq(s, 1, it - 1))
        BY <3>1, <3>4 DEF NeededSoFar, Reached, NoPart, s, n
      <4>2. Needed(SubSeq(s, 1, (j - 1) + 1)) =
              IF s[(j - 1) + 1] \in CanSkip THEN Needed(SubSeq(s, 1, j - 1))
              ELSE Append(Needed(SubSeq(s, 1, j - 1)), s[(j - 1) + 1])
        BY <2>0, <3>4, NeededStep
      <4>3. Needed(SubSeq(s, 1, j)) =
              IF p \in CanSkip THEN Needed(SubSeq(s, 1, j - 1))
              ELSE Append(Needed(SubSeq(s, 1, j - 1)), p)
        BY <3>3, <3>4, <4>2
      <4>4. Needed(Append(ran, p)) = IF p \in CanSkip THEN Needed(ran) ELSE Append(Needed(ran), p)
        BY <2>0, <3>3, NeededAppend
      <4> QED
        BY <3>5, <4>1, <4>3, <4>4
    <3>7. Reached' = j
      BY <3>2, <3>3 DEF Reached
    <3> QED
      BY <3>1, <3>2, <3>6, <3>7 DEF NeededSoFar, s
  <2>4. CASE PhaseReturns
    <3>1. /\ UNCHANGED <<phaseSeq, at, ran>> /\ at = "loop" /\ phase # NoPhase /\ phase' = NoPhase
      BY <2>4 DEF PhaseReturns, cmd, NoPhase
    <3>2. PICK j : j = it'
      OBVIOUS
    <3>3. /\ it \in 1 .. n - 1 /\ j \in it + 1 .. n /\ phase = s[it]
          /\ \A k \in it + 1 .. j - 1 : s[k] \in CanSkip
      BY <2>4, <3>1, <3>2, IteratorMoves DEF Kept, Control
    <3> HIDE DEF s, n
    <3>4. /\ it \in Nat /\ j - 1 \in Nat /\ it <= j - 1 /\ j - 1 <= n /\ j <= n
          /\ it \in 1 .. n /\ it # n
      BY <2>0, <3>3
    <3>5. Needed(SubSeq(s, 1, j - 1)) = Needed(SubSeq(s, 1, it))
      BY <2>0, <3>3, <3>4, NeededSkip
    <3>6. phase # LastPhase
      BY <2>0, <3>3, <3>4 DEF Ordered
    <3>7. Needed(ran) = Needed(SubSeq(s, 1, it))
      BY <3>1, <3>6 DEF NeededSoFar, Reached, NoPart, s
    <3>8. Reached' = j - 1
      BY <3>1, <3>2, <3>4 DEF Reached, NoPart, n
    <3> QED
      BY <3>1, <3>5, <3>7, <3>8 DEF NeededSoFar, s
  <2>5. CASE Emit
    <3>1. /\ UNCHANGED phaseSeq /\ at = "loop" /\ phase = NoPhase /\ it = n + 1 /\ at' = "emit"
          /\ ran' = Append(ran, LastPhase)
      BY <2>5 DEF Emit, cmd, NoPhase, LastPhase, PhaseSeqEnd
    <3> HIDE DEF s, n
    <3>2. /\ n - 1 \in Nat /\ n - 1 < n /\ (n - 1) + 1 = n /\ ~(n + 1 <= n) /\ n \in 1 .. n
      BY <2>0
    <3>3. Needed(ran) = Needed(SubSeq(s, 1, n - 1))
      BY <3>1, <3>2 DEF NeededSoFar, Reached, NoPart, s, n
    <3>4. s[n] = LastPhase /\ LastPhase \notin CanSkip /\ LastPhase \in Name
      <4>1. LastPhase \notin CanSkip /\ LastPhase \in Name
        BY DEF LastPhase, CanSkip, Name
      <4> QED
        BY <2>0, <3>2, <4>1 DEF Ordered
    <3>5. Needed(Append(ran, LastPhase)) = Append(Needed(ran), LastPhase)
      BY <2>0, <3>4, NeededAppend
    <3>6. Needed(SubSeq(s, 1, (n - 1) + 1)) =
            IF s[(n - 1) + 1] \in CanSkip THEN Needed(SubSeq(s, 1, n - 1))
            ELSE Append(Needed(SubSeq(s, 1, n - 1)), s[(n - 1) + 1])
      BY <2>0, <3>2, NeededStep
    <3>7. SubSeq(s, 1, n) = s
      BY <2>0
    <3>8. Needed(s) = Append(Needed(SubSeq(s, 1, n - 1)), LastPhase)
      BY <3>2, <3>4, <3>6, <3>7
    <3> QED
      BY <3>1, <3>3, <3>5, <3>8 DEF NeededSoFar, s
  <2>6. CASE EndFunc
    <3>1. UNCHANGED <<phaseSeq, ran>> /\ at = "emit" /\ at' = "driver"
      BY <2>6 DEF EndFunc, cmd
    <3> QED
      BY <3>1 DEF NeededSoFar
  <2>7. CASE UNCHANGED mgrVars
    <3>1. UNCHANGED <<phaseSeq, funcs, at, it, phase, ran>>
      BY <2>7 DEF mgrVars, cmd
    <3> QED
      BY <3>1 DEF NeededSoFar, Reached
  <2>8. CASE GetAnalysisResult \/ Made \/ InvalidAnalysisResult \/ Branch \/ Act \/ Look
             \/ UNCHANGED vars
    BY <2>7, <2>8 DEF GetAnalysisResult, Made, InvalidAnalysisResult, Branch, Act, Look, vars
  <2> QED
    BY <2>1, <2>2, <2>3, <2>4, <2>5, <2>6, <2>8 DEF Next
<1> QED
  BY <1>1, <1>2, TypesHold, PTL DEF Spec

\* NeededPhasesRun: whatever is skipped, the phases that cannot be skipped have each run
\* once and in their order when a function is done with.
THEOREM NeededPhasesHold == Spec => []NeededPhasesRun
<1>1. NeededSoFar => NeededPhasesRun
  BY DEF NeededSoFar, NeededPhasesRun
<1> QED
  BY <1>1, NeededHolds, PTL
==============================================================================
