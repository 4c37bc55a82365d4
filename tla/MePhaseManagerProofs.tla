-------------------------- MODULE MePhaseManagerProofs --------------------------
(***************************************************************************)
(* Theorems about MePhaseManager for any command lines and any number of   *)
(* functions.                                                              *)
(***************************************************************************)
EXTENDS MePhaseManager, SequenceTheorems, TLAPS

-----------------------------------------------------------------------------
(* The order of the phases, whichever of them the options leave out. *)

\* Phases before the SSA form, before the IRMap; phases that ask for the IRMap in any
\* case, and phases that need one there already.
Early    == {"loopcanon", "splitcriticaledge"}
Low      == Early \cup {"ssatab", "aliasclass", "ssa", "dse", "fsaa"}
Builders == {"hprop", "symrename", "hdse"}
Lacking  == {"may2dassign", "rclowering"}
Opting   == {"cfgopt"}
Emitting == {"emit"}
NoPhase  == {""}

\* What the phases of the manager are called.
Name ==
  Low \cup Builders \cup Lacking \cup Opting \cup Emitting
  \cup {"condbasednpc", "epre", "stmtpre", "analyzerc", "rename2preg", "lpre"}

\* Where a phase stands in the sequence without options.
Rank(p) ==
  CASE p = "loopcanon" -> 1 [] p = "splitcriticaledge" -> 2 [] p = "ssatab" -> 3
    [] p = "aliasclass" -> 4 [] p = "ssa" -> 5 [] p = "dse" -> 6 [] p = "fsaa" -> 7
    [] p = "hprop" -> 8 [] p = "symrename" -> 9 [] p = "hdse" -> 10
    [] p = "may2dassign" -> 11 [] p = "condbasednpc" -> 12 [] p = "cfgopt" -> 13
    [] p = "epre" -> 14 [] p = "stmtpre" -> 15 [] p = "analyzerc" -> 16
    [] p = "rclowering" -> 17 [] p = "rename2preg" -> 18 [] p = "lpre" -> 19
    [] p = "emit" -> 20

\* The kinds of phases by their ranks.
LEMMA RankFacts ==
  ASSUME NEW p \in Name
  PROVE  /\ Rank(p) \in 1 .. 20
         /\ p \in Early <=> Rank(p) <= 2
         /\ p \in Low <=> Rank(p) <= 7
         /\ p \in Builders <=> Rank(p) \in 8 .. 10
         /\ p \in Lacking => Rank(p) > 10
         /\ p \in Emitting <=> Rank(p) = 20
         /\ p \notin Low \cup Emitting => p \in kHssaPhases
         /\ p \notin NoPhase
         /\ p \in Opting => p \notin Low \cup Builders \cup Lacking \cup Emitting
<1>1. Rank(p) \in 1 .. 20
  BY DEF Rank, Name, Low, Early, Builders, Lacking, Opting, Emitting
<1>2. p \in Early <=> Rank(p) <= 2
  BY DEF Rank, Name, Low, Early, Builders, Lacking, Opting, Emitting
<1>3. p \in Low <=> Rank(p) <= 7
  BY DEF Rank, Name, Low, Early, Builders, Lacking, Opting, Emitting
<1>4. p \in Builders <=> Rank(p) \in 8 .. 10
  BY DEF Rank, Name, Low, Early, Builders, Lacking, Opting, Emitting
<1>5. p \in Lacking => Rank(p) > 10
  BY DEF Rank, Lacking
<1>6. p \in Emitting <=> Rank(p) = 20
  BY DEF Rank, Name, Low, Early, Builders, Lacking, Opting, Emitting
<1>7. p \notin Low \cup Emitting => p \in kHssaPhases
  BY DEF Name, kHssaPhases, Builders, Lacking, Opting
<1>8. p \notin NoPhase
  BY DEF NoPhase, Name, Low, Early, Builders, Lacking, Opting, Emitting
<1>9. p \in Opting => p \notin Low \cup Builders \cup Lacking \cup Emitting
  BY DEF Opting, Low, Early, Builders, Lacking, Emitting
<1> QED
  BY <1>1, <1>2, <1>3, <1>4, <1>5, <1>6, <1>7, <1>8, <1>9

\* Phases that are always run, and one of which at least is not left out.
Kept == (Builders \cup Emitting) \ opt.skipPhases

\* A part of the sequence: its ranks grow and lie from lo up to below hi.
Part(s, lo, hi) ==
  /\ \A p \in Kept : lo <= Rank(p) /\ Rank(p) < hi => \E i \in 1 .. Len(s) : s[i] = p
  /\ s \in Seq(Name)
  /\ \A i \in 1 .. Len(s) : lo <= Rank(s[i]) /\ Rank(s[i]) < hi
  /\ \A i, j \in 1 .. Len(s) : i < j => Rank(s[i]) < Rank(s[j])

\* Parts that follow each other.
LEMMA PartJoin ==
  ASSUME NEW a \in Nat, NEW b \in Nat, NEW c \in Nat, a <= b, b <= c, NEW s, NEW t,
         Part(s, a, b), Part(t, b, c)
  PROVE  Part(s \o t, a, c)
<1> DEFINE r == s \o t
           m == Len(s)
           n == Len(t)
<1>1. s \in Seq(Name) /\ t \in Seq(Name) /\ m \in Nat /\ n \in Nat
  BY LenProperties DEF Part
<1>2. /\ r \in Seq(Name) /\ Len(r) = m + n
      /\ \A i \in 1 .. m : r[i] = s[i]
      /\ \A i \in m + 1 .. m + n : r[i] = t[i - m]
  BY <1>1, ConcatProperties
<1>3. /\ \A i \in 1 .. m : s[i] \in Name /\ a <= Rank(s[i]) /\ Rank(s[i]) < b
      /\ \A i, j \in 1 .. m : i < j => Rank(s[i]) < Rank(s[j])
      /\ \A i \in 1 .. n : t[i] \in Name /\ b <= Rank(t[i]) /\ Rank(t[i]) < c
      /\ \A i, j \in 1 .. n : i < j => Rank(t[i]) < Rank(t[j])
  BY <1>1, ElementOfSeq DEF Part
<1>4. \A p \in Name : Rank(p) \in Nat
  <2> TAKE p \in Name
  <2>1. Rank(p) \in 1 .. 20
    BY RankFacts
  <2> QED
    BY <2>1
<1> HIDE DEF r, m, n
<1>6. ASSUME NEW i \in 1 .. m + n PROVE a <= Rank(r[i]) /\ Rank(r[i]) < c
  <2>1. CASE i <= m
    BY <1>1, <1>2, <1>3, <1>4, <2>1
  <2>2. CASE i > m
    <3>1. i - m \in 1 .. n /\ r[i] = t[i - m]
      BY <1>1, <1>2, <2>2
    <3> QED
      BY <1>3, <1>4, <3>1
  <2> QED
    BY <1>1, <2>1, <2>2
<1>7. ASSUME NEW i \in 1 .. m + n, NEW j \in 1 .. m + n, i < j
      PROVE  Rank(r[i]) < Rank(r[j])
  <2>1. CASE j <= m
    <3>1. i \in 1 .. m /\ j \in 1 .. m
      BY <1>1, <1>7, <2>1
    <3>2. r[i] = s[i] /\ r[j] = s[j]
      BY <1>2, <3>1
    <3> QED
      BY <1>3, <1>7, <3>1, <3>2
  <2>2. CASE i > m
    <3>1. /\ i - m \in 1 .. n /\ j - m \in 1 .. n /\ i - m < j - m
          /\ r[i] = t[i - m] /\ r[j] = t[j - m]
      BY <1>1, <1>2, <1>7, <2>2
    <3> QED
      BY <1>3, <3>1
  <2>3. CASE i <= m /\ m < j
    <3>1. i \in 1 .. m /\ j - m \in 1 .. n /\ r[i] = s[i] /\ r[j] = t[j - m]
      BY <1>1, <1>2, <2>3
    <3>2. Rank(s[i]) < b /\ b <= Rank(t[j - m]) /\ Rank(s[i]) \in Nat /\ Rank(t[j - m]) \in Nat
      BY <1>3, <1>4, <3>1
    <3> QED
      BY <3>1, <3>2
  <2> QED
    BY <1>1, <2>1, <2>2, <2>3
<1>8. ASSUME NEW p \in Kept, a <= Rank(p), Rank(p) < c
      PROVE  \E i \in 1 .. m + n : r[i] = p
  <2>1. Rank(p) \in Nat
    BY <1>4 DEF Kept, Name
  <2>2. CASE Rank(p) < b
    <3>1. PICK i \in 1 .. m : s[i] = p
      BY <1>8, <2>2 DEF Part, m
    <3>2. i \in 1 .. m + n /\ r[i] = s[i]
      BY <1>1, <1>2
    <3> QED
      BY <3>1, <3>2
  <2>3. CASE b <= Rank(p)
    <3>1. PICK i \in 1 .. n : t[i] = p
      BY <1>8, <2>3 DEF Part, n
    <3>2. m + i \in m + 1 .. m + n /\ (m + i) - m = i
      BY <1>1
    <3>3. m + i \in 1 .. m + n /\ r[m + i] = t[i]
      BY <1>1, <1>2, <3>2
    <3> QED
      BY <3>1, <3>3
  <2> QED
    BY <2>1, <2>2, <2>3
<1>9. Part(r, a, c)
  BY <1>2, <1>6, <1>7, <1>8 DEF Part
<1> QED
  BY <1>9 DEF r

\* Parts that an option leaves out, and single phases.
LEMMA PartWhen ==
  ASSUME NEW a \in Nat, NEW b \in Nat, NEW s, Part(s, a, b),
         b <= 8 \/ (10 < a /\ b <= 20)
  PROVE  \A c : Part(When(c, s), a, b)
<1>3. ASSUME NEW p \in Kept PROVE Rank(p) \in 8 .. 10 \/ Rank(p) = 20
  <2>1. p \in Name /\ (p \in Builders \/ p \in Emitting)
    BY DEF Kept, Name
  <2> QED
    BY <2>1, RankFacts
<1>4. \A p \in Kept : ~(a <= Rank(p) /\ Rank(p) < b)
  BY <1>3
<1>1. Part(<<>>, a, b)
  <2>1. <<>> \in Seq(Name) /\ Len(<<>>) = 0 /\ 1 .. 0 = {}
    OBVIOUS
  <2> QED
    BY <1>4, <2>1 DEF Part
<1>2. \A c : When(c, s) \in {s, <<>>}
  BY DEF When
<1> QED
  BY <1>1, <1>2

\* A phase that AddPhases adds on its own is the part of the order at its place.
LEMMA PartOne ==
  ASSUME NEW p \in Name, NEW a \in Nat, Rank(p) = a
  PROVE  Part(ADDPHASE(p), a, a + 1)
<1> DEFINE s == <<p>>
<1>1. s \in Seq(Name) /\ Len(s) = 1 /\ s[1] = p /\ 1 .. 1 = {1}
  OBVIOUS
<1> HIDE DEF s
<1>2. ASSUME NEW q \in Kept, a <= Rank(q), Rank(q) < a + 1 PROVE q = p /\ p \notin opt.skipPhases
  <2>1. Rank(q) = Rank(p) /\ q \in Name /\ q \in Builders \cup Emitting /\ q \notin opt.skipPhases
    <3>1. q \in Name /\ q \in Builders \cup Emitting /\ q \notin opt.skipPhases
      BY DEF Kept, Name
    <3>2. Rank(q) \in 1 .. 20
      BY <3>1, RankFacts
    <3> QED
      BY <1>2, <3>1, <3>2
  <2>2. p \in Builders \cup Emitting
    BY <2>1, RankFacts
  <2>3. p = q
    BY <2>1, <2>2 DEF Rank, Builders, Emitting
  <2> QED
    BY <2>1, <2>3
<1>3. Part(s, a, a + 1)
  BY <1>1, <1>2 DEF Part
<1>4. CASE p \in opt.skipPhases
  <2>1. <<>> \in Seq(Name) /\ Len(<<>>) = 0 /\ 1 .. 0 = {}
    OBVIOUS
  <2>2. Part(<<>>, a, a + 1)
    BY <1>2, <1>4, <2>1 DEF Part
  <2> QED
    BY <1>4, <2>2 DEF ADDPHASE, When
<1> QED
  BY <1>3, <1>4 DEF ADDPHASE, When, s

\* The whole sequence.
LEMMA SequencePart ==
  ASSUME opt \in Options
  PROVE  Part(PhaseSeq, 1, 21)
<1> DEFINE s3  == When(opt.o2, ADDPHASE("loopcanon") \o ADDPHASE("splitcriticaledge"))
           s10 == s3 \o ADDPHASE("ssatab") \o ADDPHASE("aliasclass") \o ADDPHASE("ssa")
                  \o ADDPHASE("dse") \o ADDPHASE("fsaa") \o ADDPHASE("hprop")
                  \o ADDPHASE("symrename") \o ADDPHASE("hdse")
           s12 == When(opt.java, ADDPHASE("may2dassign") \o ADDPHASE("condbasednpc"))
           s13 == When(opt.o2 /\ opt.java, ADDPHASE("cfgopt"))
           s15 == When(opt.o2, ADDPHASE("epre") \o When(opt.java, ADDPHASE("stmtpre")))
           s17 == When(opt.java /\ ~opt.noRC,
                       ADDPHASE("analyzerc") \o When(opt.rcLowering, ADDPHASE("rclowering")))
           s19 == When(opt.o2, ADDPHASE("lpre"))
<1>1. \A p \in Name : Part(ADDPHASE(p), Rank(p), Rank(p) + 1)
  <2> TAKE p \in Name
  <2>1. Rank(p) \in Nat
    <3>1. Rank(p) \in 1 .. 20
      BY RankFacts
    <3> QED
      BY <3>1
  <2> QED
    BY <2>1, PartOne
<1>2. /\ Part(ADDPHASE("loopcanon"), 1, 2) /\ Part(ADDPHASE("splitcriticaledge"), 2, 3)
      /\ Part(ADDPHASE("ssatab"), 3, 4) /\ Part(ADDPHASE("aliasclass"), 4, 5)
      /\ Part(ADDPHASE("ssa"), 5, 6) /\ Part(ADDPHASE("dse"), 6, 7)
      /\ Part(ADDPHASE("fsaa"), 7, 8)
  <2>1. /\ Rank("loopcanon") = 1 /\ Rank("splitcriticaledge") = 2 /\ Rank("ssatab") = 3
        /\ Rank("aliasclass") = 4 /\ Rank("ssa") = 5 /\ Rank("dse") = 6 /\ Rank("fsaa") = 7
    BY DEF Rank
  <2>2. {"loopcanon", "splitcriticaledge", "ssatab", "aliasclass", "ssa", "dse", "fsaa"}
          \subseteq Name
    BY DEF Name, Low, Early
  <2>3. 1 + 1 = 2 /\ 2 + 1 = 3 /\ 3 + 1 = 4 /\ 4 + 1 = 5 /\ 5 + 1 = 6 /\ 6 + 1 = 7 /\ 7 + 1 = 8
    OBVIOUS
  <2> QED
    BY <1>1, <2>1, <2>2, <2>3
<1>3. /\ Part(ADDPHASE("hprop"), 8, 9) /\ Part(ADDPHASE("symrename"), 9, 10)
      /\ Part(ADDPHASE("hdse"), 10, 11) /\ Part(ADDPHASE("may2dassign"), 11, 12)
      /\ Part(ADDPHASE("condbasednpc"), 12, 13) /\ Part(ADDPHASE("cfgopt"), 13, 14)
      /\ Part(ADDPHASE("epre"), 14, 15)
  <2>1. /\ Rank("hprop") = 8 /\ Rank("symrename") = 9 /\ Rank("hdse") = 10
        /\ Rank("may2dassign") = 11 /\ Rank("condbasednpc") = 12 /\ Rank("cfgopt") = 13
        /\ Rank("epre") = 14
    BY DEF Rank
  <2>2. {"hprop", "symrename", "hdse", "may2dassign", "condbasednpc", "cfgopt", "epre"}
          \subseteq Name
    BY DEF Name, Builders, Lacking, Opting
  <2>3. /\ 8 + 1 = 9 /\ 9 + 1 = 10 /\ 10 + 1 = 11 /\ 11 + 1 = 12 /\ 12 + 1 = 13
        /\ 13 + 1 = 14 /\ 14 + 1 = 15
    OBVIOUS
  <2> QED
    BY <1>1, <2>1, <2>2, <2>3
<1>4. /\ Part(ADDPHASE("stmtpre"), 15, 16) /\ Part(ADDPHASE("analyzerc"), 16, 17)
      /\ Part(ADDPHASE("rclowering"), 17, 18) /\ Part(ADDPHASE("rename2preg"), 18, 19)
      /\ Part(ADDPHASE("lpre"), 19, 20) /\ Part(ADDPHASE("emit"), 20, 21)
  <2>1. /\ Rank("stmtpre") = 15 /\ Rank("analyzerc") = 16 /\ Rank("rclowering") = 17
        /\ Rank("rename2preg") = 18 /\ Rank("lpre") = 19 /\ Rank("emit") = 20
    BY DEF Rank
  <2>2. {"stmtpre", "analyzerc", "rclowering", "rename2preg", "lpre", "emit"} \subseteq Name
    BY DEF Name, Lacking, Emitting
  <2>3. /\ 15 + 1 = 16 /\ 16 + 1 = 17 /\ 17 + 1 = 18 /\ 18 + 1 = 19 /\ 19 + 1 = 20
        /\ 20 + 1 = 21
    OBVIOUS
  <2> QED
    BY <1>1, <2>1, <2>2, <2>3
<1>5. \A a, b, c \in 1 .. 21 : a <= b /\ b <= c =>
        \A s, t : Part(s, a, b) /\ Part(t, b, c) => Part(s \o t, a, c)
  BY PartJoin
<1>6. \A a, b \in 1 .. 21 : b <= 8 \/ (10 < a /\ b <= 20) =>
        \A s, c : Part(s, a, b) => Part(When(c, s), a, b)
  BY PartWhen
<1>7. Part(s3, 1, 3)
  BY <1>2, <1>5, <1>6
<1>8. Part(s10, 1, 11)
  <2> HIDE DEF s3
  <2>1. Part(s3 \o ADDPHASE("ssatab") \o ADDPHASE("aliasclass"), 1, 5)
    BY <1>2, <1>5, <1>7
  <2>2. Part(s3 \o ADDPHASE("ssatab") \o ADDPHASE("aliasclass") \o ADDPHASE("ssa")
             \o ADDPHASE("dse"), 1, 7)
    BY <1>2, <1>5, <2>1
  <2>3. Part(s3 \o ADDPHASE("ssatab") \o ADDPHASE("aliasclass") \o ADDPHASE("ssa")
             \o ADDPHASE("dse") \o ADDPHASE("fsaa") \o ADDPHASE("hprop"), 1, 9)
    BY <1>2, <1>3, <1>5, <2>2
  <2> QED
    BY <1>3, <1>5, <2>3
<1>9. Part(s12, 11, 13)
  BY <1>3, <1>5, <1>6
<1>10. Part(s13, 13, 14)
  BY <1>3, <1>6
<1>11. Part(s15, 14, 16)
  BY <1>3, <1>4, <1>5, <1>6
<1>12. Part(s17, 16, 18)
  BY <1>4, <1>5, <1>6
<1>13. Part(s19, 19, 20)
  BY <1>4, <1>6
<1>14. PhaseSeq = s10 \o s12 \o s13 \o s15 \o s17 \o ADDPHASE("rename2preg") \o s19
                  \o ADDPHASE("emit")
  BY DEF PhaseSeq
<1> HIDE DEF s10, s12, s13, s15, s17, s19
<1>15. Part(s10 \o s12 \o s13, 1, 14)
  BY <1>5, <1>8, <1>9, <1>10
<1>16. Part(s10 \o s12 \o s13 \o s15 \o s17, 1, 18)
  BY <1>5, <1>11, <1>12, <1>15
<1>17. Part(s10 \o s12 \o s13 \o s15 \o s17 \o ADDPHASE("rename2preg") \o s19, 1, 20)
  BY <1>4, <1>5, <1>13, <1>16
<1> QED
  BY <1>4, <1>5, <1>14, <1>17

\* What a sequence of phases is like.
Ordered(s) ==
  /\ s \in Seq(Name) /\ Len(s) > 0
  /\ \A i \in 1 .. Len(s) : s[i] \in Emitting <=> i = Len(s)
  /\ \A i, j \in 1 .. Len(s) : i < j =>
       /\ s[i] # s[j]
       /\ s[j] \in Early => s[i] \in Early
       /\ s[j] \in Low => s[i] \in Low
  /\ \A j \in 1 .. Len(s) : s[j] \in Lacking => \E i \in 1 .. j - 1 : s[i] \in Builders

\* AddPhases never puts a phase twice, keeps the phases before the SSA form and before the
\* IRMap in front, and puts a phase that asks for the IRMap before those that need it.
LEMMA SequenceOrdered ==
  ASSUME opt \in Options
  PROVE  Ordered(PhaseSeq)
<1> DEFINE s == PhaseSeq
           n == Len(s)
<1>1. Part(s, 1, 21)
  BY SequencePart
<1> HIDE DEF s
<1>2. /\ s \in Seq(Name) /\ n \in Nat
      /\ \A i \in 1 .. n : s[i] \in Name
      /\ \A i, j \in 1 .. n : i < j => Rank(s[i]) < Rank(s[j])
      /\ \A p \in Kept : 1 <= Rank(p) /\ Rank(p) < 21 => \E i \in 1 .. n : s[i] = p
  BY <1>1, LenProperties, ElementOfSeq DEF Part
<1> HIDE DEF n
<1>3. \A p \in Name : Rank(p) \in 1 .. 20
  BY RankFacts
<1>4. \A p \in Kept : \E i \in 1 .. n : s[i] = p
  <2> TAKE p \in Kept
  <2>1. p \in Name
    BY DEF Kept, Name
  <2>2. 1 <= Rank(p) /\ Rank(p) < 21
    BY <1>3, <2>1
  <2> QED
    BY <1>2, <2>2
<1>5. PICK e \in 1 .. n : s[e] \in Emitting
  <2>1. \E p \in Emitting : p \in Kept
    BY MePhaseManagerAssumption DEF Kept, Emitting
  <2> QED
    BY <1>4, <2>1
<1>6. \A i \in 1 .. n : s[i] \in Emitting <=> Rank(s[i]) = 20
  BY <1>2, RankFacts
<1>7. e = n
  <2> SUFFICES ASSUME e # n PROVE FALSE
    OBVIOUS
  <2>1. n \in 1 .. n /\ e < n
    BY <1>2
  <2>2. Rank(s[e]) < Rank(s[n]) /\ Rank(s[e]) = 20 /\ Rank(s[n]) \in 1 .. 20
    BY <1>2, <1>3, <1>5, <1>6, <2>1
  <2> QED
    BY <2>2
<1>8. \A i \in 1 .. n : s[i] \in Emitting <=> i = n
  <2> SUFFICES ASSUME NEW i \in 1 .. n, s[i] \in Emitting PROVE i = n
    BY <1>5, <1>7
  <2>1. CASE i < n
    <3>1. n \in 1 .. n
      BY <1>2
    <3>2. Rank(s[i]) < Rank(s[n]) /\ Rank(s[i]) = 20 /\ Rank(s[n]) \in 1 .. 20
      BY <1>2, <1>3, <1>6, <2>1, <3>1
    <3> QED
      BY <3>2
  <2> QED
    BY <1>2, <2>1
<1>9. ASSUME NEW i \in 1 .. n, NEW j \in 1 .. n, i < j
      PROVE  /\ s[i] # s[j]
             /\ s[j] \in Early => s[i] \in Early
             /\ s[j] \in Low => s[i] \in Low
  <2>1. /\ s[i] \in Name /\ s[j] \in Name /\ Rank(s[i]) < Rank(s[j])
        /\ Rank(s[i]) \in 1 .. 20 /\ Rank(s[j]) \in 1 .. 20
    BY <1>2, <1>3, <1>9
  <2>2. /\ s[j] \in Early => Rank(s[j]) <= 2
        /\ Rank(s[i]) <= 2 => s[i] \in Early
        /\ s[j] \in Low => Rank(s[j]) <= 7
        /\ Rank(s[i]) <= 7 => s[i] \in Low
    BY <2>1, RankFacts
  <2> QED
    BY <2>1, <2>2
<1>10. ASSUME NEW j \in 1 .. n, s[j] \in Lacking
       PROVE  \E i \in 1 .. j - 1 : s[i] \in Builders
  <2>1. PICK p \in Builders : p \in Kept
    BY MePhaseManagerAssumption DEF Kept, Builders
  <2>2. PICK i \in 1 .. n : s[i] = p
    BY <1>4, <2>1
  <2>3. Rank(s[i]) \in 8 .. 10 /\ Rank(s[j]) > 10 /\ Rank(s[j]) \in 1 .. 20
    BY <1>2, <1>3, <1>10, <2>1, <2>2, RankFacts
  <2>4. ~(i = j) /\ ~(j < i)
    <3>1. j < i => Rank(s[j]) < Rank(s[i])
      BY <1>2
    <3> QED
      BY <2>3, <3>1
  <2>5. i \in 1 .. j - 1
    BY <1>2, <2>4
  <2> QED
    BY <2>1, <2>2, <2>5
<1>11. n > 0
  BY <1>2, <1>5
<1> QED
  BY <1>2, <1>8, <1>9, <1>10, <1>11 DEF Ordered, n, s
-----------------------------------------------------------------------------
(* Steps that are still to be taken. *)

\* A step of S is among those of t; a step of U is, and none of B before it; there is none
\* of U after a step of C, or there is one.
Ahead(S, t) == \E k \in 1 .. Len(t) : t[k] \in S
Needs(U, B, t) == \E k \in 1 .. Len(t) : t[k] \in U /\ \A j \in 1 .. k - 1 : t[j] \notin B
Never(C, U, t) == \A k \in 1 .. Len(t) : t[k] \in C => \A j \in k + 1 .. Len(t) : t[j] \notin U
Follows(C, U, t) == \A k \in 1 .. Len(t) : t[k] \in C => \E j \in k + 1 .. Len(t) : t[j] \in U

\* The first step and the others.
LEMMA TailFacts ==
  ASSUME NEW A, NEW t \in Seq(A), t # <<>>
  PROVE  /\ Len(t) \in Nat /\ Len(t) > 0 /\ Head(t) = t[1] /\ Head(t) \in A
         /\ Tail(t) \in Seq(A) /\ Len(Tail(t)) = Len(t) - 1
         /\ \A k \in 1 .. Len(t) - 1 : Tail(t)[k] = t[k + 1]
<1>1. Len(t) \in Nat /\ Len(t) > 0
  BY LenProperties, EmptySeq
<1>2. Head(t) = t[1] /\ Tail(t) \in Seq(A) /\ Len(Tail(t)) = Len(t) - 1
      /\ \A k \in 1 .. Len(t) - 1 : Tail(t)[k] = t[k + 1]
  BY HeadTailProperties
<1>3. t[1] \in A
  BY <1>1, ElementOfSeq
<1> QED
  BY <1>1, <1>2, <1>3

\* What a phase has still to do, once it has done the step at the head.
LEMMA TailPatterns ==
  ASSUME NEW A, NEW t \in Seq(A), t # <<>>, NEW S, NEW U, NEW B
  PROVE  /\ Head(t) \in S => Ahead(S, t)
         /\ Ahead(S, Tail(t)) => Ahead(S, t)
         /\ Ahead(S, t) => Head(t) \in S \/ Ahead(S, Tail(t))
         /\ Head(t) \in U => Needs(U, B, t)
         /\ Needs(U, B, Tail(t)) => Head(t) \in B \/ Needs(U, B, t)
         /\ Needs(U, B, Tail(t)) => Ahead(U, Tail(t))
         /\ Never(S, U, t) => Never(S, U, Tail(t)) /\ (Head(t) \in S => ~Ahead(U, Tail(t)))
         /\ Follows(S, U, t) => Follows(S, U, Tail(t)) /\ (Head(t) \in S => Ahead(U, Tail(t)))
<1> DEFINE n == Len(t)
           s == Tail(t)
           h == Head(t)
<1>1. n \in Nat /\ n > 0 /\ h = t[1] /\ Len(s) = n - 1 /\ \A k \in 1 .. n - 1 : s[k] = t[k + 1]
  BY TailFacts
<1> HIDE DEF n, s, h
<1>2. Len(t) = n
  BY DEF n
<1>3. 1 \in 1 .. n /\ \A k \in 1 .. n - 1 : k + 1 \in 1 .. n
  BY <1>1
<1>4. \A k \in 1 .. n : k = 1 \/ (k - 1 \in 1 .. n - 1 /\ k = (k - 1) + 1)
  BY <1>1
<1>5. h \in S => Ahead(S, t)
  BY <1>1, <1>2, <1>3 DEF Ahead
<1>6. Ahead(S, s) => Ahead(S, t)
  BY <1>1, <1>2, <1>3 DEF Ahead
<1>7. Ahead(S, t) => h \in S \/ Ahead(S, s)
  BY <1>1, <1>2, <1>4 DEF Ahead
<1>8. h \in U => Needs(U, B, t)
  BY <1>1, <1>2, <1>3 DEF Needs
<1>9. ASSUME Needs(U, B, s), h \notin B PROVE Needs(U, B, t)
  <2>1. PICK k \in 1 .. n - 1 : s[k] \in U /\ \A j \in 1 .. k - 1 : s[j] \notin B
    BY <1>1, <1>9 DEF Needs
  <2>2. k + 1 \in 1 .. n /\ t[k + 1] \in U
    BY <1>1, <1>3, <2>1
  <2>3. ASSUME NEW j \in 1 .. (k + 1) - 1 PROVE t[j] \notin B
    <3>1. CASE j = 1
      BY <1>1, <1>9, <3>1
    <3>2. CASE j # 1
      <4>1. j - 1 \in 1 .. k - 1 /\ j - 1 \in 1 .. n - 1 /\ (j - 1) + 1 = j
        BY <1>1, <3>2
      <4>2. s[j - 1] = t[j] /\ s[j - 1] \notin B
        BY <1>1, <2>1, <4>1
      <4> QED
        BY <4>2
    <3> QED
      BY <3>1, <3>2
  <2> QED
    BY <1>2, <2>2, <2>3 DEF Needs
<1>10. Needs(U, B, s) => Ahead(U, s)
  BY DEF Needs, Ahead
<1>11. ASSUME Never(S, U, t) PROVE Never(S, U, s) /\ (h \in S => ~Ahead(U, s))
  <2>1. \A k \in 1 .. n : t[k] \in S => \A j \in k + 1 .. n : t[j] \notin U
    BY <1>2, <1>11 DEF Never
  <2>2. ASSUME NEW k \in 1 .. n - 1, s[k] \in S, NEW j \in k + 1 .. n - 1 PROVE s[j] \notin U
    <3>1. k + 1 \in 1 .. n /\ t[k + 1] \in S /\ j + 1 \in (k + 1) + 1 .. n /\ j \in 1 .. n - 1
      BY <1>1, <2>2
    <3>2. t[j + 1] \notin U /\ s[j] = t[j + 1]
      BY <1>1, <2>1, <3>1
    <3> QED
      BY <3>2
  <2>3. ASSUME h \in S, NEW j \in 1 .. n - 1 PROVE s[j] \notin U
    <3>1. j + 1 \in 1 + 1 .. n
      BY <1>1
    <3>2. t[j + 1] \notin U /\ s[j] = t[j + 1]
      BY <1>1, <1>3, <2>1, <2>3, <3>1
    <3> QED
      BY <3>2
  <2> QED
    BY <1>1, <2>2, <2>3 DEF Never, Ahead
<1>12. ASSUME Follows(S, U, t) PROVE Follows(S, U, s) /\ (h \in S => Ahead(U, s))
  <2>1. \A k \in 1 .. n : t[k] \in S => \E j \in k + 1 .. n : t[j] \in U
    BY <1>2, <1>12 DEF Follows
  <2>2. ASSUME NEW k \in 0 .. n - 1, t[k + 1] \in S PROVE \E j \in k + 1 .. n - 1 : s[j] \in U
    <3>1. k + 1 \in 1 .. n
      BY <1>1
    <3>2. PICK j \in (k + 1) + 1 .. n : t[j] \in U
      BY <2>1, <2>2, <3>1
    <3>3. j - 1 \in k + 1 .. n - 1 /\ j - 1 \in 1 .. n - 1 /\ (j - 1) + 1 = j
      BY <1>1, <3>2
    <3>4. s[j - 1] \in U
      BY <1>1, <3>2, <3>3
    <3> QED
      BY <3>3, <3>4
  <2>3. ASSUME NEW k \in 1 .. n - 1, s[k] \in S PROVE \E j \in k + 1 .. n - 1 : s[j] \in U
    <3>1. k \in 0 .. n - 1 /\ t[k + 1] \in S
      BY <1>1, <2>3
    <3> QED
      BY <2>2, <3>1
  <2>4. ASSUME h \in S PROVE \E j \in 1 .. n - 1 : s[j] \in U
    <3>1. 0 \in 0 .. n - 1 /\ 0 + 1 = 1
      BY <1>1
    <3> QED
      BY <1>1, <2>2, <2>4, <3>1
  <2> QED
    BY <1>1, <2>3, <2>4 DEF Follows, Ahead
<1> QED
  BY <1>5, <1>6, <1>7, <1>8, <1>9, <1>10, <1>11, <1>12 DEF s, h

\* The same for every kind of steps.
LEMMA TailRules ==
  ASSUME NEW A, NEW t \in Seq(A), t # <<>>
  PROVE  /\ \A S : Head(t) \in S => Ahead(S, t)
         /\ \A S : Ahead(S, Tail(t)) => Ahead(S, t)
         /\ \A S : Ahead(S, t) => Head(t) \in S \/ Ahead(S, Tail(t))
         /\ \A S, U : Never(S, U, t) /\ Head(t) \in S => ~Ahead(U, Tail(t))
         /\ \A S, U : Follows(S, U, t) /\ Head(t) \in S => Ahead(U, Tail(t))
<1>1. \A S, U, B : /\ Head(t) \in S => Ahead(S, t)
                   /\ Ahead(S, Tail(t)) => Ahead(S, t)
                   /\ Ahead(S, t) => Head(t) \in S \/ Ahead(S, Tail(t))
                   /\ Never(S, U, t) => (Head(t) \in S => ~Ahead(U, Tail(t)))
                   /\ Follows(S, U, t) => (Head(t) \in S => Ahead(U, Tail(t)))
  BY TailPatterns
<1> QED
  BY <1>1

\* Steps after steps.
LEMMA ConcatPatterns ==
  ASSUME NEW A, NEW s \in Seq(A), NEW t \in Seq(A), NEW S, NEW U, NEW B
  PROVE  /\ s \o t \in Seq(A)
         /\ Ahead(S, s \o t) <=> Ahead(S, s) \/ Ahead(S, t)
         /\ Needs(U, B, s \o t) => Needs(U, B, s) \/ (Needs(U, B, t) /\ ~Ahead(B, s))
         /\ ~Ahead(S, s) /\ Never(S, U, t) => Never(S, U, s \o t)
         /\ ~Ahead(S, s) /\ Follows(S, U, t) => Follows(S, U, s \o t)
<1> DEFINE r == s \o t
           m == Len(s)
           n == Len(t)
<1>1. m \in Nat /\ n \in Nat
  BY LenProperties
<1>2. /\ r \in Seq(A) /\ Len(r) = m + n
      /\ \A i \in 1 .. m : r[i] = s[i]
      /\ \A i \in m + 1 .. m + n : r[i] = t[i - m]
  BY ConcatProperties
<1>3. Len(s) = m /\ Len(t) = n
  OBVIOUS
<1> HIDE DEF r, m, n
<1>4. \A i \in 1 .. n : m + i \in m + 1 .. m + n /\ m + i \in 1 .. m + n /\ (m + i) - m = i
  BY <1>1
<1>5. \A i \in 1 .. m + n : i \in 1 .. m \/ (i - m \in 1 .. n /\ i \in m + 1 .. m + n)
  BY <1>1
<1>6. \A i \in 1 .. m : i \in 1 .. m + n
  BY <1>1
<1>7. \A i \in 1 .. n : r[m + i] = t[i]
  BY <1>2, <1>4
<1>8. Ahead(S, s) \/ Ahead(S, t) => Ahead(S, r)
  BY <1>2, <1>3, <1>4, <1>6, <1>7 DEF Ahead
<1>9. Ahead(S, r) => Ahead(S, s) \/ Ahead(S, t)
  BY <1>2, <1>3, <1>5 DEF Ahead
<1>10. ASSUME Needs(U, B, r) PROVE Needs(U, B, s) \/ (Needs(U, B, t) /\ ~Ahead(B, s))
  <2>1. PICK k \in 1 .. m + n : r[k] \in U /\ \A j \in 1 .. k - 1 : r[j] \notin B
    BY <1>2, <1>10 DEF Needs
  <2>2. CASE k \in 1 .. m
    <3>1. \A j \in 1 .. k - 1 : j \in 1 .. m
      BY <1>1, <2>2
    <3>2. s[k] \in U /\ \A j \in 1 .. k - 1 : s[j] \notin B
      BY <1>2, <2>1, <2>2, <3>1
    <3> QED
      BY <1>3, <2>2, <3>2 DEF Needs
  <2>3. CASE k \in m + 1 .. m + n
    <3>1. k - m \in 1 .. n /\ t[k - m] \in U
      BY <1>1, <1>2, <2>1, <2>3
    <3>2. ASSUME NEW j \in 1 .. (k - m) - 1 PROVE t[j] \notin B
      <4>1. j \in 1 .. n /\ m + j \in 1 .. k - 1
        BY <1>1, <2>3
      <4> QED
        BY <1>7, <2>1, <4>1
    <3>3. ASSUME NEW j \in 1 .. m PROVE s[j] \notin B
      <4>1. j \in 1 .. k - 1
        BY <1>1, <2>3
      <4> QED
        BY <1>2, <2>1, <4>1
    <3> QED
      BY <1>3, <3>1, <3>2, <3>3 DEF Needs, Ahead
  <2> QED
    BY <1>5, <2>2, <2>3
<1>11. ASSUME ~Ahead(S, s), Never(S, U, t) PROVE Never(S, U, r)
  <2>1. ASSUME NEW k \in 1 .. m + n, r[k] \in S, NEW j \in k + 1 .. m + n PROVE r[j] \notin U
    <3>1. k \in m + 1 .. m + n
      BY <1>2, <1>3, <1>5, <1>11, <2>1 DEF Ahead
    <3>2. /\ k - m \in 1 .. n /\ j - m \in (k - m) + 1 .. n /\ j \in m + 1 .. m + n
      BY <1>1, <3>1
    <3>3. t[k - m] \in S /\ r[j] = t[j - m]
      BY <1>2, <2>1, <3>1, <3>2
    <3> QED
      BY <1>3, <1>11, <3>2, <3>3 DEF Never
  <2> QED
    BY <1>2, <2>1 DEF Never
<1>12. ASSUME ~Ahead(S, s), Follows(S, U, t) PROVE Follows(S, U, r)
  <2>1. ASSUME NEW k \in 1 .. m + n, r[k] \in S PROVE \E j \in k + 1 .. m + n : r[j] \in U
    <3>1. k \in m + 1 .. m + n
      BY <1>2, <1>3, <1>5, <1>12, <2>1 DEF Ahead
    <3>2. k - m \in 1 .. n /\ t[k - m] \in S
      BY <1>1, <1>2, <2>1, <3>1
    <3>3. PICK j \in (k - m) + 1 .. n : t[j] \in U
      BY <1>3, <1>12, <3>2 DEF Follows
    <3>4. m + j \in k + 1 .. m + n /\ j \in 1 .. n
      BY <1>1, <3>1, <3>3
    <3> QED
      BY <1>7, <3>3, <3>4
  <2> QED
    BY <1>2, <2>1 DEF Follows
<1> QED
  BY <1>2, <1>8, <1>9, <1>10, <1>11, <1>12 DEF r

\* Sequences without steps of a kind.
LEMMA NoPatterns ==
  ASSUME NEW A, NEW t \in Seq(A), NEW S, A \cap S = {}
  PROVE  ~Ahead(S, t) /\ \A U : ~Needs(S, U, t) /\ Never(S, U, t) /\ Follows(S, U, t)
                               /\ Never(U, S, t)
<1>1. Len(t) \in Nat /\ \A k \in 1 .. Len(t) : t[k] \notin S
  BY LenProperties, ElementOfSeq
<1>2. \A k \in 1 .. Len(t) : \A j \in k + 1 .. Len(t) : j \in 1 .. Len(t)
  BY <1>1
<1> QED
  BY <1>1, <1>2 DEF Ahead, Needs, Never, Follows

\* A step before the others.
LEMMA ConsPatterns ==
  ASSUME NEW A, NEW x \in A, NEW t \in Seq(A), NEW S, NEW U, NEW B
  PROVE  /\ <<x>> \o t \in Seq(A)
         /\ Ahead(S, <<x>> \o t) <=> x \in S \/ Ahead(S, t)
         /\ Needs(U, B, <<x>> \o t) => x \in U \/ (Needs(U, B, t) /\ x \notin B)
         /\ Never(S, U, t) /\ (x \in S => ~Ahead(U, t)) => Never(S, U, <<x>> \o t)
         /\ Follows(S, U, t) /\ (x \in S => Ahead(U, t)) => Follows(S, U, <<x>> \o t)
<1> DEFINE s == <<x>>
           r == s \o t
           n == Len(t)
<1>1. s \in Seq(A) /\ Len(s) = 1 /\ s[1] = x /\ 1 .. 1 = {1} /\ n \in Nat
  BY LenProperties
<1> HIDE DEF s
<1>2. \A V : Ahead(V, s) <=> x \in V
  BY <1>1 DEF Ahead
<1>3. Needs(U, B, s) => x \in U
  BY <1>1 DEF Needs
<1>4. /\ r \in Seq(A) /\ Len(r) = 1 + n /\ r[1] = x
      /\ \A i \in 1 + 1 .. 1 + n : r[i] = t[i - 1]
  <2> HIDE DEF n
  <2>1. n = Len(t)
    BY DEF n
  <2>2. /\ r \in Seq(A) /\ Len(r) = 1 + n
        /\ \A i \in 1 .. 1 + n : r[i] = IF i <= 1 THEN s[i] ELSE t[i - 1]
    <3>1. /\ r \in Seq(A) /\ Len(r) = Len(s) + Len(t)
          /\ \A i \in 1 .. Len(s) + Len(t) :
               r[i] = IF i <= Len(s) THEN s[i] ELSE t[i - Len(s)]
      BY <1>1, ConcatProperties, ZenonT(40)
    <3> HIDE DEF r
    <3> QED
      BY <1>1, <2>1, <3>1
  <2> HIDE DEF r
  <2>3. 1 \in 1 .. 1 + n /\ \A i \in 1 + 1 .. 1 + n : i \in 1 .. 1 + n /\ ~(i <= 1)
    BY <1>1
  <2> QED
    BY <1>1, <2>2, <2>3
<1>5. Len(t) = n
  OBVIOUS
<1>6. /\ r \in Seq(A)
      /\ Ahead(S, r) <=> x \in S \/ Ahead(S, t)
      /\ Needs(U, B, r) => x \in U \/ (Needs(U, B, t) /\ x \notin B)
  BY <1>1, <1>2, <1>3, ConcatPatterns
<1> HIDE DEF r, n
<1>7. \A i \in 1 .. 1 + n : i = 1 \/ (i - 1 \in 1 .. n /\ i \in 1 + 1 .. 1 + n)
  BY <1>1
<1>8. ASSUME Never(S, U, t), x \in S => ~Ahead(U, t) PROVE Never(S, U, r)
  <2>1. ASSUME NEW k \in 1 .. 1 + n, r[k] \in S, NEW j \in k + 1 .. 1 + n PROVE r[j] \notin U
    <3>1. j \in 1 + 1 .. 1 + n /\ j - 1 \in 1 .. n
      BY <1>1
    <3>2. r[j] = t[j - 1]
      BY <1>4, <3>1
    <3>3. CASE k = 1
      BY <1>4, <1>5, <1>8, <2>1, <3>1, <3>2, <3>3 DEF Ahead
    <3>4. CASE k # 1
      <4>1. k - 1 \in 1 .. n /\ j - 1 \in (k - 1) + 1 .. n /\ r[k] = t[k - 1]
        BY <1>1, <1>4, <1>7, <3>4
      <4> QED
        BY <1>5, <1>8, <2>1, <3>2, <4>1 DEF Never
    <3> QED
      BY <3>3, <3>4
  <2> QED
    BY <1>4, <2>1 DEF Never
<1>9. ASSUME Follows(S, U, t), x \in S => Ahead(U, t) PROVE Follows(S, U, r)
  <2>1. \A j \in 1 .. n : j + 1 \in 1 + 1 .. 1 + n /\ r[j + 1] = t[j]
    <3> TAKE j \in 1 .. n
    <3>1. j + 1 \in 1 + 1 .. 1 + n /\ (j + 1) - 1 = j
      BY <1>1
    <3> QED
      BY <1>4, <3>1
  <2>2. ASSUME NEW k \in 1 .. 1 + n, r[k] \in S PROVE \E j \in k + 1 .. 1 + n : r[j] \in U
    <3>1. CASE k = 1
      <4>1. PICK j \in 1 .. n : t[j] \in U
        BY <1>4, <1>5, <1>9, <2>2, <3>1 DEF Ahead
      <4> QED
        BY <2>1, <3>1, <4>1
    <3>2. CASE k # 1
      <4>1. k - 1 \in 1 .. n /\ t[k - 1] \in S
        BY <1>4, <1>7, <2>2, <3>2
      <4>2. PICK j \in (k - 1) + 1 .. n : t[j] \in U
        BY <1>5, <1>9, <4>1 DEF Follows
      <4>3. j \in 1 .. n /\ j + 1 \in k + 1 .. 1 + n
        BY <1>1, <4>1, <4>2
      <4> QED
        BY <2>1, <4>2, <4>3
    <3> QED
      BY <3>1, <3>2
  <2> QED
    BY <1>4, <2>2 DEF Follows
<1> QED
  BY <1>6, <1>8, <1>9 DEF r, s

\* Sequences that are written down.
LEMMA Pair ==
  ASSUME NEW u, NEW v
  PROVE  <<u, v>> = <<u>> \o <<v>>
<1> DEFINE s == <<u>> \o <<v>>
           A == {u, v}
<1>1. s \in Seq(A) /\ Len(s) = 2 /\ s[1] = u /\ s[2] = v
  OBVIOUS
<1> HIDE DEF s
<1>2. s = <<u, v>>
  BY <1>1
<1> QED
  BY <1>2 DEF s

\* A list of three steps, taken apart.
LEMMA Triple ==
  ASSUME NEW u, NEW v, NEW w
  PROVE  <<u, v, w>> = <<u>> \o (<<v>> \o <<w>>)
<1> DEFINE s == <<u>> \o (<<v>> \o <<w>>)
           A == {u, v, w}
<1>1. s \in Seq(A) /\ Len(s) = 3 /\ s[1] = u /\ s[2] = v /\ s[3] = w
  OBVIOUS
<1> HIDE DEF s
<1>2. s = <<u, v, w>>
  BY <1>1, SeqEqual
<1> QED
  BY <1>2 DEF s

\* A list of four steps, taken apart.
LEMMA Quadruple ==
  ASSUME NEW u, NEW v, NEW w, NEW x
  PROVE  <<u, v, w, x>> = <<u>> \o (<<v>> \o (<<w>> \o <<x>>))
<1> DEFINE A == {u, v, w, x}
           r == <<u>> \o (<<v>> \o (<<w>> \o <<x>>))
           s == <<u, v, w, x>>
<1>1. r \in Seq(A) /\ Len(r) = 4 /\ r[1] = u /\ r[2] = v /\ r[3] = w /\ r[4] = x
  OBVIOUS
<1>2. s \in Seq(A) /\ Len(s) = 4 /\ s[1] = u /\ s[2] = v /\ s[3] = w /\ s[4] = x
  OBVIOUS
<1> HIDE DEF r, s, A
<1>3. 1 .. 4 = {1, 2, 3, 4}
  OBVIOUS
<1>4. \A i \in 1 .. Len(r) : r[i] = s[i]
  BY <1>1, <1>2, <1>3
<1>5. r = s
  BY <1>1, <1>2, <1>4, SeqEqual
<1> QED
  BY <1>5 DEF r, s
-----------------------------------------------------------------------------
(* What the phases may do. *)

\* Requests for an analysis that works on the graph, what changes the graph, what takes
\* dominance out of the cache, and what tells that the manager must start over.
Layout   == {Get("bblayout")}
Fresh    == {Get(a) : a \in Analyses} \ Layout
Graph    == {Step("changeCFG")}
Changes  == Graph \cup Layout
Dropping == {Invalid("dominance")}
Clears   == {Invalid("dominance"), Step("invalidAll")}
Flagging == {Step("setChangeCFG")}

\* What makes the IRMap and uses it, what deletes, writes and keeps the code.
Builds  == {Get("irmapbuild"), Get("mepredict")}
LooksIR == {Step("useIrMap")}
Writes  == {Step("newCode")}
UsesIR  == LooksIR \cup Writes \cup {Get("delegaterc")}
Frees   == {Step("freeStmts")}
Keeps   == {Step("keepStmts")}
Marked  == Changes \cup Frees \cup Writes \cup Flagging

\* The results a phase may ask for and take out of the cache, and its other steps.
Asks(p) ==
  {a \in Analyses :
     \/ a = "dominance" /\ p \notin {"dominance", "ssatab", "aliasclass", "bblayout",
                                     "splitcriticaledge", "cfgopt", "emit"}
     \/ a = "ssatab" /\ p \in {"aliasclass", "ssa", "dse", "fsaa", "symrename"}
     \/ a = "irmapbuild" /\ p \in {"mepredict", "hprop", "symrename", "hdse", "cfgopt", "epre",
                                   "stmtpre", "analyzerc", "rename2preg", "lpre"}
     \/ a = "aliasclass" /\ p \in {"analyzerc", "rename2preg"}
     \/ a = "identloops" /\ p \in {"mepredict", "lpre"}
     \/ a = "delegaterc" /\ p = "analyzerc"
     \/ a = "mepredict" /\ p = "emit"
     \/ a = "bblayout" /\ p \in {"cfgopt", "emit"}}

Drops(p) ==
  {a \in Analyses :
     \/ a = "dominance" /\ p \in {"bblayout", "loopcanon", "dse", "hdse"}
     \/ a = "identloops" /\ p = "mepredict"}

Acts(p) ==
  {s \in {"changeCFG", "invalidAll", "freeStmts", "useIrMap", "setChangeCFG", "newCode",
          "keepStmts"} :
     \/ s = "changeCFG" /\ p \in {"bblayout", "loopcanon", "splitcriticaledge", "dse", "hdse",
                                  "cfgopt"}
     \/ s = "invalidAll" /\ p = "splitcriticaledge"
     \/ s = "freeStmts" /\ p = "irmapbuild"
     \/ s = "useIrMap" /\ p \in {"delegaterc", "may2dassign", "rclowering"}
     \/ s = "setChangeCFG" /\ p = "cfgopt"
     \/ s = "newCode" /\ p \in {"cfgopt", "emit"}
     \/ s = "keepStmts" /\ p = "emit"}

Allowed(p) ==
  {Get(a) : a \in Asks(p)} \cup {Invalid(a) : a \in Drops(p)} \cup {Step(s) : s \in Acts(p)}

\* A phase that is called by emit and cfgopt only, when nothing works on the graph any more.
Laying == {"bblayout"}

\* What holds of the steps t that a phase p has still to take.
Good(p, t) ==
  /\ t \in Seq(Allowed(p))
  /\ Never(Changes, Fresh, t) /\ Never(Frees, Frees, t)
  /\ Never(Writes \cup Flagging, Builds, t)
  /\ p \notin Laying => Follows(Graph, Clears \cup Flagging, t)
  /\ Follows(Flagging, Writes, t)

\* It holds of the other steps when the first one is taken.
LEMMA GoodTail ==
  ASSUME NEW p, NEW t, Good(p, t), t # <<>>
  PROVE  Good(p, Tail(t))
<1>1. t \in Seq(Allowed(p)) /\ Tail(t) \in Seq(Allowed(p))
  BY HeadTailProperties DEF Good
<1>2. \A S, U : /\ Never(S, U, t) => Never(S, U, Tail(t))
                /\ Follows(S, U, t) => Follows(S, U, Tail(t))
  BY <1>1, TailPatterns
<1> QED
  BY <1>1, <1>2 DEF Good

\* Steps that are not marked.
LEMMA GoodPlain ==
  ASSUME NEW p, NEW A, A \subseteq Allowed(p), A \cap Marked = {}, NEW t \in Seq(A)
  PROVE  Good(p, t)
<1>1. t \in Seq(Allowed(p))
  OBVIOUS
<1>2. /\ A \cap Changes = {} /\ A \cap Frees = {} /\ A \cap (Writes \cup Flagging) = {}
      /\ A \cap Graph = {} /\ A \cap Flagging = {}
  BY DEF Marked, Changes
<1> QED
  BY <1>1, <1>2, NoPatterns DEF Good

\* Steps before others.
LEMMA GoodConcat ==
  ASSUME NEW p, NEW A, A \subseteq Allowed(p), A \cap Marked = {}, NEW s \in Seq(A),
         NEW t, Good(p, t)
  PROVE  Good(p, s \o t)
<1>1. s \in Seq(Allowed(p)) /\ t \in Seq(Allowed(p))
  BY DEF Good
<1>2. /\ A \cap Changes = {} /\ A \cap Frees = {} /\ A \cap (Writes \cup Flagging) = {}
      /\ A \cap Graph = {} /\ A \cap Flagging = {}
  BY DEF Marked, Changes
<1>3. /\ ~Ahead(Changes, s) /\ ~Ahead(Frees, s) /\ ~Ahead(Writes \cup Flagging, s)
      /\ ~Ahead(Graph, s) /\ ~Ahead(Flagging, s)
  BY <1>2, NoPatterns
<1>4. \A S, U : ~Ahead(S, s) => /\ Never(S, U, t) => Never(S, U, s \o t)
                                /\ Follows(S, U, t) => Follows(S, U, s \o t)
  BY <1>1, ConcatPatterns
<1>5. s \o t \in Seq(Allowed(p))
  BY <1>1, ConcatProperties
<1> QED
  BY <1>3, <1>4, <1>5 DEF Good

\* A step put in front of a good rest leaves the whole good, if the rest does what the step
\* asks for: the sequences of a phase's Run are built from the end.
LEMMA GoodCons ==
  ASSUME NEW p, NEW x \in Allowed(p), NEW t, Good(p, t),
         x \in Changes => ~Ahead(Fresh, t),
         x \in Frees => ~Ahead(Frees, t),
         x \in Writes \cup Flagging => ~Ahead(Builds, t),
         x \in Graph => p \in Laying \/ Ahead(Clears \cup Flagging, t),
         x \in Flagging => Ahead(Writes, t)
  PROVE  /\ Good(p, <<x>> \o t)
         /\ \A S : Ahead(S, <<x>> \o t) <=> x \in S \/ Ahead(S, t)
         /\ \A U, B : Needs(U, B, <<x>> \o t) => x \in U \/ (Needs(U, B, t) /\ x \notin B)
<1>1. t \in Seq(Allowed(p))
  BY DEF Good
<1>2. \A S, U : /\ Never(S, U, t) /\ (x \in S => ~Ahead(U, t)) => Never(S, U, <<x>> \o t)
                /\ Follows(S, U, t) /\ (x \in S => Ahead(U, t)) => Follows(S, U, <<x>> \o t)
  BY <1>1, ConsPatterns
<1>3. <<x>> \o t \in Seq(Allowed(p))
  BY <1>1, ConsPatterns
<1>4. Good(p, <<x>> \o t)
  BY <1>2, <1>3 DEF Good
<1>5. /\ \A S : Ahead(S, <<x>> \o t) <=> x \in S \/ Ahead(S, t)
      /\ \A U, B : Needs(U, B, <<x>> \o t) => x \in U \/ (Needs(U, B, t) /\ x \notin B)
  BY <1>1, ConsPatterns
<1> QED
  BY <1>4, <1>5

\* One step alone.
LEMMA GoodOne ==
  ASSUME NEW p, NEW x \in Allowed(p), x \notin Flagging, x \in Graph => p \in Laying
  PROVE  /\ Good(p, <<x>>) /\ \A S : Ahead(S, <<x>>) <=> x \in S
         /\ \A U, B : Needs(U, B, <<x>>) => x \in U
<1> DEFINE s == <<x>>
<1>1. s \in Seq(Allowed(p)) /\ Len(s) = 1 /\ s[1] = x /\ 1 .. 1 = {1} /\ 1 + 1 .. 1 = {}
  OBVIOUS
<1> HIDE DEF s
<1>2. \A S : Ahead(S, s) <=> x \in S
  BY <1>1 DEF Ahead
<1>3. \A S, U : Never(S, U, s) /\ (x \notin S => Follows(S, U, s))
  BY <1>1 DEF Never, Follows
<1>4. Good(p, s)
  BY <1>1, <1>3 DEF Good
<1>5. \A U, B : Needs(U, B, s) => x \in U
  BY <1>1 DEF Needs
<1> QED
  BY <1>2, <1>4, <1>5 DEF s

\* A phase with nothing left to do is good.
LEMMA GoodNil ==
  ASSUME NEW p
  PROVE  Good(p, <<>>) /\ \A S, U : ~Ahead(S, <<>>) /\ ~Needs(S, U, <<>>)
<1>1. <<>> \in Seq({}) /\ {} \subseteq Allowed(p) /\ \A S : {} \cap S = {}
  OBVIOUS
<1>2. Good(p, <<>>)
  BY <1>1, GoodPlain
<1>3. \A S : ~Ahead(S, <<>>) /\ \A U : ~Needs(S, U, <<>>)
  BY <1>1, NoPatterns
<1> QED
  BY <1>2, <1>3

\* The kinds of steps by their names.
LEMMA Doing ==
  ASSUME NEW x
  PROVE  /\ x \in Fresh \cup Layout \cup Builds => x.do = "get"
         /\ x \in Clears \cup Dropping \cup {Invalid(a) : a \in Analyses} =>
              x.do \in {"invalid", "invalidAll"}
         /\ x \in Graph => x.do = "changeCFG"
         /\ x \in Flagging => x.do = "setChangeCFG"
         /\ x \in Writes => x.do = "newCode"
         /\ x \in Keeps => x.do = "keepStmts"
         /\ x \in Frees => x.do = "freeStmts"
         /\ x \in LooksIR => x.do = "useIrMap"
         /\ x \in UsesIR => x.do \in {"useIrMap", "newCode", "get"}
         /\ \A a : Get(a).do = "get" /\ Get(a).a = a
<1>1. \A a : Get(a).do = "get" /\ Get(a).a = a
  BY DEF Get
<1>2. \A a : Invalid(a).do = "invalid" /\ Invalid(a).a = a
  BY DEF Invalid
<1>3. \A a : Step(a).do = a
  BY DEF Step
<1>4. x \in Fresh \cup Layout \cup Builds => x.do = "get"
  BY <1>1 DEF Fresh, Layout, Builds
<1>5. x \in Clears \cup Dropping \cup {Invalid(a) : a \in Analyses} =>
        x.do \in {"invalid", "invalidAll"}
  BY <1>2, <1>3 DEF Clears, Dropping
<1>6. /\ x \in Graph => x.do = "changeCFG"
      /\ x \in Flagging => x.do = "setChangeCFG"
      /\ x \in Writes => x.do = "newCode"
      /\ x \in Keeps => x.do = "keepStmts"
      /\ x \in Frees => x.do = "freeStmts"
      /\ x \in LooksIR => x.do = "useIrMap"
  BY <1>3 DEF Graph, Flagging, Writes, Keeps, Frees, LooksIR
<1>7. x \in UsesIR => x.do \in {"useIrMap", "newCode", "get"}
  BY <1>1, <1>6 DEF UsesIR
<1> QED
  BY <1>1, <1>4, <1>5, <1>6, <1>7

\* The kinds of steps.
LEMMA Kinds ==
  /\ \A a \in Analyses : /\ Get(a) \in Layout <=> a = "bblayout"
                         /\ Get(a) \in Fresh <=> a # "bblayout"
                         /\ Get(a) \in Builds <=> a \in {"irmapbuild", "mepredict"}
                         /\ Get(a) \in UsesIR <=> a = "delegaterc"
                         /\ Get(a) \notin Graph \cup Clears \cup Flagging \cup Frees \cup Writes
                                          \cup Keeps \cup LooksIR
  /\ \A x \in Clears \cup {Invalid(a) : a \in Analyses} :
       x \notin Fresh \cup Changes \cup Flagging \cup UsesIR \cup Builds \cup Frees \cup Keeps
  /\ \A x \in Graph :
       x \notin Fresh \cup Layout \cup Clears \cup Flagging \cup UsesIR \cup Builds \cup Frees \cup Keeps
  /\ \A x \in Flagging :
       x \notin Fresh \cup Changes \cup Clears \cup UsesIR \cup Builds \cup Frees \cup Keeps
  /\ \A x \in Writes :
       x \notin Fresh \cup Changes \cup Clears \cup Flagging \cup Builds \cup Frees \cup Keeps \cup LooksIR
  /\ \A x \in Keeps :
       x \notin Fresh \cup Changes \cup Clears \cup Flagging \cup UsesIR \cup Builds \cup Frees
  /\ \A x \in Frees :
       x \notin Fresh \cup Changes \cup Clears \cup Flagging \cup UsesIR \cup Builds \cup Keeps
  /\ \A x \in LooksIR :
       x \notin Fresh \cup Changes \cup Clears \cup Flagging \cup Writes \cup Builds \cup Frees \cup Keeps
<1>1. ASSUME NEW a \in Analyses
      PROVE  /\ Get(a) \in Layout <=> a = "bblayout"
             /\ Get(a) \in Fresh <=> a # "bblayout"
             /\ Get(a) \in Builds <=> a \in {"irmapbuild", "mepredict"}
             /\ Get(a) \in UsesIR <=> a = "delegaterc"
  <2>1. \A b : Get(a) = Get(b) <=> a = b
    BY Doing
  <2>2. Get(a) \notin LooksIR \cup Writes
    BY Doing
  <2> QED
    BY <2>1, <2>2 DEF Layout, Fresh, Builds, UsesIR
<1>2. ASSUME NEW a \in Analyses
      PROVE  Get(a) \notin Graph \cup Clears \cup Flagging \cup Frees \cup Writes \cup Keeps
                           \cup LooksIR
  BY Doing
<1>3. ASSUME NEW x \in Clears \cup {Invalid(a) : a \in Analyses}
      PROVE  x \notin Fresh \cup Changes \cup Flagging \cup UsesIR \cup Builds \cup Frees \cup Keeps
  BY Doing DEF Changes
<1>4. ASSUME NEW x \in Graph
      PROVE  x \notin Fresh \cup Layout \cup Clears \cup Flagging \cup UsesIR \cup Builds \cup Frees \cup Keeps
  BY Doing DEF Changes
<1>5. ASSUME NEW x \in Flagging
      PROVE  x \notin Fresh \cup Changes \cup Clears \cup UsesIR \cup Builds \cup Frees \cup Keeps
  BY Doing DEF Changes
<1>6. ASSUME NEW x \in Writes
      PROVE  x \notin Fresh \cup Changes \cup Clears \cup Flagging \cup Builds \cup Frees \cup Keeps \cup LooksIR
  BY Doing DEF Changes
<1>7. ASSUME NEW x \in Keeps
      PROVE  x \notin Fresh \cup Changes \cup Clears \cup Flagging \cup UsesIR \cup Builds \cup Frees
  BY Doing DEF Changes
<1>8. ASSUME NEW x \in Frees
      PROVE  x \notin Fresh \cup Changes \cup Clears \cup Flagging \cup UsesIR \cup Builds \cup Keeps
  BY Doing DEF Changes
<1>9. ASSUME NEW x \in LooksIR
      PROVE  x \notin Fresh \cup Changes \cup Clears \cup Flagging \cup Writes \cup Builds \cup Frees \cup Keeps
  BY Doing DEF Changes
<1> QED
  BY <1>1, <1>2, <1>3, <1>4, <1>5, <1>6, <1>7, <1>8, <1>9

\* What the phases are called, the manager's and the analyses.
Known == Name \cup Analyses

Mapping    == {"irmapbuild"}
Predicting == {"mepredict"}
Delegating == {"delegaterc"}
Dominating == {"dominance"}
Looping    == {"identloops"}

\* An analysis asks only for analyses below it.
Level(p) ==
  CASE p \in {"dominance", "ssatab", "bblayout"} -> 0
    [] p \in {"aliasclass", "irmapbuild", "identloops", "delegaterc"} -> 1
    [] p = "mepredict" -> 2
    [] OTHER -> 3

\* Who may take which step.
LEMMA AllowedFacts ==
  ASSUME NEW p \in Known, NEW x \in Allowed(p)
  PROVE  /\ x.do = "get" => /\ x.a \in Analyses /\ x = Get(x.a) /\ Level(x.a) < Level(p)
                            /\ p \in Emitting \cup Opting => x.a \notin Dominating \cup Looping
                            /\ p \in Early => x.a \in Dominating
                            /\ x.a \in Laying => p \in Emitting \cup Opting
                            /\ x.a \in Predicting => p \in Emitting
                            /\ x.a \in Mapping => p \notin Low /\ (p \in Analyses => p \in Predicting)
         /\ x.do = "invalid" => /\ x.a \in Analyses /\ x = Invalid(x.a)
                                /\ \/ x.a \in Dominating /\ (p \in Laying \/ p \notin Analyses)
                                   \/ x.a \in Looping /\ p \in Predicting
         /\ x.do = "invalidAll" => p \in Early
         /\ x.do = "changeCFG" => p \in Laying \/ p \notin Analyses
         /\ x.do = "freeStmts" => p \in Mapping
         /\ x.do = "setChangeCFG" => p \in Opting
         /\ x.do = "newCode" => p \in Emitting \cup Opting
         /\ x.do = "keepStmts" => p \in Emitting
<1>1. \A a : /\ Get(a).do = "get" /\ Get(a).a = a /\ Invalid(a).do = "invalid" /\ Invalid(a).a = a
             /\ Step(a).do = a
  BY DEF Get, Invalid, Step
<1>2. \A s \in Acts(p) : /\ s \notin {"get", "invalid"}
                         /\ s = "invalidAll" => p \in Early
                         /\ s = "changeCFG" => p \in Laying \/ p \notin Analyses
                         /\ s = "freeStmts" => p \in Mapping
                         /\ s = "setChangeCFG" => p \in Opting
                         /\ s = "newCode" => p \in Emitting \cup Opting
                         /\ s = "keepStmts" => p \in Emitting
  BY DEF Acts, Early, Laying, Analyses, Mapping, Opting, Emitting
<1>3. \A a \in Drops(p) : /\ a \in Analyses
                          /\ \/ a \in Dominating /\ (p \in Laying \/ p \notin Analyses)
                             \/ a \in Looping /\ p \in Predicting
  BY DEF Drops, Dominating, Looping, Laying, Analyses, Predicting
<1>4. ASSUME NEW a \in Asks(p)
      PROVE  /\ a \in Analyses
             /\ p \in Emitting \cup Opting => a \notin Dominating \cup Looping
             /\ p \in Early => a \in Dominating
             /\ a \in Laying => p \in Emitting \cup Opting
             /\ a \in Predicting => p \in Emitting
             /\ a \in Mapping => p \notin Low /\ (p \in Analyses => p \in Predicting)
  <2>1. a \in Analyses
    BY DEF Asks
  <2>2. p \in Emitting \cup Opting => a \notin Dominating \cup Looping
    BY DEF Asks, Emitting, Opting, Dominating, Looping
  <2>3. p \in Early => a \in Dominating
    BY DEF Asks, Early, Dominating
  <2>4. a \in Laying => p \in Emitting \cup Opting
    BY DEF Asks, Laying, Emitting, Opting
  <2>5. a \in Predicting => p \in Emitting
    BY DEF Asks, Predicting, Emitting
  <2>6. a \in Mapping => p \notin Low /\ (p \in Analyses => p \in Predicting)
    BY DEF Asks, Mapping, Low, Early, Analyses, Predicting
  <2> QED
    BY <2>1, <2>2, <2>3, <2>4, <2>5, <2>6
<1>5. \A a \in Asks(p) : Level(a) < Level(p)
  <2> SUFFICES ASSUME NEW a \in Asks(p) PROVE Level(a) < Level(p)
    OBVIOUS
  <2>1. CASE a \in {"mepredict", "bblayout"}
    BY <2>1 DEF Asks, Level
  <2>2. CASE a = "dominance"
    BY <2>2 DEF Asks, Level
  <2>3. CASE a = "ssatab"
    BY <2>3 DEF Asks, Level
  <2>4. CASE a \in {"irmapbuild", "aliasclass", "identloops", "delegaterc"}
    BY <2>4 DEF Asks, Level
  <2> QED
    BY <2>1, <2>2, <2>3, <2>4 DEF Asks, Analyses
<1>6. \/ x.do = "get" /\ x.a \in Asks(p) /\ x = Get(x.a)
      \/ x.do = "invalid" /\ x.a \in Drops(p) /\ x = Invalid(x.a)
      \/ x.do \in Acts(p)
  BY <1>1 DEF Allowed
<1>7. CASE x.do = "get" /\ x.a \in Asks(p) /\ x = Get(x.a)
  BY <1>4, <1>5, <1>7
<1>8. CASE x.do = "invalid" /\ x.a \in Drops(p) /\ x = Invalid(x.a)
  BY <1>3, <1>8
<1>9. CASE x.do \in Acts(p)
  BY <1>2, <1>9
<1> QED
  BY <1>6, <1>7, <1>8, <1>9

\* What else holds of all steps of a run.
Starts(p, prev, t) ==
  /\ p \in Builders \cup Predicting => Ahead(Builds, t)
  /\ p \in Mapping => Ahead(Frees, t)
  /\ p \notin Lacking \cup Delegating => ~Needs(UsesIR, Builds, t)
  /\ p \in Opting /\ Ahead(Layout, t) => Ahead(Flagging, t)
  /\ p \in Emitting => IF prev \in kHssaPhases THEN Ahead(Writes, t) /\ ~Ahead(Keeps, t)
                       ELSE ~Ahead(Builds, t)

\* Requests for results that are no layout.
Plain(p) == {Get(a) : a \in Asks(p) \ Laying}

\* Requests for results that are no layout are allowed to the phase and disturb nothing,
\* in any number and order.
LEMMA PlainFacts ==
  ASSUME NEW p
  PROVE  /\ Plain(p) \subseteq Allowed(p) /\ Plain(p) \cap Marked = {}
         /\ "delegaterc" \notin Asks(p) => Plain(p) \cap UsesIR = {}
         /\ <<>> \in Seq(Plain(p))
         /\ \A s, t \in Seq(Plain(p)) : s \o t \in Seq(Plain(p))
         /\ \A a \in Asks(p) \ Laying : <<Get(a)>> \in Seq(Plain(p)) /\ Get(a) \in Plain(p)
<1>1. \A a \in Asks(p) \ Laying : a \in Analyses /\ a # "bblayout"
  BY DEF Asks, Laying
<1>2. Plain(p) \subseteq Allowed(p)
  BY DEF Plain, Allowed
<1>3. Plain(p) \cap Marked = {}
  BY <1>1, Kinds DEF Plain, Marked, Changes
<1>4. "delegaterc" \notin Asks(p) => Plain(p) \cap UsesIR = {}
  BY <1>1, Kinds DEF Plain
<1>5. \A a \in Asks(p) \ Laying : <<Get(a)>> \in Seq(Plain(p)) /\ Get(a) \in Plain(p)
  BY DEF Plain
<1> QED
  BY <1>2, <1>3, <1>4, <1>5, ConcatProperties

\* Runs that ask for results and do nothing else.
LEMMA PlainRuns ==
  ASSUME NEW p \in Known, p \notin Mapping \cup Lacking \cup Delegating \cup Opting \cup Emitting,
         "delegaterc" \notin Asks(p), NEW prev, NEW t \in Seq(Plain(p)),
         p \in Builders \cup Predicting => Ahead(Builds, t)
  PROVE  Good(p, t) /\ Starts(p, prev, t)
<1>1. Good(p, t)
  BY PlainFacts, GoodPlain
<1>2. ~Needs(UsesIR, Builds, t)
  BY PlainFacts, NoPatterns
<1> QED
  BY <1>1, <1>2 DEF Starts

\* The runs of the phases by their names.
LEMMA PhasesAre ==
  /\ Phases["dominance"] = MeDoDominance /\ Phases["ssatab"] = MeDoSSATab
  /\ Phases["aliasclass"] = MeDoAliasClass /\ Phases["irmapbuild"] = MeDoIrMapBuild
  /\ Phases["identloops"] = MeDoMeLoop /\ Phases["mepredict"] = MeDoPredict
  /\ Phases["bblayout"] = MeDoBBLayout /\ Phases["delegaterc"] = MeDoDelegateRC
  /\ Phases["loopcanon"] = MeDoLoopCanon /\ Phases["splitcriticaledge"] = MeDoSplitCEdge
  /\ Phases["ssa"] = MeDoSSA /\ Phases["dse"] = MeDoDSE /\ Phases["fsaa"] = MeDoFSAA
  /\ Phases["hprop"] = MeDoMeProp /\ Phases["symrename"] = MeDoSymRename
  /\ Phases["hdse"] = MeDohDSE /\ Phases["may2dassign"] = MeDoMay2Dassign
  /\ Phases["condbasednpc"] = MeDoCondBasedNPC /\ Phases["cfgopt"] = MeDoCfgOpt
  /\ Phases["epre"] = MeDoSSAEPre /\ Phases["stmtpre"] = MeDoStmtPre
  /\ Phases["analyzerc"] = MeDoAnalyzeRC /\ Phases["rclowering"] = MeDoRCLowering
  /\ Phases["rename2preg"] = MeDoSSARename2Preg /\ Phases["lpre"] = MeDoSSALPre
BY DEF Phases

\* Phases that only look.
LEMMA LookingRuns ==
  ASSUME NEW p \in {"dominance", "ssatab", "aliasclass", "identloops", "ssa", "fsaa", "hprop",
                    "symrename", "condbasednpc", "epre", "stmtpre", "rename2preg", "lpre"},
         NEW prev, NEW t \in Phases[p]
  PROVE  Good(p, t) /\ Starts(p, prev, t)
<1>1. /\ p \in Known /\ p \notin Mapping \cup Lacking \cup Delegating \cup Opting \cup Emitting
      /\ "delegaterc" \notin Asks(p)
      /\ p \in Builders \cup Predicting => p \in {"hprop", "symrename"}
  BY DEF Known, Name, Low, Early, Builders, Analyses, Mapping, Lacking, Delegating, Opting, Emitting,
         Asks, Predicting
<1>2. \A s, r \in Seq(Plain(p)) : s \o r \in Seq(Plain(p))
  BY PlainFacts
<1>3. \A a \in Asks(p) \ Laying : <<Get(a)>> \in Seq(Plain(p))
  BY PlainFacts
<1>4. /\ "dominance" \in Asks(p) => DOM \in Seq(Plain(p))
      /\ "ssatab" \in Asks(p) => SSA \in Seq(Plain(p))
      /\ "irmapbuild" \in Asks(p) => IR \in Seq(Plain(p))
  BY <1>3 DEF DOM, SSA, IR, Laying
<1>5. <<>> \in Seq(Plain(p))
  BY PlainFacts
<1>6. CASE p \in {"dominance", "ssatab"}
  <2>1. t = <<>>
    BY <1>6, PhasesAre DEF MeDoDominance, MeDoSSATab
  <2>2. p \notin Builders \cup Predicting
    BY <1>1, <1>6
  <2> QED
    BY <1>1, <1>5, <2>1, <2>2, PlainRuns
<1>7. CASE p \in {"aliasclass", "identloops", "condbasednpc"}
  <2>1. /\ p = "aliasclass" => t = SSA /\ "ssatab" \in Asks(p)
        /\ p # "aliasclass" => t = DOM /\ "dominance" \in Asks(p)
    BY <1>7, PhasesAre DEF MeDoAliasClass, MeDoMeLoop, MeDoCondBasedNPC, Asks, Analyses
  <2>2. p \notin Builders \cup Predicting
    BY <1>1, <1>7
  <2> QED
    BY <1>1, <1>4, <2>1, <2>2, PlainRuns
<1>8. CASE p \in {"ssa", "fsaa"}
  <2>1. "dominance" \in Asks(p) /\ "ssatab" \in Asks(p)
    BY <1>8 DEF Asks, Analyses
  <2>2. t = DOM \o SSA \/ t = SSA \o DOM
    BY <1>8, PhasesAre DEF MeDoSSA, MeDoFSAA
  <2>3. p \notin Builders \cup Predicting
    BY <1>1, <1>8
  <2> QED
    BY <1>1, <1>2, <1>4, <2>1, <2>2, <2>3, PlainRuns
<1>9. CASE p \in {"hprop", "symrename"}
  <2>1. "dominance" \in Asks(p) /\ "irmapbuild" \in Asks(p) /\ (p = "symrename" => "ssatab" \in Asks(p))
    BY <1>9 DEF Asks, Analyses
  <2>2. /\ p = "hprop" => t = DOM \o IR
        /\ p = "symrename" => t = SSA \o IR
    BY <1>9, PhasesAre DEF MeDoMeProp, MeDoSymRename
  <2>3. Ahead(Builds, IR)
    <3> DEFINE x == Get("irmapbuild")
               s == <<x>>
    <3>1. Len(s) = 1 /\ s[1] = x /\ 1 \in 1 .. 1 /\ x \in Builds
      BY DEF Builds
    <3> HIDE DEF s
    <3> QED
      BY <3>1 DEF Ahead, s, IR
  <2>4. Ahead(Builds, t)
    <3>1. PICK r \in Seq(Plain(p)) : t = r \o IR
      BY <1>4, <1>9, <2>1, <2>2
    <3>2. IR \in Seq(Plain(p))
      BY <1>4, <2>1
    <3>3. Ahead(Builds, r \o IR)
      BY <2>3, <3>2, ConcatPatterns
    <3> QED
      BY <3>1, <3>3
  <2> QED
    BY <1>1, <1>2, <1>4, <1>9, <2>1, <2>2, <2>4, PlainRuns
<1>10. CASE p \in {"epre", "stmtpre", "rename2preg", "lpre"}
  <2>1. /\ "dominance" \in Asks(p) /\ "irmapbuild" \in Asks(p)
        /\ p = "lpre" => "identloops" \in Asks(p) \ Laying
        /\ p = "rename2preg" => "aliasclass" \in Asks(p) \ Laying
    BY <1>10 DEF Asks, Analyses, Laying
  <2>2. \/ t = <<>> \/ t = DOM \o IR
        \/ p = "lpre" /\ t = DOM \o IR \o <<Get("identloops")>>
        \/ p = "rename2preg" /\ t = IR \o <<Get("aliasclass")>>
    <3>1. CASE p = "epre" \/ p = "stmtpre"
      BY <3>1, PhasesAre, Zenon DEF MeDoSSAEPre, MeDoStmtPre
    <3>2. CASE p = "rename2preg"
      BY <3>2, PhasesAre, Zenon DEF MeDoSSARename2Preg
    <3>3. CASE p = "lpre"
      BY <3>3, PhasesAre, Zenon DEF MeDoSSALPre
    <3> QED
      BY <1>10, <3>1, <3>2, <3>3
  <2>3. p \notin Builders \cup Predicting
    BY <1>1, <1>10
  <2> QED
    BY <1>1, <1>2, <1>3, <1>4, <1>5, <2>1, <2>2, <2>3, PlainRuns
<1> QED
  BY <1>6, <1>7, <1>8, <1>9, <1>10

\* Phases that look and drop a result.
LEMMA PredictRuns ==
  ASSUME NEW prev, NEW t \in MeDoPredict
  PROVE  Good("mepredict", t) /\ Starts("mepredict", prev, t)
<1> DEFINE p == "mepredict"
           l == "identloops"
           s == IR \o DOM
           r == <<Invalid(l)>> \o <<Get(l)>>
           A == Plain(p) \cup {Invalid(l)}
<1>1. /\ "dominance" \in Asks(p) \ Laying /\ "irmapbuild" \in Asks(p) \ Laying
      /\ l \in Asks(p) \ Laying /\ "delegaterc" \notin Asks(p) /\ l \in Drops(p) /\ l \in Analyses
  BY DEF Asks, Drops, Analyses, Laying
<1>2. t = s \o r
  <2>1. t = IR \o DOM \o <<Invalid(l), Get(l)>>
    BY DEF MeDoPredict
  <2>2. <<Invalid(l), Get(l)>> = r
    BY Pair, Zenon
  <2> QED
    BY <2>1, <2>2
<1>3. DOM \in Seq(A) /\ IR \in Seq(A) /\ <<Invalid(l)>> \in Seq(A) /\ <<Get(l)>> \in Seq(A)
  BY <1>1 DEF DOM, IR, Plain
<1>4. A \subseteq Allowed(p) /\ A \cap Marked = {} /\ A \cap UsesIR = {}
  <2>1. Invalid(l) \in Allowed(p)
    BY <1>1 DEF Allowed
  <2>2. Invalid(l) \notin Marked \cup UsesIR
    <3>1. Invalid(l) \in {Invalid(a) : a \in Analyses}
      BY <1>1
    <3>2. Invalid(l) \notin Changes \cup Flagging \cup UsesIR \cup Frees
      BY <3>1, Kinds
    <3> QED
      BY <3>2 DEF Marked, UsesIR
  <2> QED
    BY <1>1, <2>1, <2>2, PlainFacts
<1>5. Ahead(Builds, IR)
  <2> DEFINE x == Get("irmapbuild")
             q == <<x>>
  <2>1. Len(q) = 1 /\ q[1] = x /\ 1 \in 1 .. 1 /\ x \in Builds
    BY DEF Builds
  <2> HIDE DEF q
  <2> QED
    BY <2>1 DEF Ahead, q, IR
<1> HIDE DEF A
<1>6. r \in Seq(A)
  BY <1>3, ConcatProperties
<1>7. s \in Seq(A) /\ Ahead(Builds, s)
  BY <1>3, <1>5, ConcatPatterns
<1> HIDE DEF s, r
<1>8. t \in Seq(A) /\ Ahead(Builds, t)
  BY <1>2, <1>6, <1>7, ConcatPatterns
<1>9. Good(p, t)
  BY <1>4, <1>8, GoodPlain
<1>10. ~Needs(UsesIR, Builds, t)
  BY <1>4, <1>8, NoPatterns
<1>11. p \notin Mapping \cup Opting \cup Emitting
  BY DEF Mapping, Opting, Emitting
<1> QED
  BY <1>8, <1>9, <1>10, <1>11 DEF Starts

\* The code is deleted when the IRMap is made.
LEMMA MappingRuns ==
  ASSUME NEW prev, NEW t \in MeDoIrMapBuild
  PROVE  Good("irmapbuild", t) /\ Starts("irmapbuild", prev, t)
<1> DEFINE p == "irmapbuild"
           x == Step("freeStmts")
<1>1. t = DOM \o <<x>>
  BY DEF MeDoIrMapBuild
<1>2. x \in Allowed(p) /\ x \in Frees
  <2>1. "freeStmts" \in Acts(p)
    BY DEF Acts
  <2> QED
    BY <2>1 DEF Allowed, Frees
<1>3. x \notin Flagging /\ x \notin Graph /\ x \notin UsesIR
  BY <1>2, Kinds DEF Changes
<1>4. "dominance" \in Asks(p) \ Laying /\ "delegaterc" \notin Asks(p)
  BY DEF Asks, Laying, Analyses
<1>5. DOM \in Seq(Plain(p))
  BY <1>4, PlainFacts DEF DOM
<1> HIDE DEF x
<1>6. Good(p, <<x>>) /\ \A S : Ahead(S, <<x>>) <=> x \in S
  BY <1>2, <1>3, GoodOne
<1>7. Good(p, t)
  BY <1>1, <1>5, <1>6, PlainFacts, GoodConcat
<1>8. DOM \in Seq(Allowed(p)) /\ <<x>> \in Seq(Allowed(p))
  BY <1>2, <1>5, PlainFacts
<1>9. Ahead(Frees, t)
  BY <1>1, <1>2, <1>6, <1>8, ConcatPatterns
<1>10. ~Ahead(UsesIR, t)
  <2>1. ~Ahead(UsesIR, DOM)
    BY <1>4, <1>5, PlainFacts, NoPatterns
  <2> QED
    BY <1>1, <1>3, <1>6, <1>8, <2>1, ConcatPatterns
<1>11. ~Needs(UsesIR, Builds, t)
  BY <1>10 DEF Needs, Ahead
<1>12. p \notin Builders \cup Predicting \cup Opting \cup Emitting
  BY DEF Builders, Predicting, Opting, Emitting
<1> QED
  BY <1>7, <1>9, <1>11, <1>12 DEF Starts

\* Phases that change the graph.
LEMMA ChangedRuns ==
  ASSUME NEW p, Step("changeCFG") \in Allowed(p), NEW x \in Clears, x \in Allowed(p)
  PROVE  LET t == <<Step("changeCFG"), x>>
         IN  Good(p, t) /\ ~Needs(UsesIR, Builds, t)
<1> DEFINE c == Step("changeCFG")
<1>1. c \in Graph
  BY DEF Graph
<1>2. x \notin Fresh \cup Changes \cup Flagging \cup UsesIR
  BY Kinds
<1>3. c \notin Flagging \cup UsesIR \cup Frees \cup Writes
  BY <1>1, Kinds DEF UsesIR
<1>4. <<c, x>> = <<c>> \o <<x>>
  BY Pair, Zenon
<1> HIDE DEF c
<1>5. Good(p, <<x>>) /\ (\A S : Ahead(S, <<x>>) <=> x \in S) /\ \A U, B : Needs(U, B, <<x>>) => x \in U
  BY <1>2, GoodOne DEF Changes
<1>6. ~Ahead(Fresh, <<x>>) /\ Ahead(Clears \cup Flagging, <<x>>)
  BY <1>2, <1>5
<1>7. c \in Allowed(p)
  BY DEF c
<1>8. /\ Good(p, <<c>> \o <<x>>)
      /\ \A U, B : Needs(U, B, <<c>> \o <<x>>) => c \in U \/ Needs(U, B, <<x>>)
  BY <1>3, <1>5, <1>6, <1>7, GoodCons
<1>9. ~Needs(UsesIR, Builds, <<c>> \o <<x>>)
  BY <1>2, <1>3, <1>5, <1>8
<1> QED
  BY <1>4, <1>8, <1>9 DEF c

\* Requests, then other steps.
LEMMA MixedRuns ==
  ASSUME NEW p, p \notin Mapping \cup Lacking \cup Delegating \cup Opting \cup Emitting,
         "delegaterc" \notin Asks(p), NEW prev, NEW s \in Seq(Plain(p)), NEW t, Good(p, t),
         ~Needs(UsesIR, Builds, t), p \in Builders \cup Predicting => Ahead(Builds, s)
  PROVE  Good(p, s \o t) /\ Starts(p, prev, s \o t)
<1>1. Good(p, s \o t)
  BY PlainFacts, GoodConcat
<1>2. s \in Seq(Allowed(p)) /\ t \in Seq(Allowed(p))
  BY PlainFacts DEF Good
<1>3. ~Needs(UsesIR, Builds, s)
  BY PlainFacts, NoPatterns
<1>4. ~Needs(UsesIR, Builds, s \o t)
  BY <1>2, <1>3, ConcatPatterns
<1>5. p \in Builders \cup Predicting => Ahead(Builds, s \o t)
  BY <1>2, ConcatPatterns
<1> QED
  BY <1>1, <1>4, <1>5 DEF Starts

\* Asking for the IRMap.
LEMMA IRBuilds ==
  Ahead(Builds, IR)
<1> DEFINE x == Get("irmapbuild")
           s == <<x>>
<1>1. Len(s) = 1 /\ s[1] = x /\ 1 \in 1 .. 1 /\ x \in Builds
  BY DEF Builds
<1> HIDE DEF s
<1> QED
  BY <1>1 DEF Ahead, s, IR

\* Phases that may change the graph.
LEMMA ChangingRuns ==
  ASSUME NEW p \in {"bblayout", "loopcanon", "splitcriticaledge", "dse", "hdse"},
         NEW prev, NEW t \in Phases[p]
  PROVE  Good(p, t) /\ Starts(p, prev, t)
<1> DEFINE c == Step("changeCFG")
           d == Invalid("dominance")
<1>1. /\ p \notin Mapping \cup Lacking \cup Delegating \cup Opting \cup Emitting
      /\ "delegaterc" \notin Asks(p)
      /\ p \in Builders \cup Predicting => p = "hdse"
      /\ p \in {"loopcanon", "dse", "hdse"} => "dominance" \in Asks(p) \ Laying
      /\ p = "dse" => "ssatab" \in Asks(p) \ Laying
      /\ p = "hdse" => "irmapbuild" \in Asks(p) \ Laying
  BY DEF Builders, Mapping, Lacking, Delegating, Opting, Emitting, Asks, Predicting, Laying, Analyses
<1>2. /\ c \in Allowed(p) /\ c \in Graph
      /\ p # "splitcriticaledge" => d \in Allowed(p)
      /\ p = "splitcriticaledge" => Step("invalidAll") \in Allowed(p)
  <2>1. "changeCFG" \in Acts(p) /\ (p = "splitcriticaledge" => "invalidAll" \in Acts(p))
    BY DEF Acts
  <2>2. p # "splitcriticaledge" => "dominance" \in Drops(p)
    BY DEF Drops, Analyses
  <2> QED
    BY <2>1, <2>2 DEF Allowed, Graph
<1>3. d \in Clears /\ Step("invalidAll") \in Clears /\ d \notin UsesIR \cup Fresh \cup Changes \cup Flagging
  <2>1. d \in Clears /\ Step("invalidAll") \in Clears
    BY DEF Clears
  <2> QED
    BY <2>1, Kinds
<1>4. <<>> \in Seq(Plain(p)) /\ Good(p, <<>>) /\ ~Needs(UsesIR, Builds, <<>>)
  BY PlainFacts, GoodNil
<1>5. p # "splitcriticaledge" => Good(p, Changed) /\ ~Needs(UsesIR, Builds, Changed)
  BY <1>2, <1>3, ChangedRuns DEF Changed
<1>6. \A s : s \in Seq(Plain(p)) => <<>> \o s = s /\ s \o <<>> = s
  BY EmptySeq, ConcatEmptySeq
<1>7. ASSUME NEW s \in Seq(Plain(p)), NEW r, Good(p, r), ~Needs(UsesIR, Builds, r),
             p = "hdse" => Ahead(Builds, s)
      PROVE  Good(p, s \o r) /\ Starts(p, prev, s \o r)
  BY <1>1, <1>7, MixedRuns
<1>8. CASE p = "bblayout"
  <2>1. t \in {<<>>, <<c>>, Changed}
    BY <1>8, PhasesAre DEF MeDoBBLayout
  <2>2. Good(p, <<c>>) /\ ~Needs(UsesIR, Builds, <<c>>)
    <3>1. c \notin Flagging \cup UsesIR
      BY <1>2, Kinds
    <3>2. p \in Laying
      BY <1>8 DEF Laying
    <3> HIDE DEF c
    <3> QED
      BY <1>2, <3>1, <3>2, GoodOne
  <2>3. Good(p, t) /\ ~Needs(UsesIR, Builds, t)
    BY <1>4, <1>5, <1>8, <2>1, <2>2
  <2> QED
    BY <1>1, <1>8, <2>3 DEF Starts
<1>9. CASE p = "loopcanon"
  <2>1. t = DOM \/ t = DOM \o Changed
    BY <1>9, PhasesAre DEF MeDoLoopCanon
  <2>2. DOM \in Seq(Plain(p))
    BY <1>1, <1>9, PlainFacts DEF DOM
  <2>3. p \notin Builders \cup Predicting
    BY <1>1, <1>9
  <2>4. DOM \o <<>> = DOM
    BY <1>6, <2>2
  <2> QED
    BY <1>4, <1>5, <1>7, <1>9, <2>1, <2>2, <2>4
<1>10. CASE p = "splitcriticaledge"
  <2>1. t = <<>> \/ t = <<c, Step("invalidAll")>>
    BY <1>10, PhasesAre DEF MeDoSplitCEdge
  <2>2. Good(p, t) /\ ~Needs(UsesIR, Builds, t)
    BY <1>2, <1>3, <1>4, <1>10, <2>1, ChangedRuns
  <2> QED
    BY <1>1, <1>10, <2>2 DEF Starts
<1>11. CASE p = "dse"
  <2>1. t = DOM \o SSA \/ t = DOM \o SSA \o Changed
    BY <1>11, PhasesAre DEF MeDoDSE
  <2>2. DOM \o SSA \in Seq(Plain(p))
    BY <1>1, <1>11, PlainFacts DEF DOM, SSA
  <2>3. (DOM \o SSA) \o <<>> = DOM \o SSA
    BY <1>6, <2>2
  <2> QED
    BY <1>4, <1>5, <1>7, <1>11, <2>1, <2>2, <2>3
<1>12. CASE p = "hdse"
  <2>1. t = DOM \o IR \o <<d>> \/ t = DOM \o IR \o Changed
    BY <1>12, PhasesAre DEF MeDohDSE
  <2>2. DOM \in Seq(Plain(p)) /\ IR \in Seq(Plain(p))
    BY <1>1, <1>12, PlainFacts DEF DOM, IR
  <2>3. DOM \o IR \in Seq(Plain(p)) /\ Ahead(Builds, DOM \o IR)
    BY <2>2, IRBuilds, ConcatPatterns
  <2>4. Good(p, <<d>>) /\ ~Needs(UsesIR, Builds, <<d>>)
    <3>1. d \in Allowed(p)
      BY <1>2, <1>12
    <3> HIDE DEF d
    <3> QED
      BY <1>3, <3>1, GoodOne DEF Changes
  <2> QED
    BY <1>5, <1>7, <1>12, <2>1, <2>3, <2>4
<1> QED
  BY <1>8, <1>9, <1>10, <1>11, <1>12

\* Phases that use the IRMap of the function.
LEMMA UsingRuns ==
  ASSUME NEW p \in {"delegaterc", "may2dassign", "rclowering"}, NEW prev, NEW t \in Phases[p]
  PROVE  Good(p, t) /\ Starts(p, prev, t)
<1> DEFINE x == Step("useIrMap")
<1>1. /\ p \notin Mapping \cup Builders \cup Predicting \cup Opting \cup Emitting
      /\ p \in Lacking \cup Delegating
      /\ p = "delegaterc" => "dominance" \in Asks(p) \ Laying
  BY DEF Builders, Mapping, Lacking, Delegating, Opting, Emitting, Asks, Predicting, Laying, Analyses
<1>2. x \in Allowed(p) /\ x \in LooksIR
  <2>1. "useIrMap" \in Acts(p)
    BY DEF Acts
  <2> QED
    BY <2>1 DEF Allowed, LooksIR
<1>3. t = <<x>> \/ (p = "delegaterc" /\ t = DOM \o <<x>>)
  <2>1. CASE p = "delegaterc"
    BY <2>1, PhasesAre DEF MeDoDelegateRC
  <2>2. CASE p = "may2dassign"
    BY <2>2, PhasesAre DEF MeDoMay2Dassign
  <2>3. CASE p = "rclowering"
    BY <2>3, PhasesAre DEF MeDoRCLowering
  <2> QED
    BY <2>1, <2>2, <2>3
<1> HIDE DEF x
<1>4. Good(p, <<x>>)
  BY <1>2, Kinds, GoodOne DEF Changes
<1>5. p = "delegaterc" => DOM \in Seq(Plain(p))
  BY <1>1, PlainFacts DEF DOM
<1>6. Good(p, t)
  <2>1. CASE t = <<x>>
    BY <1>4, <2>1
  <2>2. CASE p = "delegaterc" /\ t = DOM \o <<x>>
    <3>1. DOM \in Seq(Plain(p)) /\ Plain(p) \subseteq Allowed(p) /\ Plain(p) \cap Marked = {}
      BY <1>5, <2>2, PlainFacts
    <3>2. Good(p, DOM \o <<x>>)
      BY <1>4, <3>1, GoodConcat
    <3> QED
      BY <2>2, <3>2
  <2> QED
    BY <1>3, <2>1, <2>2
<1> QED
  BY <1>1, <1>6 DEF Starts

\* The code is written before the manager starts over.
LEMMA OptRuns ==
  ASSUME NEW prev, NEW t \in Phases["cfgopt"]
  PROVE  Good("cfgopt", t) /\ Starts("cfgopt", prev, t)
<1> DEFINE p == "cfgopt"
           c == Step("changeCFG")
           f == Step("setChangeCFG")
           l == Get("bblayout")
           w == Step("newCode")
           r == <<c, f, l, w>>
<1>1. /\ p \notin Mapping \cup Builders \cup Predicting \cup Lacking \cup Delegating \cup Emitting
      /\ p \notin Laying
      /\ "irmapbuild" \in Asks(p) \ Laying /\ "bblayout" \in Asks(p) /\ "delegaterc" \notin Asks(p)
  BY DEF Builders, Mapping, Lacking, Delegating, Opting, Emitting, Asks, Predicting, Laying, Analyses
<1>2. c \in Allowed(p) /\ f \in Allowed(p) /\ l \in Allowed(p) /\ w \in Allowed(p)
  <2>1. "changeCFG" \in Acts(p) /\ "setChangeCFG" \in Acts(p) /\ "newCode" \in Acts(p)
    BY DEF Acts
  <2> QED
    BY <1>1, <2>1 DEF Allowed
<1>3. c \in Graph /\ f \in Flagging /\ l \in Layout /\ w \in Writes
  BY DEF Graph, Flagging, Layout, Writes
<1>4. /\ c \notin Fresh \cup Flagging \cup UsesIR \cup Builds \cup Frees
      /\ f \notin Fresh \cup Changes \cup UsesIR \cup Builds \cup Frees
      /\ l \notin Fresh \cup Graph \cup Flagging \cup Writes \cup UsesIR \cup Builds \cup Frees
      /\ w \notin Fresh \cup Changes \cup Flagging \cup Builds \cup Frees
  <2>1. "bblayout" \in Analyses
    BY DEF Analyses
  <2>2. l \notin Fresh \cup Graph \cup Flagging \cup Writes \cup UsesIR \cup Builds \cup Frees
    BY <2>1, Kinds
  <2>3. c \notin Fresh \cup Flagging \cup UsesIR \cup Builds \cup Frees
    BY <1>3, Kinds
  <2>4. f \notin Fresh \cup Changes \cup UsesIR \cup Builds \cup Frees
    BY <1>3, Kinds
  <2>5. w \notin Fresh \cup Changes \cup Flagging \cup Builds \cup Frees
    BY <1>3, Kinds
  <2> QED
    BY <2>2, <2>3, <2>4, <2>5
<1>5. t = IR \/ t = IR \o r
  BY PhasesAre DEF MeDoCfgOpt
<1>7. IR \in Seq(Plain(p))
  BY <1>1, PlainFacts DEF IR
<1> HIDE DEF p, c, f, l, w
<1>6. r = <<c>> \o (<<f>> \o (<<l>> \o <<w>>))
  BY Quadruple, Zenon
<1> HIDE DEF r
<1> DEFINE r3 == <<w>>
           r2 == <<l>> \o r3
           r1 == <<f>> \o r2
<1>8. Good(p, r3) /\ \A S : Ahead(S, r3) <=> w \in S
  BY <1>2, <1>4, GoodOne DEF Changes
<1> HIDE DEF r3
<1>9. Good(p, r2) /\ \A S : Ahead(S, r2) <=> l \in S \/ w \in S
  <2>1. ~Ahead(Fresh, r3)
    BY <1>4, <1>8
  <2> QED
    BY <1>2, <1>4, <1>8, <2>1, GoodCons
<1> HIDE DEF r2
<1>10. Good(p, r1) /\ \A S : Ahead(S, r1) <=> f \in S \/ l \in S \/ w \in S
  <2>1. ~Ahead(Builds, r2) /\ Ahead(Writes, r2)
    BY <1>3, <1>4, <1>9
  <2> QED
    BY <1>2, <1>4, <1>9, <2>1, GoodCons DEF Changes
<1> HIDE DEF r1
<1>11. Good(p, r) /\ \A S : Ahead(S, r) <=> c \in S \/ f \in S \/ l \in S \/ w \in S
  <2>1. ~Ahead(Fresh, r1) /\ Ahead(Clears \cup Flagging, r1)
    BY <1>3, <1>4, <1>10
  <2>2. c \notin Frees \cup Writes \cup Flagging
    BY <1>4 DEF UsesIR
  <2>3. r = <<c>> \o r1
    BY <1>6 DEF r1, r2, r3
  <2> QED
    BY <1>2, <1>10, <2>1, <2>2, <2>3, GoodCons
<1>12. Good(p, t)
  <2>1. Good(p, IR)
    BY <1>7, PlainFacts, GoodPlain
  <2>2. Good(p, IR \o r)
    BY <1>7, <1>11, PlainFacts, GoodConcat
  <2> QED
    BY <1>5, <2>1, <2>2
<1>13. ~Needs(UsesIR, Builds, IR) /\ ~Ahead(Layout, IR)
  <2>1. Plain(p) \cap UsesIR = {}
    BY <1>1, PlainFacts DEF p
  <2>2. Plain(p) \cap Layout = {}
    BY PlainFacts DEF Marked, Changes
  <2> QED
    BY <1>7, <2>1, <2>2, NoPatterns
<1>14. ~Needs(UsesIR, Builds, t)
  <2>1. IR \in Seq(Allowed(p)) /\ r \in Seq(Allowed(p))
    BY <1>7, <1>11, PlainFacts DEF Good
  <2>2. ~Needs(UsesIR, Builds, IR \o r)
    BY <1>13, <2>1, IRBuilds, ConcatPatterns
  <2> QED
    BY <1>5, <1>13, <2>2
<1>15. Ahead(Layout, t) => Ahead(Flagging, t)
  <2>1. CASE t = IR
    BY <1>13, <2>1
  <2>2. CASE t = IR \o r
    <3>1. IR \in Seq(Allowed(p)) /\ r \in Seq(Allowed(p))
      BY <1>7, <1>11, PlainFacts DEF Good
    <3>2. Ahead(Flagging, r)
      BY <1>3, <1>11
    <3>3. Ahead(Flagging, IR \o r)
      BY <3>1, <3>2, ConcatPatterns
    <3> QED
      BY <2>2, <3>3
  <2> QED
    BY <1>5, <2>1, <2>2
<1>16. Starts(p, prev, t)
  <2>1. p \notin Mapping \cup Builders \cup Predicting \cup Lacking \cup Delegating \cup Emitting
    BY <1>1 DEF p
  <2> QED
    BY <1>14, <1>15, <2>1 DEF Starts
<1> QED
  BY <1>12, <1>16 DEF p

\* Reference counting asks for the IRMap before delegaterc uses it.
LEMMA AnalyzeRuns ==
  ASSUME NEW prev, NEW t \in Phases["analyzerc"]
  PROVE  Good("analyzerc", t) /\ Starts("analyzerc", prev, t)
<1> DEFINE p == "analyzerc"
           b0 == DOM \o <<Get("aliasclass")>>
           b == b0 \o IR
           g == <<Get("delegaterc")>>
<1>1. /\ p \notin Mapping \cup Builders \cup Predicting \cup Lacking \cup Delegating \cup Emitting \cup Opting
      /\ p \notin Laying
      /\ "dominance" \in Asks(p) \ Laying /\ "aliasclass" \in Asks(p) \ Laying
      /\ "irmapbuild" \in Asks(p) \ Laying /\ "delegaterc" \in Asks(p) \ Laying
  BY DEF Builders, Mapping, Lacking, Delegating, Opting, Emitting, Asks, Predicting, Laying, Analyses
<1>2. \E m \in {<<>>, g, DOM, g \o DOM} : t = b \o m
  BY PhasesAre DEF MeDoAnalyzeRC, MeDoCondBasedRC
<1>3. DOM \in Seq(Plain(p)) /\ IR \in Seq(Plain(p)) /\ g \in Seq(Plain(p))
      /\ <<Get("aliasclass")>> \in Seq(Plain(p))
  BY <1>1, PlainFacts DEF DOM, IR
<1> HIDE DEF g
<1>4. \A s, r \in Seq(Plain(p)) : s \o r \in Seq(Plain(p))
  BY PlainFacts
<1>5. b0 \in Seq(Plain(p))
  BY <1>3, <1>4
<1>6. "delegaterc" \in Analyses /\ "dominance" \in Analyses /\ "aliasclass" \in Analyses
      /\ "irmapbuild" \in Analyses
  BY DEF Analyses
<1>7. ~Ahead(UsesIR, b0)
  <2>1. DOM \in Seq(Plain(p) \ UsesIR) /\ <<Get("aliasclass")>> \in Seq(Plain(p) \ UsesIR)
    <3>1. /\ Get("dominance") \in Plain(p) /\ Get("aliasclass") \in Plain(p)
      BY <1>1, PlainFacts
    <3>2. Get("dominance") \notin UsesIR /\ Get("aliasclass") \notin UsesIR
      BY <1>6, Kinds
    <3> QED
      BY <3>1, <3>2 DEF DOM
  <2>2. b0 \in Seq(Plain(p) \ UsesIR) /\ (Plain(p) \ UsesIR) \cap UsesIR = {}
    BY <2>1, ConcatProperties
  <2> HIDE DEF b0
  <2> QED
    BY <2>2, NoPatterns
<1> HIDE DEF b0
<1>8. ~Ahead(UsesIR, IR)
  <2>1. IR \in Seq(Plain(p) \ UsesIR)
    <3>1. Get("irmapbuild") \in Plain(p) /\ Get("irmapbuild") \notin UsesIR
      BY <1>1, <1>6, Kinds, PlainFacts
    <3> QED
      BY <3>1 DEF IR
  <2>2. (Plain(p) \ UsesIR) \cap UsesIR = {}
    OBVIOUS
  <2> QED
    BY <2>1, <2>2, NoPatterns
<1>9. b \in Seq(Plain(p)) /\ ~Ahead(UsesIR, b) /\ Ahead(Builds, b)
  BY <1>3, <1>4, <1>5, <1>7, <1>8, IRBuilds, ConcatPatterns
<1> HIDE DEF b, p
<1>10. PICK m \in Seq(Plain(p)) : t = b \o m
  <2>1. <<>> \in Seq(Plain(p))
    OBVIOUS
  <2> QED
    BY <1>2, <1>3, <1>4, <2>1
<1>11. ~Needs(UsesIR, Builds, b)
  BY <1>9 DEF Needs, Ahead
<1>12. ~Needs(UsesIR, Builds, b \o m)
  BY <1>9, <1>11, ConcatPatterns
<1>13. b \o m \in Seq(Plain(p))
  BY <1>4, <1>9
<1>14. Good(p, t)
  BY <1>10, <1>13, PlainFacts, GoodPlain
<1>15. Starts(p, prev, t)
  <2>1. p \notin Mapping \cup Builders \cup Predicting \cup Delegating \cup Emitting \cup Opting
    BY <1>1 DEF p
  <2> QED
    BY <1>10, <1>12, <2>1 DEF Starts
<1> QED
  BY <1>14, <1>15 DEF p

\* emit writes the code from the IRMap, or keeps it.
LEMMA EmitRuns ==
  ASSUME NEW prev
  PROVE  Good("emit", MeDoEmission(prev)) /\ Starts("emit", prev, MeDoEmission(prev))
<1> DEFINE p == "emit"
           m == Get("mepredict")
           l == Get("bblayout")
           w == Step("newCode")
           k == Step("keepStmts")
<1>1. /\ p \notin Mapping \cup Builders \cup Predicting \cup Lacking \cup Delegating \cup Opting
      /\ p \notin Laying /\ p \in Emitting
      /\ "mepredict" \in Asks(p) /\ "bblayout" \in Asks(p)
  BY DEF Builders, Mapping, Lacking, Delegating, Opting, Emitting, Asks, Predicting, Laying, Analyses
<1>2. m \in Allowed(p) /\ l \in Allowed(p) /\ w \in Allowed(p) /\ k \in Allowed(p)
  <2>1. "keepStmts" \in Acts(p) /\ "newCode" \in Acts(p)
    BY DEF Acts
  <2> QED
    BY <1>1, <2>1 DEF Allowed
<1>3. m \in Builds /\ l \in Layout /\ w \in Writes /\ k \in Keeps
  BY DEF Builds, Layout, Writes, Keeps
<1>4. /\ m \notin Changes \cup Graph \cup Flagging \cup Writes \cup UsesIR \cup Frees \cup Keeps
      /\ l \notin Fresh \cup Graph \cup Flagging \cup Writes \cup UsesIR \cup Builds \cup Frees \cup Keeps
      /\ w \notin Fresh \cup Changes \cup Flagging \cup Builds \cup Frees \cup Keeps
      /\ k \notin Fresh \cup Changes \cup Flagging \cup UsesIR \cup Writes \cup Builds \cup Frees
  <2>1. "bblayout" \in Analyses /\ "mepredict" \in Analyses /\ "mepredict" # "bblayout"
        /\ "mepredict" # "delegaterc"
    BY DEF Analyses
  <2>2. l \notin Fresh \cup Graph \cup Flagging \cup Writes \cup UsesIR \cup Builds \cup Frees \cup Keeps
    BY <2>1, Kinds
  <2>3. m \notin Layout \cup Graph \cup Flagging \cup Writes \cup UsesIR \cup Frees \cup Keeps
    BY <2>1, Kinds
  <2>4. w \notin Fresh \cup Changes \cup Flagging \cup Builds \cup Frees \cup Keeps
    BY <1>3, Kinds
  <2>5. k \notin Fresh \cup Changes \cup Flagging \cup UsesIR \cup Builds \cup Frees
    BY <1>3, Kinds
  <2> QED
    BY <2>2, <2>3, <2>4, <2>5 DEF Changes, UsesIR
<1>12. /\ prev \in kHssaPhases => MeDoEmission(prev) = <<m, l, w>>
       /\ prev \notin kHssaPhases => MeDoEmission(prev) = <<l, k>>
  BY Zenon DEF MeDoEmission
<1> HIDE DEF p, m, l, w, k
<1>5. /\ prev \in kHssaPhases => MeDoEmission(prev) = <<m>> \o (<<l>> \o <<w>>)
      /\ prev \notin kHssaPhases => MeDoEmission(prev) = <<l>> \o <<k>>
  <2>1. <<m, l, w>> = <<m>> \o (<<l>> \o <<w>>) /\ <<l, k>> = <<l>> \o <<k>>
    BY Pair, Triple, Zenon
  <2> QED
    BY <1>12, <2>1
<1> DEFINE t == MeDoEmission(prev)
<1> HIDE DEF t
<1>6. Good(p, <<w>>) /\ (\A S : Ahead(S, <<w>>) <=> w \in S) /\ \A U, B : Needs(U, B, <<w>>) => w \in U
  BY <1>2, <1>4, GoodOne DEF Changes
<1>7. Good(p, <<k>>) /\ (\A S : Ahead(S, <<k>>) <=> k \in S) /\ \A U, B : Needs(U, B, <<k>>) => k \in U
  BY <1>2, <1>4, GoodOne DEF Changes
<1>8. /\ Good(p, <<l>> \o <<w>>) /\ (\A S : Ahead(S, <<l>> \o <<w>>) <=> l \in S \/ w \in S)
      /\ \A U, B : Needs(U, B, <<l>> \o <<w>>) => l \in U \/ w \in U
  <2> DEFINE r == <<w>>
  <2>1. /\ Good(p, r) /\ ~Ahead(Fresh, r) /\ (\A S : Ahead(S, r) <=> w \in S)
        /\ \A U, B : Needs(U, B, r) => w \in U
    BY <1>4, <1>6
  <2> HIDE DEF r
  <2>2. l \in Allowed(p) /\ l \notin Frees \cup Writes \cup Flagging \cup Graph
    BY <1>2, <1>4
  <2>3. /\ Good(p, <<l>> \o r) /\ \A S : Ahead(S, <<l>> \o r) <=> l \in S \/ Ahead(S, r)
        /\ \A U, B : Needs(U, B, <<l>> \o r) => l \in U \/ (Needs(U, B, r) /\ l \notin B)
    BY <2>1, <2>2, GoodCons
  <2>4. /\ \A S : Ahead(S, <<l>> \o r) <=> l \in S \/ w \in S
        /\ \A U, B : Needs(U, B, <<l>> \o r) => l \in U \/ w \in U
    BY <2>1, <2>3
  <2> QED
    BY <2>3, <2>4 DEF r
<1>9. /\ Good(p, <<l>> \o <<k>>) /\ (\A S : Ahead(S, <<l>> \o <<k>>) <=> l \in S \/ k \in S)
      /\ \A U, B : Needs(U, B, <<l>> \o <<k>>) => l \in U \/ k \in U
  <2> DEFINE r == <<k>>
  <2>1. /\ Good(p, r) /\ ~Ahead(Fresh, r) /\ (\A S : Ahead(S, r) <=> k \in S)
        /\ \A U, B : Needs(U, B, r) => k \in U
    BY <1>4, <1>7
  <2> HIDE DEF r
  <2>2. l \in Allowed(p) /\ l \notin Frees \cup Writes \cup Flagging \cup Graph
    BY <1>2, <1>4
  <2>3. /\ Good(p, <<l>> \o r) /\ \A S : Ahead(S, <<l>> \o r) <=> l \in S \/ Ahead(S, r)
        /\ \A U, B : Needs(U, B, <<l>> \o r) => l \in U \/ (Needs(U, B, r) /\ l \notin B)
    BY <2>1, <2>2, GoodCons
  <2>4. /\ \A S : Ahead(S, <<l>> \o r) <=> l \in S \/ k \in S
        /\ \A U, B : Needs(U, B, <<l>> \o r) => l \in U \/ k \in U
    BY <2>1, <2>3
  <2> QED
    BY <2>3, <2>4 DEF r
<1>10. CASE prev \in kHssaPhases
  <2> DEFINE r == <<l>> \o <<w>>
  <2>1. t = <<m>> \o r
    BY <1>5, <1>10 DEF t
  <2> HIDE DEF r
  <2>2. /\ Good(p, t) /\ (\A S : Ahead(S, t) <=> m \in S \/ l \in S \/ w \in S)
        /\ \A U, B : Needs(U, B, t) => m \in U \/ (Needs(U, B, r) /\ m \notin B)
    BY <1>2, <1>4, <1>8, <2>1, GoodCons, ZenonT(40) DEF r
  <2>3. ~Needs(UsesIR, Builds, t)
    BY <1>3, <1>4, <2>2
  <2>4. Ahead(Writes, t) /\ ~Ahead(Keeps, t)
    BY <1>3, <1>4, <2>2
  <2>5. Starts(p, prev, t)
    <3>1. p \notin Mapping \cup Builders \cup Predicting \cup Lacking \cup Delegating \cup Opting
      BY <1>1 DEF p
    <3> QED
      BY <1>10, <2>3, <2>4, <3>1 DEF Starts
  <2> QED
    BY <2>2, <2>5 DEF t, p
<1>11. CASE prev \notin kHssaPhases
  <2>1. t = <<l>> \o <<k>>
    BY <1>5, <1>11 DEF t
  <2>2. ~Needs(UsesIR, Builds, t) /\ ~Ahead(Builds, t)
    BY <1>4, <1>9, <2>1
  <2>3. Starts(p, prev, t)
    <3>1. p \notin Mapping \cup Builders \cup Predicting \cup Lacking \cup Delegating \cup Opting
      BY <1>1 DEF p
    <3> QED
      BY <1>11, <2>2, <3>1 DEF Starts
  <2> QED
    BY <1>9, <2>1, <2>3 DEF t, p
<1> QED
  BY <1>10, <1>11

\* What a phase of the manager or an analysis may do.
LEMMA RunsGood ==
  ASSUME NEW p \in Known, NEW prev, NEW t \in Runs(p, prev)
  PROVE  /\ Good(p, t)
         /\ fn.hasBBs => Starts(p, prev, t)
         /\ ~fn.hasBBs => t = <<>>
<1>1. CASE ~fn.hasBBs
  <2>1. t = <<>>
    BY <1>1, Zenon DEF Runs
  <2> QED
    BY <1>1, <2>1, GoodNil
<1>2. CASE fn.hasBBs /\ p = "emit"
  <2>1. t = MeDoEmission(prev)
    BY <1>2, Zenon DEF Runs
  <2> QED
    BY <1>2, <2>1, EmitRuns
<1>3. CASE fn.hasBBs /\ p # "emit"
  <2>1. t \in Phases[p]
    BY <1>3, Zenon DEF Runs
  <2>2. CASE p \in {"dominance", "ssatab", "aliasclass", "identloops", "ssa", "fsaa", "hprop",
                    "symrename", "condbasednpc", "epre", "stmtpre", "rename2preg", "lpre"}
    BY <1>3, <2>1, <2>2, LookingRuns
  <2>3. CASE p \in {"bblayout", "loopcanon", "splitcriticaledge", "dse", "hdse"}
    BY <1>3, <2>1, <2>3, ChangingRuns
  <2>4. CASE p \in {"delegaterc", "may2dassign", "rclowering"}
    BY <1>3, <2>1, <2>4, UsingRuns
  <2>5. CASE p = "mepredict"
    BY <1>3, <2>1, <2>5, PredictRuns, PhasesAre
  <2>6. CASE p = "irmapbuild"
    BY <1>3, <2>1, <2>6, MappingRuns, PhasesAre
  <2>7. CASE p = "cfgopt"
    BY <1>3, <2>1, <2>7, OptRuns
  <2>8. CASE p = "analyzerc"
    BY <1>3, <2>1, <2>8, AnalyzeRuns
  <2>9. \/ p \in {"dominance", "ssatab", "aliasclass", "identloops", "ssa", "fsaa", "hprop",
                  "symrename", "condbasednpc", "epre", "stmtpre", "rename2preg", "lpre"}
        \/ p \in {"bblayout", "loopcanon", "splitcriticaledge", "dse", "hdse"}
        \/ p \in {"delegaterc", "may2dassign", "rclowering"}
        \/ p = "mepredict" \/ p = "irmapbuild" \/ p = "cfgopt" \/ p = "analyzerc"
    BY <1>3 DEF Known, Name, Low, Early, Builders, Lacking, Opting, Emitting, Analyses
  <2> QED
    BY <2>2, <2>3, <2>4, <2>5, <2>6, <2>7, <2>8, <2>9
<1> QED
  BY <1>1, <1>2, <1>3
-----------------------------------------------------------------------------
(* The invariant. *)

Pool == {"live", "deleted", "deleted twice"}
FnType ==
  [hasBBs : BOOLEAN, cfg : Nat, irMap : Nat, meSSATab : Nat, versMp : Pool, code : Pool]
Steps == UNION {Allowed(p) : p \in Known}
FrameType == [phase : Known, todo : Seq(Steps), held : [Analyses -> Nat]]

\* Types of the variables.
Typed ==
  /\ opt \in Options /\ funcs \in 0 .. MaxFuncs /\ pass \in 0 .. 2 /\ it \in 1 .. LastPhase + 1
  /\ phaseName \in Name \cup NoPhase /\ phaseName \in ToSet(PhaseSeq) \cup NoPhase
  /\ prevPhaseName \in ToSet(PhaseSeq) \cup NoPhase
  /\ changecfgphase \in ToSet(PhaseSeq) \cup NoPhase
  /\ isCFGChanged \subseteq ToSet(PhaseSeq)
  /\ stack \in Seq(FrameType) /\ (pass = 0 => stack = <<>>)
  /\ made \in Nat /\ cache \in [Analyses -> 0 .. made]
  /\ fn \in FnType /\ domCfg \in 0 .. fn.cfg /\ fn.irMap <= made /\ fn.meSSATab <= made

\* The dominance that is cached is of a former graph.
Stale == cache["dominance"] # 0 /\ domCfg # fn.cfg

\* The runs in progress.
StackedIn(s, cached, hasBBs) ==
  /\ \A i \in 1 .. Len(s) : Good(s[i].phase, s[i].todo) /\ (~hasBBs => s[i].todo = <<>>)
  /\ \A i \in 2 .. Len(s) :
       /\ s[i].phase \in Analyses /\ cached[s[i].phase] = 0
       /\ s[i - 1].todo # <<>> /\ Head(s[i - 1].todo) = Get(s[i].phase)
  /\ \A i, j \in 1 .. Len(s) : i < j => Level(s[j].phase) < Level(s[i].phase)
  /\ \A i \in 2 .. Len(s) :
       /\ s[i].phase \in Mapping \cup Predicting => Ahead(Builds, s[1].todo)
       /\ s[1].phase \in Early => s[i].phase \in Dominating
Stacked == StackedIn(stack, cache, fn.hasBBs)

\* What a run relies on: a graph that is the one of the cached dominance, an IRMap, the
\* results it holds.
FrameOK(f, stale, irMap, hasBBs, cached) ==
  /\ Needs(Fresh, Clears, f.todo) => ~stale
  /\ Needs(UsesIR, Builds, f.todo) => irMap # 0
  /\ f.phase \in Builders \cup Predicting /\ hasBBs => Ahead(Builds, f.todo) \/ irMap # 0
  /\ f.phase \in Emitting \cup Opting => f.held["dominance"] = 0 /\ f.held["identloops"] = 0
  /\ \A a \in Analyses : f.held[a] \in {0, cached[a]}
  /\ f.held["dominance"] # 0 => ~stale
Relied == \A i \in 1 .. Len(stack) : FrameOK(stack[i], Stale, fn.irMap, fn.hasBBs, cache)

\* The phase the manager runs.
Running ==
  stack # <<>> =>
    /\ pass > 0 /\ it \in 1 .. LastPhase /\ phaseName = PhaseSeq[it] /\ stack[1].phase = phaseName
    /\ phaseName \in Early => fn.meSSATab = 0
    /\ phaseName \in Low => fn.irMap = 0
    /\ \A p \in isCFGChanged : p \in Opting /\ p = phaseName

\* It clears a dominance that is none of the graph any more, or makes the manager start over.
Clearing ==
  stack # <<>> /\ phaseName \notin Emitting /\ Stale =>
    Ahead(Clears, stack[1].todo) \/ Ahead(Flagging, stack[1].todo) \/ phaseName \in isCFGChanged

\* emit leaves the function with its code.
Emission ==
  stack # <<>> /\ phaseName \in Emitting =>
    /\ Ahead(Writes, stack[1].todo) \/ (fn.code = "live" /\ ~Ahead(Builds, stack[1].todo))
    /\ Ahead(Keeps, stack[1].todo) =>
         ~Ahead(Builds, stack[1].todo) /\ fn.irMap = 0 /\ fn.code = "live"

\* So does cfgopt before the manager starts over, which it does once.
Optimizing ==
  stack # <<>> /\ phaseName \in Opting =>
    /\ pass = 1
    /\ Ahead(Layout, stack[1].todo) => Ahead(Flagging, stack[1].todo) \/ phaseName \in isCFGChanged
    /\ phaseName \in isCFGChanged =>
         ~Ahead(Builds, stack[1].todo) /\ (Ahead(Writes, stack[1].todo) \/ fn.code = "live")

\* The manager between two phases.
Between ==
  stack = <<>> =>
    /\ isCFGChanged = {}
    /\ pass > 0 /\ it > LastPhase => fn.code = "live"
    /\ pass > 0 /\ it <= LastPhase =>
         /\ ~Stale /\ phaseName \notin Emitting
         /\ PhaseSeq[it] \in Early => fn.meSSATab = 0
         /\ PhaseSeq[it] \in Low => fn.irMap = 0
         /\ fn.irMap # 0 => phaseName \in kHssaPhases
    /\ pass = 0 => fn.code = "live" /\ cache = None

\* The results the function points to are those of the cache.
Pointers ==
  /\ pass > 0 => fn.irMap = cache["irmapbuild"] /\ fn.meSSATab = cache["ssatab"]
  /\ pass > 0 /\ cache["mepredict"] # 0 => fn.irMap # 0
  /\ ~fn.hasBBs => cache = None

\* irmapbuild has still to delete the code.
Undeleted ==
  \A i \in 1 .. Len(stack) : stack[i].phase \in Mapping => Ahead(Frees, stack[i].todo)

\* The code and the versions are there until irmapbuild deletes them.
Pools ==
  /\ pass > 0 /\ cache["irmapbuild"] = 0 /\ Undeleted => fn.versMp = "live" /\ fn.code = "live"
  /\ fn.versMp # "deleted twice" /\ fn.code # "deleted twice"

\* The IRMap is there when one of the phases that make it is done.
Mapped ==
  pass > 0 /\ fn.hasBBs /\ it < LastPhase /\ (\E j \in 1 .. it - 1 : PhaseSeq[j] \in Builders)
    => fn.irMap # 0

\* The loops over the phases.
Loops ==
  /\ pass = 2 => changecfgphase \in Opting /\ changecfgphase # opt.skipFrom
  /\ pass = 1 => changecfgphase \in NoPhase
  /\ pass > 0 => \A r \in ran : r[1] <= pass /\ r = <<r[1], r[2]>> /\ r[1] \in Nat
  /\ pass > 0 => \A r \in ran : r[1] = pass =>
       \E j \in 1 .. it : r[2] = PhaseSeq[j] /\ (stack = <<>> => j < it)
  /\ pass > 0 /\ <<pass, opt.skipAfter>> \in ran /\ it < LastPhase =>
       stack # <<>> /\ phaseName = opt.skipAfter
  /\ pass > 0 /\ it < LastPhase =>
       \A i \in 1 .. it : PhaseSeq[i] = opt.skipFrom => i = it /\ stack = <<>>

IInv ==
  /\ Typed /\ Stacked /\ Relied /\ Running /\ Clearing /\ Emission /\ Optimizing /\ Between
  /\ Pointers /\ Pools /\ Mapped /\ Loops

\* The fields of the function after each of its changes.
LEMMA FnFields ==
  ASSUME NEW f \in FnType, NEW x, NEW y
  PROVE  /\ LET g == [f EXCEPT !.irMap = x, !.meSSATab = y]
            IN  /\ g.hasBBs = f.hasBBs /\ g.cfg = f.cfg /\ g.irMap = x /\ g.meSSATab = y
                /\ g.versMp = f.versMp /\ g.code = f.code
                /\ x \in Nat /\ y \in Nat => g \in FnType
         /\ LET g == [f EXCEPT !.code = x, !.versMp = y]
            IN  /\ g.hasBBs = f.hasBBs /\ g.cfg = f.cfg /\ g.irMap = f.irMap
                /\ g.meSSATab = f.meSSATab /\ g.versMp = y /\ g.code = x
                /\ x \in Pool /\ y \in Pool => g \in FnType
         /\ LET g == [f EXCEPT !.code = x]
            IN  /\ g.hasBBs = f.hasBBs /\ g.cfg = f.cfg /\ g.irMap = f.irMap
                /\ g.meSSATab = f.meSSATab /\ g.versMp = f.versMp /\ g.code = x
                /\ x \in Pool => g \in FnType
         /\ LET g == [f EXCEPT !.cfg = x]
            IN  /\ g.hasBBs = f.hasBBs /\ g.cfg = x /\ g.irMap = f.irMap
                /\ g.meSSATab = f.meSSATab /\ g.versMp = f.versMp /\ g.code = f.code
                /\ x \in Nat => g \in FnType
<1>1. LET g == [f EXCEPT !.irMap = x, !.meSSATab = y]
      IN  /\ g.hasBBs = f.hasBBs /\ g.cfg = f.cfg /\ g.irMap = x /\ g.meSSATab = y
          /\ g.versMp = f.versMp /\ g.code = f.code
          /\ x \in Nat /\ y \in Nat => g \in FnType
  BY DEF FnType
<1>2. LET g == [f EXCEPT !.code = x, !.versMp = y]
      IN  /\ g.hasBBs = f.hasBBs /\ g.cfg = f.cfg /\ g.irMap = f.irMap
          /\ g.meSSATab = f.meSSATab /\ g.versMp = y /\ g.code = x
          /\ x \in Pool /\ y \in Pool => g \in FnType
  BY DEF FnType
<1>3. LET g == [f EXCEPT !.code = x]
      IN  /\ g.hasBBs = f.hasBBs /\ g.cfg = f.cfg /\ g.irMap = f.irMap
          /\ g.meSSATab = f.meSSATab /\ g.versMp = f.versMp /\ g.code = x
          /\ x \in Pool => g \in FnType
  BY DEF FnType
<1>4. LET g == [f EXCEPT !.cfg = x]
      IN  /\ g.hasBBs = f.hasBBs /\ g.cfg = x /\ g.irMap = f.irMap
          /\ g.meSSATab = f.meSSATab /\ g.versMp = f.versMp /\ g.code = f.code
          /\ x \in Nat => g \in FnType
  BY DEF FnType
<1> QED
  BY <1>1, <1>2, <1>3, <1>4

\* The fields of a new function and of a frame.
LEMMA NewFields ==
  /\ \A b \in BOOLEAN :
       LET g == NewMeFunction(b)
       IN  /\ g \in FnType /\ g.hasBBs = b /\ g.cfg = 0 /\ g.irMap = 0 /\ g.meSSATab = 0
           /\ g.versMp = "live" /\ g.code = "live"
  /\ \A f \in FrameType : \A got \in [Analyses -> Nat] :
       f.todo # <<>> =>
         LET g == Done(f, got)
         IN  g \in FrameType /\ g.phase = f.phase /\ g.todo = Tail(f.todo) /\ g.held = got
<1>1. ASSUME NEW b \in BOOLEAN
      PROVE  LET g == NewMeFunction(b)
             IN  /\ g \in FnType /\ g.hasBBs = b /\ g.cfg = 0 /\ g.irMap = 0 /\ g.meSSATab = 0
                 /\ g.versMp = "live" /\ g.code = "live"
  BY DEF NewMeFunction, FnType, Pool
<1>2. ASSUME NEW f \in FrameType, NEW got \in [Analyses -> Nat], f.todo # <<>>
      PROVE  LET g == Done(f, got)
             IN  g \in FrameType /\ g.phase = f.phase /\ g.todo = Tail(f.todo) /\ g.held = got
  <2>1. f.todo \in Seq(Steps)
    BY DEF FrameType
  <2>2. Tail(f.todo) \in Seq(Steps)
    BY <1>2, <2>1, HeadTailProperties
  <2> QED
    BY <2>2 DEF Done, FrameType
<1> QED
  BY <1>1, <1>2
-----------------------------------------------------------------------------
(* Changes of the stack. *)

\* A sequence without its last element.
LEMMA Dropped ==
  ASSUME NEW A, NEW s \in Seq(A), s # <<>>
  PROVE  /\ Len(s) \in Nat /\ Len(s) > 0 /\ Last(s) = s[Len(s)]
         /\ Front(s) \in Seq(A) /\ Len(Front(s)) = Len(s) - 1
         /\ \A i \in 1 .. Len(s) - 1 : Front(s)[i] = s[i]
<1> DEFINE n == Len(s)
<1>1. n \in Nat /\ n > 0
  BY LenProperties, EmptySeq
<1>2. \A i \in 1 .. n - 1 : s[i] \in A
  BY <1>1, ElementOfSeq
<1>3. /\ SubSeq(s, 1, n - 1) \in Seq(A)
      /\ Len(SubSeq(s, 1, n - 1)) = IF 1 <= n - 1 THEN n - 1 - 1 + 1 ELSE 0
      /\ \A i \in 1 .. n - 1 - 1 + 1 : SubSeq(s, 1, n - 1)[i] = s[1 + i - 1]
  <2> HIDE DEF n
  <2>1. 1 \in Int /\ n - 1 \in Int
    BY <1>1
  <2> QED
    BY <1>2, <2>1, SubSeqProperties
<1>4. Len(SubSeq(s, 1, n - 1)) = n - 1 /\ \A i \in 1 .. n - 1 : SubSeq(s, 1, n - 1)[i] = s[i]
  <2> HIDE DEF n
  <2>1. n - 1 - 1 + 1 = n - 1 /\ (1 <= n - 1 \/ n - 1 = 0) /\ \A i \in 1 .. n - 1 : 1 + i - 1 = i
    BY <1>1
  <2> QED
    BY <1>3, <2>1
<1> QED
  BY <1>1, <1>3, <1>4 DEF Front, Last

\* A frame on top of the others.
LEMMA Pushed ==
  ASSUME NEW s \in Seq(FrameType), NEW f \in FrameType, NEW t, t = Append(s, f)
  PROVE  /\ t \in Seq(FrameType) /\ Len(s) \in Nat /\ Len(t) = Len(s) + 1 /\ t # <<>>
         /\ \A i \in 1 .. Len(s) : t[i] = s[i]
         /\ t[Len(s) + 1] = f
<1>1. /\ t \in Seq(FrameType) /\ Len(t) = Len(s) + 1 /\ Len(s) \in Nat
      /\ \A i \in 1 .. Len(s) : t[i] = s[i]
      /\ t[Len(s) + 1] = f
  BY AppendProperties, LenProperties
<1>2. t # <<>>
  BY <1>1, EmptySeq
<1> QED
  BY <1>1, <1>2

\* The stack t is s without what is above its frame m, which has taken a step and holds got.
Advance(s, m, got, t) ==
  /\ s \in Seq(FrameType) /\ t \in Seq(FrameType) /\ m \in 1 .. Len(s) /\ Len(t) = m
  /\ \A i \in 1 .. m - 1 : t[i] = s[i]
  /\ s[m].todo # <<>> /\ got \in [Analyses -> Nat]
  /\ t[m].phase = s[m].phase /\ t[m].todo = Tail(s[m].todo) /\ t[m].held = got

\* The innermost frame takes a step.
LEMMA AdvanceTop ==
  ASSUME NEW s \in Seq(FrameType), s # <<>>, Last(s).todo # <<>>,
         NEW got \in [Analyses -> Nat], NEW t, t = Append(Front(s), Done(Last(s), got))
  PROVE  Advance(s, Len(s), got, t)
<1> DEFINE n == Len(s)
           f == Done(Last(s), got)
           r == Front(s)
<1>1. /\ n \in Nat /\ n > 0 /\ Last(s) = s[n] /\ r \in Seq(FrameType) /\ Len(r) = n - 1
      /\ \A i \in 1 .. n - 1 : r[i] = s[i]
  BY Dropped
<1>2. s[n] \in FrameType
  BY <1>1, ElementOfSeq
<1>3. f \in FrameType /\ f.phase = s[n].phase /\ f.todo = Tail(s[n].todo) /\ f.held = got
  BY <1>1, <1>2, NewFields
<1>4. t = Append(r, f) /\ Len(s) = n
  OBVIOUS
<1> HIDE DEF n, f, r
<1>5. /\ t \in Seq(FrameType) /\ Len(t) = Len(r) + 1
      /\ \A i \in 1 .. Len(r) : t[i] = r[i]
      /\ t[Len(r) + 1] = f
  <2>1. r \in Seq(FrameType) /\ f \in FrameType /\ t = Append(r, f)
    BY <1>1, <1>3, <1>4
  <2> QED
    BY <2>1, Pushed
<1>6. n - 1 + 1 = n /\ n \in 1 .. n
  BY <1>1
<1>7. Len(t) = n /\ t[n] = f /\ \A i \in 1 .. n - 1 : t[i] = s[i]
  BY <1>1, <1>5, <1>6
<1>8. s[n].todo # <<>>
  BY <1>1
<1> QED
  BY <1>1, <1>3, <1>4, <1>5, <1>6, <1>7, <1>8 DEF Advance

\* The innermost frame is left and its caller takes a step.
LEMMA AdvanceCaller ==
  ASSUME NEW s \in Seq(FrameType), Len(s) > 1, s[Len(s) - 1].todo # <<>>,
         NEW got \in [Analyses -> Nat], NEW t,
         t = Append(Front(Front(s)), Done(s[Len(s) - 1], got))
  PROVE  Advance(s, Len(s) - 1, got, t)
<1> DEFINE n == Len(s)
           r == Front(s)
<1>1. n \in Nat /\ n > 1 /\ s # <<>>
  BY LenProperties, EmptySeq
<1>2. r \in Seq(FrameType) /\ Len(r) = n - 1 /\ \A i \in 1 .. n - 1 : r[i] = s[i]
  BY <1>1, Dropped
<1>3. s[n - 1].todo # <<>> /\ t = Append(Front(r), Done(s[n - 1], got)) /\ Len(s) = n
  OBVIOUS
<1> HIDE DEF n, r
<1>4. n - 1 \in 1 .. n - 1 /\ n - 1 \in 1 .. n /\ n - 1 > 0 /\ n - 1 - 1 < n - 1
      /\ \A i \in 1 .. n - 1 - 1 : i \in 1 .. n - 1
  BY <1>1
<1>5. r # <<>> /\ Last(r) = s[n - 1]
  <2>1. r # <<>>
    BY <1>2, <1>4, EmptySeq
  <2> QED
    BY <1>2, <1>4, <2>1, Dropped
<1>6. Advance(r, n - 1, got, t)
  BY <1>2, <1>3, <1>5, AdvanceTop
<1>7. r[n - 1] = s[n - 1] /\ \A i \in 1 .. n - 1 - 1 : r[i] = s[i]
  BY <1>2, <1>4
<1>8. Advance(s, n - 1, got, t)
  BY <1>3, <1>4, <1>6, <1>7 DEF Advance
<1> QED
  BY <1>8 DEF n

\* The runs in progress after a step of one.
LEMMA StackedAdvance ==
  ASSUME NEW s, NEW c, NEW b \in BOOLEAN, NEW m, NEW got, NEW t, NEW d,
         StackedIn(s, c, b), Advance(s, m, got, t), \A i \in 2 .. m : d[s[i].phase] = 0
  PROVE  StackedIn(t, d, b)
<1>1. /\ m \in Nat /\ m > 0 /\ Len(t) = m /\ m <= Len(s) /\ Len(s) \in Nat
      /\ 1 \in 1 .. m /\ m \in 1 .. m /\ m \in 1 .. Len(s)
      /\ \A i \in 1 .. m : i \in 1 .. Len(s) /\ (i = m \/ i \in 1 .. m - 1)
      /\ \A i \in 2 .. m : i \in 1 .. m /\ i - 1 \in 1 .. m - 1 /\ i \in 2 .. Len(s) /\ 1 \in 1 .. m - 1
  <2>1. m \in 1 .. Len(s) /\ Len(t) = m /\ Len(s) \in Nat
    BY LenProperties DEF Advance
  <2> QED
    BY <2>1
<1>2. \A i \in 1 .. m - 1 : t[i] = s[i]
  BY DEF Advance
<1>3. \A i \in 1 .. m : t[i].phase = s[i].phase
  BY <1>1 DEF Advance
<1>4. \A i \in 1 .. Len(t) : Good(t[i].phase, t[i].todo) /\ (~b => t[i].todo = <<>>)
  <2>1. ASSUME NEW i \in 1 .. m - 1 PROVE Good(t[i].phase, t[i].todo) /\ (~b => t[i].todo = <<>>)
    <3>1. i \in 1 .. Len(s)
      BY <1>1
    <3> QED
      BY <1>2, <3>1 DEF StackedIn
  <2>2. Good(t[m].phase, t[m].todo) /\ b
    <3>1. Good(s[m].phase, s[m].todo) /\ (~b => s[m].todo = <<>>)
      BY <1>1 DEF StackedIn
    <3>2. s[m].todo # <<>> /\ t[m].phase = s[m].phase /\ t[m].todo = Tail(s[m].todo)
      BY DEF Advance
    <3> QED
      BY <3>1, <3>2, GoodTail
  <2> QED
    BY <1>1, <2>1, <2>2
<1>5. \A i \in 2 .. Len(t) :
        /\ t[i].phase \in Analyses /\ d[t[i].phase] = 0
        /\ t[i - 1].todo # <<>> /\ Head(t[i - 1].todo) = Get(t[i].phase)
  <2>1. \A i \in 2 .. m : s[i].phase \in Analyses /\ s[i - 1].todo # <<>>
                          /\ Head(s[i - 1].todo) = Get(s[i].phase)
    BY <1>1 DEF StackedIn
  <2>2. \A i \in 2 .. m : t[i].phase = s[i].phase /\ t[i - 1] = s[i - 1]
    BY <1>1, <1>2, <1>3
  <2> QED
    BY <1>1, <2>1, <2>2
<1>6. \A i, j \in 1 .. Len(t) : i < j => Level(t[j].phase) < Level(t[i].phase)
  BY <1>1, <1>3 DEF StackedIn
<1>7. \A i \in 2 .. Len(t) :
        /\ t[i].phase \in Mapping \cup Predicting => Ahead(Builds, t[1].todo)
        /\ t[1].phase \in Early => t[i].phase \in Dominating
  <2>1. \A i \in 2 .. m :
          /\ s[i].phase \in Mapping \cup Predicting => Ahead(Builds, s[1].todo)
          /\ s[1].phase \in Early => s[i].phase \in Dominating
    BY <1>1 DEF StackedIn
  <2>2. \A i \in 2 .. m : t[i].phase = s[i].phase /\ t[1] = s[1]
    BY <1>1, <1>2, <1>3
  <2> QED
    BY <1>1, <2>1, <2>2
<1> QED
  BY <1>4, <1>5, <1>6, <1>7 DEF StackedIn

\* What a frame relies on is still so when another one takes a step.
LEMMA FrameKept ==
  ASSUME NEW f, NEW stale \in BOOLEAN, NEW ir, NEW b \in BOOLEAN, NEW c, NEW stale2 \in BOOLEAN,
         NEW ir2, NEW c2, FrameOK(f, stale, ir, b, c),
         stale2 => stale \/ (~Needs(Fresh, Clears, f.todo) /\ f.held["dominance"] = 0),
         ir # 0 => ir2 # 0,
         \A a \in Analyses : c2[a] = c[a] \/ f.held[a] = 0
  PROVE  FrameOK(f, stale2, ir2, b, c2)
BY DEF FrameOK
-----------------------------------------------------------------------------
(* The runs in progress. *)

\* The kinds of phases are apart.
LEMMA Apart ==
  /\ (Emitting \cup Opting) \cap Analyses = {} /\ Early \cap Analyses = {}
  /\ Name \cap (Laying \cup Predicting \cup Mapping \cup Delegating \cup Dominating) = {}
  /\ (Emitting \cup Opting) \cap (Low \cup Builders \cup Lacking) = {} /\ Emitting \cap Opting = {}
  /\ Laying \cap (Emitting \cup Opting \cup Predicting \cup Mapping \cup Dominating) = {}
  /\ Predicting \cap (Emitting \cup Opting \cup Mapping \cup Dominating) = {}
  /\ Mapping \cap (Emitting \cup Opting \cup Dominating) = {}
  /\ Early \subseteq Low /\ (Emitting \cup Opting) \subseteq Name
  /\ Laying \cup Predicting \cup Mapping \cup Dominating \cup Looping \subseteq Analyses
  /\ (Dominating \cup Looping) \cap (Laying \cup Predicting \cup Mapping) = {}
<1>1. (Emitting \cup Opting) \cap Analyses = {} /\ Early \cap Analyses = {}
  BY DEF Emitting, Opting, Early, Analyses
<1>2. Name \cap (Laying \cup Predicting \cup Mapping \cup Delegating \cup Dominating) = {}
  BY DEF Name, Low, Early, Builders, Lacking, Opting, Emitting, Laying, Predicting, Mapping,
         Delegating, Dominating
<1>3. (Emitting \cup Opting) \cap (Low \cup Builders \cup Lacking) = {} /\ Emitting \cap Opting = {}
  BY DEF Low, Early, Builders, Lacking, Opting, Emitting
<1>4. Laying \cap (Emitting \cup Opting \cup Predicting \cup Mapping \cup Dominating) = {}
  BY DEF Opting, Emitting, Laying, Predicting, Mapping, Dominating
<1>5. Predicting \cap (Emitting \cup Opting \cup Mapping \cup Dominating) = {}
  BY DEF Opting, Emitting, Predicting, Mapping, Dominating
<1>6. Mapping \cap (Emitting \cup Opting \cup Dominating) = {}
  BY DEF Opting, Emitting, Mapping, Dominating
<1>7. Early \subseteq Low /\ (Emitting \cup Opting) \subseteq Name
  BY DEF Low, Name
<1>8. Laying \cup Predicting \cup Mapping \cup Dominating \cup Looping \subseteq Analyses
  BY DEF Analyses, Laying, Predicting, Mapping, Dominating, Looping
<1>9. (Dominating \cup Looping) \cap (Laying \cup Predicting \cup Mapping) = {}
  BY DEF Laying, Predicting, Mapping, Dominating, Looping
<1> QED
  BY <1>1, <1>2, <1>3, <1>4, <1>5, <1>6, <1>7, <1>8, <1>9

\* The sequence of phases and the frames of the stack.
LEMMA AtWork ==
  ASSUME Typed, Stacked, Running, stack # <<>>
  PROVE  /\ Len(stack) \in Nat /\ Len(stack) > 0 /\ 1 \in 1 .. Len(stack)
         /\ \A i \in 1 .. Len(stack) : i >= 1 /\ (i = 1 \/ i \in 2 .. Len(stack))
         /\ stack[1].phase = phaseName /\ phaseName \in Name
         /\ \A i \in 1 .. Len(stack) :
              /\ stack[i] \in FrameType /\ stack[i].phase \in Known
              /\ Good(stack[i].phase, stack[i].todo)
              /\ stack[i].todo \in Seq(Allowed(stack[i].phase))
              /\ stack[i].todo # <<>> => fn.hasBBs
         /\ \A i \in 2 .. Len(stack) :
              /\ i - 1 \in 1 .. Len(stack)
              /\ stack[i].phase \in Analyses /\ cache[stack[i].phase] = 0
              /\ stack[i - 1].todo # <<>> /\ Head(stack[i - 1].todo) = Get(stack[i].phase)
              /\ Get(stack[i].phase) \in Allowed(stack[i - 1].phase)
<1>1. Len(stack) \in Nat /\ Len(stack) > 0
  BY EmptySeq DEF Typed
<1>2. stack[1].phase = phaseName /\ phaseName \in Name
  <2>1. stack[1].phase = phaseName /\ phaseName = PhaseSeq[it] /\ it \in 1 .. LastPhase
    BY DEF Running
  <2>2. PhaseSeq \in Seq(Name) /\ LastPhase = Len(PhaseSeq)
    BY SequenceOrdered DEF Typed, Ordered, LastPhase
  <2>3. PhaseSeq[it] \in Name
    BY <2>1, <2>2, ElementOfSeq
  <2> QED
    BY <2>1, <2>3
<1>3. \A i \in 1 .. Len(stack) :
        /\ Good(stack[i].phase, stack[i].todo)
        /\ stack[i].todo # <<>> => fn.hasBBs
  BY DEF Stacked, StackedIn
<1>4. \A i \in 1 .. Len(stack) : stack[i] \in FrameType
  BY ElementOfSeq DEF Typed
<1>5. \A i \in 1 .. Len(stack) : stack[i].phase \in Known
  BY <1>4 DEF FrameType
<1>6. \A i \in 1 .. Len(stack) : stack[i].todo \in Seq(Allowed(stack[i].phase))
  BY <1>3 DEF Good
<1>7. \A i \in 2 .. Len(stack) :
        /\ stack[i].phase \in Analyses /\ cache[stack[i].phase] = 0
        /\ stack[i - 1].todo # <<>> /\ Head(stack[i - 1].todo) = Get(stack[i].phase)
  BY DEF Stacked, StackedIn
<1>8. \A i \in 2 .. Len(stack) : i - 1 \in 1 .. Len(stack)
  BY <1>1
<1>9. \A i \in 1 .. Len(stack) : i >= 1 /\ (i = 1 \/ i \in 2 .. Len(stack))
  BY <1>1
<1>10. \A i \in 2 .. Len(stack) : Get(stack[i].phase) \in Allowed(stack[i - 1].phase)
  BY <1>6, <1>7, <1>8, HeadTailProperties
<1> QED
  BY <1>1, <1>2, <1>3, <1>4, <1>5, <1>6, <1>7, <1>8, <1>9, <1>10

\* Where in the stack a phase is, and who called it.
LEMMA Callers ==
  ASSUME Typed, Stacked, Running, stack # <<>>, NEW i \in 1 .. Len(stack)
  PROVE  /\ stack[i].phase \notin Analyses => i = 1
         /\ i # 1 => stack[i].phase \in Analyses
         /\ stack[i].phase \in Laying =>
              i = 2 /\ phaseName \in Emitting \cup Opting /\ Head(stack[1].todo) \in Layout
         /\ stack[i].phase \in Predicting => i = 2 /\ phaseName \in Emitting
         /\ stack[i].phase \in Mapping => i # 1
         /\ stack[i].phase \in Mapping \cup Predicting => Ahead(Builds, stack[1].todo)
         /\ i # 1 /\ phaseName \in Early => stack[i].phase \in Dominating
<1>1. i = 1 \/ i \in 2 .. Len(stack)
  BY AtWork
<1>2. stack[i].phase \notin Analyses => i = 1
  BY <1>1, AtWork
<1>3. stack[i].phase \in Laying \cup Predicting \cup Mapping \cup Delegating => i # 1
  BY AtWork, Apart
<1>4. ASSUME i \in 2 .. Len(stack)
      PROVE  /\ stack[i].phase \in Laying => stack[i - 1].phase \in Emitting \cup Opting
             /\ stack[i].phase \in Predicting => stack[i - 1].phase \in Emitting
  <2> DEFINE x == Get(stack[i].phase)
             p == stack[i - 1].phase
  <2>1. x \in Allowed(p) /\ p \in Known
    BY <1>4, AtWork
  <2>2. x.do = "get" /\ x.a = stack[i].phase
    BY Doing
  <2> QED
    BY <2>1, <2>2, AllowedFacts
<1>5. stack[i].phase \in Laying =>
        i = 2 /\ phaseName \in Emitting \cup Opting /\ Head(stack[1].todo) \in Layout
  <2>1. SUFFICES ASSUME stack[i].phase \in Laying
                 PROVE  i = 2 /\ phaseName \in Emitting \cup Opting /\ Head(stack[1].todo) \in Layout
    OBVIOUS
  <2>2. i \in 2 .. Len(stack) /\ i - 1 \in 1 .. Len(stack)
    BY <1>1, <1>3, <2>1, AtWork
  <2>3. stack[i - 1].phase \in Emitting \cup Opting
    BY <1>4, <2>1, <2>2
  <2>4. i - 1 = 1
    BY <2>2, <2>3, AtWork, Apart
  <2>5. i = 2
    BY <2>2, <2>4
  <2>6. Head(stack[1].todo) = Get(stack[i].phase)
    BY <2>2, <2>4, AtWork
  <2>7. stack[i].phase = "bblayout"
    BY <2>1 DEF Laying
  <2> QED
    BY <2>3, <2>4, <2>5, <2>6, <2>7, AtWork DEF Layout
<1>6. stack[i].phase \in Predicting => i = 2 /\ phaseName \in Emitting
  <2>1. SUFFICES ASSUME stack[i].phase \in Predicting
                 PROVE  i = 2 /\ phaseName \in Emitting
    OBVIOUS
  <2>2. i \in 2 .. Len(stack) /\ i - 1 \in 1 .. Len(stack)
    BY <1>1, <1>3, <2>1, AtWork
  <2>3. stack[i - 1].phase \in Emitting
    BY <1>4, <2>1, <2>2
  <2>4. i - 1 = 1
    BY <2>2, <2>3, AtWork, Apart
  <2>5. i = 2
    BY <2>2, <2>4
  <2> QED
    BY <2>3, <2>4, <2>5, AtWork
<1>7. /\ stack[i].phase \in Mapping \cup Predicting => Ahead(Builds, stack[1].todo)
      /\ i # 1 /\ phaseName \in Early => stack[i].phase \in Dominating
  <2>1. i \in 2 .. Len(stack) =>
          /\ stack[i].phase \in Mapping \cup Predicting => Ahead(Builds, stack[1].todo)
          /\ stack[1].phase \in Early => stack[i].phase \in Dominating
    BY DEF Stacked, StackedIn
  <2> QED
    BY <1>1, <1>3, <2>1, AtWork
<1> QED
  BY <1>1, <1>2, <1>3, <1>5, <1>6, <1>7, AtWork

\* Who has a step to make the IRMap before it.
LEMMA Asking ==
  ASSUME NEW p \in Known, NEW t, Good(p, t), Ahead(Builds, t)
  PROVE  p \notin Low
<1>1. PICK k \in 1 .. Len(t) : t[k] \in Builds
  BY DEF Ahead
<1>2. t[k] \in Allowed(p)
  BY <1>1, ElementOfSeq DEF Good
<1>3. t[k].do = "get"
  BY <1>1, Doing
<1>4. t[k].a \in Mapping \cup Predicting
  BY <1>1, Doing DEF Builds, Mapping, Predicting
<1>5. p \notin Low \/ p \in Emitting
  BY <1>2, <1>3, <1>4, AllowedFacts
<1> QED
  BY <1>5, Apart

\* Which step the innermost run takes.
LEMMA Stepping ==
  ASSUME Typed, Stacked, Running, NEW d, Ready(d)
  PROVE  LET n == Len(stack)
             h == Head(stack[n].todo)
         IN  /\ stack # <<>> /\ n \in 1 .. Len(stack) /\ Frame = stack[n] /\ Frame.todo # <<>>
             /\ h \in Allowed(stack[n].phase) /\ h.do = d /\ Arg = h.a /\ fn.hasBBs
             /\ stack[n].phase \in Known
             /\ \A got \in [Analyses -> Nat] :
                  stack' = Append(Front(stack), Done(Frame, got)) => Advance(stack, n, got, stack')
<1> DEFINE n == Len(stack)
           h == Head(stack[n].todo)
<1>1. stack # <<>> /\ Frame.todo # <<>> /\ Head(Frame.todo).do = d
  BY DEF Ready
<1>2. n \in Nat /\ n > 0 /\ n \in 1 .. n
  BY <1>1, AtWork
<1>3. Frame = stack[n]
  BY DEF Frame, Last
<1>4. h \in Allowed(stack[n].phase) /\ fn.hasBBs /\ stack[n].phase \in Known
  <2>1. stack[n].todo \in Seq(Allowed(stack[n].phase)) /\ stack[n].todo # <<>> /\ fn.hasBBs
        /\ stack[n].phase \in Known
    BY <1>1, <1>2, <1>3, AtWork
  <2> QED
    BY <2>1, HeadTailProperties
<1>5. h.do = d /\ Arg = h.a
  BY <1>1, <1>3 DEF Arg
<1>6. ASSUME NEW got \in [Analyses -> Nat], stack' = Append(Front(stack), Done(Frame, got))
      PROVE  Advance(stack, n, got, stack')
  <2>1. stack \in Seq(FrameType) /\ Last(stack).todo # <<>>
    BY <1>1 DEF Typed, Frame
  <2>2. stack' = Append(Front(stack), Done(Last(stack), got))
    BY <1>6 DEF Frame
  <2> QED
    BY <1>1, <2>1, <2>2, AdvanceTop
<1> QED
  BY <1>1, <1>2, <1>3, <1>4, <1>5, <1>6

\* The sequence depends on the options only.
LEMMA SameSequence ==
  ASSUME opt' = opt
  PROVE  PhaseSeq' = PhaseSeq /\ LastPhase' = LastPhase
<1>1. \A p : ADDPHASE(p)' = ADDPHASE(p)
  BY DEF ADDPHASE
<1>2. PhaseSeq' = PhaseSeq
  BY <1>1 DEF PhaseSeq, ADDPHASE
<1> QED
  BY <1>2 DEF LastPhase

\* What the other frames and the frame m rely on is still so after a step of the frame m,
\* which then holds got.
Relying(m, got) ==
  LET h == Head(stack[m].todo)
  IN  /\ fn'.hasBBs = fn.hasBBs
      /\ \A i \in 2 .. m : cache'[stack[i].phase] = 0
      /\ fn.irMap # 0 => fn'.irMap # 0
      /\ h \in Builds => fn'.irMap # 0
      /\ h \in Clears => ~Stale'
      /\ Stale' => Stale \/ ~Ahead(Fresh, Tail(stack[m].todo))
      /\ \A i \in 1 .. m - 1 :
           /\ Stale' =>
                Stale \/ (~Needs(Fresh, Clears, stack[i].todo) /\ stack[i].held["dominance"] = 0)
           /\ \A a \in Analyses : cache'[a] = cache[a] \/ stack[i].held[a] = 0
      /\ stack[m].phase \in Emitting \cup Opting => got["dominance"] = 0 /\ got["identloops"] = 0
      /\ \A a \in Analyses : got[a] \in {0, cache'[a]}
      /\ got["dominance"] # 0 => ~Stale'

\* What the activations rely on survives a step of the one on top: results they hold are
\* still cached, and the one that waits for an analysis finds what it has asked for.
LEMMA ReliedAdvance ==
  ASSUME Typed, Stacked, Relied, Running, NEW m, NEW got, Advance(stack, m, got, stack'),
         Relying(m, got)
  PROVE  Stacked' /\ Relied'
<1>1. /\ m \in Nat /\ m > 0 /\ m \in 1 .. Len(stack) /\ Len(stack') = m /\ stack # <<>>
      /\ \A i \in 1 .. m : i \in 1 .. Len(stack) /\ (i = m \/ i \in 1 .. m - 1)
  <2>1. m \in 1 .. Len(stack) /\ Len(stack') = m /\ stack \in Seq(FrameType)
    BY DEF Advance
  <2>2. Len(stack) \in Nat
    BY <2>1, LenProperties
  <2>3. m \in Nat /\ m > 0 /\ \A i \in 1 .. m : i \in 1 .. Len(stack) /\ (i = m \/ i \in 1 .. m - 1)
    BY <2>1, <2>2
  <2>4. stack # <<>>
    BY <2>1, <2>2, <2>3, EmptySeq
  <2> QED
    BY <2>1, <2>3, <2>4
<1>2. fn.hasBBs \in BOOLEAN /\ fn'.hasBBs = fn.hasBBs
  BY DEF Typed, FnType, Relying
<1>3. Stale \in BOOLEAN /\ Stale' \in BOOLEAN
  BY DEF Stale
<1>4. Stacked'
  <2>1. \A i \in 2 .. m : cache'[stack[i].phase] = 0
    BY DEF Relying
  <2>2. StackedIn(stack', cache', fn.hasBBs)
    BY <1>2, <2>1, StackedAdvance DEF Stacked
  <2> QED
    BY <1>2, <2>2 DEF Stacked
<1>5. \A i \in 1 .. Len(stack) : FrameOK(stack[i], Stale, fn.irMap, fn.hasBBs, cache)
  BY DEF Relied
<1>6. ASSUME NEW i \in 1 .. m - 1
      PROVE  FrameOK(stack'[i], Stale', fn'.irMap, fn.hasBBs, cache')
  <2>1. stack'[i] = stack[i] /\ i \in 1 .. Len(stack)
    BY <1>1 DEF Advance
  <2>2. FrameOK(stack[i], Stale, fn.irMap, fn.hasBBs, cache)
    BY <1>5, <2>1
  <2>3. /\ Stale' => Stale \/ (~Needs(Fresh, Clears, stack[i].todo) /\ stack[i].held["dominance"] = 0)
        /\ \A a \in Analyses : cache'[a] = cache[a] \/ stack[i].held[a] = 0
        /\ fn.irMap # 0 => fn'.irMap # 0
    BY DEF Relying
  <2>4. FrameOK(stack[i], Stale', fn'.irMap, fn.hasBBs, cache')
    BY <1>2, <1>3, <2>2, <2>3, FrameKept
  <2> QED
    BY <2>1, <2>4
<1>7. FrameOK(stack'[m], Stale', fn'.irMap, fn.hasBBs, cache')
  <2> DEFINE f == stack[m]
             g == stack'[m]
  <2>1. f.todo # <<>> /\ g.phase = f.phase /\ g.todo = Tail(f.todo) /\ g.held = got
    BY DEF Advance
  <2>2. f.todo \in Seq(Allowed(f.phase))
    BY <1>1, AtWork
  <2>3. FrameOK(f, Stale, fn.irMap, fn.hasBBs, cache)
    BY <1>1, <1>5
  <2>4. /\ Head(f.todo) \in Clears => ~Stale'
        /\ Stale' => Stale \/ ~Ahead(Fresh, Tail(f.todo))
        /\ Head(f.todo) \in Builds => fn'.irMap # 0
        /\ fn.irMap # 0 => fn'.irMap # 0
    BY DEF Relying
  <2>5. /\ f.phase \in Emitting \cup Opting => g.held["dominance"] = 0 /\ g.held["identloops"] = 0
        /\ \A a \in Analyses : g.held[a] \in {0, cache'[a]}
        /\ g.held["dominance"] # 0 => ~Stale'
    BY <2>1 DEF Relying
  <2> DEFINE r == f.todo
  <2>6. r \in Seq(Allowed(f.phase)) /\ r # <<>> /\ g.todo = Tail(r) /\ g.phase = f.phase
    BY <2>1, <2>2
  <2>7. /\ Needs(Fresh, Clears, r) => ~Stale
        /\ Needs(UsesIR, Builds, r) => fn.irMap # 0
        /\ f.phase \in Builders \cup Predicting /\ fn.hasBBs => Ahead(Builds, r) \/ fn.irMap # 0
    BY <2>3 DEF FrameOK
  <2>8. /\ Head(r) \in Clears => ~Stale'
        /\ Stale' => Stale \/ ~Ahead(Fresh, Tail(r))
        /\ Head(r) \in Builds => fn'.irMap # 0
        /\ fn.irMap # 0 => fn'.irMap # 0
    BY <2>4
  <2> HIDE DEF f, g, r
  <2>9. /\ Ahead(Builds, r) => Head(r) \in Builds \/ Ahead(Builds, Tail(r))
        /\ Needs(Fresh, Clears, Tail(r)) => Head(r) \in Clears \/ Needs(Fresh, Clears, r)
        /\ Needs(Fresh, Clears, Tail(r)) => Ahead(Fresh, Tail(r))
        /\ Needs(UsesIR, Builds, Tail(r)) => Head(r) \in Builds \/ Needs(UsesIR, Builds, r)
    BY <2>6, TailPatterns
  <2>10. Needs(Fresh, Clears, g.todo) => ~Stale'
    BY <2>6, <2>7, <2>8, <2>9
  <2>11. Needs(UsesIR, Builds, g.todo) => fn'.irMap # 0
    BY <2>6, <2>7, <2>8, <2>9
  <2>12. g.phase \in Builders \cup Predicting /\ fn.hasBBs => Ahead(Builds, g.todo) \/ fn'.irMap # 0
    BY <2>6, <2>7, <2>8, <2>9
  <2>13. FrameOK(g, Stale', fn'.irMap, fn.hasBBs, cache')
    BY <2>5, <2>6, <2>10, <2>11, <2>12 DEF FrameOK
  <2> QED
    BY <2>13 DEF g
<1>8. \A i \in 1 .. Len(stack') : FrameOK(stack'[i], Stale', fn'.irMap, fn'.hasBBs, cache')
  BY <1>1, <1>2, <1>6, <1>7
<1> QED
  BY <1>4, <1>8 DEF Relied

\* The phase the manager runs is still on the way to leave the function as it should.
Keeping(m) ==
  LET h == Head(stack[m].todo)
  IN  /\ UNCHANGED mgrVars
      /\ phaseName \in Early => fn'.meSSATab = 0
      /\ phaseName \in Low => fn'.irMap = 0
      /\ fn'.hasBBs = fn.hasBBs /\ (fn.irMap # 0 => fn'.irMap # 0)
      /\ fn'.irMap = fn.irMap \/ Ahead(Builds, stack[1].todo)
      /\ isCFGChanged \subseteq isCFGChanged'
      /\ \A p \in isCFGChanged' :
           p \in isCFGChanged \/ (m = 1 /\ h \in Flagging /\ p \in Opting /\ p = phaseName)
      /\ m = 1 /\ h \in Flagging => phaseName \in isCFGChanged'
      /\ h \in Clears => ~Stale'
      /\ Stale' => \/ Stale \/ phaseName \in Emitting \/ phaseName \in isCFGChanged'
                   \/ Ahead(Clears, stack'[1].todo) \/ Ahead(Flagging, stack'[1].todo)
      /\ \/ fn'.code = fn.code \/ fn'.code = "live"
         \/ m # 1 /\ Ahead(Builds, stack[1].todo)
      /\ h \in Writes => fn'.code = "live"

\* What the running phase owes the next one survives a step of the activation on top: the
\* graph and the results, the code and its map, and the flag of the changed graph.
LEMMA RunningAdvance ==
  ASSUME Typed, Stacked, Running, Clearing, Emission, Optimizing, Mapped, Loops,
         NEW m, NEW got, Advance(stack, m, got, stack'), Keeping(m)
  PROVE  /\ stack' # <<>>
         /\ Running' /\ Clearing' /\ Emission' /\ Optimizing' /\ Between' /\ Mapped' /\ Loops'
<1> DEFINE t == stack[1].todo
           u == stack'[1].todo
           h == Head(t)
           p == phaseName
<1>1. m \in 1 .. Len(stack) /\ Len(stack') = m /\ stack \in Seq(FrameType) /\ stack' \in Seq(FrameType)
  BY DEF Advance
<1>2. m \in Nat /\ m > 0 /\ (m = 1 \/ 1 \in 1 .. m - 1) /\ 1 \in 1 .. Len(stack)
  <2>1. Len(stack) \in Nat
    BY <1>1, LenProperties
  <2> QED
    BY <1>1, <2>1
<1>3. stack # <<>> /\ stack' # <<>>
  BY <1>1, <1>2, EmptySeq
<1>4. /\ m = 1 => t # <<>> /\ u = Tail(t) /\ stack'[1].phase = stack[1].phase
      /\ m # 1 => stack'[1] = stack[1]
  BY <1>2 DEF Advance
<1>5. stack[1].phase = p /\ p \in Name /\ Good(p, t) /\ t \in Seq(Allowed(p))
  BY <1>2, <1>3, AtWork
<1>6. /\ pass' = pass /\ it' = it /\ phaseName' = phaseName /\ changecfgphase' = changecfgphase
      /\ ran' = ran /\ opt' = opt
  BY DEF Keeping, mgrVars
<1>7. PhaseSeq' = PhaseSeq /\ LastPhase' = LastPhase
  BY <1>6, SameSequence
<1>8. /\ \A S : Ahead(S, u) => Ahead(S, t)
      /\ \A S : Ahead(S, t) => (m = 1 /\ h \in S) \/ Ahead(S, u)
      /\ \A S, U : m = 1 /\ h \in S => /\ Never(S, U, t) => ~Ahead(U, u)
                                       /\ Follows(S, U, t) => Ahead(U, u)
  <2>1. m # 1 => u = t
    BY <1>4
  <2>2. CASE m = 1
    <3>1. t # <<>> /\ u = Tail(t) /\ h = Head(t) /\ t \in Seq(Allowed(p))
      BY <1>4, <1>5, <2>2
    <3> HIDE DEF t, u, h, p
    <3> QED
      BY <2>2, <3>1, TailPatterns
  <2> QED
    BY <2>1, <2>2
<1>9. /\ Never(Writes \cup Flagging, Builds, t) /\ Follows(Flagging, Writes, t)
  BY <1>5 DEF Good
<1>10. Running'
  <2>1. /\ pass > 0 /\ it \in 1 .. LastPhase /\ p = PhaseSeq[it]
        /\ \A q \in isCFGChanged : q \in Opting /\ q = p
    BY <1>3 DEF Running
  <2>2. \A q \in isCFGChanged' : q \in Opting /\ q = p
    BY <2>1 DEF Keeping
  <2>3. stack'[1].phase = p
    BY <1>4, <1>5
  <2>4. /\ phaseName \in Early => fn'.meSSATab = 0
        /\ phaseName \in Low => fn'.irMap = 0
    BY DEF Keeping
  <2> QED
    BY <1>6, <1>7, <2>1, <2>2, <2>3, <2>4 DEF Running
<1> HIDE DEF u, t, h, p
<1>11. /\ h = Head(t) /\ p = phaseName /\ (m = 1 => Head(stack[m].todo) = h)
  BY DEF h, p, t
<1>12. /\ isCFGChanged \subseteq isCFGChanged'
       /\ p \in isCFGChanged' => p \in isCFGChanged \/ (m = 1 /\ h \in Flagging)
       /\ m = 1 /\ h \in Flagging => p \in isCFGChanged'
       /\ m = 1 /\ h \in Clears => ~Stale'
       /\ m = 1 /\ h \in Writes => fn'.code = "live"
  BY <1>11 DEF Keeping
<1>13. Clearing'
  <2>1. Stale /\ p \notin Emitting =>
          Ahead(Clears, t) \/ Ahead(Flagging, t) \/ p \in isCFGChanged
    BY <1>3 DEF Clearing, p, t
  <2>2. Stale' => \/ Stale \/ p \in Emitting \/ p \in isCFGChanged'
                  \/ Ahead(Clears, u) \/ Ahead(Flagging, u)
    BY DEF Keeping, p, u
  <2>3. Stale' /\ p \notin Emitting =>
          Ahead(Clears, u) \/ Ahead(Flagging, u) \/ p \in isCFGChanged'
    BY <1>8, <1>12, <2>1, <2>2
  <2> QED
    BY <1>6, <2>3 DEF Clearing, p, u
<1>14. \/ fn'.code = fn.code \/ fn'.code = "live"
       \/ m # 1 /\ Ahead(Builds, t)
  BY DEF Keeping, t
<1>15. m # 1 => u = t
  BY <1>4 DEF u, t
<1>16. Emission'
  <2>1. SUFFICES ASSUME p \in Emitting
                 PROVE  /\ Ahead(Writes, u) \/ (fn'.code = "live" /\ ~Ahead(Builds, u))
                        /\ Ahead(Keeps, u) =>
                             ~Ahead(Builds, u) /\ fn'.irMap = 0 /\ fn'.code = "live"
    BY <1>6 DEF Emission, p, u
  <2>2. /\ Ahead(Writes, t) \/ (fn.code = "live" /\ ~Ahead(Builds, t))
        /\ Ahead(Keeps, t) => ~Ahead(Builds, t) /\ fn.irMap = 0 /\ fn.code = "live"
    BY <1>3, <2>1 DEF Emission, p, t
  <2>3. fn'.irMap = fn.irMap \/ Ahead(Builds, t)
    BY DEF Keeping, t
  <2>4. Ahead(Keeps, u) => ~Ahead(Builds, u) /\ fn'.irMap = 0 /\ fn'.code = "live"
    BY <1>8, <1>14, <2>2, <2>3
  <2>5. CASE m = 1 /\ h \in Writes
    <3>1. ~Ahead(Builds, u)
      BY <1>8, <1>9, <2>5
    <3> QED
      BY <1>12, <2>4, <2>5, <3>1
  <2>6. CASE ~(m = 1 /\ h \in Writes)
    <3>1. Ahead(Writes, t) => Ahead(Writes, u)
      BY <1>8, <2>6
    <3>2. ~Ahead(Builds, t) => ~Ahead(Builds, u)
      BY <1>8
    <3> QED
      BY <1>14, <2>2, <2>4, <3>1, <3>2
  <2> QED
    BY <2>5, <2>6
<1>17. Optimizing'
  <2>1. SUFFICES ASSUME p \in Opting
                 PROVE  /\ pass = 1
                        /\ Ahead(Layout, u) => Ahead(Flagging, u) \/ p \in isCFGChanged'
                        /\ p \in isCFGChanged' =>
                             ~Ahead(Builds, u) /\ (Ahead(Writes, u) \/ fn'.code = "live")
    BY <1>6 DEF Optimizing, p, u
  <2>2. /\ pass = 1
        /\ Ahead(Layout, t) => Ahead(Flagging, t) \/ p \in isCFGChanged
        /\ p \in isCFGChanged =>
             ~Ahead(Builds, t) /\ (Ahead(Writes, t) \/ fn.code = "live")
    BY <1>3, <2>1 DEF Optimizing, p, t
  <2>3. Ahead(Layout, u) => Ahead(Flagging, u) \/ p \in isCFGChanged'
    BY <1>8, <1>12, <2>2
  <2>4. ASSUME p \in isCFGChanged'
        PROVE  ~Ahead(Builds, u) /\ (Ahead(Writes, u) \/ fn'.code = "live")
    <3>1. CASE m = 1 /\ h \in Flagging
      BY <1>8, <1>9, <3>1
    <3>2. CASE ~(m = 1 /\ h \in Flagging)
      <4>1. p \in isCFGChanged
        BY <1>12, <2>4, <3>2
      <4>2. ~Ahead(Builds, t) /\ (Ahead(Writes, t) \/ fn.code = "live")
        BY <2>2, <4>1
      <4>3. ~Ahead(Builds, u) /\ (Ahead(Writes, t) => Ahead(Writes, u) \/ fn'.code = "live")
        BY <1>8, <1>12, <4>2
      <4> QED
        BY <1>14, <4>2, <4>3
    <3> QED
      BY <3>1, <3>2
  <2> QED
    BY <2>2, <2>3, <2>4
<1>18. Between'
  BY <1>3 DEF Between
<1>19. Mapped'
  <2>1. fn'.hasBBs = fn.hasBBs /\ (fn.irMap # 0 => fn'.irMap # 0)
    BY DEF Keeping
  <2> QED
    BY <1>6, <1>7, <2>1 DEF Mapped
<1>20. Loops'
  BY <1>3, <1>6, <1>7 DEF Loops
<1> QED
  BY <1>3, <1>10, <1>13, <1>16, <1>17, <1>18, <1>19, <1>20

\* The invariant after a step of a frame.
LEMMA InvAdvance ==
  ASSUME IInv, NEW m, NEW got, Advance(stack, m, got, stack'), Relying(m, got), Keeping(m),
         Typed', Pointers', Pools'
  PROVE  IInv'
<1>1. Stacked' /\ Relied'
  BY ReliedAdvance DEF IInv
<1>2. Running' /\ Clearing' /\ Emission' /\ Optimizing' /\ Between' /\ Mapped' /\ Loops'
  BY RunningAdvance DEF IInv
<1> QED
  BY <1>1, <1>2 DEF IInv

\* The types after a step of a frame.
LEMMA TypedAdvance ==
  ASSUME Typed, Running, stack # <<>>, UNCHANGED mgrVars,
         NEW m, NEW got, Advance(stack, m, got, stack'),
         isCFGChanged' \subseteq isCFGChanged \cup {phaseName},
         made' \in Nat, cache' \in [Analyses -> 0 .. made'], fn' \in FnType,
         domCfg' \in 0 .. fn'.cfg, fn'.irMap <= made', fn'.meSSATab <= made'
  PROVE  Typed'
<1>1. /\ pass' = pass /\ it' = it /\ phaseName' = phaseName /\ changecfgphase' = changecfgphase
      /\ opt' = opt /\ funcs' = funcs /\ prevPhaseName' = prevPhaseName
  BY DEF mgrVars
<1>2. PhaseSeq' = PhaseSeq /\ LastPhase' = LastPhase
  BY <1>1, SameSequence
<1>3. pass # 0
  BY DEF Running
<1>4. stack' \in Seq(FrameType)
  BY DEF Advance
<1>5. phaseName \in ToSet(PhaseSeq)
  <2>1. phaseName = PhaseSeq[it] /\ it \in 1 .. LastPhase
    BY DEF Running
  <2>2. PhaseSeq \in Seq(Name) /\ LastPhase = Len(PhaseSeq)
    BY SequenceOrdered DEF Typed, Ordered, LastPhase
  <2>3. DOMAIN PhaseSeq = 1 .. LastPhase
    BY <2>2, LenProperties
  <2> QED
    BY <2>1, <2>3 DEF ToSet
<1>6. isCFGChanged' \subseteq ToSet(PhaseSeq')
  BY <1>2, <1>5 DEF Typed
<1>7. /\ opt \in Options /\ funcs \in 0 .. MaxFuncs /\ pass \in 0 .. 2 /\ it \in 1 .. LastPhase + 1
      /\ phaseName \in Name \cup NoPhase /\ phaseName \in ToSet(PhaseSeq) \cup NoPhase
      /\ prevPhaseName \in ToSet(PhaseSeq) \cup NoPhase
      /\ changecfgphase \in ToSet(PhaseSeq) \cup NoPhase
  BY DEF Typed
<1> QED
  BY <1>1, <1>2, <1>3, <1>4, <1>6, <1>7 DEF Typed

\* The pools after a step of a frame that deletes nothing.
LEMMA PoolsAdvance ==
  ASSUME Typed, Stacked, Running, stack # <<>>, Pools, pass' = pass,
         NEW m, NEW got, Advance(stack, m, got, stack'),
         cache'["irmapbuild"] = 0 =>
           /\ cache["irmapbuild"] = 0
           /\ \A i \in m + 1 .. Len(stack) : stack[i].phase \notin Mapping,
         fn'.versMp = fn.versMp, fn'.code = fn.code \/ fn'.code = "live"
  PROVE  Pools'
<1>1. /\ m \in Nat /\ Len(stack) \in Nat /\ Len(stack') = m /\ m \in 1 .. m /\ m \in 1 .. Len(stack)
      /\ \A i \in 1 .. Len(stack) : i \in m + 1 .. Len(stack) \/ i = m \/ i \in 1 .. m - 1
      /\ \A i \in 1 .. m - 1 : i \in 1 .. m
  <2>1. m \in 1 .. Len(stack) /\ Len(stack') = m /\ Len(stack) \in Nat
    BY LenProperties DEF Advance
  <2> QED
    BY <2>1
<1>2. ASSUME cache'["irmapbuild"] = 0, Undeleted', NEW i \in 1 .. Len(stack), stack[i].phase \in Mapping
      PROVE  Ahead(Frees, stack[i].todo)
  <2>1. i = m \/ i \in 1 .. m - 1
    BY <1>1, <1>2
  <2>2. CASE i \in 1 .. m - 1
    <3>1. stack'[i] = stack[i] /\ i \in 1 .. Len(stack')
      BY <1>1, <2>2 DEF Advance
    <3> QED
      BY <1>2, <3>1 DEF Undeleted
  <2>3. CASE i = m
    <3>1. stack'[m].phase = stack[m].phase /\ stack'[m].todo = Tail(stack[m].todo) /\ stack[m].todo # <<>>
      BY DEF Advance
    <3>2. Ahead(Frees, Tail(stack[m].todo))
      BY <1>1, <1>2, <2>3, <3>1 DEF Undeleted
    <3>3. stack[m].todo \in Seq(Allowed(stack[m].phase))
      BY <1>1, AtWork
    <3> QED
      BY <2>3, <3>1, <3>2, <3>3, TailPatterns
  <2> QED
    BY <2>1, <2>2, <2>3
<1>3. cache'["irmapbuild"] = 0 /\ Undeleted' => cache["irmapbuild"] = 0 /\ Undeleted
  BY <1>2 DEF Undeleted
<1> QED
  BY <1>3 DEF Pools

\* A result that is there already.
LEMMA HitStep ==
  ASSUME IInv, GetHit
  PROVE  IInv'
<1> DEFINE n == Len(stack)
           h == Head(stack[n].todo)
           p == stack[n].phase
           got == [Frame.held EXCEPT ![Arg] = cache[Arg]]
<1>1. Typed /\ Stacked /\ Relied /\ Running /\ Pointers /\ Pools
  BY DEF IInv
<1>2. /\ Ready("get") /\ cache[Arg] # 0
      /\ stack' = Append(Front(stack), Done(Frame, got))
      /\ UNCHANGED mgrVars /\ isCFGChanged' = isCFGChanged /\ cache' = cache /\ made' = made
      /\ domCfg' = domCfg /\ fn' = fn
  BY DEF GetHit
<1>3. /\ stack # <<>> /\ n \in 1 .. Len(stack) /\ Frame = stack[n] /\ Frame.todo # <<>>
      /\ h \in Allowed(p) /\ h.do = "get" /\ Arg = h.a /\ p \in Known
  BY <1>1, <1>2, Stepping
<1>4. /\ Arg \in Analyses /\ h = Get(Arg)
      /\ p \in Emitting \cup Opting => Arg \notin Dominating \cup Looping
  BY <1>3, AllowedFacts
<1>5. cache \in [Analyses -> Nat] /\ stack[n].held \in [Analyses -> Nat]
  <2>1. cache \in [Analyses -> 0 .. made] /\ made \in Nat
    BY <1>1 DEF Typed
  <2>2. stack[n] \in FrameType
    BY <1>1, <1>3, AtWork
  <2> QED
    BY <2>1, <2>2 DEF FrameType
<1>6. /\ got \in [Analyses -> Nat] /\ got[Arg] = cache[Arg]
      /\ \A a \in Analyses : a # Arg => got[a] = stack[n].held[a]
  BY <1>3, <1>4, <1>5
<1> HIDE DEF got
<1>7. Advance(stack, n, got, stack')
  BY <1>1, <1>2, <1>6, Stepping
<1>8. FrameOK(stack[n], Stale, fn.irMap, fn.hasBBs, cache)
  BY <1>1, <1>3 DEF Relied
<1>9. Stale' = Stale
  BY <1>2 DEF Stale
<1>10. h \notin Clears \cup Flagging \cup Writes
  BY <1>4, Kinds
<1>11. h \in Builds => fn.irMap # 0
  <2>1. h \in Builds => Arg = "irmapbuild" \/ Arg = "mepredict"
    BY <1>4, Kinds
  <2>2. pass > 0
    BY <1>1, <1>3 DEF Running
  <2> QED
    BY <1>1, <1>2, <2>1, <2>2 DEF Pointers
<1>12. "dominance" \in Analyses /\ "identloops" \in Analyses
  BY DEF Analyses
<1>13. p \in Emitting \cup Opting => got["dominance"] = 0 /\ got["identloops"] = 0
  BY <1>4, <1>6, <1>8, <1>12 DEF FrameOK, Dominating, Looping
<1>14. \A a \in Analyses : got[a] \in {0, cache[a]}
  BY <1>6, <1>8 DEF FrameOK
<1>15. got["dominance"] # 0 => ~Stale
  <2>1. CASE Arg = "dominance"
    <3>1. h \in Fresh
      BY <1>4, <2>1, Kinds
    <3>2. stack[n].todo \in Seq(Allowed(p)) /\ stack[n].todo # <<>>
      BY <1>1, <1>3, AtWork
    <3>3. Needs(Fresh, Clears, stack[n].todo)
      BY <3>1, <3>2, TailPatterns
    <3> QED
      BY <1>8, <3>3 DEF FrameOK
  <2>2. CASE Arg # "dominance"
    BY <1>6, <1>8, <1>12, <2>2 DEF FrameOK
  <2> QED
    BY <2>1, <2>2
<1>16. \A i \in 2 .. n : cache[stack[i].phase] = 0
  BY <1>1, <1>3, AtWork
<1>17. Relying(n, got)
  BY <1>2, <1>9, <1>10, <1>11, <1>13, <1>14, <1>15, <1>16 DEF Relying
<1>18. Keeping(n)
  <2>1. /\ phaseName \in Early => fn.meSSATab = 0
        /\ phaseName \in Low => fn.irMap = 0
    BY <1>1, <1>3 DEF Running
  <2> QED
    BY <1>2, <1>9, <1>10, <2>1 DEF Keeping
<1>19. Typed'
  <2>1. /\ made \in Nat /\ cache \in [Analyses -> 0 .. made] /\ fn \in FnType
        /\ domCfg \in 0 .. fn.cfg /\ fn.irMap <= made /\ fn.meSSATab <= made
    BY <1>1 DEF Typed
  <2> QED
    BY <1>1, <1>2, <1>3, <1>7, <2>1, TypedAdvance
<1>20. pass' = pass
  BY <1>2 DEF mgrVars
<1>21. Pointers'
  BY <1>1, <1>2, <1>20 DEF Pointers
<1>22. Pools'
  <2>1. \A i \in n + 1 .. Len(stack) : stack[i].phase \notin Mapping
    BY <1>3
  <2> QED
    BY <1>1, <1>2, <1>3, <1>7, <1>20, <2>1, PoolsAdvance
<1> QED
  BY <1>7, <1>17, <1>18, <1>19, <1>21, <1>22, InvAdvance

\* A step that neither asks for a result nor invalidates one.
LEMMA AllowedStep ==
  ASSUME NEW p, NEW x \in Allowed(p), x.do \notin {"get", "invalid"}
  PROVE  x = Step(x.do)
<1>1. \A a : Get(a).do = "get" /\ Invalid(a).do = "invalid" /\ Step(a).do = a
  BY DEF Get, Invalid, Step
<1>2. \E s \in Acts(p) : x = Step(s)
  BY <1>1 DEF Allowed
<1> QED
  BY <1>1, <1>2

\* What is known of the innermost run.
LEMMA Innermost ==
  ASSUME IInv, NEW d, Ready(d)
  PROVE  LET n == Len(stack)
             f == stack[n]
             h == Head(f.todo)
         IN  /\ stack # <<>> /\ n \in Nat /\ n \in 1 .. n /\ Frame = f /\ f.todo # <<>>
             /\ h \in Allowed(f.phase) /\ h.do = d /\ Arg = h.a /\ f.phase \in Known
             /\ f.todo \in Seq(Allowed(f.phase)) /\ Good(f.phase, f.todo)
             /\ cache \in [Analyses -> Nat] /\ f.held \in [Analyses -> Nat] /\ fn \in FnType
             /\ fn.hasBBs /\ pass > 0 /\ stack[1].phase = phaseName /\ phaseName \in Name
             /\ phaseName \in Early => fn.meSSATab = 0
             /\ phaseName \in Low => fn.irMap = 0
             /\ \A i \in 2 .. n : cache[stack[i].phase] = 0
             /\ \A i \in 1 .. n : FrameOK(stack[i], Stale, fn.irMap, fn.hasBBs, cache)
             /\ \A i \in n + 1 .. n : stack[i].phase \notin Mapping
             /\ Typed /\ Stacked /\ Running
<1> DEFINE n == Len(stack)
           f == stack[n]
           h == Head(f.todo)
<1>1. Typed /\ Stacked /\ Relied /\ Running
  BY DEF IInv
<1>2. /\ stack # <<>> /\ n \in 1 .. n /\ Frame = f /\ f.todo # <<>>
      /\ h \in Allowed(f.phase) /\ h.do = d /\ Arg = h.a /\ f.phase \in Known /\ fn.hasBBs
  BY <1>1, Stepping
<1>3. n \in Nat /\ stack[1].phase = phaseName /\ phaseName \in Name /\ f \in FrameType
      /\ f.todo \in Seq(Allowed(f.phase)) /\ Good(f.phase, f.todo)
      /\ \A i \in 2 .. n : cache[stack[i].phase] = 0
  BY <1>1, <1>2, AtWork
<1>4. cache \in [Analyses -> Nat] /\ fn \in FnType
  <2>1. cache \in [Analyses -> 0 .. made] /\ made \in Nat /\ fn \in FnType
    BY <1>1 DEF Typed
  <2> QED
    BY <2>1
<1>5. f.held \in [Analyses -> Nat]
  BY <1>3 DEF FrameType
<1>6. \A i \in 1 .. n : FrameOK(stack[i], Stale, fn.irMap, fn.hasBBs, cache)
  BY <1>1 DEF Relied
<1>7. pass > 0 /\ (phaseName \in Early => fn.meSSATab = 0) /\ (phaseName \in Low => fn.irMap = 0)
  BY <1>1, <1>2 DEF Running
<1>8. \A i \in n + 1 .. n : stack[i].phase \notin Mapping
  BY <1>3
<1> QED
  BY <1>1, <1>2, <1>3, <1>4, <1>5, <1>6, <1>7, <1>8

\* Below a phase that drops dominance or the loops, nobody holds them.
LEMMA NotHeld ==
  ASSUME IInv, stack # <<>>, NEW n, n = Len(stack),
         stack[n].phase \in Laying \cup Predicting \/ stack[n].phase \notin Analyses
  PROVE  /\ stack[n].phase \notin Analyses => n = 1
         /\ \A i \in 1 .. n - 1 : /\ i = 1 /\ stack[n].phase \in Laying \cup Predicting
                                  /\ stack[i].held["dominance"] = 0
                                  /\ stack[i].held["identloops"] = 0
<1>1. Typed /\ Stacked /\ Relied /\ Running
  BY DEF IInv
<1>2. n \in Nat /\ n \in 1 .. n
  BY <1>1, AtWork
<1>3. stack[n].phase \notin Analyses => n = 1
  BY <1>1, <1>2, Callers
<1>4. stack[n].phase \in Laying \cup Predicting => n = 2 /\ phaseName \in Emitting \cup Opting
  BY <1>1, <1>2, Callers
<1>5. ASSUME NEW i \in 1 .. n - 1
      PROVE  /\ i = 1 /\ stack[n].phase \in Laying \cup Predicting
             /\ stack[i].held["dominance"] = 0 /\ stack[i].held["identloops"] = 0
  <2>1. n # 1
    BY <1>2
  <2>2. stack[n].phase \in Laying \cup Predicting /\ n = 2 /\ phaseName \in Emitting \cup Opting
    BY <1>3, <1>4, <2>1
  <2>3. i = 1
    BY <2>2
  <2>4. stack[1].phase = phaseName /\ 1 \in 1 .. Len(stack)
    BY <1>1, AtWork
  <2>5. FrameOK(stack[1], Stale, fn.irMap, fn.hasBBs, cache)
    BY <1>1, <2>4 DEF Relied
  <2> QED
    BY <2>2, <2>3, <2>4, <2>5 DEF FrameOK
<1> QED
  BY <1>3, <1>5

\* A result is invalidated.
LEMMA InvalidStep ==
  ASSUME IInv, InvalidAnalysisResult
  PROVE  IInv'
<1> DEFINE n == Len(stack)
           h == Head(stack[n].todo)
           p == stack[n].phase
           got == [Frame.held EXCEPT ![Arg] = 0]
<1>1. /\ Ready("invalid") /\ cache' = [cache EXCEPT ![Arg] = 0]
      /\ stack' = Append(Front(stack), Done(Frame, got))
      /\ UNCHANGED mgrVars /\ isCFGChanged' = isCFGChanged /\ made' = made
      /\ domCfg' = domCfg /\ fn' = fn
  BY DEF InvalidAnalysisResult
<1>2. /\ stack # <<>> /\ n \in Nat /\ n \in 1 .. n /\ Frame = stack[n]
      /\ h \in Allowed(p) /\ h.do = "invalid" /\ Arg = h.a /\ p \in Known
      /\ cache \in [Analyses -> Nat] /\ stack[n].held \in [Analyses -> Nat]
      /\ Typed /\ Stacked /\ Running /\ fn.hasBBs /\ pass > 0
      /\ phaseName \in Early => fn.meSSATab = 0
      /\ phaseName \in Low => fn.irMap = 0
      /\ \A i \in 2 .. n : cache[stack[i].phase] = 0
      /\ \A i \in n + 1 .. n : stack[i].phase \notin Mapping
      /\ FrameOK(stack[n], Stale, fn.irMap, fn.hasBBs, cache)
  BY <1>1, Innermost
<1>3. /\ Arg \in Analyses /\ h = Invalid(Arg)
      /\ \/ Arg \in Dominating /\ (p \in Laying \/ p \notin Analyses)
         \/ Arg \in Looping /\ p \in Predicting
  BY <1>2, AllowedFacts
<1>4. /\ got \in [Analyses -> Nat] /\ got[Arg] = 0
      /\ \A a \in Analyses : a # Arg => got[a] = stack[n].held[a]
  BY <1>2, <1>3
<1> HIDE DEF got
<1>5. Advance(stack, n, got, stack')
  BY <1>1, <1>2, <1>4, Stepping
<1>6. /\ cache' \in [Analyses -> Nat] /\ cache'[Arg] = 0
      /\ \A a \in Analyses : a # Arg => cache'[a] = cache[a]
  BY <1>1, <1>2, <1>3
<1>7. "dominance" \in Analyses /\ "identloops" \in Analyses /\ "irmapbuild" \in Analyses
      /\ "ssatab" \in Analyses /\ "mepredict" \in Analyses
  BY DEF Analyses
<1>8. Arg \in {"dominance", "identloops"}
  BY <1>3 DEF Dominating, Looping
<1>9. Stale' => Stale /\ Arg # "dominance"
  BY <1>1, <1>6, <1>7 DEF Stale
<1>10. h \in Clears => Arg = "dominance"
  <2>1. h.do = "invalid" /\ Step("invalidAll").do = "invalidAll" /\ Invalid("dominance").a = "dominance"
        /\ h.a = Arg
    BY <1>2 DEF Step, Invalid
  <2> QED
    BY <2>1 DEF Clears
<1>11. h \notin Builds \cup Flagging \cup Writes
  BY <1>2, Doing
<1>12. \A i \in 1 .. n - 1 : stack[i].held[Arg] = 0
  <2>1. p \in Laying \cup Predicting \/ p \notin Analyses
    BY <1>3
  <2> QED
    BY <1>2, <1>8, <2>1, NotHeld, SMTT(40)
<1>13. p \in Emitting \cup Opting => got["dominance"] = 0 /\ got["identloops"] = 0
  BY <1>2, <1>4, <1>7 DEF FrameOK
<1>14. \A a \in Analyses : got[a] \in {0, cache'[a]}
  BY <1>2, <1>4, <1>6 DEF FrameOK
<1>15. got["dominance"] # 0 => ~Stale'
  BY <1>2, <1>4, <1>7, <1>9 DEF FrameOK
<1>16. \A i \in 2 .. n : cache'[stack[i].phase] = 0
  <2>1. \A i \in 2 .. n : stack[i].phase \in Analyses
    BY <1>2, AtWork
  <2> QED
    BY <1>2, <1>6, <2>1
<1>17. Relying(n, got)
  BY <1>1, <1>6, <1>9, <1>10, <1>11, <1>12, <1>13, <1>14, <1>15, <1>16 DEF Relying
<1>18. Keeping(n)
  BY <1>1, <1>2, <1>9, <1>10, <1>11 DEF Keeping
<1>19. Typed'
  <2>1. /\ made \in Nat /\ cache \in [Analyses -> 0 .. made] /\ fn \in FnType
        /\ domCfg \in 0 .. fn.cfg /\ fn.irMap <= made /\ fn.meSSATab <= made
    BY <1>2 DEF Typed
  <2>2. cache' \in [Analyses -> 0 .. made]
    BY <1>1, <1>3, <2>1
  <2> QED
    BY <1>1, <1>2, <1>5, <2>1, <2>2, TypedAdvance
<1>20. pass' = pass
  BY <1>1 DEF mgrVars
<1>21. cache'["irmapbuild"] = cache["irmapbuild"] /\ cache'["ssatab"] = cache["ssatab"]
       /\ cache'["mepredict"] = cache["mepredict"]
  BY <1>6, <1>7, <1>8
<1>22. Pointers'
  BY <1>1, <1>2, <1>20, <1>21 DEF Pointers, IInv
<1>23. Pools'
  <2>1. Pools
    BY DEF IInv
  <2> QED
    BY <1>1, <1>2, <1>5, <1>20, <1>21, <2>1, PoolsAdvance
<1> QED
  BY <1>5, <1>17, <1>18, <1>19, <1>22, <1>23, InvAdvance

\* All results are invalidated.
LEMMA InvalidAllStep ==
  ASSUME IInv, InvalidAllResults
  PROVE  IInv'
<1> DEFINE n == Len(stack)
           h == Head(stack[n].todo)
           p == stack[n].phase
<1>1. /\ Ready("invalidAll") /\ cache' = None
      /\ stack' = Append(Front(stack), Done(Frame, None))
      /\ UNCHANGED mgrVars /\ isCFGChanged' = isCFGChanged /\ made' = made
      /\ domCfg' = domCfg /\ fn' = fn
  BY DEF InvalidAllResults
<1>2. /\ stack # <<>> /\ n \in Nat /\ n \in 1 .. n /\ Frame = stack[n]
      /\ h \in Allowed(p) /\ h.do = "invalidAll" /\ p \in Known
      /\ Typed /\ Stacked /\ Running /\ fn.hasBBs /\ pass > 0
      /\ stack[1].phase = phaseName
      /\ phaseName \in Early => fn.meSSATab = 0
      /\ phaseName \in Low => fn.irMap = 0
      /\ \A i \in n + 1 .. n : stack[i].phase \notin Mapping
  BY <1>1, Innermost
<1>3. p \in Early
  BY <1>2, AllowedFacts
<1>4. n = 1
  BY <1>2, <1>3, Apart, Callers
<1>5. None \in [Analyses -> Nat] /\ \A a \in Analyses : None[a] = 0
  BY DEF None
<1>6. Advance(stack, n, None, stack')
  BY <1>1, <1>2, <1>5, Stepping
<1>7. "dominance" \in Analyses /\ "identloops" \in Analyses /\ "irmapbuild" \in Analyses
      /\ "ssatab" \in Analyses /\ "mepredict" \in Analyses
  BY DEF Analyses
<1>8. ~Stale'
  BY <1>1, <1>5, <1>7 DEF Stale
<1>9. h \notin Builds \cup Flagging \cup Writes
  BY <1>2, Doing
<1>10. 1 .. n - 1 = {} /\ 2 .. n = {}
  BY <1>4
<1>11. Relying(n, None)
  BY <1>1, <1>5, <1>7, <1>8, <1>9, <1>10 DEF Relying
<1>12. Keeping(n)
  BY <1>1, <1>2, <1>8, <1>9 DEF Keeping
<1>13. Typed'
  <2>1. /\ made \in Nat /\ fn \in FnType
        /\ domCfg \in 0 .. fn.cfg /\ fn.irMap <= made /\ fn.meSSATab <= made
    BY <1>2 DEF Typed
  <2>2. cache' \in [Analyses -> 0 .. made]
    BY <1>1, <2>1 DEF None
  <2> QED
    BY <1>1, <1>2, <1>6, <2>1, <2>2, TypedAdvance
<1>14. pass' = pass
  BY <1>1 DEF mgrVars
<1>15. fn.irMap = 0 /\ fn.meSSATab = 0
  BY <1>2, <1>3, <1>4, Apart
<1>16. Pointers'
  BY <1>1, <1>5, <1>7, <1>15 DEF Pointers
<1>17. Pools'
  <2>1. Pools /\ cache["irmapbuild"] = 0
    BY <1>2, <1>15 DEF IInv, Pointers
  <2> QED
    BY <1>1, <1>2, <1>6, <1>14, <2>1, PoolsAdvance
<1> QED
  BY <1>6, <1>11, <1>12, <1>13, <1>16, <1>17, InvAdvance

\* The graph is changed.
LEMMA ChangeStep ==
  ASSUME IInv, ChangeCFG
  PROVE  IInv'
<1> DEFINE n == Len(stack)
           t == stack[n].todo
           h == Head(stack[n].todo)
           p == stack[n].phase
           got == [Frame.held EXCEPT !["dominance"] = 0]
<1>1. /\ Ready("changeCFG") /\ fn' = [fn EXCEPT !.cfg = fn.cfg + 1]
      /\ stack' = Append(Front(stack), Done(Frame, got))
      /\ UNCHANGED mgrVars /\ isCFGChanged' = isCFGChanged /\ made' = made
      /\ domCfg' = domCfg /\ cache' = cache
  BY DEF ChangeCFG
<1>2. /\ stack # <<>> /\ n \in Nat /\ n \in 1 .. n /\ Frame = stack[n] /\ t # <<>>
      /\ h \in Allowed(p) /\ h.do = "changeCFG" /\ p \in Known
      /\ t \in Seq(Allowed(p)) /\ Good(p, t)
      /\ cache \in [Analyses -> Nat] /\ stack[n].held \in [Analyses -> Nat] /\ fn \in FnType
      /\ Typed /\ Stacked /\ Running /\ fn.hasBBs /\ pass > 0
      /\ stack[1].phase = phaseName /\ phaseName \in Name
      /\ phaseName \in Early => fn.meSSATab = 0
      /\ phaseName \in Low => fn.irMap = 0
      /\ \A i \in 2 .. n : cache[stack[i].phase] = 0
      /\ \A i \in n + 1 .. n : stack[i].phase \notin Mapping
      /\ FrameOK(stack[n], Stale, fn.irMap, fn.hasBBs, cache)
  BY <1>1, Innermost
<1>3. h \in Graph
  <2>1. h.do \notin {"get", "invalid"}
    BY <1>2
  <2>2. h = Step("changeCFG")
    BY <1>2, <2>1, AllowedStep
  <2> QED
    BY <2>2 DEF Graph
<1>4. h \notin Fresh \cup Layout \cup Clears \cup Flagging \cup Writes \cup Builds /\ h \in Changes
  BY <1>3, Kinds DEF UsesIR, Changes
<1>5. p \in Laying \/ p \notin Analyses
  BY <1>2, AllowedFacts
<1>6. "dominance" \in Analyses /\ "identloops" \in Analyses
  BY DEF Analyses
<1>7. /\ got \in [Analyses -> Nat] /\ got["dominance"] = 0
      /\ \A a \in Analyses : a # "dominance" => got[a] = stack[n].held[a]
  BY <1>2, <1>6
<1> HIDE DEF got
<1>8. Advance(stack, n, got, stack')
  BY <1>1, <1>2, <1>7, Stepping
<1>9. /\ fn' \in FnType /\ fn'.hasBBs = fn.hasBBs /\ fn'.cfg = fn.cfg + 1 /\ fn'.irMap = fn.irMap
      /\ fn'.meSSATab = fn.meSSATab /\ fn'.versMp = fn.versMp /\ fn'.code = fn.code
      /\ fn.cfg \in Nat
  <2>1. fn.cfg \in Nat
    BY <1>2 DEF FnType
  <2>2. fn.cfg + 1 \in Nat
    BY <2>1
  <2> QED
    BY <1>1, <1>2, <2>1, <2>2 DEF FnType
<1>10. ~Ahead(Fresh, Tail(t))
  <2>1. Never(Changes, Fresh, t)
    BY <1>2 DEF Good
  <2> QED
    BY <1>2, <1>4, <2>1, TailRules
<1>11. \A i \in 1 .. n - 1 :
         ~Needs(Fresh, Clears, stack[i].todo) /\ stack[i].held["dominance"] = 0
  <2>1. SUFFICES ASSUME NEW i \in 1 .. n - 1
                 PROVE  ~Needs(Fresh, Clears, stack[i].todo) /\ stack[i].held["dominance"] = 0
    OBVIOUS
  <2>2. i = 1 /\ stack[i].held["dominance"] = 0 /\ (p \in Laying \/ p \in Predicting)
    BY <1>2, <1>5, NotHeld
  <2>3. n # 1
    BY <1>2
  <2>4. p \in Laying
    BY <1>2, <1>5, <2>3, NotHeld
  <2>5. Head(stack[1].todo) \in Layout /\ n = 2
    BY <1>2, <2>4, Callers
  <2> DEFINE u == stack[1].todo
  <2>6. u # <<>> /\ u \in Seq(Allowed(phaseName)) /\ Good(phaseName, u)
    <3>1. 2 \in 2 .. Len(stack) /\ 2 - 1 = 1 /\ 1 \in 1 .. Len(stack)
      BY <2>5
    <3> QED
      BY <1>2, <3>1, AtWork
  <2>7. Head(u) \in Changes /\ Head(u) \notin Fresh
    <3>1. Get("bblayout") \in Layout /\ "bblayout" \in Analyses
      BY DEF Layout, Analyses
    <3> QED
      BY <2>5, <3>1, Kinds DEF Changes, Layout
  <2>8. Never(Changes, Fresh, u)
    BY <2>6 DEF Good
  <2> HIDE DEF u
  <2>9. ~Ahead(Fresh, Tail(u))
    BY <2>6, <2>7, <2>8, TailRules
  <2>10. ~Ahead(Fresh, u)
    BY <2>6, <2>7, <2>9, TailRules
  <2>11. ~Needs(Fresh, Clears, u)
    BY <2>10 DEF Needs, Ahead
  <2> QED
    BY <2>2, <2>11 DEF u
<1>12. p \in Emitting \cup Opting => got["dominance"] = 0 /\ got["identloops"] = 0
  BY <1>2, <1>6, <1>7 DEF FrameOK
<1>13. \A a \in Analyses : got[a] \in {0, cache[a]}
  BY <1>2, <1>7 DEF FrameOK
<1>14. Relying(n, got)
  BY <1>1, <1>2, <1>4, <1>7, <1>9, <1>10, <1>11, <1>12, <1>13 DEF Relying
<1>15. \/ phaseName \in Emitting \/ phaseName \in isCFGChanged
       \/ Ahead(Clears, stack'[1].todo) \/ Ahead(Flagging, stack'[1].todo)
  <2>1. CASE n = 1
    <3>1. p \notin Laying
      BY <1>2, <2>1, Apart
    <3>2. Follows(Graph, Clears \cup Flagging, t)
      BY <1>2, <3>1 DEF Good
    <3>3. Ahead(Clears \cup Flagging, Tail(t))
      BY <1>2, <1>3, <3>2, TailRules
    <3>4. stack'[1].todo = Tail(t)
      BY <1>8, <2>1 DEF Advance
    <3> QED
      BY <3>3, <3>4 DEF Ahead
  <2>2. CASE n # 1
    <3>1. p \in Laying
      BY <1>2, <1>5, <2>2, NotHeld
    <3>2. phaseName \in Emitting \cup Opting /\ Head(stack[1].todo) \in Layout /\ n = 2
      BY <1>2, <3>1, Callers
    <3>3. stack'[1] = stack[1] /\ stack[1].todo # <<>> /\ stack[1].todo \in Seq(Allowed(phaseName))
      <4>1. 2 \in 2 .. Len(stack) /\ 2 - 1 = 1 /\ 1 \in 1 .. Len(stack) /\ 1 \in 1 .. n - 1
        BY <3>2
      <4>2. stack[1].todo # <<>> /\ stack[1].todo \in Seq(Allowed(phaseName))
        BY <1>2, <4>1, AtWork
      <4> QED
        BY <1>8, <4>1, <4>2 DEF Advance
    <3>4. Ahead(Layout, stack[1].todo)
      BY <3>2, <3>3, TailRules
    <3>5. phaseName \in Opting => Ahead(Flagging, stack[1].todo) \/ phaseName \in isCFGChanged
      BY <1>2, <3>4 DEF IInv, Optimizing
    <3> QED
      BY <3>2, <3>3, <3>5
  <2> QED
    BY <2>1, <2>2
<1>16. Keeping(n)
  BY <1>1, <1>2, <1>4, <1>9, <1>15 DEF Keeping
<1>17. Typed'
  <2>1. /\ made \in Nat /\ cache \in [Analyses -> 0 .. made]
        /\ domCfg \in 0 .. fn.cfg /\ fn.irMap <= made /\ fn.meSSATab <= made
    BY <1>2 DEF Typed
  <2>2. domCfg' \in 0 .. fn'.cfg
    BY <1>1, <1>9, <2>1
  <2> QED
    BY <1>1, <1>2, <1>8, <1>9, <2>1, <2>2, TypedAdvance
<1>18. pass' = pass
  BY <1>1 DEF mgrVars
<1>19. Pointers'
  BY <1>1, <1>2, <1>9, <1>18 DEF Pointers, IInv
<1>20. Pools'
  <2>1. Pools
    BY DEF IInv
  <2> QED
    BY <1>1, <1>2, <1>8, <1>9, <1>18, <2>1, PoolsAdvance
<1> QED
  BY <1>8, <1>14, <1>16, <1>17, <1>19, <1>20, InvAdvance

\* What a step needs that leaves the results and the graph alone.
LEMMA QuietStep ==
  ASSUME IInv, NEW d \in {"setChangeCFG", "freeStmts", "newCode", "keepStmts", "useIrMap"}, Ready(d),
         Proceed, UNCHANGED mgrVars, made' = made, domCfg' = domCfg, cache' = cache,
         fn' \in FnType, fn'.hasBBs = fn.hasBBs, fn'.cfg = fn.cfg, fn'.irMap = fn.irMap,
         fn'.meSSATab = fn.meSSATab,
         isCFGChanged' = IF d = "setChangeCFG" THEN isCFGChanged \cup {phaseName} ELSE isCFGChanged,
         \/ fn'.code = fn.code \/ fn'.code = "live"
         \/ Len(stack) # 1 /\ Ahead(Builds, stack[1].todo),
         d = "newCode" => fn'.code = "live",
         (fn'.versMp = fn.versMp /\ (fn'.code = fn.code \/ fn'.code = "live")) \/ Pools'
  PROVE  IInv'
<1> DEFINE n == Len(stack)
           h == Head(stack[n].todo)
           p == stack[n].phase
           got == stack[n].held
<1>1. /\ stack # <<>> /\ n \in Nat /\ n \in 1 .. n /\ Frame = stack[n]
      /\ h \in Allowed(p) /\ h.do = d /\ p \in Known
      /\ cache \in [Analyses -> Nat] /\ stack[n].held \in [Analyses -> Nat] /\ fn \in FnType
      /\ Typed /\ Stacked /\ Running /\ fn.hasBBs /\ pass > 0
      /\ stack[1].phase = phaseName /\ phaseName \in Name
      /\ phaseName \in Early => fn.meSSATab = 0
      /\ phaseName \in Low => fn.irMap = 0
      /\ \A i \in 2 .. n : cache[stack[i].phase] = 0
      /\ \A i \in n + 1 .. n : stack[i].phase \notin Mapping
      /\ FrameOK(stack[n], Stale, fn.irMap, fn.hasBBs, cache)
  BY Innermost
<1>2. Advance(stack, n, got, stack')
  <2>1. stack' = Append(Front(stack), Done(Frame, got))
    BY <1>1 DEF Proceed
  <2> QED
    BY <1>1, <2>1, Stepping
<1>3. Stale' = Stale
  BY DEF Stale
<1>4. h \notin Clears \cup Builds /\ (h \in Writes => d = "newCode")
  BY <1>1, Doing
<1>5. h \in Flagging => d = "setChangeCFG"
  BY <1>1, Doing
<1>6. d = "setChangeCFG" => n = 1 /\ p \in Opting /\ h \in Flagging /\ p = phaseName
  <2>1. SUFFICES ASSUME d = "setChangeCFG"
                 PROVE  n = 1 /\ p \in Opting /\ h \in Flagging /\ p = phaseName
    OBVIOUS
  <2>2. p \in Opting
    BY <1>1, <2>1, AllowedFacts
  <2>3. n = 1
    BY <1>1, <2>2, Apart, Callers
  <2>4. h.do \notin {"get", "invalid"}
    BY <1>1, <2>1
  <2>5. h = Step("setChangeCFG")
    BY <1>1, <2>1, <2>4, AllowedStep
  <2> QED
    BY <1>1, <2>2, <2>3, <2>5 DEF Flagging
<1>7. Relying(n, got)
  BY <1>1, <1>3, <1>4 DEF Relying, FrameOK
<1>8. Keeping(n)
  <2>1. isCFGChanged \subseteq isCFGChanged'
    OBVIOUS
  <2>2. \A q \in isCFGChanged' :
          q \in isCFGChanged \/ (n = 1 /\ h \in Flagging /\ q \in Opting /\ q = phaseName)
    BY <1>6
  <2>3. n = 1 /\ h \in Flagging => phaseName \in isCFGChanged'
    BY <1>5
  <2> QED
    BY <1>1, <1>3, <1>4, <2>1, <2>2, <2>3 DEF Keeping
<1>9. Typed'
  <2>1. /\ made \in Nat /\ cache \in [Analyses -> 0 .. made]
        /\ domCfg \in 0 .. fn.cfg /\ fn.irMap <= made /\ fn.meSSATab <= made
    BY <1>1 DEF Typed
  <2>2. isCFGChanged' \subseteq isCFGChanged \cup {phaseName}
    OBVIOUS
  <2> QED
    BY <1>1, <1>2, <2>1, <2>2, TypedAdvance
<1>10. pass' = pass
  BY DEF mgrVars
<1>11. Pointers'
  BY <1>1, <1>10 DEF Pointers, IInv
<1>12. Pools'
  <2>1. Pools
    BY DEF IInv
  <2>2. CASE fn'.versMp = fn.versMp /\ (fn'.code = fn.code \/ fn'.code = "live")
    BY <1>1, <1>2, <1>10, <2>1, <2>2, PoolsAdvance
  <2> QED
    BY <2>2
<1> QED
  BY <1>2, <1>7, <1>8, <1>9, <1>11, <1>12, InvAdvance

\* The flag is set that makes the manager start over.
LEMMA FlagStep ==
  ASSUME IInv, SetChangeCFG
  PROVE  IInv'
<1>1. /\ Ready("setChangeCFG") /\ Proceed /\ UNCHANGED mgrVars /\ made' = made /\ domCfg' = domCfg
      /\ cache' = cache /\ fn' = fn /\ isCFGChanged' = isCFGChanged \cup {Frame.phase}
  BY DEF SetChangeCFG
<1>2. /\ fn \in FnType /\ Frame = stack[Len(stack)] /\ stack[1].phase = phaseName
      /\ Head(stack[Len(stack)].todo) \in Allowed(stack[Len(stack)].phase)
      /\ Head(stack[Len(stack)].todo).do = "setChangeCFG" /\ stack[Len(stack)].phase \in Known
      /\ Typed /\ Stacked /\ Running /\ stack # <<>> /\ Len(stack) \in 1 .. Len(stack)
  BY <1>1, Innermost
<1>3. Frame.phase = phaseName
  <2>1. Frame.phase \in Opting
    BY <1>2, AllowedFacts
  <2>2. Len(stack) = 1
    BY <1>2, <2>1, Apart, Callers
  <2> QED
    BY <1>2, <2>2
<1> QED
  BY <1>1, <1>2, <1>3, QuietStep

\* The function is written anew.
LEMMA NewCodeStep ==
  ASSUME IInv, NewCode
  PROVE  IInv'
<1>1. /\ Ready("newCode") /\ Proceed /\ UNCHANGED mgrVars /\ made' = made /\ domCfg' = domCfg
      /\ cache' = cache /\ fn' = [fn EXCEPT !.code = "live"] /\ isCFGChanged' = isCFGChanged
  BY DEF NewCode
<1>2. fn \in FnType
  BY <1>1, Innermost
<1>3. /\ fn' \in FnType /\ fn'.hasBBs = fn.hasBBs /\ fn'.cfg = fn.cfg /\ fn'.irMap = fn.irMap
      /\ fn'.meSSATab = fn.meSSATab /\ fn'.versMp = fn.versMp /\ fn'.code = "live"
  <2>1. "live" \in Pool
    BY DEF Pool
  <2> QED
    BY <1>1, <1>2, <2>1 DEF FnType
<1> QED
  BY <1>1, <1>3, QuietStep

\* Nothing is changed.
LEMMA UseStep ==
  ASSUME IInv, Use
  PROVE  IInv'
<1>1. /\ Ready("keepStmts") \/ Ready("useIrMap")
      /\ Proceed /\ UNCHANGED mgrVars /\ made' = made /\ domCfg' = domCfg
      /\ cache' = cache /\ fn' = fn /\ isCFGChanged' = isCFGChanged
  BY DEF Use
<1>2. fn \in FnType
  BY DEF IInv, Typed
<1>3. CASE Ready("keepStmts")
  BY <1>1, <1>2, <1>3, QuietStep
<1>4. CASE Ready("useIrMap")
  BY <1>1, <1>2, <1>4, QuietStep
<1> QED
  BY <1>1, <1>3, <1>4

\* The code and the versions are deleted.
LEMMA FreeStep ==
  ASSUME IInv, FreeStmts
  PROVE  IInv'
<1> DEFINE n == Len(stack)
           t == stack[n].todo
           h == Head(stack[n].todo)
           p == stack[n].phase
<1>1. /\ Ready("freeStmts") /\ Proceed /\ UNCHANGED mgrVars /\ made' = made /\ domCfg' = domCfg
      /\ cache' = cache /\ isCFGChanged' = isCFGChanged
      /\ fn' = [fn EXCEPT !.code = Delete(fn.code), !.versMp = Delete(fn.versMp)]
  BY DEF FreeStmts
<1>2. /\ stack # <<>> /\ n \in Nat /\ n \in 1 .. n /\ Frame = stack[n] /\ t # <<>>
      /\ h \in Allowed(p) /\ h.do = "freeStmts" /\ p \in Known
      /\ t \in Seq(Allowed(p)) /\ Good(p, t) /\ pass > 0
      /\ stack[n].held \in [Analyses -> Nat] /\ fn \in FnType
      /\ Typed /\ Stacked /\ Running
      /\ \A i \in 2 .. n : cache[stack[i].phase] = 0
  BY <1>1, Innermost
<1>3. p \in Mapping
  BY <1>2, AllowedFacts
<1>4. h \in Frees
  <2>1. h.do \notin {"get", "invalid"}
    BY <1>2
  <2>2. h = Step("freeStmts")
    BY <1>2, <2>1, AllowedStep
  <2> QED
    BY <2>2 DEF Frees
<1>5. n # 1 /\ Ahead(Builds, stack[1].todo)
  BY <1>2, <1>3, Callers
<1>6. cache["irmapbuild"] = 0
  <2>1. n \in Nat /\ n >= 1
    BY <1>2
  <2>2. n \in 2 .. n
    <3>1. n # 1
      BY <1>5
    <3> HIDE DEF n
    <3> QED
      BY <2>1, <3>1
  <2> QED
    BY <1>2, <1>3, <2>2 DEF Mapping
<1>7. Undeleted
  <2>1. SUFFICES ASSUME NEW i \in 1 .. n, stack[i].phase \in Mapping
                 PROVE  Ahead(Frees, stack[i].todo)
    BY DEF Undeleted
  <2>2. i = n
    <3>1. stack[i].phase = stack[n].phase
      BY <1>3, <2>1 DEF Mapping
    <3>2. Level(stack[n].phase) \in Int
      BY DEF Level
    <3>3. i < n => Level(stack[n].phase) < Level(stack[i].phase)
      BY <1>2, <2>1 DEF Stacked, StackedIn
    <3>4. ~(i < n)
      BY <3>1, <3>2, <3>3
    <3> QED
      BY <1>2, <3>4
  <2> QED
    BY <1>2, <1>4, <2>2, TailRules
<1>8. fn.versMp = "live" /\ fn.code = "live"
  BY <1>2, <1>6, <1>7 DEF IInv, Pools
<1>9. Delete(fn.code) = "deleted" /\ Delete(fn.versMp) = "deleted" /\ "deleted" \in Pool
  BY <1>8 DEF Delete, Pool
<1>10. /\ fn' \in FnType /\ fn'.hasBBs = fn.hasBBs /\ fn'.cfg = fn.cfg /\ fn'.irMap = fn.irMap
       /\ fn'.meSSATab = fn.meSSATab /\ fn'.versMp = "deleted" /\ fn'.code = "deleted"
  BY <1>1, <1>2, <1>9 DEF FnType
<1>11. ~Undeleted'
  <2>1. Advance(stack, n, stack[n].held, stack')
    <3>1. stack' = Append(Front(stack), Done(Frame, stack[n].held))
      BY <1>1, <1>2 DEF Proceed
    <3> QED
      BY <1>1, <1>2, <3>1, Stepping
  <2>2. Len(stack') = n /\ stack'[n].phase = p /\ stack'[n].todo = Tail(t)
    BY <2>1 DEF Advance
  <2>3. Never(Frees, Frees, t)
    BY <1>2 DEF Good
  <2>4. ~Ahead(Frees, Tail(t))
    BY <1>2, <1>4, <2>3, TailRules
  <2> QED
    BY <1>2, <1>3, <2>2, <2>4 DEF Undeleted
<1>12. Pools'
  BY <1>10, <1>11 DEF Pools
<1> QED
  BY <1>1, <1>5, <1>10, <1>12, QuietStep

\* An analysis returns to its caller.
LEMMA ReturnsStep ==
  ASSUME IInv, GetReturns
  PROVE  IInv'
<1> DEFINE n == Len(stack)
           m == n - 1
           f == stack[m]
           q == stack[n].phase
           h == Head(f.todo)
           got == [f.held EXCEPT ![q] = made']
<1>1. /\ n > 1 /\ stack[n].todo = <<>>
      /\ made' = made + 1 /\ cache' = [cache EXCEPT ![q] = made']
      /\ domCfg' = (IF q = "dominance" THEN fn.cfg ELSE domCfg)
      /\ fn' = [fn EXCEPT !.irMap = IF q = "irmapbuild" THEN made' ELSE fn.irMap,
                          !.meSSATab = IF q = "ssatab" THEN made' ELSE fn.meSSATab]
      /\ stack' = Append(Front(Front(stack)), Done(f, got))
      /\ UNCHANGED mgrVars /\ isCFGChanged' = isCFGChanged
  BY DEF GetReturns, Result, Frame, Last
<1>2. Typed /\ Stacked /\ Relied /\ Running
  BY DEF IInv
<1>3. stack # <<>> /\ n \in Nat
  <2>1. stack \in Seq(FrameType)
    BY <1>2 DEF Typed
  <2> QED
    BY <1>1, <2>1, LenProperties, EmptySeq
<1>4. /\ n \in 2 .. n /\ n \in 1 .. n /\ m \in 1 .. n /\ m \in Nat /\ n # 1 /\ n - 1 = m
      /\ \A i \in 1 .. m : i \in 1 .. n /\ i < n
      /\ \A i \in 2 .. m : i \in 2 .. n /\ i \in 1 .. m
      /\ \A i \in 1 .. m - 1 : i \in 1 .. m
      /\ \A i \in m + 1 .. n : i = n
      /\ 1 \in 1 .. n /\ m \in 1 .. m
  BY <1>1, <1>3
<1>5. /\ q \in Analyses /\ cache[q] = 0 /\ f.todo # <<>> /\ h = Get(q) /\ h \in Allowed(f.phase)
      /\ f \in FrameType /\ f.phase \in Known /\ fn.hasBBs /\ f.todo \in Seq(Allowed(f.phase))
      /\ stack[1].phase = phaseName /\ phaseName \in Name /\ Good(stack[1].phase, stack[1].todo)
      /\ stack[n] \in FrameType
      /\ \A i \in 2 .. n : stack[i].phase \in Analyses /\ cache[stack[i].phase] = 0
  BY <1>2, <1>3, <1>4, AtWork
<1>6. \A i \in 1 .. n : FrameOK(stack[i], Stale, fn.irMap, fn.hasBBs, cache)
  BY <1>2 DEF Relied
<1>7. /\ made \in Nat /\ cache \in [Analyses -> 0 .. made] /\ fn \in FnType
      /\ domCfg \in 0 .. fn.cfg /\ fn.irMap <= made /\ fn.meSSATab <= made
  BY <1>2 DEF Typed
<1>8. made' \in Nat /\ made' # 0 /\ made <= made' /\ 0 .. made \subseteq 0 .. made'
  BY <1>1, <1>7
<1>9. f.held \in [Analyses -> Nat]
  BY <1>5 DEF FrameType
<1>10. /\ got \in [Analyses -> Nat] /\ got[q] = made'
       /\ \A a \in Analyses : a # q => got[a] = f.held[a]
  BY <1>5, <1>8, <1>9
<1> HIDE DEF got
<1>11. Advance(stack, m, got, stack')
  <2>1. stack \in Seq(FrameType)
    BY <1>2 DEF Typed
  <2>2. stack' = Append(Front(Front(stack)), Done(stack[Len(stack) - 1], got))
    BY <1>1
  <2>3. Len(stack) > 1 /\ stack[Len(stack) - 1].todo # <<>>
    BY <1>1, <1>5
  <2> QED
    BY <1>10, <2>1, <2>2, <2>3, AdvanceCaller
<1>12. /\ cache' \in [Analyses -> 0 .. made'] /\ cache'[q] = made'
       /\ \A a \in Analyses : a # q => cache'[a] = cache[a]
  <2>1. made' \in 0 .. made'
    BY <1>8
  <2> QED
    BY <1>1, <1>5, <1>7, <1>8, <2>1
<1>13. /\ fn' \in FnType /\ fn'.hasBBs = fn.hasBBs /\ fn'.cfg = fn.cfg
       /\ fn'.irMap = (IF q = "irmapbuild" THEN made' ELSE fn.irMap)
       /\ fn'.meSSATab = (IF q = "ssatab" THEN made' ELSE fn.meSSATab)
       /\ fn'.versMp = fn.versMp /\ fn'.code = fn.code
  <2>1. PICK x : x = IF q = "irmapbuild" THEN made' ELSE fn.irMap
    OBVIOUS
  <2>2. PICK y : y = IF q = "ssatab" THEN made' ELSE fn.meSSATab
    OBVIOUS
  <2>3. x \in Nat /\ y \in Nat
    BY <1>7, <1>8, <2>1, <2>2 DEF FnType
  <2>4. fn' = [fn EXCEPT !.irMap = x, !.meSSATab = y]
    BY <1>1, <2>1, <2>2
  <2>5. /\ fn' \in FnType /\ fn'.hasBBs = fn.hasBBs /\ fn'.cfg = fn.cfg
        /\ fn'.irMap = x /\ fn'.meSSATab = y /\ fn'.versMp = fn.versMp /\ fn'.code = fn.code
    BY <1>7, <2>3, <2>4 DEF FnType
  <2> QED
    BY <2>1, <2>2, <2>5
<1>14. "dominance" \in Analyses /\ "identloops" \in Analyses /\ "irmapbuild" \in Analyses
       /\ "ssatab" \in Analyses /\ "mepredict" \in Analyses
  BY DEF Analyses
<1>15. \A i \in 1 .. m : stack[i].phase # q
  <2>1. ASSUME NEW i \in 1 .. m PROVE stack[i].phase # q
    <3>1. Level(q) < Level(stack[i].phase)
      BY <1>2, <1>4 DEF Stacked, StackedIn
    <3>2. Level(q) \in Int
      BY DEF Level
    <3> QED
      BY <3>1, <3>2
  <2> QED
    BY <2>1
<1>16. \A i \in 2 .. m : cache'[stack[i].phase] = 0
  BY <1>4, <1>5, <1>12, <1>15, ZenonT(40)
<1>17. /\ q = "dominance" => ~Stale'
       /\ q # "dominance" => Stale' = Stale
  <2>1. q = "dominance" => ~Stale'
    BY <1>1, <1>13 DEF Stale
  <2>2. q # "dominance" => Stale' = Stale
    BY <1>1, <1>12, <1>13, <1>14 DEF Stale
  <2> QED
    BY <2>1, <2>2
<1>18. fn.irMap # 0 => fn'.irMap # 0
  BY <1>8, <1>13
<1>19. h \in Builds => fn'.irMap # 0
  <2>1. h \in Builds => q \in {"irmapbuild", "mepredict"}
    BY <1>5, Kinds
  <2>2. q = "mepredict" => fn.irMap # 0
    <3>1. SUFFICES ASSUME q = "mepredict" PROVE fn.irMap # 0
      OBVIOUS
    <3>2. q \in Builders \cup Predicting
      BY <3>1 DEF Predicting
    <3>3. Ahead(Builds, stack[n].todo) \/ fn.irMap # 0
      BY <1>4, <1>5, <1>6, <3>2 DEF FrameOK
    <3> QED
      BY <1>1, <3>3, GoodNil
  <2> QED
    BY <1>8, <1>13, <1>18, <2>1, <2>2
<1>20. h \notin Clears \cup Flagging \cup Writes
  BY <1>5, Kinds
<1>21. \A i \in 1 .. m : \A a \in Analyses : cache'[a] = cache[a] \/ stack[i].held[a] = 0
  <2>1. \A i \in 1 .. m : \A a \in Analyses : stack[i].held[a] \in {0, cache[a]}
    BY <1>4, <1>6 DEF FrameOK
  <2>2. \A i \in 1 .. m : stack[i].held[q] = 0
    BY <1>5, <2>1
  <2> QED
    BY <1>12, <2>2
<1>22. f.phase \in Emitting \cup Opting => got["dominance"] = 0 /\ got["identloops"] = 0
  <2>1. SUFFICES ASSUME f.phase \in Emitting \cup Opting
                 PROVE  got["dominance"] = 0 /\ got["identloops"] = 0
    OBVIOUS
  <2>2. h.do = "get" /\ h.a = q
    BY <1>5, Doing
  <2>3. q \notin Dominating \cup Looping
    BY <1>5, <2>1, <2>2, AllowedFacts
  <2>4. f.held["dominance"] = 0 /\ f.held["identloops"] = 0
    BY <1>4, <1>6, <2>1 DEF FrameOK
  <2> QED
    BY <1>10, <1>14, <2>3, <2>4 DEF Dominating, Looping
<1>23. \A a \in Analyses : got[a] \in {0, cache'[a]}
  <2>1. \A a \in Analyses : f.held[a] \in {0, cache[a]}
    BY <1>4, <1>6 DEF FrameOK
  <2> QED
    BY <1>10, <1>12, <2>1
<1>24. got["dominance"] # 0 => ~Stale'
  <2>1. f.held["dominance"] # 0 => ~Stale
    BY <1>4, <1>6 DEF FrameOK
  <2> QED
    BY <1>10, <1>14, <1>17, <2>1
<1>25. Relying(m, got)
  <2>1. Stale' => Stale
    BY <1>17
  <2>2. \A i \in 1 .. m - 1 :
          /\ Stale' =>
               Stale \/ (~Needs(Fresh, Clears, stack[i].todo) /\ stack[i].held["dominance"] = 0)
          /\ \A a \in Analyses : cache'[a] = cache[a] \/ stack[i].held[a] = 0
    BY <1>4, <1>21, <2>1
  <2> QED
    BY <1>13, <1>16, <1>18, <1>19, <1>20, <1>22, <1>23, <1>24, <2>1, <2>2 DEF Relying
<1>26. q = "irmapbuild" => Ahead(Builds, stack[1].todo) /\ phaseName \notin Low
  <2>1. SUFFICES ASSUME q = "irmapbuild"
                 PROVE  Ahead(Builds, stack[1].todo) /\ phaseName \notin Low
    OBVIOUS
  <2>2. q \in Mapping
    BY <2>1 DEF Mapping
  <2>3. Ahead(Builds, stack[1].todo)
    BY <1>2, <1>3, <1>4, <2>2, Callers
  <2>4. phaseName \in Known
    BY <1>5 DEF Known
  <2> QED
    BY <1>5, <2>3, <2>4, Asking
<1>27. phaseName \in Early => q # "ssatab"
  <2>1. phaseName \in Early => q \in Dominating
    BY <1>2, <1>3, <1>4, Callers
  <2> QED
    BY <2>1 DEF Dominating
<1>28. Keeping(m)
  <2>1. /\ phaseName \in Early => fn.meSSATab = 0
        /\ phaseName \in Low => fn.irMap = 0
    BY <1>2, <1>3 DEF Running
  <2>2. /\ phaseName \in Early => fn'.meSSATab = 0
        /\ phaseName \in Low => fn'.irMap = 0
        /\ fn'.irMap = fn.irMap \/ Ahead(Builds, stack[1].todo)
    BY <1>13, <1>26, <1>27, <2>1
  <2>3. Stale' => Stale
    BY <1>17
  <2> QED
    BY <1>1, <1>13, <1>18, <1>20, <2>2, <2>3 DEF Keeping
<1>29. Typed'
  <2>1. domCfg' \in 0 .. fn'.cfg
    <3>1. fn.cfg \in Nat
      BY <1>7 DEF FnType
    <3>2. fn.cfg \in 0 .. fn.cfg
      BY <3>1
    <3> QED
      BY <1>1, <1>7, <1>13, <3>2
  <2>2. fn'.irMap <= made' /\ fn'.meSSATab <= made'
    <3>1. fn.irMap \in Nat /\ fn.meSSATab \in Nat
      BY <1>7 DEF FnType
    <3> QED
      BY <1>1, <1>7, <1>13, <3>1
  <2>3. isCFGChanged' \subseteq isCFGChanged \cup {phaseName}
    BY <1>1
  <2> QED
    BY <1>1, <1>2, <1>3, <1>8, <1>11, <1>12, <1>13, <2>1, <2>2, <2>3, TypedAdvance
<1>30. pass' = pass /\ pass > 0
  BY <1>1, <1>2, <1>3 DEF mgrVars, Running
<1>31. Pointers'
  <2>1. /\ fn.irMap = cache["irmapbuild"] /\ fn.meSSATab = cache["ssatab"]
        /\ cache["mepredict"] # 0 => fn.irMap # 0
    BY <1>30 DEF IInv, Pointers
  <2>2. fn'.irMap = cache'["irmapbuild"] /\ fn'.meSSATab = cache'["ssatab"]
    BY <1>12, <1>13, <1>14, <2>1
  <2>3. cache'["mepredict"] # 0 => fn'.irMap # 0
    <3>1. q = "mepredict" => h \in Builds
      BY <1>5, Kinds
    <3> QED
      BY <1>12, <1>14, <1>18, <1>19, <2>1, <3>1
  <2> QED
    BY <1>5, <1>13, <2>2, <2>3 DEF Pointers
<1>32. Pools'
  <2>1. Pools
    BY DEF IInv
  <2>2. cache'["irmapbuild"] = 0 => cache["irmapbuild"] = 0 /\ q # "irmapbuild"
    BY <1>8, <1>12, <1>14
  <2>3. cache'["irmapbuild"] = 0 =>
          /\ cache["irmapbuild"] = 0
          /\ \A i \in m + 1 .. Len(stack) : stack[i].phase \notin Mapping
    BY <1>4, <2>2 DEF Mapping
  <2> QED
    BY <1>2, <1>3, <1>11, <1>13, <1>30, <2>1, <2>3, PoolsAdvance
<1> QED
  BY <1>11, <1>25, <1>28, <1>29, <1>31, <1>32, InvAdvance

\* A result that has to be made first.
LEMMA MissStep ==
  ASSUME IInv, GetMiss
  PROVE  IInv'
<1> DEFINE n == Len(stack)
           f == stack[n]
           p == f.phase
           h == Head(f.todo)
           a == Arg
<1>1. /\ Ready("get") /\ cache[a] = 0
      /\ UNCHANGED mgrVars /\ isCFGChanged' = isCFGChanged /\ cache' = cache /\ made' = made
      /\ domCfg' = domCfg /\ fn' = fn
  BY DEF GetMiss
<1>2. PICK prev, run : /\ run \in Runs(a, prev)
                       /\ stack' = Append(stack, [phase |-> a, todo |-> run, held |-> None])
  BY Zenon DEF GetMiss
<1>3. /\ stack # <<>> /\ n \in Nat /\ n \in 1 .. n /\ f.todo # <<>>
      /\ h \in Allowed(p) /\ h.do = "get" /\ a = h.a /\ p \in Known
      /\ f.todo \in Seq(Allowed(p)) /\ fn.hasBBs /\ pass > 0
      /\ stack[1].phase = phaseName /\ phaseName \in Name
      /\ FrameOK(f, Stale, fn.irMap, fn.hasBBs, cache)
      /\ \A i \in 1 .. n : FrameOK(stack[i], Stale, fn.irMap, fn.hasBBs, cache)
      /\ Typed /\ Stacked /\ Running
  BY <1>1, Innermost
<1>4. /\ a \in Analyses /\ h = Get(a) /\ Level(a) < Level(p)
      /\ p \in Early => a \in Dominating
      /\ a \in Predicting => p \in Emitting
      /\ a \in Mapping => (p \in Analyses => p \in Predicting)
  BY <1>3, AllowedFacts
<1>5. Good(a, run) /\ Starts(a, prev, run) /\ a \in Known
  <2>1. a \in Known
    BY <1>4 DEF Known
  <2> QED
    BY <1>2, <1>3, <2>1, RunsGood
<1>6. PICK g : g = [phase |-> a, todo |-> run, held |-> None]
  OBVIOUS
<1>7. run \in Seq(Allowed(a)) /\ run \in Seq(Steps)
  <2>1. run \in Seq(Allowed(a))
    BY <1>5 DEF Good
  <2>2. Allowed(a) \subseteq Steps
    BY <1>5 DEF Steps
  <2> QED
    BY <2>1, <2>2
<1>8. None \in [Analyses -> Nat] /\ \A b \in Analyses : None[b] = 0
  BY DEF None
<1>9. g \in FrameType /\ g.phase = a /\ g.todo = run /\ g.held = None
  BY <1>5, <1>6, <1>7, <1>8 DEF FrameType
<1>10. /\ stack' \in Seq(FrameType) /\ Len(stack') = n + 1 /\ stack' # <<>>
       /\ \A i \in 1 .. n : stack'[i] = stack[i]
       /\ stack'[n + 1] = g
  <2>1. stack \in Seq(FrameType) /\ stack' = Append(stack, g)
    BY <1>2, <1>3, <1>6 DEF Typed
  <2> QED
    BY <1>9, <2>1, Pushed
<1>11. Ahead(Builds, f.todo) \/ h \notin Builds
  BY <1>3, TailRules
<1>12. /\ 1 \in 1 .. n /\ n >= 1
       /\ \A i \in 1 .. n + 1 : i = n + 1 \/ i \in 1 .. n
       /\ \A i \in 2 .. n + 1 : i = n + 1 \/ i \in 2 .. n
       /\ \A i \in 2 .. n : i \in 1 .. n /\ i - 1 \in 1 .. n
       /\ n + 1 - 1 = n
       /\ \A i \in 1 .. n + 1, j \in 1 .. n + 1 : i < j => i \in 1 .. n
       /\ \A i \in 1 .. n : i = n \/ i < n
  BY <1>3
<1> HIDE DEF n, a
<1>13. n = Len(stack) /\ (n = 1 \/ n # 1) /\ \A i \in 1 .. n : Level(stack[i].phase) \in Int
  BY DEF n, Level
<1>14. Level(a) \in Nat /\ Level(p) \in Nat
  BY DEF Level
<1>15. StackedIn(stack, cache, fn.hasBBs)
  BY <1>3 DEF Stacked
<1>16. \A i \in 1 .. n + 1 : Good(stack'[i].phase, stack'[i].todo) /\ (~fn.hasBBs => stack'[i].todo = <<>>)
  <2>1. \A i \in 1 .. n : Good(stack[i].phase, stack[i].todo)
    BY <1>13, <1>15 DEF StackedIn
  <2>2. \A i \in 1 .. n : Good(stack'[i].phase, stack'[i].todo)
    BY <1>10, <2>1
  <2>3. Good(stack'[n + 1].phase, stack'[n + 1].todo)
    BY <1>5, <1>9, <1>10
  <2> QED
    BY <1>3, <1>12, <2>2, <2>3
<1>17. \A i \in 2 .. n + 1 :
         /\ stack'[i].phase \in Analyses /\ cache[stack'[i].phase] = 0
         /\ stack'[i - 1].todo # <<>> /\ Head(stack'[i - 1].todo) = Get(stack'[i].phase)
  <2>1. \A i \in 2 .. n :
          /\ stack[i].phase \in Analyses /\ cache[stack[i].phase] = 0
          /\ stack[i - 1].todo # <<>> /\ Head(stack[i - 1].todo) = Get(stack[i].phase)
    BY <1>13, <1>15 DEF StackedIn
  <2>2. \A i \in 2 .. n : stack'[i] = stack[i] /\ stack'[i - 1] = stack[i - 1]
    BY <1>10, <1>12
  <2>3. stack'[n] = f /\ stack'[n + 1] = g
    BY <1>3, <1>10
  <2> QED
    <3>1. ASSUME NEW i \in 2 .. n
          PROVE  /\ stack'[i].phase \in Analyses /\ cache[stack'[i].phase] = 0
                 /\ stack'[i - 1].todo # <<>> /\ Head(stack'[i - 1].todo) = Get(stack'[i].phase)
      BY <2>1, <2>2
    <3>2. /\ stack'[n + 1].phase \in Analyses /\ cache[stack'[n + 1].phase] = 0
          /\ stack'[n].todo # <<>> /\ Head(stack'[n].todo) = Get(stack'[n + 1].phase)
      BY <1>1, <1>3, <1>4, <1>9, <2>3
    <3> SUFFICES ASSUME NEW i \in 2 .. n + 1
                 PROVE  /\ stack'[i].phase \in Analyses /\ cache[stack'[i].phase] = 0
                        /\ stack'[i - 1].todo # <<>>
                        /\ Head(stack'[i - 1].todo) = Get(stack'[i].phase)
      OBVIOUS
    <3>3. n \in Nat
      BY <1>3
    <3>4. (i = n + 1 /\ i - 1 = n) \/ i \in 2 .. n
      BY <3>3
    <3> QED
      BY <3>1, <3>2, <3>4
<1>18. \A i, j \in 1 .. n + 1 : i < j => Level(stack'[j].phase) < Level(stack'[i].phase)
  <2>1. SUFFICES ASSUME NEW i \in 1 .. n + 1, NEW j \in 1 .. n + 1, i < j
                 PROVE  Level(stack'[j].phase) < Level(stack'[i].phase)
    OBVIOUS
  <2>2. \A k, l \in 1 .. n : k < l => Level(stack[l].phase) < Level(stack[k].phase)
    BY <1>13, <1>15 DEF StackedIn
  <2>3. i \in 1 .. n /\ stack'[i] = stack[i]
    BY <1>10, <1>12, <2>1
  <2>4. CASE j \in 1 .. n
    BY <1>10, <2>1, <2>2, <2>3, <2>4
  <2>5. CASE j = n + 1
    <3>1. Level(p) <= Level(stack[i].phase)
      <4>1. i = n \/ i < n
        BY <1>12, <2>3
      <4>2. i < n => Level(p) < Level(stack[i].phase)
        BY <1>3, <2>2, <2>3
      <4>3. Level(stack[i].phase) \in Int
        BY <1>13, <2>3
      <4> QED
        BY <1>14, <4>1, <4>2, <4>3
    <3>2. Level(stack[i].phase) \in Int
      BY <1>13, <2>3
    <3>3. Level(a) < Level(stack[i].phase)
      BY <1>4, <1>14, <3>1, <3>2
    <3> QED
      BY <1>9, <1>10, <2>3, <2>5, <3>3
  <2> QED
    BY <1>12, <2>1, <2>4, <2>5
<1>19. n # 1 => p \in Analyses
  BY <1>3, <1>13, Callers
<1>20. a \in Mapping \cup Predicting => Ahead(Builds, stack[1].todo)
  <2>1. a \in Mapping \cup Predicting => h \in Builds
    BY <1>4, Kinds DEF Mapping, Predicting
  <2>2. CASE n = 1
    BY <1>11, <2>1, <2>2
  <2>3. CASE n # 1
    <3>1. p \in Analyses /\ p \notin Emitting
      BY <1>19, <2>3, Apart
    <3>2. a \in Mapping \cup Predicting => p \in Predicting
      BY <1>4, <3>1
    <3>3. p \in Predicting => Ahead(Builds, stack[1].todo)
      BY <1>3, <1>13, Callers
    <3> QED
      BY <3>2, <3>3
  <2> QED
    BY <2>2, <2>3
<1>21. phaseName \in Early => a \in Dominating
  <2>1. CASE n = 1
    BY <1>3, <1>4, <2>1
  <2>2. CASE n # 1
    <3>1. phaseName \in Early => p \in Dominating
      BY <1>3, <1>13, <2>2, Callers
    <3>2. p \in Dominating => Level(p) = 0
      BY DEF Dominating, Level
    <3>3. Level(p) # 0
      BY <1>4, <1>14
    <3> QED
      BY <3>1, <3>2, <3>3
  <2> QED
    BY <2>1, <2>2
<1>22. stack'[1] = stack[1]
  BY <1>10, <1>12
<1>23. \A i \in 2 .. n + 1 :
         /\ stack'[i].phase \in Mapping \cup Predicting => Ahead(Builds, stack'[1].todo)
         /\ stack'[1].phase \in Early => stack'[i].phase \in Dominating
  <2>1. \A i \in 2 .. n :
          /\ stack[i].phase \in Mapping \cup Predicting => Ahead(Builds, stack[1].todo)
          /\ stack[1].phase \in Early => stack[i].phase \in Dominating
    BY <1>13, <1>15 DEF StackedIn
  <2>2. \A i \in 2 .. n : stack'[i] = stack[i]
    BY <1>10, <1>12
  <2> QED
    BY <1>3, <1>9, <1>10, <1>12, <1>20, <1>21, <1>22, <2>1, <2>2
<1>24. Stacked'
  <2>1. StackedIn(stack', cache, fn.hasBBs)
    BY <1>10, <1>16, <1>17, <1>18, <1>23 DEF StackedIn
  <2> QED
    BY <1>1, <2>1 DEF Stacked
<1>25. Stale' = Stale
  BY <1>1 DEF Stale
<1>26. Needs(Fresh, Clears, run) => ~Stale
  <2>1. CASE a # "bblayout"
    <3>1. h \in Fresh
      BY <1>4, <2>1, Kinds
    <3>2. Needs(Fresh, Clears, f.todo)
      BY <1>3, <3>1, TailPatterns
    <3> QED
      BY <1>3, <3>2 DEF FrameOK
  <2>2. CASE a = "bblayout"
    <3>1. SUFFICES ASSUME NEW k \in 1 .. Len(run), run[k] \in Fresh PROVE FALSE
      BY DEF Needs
    <3>2. run[k] \in Allowed(a) /\ run[k].do = "get"
      BY <1>7, <3>1, Doing, ElementOfSeq
    <3>3. Level(run[k].a) < Level(a)
      BY <1>5, <3>2, AllowedFacts
    <3>4. Level(a) = 0 /\ Level(run[k].a) \in Nat
      BY <2>2 DEF Level
    <3> QED
      BY <3>3, <3>4
  <2> QED
    BY <2>1, <2>2
<1>27. Needs(UsesIR, Builds, run) => fn.irMap # 0
  <2>1. CASE a \notin Delegating
    <3>1. a \notin Lacking
      BY <1>4 DEF Lacking, Analyses
    <3> QED
      BY <1>5, <2>1, <3>1 DEF Starts
  <2>2. CASE a \in Delegating
    <3>1. h \in UsesIR
      BY <1>4, <2>2, Kinds DEF Delegating
    <3>2. Needs(UsesIR, Builds, f.todo)
      BY <1>3, <3>1, TailPatterns
    <3> QED
      BY <1>3, <3>2 DEF FrameOK
  <2> QED
    BY <2>1, <2>2
<1>28. a \in Builders \cup Predicting => Ahead(Builds, run)
  BY <1>5 DEF Starts
<1>29. a \notin Emitting \cup Opting
  BY <1>4, Apart
<1>30. FrameOK(g, Stale, fn.irMap, fn.hasBBs, cache)
  <2>1. "dominance" \in Analyses
    BY DEF Analyses
  <2> QED
    BY <1>8, <1>9, <1>26, <1>27, <1>28, <1>29, <2>1 DEF FrameOK
<1>31. Relied'
  <2>1. \A i \in 1 .. n + 1 : FrameOK(stack'[i], Stale, fn.irMap, fn.hasBBs, cache)
    BY <1>3, <1>10, <1>12, <1>30
  <2> QED
    BY <1>1, <1>10, <1>25, <2>1 DEF Relied
<1>32. /\ pass' = pass /\ it' = it /\ phaseName' = phaseName /\ changecfgphase' = changecfgphase
       /\ ran' = ran /\ opt' = opt /\ funcs' = funcs /\ prevPhaseName' = prevPhaseName
  BY <1>1 DEF mgrVars
<1>33. PhaseSeq' = PhaseSeq /\ LastPhase' = LastPhase
  BY <1>32, SameSequence
<1>34. Running'
  BY <1>1, <1>3, <1>22, <1>32, <1>33 DEF Running
<1>35. Clearing'
  BY <1>1, <1>3, <1>22, <1>25, <1>32 DEF Clearing, IInv
<1>36. Emission'
  BY <1>1, <1>3, <1>22, <1>32 DEF Emission, IInv
<1>37. Optimizing'
  BY <1>1, <1>3, <1>22, <1>32 DEF Optimizing, IInv
<1>38. Between'
  BY <1>10 DEF Between
<1>39. Mapped'
  BY <1>1, <1>32, <1>33 DEF Mapped, IInv
<1>40. Loops'
  BY <1>3, <1>10, <1>32, <1>33 DEF Loops, IInv
<1>41. Typed'
  <2>1. pass # 0
    BY <1>3
  <2> QED
    BY <1>1, <1>3, <1>10, <1>32, <1>33, <2>1 DEF Typed
<1>42. Pointers'
  BY <1>1, <1>32 DEF Pointers, IInv
<1>43. Pools'
  <2>1. ASSUME Undeleted', NEW i \in 1 .. n, stack[i].phase \in Mapping
        PROVE  Ahead(Frees, stack[i].todo)
    <3>1. stack'[i] = stack[i] /\ i \in 1 .. Len(stack')
      BY <1>3, <1>10
    <3> QED
      BY <2>1, <3>1 DEF Undeleted
  <2>2. Undeleted' => Undeleted
    BY <1>13, <2>1 DEF Undeleted
  <2> QED
    BY <1>1, <1>32, <2>2 DEF Pools, IInv
<1> QED
  BY <1>24, <1>31, <1>34, <1>35, <1>36, <1>37, <1>38, <1>39, <1>40, <1>41, <1>42, <1>43 DEF IInv
-----------------------------------------------------------------------------
(* Steps of the manager. *)

\* The phases in the sequence.
LEMMA SequenceFacts ==
  ASSUME Typed
  PROVE  /\ LastPhase \in Nat /\ LastPhase >= 1
         /\ \A i \in 1 .. LastPhase : /\ PhaseSeq[i] \in Name /\ PhaseSeq[i] \in ToSet(PhaseSeq)
                                      /\ PhaseSeq[i] \in Emitting <=> i = LastPhase
         /\ \A i, j \in 1 .. LastPhase : i < j =>
              /\ PhaseSeq[i] # PhaseSeq[j]
              /\ PhaseSeq[j] \in Early => PhaseSeq[i] \in Early
              /\ PhaseSeq[j] \in Low => PhaseSeq[i] \in Low
         /\ \A j \in 1 .. LastPhase : PhaseSeq[j] \in Lacking =>
              \E i \in 1 .. j - 1 : PhaseSeq[i] \in Builders
<1>1. Ordered(PhaseSeq)
  BY SequenceOrdered DEF Typed
<1>2. PhaseSeq \in Seq(Name) /\ LastPhase = Len(PhaseSeq) /\ LastPhase > 0
  BY <1>1 DEF Ordered, LastPhase
<1>3. LastPhase \in Nat /\ LastPhase >= 1 /\ DOMAIN PhaseSeq = 1 .. LastPhase
  BY <1>2, LenProperties
<1>4. \A i \in 1 .. LastPhase : PhaseSeq[i] \in Name /\ PhaseSeq[i] \in ToSet(PhaseSeq)
  BY <1>2, <1>3, ElementOfSeq DEF ToSet
<1> QED
  BY <1>1, <1>2, <1>3, <1>4 DEF Ordered

\* No run is in progress.
LEMMA EmptyStack ==
  ASSUME stack' = <<>>
  PROVE  /\ Stacked' /\ Relied' /\ Running' /\ Clearing' /\ Emission' /\ Optimizing'
         /\ Undeleted' /\ stack' \in Seq(FrameType)
<1>1. Len(stack') = 0 /\ 1 .. 0 = {} /\ 2 .. 0 = {} /\ stack' \in Seq(FrameType)
  OBVIOUS
<1>2. Stacked' /\ Relied' /\ Undeleted'
  BY <1>1 DEF Stacked, StackedIn, Relied, Undeleted
<1>3. Running' /\ Clearing' /\ Emission' /\ Optimizing'
  BY DEF Running, Clearing, Emission, Optimizing
<1> QED
  BY <1>1, <1>2, <1>3

\* A function is taken up.
LEMMA StartStep ==
  ASSUME IInv, StartFunc
  PROVE  IInv'
<1>1. /\ pass = 0 /\ funcs < MaxFuncs /\ funcs' = funcs + 1 /\ pass' \in {0, 1} /\ it' = 1
      /\ phaseName' \in NoPhase /\ changecfgphase' \in NoPhase /\ ran' = {}
      /\ made' = 0 /\ domCfg' = 0
      /\ opt' = opt /\ prevPhaseName' = prevPhaseName /\ isCFGChanged' = isCFGChanged
      /\ stack' = stack /\ cache' = cache
  BY Zenon DEF StartFunc, NoPhase
<1>2. PICK b \in BOOLEAN : fn' = NewMeFunction(b)
  BY DEF StartFunc
<1>3. /\ fn' \in FnType /\ fn'.hasBBs = b /\ fn'.cfg = 0 /\ fn'.irMap = 0 /\ fn'.meSSATab = 0
      /\ fn'.versMp = "live" /\ fn'.code = "live"
  BY <1>2, NewFields
<1>4. Typed /\ Between
  BY DEF IInv
<1>5. stack = <<>>
  BY <1>1, <1>4 DEF Typed
<1>6. cache = None /\ isCFGChanged = {}
  BY <1>1, <1>4, <1>5 DEF Between
<1>7. None \in [Analyses -> 0 .. 0] /\ \A a \in Analyses : None[a] = 0
  BY DEF None
<1>8. PhaseSeq' = PhaseSeq /\ LastPhase' = LastPhase
  BY <1>1, SameSequence
<1>9. LastPhase \in Nat /\ LastPhase >= 1
  BY <1>4, SequenceFacts
<1>10. "dominance" \in Analyses /\ "irmapbuild" \in Analyses /\ "ssatab" \in Analyses
       /\ "mepredict" \in Analyses
  BY DEF Analyses
<1>11. /\ Stacked' /\ Relied' /\ Running' /\ Clearing' /\ Emission' /\ Optimizing'
       /\ stack' \in Seq(FrameType)
  BY <1>1, <1>5, EmptyStack
<1>12. Typed'
  <2>1. funcs' \in 0 .. MaxFuncs
    BY <1>1, <1>4, MePhaseManagerAssumption DEF Typed
  <2>2. pass' \in 0 .. 2 /\ it' \in 1 .. LastPhase' + 1
    BY <1>1, <1>8, <1>9
  <2>3. domCfg' \in 0 .. fn'.cfg /\ fn'.irMap <= made' /\ fn'.meSSATab <= made' /\ made' \in Nat
    BY <1>1, <1>3
  <2>4. cache' \in [Analyses -> 0 .. made']
    BY <1>1, <1>6, <1>7
  <2>5. isCFGChanged' \subseteq ToSet(PhaseSeq')
    BY <1>1, <1>6
  <2>6. opt' \in Options /\ prevPhaseName' \in ToSet(PhaseSeq') \cup NoPhase
    BY <1>1, <1>4, <1>8 DEF Typed
  <2> QED
    BY <1>1, <1>3, <1>5, <1>11, <2>1, <2>2, <2>3, <2>4, <2>5, <2>6 DEF Typed
<1>13. Between'
  <2>1. ~Stale'
    BY <1>1, <1>6, <1>7, <1>10 DEF Stale
  <2>2. phaseName' \notin Emitting
    BY <1>1, Zenon DEF NoPhase, Emitting
  <2> QED
    BY <1>1, <1>3, <1>6, <2>1, <2>2 DEF Between
<1>14. Pointers'
  BY <1>1, <1>3, <1>6, <1>7, <1>10 DEF Pointers
<1>15. Pools'
  BY <1>3 DEF Pools
<1>16. Mapped'
  <2>1. 1 .. it' - 1 = {}
    BY <1>1
  <2> QED
    BY <2>1 DEF Mapped
<1>17. Loops'
  <2>1. pass' # 2 /\ \A i \in 1 .. it' : i = it'
    BY <1>1
  <2> QED
    BY <1>1, <1>5, <2>1 DEF Loops
<1> QED
  BY <1>11, <1>12, <1>13, <1>14, <1>15, <1>16, <1>17 DEF IInv

\* The second loop passes over a phase.
LEMMA PassOverStep ==
  ASSUME IInv, PassOver
  PROVE  IInv'
<1>1. /\ pass = 2 /\ pass > 0 /\ stack = <<>> /\ it <= LastPhase /\ PhaseSeq[it] = changecfgphase
      /\ it' = it + 1
      /\ opt' = opt /\ funcs' = funcs /\ pass' = pass /\ phaseName' = phaseName
      /\ prevPhaseName' = prevPhaseName /\ changecfgphase' = changecfgphase /\ ran' = ran
      /\ isCFGChanged' = isCFGChanged /\ stack' = stack /\ cache' = cache /\ made' = made
      /\ domCfg' = domCfg /\ fn' = fn
  BY DEF PassOver, InLoop
<1>2. Typed /\ Between /\ Pointers /\ Pools /\ Mapped /\ Loops
  BY DEF IInv
<1>3. PhaseSeq' = PhaseSeq /\ LastPhase' = LastPhase
  BY <1>1, SameSequence
<1>4. LastPhase \in Nat /\ it \in Nat /\ it >= 1 /\ it \in 1 .. LastPhase
  <2>1. LastPhase \in Nat /\ it \in 1 .. LastPhase + 1
    BY <1>2, SequenceFacts DEF Typed
  <2> QED
    BY <1>1, <2>1
<1>5. PhaseSeq[it] \in Opting /\ PhaseSeq[it] # opt.skipFrom
  BY <1>1, <1>2 DEF Loops
<1>6. it # LastPhase /\ PhaseSeq[it] \notin Low \cup Builders /\ Early \subseteq Low
  BY <1>2, <1>4, <1>5, SequenceFacts, Apart
<1>7. it < LastPhase /\ it' \in 1 .. LastPhase /\ it < it' /\ it \in 1 .. it
  BY <1>1, <1>4, <1>6
<1>8. /\ Stacked' /\ Relied' /\ Running' /\ Clearing' /\ Emission' /\ Optimizing'
      /\ stack' \in Seq(FrameType)
  BY <1>1, EmptyStack
<1>9. Typed'
  <2>1. it' \in 1 .. LastPhase' + 1
    BY <1>3, <1>4, <1>7
  <2> QED
    BY <1>1, <1>2, <1>3, <1>8, <2>1 DEF Typed
<1>10. Stale' = Stale
  BY <1>1 DEF Stale
<1>11. Between'
  <2>1. PhaseSeq[it'] \in Low => PhaseSeq[it] \in Low
    BY <1>2, <1>4, <1>7, SequenceFacts
  <2>2. PhaseSeq[it'] \notin Low \cup Early
    BY <1>6, <2>1
  <2>3. ~(it' > LastPhase)
    BY <1>4, <1>7
  <2>4. /\ isCFGChanged = {} /\ ~Stale /\ phaseName \notin Emitting
        /\ fn.irMap # 0 => phaseName \in kHssaPhases
    BY <1>1, <1>2 DEF Between
  <2>5. pass # 0
    BY <1>1
  <2> QED
    BY <1>1, <1>3, <1>10, <2>2, <2>3, <2>4, <2>5 DEF Between
<1>12. Pointers'
  BY <1>1, <1>2 DEF Pointers
<1>13. Pools'
  BY <1>1, <1>2 DEF Pools, Undeleted
<1>14. Mapped'
  <2>1. \A j \in 1 .. it' - 1 : j = it \/ j \in 1 .. it - 1
    BY <1>1, <1>4
  <2>2. (\E j \in 1 .. it' - 1 : PhaseSeq[j] \in Builders) => \E j \in 1 .. it - 1 : PhaseSeq[j] \in Builders
    BY <1>6, <2>1
  <2> QED
    BY <1>1, <1>2, <1>3, <1>7, <2>2 DEF Mapped
<1>15. Loops'
  <2>1. /\ changecfgphase \in Opting /\ changecfgphase # opt.skipFrom
        /\ \A r \in ran : r[1] <= pass /\ r = <<r[1], r[2]>> /\ r[1] \in Nat
    BY <1>1, <1>2 DEF Loops
  <2>2. \A r \in ran : r[1] = pass => \E j \in 1 .. it : r[2] = PhaseSeq[j] /\ j < it
    BY <1>1, <1>2 DEF Loops
  <2>3. \A j \in 1 .. it : j \in 1 .. it' /\ j < it'
    BY <1>1, <1>4
  <2>4. <<pass, opt.skipAfter>> \notin ran
    BY <1>1, <1>2, <1>7 DEF Loops
  <2>5. \A i \in 1 .. it : PhaseSeq[i] = opt.skipFrom => i = it
    BY <1>1, <1>2, <1>7 DEF Loops
  <2>6. \A i \in 1 .. it : PhaseSeq[i] # opt.skipFrom
    BY <1>5, <2>5
  <2>7. \A i \in 1 .. it' : i = it' \/ i \in 1 .. it
    BY <1>1, <1>4
  <2>8. \A i \in 1 .. it' : PhaseSeq[i] = opt.skipFrom => i = it'
    BY <2>6, <2>7
  <2>9. \A r \in ran : r[1] = pass => \E j \in 1 .. it' : r[2] = PhaseSeq[j] /\ j < it'
    BY <2>2, <2>3
  <2>10. pass # 1
    BY <1>1
  <2> QED
    BY <1>1, <1>3, <2>1, <2>4, <2>8, <2>9, <2>10 DEF Loops
<1> QED
  BY <1>8, <1>9, <1>11, <1>12, <1>13, <1>14, <1>15 DEF IInv

\* The function is done with.
LEMMA EndStep ==
  ASSUME IInv, EndFunc
  PROVE  IInv'
<1>1. /\ pass > 0 /\ stack = <<>> /\ it > LastPhase /\ cache' = None /\ pass' = 0
      /\ opt' = opt /\ funcs' = funcs /\ it' = it /\ phaseName' = phaseName
      /\ prevPhaseName' = prevPhaseName /\ changecfgphase' = changecfgphase /\ ran' = ran
      /\ isCFGChanged' = isCFGChanged /\ stack' = stack /\ made' = made
      /\ domCfg' = domCfg /\ fn' = fn
  BY DEF EndFunc
<1>2. Typed /\ Between /\ Pools
  BY DEF IInv
<1>3. PhaseSeq' = PhaseSeq /\ LastPhase' = LastPhase
  BY <1>1, SameSequence
<1>4. fn.code = "live" /\ isCFGChanged = {}
  BY <1>1, <1>2 DEF Between
<1>5. ~(pass' > 0) /\ pass' \in 0 .. 2 /\ pass' # 1 /\ pass' # 2
  BY <1>1
<1>6. /\ Stacked' /\ Relied' /\ Running' /\ Clearing' /\ Emission' /\ Optimizing'
      /\ stack' \in Seq(FrameType)
  BY <1>1, EmptyStack
<1>7. Typed'
  <2>1. made \in Nat
    BY <1>2 DEF Typed
  <2>2. cache' \in [Analyses -> 0 .. made]
    BY <1>1, <2>1 DEF None
  <2> QED
    BY <1>1, <1>2, <1>3, <1>5, <1>6, <2>2 DEF Typed
<1>8. Between'
  BY <1>1, <1>4, <1>5 DEF Between
<1>9. Pointers'
  BY <1>1, <1>5 DEF Pointers
<1>10. Pools'
  BY <1>1, <1>2, <1>5 DEF Pools
<1>11. Mapped' /\ Loops'
  BY <1>5 DEF Mapped, Loops
<1> QED
  BY <1>6, <1>7, <1>8, <1>9, <1>10, <1>11 DEF IInv

\* Nothing happens.
LEMMA StutterStep ==
  ASSUME IInv, UNCHANGED vars
  PROVE  IInv'
<1>1. /\ opt' = opt /\ funcs' = funcs /\ pass' = pass /\ it' = it /\ phaseName' = phaseName
      /\ prevPhaseName' = prevPhaseName /\ changecfgphase' = changecfgphase /\ ran' = ran
      /\ isCFGChanged' = isCFGChanged /\ stack' = stack /\ cache' = cache /\ made' = made
      /\ domCfg' = domCfg /\ fn' = fn
  BY DEF vars, mgrVars
<1>2. PhaseSeq' = PhaseSeq /\ LastPhase' = LastPhase
  BY <1>1, SameSequence
<1>3. Stale' = Stale
  BY <1>1 DEF Stale
<1>4. Typed'
  BY <1>1, <1>2 DEF Typed, IInv
<1>5. Stacked' /\ Relied'
  BY <1>1, <1>3 DEF Stacked, Relied, IInv
<1>6. Running' /\ Clearing' /\ Emission' /\ Optimizing'
  BY <1>1, <1>2, <1>3 DEF Running, Clearing, Emission, Optimizing, IInv
<1>7. Between' /\ Pointers' /\ Pools'
  BY <1>1, <1>2, <1>3 DEF Between, Pointers, Pools, Undeleted, IInv
<1>8. Mapped' /\ Loops'
  BY <1>1, <1>2 DEF Mapped, Loops, IInv
<1> QED
  BY <1>4, <1>5, <1>6, <1>7, <1>8 DEF IInv

\* The manager runs a phase.
LEMMA RunStep ==
  ASSUME IInv, RunFuncPhase
  PROVE  IInv'
<1> DEFINE p == phaseName'
<1>1. /\ pass > 0 /\ stack = <<>> /\ it <= LastPhase
      /\ ~(pass = 2 /\ PhaseSeq[it] = changecfgphase)
      /\ it' = (IF PhaseSeq[it] = opt.skipFrom THEN LastPhase ELSE it)
      /\ prevPhaseName' = phaseName /\ phaseName' = PhaseSeq[it']
      /\ ran' = ran \cup {<<pass, phaseName'>>}
      /\ opt' = opt /\ funcs' = funcs /\ pass' = pass /\ changecfgphase' = changecfgphase
      /\ isCFGChanged' = isCFGChanged /\ cache' = cache /\ made' = made /\ domCfg' = domCfg
      /\ fn' = fn
  BY DEF RunFuncPhase, InLoop
<1>2. PICK run \in Runs(p, phaseName) :
        stack' = <<[phase |-> phaseName', todo |-> run, held |-> None]>>
  BY DEF RunFuncPhase
<1>3. Typed /\ Between /\ Pointers /\ Pools /\ Mapped /\ Loops
  BY DEF IInv
<1>4. PhaseSeq' = PhaseSeq /\ LastPhase' = LastPhase
  BY <1>1, SameSequence
<1>5. /\ LastPhase \in Nat /\ it \in 1 .. LastPhase /\ it' \in 1 .. LastPhase /\ it \in Nat
      /\ (it' = it \/ (it' = LastPhase /\ it < it')) /\ it <= it' /\ it' \in Nat
  <2>1. LastPhase \in Nat /\ LastPhase >= 1 /\ it \in 1 .. LastPhase + 1
    BY <1>3, SequenceFacts DEF Typed
  <2>2. it \in 1 .. LastPhase /\ LastPhase \in 1 .. LastPhase /\ it \in Nat
        /\ (it = LastPhase \/ it < LastPhase)
    BY <1>1, <2>1
  <2>3. it' = it \/ it' = LastPhase
    BY <1>1
  <2> QED
    BY <2>1, <2>2, <2>3
<1>6. p \in Name /\ p \in ToSet(PhaseSeq) /\ p \in Known
  BY <1>1, <1>3, <1>5, SequenceFacts DEF Known
<1>7. /\ p \in Emitting <=> it' = LastPhase
      /\ p \in Early => PhaseSeq[it] \in Early
      /\ p \in Low => PhaseSeq[it] \in Low
  <2>1. p \in Emitting <=> it' = LastPhase
    BY <1>1, <1>3, <1>5, SequenceFacts
  <2>2. it < it' => /\ p \in Early => PhaseSeq[it] \in Early
                    /\ p \in Low => PhaseSeq[it] \in Low
    BY <1>1, <1>3, <1>5, SequenceFacts
  <2> QED
    BY <1>1, <1>5, <2>1, <2>2
<1>8. /\ isCFGChanged = {} /\ ~Stale /\ phaseName \notin Emitting
      /\ p \in Early => fn.meSSATab = 0
      /\ p \in Low => fn.irMap = 0
      /\ fn.irMap # 0 => phaseName \in kHssaPhases
  BY <1>1, <1>3, <1>7 DEF Between
<1>9. /\ Good(p, run) /\ (fn.hasBBs => Starts(p, phaseName, run)) /\ (~fn.hasBBs => run = <<>>)
  BY <1>2, <1>6, RunsGood
<1>10. run \in Seq(Steps)
  <2>1. run \in Seq(Allowed(p))
    BY <1>9 DEF Good
  <2>2. Allowed(p) \subseteq Steps
    BY <1>6 DEF Steps
  <2> QED
    BY <2>1, <2>2
<1>11. None \in [Analyses -> Nat] /\ \A b \in Analyses : None[b] = 0
  BY DEF None
<1>12. PICK g : g = [phase |-> p, todo |-> run, held |-> None]
  OBVIOUS
<1>13. g \in FrameType /\ g.phase = p /\ g.todo = run /\ g.held = None
  BY <1>6, <1>10, <1>11, <1>12 DEF FrameType
<1>14. /\ stack' \in Seq(FrameType) /\ Len(stack') = 1 /\ stack' # <<>> /\ stack'[1] = g
       /\ 1 .. 1 = {1} /\ 2 .. 1 = {}
  <2>1. stack' = <<g>>
    BY <1>2, <1>12
  <2> QED
    BY <1>13, <2>1
<1> HIDE DEF p
<1>15. p = phaseName'
  BY DEF p
<1>16. Stale' = Stale
  BY <1>1 DEF Stale
<1>17. ~fn.hasBBs => \A S, U : ~Ahead(S, run) /\ ~Needs(S, U, run)
  BY <1>9, GoodNil
<1>18. Stacked'
  <2>1. \A i, j \in 1 .. 1 : ~(i < j)
    OBVIOUS
  <2>2. \A i \in 1 .. 1 : Good(stack'[i].phase, stack'[i].todo) /\ (~fn.hasBBs => stack'[i].todo = <<>>)
    BY <1>9, <1>13, <1>14
  <2>3. StackedIn(stack', cache, fn.hasBBs)
    BY <1>14, <2>1, <2>2 DEF StackedIn
  <2> QED
    BY <1>1, <2>3 DEF Stacked
<1>19. it' < LastPhase => it' = it
  BY <1>5
<1>20. p \in Lacking /\ fn.hasBBs => fn.irMap # 0
  <2>1. SUFFICES ASSUME p \in Lacking, fn.hasBBs PROVE fn.irMap # 0
    OBVIOUS
  <2>2. p \notin Emitting
    BY <2>1, Apart
  <2>3. it' # LastPhase
    BY <1>7, <2>2
  <2>4. it' = it /\ it < LastPhase
    BY <1>5, <2>3
  <2>5. \E i \in 1 .. it - 1 : PhaseSeq[i] \in Builders
    BY <1>1, <1>3, <1>5, <1>15, <2>1, <2>4, SequenceFacts
  <2> QED
    BY <1>1, <1>3, <2>1, <2>4, <2>5 DEF Mapped
<1>21. Needs(UsesIR, Builds, run) => fn.irMap # 0
  <2>1. p \notin Delegating
    BY <1>6, Apart
  <2> QED
    BY <1>9, <1>17, <1>20, <2>1 DEF Starts
<1>22. p \in Builders \cup Predicting /\ fn.hasBBs => Ahead(Builds, run)
  BY <1>9 DEF Starts
<1>23. Relied'
  <2>1. "dominance" \in Analyses /\ "identloops" \in Analyses
    BY DEF Analyses
  <2>2. FrameOK(g, Stale, fn.irMap, fn.hasBBs, cache)
    BY <1>8, <1>11, <1>13, <1>21, <1>22, <2>1 DEF FrameOK
  <2>3. \A i \in 1 .. Len(stack') : FrameOK(stack'[i], Stale, fn.irMap, fn.hasBBs, cache)
    BY <1>14, <2>2
  <2> QED
    BY <1>1, <1>16, <2>3 DEF Relied
<1>24. Running'
  <2>1. \A q \in isCFGChanged' : q \in Opting /\ q = p
    BY <1>1, <1>8
  <2> QED
    BY <1>1, <1>4, <1>5, <1>8, <1>13, <1>14, <1>15, <2>1 DEF Running
<1>25. Clearing'
  BY <1>8, <1>16 DEF Clearing
<1>26. fn.irMap = 0 => fn.code = "live"
  <2>1. fn.irMap = 0 => cache["irmapbuild"] = 0
    BY <1>1, <1>3 DEF Pointers
  <2>2. Undeleted
    <3>1. Len(stack) = 0 /\ 1 .. 0 = {}
      BY <1>1
    <3> QED
      BY <3>1 DEF Undeleted
  <2> QED
    BY <1>1, <1>3, <2>1, <2>2 DEF Pools
<1>27. ~fn.hasBBs => fn.irMap = 0
  <2>1. ~fn.hasBBs => cache["irmapbuild"] = 0
    <3>1. ~fn.hasBBs => cache = None
      BY <1>3 DEF Pointers
    <3>2. "irmapbuild" \in Analyses
      BY DEF Analyses
    <3> QED
      BY <1>11, <3>1, <3>2
  <2> QED
    BY <1>1, <1>3, <2>1 DEF Pointers
<1>28. Emission'
  <2>1. SUFFICES ASSUME p \in Emitting
                 PROVE  /\ Ahead(Writes, run) \/ (fn.code = "live" /\ ~Ahead(Builds, run))
                        /\ Ahead(Keeps, run) =>
                             ~Ahead(Builds, run) /\ fn.irMap = 0 /\ fn.code = "live"
    BY <1>1, <1>13, <1>14, <1>15 DEF Emission
  <2>2. CASE ~fn.hasBBs
    BY <1>17, <1>26, <1>27, <2>2
  <2>3. CASE fn.hasBBs /\ phaseName \in kHssaPhases
    BY <1>9, <2>1, <2>3 DEF Starts
  <2>4. CASE fn.hasBBs /\ phaseName \notin kHssaPhases
    <3>1. ~Ahead(Builds, run)
      BY <1>9, <2>1, <2>4 DEF Starts
    <3> QED
      BY <1>8, <1>26, <2>4, <3>1
  <2> QED
    BY <2>2, <2>3, <2>4
<1>29. Optimizing'
  <2>1. SUFFICES ASSUME p \in Opting
                 PROVE  pass = 1 /\ (Ahead(Layout, run) => Ahead(Flagging, run)) /\ p \notin isCFGChanged
    BY <1>1, <1>13, <1>14, <1>15 DEF Optimizing
  <2>2. Ahead(Layout, run) => Ahead(Flagging, run)
    BY <1>9, <1>17, <2>1 DEF Starts
  <2>3. p \notin Emitting
    BY <2>1, Apart
  <2>4. it' = it
    BY <1>5, <1>7, <2>3
  <2>5. pass # 2
    <3>1. pass = 2 => changecfgphase \in Opting
      BY <1>3 DEF Loops
    <3>2. pass = 2 => changecfgphase = p
      BY <2>1, <3>1 DEF Opting
    <3> QED
      BY <1>1, <1>15, <2>4, <3>2
  <2>6. pass = 1
    <3>1. pass \in 0 .. 2
      BY <1>3 DEF Typed
    <3> QED
      BY <1>1, <2>5, <3>1
  <2> QED
    BY <1>8, <2>2, <2>6
<1>30. Typed'
  <2>1. pass # 0 /\ it' \in 1 .. LastPhase + 1
    BY <1>1, <1>5
  <2>2. prevPhaseName' \in ToSet(PhaseSeq) \cup NoPhase
    BY <1>1, <1>3 DEF Typed
  <2> QED
    BY <1>1, <1>3, <1>4, <1>6, <1>14, <1>15, <2>1, <2>2 DEF Typed
<1>31. Between'
  BY <1>14 DEF Between
<1>32. Pointers'
  BY <1>1, <1>3 DEF Pointers
<1>33. Pools'
  <2>1. Undeleted
    <3>1. Len(stack) = 0 /\ 1 .. 0 = {}
      BY <1>1
    <3> QED
      BY <3>1 DEF Undeleted
  <2> QED
    BY <1>1, <1>3, <2>1 DEF Pools
<1>34. Mapped'
  BY <1>1, <1>3, <1>4, <1>5, <1>19 DEF Mapped
<1>35. Loops'
  <2>1. PICK r : r = <<pass, p>>
    OBVIOUS
  <2>2. r[1] = pass /\ r[2] = p /\ r = <<r[1], r[2]>> /\ ran' = ran \cup {r}
    BY <1>1, <1>15, <2>1
  <2>3. pass \in Nat /\ pass <= pass
    BY <1>3 DEF Typed
  <2>4. \A s \in ran' : s[1] <= pass /\ s = <<s[1], s[2]>> /\ s[1] \in Nat
    <3>1. \A s \in ran : s[1] <= pass /\ s = <<s[1], s[2]>> /\ s[1] \in Nat
      BY <1>1, <1>3 DEF Loops
    <3> QED
      BY <2>2, <2>3, <3>1
  <2>5. \A s \in ran' : s[1] = pass => \E j \in 1 .. it' : s[2] = PhaseSeq[j]
    <3>1. \A s \in ran : s[1] = pass => \E j \in 1 .. it : s[2] = PhaseSeq[j]
      BY <1>1, <1>3 DEF Loops
    <3>2. it' \in 1 .. it' /\ \A j \in 1 .. it : j \in 1 .. it'
      BY <1>5
    <3>3. p = PhaseSeq[it']
      BY <1>1, <1>15
    <3> QED
      BY <2>2, <3>1, <3>2, <3>3
  <2>6. <<pass, opt.skipAfter>> \in ran' /\ it' < LastPhase => p = opt.skipAfter
    <3>1. SUFFICES ASSUME <<pass, opt.skipAfter>> \in ran', it' < LastPhase PROVE p = opt.skipAfter
      OBVIOUS
    <3>2. <<pass, opt.skipAfter>> \notin ran
      BY <1>1, <1>3, <1>19, <3>1 DEF Loops
    <3>3. <<pass, opt.skipAfter>> = r
      BY <2>2, <3>1, <3>2
    <3> QED
      BY <2>1, <3>3
  <2>7. it' < LastPhase => \A i \in 1 .. it' : PhaseSeq[i] # opt.skipFrom
    <3>1. SUFFICES ASSUME it' < LastPhase PROVE \A i \in 1 .. it : PhaseSeq[i] # opt.skipFrom
      BY <1>19
    <3>2. it' = it
      BY <1>19, <3>1
    <3>3. PhaseSeq[it] # opt.skipFrom
      <4>1. it' # LastPhase
        BY <1>5, <3>1
      <4> QED
        BY <1>1, <4>1
    <3>4. \A i \in 1 .. it : PhaseSeq[i] = opt.skipFrom => i = it
      BY <1>1, <1>3, <3>1, <3>2 DEF Loops
    <3> QED
      BY <3>3, <3>4
  <2>8. /\ pass = 2 => changecfgphase \in Opting /\ changecfgphase # opt.skipFrom
        /\ pass = 1 => changecfgphase \in NoPhase
    BY <1>3 DEF Loops
  <2> QED
    BY <1>1, <1>4, <1>14, <1>15, <2>4, <2>5, <2>6, <2>7, <2>8 DEF Loops
<1> QED
  BY <1>18, <1>23, <1>24, <1>25, <1>28, <1>29, <1>30, <1>31, <1>32, <1>33, <1>34, <1>35 DEF IInv

\* The result a phase of the manager may leave.
LEMMA ResultAdded ==
  ASSUME Typed, NEW p \in Name, stack # <<>>, Last(stack).phase = p, AddResult
  PROVE  /\ made' \in Nat /\ cache' \in [Analyses -> 0 .. made'] /\ fn' \in FnType
         /\ domCfg' = domCfg /\ fn'.cfg = fn.cfg /\ fn'.hasBBs = fn.hasBBs
         /\ fn'.irMap = fn.irMap /\ fn'.versMp = fn.versMp /\ fn'.code = fn.code
         /\ fn'.irMap <= made' /\ fn'.meSSATab <= made'
         /\ cache'["dominance"] = cache["dominance"] /\ cache'["irmapbuild"] = cache["irmapbuild"]
         /\ cache'["mepredict"] = cache["mepredict"]
         /\ fn.meSSATab = cache["ssatab"] => fn'.meSSATab = cache'["ssatab"]
         /\ p \in Early => fn'.meSSATab = fn.meSSATab
         /\ ~fn.hasBBs => cache' = cache
<1>1. /\ made \in Nat /\ cache \in [Analyses -> 0 .. made] /\ fn \in FnType
      /\ fn.irMap <= made /\ fn.meSSATab <= made
  BY DEF Typed
<1>2. fn.irMap \in Nat /\ fn.meSSATab \in Nat
  BY <1>1 DEF FnType
<1>3. /\ "dominance" \in Analyses /\ "irmapbuild" \in Analyses /\ "mepredict" \in Analyses
      /\ "ssatab" \in Analyses
  BY DEF Analyses
<1>4. CASE p \in Analyses /\ fn.hasBBs
  <2>1. /\ p \notin Early
        /\ p # "dominance" /\ p # "irmapbuild" /\ p # "mepredict"
    BY <1>4, Apart DEF Dominating, Mapping, Predicting
  <2>2. /\ made' = made + 1 /\ cache' = [cache EXCEPT ![p] = made'] /\ domCfg' = domCfg
        /\ fn' = [fn EXCEPT !.irMap = fn.irMap,
                            !.meSSATab = IF p = "ssatab" THEN made' ELSE fn.meSSATab]
    BY <1>4, <2>1 DEF AddResult, Result, Frame
  <2>3. made' \in Nat /\ made <= made' /\ made' \in 0 .. made' /\ 0 .. made \subseteq 0 .. made'
    BY <1>1, <2>2
  <2>4. PICK y : y = IF p = "ssatab" THEN made' ELSE fn.meSSATab
    OBVIOUS
  <2>5. y \in Nat /\ y <= made' /\ fn.irMap <= made'
    BY <1>1, <1>2, <2>2, <2>4
  <2>6. fn' = [fn EXCEPT !.irMap = fn.irMap, !.meSSATab = y]
    BY <2>2, <2>4
  <2>7. /\ fn' \in FnType /\ fn'.cfg = fn.cfg /\ fn'.hasBBs = fn.hasBBs /\ fn'.irMap = fn.irMap
        /\ fn'.meSSATab = y /\ fn'.versMp = fn.versMp /\ fn'.code = fn.code
    BY <1>1, <1>2, <2>5, <2>6 DEF FnType
  <2>8. /\ cache' \in [Analyses -> 0 .. made'] /\ cache'[p] = made'
        /\ \A a \in Analyses : a # p => cache'[a] = cache[a]
    BY <1>1, <1>4, <2>2, <2>3
  <2>9. fn.meSSATab = cache["ssatab"] => fn'.meSSATab = cache'["ssatab"]
    BY <1>3, <2>4, <2>7, <2>8
  <2>10. /\ cache'["dominance"] = cache["dominance"] /\ cache'["irmapbuild"] = cache["irmapbuild"]
         /\ cache'["mepredict"] = cache["mepredict"]
    BY <1>3, <2>1, <2>8
  <2> QED
    BY <1>4, <2>1, <2>2, <2>3, <2>5, <2>7, <2>8, <2>9, <2>10
<1>5. CASE ~(p \in Analyses /\ fn.hasBBs)
  <2>1. cache' = cache /\ made' = made /\ domCfg' = domCfg /\ fn' = fn
    BY <1>5, Zenon DEF AddResult, Frame
  <2> QED
    BY <1>1, <2>1
<1> QED
  BY <1>4, <1>5

\* What is known when a phase of the manager is done.
LEMMA Returning ==
  ASSUME IInv, PhaseReturns
  PROVE  /\ stack # <<>> /\ Len(stack) = 1 /\ Last(stack) = stack[1] /\ Frame.phase = phaseName
         /\ stack[1].phase = phaseName /\ phaseName = PhaseSeq[it] /\ phaseName \in Name
         /\ LastPhase \in Nat /\ it \in Nat /\ it \in 1 .. LastPhase /\ it >= 1 /\ pass > 0
         /\ phaseName \in Emitting <=> it = LastPhase
         /\ \A S : ~Ahead(S, stack[1].todo)
         /\ FrameOK(stack[1], Stale, fn.irMap, fn.hasBBs, cache)
         /\ Undeleted
<1>1. Len(stack) = 1 /\ Frame.todo = <<>> /\ Frame = stack[Len(stack)] /\ Last(stack) = stack[1]
  BY DEF PhaseReturns, Frame, Last
<1>2. Typed /\ Stacked /\ Relied /\ Running
  BY DEF IInv
<1>3. stack # <<>>
  BY <1>1, EmptySeq
<1>4. /\ stack[1].phase = phaseName /\ phaseName = PhaseSeq[it] /\ it \in 1 .. LastPhase /\ pass > 0
  BY <1>2, <1>3 DEF Running
<1>5. LastPhase \in Nat /\ phaseName \in Name /\ (phaseName \in Emitting <=> it = LastPhase)
  BY <1>2, <1>4, SequenceFacts
<1>6. it \in Nat /\ it >= 1
  BY <1>4, <1>5
<1>7. \A S : ~Ahead(S, stack[1].todo)
  BY <1>1, GoodNil
<1>8. FrameOK(stack[1], Stale, fn.irMap, fn.hasBBs, cache)
  <2>1. 1 \in 1 .. Len(stack)
    BY <1>1
  <2> QED
    BY <1>2, <2>1 DEF Relied
<1>9. Undeleted
  <2>1. 1 .. 1 = {1} /\ phaseName \notin Mapping
    BY <1>5, Apart
  <2> QED
    BY <1>1, <1>4, <2>1 DEF Undeleted
<1> QED
  BY <1>1, <1>3, <1>4, <1>5, <1>6, <1>7, <1>8, <1>9

\* The manager goes on with the next phase.
LEMMA NextStep ==
  ASSUME IInv, NextPhase
  PROVE  IInv'
<1> DEFINE p == phaseName
<1>1. /\ PhaseReturns /\ ~(pass = 1 /\ Frame.phase \in isCFGChanged) /\ AddResult
      /\ it' = (IF phaseName = opt.skipAfter THEN LastPhase ELSE it + 1)
      /\ stack' = <<>>
      /\ opt' = opt /\ funcs' = funcs /\ pass' = pass /\ phaseName' = phaseName
      /\ prevPhaseName' = prevPhaseName /\ changecfgphase' = changecfgphase /\ ran' = ran
      /\ isCFGChanged' = isCFGChanged
  BY DEF NextPhase
<1>2. /\ stack # <<>> /\ Last(stack) = stack[1] /\ Frame.phase = p /\ stack[1].phase = p
      /\ p = PhaseSeq[it] /\ p \in Name
      /\ LastPhase \in Nat /\ it \in Nat /\ it \in 1 .. LastPhase /\ it >= 1 /\ pass > 0
      /\ p \in Emitting <=> it = LastPhase
      /\ \A S : ~Ahead(S, stack[1].todo)
      /\ FrameOK(stack[1], Stale, fn.irMap, fn.hasBBs, cache)
      /\ Undeleted
  BY <1>1, Returning
<1>3. /\ Typed /\ Running /\ Clearing /\ Emission /\ Optimizing /\ Pointers /\ Pools /\ Mapped
      /\ Loops
  BY DEF IInv
<1>4. /\ made' \in Nat /\ cache' \in [Analyses -> 0 .. made'] /\ fn' \in FnType
      /\ domCfg' = domCfg /\ fn'.cfg = fn.cfg /\ fn'.hasBBs = fn.hasBBs
      /\ fn'.irMap = fn.irMap /\ fn'.versMp = fn.versMp /\ fn'.code = fn.code
      /\ fn'.irMap <= made' /\ fn'.meSSATab <= made'
      /\ cache'["dominance"] = cache["dominance"] /\ cache'["irmapbuild"] = cache["irmapbuild"]
      /\ cache'["mepredict"] = cache["mepredict"]
      /\ fn.meSSATab = cache["ssatab"] => fn'.meSSATab = cache'["ssatab"]
      /\ p \in Early => fn'.meSSATab = fn.meSSATab
      /\ ~fn.hasBBs => cache' = cache
  <2>1. stack # <<>> /\ Last(stack).phase = p /\ p \in Name
    BY <1>2
  <2> QED
    BY <1>1, <1>3, <2>1, ResultAdded
<1>5. PhaseSeq' = PhaseSeq /\ LastPhase' = LastPhase
  BY <1>1, SameSequence
<1>6. isCFGChanged = {}
  <2>1. SUFFICES ASSUME NEW q \in isCFGChanged PROVE FALSE
    OBVIOUS
  <2>2. p \in Opting /\ p \in isCFGChanged
    BY <1>2, <1>3, <2>1 DEF Running
  <2>3. pass = 1
    BY <1>2, <1>3, <2>2 DEF Optimizing
  <2> QED
    BY <1>1, <1>2, <2>2, <2>3
<1>7. p \in Emitting => p # opt.skipAfter
  <2>1. opt.skipAfter # "emit"
    BY <1>3, MePhaseManagerAssumption DEF Typed
  <2> QED
    BY <2>1 DEF Emitting
<1>8. /\ p \in Emitting => it' = LastPhase + 1
      /\ p \notin Emitting => it < it' /\ it' \in 1 .. LastPhase
      /\ it' < LastPhase => it' = it + 1 /\ p # opt.skipAfter /\ it < LastPhase
      /\ it' \in 1 .. LastPhase + 1 /\ it' <= LastPhase => p \notin Emitting
      /\ it < it'
      /\ \A j \in 1 .. it : j \in 1 .. it' /\ j < it'
  <2>1. p \in Emitting => it' = it + 1 /\ it' = LastPhase + 1
    BY <1>1, <1>2, <1>7
  <2>2. p \notin Emitting => it < LastPhase
    BY <1>2
  <2>3. p \notin Emitting => it < it' /\ it' \in 1 .. LastPhase
    BY <1>1, <1>2, <2>2
  <2>4. it' < LastPhase => p # opt.skipAfter /\ it' = it + 1 /\ it < LastPhase
    BY <1>1, <1>2
  <2>5. it' \in 1 .. LastPhase + 1 /\ (it' <= LastPhase => p \notin Emitting)
    BY <1>2, <2>1, <2>3
  <2>6. it < it'
    BY <1>2, <2>1, <2>3
  <2>7. it' \in Nat
    BY <1>2, <2>5
  <2>8. \A j \in 1 .. it : j \in 1 .. it' /\ j < it'
    BY <1>2, <2>6, <2>7
  <2> QED
    BY <2>1, <2>3, <2>4, <2>5, <2>6, <2>8
<1> HIDE DEF p
<1>9. p = phaseName
  BY DEF p
<1>10. /\ Stacked' /\ Relied' /\ Running' /\ Clearing' /\ Emission' /\ Optimizing'
       /\ stack' \in Seq(FrameType)
  BY <1>1, EmptyStack
<1>11. Typed'
  <2>1. it' \in 1 .. LastPhase' + 1
    <3>1. it' = LastPhase + 1 \/ it' \in 1 .. LastPhase
      BY <1>8
    <3> QED
      BY <1>2, <1>5, <3>1
  <2>2. domCfg' \in 0 .. fn'.cfg
    BY <1>3, <1>4 DEF Typed
  <2> QED
    BY <1>1, <1>3, <1>4, <1>5, <1>10, <2>1, <2>2 DEF Typed
<1>12. Stale' = Stale
  BY <1>4 DEF Stale
<1>13. p \notin Emitting => ~Stale
  BY <1>2, <1>3, <1>6, <1>9 DEF Clearing
<1>14. /\ p \in Early => fn.meSSATab = 0
       /\ p \in Low => fn.irMap = 0
  BY <1>2, <1>3, <1>9 DEF Running
<1>15. Between'
  <2>1. it' > LastPhase => fn'.code = "live"
    <3>1. p \in Emitting => fn.code = "live"
      BY <1>2, <1>3, <1>9 DEF Emission
    <3>2. p \notin Emitting => ~(it' > LastPhase)
      <4>1. p \notin Emitting => it' \in 1 .. LastPhase
        BY <1>8
      <4> QED
        BY <1>2, <4>1
    <3> QED
      BY <1>4, <3>1, <3>2
  <2>2. it' <= LastPhase =>
          /\ PhaseSeq[it'] \in Early => p \in Early
          /\ PhaseSeq[it'] \in Low => p \in Low
    <3>1. SUFFICES ASSUME it' <= LastPhase
                   PROVE  /\ PhaseSeq[it'] \in Early => p \in Early
                          /\ PhaseSeq[it'] \in Low => p \in Low
      OBVIOUS
    <3>2. it' \in 1 .. LastPhase /\ it < it'
      <4>1. it' = LastPhase + 1 => ~(it' <= LastPhase)
        BY <1>2
      <4> QED
        BY <1>8, <3>1, <4>1
    <3> QED
      BY <1>2, <1>3, <3>2, SequenceFacts
  <2>3. fn.irMap # 0 /\ p \notin Emitting => p \in kHssaPhases
    BY <1>2, <1>14, RankFacts
  <2>4. pass # 0
    BY <1>2
  <2>5. it' <= LastPhase => p \notin Emitting
    <3>1. it' = LastPhase + 1 => ~(it' <= LastPhase)
      BY <1>2
    <3> QED
      BY <1>8, <3>1
  <2> QED
    BY <1>1, <1>4, <1>5, <1>6, <1>9, <1>12, <1>13, <1>14, <2>1, <2>2, <2>3, <2>4, <2>5 DEF Between
<1>16. Pointers'
  BY <1>1, <1>2, <1>3, <1>4 DEF Pointers
<1>17. Pools'
  BY <1>1, <1>2, <1>3, <1>4 DEF Pools
<1>18. Mapped'
  <2>1. SUFFICES ASSUME fn.hasBBs, it' < LastPhase, NEW j \in 1 .. it' - 1, PhaseSeq[j] \in Builders
                 PROVE  fn.irMap # 0
    BY <1>1, <1>4, <1>5 DEF Mapped
  <2>2. it' = it + 1 /\ it < LastPhase
    BY <1>8, <2>1
  <2>3. j = it \/ j \in 1 .. it - 1
    BY <1>2, <2>1, <2>2
  <2>4. CASE j = it
    BY <1>2, <2>1, <2>4 DEF FrameOK
  <2>5. CASE j \in 1 .. it - 1
    BY <1>2, <1>3, <2>1, <2>2, <2>5 DEF Mapped
  <2> QED
    BY <2>3, <2>4, <2>5
<1>19. Loops'
  <2>1. /\ pass = 2 => changecfgphase \in Opting /\ changecfgphase # opt.skipFrom
        /\ pass = 1 => changecfgphase \in NoPhase
        /\ \A r \in ran : r[1] <= pass /\ r = <<r[1], r[2]>> /\ r[1] \in Nat
        /\ \A r \in ran : r[1] = pass => \E j \in 1 .. it : r[2] = PhaseSeq[j]
    BY <1>2, <1>3 DEF Loops
  <2>2. \A r \in ran : r[1] = pass => \E j \in 1 .. it' : r[2] = PhaseSeq[j] /\ j < it'
    BY <1>8, <2>1
  <2>3. it' < LastPhase => <<pass, opt.skipAfter>> \notin ran
    BY <1>2, <1>3, <1>8, <1>9 DEF Loops
  <2>4. it' < LastPhase => \A i \in 1 .. it : PhaseSeq[i] # opt.skipFrom
    BY <1>2, <1>3, <1>8 DEF Loops
  <2>5. it' < LastPhase => \A i \in 1 .. it' : i = it' \/ i \in 1 .. it
    BY <1>2, <1>8
  <2>6. it' < LastPhase => \A i \in 1 .. it' : PhaseSeq[i] = opt.skipFrom => i = it'
    BY <2>4, <2>5
  <2> QED
    BY <1>1, <1>5, <2>1, <2>2, <2>3, <2>6 DEF Loops
<1> QED
  BY <1>10, <1>11, <1>15, <1>16, <1>17, <1>18, <1>19 DEF IInv

\* The manager starts over.
LEMMA StartOverStep ==
  ASSUME IInv, StartOver
  PROVE  IInv'
<1> DEFINE p == phaseName
<1>1. /\ PhaseReturns /\ pass = 1 /\ Frame.phase \in isCFGChanged
      /\ changecfgphase' = Frame.phase /\ isCFGChanged' = isCFGChanged \ {Frame.phase}
      /\ cache' = None /\ made' = 0 /\ domCfg' = 0
      /\ fn' = [NewMeFunction(TRUE) EXCEPT !.code = fn.code]
      /\ pass' = 2 /\ it' = 1 /\ stack' = <<>>
      /\ opt' = opt /\ funcs' = funcs /\ phaseName' = phaseName
      /\ prevPhaseName' = prevPhaseName /\ ran' = ran
  BY DEF StartOver
<1>2. /\ stack # <<>> /\ Frame.phase = p /\ stack[1].phase = p /\ p = PhaseSeq[it] /\ p \in Name
      /\ LastPhase \in Nat /\ it \in Nat /\ it \in 1 .. LastPhase /\ it >= 1
      /\ p \in Emitting <=> it = LastPhase
      /\ \A S : ~Ahead(S, stack[1].todo)
  BY <1>1, Returning
<1>3. Typed /\ Running /\ Optimizing /\ Loops
  BY DEF IInv
<1>4. PhaseSeq' = PhaseSeq /\ LastPhase' = LastPhase
  BY <1>1, SameSequence
<1>5. p \in Opting /\ p \in isCFGChanged /\ \A q \in isCFGChanged : q = p
  BY <1>1, <1>2, <1>3 DEF Running
<1>6. isCFGChanged' = {}
  BY <1>1, <1>2, <1>5
<1>7. fn.code = "live"
  BY <1>2, <1>3, <1>5 DEF Optimizing
<1>8. /\ fn' \in FnType /\ fn'.hasBBs = TRUE /\ fn'.cfg = 0 /\ fn'.irMap = 0 /\ fn'.meSSATab = 0
      /\ fn'.versMp = "live" /\ fn'.code = "live"
  <2>1. PICK g : g = NewMeFunction(TRUE)
    OBVIOUS
  <2>2. /\ g \in FnType /\ g.hasBBs = TRUE /\ g.cfg = 0 /\ g.irMap = 0 /\ g.meSSATab = 0
        /\ g.versMp = "live"
    BY <2>1, NewFields
  <2>3. fn' = [g EXCEPT !.code = "live"] /\ "live" \in Pool
    BY <1>1, <1>7, <2>1 DEF Pool
  <2> QED
    BY <2>2, <2>3 DEF FnType
<1>9. None \in [Analyses -> 0 .. 0] /\ \A a \in Analyses : None[a] = 0
  BY DEF None
<1>10. "dominance" \in Analyses /\ "irmapbuild" \in Analyses /\ "ssatab" \in Analyses
       /\ "mepredict" \in Analyses
  BY DEF Analyses
<1>11. p \notin Emitting /\ it < LastPhase
  <2>1. p \notin Emitting
    BY <1>5, Apart
  <2> QED
    BY <1>2, <2>1
<1>12. /\ Stacked' /\ Relied' /\ Running' /\ Clearing' /\ Emission' /\ Optimizing'
       /\ stack' \in Seq(FrameType)
  BY <1>1, EmptyStack
<1>13. Typed'
  <2>1. pass' \in 0 .. 2 /\ it' \in 1 .. LastPhase' + 1
    BY <1>1, <1>2, <1>4
  <2>2. domCfg' \in 0 .. fn'.cfg /\ fn'.irMap <= made' /\ fn'.meSSATab <= made' /\ made' \in Nat
    <3>1. domCfg' = 0 /\ made' = 0
      BY <1>1
    <3>2. fn'.cfg = 0 /\ fn'.irMap = 0 /\ fn'.meSSATab = 0
      BY <1>8
    <3> QED
      BY <3>1, <3>2
  <2>3. cache' \in [Analyses -> 0 .. made']
    BY <1>1, <1>9
  <2>4. changecfgphase' \in ToSet(PhaseSeq')
    BY <1>2, <1>1, <1>3, <1>4, SequenceFacts
  <2> QED
    BY <1>1, <1>3, <1>4, <1>6, <1>8, <1>12, <2>1, <2>2, <2>3, <2>4 DEF Typed
<1>14. Between'
  <2>1. ~Stale'
    BY <1>1, <1>9, <1>10 DEF Stale
  <2> QED
    BY <1>1, <1>6, <1>8, <1>11, <2>1 DEF Between
<1>15. Pointers'
  BY <1>1, <1>8, <1>9, <1>10 DEF Pointers
<1>16. Pools'
  BY <1>8 DEF Pools
<1>17. Mapped'
  <2>1. 1 .. it' - 1 = {}
    BY <1>1
  <2> QED
    BY <2>1 DEF Mapped
<1>18. Loops'
  <2>1. \A r \in ran : r[1] <= 1 /\ r = <<r[1], r[2]>> /\ r[1] \in Nat
    BY <1>1, <1>3 DEF Loops
  <2>2. \A r \in ran : r[1] <= 2 /\ r[1] # 2
    BY <2>1
  <2>3. \A x : <<2, x>> \notin ran
    <3>1. \A x : <<2, x>>[1] = 2
      OBVIOUS
    <3> QED
      BY <2>2, <3>1
  <2>4. p # opt.skipFrom
    <3>1. it \in 1 .. it
      BY <1>2
    <3>2. PhaseSeq[it] = opt.skipFrom => stack = <<>>
      BY <1>1, <1>3, <1>11, <3>1 DEF Loops
    <3> QED
      BY <1>2, <3>2
  <2>5. \A i \in 1 .. it' : i = it'
    BY <1>1
  <2> QED
    BY <1>1, <1>2, <1>5, <2>1, <2>2, <2>3, <2>4, <2>5 DEF Loops
<1> QED
  BY <1>12, <1>13, <1>14, <1>15, <1>16, <1>17, <1>18 DEF IInv
-----------------------------------------------------------------------------
(* The theorems. *)

\* The invariant holds at first.
LEMMA InitInvariant ==
  ASSUME Init
  PROVE  IInv
<1>1. /\ opt \in Options /\ funcs = 0 /\ pass = 0 /\ it = 1
      /\ phaseName \in NoPhase /\ prevPhaseName \in NoPhase /\ changecfgphase \in NoPhase
      /\ isCFGChanged = {} /\ stack = <<>> /\ cache = None /\ made = 0 /\ domCfg = 0
      /\ fn = NewMeFunction(TRUE) /\ ran = {}
  BY Zenon DEF Init, NoPhase
<1>2. /\ fn \in FnType /\ fn.hasBBs = TRUE /\ fn.cfg = 0 /\ fn.irMap = 0 /\ fn.meSSATab = 0
      /\ fn.versMp = "live" /\ fn.code = "live"
  BY <1>1, NewFields
<1>3. None \in [Analyses -> 0 .. 0] /\ \A a \in Analyses : None[a] = 0
  BY DEF None
<1>4. Len(stack) = 0 /\ 1 .. 0 = {} /\ 2 .. 0 = {} /\ stack \in Seq(FrameType)
  BY <1>1
<1>5. Stacked /\ Relied
  BY <1>4 DEF Stacked, StackedIn, Relied
<1>6. Running /\ Clearing /\ Emission /\ Optimizing
  BY <1>1 DEF Running, Clearing, Emission, Optimizing
<1>7. ~(pass > 0) /\ pass # 1 /\ pass # 2
  BY <1>1
<1>8. Typed
  <2>1. LastPhase \in Nat /\ LastPhase >= 1
    <3>1. PhaseSeq \in Seq(Name) /\ LastPhase = Len(PhaseSeq) /\ LastPhase > 0
      BY <1>1, SequenceOrdered DEF Ordered, LastPhase
    <3> QED
      BY <3>1, LenProperties
  <2>2. funcs \in 0 .. MaxFuncs /\ pass \in 0 .. 2 /\ it \in 1 .. LastPhase + 1
    BY <1>1, <2>1, MePhaseManagerAssumption
  <2>3. domCfg \in 0 .. fn.cfg /\ fn.irMap <= made /\ fn.meSSATab <= made /\ made \in Nat
    <3>1. domCfg = 0 /\ made = 0
      BY <1>1
    <3>2. fn.cfg = 0 /\ fn.irMap = 0 /\ fn.meSSATab = 0
      BY <1>2
    <3> QED
      BY <3>1, <3>2
  <2>4. cache \in [Analyses -> 0 .. made]
    BY <1>1, <1>3
  <2>5. isCFGChanged \subseteq ToSet(PhaseSeq)
    BY <1>1
  <2> QED
    BY <1>1, <1>2, <1>4, <2>2, <2>3, <2>4, <2>5 DEF Typed
<1>9. Between
  BY <1>1, <1>2, <1>7 DEF Between
<1>10. Pointers
  BY <1>2, <1>7 DEF Pointers
<1>11. Pools
  BY <1>2 DEF Pools
<1>12. Mapped /\ Loops
  BY <1>7 DEF Mapped, Loops
<1> QED
  BY <1>5, <1>6, <1>8, <1>9, <1>10, <1>11, <1>12 DEF IInv

\* The invariant holds always.
LEMMA Invariance == Spec => []IInv
<1>1. Init => IInv
  BY InitInvariant
<1>2. IInv /\ [Next]_vars => IInv'
  <2> SUFFICES ASSUME IInv, [Next]_vars PROVE IInv'
    OBVIOUS
  <2>1. CASE StartFunc
    BY <2>1, StartStep
  <2>2. CASE PassOver
    BY <2>2, PassOverStep
  <2>3. CASE RunFuncPhase
    BY <2>3, RunStep
  <2>4. CASE NextPhase
    BY <2>4, NextStep
  <2>5. CASE StartOver
    BY <2>5, StartOverStep
  <2>6. CASE EndFunc
    BY <2>6, EndStep
  <2>7. CASE GetHit
    BY <2>7, HitStep
  <2>8. CASE GetMiss
    BY <2>8, MissStep
  <2>9. CASE GetReturns
    BY <2>9, ReturnsStep
  <2>10. CASE InvalidAnalysisResult
    BY <2>10, InvalidStep
  <2>11. CASE InvalidAllResults
    BY <2>11, InvalidAllStep
  <2>12. CASE ChangeCFG
    BY <2>12, ChangeStep
  <2>13. CASE SetChangeCFG
    BY <2>13, FlagStep
  <2>14. CASE FreeStmts
    BY <2>14, FreeStep
  <2>15. CASE NewCode
    BY <2>15, NewCodeStep
  <2>16. CASE Use
    BY <2>16, UseStep
  <2>17. CASE UNCHANGED vars
    BY <2>17, StutterStep
  <2> QED
    BY <2>1, <2>2, <2>3, <2>4, <2>5, <2>6, <2>7, <2>8, <2>9, <2>10, <2>11, <2>12, <2>13, <2>14,
       <2>15, <2>16, <2>17 DEF Next
<1> QED
  BY <1>1, <1>2, PTL DEF Spec

\* What a run has still to use is there.
LEMMA UseIsSound ==
  ASSUME IInv, NEW d \in {"useIrMap", "newCode"}, Ready(d)
  PROVE  fn.irMap # 0
<1> DEFINE n == Len(stack)
           f == stack[n]
           h == Head(f.todo)
<1>1. /\ n \in 1 .. n /\ f.todo # <<>> /\ h \in Allowed(f.phase) /\ h.do = d
      /\ f.todo \in Seq(Allowed(f.phase))
      /\ \A i \in 1 .. n : FrameOK(stack[i], Stale, fn.irMap, fn.hasBBs, cache)
  BY Innermost
<1>2. h.do \notin {"get", "invalid"}
  BY <1>1
<1>3. h = Step(d)
  BY <1>1, <1>2, AllowedStep
<1>4. h \in UsesIR
  BY <1>3 DEF UsesIR, LooksIR, Writes
<1>5. Needs(UsesIR, Builds, f.todo)
  <2>1. f.todo \in Seq(Allowed(f.phase)) /\ f.todo # <<>>
    BY <1>1
  <2> QED
    BY <1>4, <2>1, TailPatterns, ZenonT(40)
<1> QED
  BY <1>1, <1>5 DEF FrameOK

\* Types, and what the phases share.
LEMMA InvariantMemory ==
  ASSUME IInv
  PROVE  MemoryIsSound
<1>1. Typed /\ Stacked /\ Relied /\ Between /\ Pointers /\ Pools
  BY DEF IInv
<1>2. /\ made \in Nat /\ cache \in [Analyses -> 0 .. made] /\ fn \in FnType
      /\ domCfg \in 0 .. fn.cfg /\ fn.irMap <= made /\ fn.meSSATab <= made
  BY <1>1 DEF Typed
<1>3. /\ \A i \in 1 .. Len(stack) : stack[i] \in FrameType
      /\ DOMAIN stack = 1 .. Len(stack)
  BY <1>1, ElementOfSeq, LenProperties DEF Typed
<1>4. \A i \in 1 .. Len(stack) : \A a \in Analyses : stack[i].held[a] \in {0, cache[a]}
  BY <1>1 DEF Relied, FrameOK
<1>5. Known \subseteq DOMAIN Phases \cup {"emit"}
  BY DEF Known, Name, Low, Early, Builders, Lacking, Opting, Emitting, Analyses, Phases
<1>6. TypeOK
  <2>1. /\ opt \in Options /\ funcs \in 0 .. MaxFuncs /\ pass \in 0 .. 2 /\ it \in 1 .. LastPhase + 1
        /\ isCFGChanged \subseteq ToSet(PhaseSeq)
    BY <1>1 DEF Typed
  <2>2. {phaseName, prevPhaseName, changecfgphase} \subseteq ToSet(PhaseSeq) \cup {""}
    BY <1>1, Zenon DEF Typed, NoPhase
  <2>3. ASSUME NEW i \in DOMAIN stack
        PROVE  /\ stack[i].phase \in DOMAIN Phases \cup {"emit"}
               /\ stack[i].held \in [Analyses -> 0 .. made]
    <3>1. stack[i] \in FrameType /\ \A a \in Analyses : stack[i].held[a] \in {0, cache[a]}
      BY <1>3, <1>4, <2>3
    <3>2. stack[i].phase \in Known /\ stack[i].held \in [Analyses -> Nat]
      BY <3>1 DEF FrameType
    <3>3. 0 \in 0 .. made /\ \A a \in Analyses : cache[a] \in 0 .. made
      BY <1>2
    <3> QED
      BY <1>5, <3>1, <3>2, <3>3
  <2>4. fn.cfg \in Nat /\ {fn.irMap, fn.meSSATab} \subseteq 0 .. made
    <3>1. fn.cfg \in Nat /\ fn.irMap \in Nat /\ fn.meSSATab \in Nat
      BY <1>2 DEF FnType
    <3> QED
      BY <1>2, <3>1
  <2> QED
    BY <1>2, <2>1, <2>2, <2>3, <2>4 DEF TypeOK
<1>7. DeletedOnce
  BY <1>1 DEF Pools, DeletedOnce
<1>8. NoDanglingResult
  <2>1. \A i \in DOMAIN stack : \A a \in Analyses : stack[i].held[a] \in {0, cache[a]}
    BY <1>3, <1>4
  <2>2. /\ pass > 0 /\ fn.irMap # 0 => cache["irmapbuild"] = fn.irMap
        /\ pass > 0 /\ fn.meSSATab # 0 => cache["ssatab"] = fn.meSSATab
    BY <1>1 DEF Pointers
  <2>3. Ready("useIrMap") \/ Ready("newCode") => fn.irMap # 0
    BY UseIsSound
  <2> QED
    BY <2>1, <2>2, <2>3 DEF NoDanglingResult
<1>9. LeavesNothingBehind
  BY <1>1 DEF LeavesNothingBehind, Between, Typed
<1> QED
  BY <1>6, <1>7, <1>8, <1>9 DEF MemoryIsSound

\* What the phases work on.
LEMMA InvariantInputs ==
  ASSUME IInv
  PROVE  InputsAreCurrent
<1>1. Typed /\ Stacked /\ Relied /\ Running /\ Emission
  BY DEF IInv
<1>2. DominanceIsCurrent
  <2>1. DOMAIN stack = 1 .. Len(stack)
    BY <1>1, LenProperties DEF Typed
  <2>2. "dominance" \in Analyses
    BY DEF Analyses
  <2>3. \A i \in 1 .. Len(stack) :
          stack[i].held["dominance"] # 0 => ~Stale /\ cache["dominance"] # 0
    BY <1>1, <2>2 DEF Relied, FrameOK
  <2> QED
    BY <2>1, <2>3 DEF DominanceIsCurrent, Stale
<1>3. EmitsWhatThereIs
  <2> DEFINE n == Len(stack)
             f == stack[n]
             h == Head(f.todo)
  <2>1. SUFFICES ASSUME Ready("keepStmts") PROVE fn.code = "live" /\ fn.irMap = 0
    BY DEF EmitsWhatThereIs
  <2>2. /\ stack # <<>> /\ n \in 1 .. n /\ f.todo # <<>> /\ h \in Allowed(f.phase)
        /\ h.do = "keepStmts" /\ f.phase \in Known /\ f.todo \in Seq(Allowed(f.phase))
        /\ stack[1].phase = phaseName
    BY <2>1, Innermost
  <2>3. f.phase \in Emitting
    BY <2>2, AllowedFacts
  <2>4. n = 1
    BY <1>1, <2>2, <2>3, Apart, Callers
  <2>5. h.do \notin {"get", "invalid"}
    BY <2>2
  <2>6. h = Step("keepStmts")
    BY <2>2, <2>5, AllowedStep
  <2>7. h \in Keeps
    BY <2>6 DEF Keeps
  <2>8. Ahead(Keeps, stack[1].todo)
    BY <2>2, <2>4, <2>7, TailRules
  <2> QED
    BY <1>1, <2>2, <2>3, <2>4, <2>8 DEF Emission
<1> QED
  BY <1>2, <1>3 DEF InputsAreCurrent

\* What the phases of a function share is made once, is there while it is used, and is gone
\* when the function is done with.
THEOREM MemorySafety == Spec => []MemoryIsSound
<1>1. IInv => MemoryIsSound
  BY InvariantMemory
<1> QED
  BY <1>1, Invariance, PTL

\* Whichever phases are skipped or run again, a phase works on the function as it is: no
\* dominance of a former graph, no statements that are deleted.
THEOREM InputsSafety == Spec => []InputsAreCurrent
<1>1. IInv => InputsAreCurrent
  BY InvariantInputs
<1> QED
  BY <1>1, Invariance, PTL

\* Only the manager starts a phase on an empty stack.
LEMMA OnlyRunStarts ==
  ASSUME IInv, Next, Started
  PROVE  RunFuncPhase
<1>1. stack = <<>> /\ stack' # <<>>
  BY DEF Started
<1>2. \A d : ~Ready(d)
  BY <1>1 DEF Ready
<1>3. ~(Len(stack) > 1) /\ ~PhaseReturns
  BY <1>1 DEF PhaseReturns
<1>4. ~StartFunc /\ ~PassOver /\ ~NextPhase /\ ~StartOver /\ ~EndFunc
  BY <1>1, <1>3 DEF StartFunc, PassOver, NextPhase, StartOver, EndFunc
<1>5. ~GetHit /\ ~GetMiss /\ ~GetReturns /\ ~InvalidAnalysisResult /\ ~InvalidAllResults
  BY <1>2, <1>3 DEF GetHit, GetMiss, GetReturns, InvalidAnalysisResult, InvalidAllResults
<1>6. ~ChangeCFG /\ ~SetChangeCFG /\ ~FreeStmts /\ ~NewCode /\ ~Use
  BY <1>2 DEF ChangeCFG, SetChangeCFG, FreeStmts, NewCode, Use
<1> QED
  BY <1>4, <1>5, <1>6 DEF Next

\* The phase that is started.
LEMMA RunSkips ==
  ASSUME IInv, RunFuncPhase
  PROVE  /\ <<pass, phaseName'>> \notin ran /\ phaseName' # changecfgphase
         /\ phaseName' # "emit" =>
              /\ <<pass, opt.skipAfter>> \notin ran
              /\ \A i \in 1 .. it : PhaseSeq[i] # opt.skipFrom
<1>1. /\ pass > 0 /\ stack = <<>> /\ it <= LastPhase
      /\ ~(pass = 2 /\ PhaseSeq[it] = changecfgphase)
      /\ it' = (IF PhaseSeq[it] = opt.skipFrom THEN LastPhase ELSE it)
      /\ phaseName' = PhaseSeq[it']
  BY DEF RunFuncPhase, InLoop
<1>2. Typed /\ Loops
  BY DEF IInv
<1>3. LastPhase \in Nat /\ LastPhase >= 1 /\ it \in 1 .. LastPhase + 1 /\ pass \in {1, 2}
  <2>1. pass \in 0 .. 2
    BY <1>2 DEF Typed
  <2>2. pass \in {1, 2}
    BY <1>1, <2>1
  <2> QED
    BY <1>2, <2>2, SequenceFacts DEF Typed
<1>4. /\ it \in 1 .. LastPhase /\ it' \in 1 .. LastPhase /\ it <= it'
      /\ \A j \in 1 .. it : j < it => j \in 1 .. LastPhase /\ j < it'
  BY <1>1, <1>3
<1>5. phaseName' \in Name /\ (phaseName' \in Emitting <=> it' = LastPhase)
  BY <1>1, <1>2, <1>4, SequenceFacts
<1>6. <<pass, phaseName'>> \notin ran
  <2>1. SUFFICES ASSUME NEW r \in ran, r = <<pass, phaseName'>> PROVE FALSE
    OBVIOUS
  <2>2. r[1] = pass /\ r[2] = phaseName'
    BY <2>1
  <2>3. PICK j \in 1 .. it : r[2] = PhaseSeq[j] /\ j < it
    BY <1>1, <1>2, <2>1, <2>2 DEF Loops
  <2>4. j \in 1 .. LastPhase /\ j < it' /\ it' \in 1 .. LastPhase
    BY <1>4, <2>3
  <2>5. PhaseSeq[j] # PhaseSeq[it']
    BY <1>2, <2>4, SequenceFacts
  <2> QED
    BY <1>1, <2>2, <2>3, <2>5
<1>7. phaseName' \notin Emitting => it' # LastPhase /\ it' = it /\ it < LastPhase
  <2>1. it <= LastPhase /\ (it' = it \/ it' = LastPhase) /\ it \in Nat
    BY <1>1, <1>3
  <2>2. it' # LastPhase => it' = it /\ it < LastPhase
    BY <1>3, <2>1
  <2> QED
    BY <1>5, <2>2
<1>8. phaseName' # changecfgphase
  <2>1. CASE pass = 1
    <3>1. changecfgphase \in NoPhase
      BY <1>2, <2>1 DEF Loops
    <3> QED
      BY <1>5, <3>1, RankFacts
  <2>2. CASE pass = 2
    <3>1. changecfgphase \in Opting
      BY <1>2, <2>2 DEF Loops
    <3>2. changecfgphase \notin Emitting
      BY <3>1, Apart
    <3> QED
      BY <1>1, <1>7, <2>2, <3>2
  <2> QED
    BY <1>3, <2>1, <2>2
<1>9. phaseName' \notin Emitting => <<pass, opt.skipAfter>> \notin ran
  BY <1>1, <1>2, <1>7 DEF Loops
<1>10. phaseName' \notin Emitting => \A i \in 1 .. it : PhaseSeq[i] # opt.skipFrom
  <2>1. SUFFICES ASSUME phaseName' \notin Emitting, NEW i \in 1 .. it, PhaseSeq[i] = opt.skipFrom
                 PROVE  FALSE
    OBVIOUS
  <2>2. it < LastPhase /\ it' # LastPhase
    BY <1>7, <2>1
  <2>3. i = it
    BY <1>1, <1>2, <2>1, <2>2 DEF Loops
  <2> QED
    BY <1>1, <2>1, <2>2, <2>3
<1>11. phaseName' \in Emitting <=> phaseName' = "emit"
  BY DEF Emitting
<1> QED
  BY <1>6, <1>8, <1>9, <1>10, <1>11

\* A phase runs once in a loop, and the one that changed the graph once in both; nothing but
\* emit runs from the phase named by --skip-from on or after the one named by --skip-after.
THEOREM SkipsSafety == Spec => SkipsTheRest
<1>1. IInv /\ [Next]_vars =>
        [Started =>
           /\ <<pass, phaseName'>> \notin ran /\ phaseName' # changecfgphase
           /\ phaseName' # "emit" =>
                /\ <<pass, opt.skipAfter>> \notin ran
                /\ \A i \in 1 .. it : PhaseSeq[i] # opt.skipFrom]_vars
  <2>1. ASSUME IInv, Next, Started
        PROVE  /\ <<pass, phaseName'>> \notin ran /\ phaseName' # changecfgphase
               /\ phaseName' # "emit" =>
                    /\ <<pass, opt.skipAfter>> \notin ran
                    /\ \A i \in 1 .. it : PhaseSeq[i] # opt.skipFrom
    BY <2>1, OnlyRunStarts, RunSkips
  <2> QED
    BY <2>1
<1> QED
  BY <1>1, Invariance, PTL DEF Spec, SkipsTheRest
==============================================================================
