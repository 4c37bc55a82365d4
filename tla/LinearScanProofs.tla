--------------------------- MODULE LinearScanProofs ---------------------------
(***************************************************************************)
(* Theorems about LinearScan for any set of programs: what the iteration   *)
(* over the blocks leaves in livein and liveout is the least solution of   *)
(* the equations of liveness, the blocks are put in an order that only the *)
(* edges go against that close a loop, and the scan keeps every register   *)
(* as long as it is needed.                                                *)
(***************************************************************************)
EXTENDS LinearScan, Foundations

-----------------------------------------------------------------------------
(* What DefUse collects from a block. *)

\* One instruction, and what was collected after it.
CollectedOne(insn, after) ==
  [use |-> (after.use \ Defs(insn)) \cup Range(insn.uses),
   def |-> (after.def \cup Defs(insn)) \ Range(insn.uses)]

\* f is what is collected from instruction m on.
Collected(c, m, f) ==
  f = [i \in m .. Len(c) + 1 |->
         IF i = Len(c) + 1 THEN [use |-> {}, def |-> {}] ELSE CollectedOne(c[i], f[i + 1])]

\* There is such a function.
LEMMA CollectedExists ==
  ASSUME NEW c, Len(c) \in Nat
  PROVE  \E f : Collected(c, 1, f)
<1> DEFINE n == Len(c)
           T == {k \in Nat : k <= n => \E f : Collected(c, n + 1 - k, f)}
<1>1. 0 \in T
  <2> DEFINE g == [i \in n + 1 .. n + 1 |-> [use |-> {}, def |-> {}]]
  <2>1. Collected(c, n + 1 - 0, g)
    BY DEF Collected
  <2> QED
    BY <2>1
<1>2. ASSUME NEW k \in Nat, k \in T PROVE k + 1 \in T
  <2> SUFFICES ASSUME k + 1 <= n PROVE \E f : Collected(c, n + 1 - (k + 1), f)
    OBVIOUS
  <2> DEFINE m == n - k
  <2>1. PICK f : Collected(c, m + 1, f)
    <3>1. n + 1 - k = m + 1
      OBVIOUS
    <3> QED
      BY <1>2, <3>1
  <2>2. n + 1 - (k + 1) = m /\ m \in 1 .. n
    OBVIOUS
  <2> DEFINE g == [i \in m .. n + 1 |-> IF i = m THEN CollectedOne(c[m], f[m + 1]) ELSE f[i]]
  <2> HIDE DEF m
  <2>3. \A i \in m + 1 .. n + 1 :
          f[i] = IF i = n + 1 THEN [use |-> {}, def |-> {}] ELSE CollectedOne(c[i], f[i + 1])
    BY <2>1 DEF Collected
  <2>4. g[m] = CollectedOne(c[m], f[m + 1]) /\ \A i \in m + 1 .. n + 1 : g[i] = f[i]
    BY <2>2
  <2>5. g = [i \in m .. n + 1 |-> g[i]]
    OBVIOUS
  <2> HIDE DEF g
  <2>6. ASSUME NEW i \in m .. n + 1
        PROVE  g[i] = IF i = n + 1 THEN [use |-> {}, def |-> {}] ELSE CollectedOne(c[i], g[i + 1])
    <3>1. CASE i = m
      <4>1. i # n + 1 /\ i + 1 \in m + 1 .. n + 1
        BY <2>2, <3>1
      <4> QED
        BY <2>4, <3>1, <4>1
    <3>2. CASE i = n + 1
      <4>1. i \in m + 1 .. n + 1
        BY <2>2, <3>2
      <4> QED
        BY <2>3, <2>4, <3>2, <4>1
    <3>3. CASE i # m /\ i # n + 1
      <4>1. i \in m + 1 .. n + 1 /\ i + 1 \in m + 1 .. n + 1
        BY <2>2, <3>3
      <4> QED
        BY <2>3, <2>4, <3>3, <4>1
    <3> QED
      BY <3>1, <3>2, <3>3
  <2>7. Collected(c, m, g)
    BY <2>5, <2>6, Zenon DEF Collected
  <2> QED
    BY <2>2, <2>7
<1> HIDE DEF T
<1>3. n \in T
  BY <1>1, <1>2, SetInduction
<1>4. n + 1 - n = 1
  OBVIOUS
<1> QED
  BY <1>3, <1>4 DEF T

\* The registers a program names are finitely many.
LEMMA RangeFinite ==
  ASSUME NEW A, NEW s \in Seq(A)
  PROVE  IsFiniteSet(Range(s))
<1>1. Len(s) \in Nat /\ DOMAIN s = 1 .. Len(s) /\ IsFiniteSet(1 .. Len(s))
  BY LenProperties, FS_Interval
<1>2. s \in Surjection(1 .. Len(s), Range(s))
  BY <1>1 DEF Range, Surjection
<1> QED
  BY <1>1, <1>2, FS_Surjection

(* A register is in def only if the block writes it, one that the block writes is in
   use or in def, and none is in both. *)
LEMMA DefUseFacts ==
  ASSUME prog \in Programs, NEW b \in Blocks
  PROVE  /\ DefUse(b).use \cap DefUse(b).def = {}
         /\ \A r \in DefUse(b).def : \E insn \in Range(Code(b)) : r \in Defs(insn)
         /\ \A insn \in Range(Code(b)) : Defs(insn) \subseteq DefUse(b).use \cup DefUse(b).def
         /\ IsFiniteSet(DefUse(b).use)
<1> DEFINE c == Code(b)
           n == Len(c)
           F == CHOOSE f : Collected(c, 1, f)
<1>1. c \in Seq(Instruction)
  BY CgAnalysesAssumption DEF Code
<1>2. n \in Nat /\ DOMAIN c = 1 .. n /\ \A i \in 1 .. n : c[i] \in Instruction
  BY <1>1, LenProperties, ElementOfSeq
<1>3. DefUse(b) = F[1]
  BY DEF DefUse, Collected, CollectedOne
<1> HIDE DEF c, n, F
<1>4. Collected(c, 1, F)
  BY <1>2, CollectedExists, Zenon DEF F, n
<1>5. \A i \in 1 .. n + 1 : F[i] = IF i = n + 1 THEN [use |-> {}, def |-> {}]
                                   ELSE CollectedOne(c[i], F[i + 1])
  BY <1>4 DEF Collected, n
<1> DEFINE Facts(i) ==
             /\ F[i].use \cap F[i].def = {}
             /\ \A r \in F[i].def : \E j \in i .. n : r \in Defs(c[j])
             /\ \A j \in i .. n : Defs(c[j]) \subseteq F[i].use \cup F[i].def
             /\ IsFiniteSet(F[i].use)
           T == {k \in Nat : k <= n => Facts(n + 1 - k)}
<1>6. 0 \in T
  <2>1. n + 1 - 0 = n + 1 /\ n + 1 \in 1 .. n + 1 /\ n + 1 .. n = {}
    BY <1>2
  <2>2. F[n + 1].use = {} /\ F[n + 1].def = {}
    BY <1>5, <2>1
  <2> QED
    BY <2>1, <2>2, FS_EmptySet
<1>7. ASSUME NEW k \in Nat, k \in T PROVE k + 1 \in T
  <2> SUFFICES ASSUME k + 1 <= n PROVE Facts(n + 1 - (k + 1))
    OBVIOUS
  <2>1. PICK i : i = n - k
    OBVIOUS
  <2>2. /\ n + 1 - (k + 1) = i /\ n + 1 - k = i + 1
        /\ i \in 1 .. n /\ i \in 1 .. n + 1 /\ i # n + 1
        /\ \A j : j \in i .. n <=> j = i \/ j \in i + 1 .. n
    BY <1>2, <2>1
  <2>3. Facts(i + 1)
    <3>1. k <= n => Facts(n + 1 - k)
      BY <1>7
    <3>2. k <= n
      BY <1>2
    <3> HIDE DEF Facts
    <3> QED
      BY <3>1, <3>2, <2>2
  <2>4. /\ F[i].use = (F[i + 1].use \ Defs(c[i])) \cup Range(c[i].uses)
        /\ F[i].def = (F[i + 1].def \cup Defs(c[i])) \ Range(c[i].uses)
    <3>1. F[i] = CollectedOne(c[i], F[i + 1])
      BY <1>5, <2>2
    <3> QED
      BY <3>1 DEF CollectedOne
  <2>5. IsFiniteSet(F[i].use)
    <3>1. IsFiniteSet(F[i + 1].use)
      BY <2>3
    <3>2. IsFiniteSet(F[i + 1].use \ Defs(c[i]))
      <4>1. (F[i + 1].use \ Defs(c[i])) \in SUBSET F[i + 1].use
        OBVIOUS
      <4> QED
        BY <3>1, <4>1, FS_Subset
    <3>3. IsFiniteSet(Range(c[i].uses))
      BY <1>2, <2>2, RangeFinite DEF Instruction
    <3> QED
      BY <2>4, <3>2, <3>3, FS_Union
  <2>6. F[i].use \cap F[i].def = {}
    BY <2>3, <2>4
  <2>7. \A r \in F[i].def : \E j \in i .. n : r \in Defs(c[j])
    BY <2>2, <2>3, <2>4
  <2>8. \A j \in i .. n : Defs(c[j]) \subseteq F[i].use \cup F[i].def
    BY <2>2, <2>3, <2>4
  <2> QED
    BY <2>2, <2>5, <2>6, <2>7, <2>8
<1> HIDE DEF T
<1>8. n \in T
  BY <1>2, <1>6, <1>7, SetInduction
<1>9. Facts(1)
  <2>1. n + 1 - n = 1 /\ n <= n
    BY <1>2
  <2>2. n <= n => Facts(n + 1 - n)
    BY <1>8 DEF T
  <2> HIDE DEF Facts
  <2> QED
    BY <2>1, <2>2
<1>10. \A insn : insn \in Range(Code(b)) <=> \E j \in 1 .. n : insn = c[j]
  BY <1>2 DEF Range, c
<1> QED
  BY <1>3, <1>9, <1>10

-----------------------------------------------------------------------------
(* Reaching is a least fixpoint. *)

\* One more edge back from r.
Back(r, Through) == r \cup {b \in Through : Succs(b) \cap r # {}}

\* f is what is reached over at most n edges.
Reached(S, Through, n, f) ==
  f = [k \in 0 .. n |-> IF k = 0 THEN S ELSE Back(f[k - 1], Through)]

\* There is such a function.
LEMMA ReachedExists ==
  ASSUME NEW S, NEW Through, NEW n \in Nat
  PROVE  \E f : Reached(S, Through, n, f)
<1> DEFINE T == {m \in Nat : \E f : Reached(S, Through, m, f)}
<1>1. 0 \in T
  <2>1. Reached(S, Through, 0, [k \in 0 .. 0 |-> S])
    BY DEF Reached
  <2> QED
    BY <2>1
<1>2. ASSUME NEW m \in Nat, m \in T PROVE m + 1 \in T
  <2>1. PICK f : Reached(S, Through, m, f)
    BY <1>2
  <2> DEFINE g == [k \in 0 .. m + 1 |-> IF k = m + 1 THEN Back(f[m], Through) ELSE f[k]]
  <2>2. g[m + 1] = Back(f[m], Through) /\ \A k \in 0 .. m : g[k] = f[k]
    OBVIOUS
  <2>3. \A k \in 0 .. m : f[k] = IF k = 0 THEN S ELSE Back(f[k - 1], Through)
    BY <2>1 DEF Reached
  <2>4. g = [k \in 0 .. m + 1 |-> g[k]]
    OBVIOUS
  <2> HIDE DEF g
  <2>5. ASSUME NEW k \in 0 .. m + 1
        PROVE  g[k] = IF k = 0 THEN S ELSE Back(g[k - 1], Through)
    <3>1. CASE k = m + 1
      BY <2>2, <3>1
    <3>2. CASE k \in 1 .. m
      <4>1. g[k] = f[k] /\ g[k - 1] = f[k - 1]
        BY <2>2, <3>2
      <4> QED
        BY <2>3, <3>2, <4>1
    <3>3. CASE k = 0
      BY <2>2, <2>3, <3>3
    <3> QED
      BY <3>1, <3>2, <3>3
  <2>6. Reached(S, Through, m + 1, g)
    BY <2>4, <2>5, Zenon DEF Reached
  <2> QED
    BY <2>6
<1> HIDE DEF T
<1>3. n \in T
  BY <1>1, <1>2, SetInduction
<1> QED
  BY <1>3 DEF T

(* Reaching has S, has every block of Through with an edge into it, and is no larger
   than a set with these two properties. *)
LEMMA ReachingFacts ==
  ASSUME NEW S \in SUBSET Blocks, NEW Through \in SUBSET Blocks
  PROVE  /\ S \subseteq Reaching(S, Through)
         /\ \A b \in Through : Succs(b) \cap Reaching(S, Through) # {}
                                 => b \in Reaching(S, Through)
         /\ \A X : S \subseteq X /\ (\A b \in Through : Succs(b) \cap X # {} => b \in X)
                     => Reaching(S, Through) \subseteq X
<1> DEFINE n == Cardinality(Blocks)
           R == CHOOSE f : Reached(S, Through, n, f)
<1>1. n \in Nat /\ IsFiniteSet(Blocks)
  BY CgAnalysesAssumption, FS_CardinalityType
<1>2. Reaching(S, Through) = R[n]
  BY DEF Reaching, Reached, Back
<1> HIDE DEF n, R
<1>3. Reached(S, Through, n, R)
  BY <1>1, ReachedExists, Zenon DEF R
<1>4. \A k \in 0 .. n : R[k] = IF k = 0 THEN S ELSE Back(R[k - 1], Through)
  BY <1>3 DEF Reached
<1>5. \A k \in Nat : k + 1 <= n => R[k + 1] = Back(R[k], Through)
  <2> SUFFICES ASSUME NEW k \in Nat, k + 1 <= n PROVE R[k + 1] = Back(R[k], Through)
    OBVIOUS
  <2>1. k + 1 \in 0 .. n /\ k + 1 # 0 /\ (k + 1) - 1 = k
    BY <1>1
  <2> QED
    BY <1>4, <2>1
<1>6. R[0] = S
  BY <1>1, <1>4
\* A set that is not closed yet has grown in every round.
<1> DEFINE T == {k \in Nat : k <= n => /\ S \subseteq R[k] /\ R[k] \subseteq Blocks
                                       /\ \/ Back(R[k], Through) = R[k]
                                          \/ k <= Cardinality(R[k])}
<1>7. 0 \in T
  <2>1. IsFiniteSet(S)
    BY <1>1, FS_Subset
  <2>2. Cardinality(S) \in Nat
    BY <2>1, FS_CardinalityType
  <2>3. 0 <= Cardinality(S)
    BY <2>2
  <2> QED
    BY <1>6, <2>3
<1>8. ASSUME NEW k \in Nat, k \in T PROVE k + 1 \in T
  <2> SUFFICES ASSUME k + 1 <= n
               PROVE  /\ S \subseteq R[k + 1] /\ R[k + 1] \subseteq Blocks
                      /\ \/ Back(R[k + 1], Through) = R[k + 1]
                         \/ k + 1 <= Cardinality(R[k + 1])
    OBVIOUS
  <2>1. k <= n
    BY <1>1
  <2>2. /\ S \subseteq R[k] /\ R[k] \subseteq Blocks
        /\ Back(R[k], Through) = R[k] \/ k <= Cardinality(R[k])
    BY <1>8, <2>1
  <2> HIDE DEF T
  <2>3. R[k + 1] = Back(R[k], Through)
    BY <1>5
  <2>4. S \subseteq R[k + 1] /\ R[k] \subseteq R[k + 1] /\ R[k + 1] \subseteq Blocks
    BY <2>2, <2>3 DEF Back
  <2>5. CASE Back(R[k], Through) = R[k]
    BY <2>3, <2>4, <2>5
  <2>6. CASE k <= Cardinality(R[k]) /\ Back(R[k], Through) # R[k]
    <3>1. IsFiniteSet(R[k + 1])
      BY <1>1, <2>4, FS_Subset
    <3>2. R[k] \in SUBSET R[k + 1] /\ R[k] # R[k + 1]
      BY <2>3, <2>4, <2>6
    <3>3. /\ IsFiniteSet(R[k]) /\ Cardinality(R[k]) <= Cardinality(R[k + 1])
          /\ Cardinality(R[k]) # Cardinality(R[k + 1])
      BY <3>1, <3>2, FS_Subset
    <3>4. Cardinality(R[k]) \in Nat /\ Cardinality(R[k + 1]) \in Nat
      BY <3>1, <3>3, FS_CardinalityType
    <3>5. k + 1 <= Cardinality(R[k + 1])
      BY <2>6, <3>3, <3>4
    <3> QED
      BY <2>4, <3>5
  <2> QED
    BY <2>2, <2>5, <2>6
<1> HIDE DEF T
<1>9. n \in T
  BY <1>1, <1>7, <1>8, SetInduction
<1>10. /\ S \subseteq R[n] /\ R[n] \subseteq Blocks
       /\ Back(R[n], Through) = R[n] \/ n <= Cardinality(R[n])
  BY <1>1, <1>9 DEF T
<1>11. Back(R[n], Through) = R[n]
  <2>1. CASE n <= Cardinality(R[n])
    <3>1. Cardinality(R[n]) <= n /\ IsFiniteSet(R[n]) /\ (n = Cardinality(R[n]) => R[n] = Blocks)
      BY <1>1, <1>10, FS_Subset DEF n
    <3>2. Cardinality(R[n]) \in Nat
      BY <3>1, FS_CardinalityType
    <3>3. R[n] = Blocks
      BY <1>1, <2>1, <3>1, <3>2
    <3> QED
      BY <3>3 DEF Back
  <2> QED
    BY <1>10, <2>1
<1>12. ASSUME NEW X, S \subseteq X, \A b \in Through : Succs(b) \cap X # {} => b \in X
       PROVE  R[n] \subseteq X
  <2> DEFINE U == {k \in Nat : k <= n => R[k] \subseteq X}
  <2>1. 0 \in U
    BY <1>6, <1>12
  <2>2. ASSUME NEW k \in Nat, k \in U PROVE k + 1 \in U
    <3> SUFFICES ASSUME k + 1 <= n PROVE R[k + 1] \subseteq X
      OBVIOUS
    <3>1. k <= n
      BY <1>1
    <3>2. R[k] \subseteq X
      BY <2>2, <3>1
    <3> HIDE DEF U
    <3>3. R[k + 1] = Back(R[k], Through)
      BY <1>5
    <3> QED
      BY <1>12, <3>2, <3>3 DEF Back
  <2> HIDE DEF U
  <2>3. n \in U
    BY <1>1, <2>1, <2>2, SetInduction
  <2> QED
    BY <1>1, <2>3 DEF U
<1>13. \A b \in Through : Succs(b) \cap R[n] # {} => b \in R[n]
  BY <1>11 DEF Back
<1> QED
  BY <1>2, <1>10, <1>12, <1>13
-----------------------------------------------------------------------------
(* The inductive invariant. *)

\* The registers that can be live, and the blocks at whose start r is.
Regs == UNION {DefUse(b).use : b \in Blocks}

LiveTypeOK ==
  /\ at \in 0 .. Cardinality(Blocks)
  /\ livein \in [Blocks -> SUBSET Regs] /\ liveout \in [Blocks -> SUBSET Regs]
  /\ livein_change \in [Blocks -> BOOLEAN] /\ insertuse \in [Blocks -> BOOLEAN]
  /\ haschange \in BOOLEAN

\* A block that was visited satisfies the equation of its livein; another has nothing.
EquationsHold ==
  \A b \in Blocks :
    /\ insertuse[b] => livein[b] = (DefUse(b).use \cup liveout[b]) \ DefUse(b).def
    /\ ~insertuse[b] => livein[b] = {} /\ liveout[b] = {}
    /\ b > at => insertuse[b]

\* Nothing is in livein or liveout that need not be.
NothingTooMuch ==
  \A b \in Blocks :
    /\ \A r \in livein[b] : b \in LiveAtStart(r)
    /\ liveout[b] \subseteq UNION {livein[s] : s \in Succs(b)}

\* The flag of s is up and b has not been visited since the last visit of s.
Pending(b, s) ==
  livein_change[s] /\ IF s > at THEN ~(b > at /\ b < s) ELSE ~(b > at \/ b < s)

\* What liveout[b] lacks of a successor, b will find by its flag, in this round or the next.
NothingForgotten ==
  /\ \A b \in Blocks : \A s \in Succs(b) : livein[s] \subseteq liveout[b] \/ Pending(b, s)
  /\ \A s \in Blocks : s > at /\ livein_change[s] => haschange

LiveInv ==
  /\ prog \in Programs
  /\ phase = "live" => LiveTypeOK /\ EquationsHold /\ NothingTooMuch /\ NothingForgotten
  /\ LivenessIsExact
-----------------------------------------------------------------------------
(* What the operators of a program return. *)

\* The successors of a block are blocks, and a set of registers is finite.
LEMMA ProgramFacts ==
  ASSUME prog \in Programs
  PROVE  /\ \A b \in Blocks : Succs(b) \subseteq Blocks
         /\ IsFiniteSet(Regs)
         /\ Cardinality(Blocks) \in Nat /\ Blocks = 1 .. Cardinality(Blocks)
<1>1. ASSUME NEW b \in Blocks PROVE Succs(b) \subseteq Blocks
  <2>1. prog.succ[b] \in Seq(Blocks)
    BY CgAnalysesAssumption
  <2>2. \A i \in DOMAIN prog.succ[b] : prog.succ[b][i] \in Blocks
    BY <2>1
  <2> QED
    BY <2>2 DEF Succs, Range
<1>2. IsFiniteSet(Regs)
  <2> DEFINE uses == {DefUse(b).use : b \in Blocks}
             f == [b \in Blocks |-> DefUse(b).use]
  <2>1. f \in Surjection(Blocks, uses)
    BY DEF Surjection
  <2>2. IsFiniteSet(uses)
    BY <2>1, CgAnalysesAssumption, FS_Surjection
  <2>3. \A T \in uses : IsFiniteSet(T)
    BY DefUseFacts
  <2> QED
    BY <2>2, <2>3, FS_UNION DEF Regs
<1> QED
  BY <1>1, <1>2, CgAnalysesAssumption, FS_CardinalityType

(* A register is live at the start of a block that reads it first; it is live there too
   if it is live at the start of a successor and the block does not write it; and there
   is no larger set of blocks of which both holds. *)
LEMMA LiveFacts ==
  ASSUME prog \in Programs, NEW r
  PROVE  /\ \A b \in Blocks : r \in DefUse(b).use => b \in LiveAtStart(r)
         /\ \A b \in Blocks : \A s \in Succs(b) :
              s \in LiveAtStart(r) /\ r \notin DefUse(b).def => b \in LiveAtStart(r)
         /\ \A X : /\ \A b \in Blocks : r \in DefUse(b).use => b \in X
                   /\ \A b \in Blocks : \A s \in Succs(b) :
                        s \in X /\ r \notin DefUse(b).def => b \in X
                   => LiveAtStart(r) \subseteq X
<1> DEFINE S == {b \in Blocks : r \in DefUse(b).use}
           Through == {b \in Blocks : \A insn \in Range(Code(b)) : r \notin Defs(insn)}
<1>1. S \in SUBSET Blocks /\ Through \in SUBSET Blocks
  OBVIOUS
<1>2. LiveAtStart(r) = Reaching(S, Through)
  BY DEF LiveAtStart
<1>3. \A b \in Blocks : r \in DefUse(b).use <=> b \in S
  OBVIOUS
<1>4. \A b \in Blocks : r \notin DefUse(b).use => (r \notin DefUse(b).def <=> b \in Through)
  BY DefUseFacts
<1>5. \A b \in Through : b \in Blocks /\ r \notin DefUse(b).def
  BY DefUseFacts
<1> HIDE DEF S, Through
<1>6. /\ S \subseteq Reaching(S, Through)
      /\ \A b \in Through : Succs(b) \cap Reaching(S, Through) # {}
                              => b \in Reaching(S, Through)
      /\ \A X : S \subseteq X /\ (\A b \in Through : Succs(b) \cap X # {} => b \in X)
                  => Reaching(S, Through) \subseteq X
  BY <1>1, ReachingFacts
<1>7. \A b \in Blocks : r \in DefUse(b).use => b \in LiveAtStart(r)
  BY <1>2, <1>3, <1>6
<1>8. ASSUME NEW b \in Blocks, NEW s \in Succs(b), s \in LiveAtStart(r), r \notin DefUse(b).def
      PROVE  b \in LiveAtStart(r)
  <2>1. CASE r \in DefUse(b).use
    BY <1>7, <2>1
  <2>2. CASE r \notin DefUse(b).use
    <3>1. b \in Through
      BY <1>4, <1>8, <2>2
    <3> QED
      BY <1>2, <1>6, <1>8, <3>1
  <2> QED
    BY <2>1, <2>2
<1>9. ASSUME NEW X, \A b \in Blocks : r \in DefUse(b).use => b \in X,
             \A b \in Blocks : \A s \in Succs(b) : s \in X /\ r \notin DefUse(b).def => b \in X
      PROVE  LiveAtStart(r) \subseteq X
  <2>1. S \subseteq X
    BY <1>1, <1>3, <1>9
  <2>2. \A b \in Through : Succs(b) \cap X # {} => b \in X
    BY <1>5, <1>9
  <2> QED
    BY <1>2, <1>6, <2>1, <2>2
<1> QED
  BY <1>7, <1>8, <1>9
-----------------------------------------------------------------------------
(* The steps. *)

\* The program stays, and with it what is said of it.
LEMMA ProgramStays ==
  ASSUME prog' = prog
  PROVE  /\ \A b : DefUse(b)' = DefUse(b) /\ Succs(b)' = Succs(b)
         /\ \A r : LiveAtStart(r)' = LiveAtStart(r)
         /\ Regs' = Regs
<1>1. \A b : DefUse(b)' = DefUse(b)
  BY DEF DefUse, Code, Defs
<1>2. \A b : Succs(b)' = Succs(b)
  BY DEF Succs
<1>3. \A b : Code(b)' = Code(b)
  BY DEF Code
<1>4. \A r : LiveAtStart(r)' = LiveAtStart(r)
  BY <1>1, <1>2, <1>3, ZenonT(40) DEF LiveAtStart, Reaching, Defs
<1>5. Regs' = Regs
  BY <1>1 DEF Regs
<1> QED
  BY <1>1, <1>2, <1>4, <1>5

\* The visit of a block: what it leaves in livein and liveout, and how the flags are set.
LEMMA VisitFacts ==
  ASSUME prog \in Programs, LiveTypeOK, EquationsHold, NEW b \in Blocks, ComputeBBLiveness(b)
  PROVE  \E in \in SUBSET Regs, outgoing \in SUBSET Regs, more \in BOOLEAN :
           /\ livein' = [livein EXCEPT ![b] = in]
           /\ liveout' = [liveout EXCEPT ![b] = outgoing]
           /\ insertuse' = [insertuse EXCEPT ![b] = TRUE]
           /\ livein_change' = [livein_change EXCEPT ![b] = more]
           /\ haschange' = (haschange \/ more)
           /\ outgoing = liveout[b] \cup UNION {livein[s] : s \in {s \in Succs(b) : livein_change[s]}}
           /\ in = (DefUse(b).use \cup outgoing) \ DefUse(b).def
           /\ livein[b] \subseteq in /\ (more <=> in # livein[b])
<1> DEFINE du   == DefUse(b)
           new  == UNION {livein[s] : s \in {s \in Succs(b) : livein_change[s]}}
           outgoing  == liveout[b] \cup new
           in   == IF outgoing # liveout[b] \/ ~insertuse[b]
                   THEN (livein[b] \cup outgoing \cup (IF insertuse[b] THEN {} ELSE du.use)) \ du.def
                   ELSE livein[b]
           more == Cardinality(in) > Cardinality(livein[b])
<1>1. /\ livein' = [livein EXCEPT ![b] = in]
      /\ liveout' = [liveout EXCEPT ![b] = outgoing]
      /\ insertuse' = [insertuse EXCEPT ![b] = TRUE]
      /\ livein_change' = [livein_change EXCEPT ![b] = more]
      /\ haschange' = (haschange \/ more)
  BY DEF ComputeBBLiveness
<1>2. new \subseteq Regs
  BY ProgramFacts DEF LiveTypeOK
<1>3. /\ livein[b] \subseteq Regs /\ liveout[b] \subseteq Regs /\ du.use \subseteq Regs
      /\ du.use \cap du.def = {} /\ insertuse[b] \in BOOLEAN
  BY DefUseFacts DEF LiveTypeOK, Regs
<1>4. /\ insertuse[b] => livein[b] = (du.use \cup liveout[b]) \ du.def
      /\ ~insertuse[b] => livein[b] = {} /\ liveout[b] = {}
  BY DEF EquationsHold
<1>5. outgoing \subseteq Regs /\ liveout[b] \subseteq outgoing
  BY <1>2, <1>3
<1> HIDE DEF new, du
<1>6. in = (du.use \cup outgoing) \ du.def /\ livein[b] \subseteq in
  <2>1. CASE ~insertuse[b]
    BY <1>4, <2>1
  <2>2. CASE insertuse[b] /\ outgoing = liveout[b]
    BY <1>4, <2>2
  <2>3. CASE insertuse[b] /\ outgoing # liveout[b]
    <3>1. in = (livein[b] \cup outgoing) \ du.def
      BY <2>3
    <3> QED
      BY <1>3, <1>4, <1>5, <2>3, <3>1
  <2> QED
    BY <1>3, <2>1, <2>2, <2>3
<1>7. in \subseteq Regs
  BY <1>3, <1>5, <1>6
<1> HIDE DEF in
<1>8. more <=> in # livein[b]
  <2>1. IsFiniteSet(in)
    BY <1>7, ProgramFacts, FS_Subset
  <2>2. /\ IsFiniteSet(livein[b]) /\ Cardinality(livein[b]) <= Cardinality(in)
        /\ Cardinality(livein[b]) = Cardinality(in) => livein[b] = in
    BY <1>6, <2>1, FS_Subset
  <2>3. Cardinality(in) \in Nat /\ Cardinality(livein[b]) \in Nat
    BY <2>1, <2>2, FS_CardinalityType
  <2> QED
    BY <2>2, <2>3
<1>9. more \in BOOLEAN
  OBVIOUS
<1> HIDE DEF more, outgoing
<1>10. in \in SUBSET Regs /\ outgoing \in SUBSET Regs
  BY <1>5, <1>7
<1>11. outgoing = liveout[b] \cup UNION {livein[s] : s \in {s \in Succs(b) : livein_change[s]}}
  BY DEF outgoing, new
<1>12. in = (DefUse(b).use \cup outgoing) \ DefUse(b).def
  BY <1>6 DEF du
<1> QED
  BY <1>1, <1>6, <1>8, <1>9, <1>10, <1>11, <1>12

\* One block of a round.
LEMMA VisitStep ==
  ASSUME LiveInv, AnalysisLive
  PROVE  LiveInv'
<1>1. /\ phase = "live" /\ phase' = "live" /\ at > 0 /\ at' = at - 1 /\ prog' = prog
      /\ prog \in Programs /\ LiveTypeOK /\ EquationsHold /\ NothingTooMuch /\ NothingForgotten
      /\ ComputeBBLiveness(at)
  BY DEF LiveInv, AnalysisLive
<1>2. /\ Cardinality(Blocks) \in Nat /\ Blocks = 1 .. Cardinality(Blocks)
      /\ \A b \in Blocks : Succs(b) \subseteq Blocks
  BY <1>1, ProgramFacts
<1>3. at \in Blocks /\ at' \in 0 .. Cardinality(Blocks) /\ at \in Int
      /\ \A b \in Blocks : b \in Int
  BY <1>1, <1>2 DEF LiveTypeOK
<1>4. PICK in \in SUBSET Regs, outgoing \in SUBSET Regs, more \in BOOLEAN :
           /\ livein' = [livein EXCEPT ![at] = in]
           /\ liveout' = [liveout EXCEPT ![at] = outgoing]
           /\ insertuse' = [insertuse EXCEPT ![at] = TRUE]
           /\ livein_change' = [livein_change EXCEPT ![at] = more]
           /\ haschange' = (haschange \/ more)
           /\ outgoing = liveout[at] \cup UNION {livein[s] : s \in {s \in Succs(at) : livein_change[s]}}
           /\ in = (DefUse(at).use \cup outgoing) \ DefUse(at).def
           /\ livein[at] \subseteq in /\ (more <=> in # livein[at])
  BY <1>1, <1>3, VisitFacts, Zenon
<1>5. /\ \A b : DefUse(b)' = DefUse(b) /\ Succs(b)' = Succs(b)
      /\ \A r : LiveAtStart(r)' = LiveAtStart(r)
      /\ Regs' = Regs
  BY <1>1, ProgramStays
<1>6. /\ livein'[at] = in /\ liveout'[at] = outgoing /\ insertuse'[at] /\ livein_change'[at] = more
      /\ \A b \in Blocks \ {at} : /\ livein'[b] = livein[b] /\ liveout'[b] = liveout[b]
                                  /\ insertuse'[b] = insertuse[b]
                                  /\ livein_change'[b] = livein_change[b]
  BY <1>1, <1>3, <1>4 DEF LiveTypeOK
<1>7. LiveTypeOK'
  <2>1. /\ livein' \in [Blocks -> SUBSET Regs] /\ liveout' \in [Blocks -> SUBSET Regs]
        /\ livein_change' \in [Blocks -> BOOLEAN] /\ insertuse' \in [Blocks -> BOOLEAN]
        /\ haschange' \in BOOLEAN
    BY <1>1, <1>4 DEF LiveTypeOK
  <2> QED
    BY <1>3, <1>5, <2>1 DEF LiveTypeOK
<1>8. EquationsHold'
  <2> SUFFICES ASSUME NEW b \in Blocks
               PROVE  /\ insertuse'[b] => livein'[b] = (DefUse(b).use \cup liveout'[b]) \ DefUse(b).def
                      /\ ~insertuse'[b] => livein'[b] = {} /\ liveout'[b] = {}
                      /\ b > at' => insertuse'[b]
    BY <1>5 DEF EquationsHold
  <2>1. CASE b = at
    BY <1>4, <1>6, <2>1
  <2>2. CASE b # at
    <3>1. b > at' => b > at
      BY <1>1, <1>3, <2>2
    <3> QED
      BY <1>1, <1>6, <2>2, <3>1 DEF EquationsHold
  <2> QED
    BY <2>1, <2>2
<1>9. \A b \in Blocks : livein[b] \subseteq livein'[b]
  BY <1>4, <1>6
<1>10. NothingTooMuch'
  <2> SUFFICES ASSUME NEW b \in Blocks
               PROVE  /\ \A r \in livein'[b] : b \in LiveAtStart(r)
                      /\ liveout'[b] \subseteq UNION {livein'[s] : s \in Succs(b)}
    BY <1>5 DEF NothingTooMuch
  <2>1. liveout[b] \subseteq UNION {livein[s] : s \in Succs(b)}
    BY <1>1 DEF NothingTooMuch
  <2>2. UNION {livein[s] : s \in Succs(b)} \subseteq UNION {livein'[s] : s \in Succs(b)}
    BY <1>2, <1>9
  <2>3. b = at => outgoing \subseteq UNION {livein[s] : s \in Succs(b)}
    BY <1>4, <2>1
  <2>4. liveout'[b] \subseteq UNION {livein'[s] : s \in Succs(b)}
    BY <1>6, <2>1, <2>2, <2>3
  <2>5. ASSUME NEW r \in livein'[b] PROVE b \in LiveAtStart(r)
    <3>1. CASE b # at
      BY <1>1, <1>6, <2>5, <3>1 DEF NothingTooMuch
    <3>2. CASE b = at /\ r \in DefUse(b).use
      BY <1>1, <3>2, LiveFacts
    <3>3. CASE b = at /\ r \notin DefUse(b).use
      <4>1. r \in outgoing /\ r \notin DefUse(b).def
        BY <1>4, <1>6, <2>5, <3>3
      <4>2. PICK s \in Succs(b) : r \in livein[s]
        BY <2>3, <3>3, <4>1
      <4>3. s \in LiveAtStart(r)
        BY <1>1, <1>2, <4>2 DEF NothingTooMuch
      <4> QED
        BY <1>1, <4>1, <4>2, <4>3, LiveFacts
    <3> QED
      BY <3>1, <3>2, <3>3
  <2> QED
    BY <2>4, <2>5
<1>11. ASSUME NEW b \in Blocks, NEW s \in Succs(b)
       PROVE  livein'[s] \subseteq liveout'[b] \/ Pending(b, s)'
  <2>1. livein[s] \subseteq liveout[b] \/ Pending(b, s)
    BY <1>1, <1>11 DEF NothingForgotten
  <2>2. s \in Blocks /\ b \in Int /\ s \in Int
    BY <1>2, <1>3, <1>11
  <2>3. Pending(b, s)' <=> livein_change'[s] /\ IF s > at' THEN ~(b > at' /\ b < s)
                                                ELSE ~(b > at' \/ b < s)
    BY DEF Pending
  <2>4. liveout[b] \subseteq liveout'[b]
    BY <1>4, <1>6
  <2>5. CASE b = at /\ livein_change[s]
    <3>1. livein[s] \subseteq liveout'[b]
      BY <1>4, <1>6, <1>11, <2>5
    <3>2. CASE s # at
      BY <1>6, <2>2, <3>1, <3>2
    <3>3. CASE s = at /\ ~more
      BY <1>4, <1>6, <3>1, <3>3
    <3>4. CASE s = at /\ more
      <4>1. s > at' /\ ~(b < s)
        BY <1>1, <1>3, <2>5, <3>4
      <4>2. livein_change'[s]
        BY <1>6, <3>4, Zenon
      <4> QED
        BY <2>3, <4>1, <4>2
    <3> QED
      BY <3>2, <3>3, <3>4
  <2>6. CASE b = at /\ ~livein_change[s]
    <3>1. livein[s] \subseteq liveout'[b]
      BY <2>1, <2>4, <2>6 DEF Pending
    <3>2. CASE s # at
      BY <1>6, <2>2, <3>1, <3>2
    <3>3. CASE s = at /\ ~more
      BY <1>4, <1>6, <3>1, <3>3
    <3>4. CASE s = at /\ more
      <4>1. s > at' /\ ~(b < s)
        BY <1>1, <1>3, <2>6, <3>4
      <4>2. livein_change'[s]
        BY <1>6, <3>4, Zenon
      <4> QED
        BY <2>3, <4>1, <4>2
    <3> QED
      BY <3>2, <3>3, <3>4
  <2>7. CASE b # at /\ s = at
    <3>1. ~Pending(b, s)
      BY <1>3, <2>2, <2>7 DEF Pending
    <3>2. CASE ~more
      BY <1>4, <1>6, <2>1, <2>4, <2>7, <3>1, <3>2
    <3>3. CASE more
      <4>1. s > at' /\ ~(b > at' /\ b < s)
        BY <1>1, <1>3, <2>2, <2>7
      <4>2. livein_change'[s]
        BY <1>6, <2>7, <3>3, Zenon
      <4> QED
        BY <2>3, <4>1, <4>2
    <3> QED
      BY <3>2, <3>3
  <2>8. CASE b # at /\ s # at
    <3>1. livein'[s] = livein[s] /\ livein_change'[s] = livein_change[s]
      BY <1>6, <2>2, <2>8
    <3>2. (s > at' <=> s > at) /\ (b > at' <=> b > at)
      BY <1>1, <1>3, <2>2, <2>8
    <3>3. Pending(b, s) => Pending(b, s)'
      BY <2>3, <3>1, <3>2 DEF Pending
    <3> QED
      BY <2>1, <2>4, <3>1, <3>3
  <2> QED
    BY <2>5, <2>6, <2>7, <2>8
<1>12. ASSUME NEW s \in Blocks, s > at', livein_change'[s] PROVE haschange'
  <2>1. CASE s = at
    BY <1>4, <1>6, <1>12, <2>1
  <2>2. CASE s # at
    <3>1. s > at /\ livein_change[s]
      BY <1>1, <1>3, <1>6, <1>12, <2>2
    <3> QED
      BY <1>1, <1>4, <3>1 DEF NothingForgotten
  <2> QED
    BY <2>1, <2>2
<1>13. NothingForgotten'
  BY <1>5, <1>11, <1>12 DEF NothingForgotten
<1>14. LivenessIsExact'
  BY <1>1 DEF LivenessIsExact
<1> QED
  BY <1>1, <1>7, <1>8, <1>10, <1>13, <1>14 DEF LiveInv

\* The end of a round: another, or the equations hold.
LEMMA RoundStep ==
  ASSUME LiveInv, NextIteration
  PROVE  LiveInv'
<1>1. /\ phase = "live" /\ at = 0 /\ prog' = prog /\ prog \in Programs
      /\ livein' = livein /\ liveout' = liveout
      /\ livein_change' = livein_change /\ insertuse' = insertuse
      /\ LiveTypeOK /\ EquationsHold /\ NothingTooMuch /\ NothingForgotten
  BY DEF LiveInv, NextIteration
<1>2. /\ Cardinality(Blocks) \in Nat /\ Blocks = 1 .. Cardinality(Blocks)
      /\ \A b \in Blocks : Succs(b) \subseteq Blocks
  BY <1>1, ProgramFacts
<1>3. /\ \A b : DefUse(b)' = DefUse(b) /\ Succs(b)' = Succs(b)
      /\ \A r : LiveAtStart(r)' = LiveAtStart(r)
      /\ Regs' = Regs
  BY <1>1, ProgramStays
<1>4. \A b \in Blocks : b \in Int /\ b > at /\ insertuse[b]
  BY <1>1, <1>2 DEF EquationsHold
<1>5. CASE haschange
  <2>1. at' = Cardinality(Blocks) /\ haschange' = FALSE /\ phase' = "live"
    BY <1>1, <1>5 DEF NextIteration
  <2>2. \A b \in Blocks : ~(b > at')
    BY <1>2, <2>1
  <2>3. LiveTypeOK'
    <3>1. at' \in 0 .. Cardinality(Blocks)
      BY <1>2, <2>1
    <3>2. /\ livein' \in [Blocks -> SUBSET Regs'] /\ liveout' \in [Blocks -> SUBSET Regs']
          /\ livein_change' \in [Blocks -> BOOLEAN] /\ insertuse' \in [Blocks -> BOOLEAN]
      BY <1>1, <1>3 DEF LiveTypeOK
    <3> QED
      BY <2>1, <3>1, <3>2 DEF LiveTypeOK
  <2>4. EquationsHold'
    BY <1>1, <1>3, <2>2 DEF EquationsHold
  <2>5. NothingTooMuch'
    BY <1>1, <1>3 DEF NothingTooMuch
  <2>6. ASSUME NEW b \in Blocks, NEW s \in Succs(b), Pending(b, s) PROVE Pending(b, s)'
    <3>1. s \in Blocks
      BY <1>2
    <3>2. livein_change[s] /\ ~(b > at /\ b < s)
      BY <1>4, <2>6, <3>1 DEF Pending
    <3>3. livein_change'[s] /\ ~(s > at') /\ ~(b > at' \/ b < s)
      BY <1>1, <1>4, <2>2, <3>1, <3>2
    <3> QED
      BY <3>3 DEF Pending
  <2>7. NothingForgotten'
    BY <1>1, <1>3, <2>2, <2>6 DEF NothingForgotten
  <2>8. LivenessIsExact'
    BY <2>1 DEF LivenessIsExact
  <2> QED
    BY <1>1, <2>1, <2>3, <2>4, <2>5, <2>7, <2>8 DEF LiveInv
<1>6. CASE ~haschange
  <2>1. phase' = "loop"
    BY <1>1, <1>6 DEF NextIteration
  <2>2. \A b \in Blocks : ~livein_change[b]
    BY <1>1, <1>4, <1>6 DEF NothingForgotten
  <2>3. \A b \in Blocks : \A s \in Succs(b) : livein[s] \subseteq liveout[b]
    BY <1>1, <1>2, <2>2 DEF NothingForgotten, Pending
  <2>4. \A b \in Blocks : liveout[b] = UNION {livein[s] : s \in Succs(b)}
    BY <1>1, <2>3 DEF NothingTooMuch
  <2>5. ASSUME NEW r PROVE {b \in Blocks : r \in livein[b]} = LiveAtStart(r)
    <3> DEFINE X == {b \in Blocks : r \in livein[b]}
    <3>1. \A b \in Blocks : livein[b] = (DefUse(b).use \cup liveout[b]) \ DefUse(b).def
      BY <1>1, <1>4 DEF EquationsHold
    <3>2. \A b \in Blocks : r \in DefUse(b).use => b \in X
      <4>1. \A b \in Blocks : DefUse(b).use \cap DefUse(b).def = {}
        BY <1>1, DefUseFacts
      <4> QED
        BY <3>1, <4>1
    <3>3. \A b \in Blocks : \A s \in Succs(b) : s \in X /\ r \notin DefUse(b).def => b \in X
      BY <2>3, <3>1
    <3>4. X \subseteq LiveAtStart(r)
      BY <1>1 DEF NothingTooMuch
    <3> HIDE DEF X
    <3>5. LiveAtStart(r) \subseteq X
      BY <1>1, <3>2, <3>3, LiveFacts
    <3>6. X = LiveAtStart(r)
      BY <3>4, <3>5
    <3> QED
      BY <3>6 DEF X
  <2>6. LivenessIsExact'
    <3>1. \A b \in Blocks : liveout'[b] = UNION {livein'[s] : s \in Succs(b)'}
      BY <1>1, <1>3, <2>4
    <3>2. \A r : {b \in Blocks : r \in livein'[b]} = LiveAtStart(r)'
      BY <1>1, <1>3, <2>5
    <3> QED
      BY <3>1, <3>2 DEF LivenessIsExact
  <2> QED
    BY <1>1, <2>1, <2>6 DEF LiveInv
<1> QED
  BY <1>5, <1>6

\* Nothing else changes what the iteration has left.
LEMMA LaterStep ==
  ASSUME LiveInv, prog' = prog, livein' = livein, liveout' = liveout,
         phase # "live", phase' # "live"
  PROVE  LiveInv'
<1>1. /\ \A b : DefUse(b)' = DefUse(b) /\ Succs(b)' = Succs(b)
      /\ \A r : LiveAtStart(r)' = LiveAtStart(r)
  BY ProgramStays
<1>2. /\ \A b \in Blocks : liveout[b] = UNION {livein[s] : s \in Succs(b)}
      /\ \A r \in (UNION Range(livein)) \cup UNION {DefUse(b).use : b \in Blocks} :
           {b \in Blocks : r \in livein[b]} = LiveAtStart(r)
  BY DEF LiveInv, LivenessIsExact
<1>3. \A b \in Blocks : liveout'[b] = UNION {livein'[s] : s \in Succs(b)'}
  BY <1>1, <1>2
<1>4. \A r \in (UNION Range(livein')) \cup UNION {DefUse(b)'.use : b \in Blocks} :
           {b \in Blocks : r \in livein'[b]} = LiveAtStart(r)'
  BY <1>1, <1>2
<1>5. LivenessIsExact'
  BY <1>3, <1>4 DEF LivenessIsExact
<1> QED
  BY <1>5 DEF LiveInv

\* Every step.
LEMMA LiveInvNext ==
  ASSUME LiveInv, [Next]_vars
  PROVE  LiveInv'
<1>1. CASE AnalysisLive
  BY <1>1, VisitStep
<1>2. CASE NextIteration
  BY <1>2, RoundStep
<1>3. CASE FindBackEdge
  BY <1>3, LaterStep, Zenon DEF FindBackEdge, liveVars
<1>4. CASE StartOrder
  BY <1>4, LaterStep, Zenon DEF StartOrder, AnalysesDone, liveVars
<1>5. CASE StartBFS
  BY <1>5, LaterStep, Zenon DEF StartBFS, liveVars
<1>6. CASE BFSStep
  BY <1>6, LaterStep, Zenon DEF BFSStep, liveVars
<1>7. CASE NextSweep
  <2>1. phase = "order" /\ phase' \in {"order", "exit", "intervals"}
    BY <1>7 DEF NextSweep
  <2>2. prog' = prog /\ livein' = livein /\ liveout' = liveout
    BY <1>7, Zenon DEF NextSweep, liveVars
  <2> QED
    BY <2>1, <2>2, LaterStep
<1>8. CASE ComputeLiveInterval
  BY <1>8, LaterStep, Zenon DEF ComputeLiveInterval, liveVars
<1>9. CASE BuildIntervalRanges
  BY <1>9, LaterStep, Zenon DEF BuildIntervalRanges, liveVars
<1>10. CASE InitFreeRegPool
  BY <1>10, LaterStep, Zenon DEF InitFreeRegPool, liveVars
<1>11. CASE AllocateInsn
  BY <1>11, LaterStep, Zenon DEF AllocateInsn, liveVars
<1>12. CASE StartFinalize
  BY <1>12, LaterStep, Zenon DEF StartFinalize, liveVars
<1>13. CASE FinalizeInsn
  BY <1>13, LaterStep, Zenon DEF FinalizeInsn, liveVars
<1>14. CASE StartRun
  BY <1>14, LaterStep, Zenon DEF StartRun, liveVars
<1>15. CASE RunBlock
  BY <1>15, LaterStep, Zenon DEF RunBlock, liveVars
<1>16. CASE UNCHANGED vars
  <2>1. UNCHANGED <<prog, phase, at, liveVars>>
    BY <1>16 DEF vars
  <2>2. CASE phase = "live"
    <3>1. /\ \A b : DefUse(b)' = DefUse(b) /\ Succs(b)' = Succs(b)
          /\ \A r : LiveAtStart(r)' = LiveAtStart(r) /\ Regs' = Regs
      BY <2>1, ProgramStays
    <3>2. LiveTypeOK /\ EquationsHold /\ NothingTooMuch /\ NothingForgotten
      BY <2>2 DEF LiveInv
    <3>3. LiveTypeOK'
      BY <2>1, <3>1, <3>2 DEF LiveTypeOK, liveVars
    <3>4. EquationsHold'
      BY <2>1, <3>1, <3>2 DEF EquationsHold, liveVars
    <3>5. NothingTooMuch'
      BY <2>1, <3>1, <3>2 DEF NothingTooMuch, liveVars
    <3>6. NothingForgotten'
      BY <2>1, <3>1, <3>2 DEF NothingForgotten, Pending, liveVars
    <3>7. LivenessIsExact' /\ prog' \in Programs
      BY <2>1, <2>2 DEF LivenessIsExact, LiveInv
    <3> QED
      BY <3>3, <3>4, <3>5, <3>6, <3>7 DEF LiveInv
  <2>3. CASE phase # "live"
    BY <2>1, <2>3, LaterStep DEF liveVars
  <2> QED
    BY <2>2, <2>3
<1> QED
  BY <1>1, <1>2, <1>3, <1>4, <1>5, <1>6, <1>7, <1>8, <1>9, <1>10, <1>11, <1>12, <1>13, <1>14,
     <1>15, <1>16 DEF Next, NextIntervals, NextAnalyses

\* The initial state.
LEMMA LiveInvInit == Init => LiveInv
<1> SUFFICES ASSUME Init PROVE LiveInv
  OBVIOUS
<1>1. /\ prog \in Programs /\ phase = "live" /\ at = Cardinality(Blocks) /\ haschange = FALSE
      /\ livein = [b \in Blocks |-> {}] /\ liveout = [b \in Blocks |-> {}]
      /\ livein_change = [b \in Blocks |-> TRUE] /\ insertuse = [b \in Blocks |-> FALSE]
  BY DEF Init, InitIntervals, InitAnalyses
<1>2. /\ Cardinality(Blocks) \in Nat /\ Blocks = 1 .. Cardinality(Blocks)
      /\ \A b \in Blocks : Succs(b) \subseteq Blocks
  BY <1>1, ProgramFacts
<1>3. \A b \in Blocks : ~(b > at)
  BY <1>1, <1>2
<1>4. LiveTypeOK
  <2>1. at \in 0 .. Cardinality(Blocks)
    BY <1>1, <1>2
  <2>2. /\ livein \in [Blocks -> SUBSET Regs] /\ liveout \in [Blocks -> SUBSET Regs]
        /\ livein_change \in [Blocks -> BOOLEAN] /\ insertuse \in [Blocks -> BOOLEAN]
    BY <1>1
  <2> QED
    BY <1>1, <2>1, <2>2 DEF LiveTypeOK
<1>5. EquationsHold
  BY <1>1, <1>3 DEF EquationsHold
<1>6. NothingTooMuch
  BY <1>1 DEF NothingTooMuch
<1>7. NothingForgotten
  BY <1>1, <1>2, <1>3 DEF NothingForgotten
<1>8. LivenessIsExact
  BY <1>1 DEF LivenessIsExact
<1> QED
  BY <1>1, <1>4, <1>5, <1>6, <1>7, <1>8 DEF LiveInv

-----------------------------------------------------------------------------
(* The theorems. *)

(* While the iteration runs no block has a register that is not live at its start, a
   block that was visited satisfies its equation, and what a block has not taken from a
   successor yet is flagged for it (ComputeBBLiveness, live_analysis.cpp). *)
THEOREM LiveInvHolds == Spec => []LiveInv
<1>1. Init => LiveInv
  BY LiveInvInit
<1>2. LiveInv /\ [Next]_vars => LiveInv'
  BY LiveInvNext
<1> QED
  BY <1>1, <1>2, PTL DEF Spec

(* The do-while loop of LiveAnalysis ends with the least solution of the equations, for
   every program: the flags with which ComputeBBLiveness passes over successors lose
   nothing, and no register is live longer than some path needs it. *)
THEOREM LivenessHolds == Spec => []LivenessIsExact
<1>1. LiveInv => LivenessIsExact
  BY DEF LiveInv
<1> QED
  BY <1>1, LiveInvHolds, PTL

-----------------------------------------------------------------------------
(* What the operators of the search return. *)

\* The successors that have not been visited.
LEMMA UnseenFacts ==
  ASSUME prog \in Programs, NEW b \in Blocks, NEW seen
  PROVE  /\ Unseen(b, seen) \in Seq(Blocks)
         /\ \A x : x \in Range(Unseen(b, seen)) <=> x \in Succs(b) /\ x \notin seen
<1> DEFINE S == prog.succ[b]
           n == Len(S)
           T == Seq(Blocks)
           Eq(f) == f = [i \in 0 .. n |->
                           IF i = 0 THEN <<>>
                           ELSE IF S[i] \in seen THEN f[i - 1] ELSE <<S[i]>> \o f[i - 1]]
           U == CHOOSE f : Eq(f)
           g == [i \in 1 .. n |-> [t \in T |-> IF S[i] \in seen THEN t ELSE <<S[i]>> \o t]]
<1>1. S \in Seq(Blocks)
  BY CgAnalysesAssumption
<1>2. n \in Nat /\ \A i \in 1 .. n : S[i] \in Blocks /\ S[i] \in Range(S)
  BY <1>1, LenProperties, RangeFacts
<1>3. \A x \in Range(S) : \E i \in 1 .. n : S[i] = x
  BY <1>1, RangeFacts
<1>4. Unseen(b, seen) = U[n]
  BY DEF Unseen
<1>5. Succs(b) = Range(S)
  BY DEF Succs
<1> HIDE DEF S
<1>6. ASSUME NEW i \in 1 .. n, NEW t \in T PROVE <<S[i]>> \o t \in T
  BY <1>2, PrependedFacts
<1>7. \A i \in 1 .. n : \A t \in T : /\ g[i][t] = IF S[i] \in seen THEN t ELSE <<S[i]>> \o t
                                     /\ g[i][t] \in T
  BY <1>6
<1> HIDE DEF n
<1>8. Eq(U)
  <2>1. <<>> \in T
    BY EmptyFacts
  <2>2. \E f \in [0 .. n -> T] : Iterates(n, <<>>, g, f)
    <3> HIDE DEF T, g
    <3> QED
      BY <1>2, <1>7, <2>1, Iteration
  <2>3. PICK f \in [0 .. n -> T] : Iterates(n, <<>>, g, f)
    BY <2>2
  <2> HIDE DEF g
  <2>4. ASSUME NEW i \in 0 .. n
        PROVE  (IF i = 0 THEN <<>> ELSE g[i][f[i - 1]])
               = IF i = 0 THEN <<>>
                 ELSE IF S[i] \in seen THEN f[i - 1] ELSE <<S[i]>> \o f[i - 1]
    <3>1. i # 0 => i \in 1 .. n /\ i - 1 \in 0 .. n
      BY <1>2
    <3>2. i # 0 => f[i - 1] \in T
      BY <2>3, <3>1
    <3> HIDE DEF T
    <3> QED
      BY <1>7, <3>1, <3>2
  <2>5. Eq(f)
    <3> HIDE DEF T
    <3> QED
      BY <2>3, <2>4 DEF Iterates
  <2> HIDE DEF Eq
  <2> QED
    BY <2>5
<1> HIDE DEF U, g
<1> DEFINE Ok(i) == /\ U[i] \in T
                    /\ \A x : x \in Range(U[i]) <=> \E j \in 1 .. i : S[j] = x /\ x \notin seen
           V == {i \in 0 .. n : Ok(i)}
<1>9. 0 \in V
  <2>1. U[0] = <<>>
    BY <1>2, <1>8
  <2>2. 0 \in 0 .. n /\ 1 .. 0 = {}
    BY <1>2
  <2>3. Ok(0)
    <3> PICK e : e = U[0]
      OBVIOUS
    <3>1. e \in T /\ Range(e) = {}
      BY <2>1, EmptyFacts
    <3> QED
      BY <2>2, <3>1
  <2> HIDE DEF Ok
  <2> QED
    BY <2>2, <2>3
<1>10. ASSUME NEW i \in 1 .. n, i - 1 \in V PROVE i \in V
  <2> PICK s : s = U[i - 1]
    OBVIOUS
  <2>1. s \in T /\ \A x : x \in Range(s) <=> \E j \in 1 .. i - 1 : S[j] = x /\ x \notin seen
    BY <1>10
  <2>2. U[i] = IF S[i] \in seen THEN s ELSE <<S[i]>> \o s
    <3>1. i \in 0 .. n /\ i # 0
      BY <1>2
    <3>2. \A j \in 0 .. n : U[j] = IF j = 0 THEN <<>>
                                   ELSE IF S[j] \in seen THEN U[j - 1] ELSE <<S[j]>> \o U[j - 1]
      <4> HIDE DEF T
      <4> QED
        BY <1>8, Zenon
    <3> QED
      BY <3>1, <3>2, Zenon
  <2>3. i \in 0 .. n /\ \A j : j \in 1 .. i <=> j \in 1 .. i - 1 \/ j = i
    BY <1>2
  <2>4. Ok(i)
    <3>1. CASE S[i] \in seen
      BY <2>1, <2>2, <2>3, <3>1
    <3>2. CASE S[i] \notin seen
      <4>1. /\ <<S[i]>> \o s \in Seq(Blocks)
            /\ \A x : x \in Range(<<S[i]>> \o s) <=> x = S[i] \/ x \in Range(s)
        BY <1>2, <2>1, PrependedFacts
      <4> PICK t : t = <<S[i]>> \o s
        OBVIOUS
      <4>2. t \in T /\ U[i] = t /\ \A x : x \in Range(t) <=> x = S[i] \/ x \in Range(s)
        BY <2>2, <3>2, <4>1
      <4> QED
        BY <2>1, <2>3, <3>2, <4>2
    <3> QED
      BY <3>1, <3>2
  <2> HIDE DEF Ok
  <2> QED
    BY <2>3, <2>4
<1> HIDE DEF V
<1>11. n \in V
  <2>1. \A i \in 1 .. n : i - 1 \in V => i \in V
    BY <1>10
  <2>2. 0 .. n \subseteq V
    BY ONLY <1>2, <1>9, <2>1, UpToInduction
  <2> QED
    BY <1>2, <2>2
<1>12. Ok(n)
  BY <1>11 DEF V
<1> QED
  BY <1>2, <1>3, <1>4, <1>5, <1>12

\* What has been visited is taken from the top of the stack.
LEMMA UnvisitedFacts ==
  ASSUME NEW A, NEW stack \in Seq(A), NEW seen
  PROVE  LET r == Unvisited(stack, seen)
         IN  /\ r \in Seq(A) /\ Len(r) \in 0 .. Len(stack)
             /\ \A i \in 1 .. Len(r) : r[i] = stack[i]
             /\ \A i \in Len(r) + 1 .. Len(stack) : stack[i] \in seen
             /\ r # <<>> => Len(r) > 0 /\ r[Len(r)] \notin seen
<1> DEFINE tops == {i \in DOMAIN stack : stack[i] \notin seen}
           m == CHOOSE i \in tops : \A j \in tops : j <= i
<1>1. Len(stack) \in Nat /\ DOMAIN stack = 1 .. Len(stack)
  BY LenProperties
<1>2. CASE tops = {}
  <2>1. Unvisited(stack, seen) = <<>>
    BY <1>2 DEF Unvisited
  <2>2. \A i \in 1 .. Len(stack) : stack[i] \in seen
    BY <1>1, <1>2
  <2>3. <<>> \in Seq(A) /\ Len(<<>>) = 0
    BY EmptyFacts
  <2> QED
    BY <1>1, <2>1, <2>2, <2>3
<1>3. CASE tops # {}
  <2>1. tops \subseteq 0 .. Len(stack)
    BY <1>1
  <2>2. m \in tops /\ \A j \in tops : j <= m
    <3>1. \E i \in tops : \A j \in tops : j <= i
      BY <1>1, <1>3, <2>1, GreatestNat
    <3> HIDE DEF tops
    <3> QED
      BY <3>1
  <2>3. Unvisited(stack, seen) = SubSeq(stack, 1, m)
    BY <1>3 DEF Unvisited
  <2> HIDE DEF m
  <2>4. m \in 1 .. Len(stack) /\ stack[m] \notin seen /\ \A i \in m + 1 .. Len(stack) : stack[i] \in seen
    <3>1. \A i \in m + 1 .. Len(stack) : i \in 1 .. Len(stack) /\ ~(i <= m)
      BY <1>1, <2>2
    <3> QED
      BY <1>1, <2>2, <3>1
  <2>5. 1 \in 1 .. Len(stack) + 1 /\ m \in 1 - 1 .. Len(stack) /\ m - 1 + 1 = m /\ \A k \in 1 .. m : 1 + k - 1 = k
    BY <1>1, <2>4
  <2>6. /\ SubSeq(stack, 1, m) \in Seq(A) /\ Len(SubSeq(stack, 1, m)) = m - 1 + 1
        /\ \A k \in 1 .. m - 1 + 1 : SubSeq(stack, 1, m)[k] = stack[1 + k - 1]
    BY <2>5, PartFacts
  <2> PICK r : r = SubSeq(stack, 1, m)
    OBVIOUS
  <2>7. r \in Seq(A) /\ Len(r) = m /\ \A k \in 1 .. m : r[k] = stack[k]
    BY <2>5, <2>6
  <2>8. m > 0 /\ m \in 1 .. m /\ m \in 0 .. Len(stack)
    BY <1>1, <2>4
  <2> QED
    BY <2>3, <2>4, <2>7, <2>8
<1> QED
  BY <1>2, <1>3

\* PathBelow is the least set with b that has the parents of its members, stop excepted.
LEMMA PathBelowFacts ==
  ASSUME parent \in [Blocks -> Blocks \cup {0}], NEW b \in Blocks, NEW stop
  PROVE  LET P == PathBelow(b, stop)
         IN  /\ b \in P /\ P \subseteq Blocks
             /\ \A q \in P : parent[q] \notin {0, stop} => parent[q] \in P
             /\ \A X \in SUBSET Blocks :
                  b \in X /\ (\A q \in X : parent[q] \notin {0, stop} => parent[q] \in X) => P \subseteq X
<1> DEFINE n == Cardinality(Blocks)
           T == SUBSET Blocks
           s == {b}
           Eq(C) == C = [k \in 0 .. n |->
                           IF k = 0 THEN {b}
                           ELSE C[k - 1] \cup ({parent[q] : q \in C[k - 1]} \ {0, stop})]
           C == CHOOSE C : Eq(C)
           g == [t \in T |-> {parent[q] : q \in t} \ {0, stop}]
           h == [k \in 1 .. n |-> [t \in T |-> t \cup g[t]]]
<1>1. n \in Nat /\ IsFiniteSet(Blocks)
  BY CgAnalysesAssumption, FS_CardinalityType
<1>2. PathBelow(b, stop) = C[n]
  BY DEF PathBelow
<1>3. \A t \in T : g[t] = {parent[q] : q \in t} \ {0, stop}
  OBVIOUS
<1>4. s \in T /\ g \in [T -> T] /\ \A X, Y \in T : X \subseteq Y => g[X] \subseteq g[Y]
  OBVIOUS
<1>5. Eq(C)
  <2>1. \A k \in 1 .. n : \A t \in T : h[k][t] \in T /\ h[k][t] = t \cup g[t]
    BY <1>4
  <2>2. \E R \in [0 .. n -> T] : Iterates(n, s, h, R)
    <3> HIDE DEF T, h, n, s, g
    <3> QED
      BY <1>1, <1>4, <2>1, Iteration
  <2>3. PICK R \in [0 .. n -> T] : Iterates(n, s, h, R)
    BY <2>2
  <2> HIDE DEF h
  <2>4. ASSUME NEW k \in 0 .. n
        PROVE  (IF k = 0 THEN s ELSE h[k][R[k - 1]])
               = IF k = 0 THEN {b} ELSE R[k - 1] \cup ({parent[q] : q \in R[k - 1]} \ {0, stop})
    <3>1. k # 0 => k \in 1 .. n /\ k - 1 \in 0 .. n
      BY <1>1
    <3>2. k # 0 => R[k - 1] \in T
      BY <2>3, <3>1
    <3>3. k # 0 => h[k][R[k - 1]] = R[k - 1] \cup g[R[k - 1]]
      BY <2>1, <3>1, <3>2
    <3> HIDE DEF T, g
    <3> QED
      BY <1>3, <3>2, <3>3 DEF s
  <2>5. Eq(R)
    <3> HIDE DEF g, T
    <3> QED
      BY <2>3, <2>4 DEF Iterates
  <2> HIDE DEF Eq
  <2> QED
    BY <2>5
<1> HIDE DEF C
<1>6. Grows(Blocks, s, g, C)
  <2>1. C[0] = s
    BY <1>1, <1>5
  <2>2. ASSUME NEW k \in 1 .. n, C[k-1] \in T PROVE C[k] = C[k-1] \cup g[C[k-1]]
    <3>1. C[k] = C[k - 1] \cup ({parent[q] : q \in C[k - 1]} \ {0, stop})
      BY <1>1, <1>5
    <3> QED
      BY <1>3, <2>2, <3>1
  <2> HIDE DEF g, s
  <2> QED
    BY <1>4, <2>1, <2>2 DEF Grows
<1>7. Closure(Blocks, s, g, C[n])
  <2> HIDE DEF g, s, Eq
  <2> QED
    BY <1>1, <1>6, ClosureFacts
<1> HIDE DEF g, Eq
<1>8. /\ s \subseteq C[n] /\ C[n] \subseteq Blocks /\ g[C[n]] \subseteq C[n]
      /\ \A X \in T : s \subseteq X /\ g[X] \subseteq X => C[n] \subseteq X
  BY <1>7 DEF Closure
<1>9. \A X \in T : (\A q \in X : parent[q] \notin {0, stop} => parent[q] \in X) <=> g[X] \subseteq X
  BY <1>3
<1> QED
  BY <1>2, <1>8, <1>9

-----------------------------------------------------------------------------
(* The search for the edges that close a loop.  Its state is given by the blocks visited, their
   levels and parents, the loop successors found and the stack. *)

\* The path from the first block: the visited blocks that have a level.
OnPath(seen, lev) == {b \in seen : lev[b] # 0}
Finished(seen, lev) == seen \ OnPath(seen, lev)

\* b comes directly below its parent, which is on the path.
Child(seen, lev, par, b) ==
  par[b] \in OnPath(seen, lev) /\ lev[b] = lev[par[b]] + 1 /\ b \in Succs(par[b])

SearchTypes(seen, lev, par, ls, stack) ==
  /\ seen \in SUBSET Blocks /\ lev \in [Blocks -> Nat] /\ par \in [Blocks -> Blocks \cup {0}]
  /\ ls \in [Blocks -> SUBSET Blocks] /\ stack \in Seq(Blocks)

\* The first block is at the top of the path, and below a block there is one at most.
PathInv(seen, lev, par) ==
  /\ par[1] = 0 /\ 1 \in seen /\ lev[1] = 1
  /\ \A b \in OnPath(seen, lev) \ {1} : Child(seen, lev, par, b)
  /\ \A u, v \in OnPath(seen, lev) : lev[u] = lev[v] => u = v

(* What waits on the stack hangs below the path.  Where a block is on the stack for the last
   time, it is not further down than what comes after it. *)
StackInv(seen, lev, par, stack) ==
  /\ \A i \in 1 .. Len(stack) : stack[i] \notin seen => Child(seen, lev, par, stack[i])
  /\ \A i, j \in 1 .. Len(stack) :
       i < j /\ stack[i] \notin seen /\ stack[j] \notin seen
         /\ (\A k \in i + 1 .. Len(stack) : stack[k] # stack[i])
         => lev[stack[i]] <= lev[stack[j]]

\* A block on the path waits for its successors, all others have none that is not visited.
OpenInv(seen, lev, stack) ==
  \A u \in seen : \A s \in Succs(u) \ seen :
    u \in OnPath(seen, lev) /\ s \in Range(stack) /\ lev[u] < lev[s]

\* Edges back: from a finished block to the path, and along the path.
EdgeInv(seen, lev, ls) ==
  /\ \A u \in Finished(seen, lev) : \A s \in Succs(u) : s \in ls[u] \/ s \in Finished(seen, lev)
  /\ \A u, v \in OnPath(seen, lev) : v \in Succs(u) /\ lev[v] <= lev[u] => v \in ls[u]

\* x has no predecessor in X but over an edge that closes a loop.
Source(X, ls, x) == x \in X /\ \A p \in X : x \in Succs(p) => x \in ls[p]

\* Without the edges that close a loop there is no cycle among the blocks of S.
NoCycle(S, ls) == \A X \in SUBSET S : X # {} => \E x \in X : Source(X, ls, x)

\* An edge that closes a loop is on a cycle.
OnCycle(ls) == \A u \in Blocks : \A s \in ls[u] : s \in Reaching({u}, Blocks)

SearchInv(seen, lev, par, ls, stack) ==
  /\ SearchTypes(seen, lev, par, ls, stack)
  /\ PathInv(seen, lev, par) /\ StackInv(seen, lev, par, stack) /\ OpenInv(seen, lev, stack)
  /\ EdgeInv(seen, lev, ls) /\ NoCycle(Finished(seen, lev), ls) /\ OnCycle(ls)

\* On top of the stack is a block that has not been visited, further down than the path.
TopInv(seen, lev, stack) ==
  stack # <<>> => /\ stack[Len(stack)] \notin seen
                  /\ \A u \in OnPath(seen, lev) : lev[u] < lev[stack[Len(stack)]]

\* Nothing has been visited.
Unstarted(seen, lev, par, ls, stack) ==
  /\ seen = {} /\ stack = <<1>> /\ lev = [b \in Blocks |-> 0] /\ par = [b \in Blocks |-> 0]
  /\ ls = [b \in Blocks |-> {}]

\* Of the blocks that wait, none is further down than the one on top.
LEMMA TopIsLowest ==
  ASSUME NEW seen, NEW lev, NEW par, NEW ls, NEW stack,
         SearchTypes(seen, lev, par, ls, stack), StackInv(seen, lev, par, stack),
         stack # <<>>, stack[Len(stack)] \notin seen,
         NEW x \in Range(stack), x \notin seen
  PROVE  lev[x] <= lev[stack[Len(stack)]]
<1> PICK n : n = Len(stack)
  OBVIOUS
<1>1. stack \in Seq(Blocks) /\ n \in Nat /\ n > 0 /\ lev \in [Blocks -> Nat]
  BY EmptySeq, LenProperties DEF SearchTypes
<1> DEFINE T == {i \in 1 .. n : stack[i] = x}
<1>2. T # {} /\ T \subseteq 0 .. n
  BY <1>1, RangeFacts
<1>3. PICK i \in T : \A k \in T : k <= i
  BY <1>1, <1>2, GreatestNat
<1>4. i \in 1 .. n /\ stack[i] = x /\ x \in Blocks
  BY <1>1, RangeFacts
<1>5. CASE i = n
  BY <1>1, <1>4, <1>5
<1>6. CASE i # n
  <2>1. \A k \in i + 1 .. n : stack[k] # x
    <3>1. \A k \in i + 1 .. n : k \in 1 .. n /\ ~(k <= i)
      BY <1>1, <1>4
    <3> QED
      BY <1>3, <3>1
  <2>2. i < n /\ n \in 1 .. n
    BY <1>1, <1>4, <1>6
  <2> QED
    BY <1>4, <2>1, <2>2 DEF StackInv
<1> QED
  BY <1>5, <1>6

(* A set of blocks of the path with the lowest one and, above the level lo, the parent of
   each of its members has all of the path below lo. *)
LEMMA PathDown ==
  ASSUME NEW seen, NEW lev, NEW par, NEW ls, NEW stack,
         SearchTypes(seen, lev, par, ls, stack), PathInv(seen, lev, par),
         NEW b \in OnPath(seen, lev), \A u \in OnPath(seen, lev) : lev[u] <= lev[b],
         NEW lo \in Nat, NEW Y, b \in Y,
         \A q \in Y : q \in OnPath(seen, lev) /\ q # 1 /\ lev[q] > lo + 1 => par[q] \in Y
  PROVE  \A u \in OnPath(seen, lev) : lev[u] > lo => u \in Y
<1> PICK P : P = OnPath(seen, lev)
  OBVIOUS
<1>1. /\ lev \in [Blocks -> Nat] /\ P \subseteq Blocks /\ b \in P /\ lev[1] = 1
      /\ \A u \in P : lev[u] <= lev[b] /\ lev[u] # 0
      /\ \A u \in P \ {1} : par[u] \in P /\ lev[u] = lev[par[u]] + 1
      /\ \A u, v \in P : lev[u] = lev[v] => u = v
      /\ \A q \in Y : q \in P /\ q # 1 /\ lev[q] > lo + 1 => par[q] \in Y
  BY DEF SearchTypes, PathInv, OnPath, Child
<1>2. PICK n \in Nat : n = lev[b]
  BY <1>1
<1> DEFINE T == {k \in Nat : n - k > lo => \E q \in P \cap Y : lev[q] = n - k}
<1>3. 0 \in T
  BY <1>1, <1>2
<1>4. ASSUME NEW k \in Nat, k \in T PROVE k + 1 \in T
  <2> SUFFICES ASSUME n - (k + 1) > lo PROVE \E q \in P \cap Y : lev[q] = n - (k + 1)
    OBVIOUS
  <2>1. PICK q \in P \cap Y : lev[q] = n - k
    BY <1>2, <1>4
  <2>2. lev[q] > lo + 1 /\ q # 1
    BY <1>1, <1>2, <2>1
  <2>3. par[q] \in P \cap Y /\ lev[q] = lev[par[q]] + 1 /\ lev[par[q]] \in Nat
    BY <1>1, <2>1, <2>2
  <2> QED
    BY <1>2, <2>1, <2>3
<1> HIDE DEF T
<1>5. Nat \subseteq T
  BY <1>3, <1>4, SetInduction
<1>6. ASSUME NEW u \in P, lev[u] > lo PROVE u \in Y
  <2>1. lev[u] \in Nat /\ lev[u] <= n
    BY <1>1, <1>2
  <2>2. n - lev[u] \in Nat /\ n - (n - lev[u]) = lev[u]
    BY <1>2, <2>1
  <2>3. n - lev[u] \in T
    BY <1>5, <2>2
  <2>4. PICK q \in P \cap Y : lev[q] = lev[u]
    BY <1>6, <2>2, <2>3 DEF T
  <2> QED
    BY <1>1, <2>4
<1> QED
  BY <1>6

\* b is visited; the blocks of new are its successors to visit.
Visited(b, mine, seen0, lev0, par0, ls0, seen, lev, par, ls, new) ==
  /\ seen = seen0 \cup {b} /\ new = Unseen(b, seen)
  /\ lev = [x \in Blocks |-> IF x \in Range(new) THEN mine + 1 ELSE IF x = b THEN mine ELSE lev0[x]]
  /\ par = [x \in Blocks |-> IF x \in Range(new) THEN b ELSE par0[x]]
  /\ ls = [ls0 EXCEPT ![b] = {s \in Succs(b) \cap seen : lev[s] # 0 /\ mine >= lev[s]}]

\* b is at the end of the path; its successors in new wait below it, the others above them.
EndsAt(b, seen, lev, new, full) ==
  /\ b \in OnPath(seen, lev) /\ \A u \in OnPath(seen, lev) : lev[u] <= lev[b]
  /\ \A x \in Range(full) \ seen :
       IF x \in Range(new) THEN lev[x] = lev[b] + 1 ELSE lev[x] <= lev[b]

\* The visit of the first block.
LEMMA FirstVisit ==
  ASSUME prog \in Programs,
         NEW seen0, NEW lev0, NEW par0, NEW ls0, Unstarted(seen0, lev0, par0, ls0, << 1 >>),
         NEW seen, NEW lev, NEW par, NEW ls, NEW new,
         Visited(1, 1, seen0, lev0, par0, ls0, seen, lev, par, ls, new)
  PROVE  SearchInv(seen, lev, par, ls, new) /\ EndsAt(1, seen, lev, new, new)
<1>1. 1 \in Blocks /\ \A b \in Blocks : Succs(b) \subseteq Blocks /\ b \in Nat
  BY CgAnalysesAssumption, ProgramFacts
<1>2. /\ seen = {1}
      /\ \A x \in Blocks : lev0[x] = 0 /\ par0[x] = 0 /\ ls0[x] = {}
      /\ ls0 = [b \in Blocks |-> {}]
  BY DEF Unstarted, Visited
<1>3. /\ new \in Seq(Blocks)
      /\ \A x : x \in Range(new) <=> x \in Succs(1) /\ x # 1
  BY <1>1, <1>2, UnseenFacts DEF Visited
<1>4. /\ lev \in [Blocks -> Nat] /\ par \in [Blocks -> Blocks \cup {0}]
      /\ \A x \in Range(new) : x \in Blocks /\ lev[x] = 2 /\ par[x] = 1
      /\ lev[1] = 1 /\ par[1] = 0
      /\ \A x \in Blocks : x = 1 \/ x \in Range(new) \/ lev[x] = 0
  <2>1. \A x \in Blocks : /\ lev[x] = IF x \in Range(new) THEN 2 ELSE IF x = 1 THEN 1 ELSE 0
                          /\ par[x] = IF x \in Range(new) THEN 1 ELSE 0
    BY <1>2 DEF Visited
  <2>2. \A x \in Range(new) : x \in Blocks
    BY <1>1, <1>3
  <2>3. lev \in [Blocks -> Nat]
    <3>1. lev = [x \in Blocks |-> lev[x]]
      BY DEF Visited
    <3> QED
      BY <2>1, <3>1
  <2>4. par \in [Blocks -> Blocks \cup {0}]
    <3>1. par = [x \in Blocks |-> par[x]]
      BY DEF Visited
    <3> QED
      BY <1>1, <2>1, <3>1
  <2> QED
    BY <1>1, <1>3, <2>1, <2>2, <2>3, <2>4
<1>5. /\ ls \in [Blocks -> SUBSET Blocks]
      /\ \A x \in Blocks : x # 1 => ls[x] = {}
      /\ ls[1] \subseteq {1} /\ (1 \in Succs(1) => 1 \in ls[1])
  <2>1. ls = [ls0 EXCEPT ![1] = {s \in Succs(1) \cap seen : lev[s] # 0 /\ 1 >= lev[s]}]
    BY DEF Visited
  <2>2. {s \in Succs(1) \cap seen : lev[s] # 0 /\ 1 >= lev[s]} \subseteq {1}
    BY <1>2
  <2>3. 1 \in Succs(1) => 1 \in {s \in Succs(1) \cap seen : lev[s] # 0 /\ 1 >= lev[s]}
    BY <1>2, <1>4
  <2> QED
    BY <1>1, <1>2, <2>1, <2>2, <2>3
<1>6. OnPath(seen, lev) = {1} /\ Finished(seen, lev) = {}
  BY <1>2, <1>4 DEF OnPath, Finished
<1>7. \A i \in 1 .. Len(new) : new[i] \in Range(new) /\ new[i] \in Blocks
  BY <1>3, RangeFacts
<1>8. SearchTypes(seen, lev, par, ls, new)
  BY <1>1, <1>2, <1>3, <1>4, <1>5 DEF SearchTypes
<1>9. PathInv(seen, lev, par)
  BY <1>2, <1>4, <1>6 DEF PathInv
<1>10. StackInv(seen, lev, par, new)
  BY <1>3, <1>4, <1>6, <1>7 DEF StackInv, Child
<1>11. OpenInv(seen, lev, new)
  BY <1>2, <1>3, <1>4, <1>6 DEF OpenInv
<1>12. EdgeInv(seen, lev, ls)
  BY <1>2, <1>5, <1>6 DEF EdgeInv
<1>13. NoCycle(Finished(seen, lev), ls)
  BY <1>6 DEF NoCycle
<1>14. OnCycle(ls)
  <2>1. {1} \subseteq Reaching({1}, Blocks)
    BY <1>1, ReachingFacts
  <2> QED
    BY <1>5, <2>1 DEF OnCycle
<1>15. EndsAt(1, seen, lev, new, new)
  BY <1>4, <1>6 DEF EndsAt
<1> QED
  BY <1>8, <1>9, <1>10, <1>11, <1>12, <1>13, <1>14, <1>15 DEF SearchInv

\* The visit of the block on top of the stack.
LEMMA NextVisit ==
  ASSUME prog \in Programs,
         NEW seen0, NEW lev0, NEW par0, NEW ls0, NEW stack,
         SearchInv(seen0, lev0, par0, ls0, stack), TopInv(seen0, lev0, stack),
         stack # <<>>, NEW b, b = stack[Len(stack)],
         NEW seen, NEW lev, NEW par, NEW ls, NEW new,
         Visited(b, lev0[b], seen0, lev0, par0, ls0, seen, lev, par, ls, new)
  PROVE  /\ SearchInv(seen, lev, par, ls, SubSeq(stack, 1, Len(stack) - 1) \o new)
         /\ EndsAt(b, seen, lev, new, SubSeq(stack, 1, Len(stack) - 1) \o new)
<1> PICK n, P0, P, N, F : /\ n = Len(stack) /\ P0 = OnPath(seen0, lev0) /\ P = OnPath(seen, lev)
                          /\ N = Range(new) /\ F = Finished(seen0, lev0)
  OBVIOUS
<1> PICK full : full = SubSeq(stack, 1, n - 1) \o new
  OBVIOUS
<1>1. 1 \in Blocks /\ \A x \in Blocks : Succs(x) \subseteq Blocks /\ x \in Nat
  BY CgAnalysesAssumption, ProgramFacts
<1>2. /\ seen0 \in SUBSET Blocks /\ lev0 \in [Blocks -> Nat] /\ par0 \in [Blocks -> Blocks \cup {0}]
      /\ ls0 \in [Blocks -> SUBSET Blocks] /\ stack \in Seq(Blocks)
  BY DEF SearchInv, SearchTypes
<1>3. n \in Nat /\ n > 0 /\ n \in 1 .. n /\ \A i \in 1 .. n : stack[i] \in Blocks /\ stack[i] \in Range(stack)
  <2>1. n \in Nat /\ n # 0
    BY <1>2, EmptySeq, LenProperties
  <2> QED
    BY <1>2, <2>1, RangeFacts
<1>4. b \in Blocks /\ b = stack[n] /\ b \notin seen0 /\ \A u \in P0 : lev0[u] < lev0[b]
  BY <1>3 DEF TopInv
<1>5. /\ new \in Seq(Blocks) /\ seen = seen0 \cup {b}
      /\ \A x : x \in N <=> x \in Succs(b) /\ x \notin seen
  BY <1>4, UnseenFacts DEF Visited
<1>6. \A x \in N : x \in Blocks
  BY <1>1, <1>4, <1>5
<1>7. par0[b] \in P0 /\ lev0[b] = lev0[par0[b]] + 1 /\ b \in Succs(par0[b])
  BY <1>3, <1>4 DEF SearchInv, StackInv, Child
<1>8. /\ lev \in [Blocks -> Nat] /\ par \in [Blocks -> Blocks \cup {0}]
      /\ \A x \in N : lev[x] = lev0[b] + 1 /\ par[x] = b
      /\ \A x \in Blocks : x \notin N => lev[x] = lev0[x] /\ par[x] = par0[x]
  <2>1. \A x \in Blocks : /\ lev[x] = IF x \in N THEN lev0[b] + 1 ELSE IF x = b THEN lev0[b] ELSE lev0[x]
                          /\ par[x] = IF x \in N THEN b ELSE par0[x]
    BY DEF Visited
  <2>2. lev \in [Blocks -> Nat]
    <3>1. lev = [x \in Blocks |-> lev[x]]
      BY DEF Visited
    <3>2. \A x \in Blocks : lev0[x] \in Nat
      BY <1>2
    <3> QED
      BY <1>4, <2>1, <3>1, <3>2
  <2>3. par \in [Blocks -> Blocks \cup {0}]
    <3>1. par = [x \in Blocks |-> par[x]]
      BY DEF Visited
    <3>2. \A x \in Blocks : par0[x] \in Blocks \cup {0}
      BY <1>2
    <3> QED
      BY <1>4, <2>1, <3>1, <3>2
  <2> QED
    BY <1>4, <1>6, <2>1, <2>2, <2>3
<1>9. \A u \in P0 : u \in seen0 /\ u \in Blocks /\ lev0[u] # 0
  BY <1>2 DEF OnPath
<1>10. lev0[b] \in Nat /\ lev0[b] # 0 /\ b \notin N
  BY <1>2, <1>4, <1>5, <1>7, <1>9
<1>11. \A u \in seen : u \in Blocks /\ lev[u] = lev0[u] /\ par[u] = par0[u]
  BY <1>2, <1>4, <1>5, <1>8
<1>12. P = P0 \cup {b} /\ Finished(seen, lev) = F
  BY <1>4, <1>5, <1>10, <1>11 DEF OnPath, Finished
<1>13. /\ ls \in [Blocks -> SUBSET Blocks]
       /\ \A x \in Blocks : x # b => ls[x] = ls0[x]
       /\ ls[b] = {s \in Succs(b) \cap seen : lev[s] # 0 /\ lev0[b] >= lev[s]}
  BY <1>1, <1>2, <1>4 DEF Visited
<1>14. /\ full \in Seq(Blocks) /\ Len(full) = n - 1 + Len(new) /\ Len(new) \in Nat
       /\ \A i \in 1 .. n - 1 : full[i] = stack[i]
       /\ \A i \in n .. Len(full) : full[i] \in N
       /\ \A i \in 1 .. Len(full) : full[i] \in Blocks
       /\ \A x : x \in Range(full) <=> x \in N \/ \E i \in 1 .. n - 1 : stack[i] = x
  <2> PICK front : front = SubSeq(stack, 1, n - 1)
    OBVIOUS
  <2>1. front \in Seq(Blocks) /\ Len(front) = n - 1 /\ \A i \in 1 .. n - 1 : front[i] = stack[i]
    <3>1. 1 \in 1 .. n + 1 /\ n - 1 \in 1 - 1 .. n /\ (n - 1) - 1 + 1 = n - 1 /\ \A k \in 1 .. n - 1 : 1 + k - 1 = k
      BY <1>3
    <3>2. /\ SubSeq(stack, 1, n - 1) \in Seq(Blocks) /\ Len(SubSeq(stack, 1, n - 1)) = (n - 1) - 1 + 1
          /\ \A k \in 1 .. (n - 1) - 1 + 1 : SubSeq(stack, 1, n - 1)[k] = stack[1 + k - 1]
      BY <1>2, <3>1, PartFacts
    <3> QED
      BY <3>1, <3>2
  <2>2. front \in Seq(Blocks) /\ new \in Seq(Blocks)
    BY <1>5, <2>1
  <2>3. /\ front \o new \in Seq(Blocks)
        /\ Len(front \o new) = Len(front) + Len(new)
        /\ \A i \in 1 .. Len(front) : (front \o new)[i] = front[i]
        /\ \A i \in Len(front) + 1 .. Len(front) + Len(new) :
              i - Len(front) \in 1 .. Len(new) /\ (front \o new)[i] = new[i - Len(front)]
        /\ \A x : x \in Range(front \o new) <=> x \in Range(front) \/ x \in Range(new)
    BY ONLY <2>2, JoinedFacts
  <2>4. full = front \o new
    OBVIOUS
  <2>5. Len(new) \in Nat /\ \A i \in 1 .. Len(new) : new[i] \in N
    BY <1>5, LenProperties, RangeFacts
  <2>6. \A x : x \in Range(front) <=> \E i \in 1 .. n - 1 : stack[i] = x
    <3>1. /\ \A i \in 1 .. Len(front) : front[i] \in Range(front)
          /\ \A x \in Range(front) : \E i \in 1 .. Len(front) : front[i] = x
      BY ONLY <2>2, RangeFacts
    <3> QED
      BY <2>1, <3>1
  <2>7. full \in Seq(Blocks) /\ Len(full) = n - 1 + Len(new)
    BY <2>1, <2>3, <2>4
  <2>8. \A i \in 1 .. n - 1 : full[i] = stack[i]
    BY <2>1, <2>3, <2>4
  <2>9. \A i \in n .. Len(full) : full[i] \in N
    <3>1. (n - 1) + 1 = n
      BY <1>3
    <3> QED
      BY <2>1, <2>3, <2>4, <2>5, <2>7, <3>1
  <2>10. \A x : x \in Range(full) <=> x \in N \/ \E i \in 1 .. n - 1 : stack[i] = x
    BY <2>3, <2>4, <2>6
  <2>11. \A i \in 1 .. Len(full) : full[i] \in Blocks
    BY <2>7, RangeFacts
  <2> QED
    BY <2>5, <2>7, <2>8, <2>9, <2>10, <2>11
<1>15. \A x \in Range(stack) : x \notin seen0 => lev0[x] <= lev0[b]
  BY <1>4, TopIsLowest DEF SearchInv
<1>16. \A i \in 1 .. n - 1 : i \in 1 .. n /\ stack[i] \in Range(stack)
  BY <1>3
<1>17. lev[b] = lev0[b] /\ \A u \in P : lev[u] <= lev[b]
  <2>1. lev[b] = lev0[b]
    BY <1>4, <1>8, <1>10
  <2>2. \A u \in P0 : lev[u] = lev0[u] /\ lev0[u] \in Nat /\ lev0[u] < lev0[b]
    BY <1>2, <1>4, <1>5, <1>9, <1>11
  <2> QED
    BY <1>10, <1>12, <2>1, <2>2
<1>18. SearchTypes(seen, lev, par, ls, full)
  BY <1>2, <1>4, <1>5, <1>8, <1>13, <1>14 DEF SearchTypes
<1>19. PathInv(seen, lev, par)
  <2>1. /\ par0[1] = 0 /\ 1 \in seen0 /\ lev0[1] = 1
        /\ \A u \in P0 \ {1} : par0[u] \in P0 /\ lev0[u] = lev0[par0[u]] + 1 /\ u \in Succs(par0[u])
        /\ \A u, v \in P0 : lev0[u] = lev0[v] => u = v
    BY DEF SearchInv, PathInv, Child
  <2>2. par[1] = 0 /\ 1 \in seen /\ lev[1] = 1
    BY <1>5, <1>11, <2>1
  <2>3. \A u \in P \ {1} : par[u] \in P /\ lev[u] = lev[par[u]] + 1 /\ u \in Succs(par[u])
    <3>1. \A u \in P : u \in seen
      BY <1>5, <1>9, <1>12
    <3>2. \A u \in P \ {1} : par0[u] \in P0 /\ lev0[u] = lev0[par0[u]] + 1 /\ u \in Succs(par0[u])
      BY <1>7, <1>12, <2>1
    <3> QED
      BY <1>11, <1>12, <3>1, <3>2
  <2>4. \A u, v \in P : lev[u] = lev[v] => u = v
    <3>1. \A u \in P0 : lev[u] = lev0[u] /\ lev[u] < lev[b] /\ lev0[u] \in Nat
      BY <1>2, <1>4, <1>5, <1>9, <1>10, <1>11
    <3>2. lev[b] \in Nat
      BY <1>4, <1>8
    <3> QED
      BY <1>12, <2>1, <3>1, <3>2
  <2> QED
    BY <2>2, <2>3, <2>4 DEF PathInv, Child
<1>20. StackInv(seen, lev, par, full)
  <2>1. ASSUME NEW i \in 1 .. Len(full), full[i] \notin seen PROVE Child(seen, lev, par, full[i])
    <3> PICK x : x = full[i]
      OBVIOUS
    <3>1. CASE x \in N
      BY <1>5, <1>8, <1>10, <1>12, <1>4, <3>1 DEF Child
    <3>2. CASE x \notin N
      <4>1. i \in 1 .. n - 1
        BY <1>3, <1>14, <3>2
      <4>2. x = stack[i] /\ x \notin seen0 /\ x \in Blocks /\ i \in 1 .. n
        BY <1>5, <1>14, <1>16, <2>1, <4>1
      <4>3. par0[x] \in P0 /\ lev0[x] = lev0[par0[x]] + 1 /\ x \in Succs(par0[x])
        BY <4>2 DEF SearchInv, StackInv, Child
      <4>4. par[x] = par0[x] /\ lev[x] = lev0[x]
        BY <1>8, <3>2, <4>2
      <4>5. par0[x] \in P /\ lev[par0[x]] = lev0[par0[x]]
        BY <1>5, <1>9, <1>11, <1>12, <4>3
      <4> QED
        BY <4>3, <4>4, <4>5 DEF Child
    <3> QED
      BY <3>1, <3>2
  <2>2. ASSUME NEW i \in 1 .. Len(full), NEW j \in 1 .. Len(full), i < j,
               full[i] \notin seen, full[j] \notin seen,
               \A k \in i + 1 .. Len(full) : full[k] # full[i]
        PROVE  lev[full[i]] <= lev[full[j]]
    <3> PICK x, y : x = full[i] /\ y = full[j]
      OBVIOUS
    <3>1. x \in Blocks /\ y \in Blocks /\ x \notin seen /\ y \notin seen
      BY <1>14, <2>2
    <3>2. CASE y \in N
      <4>1. CASE x \in N
        <5>1. lev[x] = lev0[b] + 1 /\ lev[y] = lev0[b] + 1
          BY <1>8, <3>2, <4>1
        <5> QED
          BY <1>10, <5>1
      <4>2. CASE x \notin N
        <5>1. i \in 1 .. n - 1
          BY <1>3, <1>14, <4>2
        <5>2. x \in Range(stack) /\ x \notin seen0
          BY <1>5, <1>14, <1>16, <3>1, <5>1
        <5>3. lev[x] = lev0[x] /\ lev0[x] <= lev0[b] /\ lev[y] = lev0[b] + 1 /\ lev0[x] \in Nat
          BY <1>2, <1>8, <1>15, <3>1, <3>2, <4>2, <5>2
        <5> QED
          BY <1>10, <5>3
      <4> QED
        BY <4>1, <4>2
    <3>3. CASE y \notin N
      <4>1. j \in 1 .. n - 1 /\ i \in 1 .. n - 1
        BY <1>3, <1>14, <2>2, <3>3
      <4>2. x \notin N
        <5>1. ASSUME x \in N PROVE FALSE
          <6>1. PICK k \in 1 .. Len(new) : new[k] = x
            <7>1. new \in Seq(Blocks)
              BY <1>5
            <7>2. \A z \in Range(new) : \E k \in 1 .. Len(new) : new[k] = z
              BY ONLY <7>1, RangeFacts
            <7> QED
              BY <5>1, <7>2
          <6>2. n - 1 + k \in i + 1 .. Len(full)
            BY <1>3, <1>14, <4>1
          <6>3. full[n - 1 + k] = x
            <7> PICK front : front = SubSeq(stack, 1, n - 1)
              OBVIOUS
            <7>1. front \in Seq(Blocks) /\ Len(front) = n - 1
              <8>1. 1 \in 1 .. n + 1 /\ n - 1 \in 1 - 1 .. n /\ (n - 1) - 1 + 1 = n - 1
                BY <1>3
              <8> QED
                BY <1>2, <8>1, PartFacts
            <7>2. front \in Seq(Blocks) /\ new \in Seq(Blocks)
              BY <1>5, <7>1
            <7>3. \A m \in Len(front) + 1 .. Len(front) + Len(new) :
                     (front \o new)[m] = new[m - Len(front)]
              BY ONLY <7>2, JoinedFacts
            <7>4. n - 1 + k \in (n - 1) + 1 .. (n - 1) + Len(new) /\ (n - 1 + k) - (n - 1) = k
              BY <1>3, <1>14
            <7>5. full = front \o new
              OBVIOUS
            <7>6. n - 1 + k \in Len(front) + 1 .. Len(front) + Len(new) /\ (n - 1 + k) - Len(front) = k
              BY <7>1, <7>4
            <7>7. (front \o new)[n - 1 + k] = new[k]
              BY <7>3, <7>6
            <7> QED
              BY <6>1, <7>5, <7>7
          <6> QED
            BY <2>2, <6>2, <6>3
        <5> QED
          BY <5>1
      <4>3. x = stack[i] /\ y = stack[j] /\ x \notin seen0 /\ y \notin seen0 /\ x # b
        BY <1>5, <1>14, <3>1, <4>1
      <4>4. \A k \in i + 1 .. n : stack[k] # x
        <5>1. \A k \in i + 1 .. n : k = n \/ (k \in 1 .. n - 1 /\ k \in i + 1 .. Len(full))
          BY <1>3, <1>14, <4>1
        <5> QED
          BY <1>4, <1>14, <2>2, <4>3, <5>1
      <4>5. lev0[x] <= lev0[y]
        <5>1. i \in 1 .. n /\ j \in 1 .. n
          BY <1>16, <4>1
        <5>2. \A k, m \in 1 .. n :
                 k < m /\ stack[k] \notin seen0 /\ stack[m] \notin seen0
                 /\ (\A o \in k + 1 .. n : stack[o] # stack[k])
                 => lev0[stack[k]] <= lev0[stack[m]]
          BY DEF SearchInv, StackInv
        <5>3. i < j
          BY <2>2
        <5> QED
          BY <4>3, <4>4, <5>1, <5>2, <5>3
      <4> QED
        BY <1>8, <3>1, <3>3, <4>2, <4>5
    <3> QED
      BY <3>2, <3>3
  <2> QED
    BY <2>1, <2>2 DEF StackInv
<1>21. OpenInv(seen, lev, full)
  <2> SUFFICES ASSUME NEW u \in seen, NEW s \in Succs(u) \ seen
               PROVE  u \in P /\ s \in Range(full) /\ lev[u] < lev[s]
    BY DEF OpenInv
  <2>1. CASE u = b
    <3>1. s \in N /\ lev[s] = lev0[b] + 1 /\ lev[b] = lev0[b]
      BY <1>4, <1>5, <1>8, <1>10, <2>1
    <3> QED
      BY <1>10, <1>12, <1>14, <2>1, <3>1
  <2>2. CASE u # b
    <3>1. u \in seen0 /\ s \in Succs(u) \ seen0 /\ s # b
      BY <1>5, <2>2
    <3>2. u \in P0 /\ s \in Range(stack) /\ lev0[u] < lev0[s]
      BY <3>1 DEF SearchInv, OpenInv
    <3>3. s \in Range(full) /\ s \in Blocks
      <4>1. PICK i \in 1 .. n : stack[i] = s
        BY <1>2, <3>2, RangeFacts
      <4>2. i \in 1 .. n - 1
        BY <1>3, <1>4, <3>1, <4>1
      <4> QED
        BY <1>3, <1>14, <4>1, <4>2
    <3>4. lev[u] = lev0[u] /\ lev0[u] \in Nat /\ lev0[u] < lev0[b]
      BY <1>2, <1>4, <1>9, <1>11, <3>2
    <3>5. lev[s] = lev0[s] \/ lev[s] = lev0[b] + 1
      BY <1>8, <3>3
    <3> QED
      BY <1>10, <1>12, <3>2, <3>3, <3>4, <3>5
  <2> QED
    BY <2>1, <2>2
<1>22. EdgeInv(seen, lev, ls)
  <2>1. /\ \A u \in F : \A s \in Succs(u) : s \in ls0[u] \/ s \in F
        /\ \A u, v \in P0 : v \in Succs(u) /\ lev0[v] <= lev0[u] => v \in ls0[u]
    BY DEF SearchInv, EdgeInv
  <2>2. \A u \in F : u \in Blocks /\ u # b
    BY <1>2, <1>4 DEF Finished
  <2>3. \A u \in F : \A s \in Succs(u) : s \in ls[u] \/ s \in F
    BY <1>13, <2>1, <2>2
  <2>4. ASSUME NEW u \in P, NEW v \in P, v \in Succs(u), lev[v] <= lev[u] PROVE v \in ls[u]
    <3>1. u \in Blocks /\ v \in Blocks /\ v \in seen /\ u \in seen /\ lev[v] # 0
      BY <1>4, <1>5, <1>9, <1>10, <1>11, <1>12
    <3>2. CASE u = b
      BY <1>13, <1>17, <2>4, <3>1, <3>2, <1>8
    <3>3. CASE u # b /\ v = b
      <4>1. u \in P0 /\ lev[u] = lev0[u] /\ lev0[u] < lev0[b] /\ lev0[u] \in Nat /\ lev[v] = lev0[b]
        BY <1>2, <1>4, <1>11, <1>12, <3>1, <3>3
      <4> QED
        BY <1>10, <2>4, <4>1
    <3>4. CASE u # b /\ v # b
      BY <1>11, <1>12, <1>13, <2>1, <2>4, <3>1, <3>4
    <3> QED
      BY <3>2, <3>3, <3>4
  <2> QED
    BY <1>12, <2>3, <2>4 DEF EdgeInv
<1>23. NoCycle(Finished(seen, lev), ls)
  <2> SUFFICES ASSUME NEW X \in SUBSET F, X # {} PROVE \E x \in X : Source(X, ls, x)
    BY <1>12 DEF NoCycle
  <2>1. PICK x \in X : Source(X, ls0, x)
    BY DEF SearchInv, NoCycle
  <2>2. \A p \in X : ls[p] = ls0[p]
    BY <1>2, <1>4, <1>13 DEF Finished
  <2>3. Source(X, ls, x)
    BY <2>1, <2>2 DEF Source
  <2> QED
    BY <2>3
<1>24. OnCycle(ls)
  <2> SUFFICES ASSUME NEW u \in Blocks, NEW s \in ls[u] PROVE s \in Reaching({u}, Blocks)
    BY DEF OnCycle
  <2>1. CASE u # b
    BY <1>13, <2>1 DEF SearchInv, OnCycle
  <2>2. CASE u = b
    <3> PICK Y : Y = Reaching({b}, Blocks)
      OBVIOUS
    <3>1. b \in Y /\ \A x \in Blocks : Succs(x) \cap Y # {} => x \in Y
      BY <1>4, ReachingFacts
    <3>2. s \in P /\ lev[s] > 0
      <4>1. s \in Succs(b) /\ s \in seen /\ lev[s] # 0
        BY <1>13, <2>2
      <4>2. lev[s] \in Nat /\ s \in P
        BY <1>8, <1>11, <4>1 DEF OnPath
      <4> QED
        BY <4>1, <4>2
    <3>3. ASSUME NEW q \in Y, q \in P, q # 1 PROVE par[q] \in Y
      <4>1. par[q] \in P /\ q \in Succs(par[q])
        BY <1>19, <3>3 DEF PathInv, Child
      <4>2. par[q] \in Blocks
        BY <1>4, <1>9, <1>12, <4>1
      <4> QED
        BY <3>1, <4>1, <4>2
    <3>4. \A q \in Y : q \in OnPath(seen, lev) /\ q # 1 /\ lev[q] > 0 + 1 => par[q] \in Y
      BY <3>3
    <3>5. b \in OnPath(seen, lev) /\ \A x \in OnPath(seen, lev) : lev[x] <= lev[b]
      BY <1>12, <1>17
    <3>6. \A x \in OnPath(seen, lev) : lev[x] > 0 => x \in Y
      <4>1. 0 \in Nat /\ b \in Y
        BY <3>1
      <4> QED
        BY ONLY <1>18, <1>19, <3>4, <3>5, <4>1, PathDown
    <3> QED
      BY <2>2, <3>2, <3>6
  <2> QED
    BY <2>1, <2>2
<1>25. EndsAt(b, seen, lev, new, full)
  <2>1. ASSUME NEW x \in Range(full) \ seen, x \notin N PROVE lev[x] <= lev[b]
    <3>1. PICK i \in 1 .. n - 1 : stack[i] = x
      BY <1>14, <2>1
    <3>2. x \in Range(stack) /\ x \notin seen0 /\ x \in Blocks
      BY <1>3, <1>5, <1>16, <3>1
    <3>3. lev[x] = lev0[x] /\ lev[b] = lev0[b]
      BY <1>4, <1>8, <1>10, <2>1, <3>2
    <3> QED
      BY <1>15, <3>2, <3>3
  <2>2. \A x \in N : lev[x] = lev[b] + 1
    BY <1>4, <1>8, <1>10
  <2> QED
    BY <1>12, <1>17, <2>1, <2>2 DEF EndsAt
<1> QED
  BY <1>18, <1>19, <1>20, <1>21, <1>22, <1>23, <1>24, <1>25 DEF SearchInv

\* What has been visited is taken from the top of the stack.
LEMMA PopKeeps ==
  ASSUME NEW seen, NEW lev, NEW par, NEW ls, NEW full, SearchInv(seen, lev, par, ls, full),
         NEW stack, stack = Unvisited(full, seen)
  PROVE  /\ SearchInv(seen, lev, par, ls, stack)
         /\ stack # <<>> => stack[Len(stack)] \notin seen
         /\ \A x : x \notin seen => (x \in Range(stack) <=> x \in Range(full))
<1> PICK m, n : m = Len(stack) /\ n = Len(full)
  OBVIOUS
<1>1. full \in Seq(Blocks)
  BY DEF SearchInv, SearchTypes
<1>2. /\ stack \in Seq(Blocks) /\ m \in 0 .. n
      /\ \A i \in 1 .. m : stack[i] = full[i]
      /\ \A i \in m + 1 .. n : full[i] \in seen
      /\ stack # <<>> => m > 0 /\ stack[m] \notin seen
  BY <1>1, UnvisitedFacts
<1>3. /\ n \in Nat /\ m \in Nat /\ \A i \in 1 .. m : i \in 1 .. n
      /\ \A i \in 1 .. n : i \in 1 .. m \/ i \in m + 1 .. n
  BY <1>1, <1>2, LenProperties
<1>4. /\ \A i \in 1 .. n : full[i] \in Range(full)
      /\ \A x \in Range(full) : \E i \in 1 .. n : full[i] = x
  BY <1>1, RangeFacts
<1>5. /\ \A i \in 1 .. m : stack[i] \in Range(stack)
      /\ \A x \in Range(stack) : \E i \in 1 .. m : stack[i] = x
  <2>1. stack \in Seq(Blocks)
    BY <1>2
  <2>2. /\ \A i \in 1 .. Len(stack) : stack[i] \in Range(stack)
        /\ \A x \in Range(stack) : \E i \in 1 .. Len(stack) : stack[i] = x
    BY ONLY <2>1, RangeFacts
  <2> QED
    BY <2>2
<1>6. ASSUME NEW x, x \notin seen PROVE x \in Range(stack) <=> x \in Range(full)
  <2>1. ASSUME x \in Range(full) PROVE x \in Range(stack)
    <3>1. PICK i \in 1 .. n : full[i] = x
      BY <1>4, <2>1
    <3>2. i \in 1 .. m
      BY <1>2, <1>3, <1>6, <3>1
    <3> QED
      BY <1>2, <1>5, <3>1, <3>2
  <2>2. ASSUME x \in Range(stack) PROVE x \in Range(full)
    BY <1>2, <1>3, <1>4, <1>5, <2>2
  <2> QED
    BY <2>1, <2>2
<1>7. SearchTypes(seen, lev, par, ls, stack)
  BY <1>2 DEF SearchInv, SearchTypes
<1>8. OpenInv(seen, lev, stack)
  BY <1>6 DEF SearchInv, OpenInv
<1>9. StackInv(seen, lev, par, stack)
  <2>1. /\ \A i \in 1 .. n : full[i] \notin seen => Child(seen, lev, par, full[i])
        /\ \A i, j \in 1 .. n :
             i < j /\ full[i] \notin seen /\ full[j] \notin seen
               /\ (\A k \in i + 1 .. n : full[k] # full[i])
               => lev[full[i]] <= lev[full[j]]
    BY DEF SearchInv, StackInv
  <2>2. ASSUME NEW i \in 1 .. m, NEW j \in 1 .. m, i < j, stack[i] \notin seen, stack[j] \notin seen,
               \A k \in i + 1 .. m : stack[k] # stack[i]
        PROVE  lev[stack[i]] <= lev[stack[j]]
    <3>1. \A k \in i + 1 .. n : full[k] # full[i]
      <4>1. \A k \in i + 1 .. n : (k \in i + 1 .. m /\ k \in 1 .. m) \/ k \in m + 1 .. n
        BY <1>3
      <4> QED
        BY <1>2, <2>2, <4>1
    <3> QED
      BY <1>2, <1>3, <2>1, <2>2, <3>1
  <2>3. \A i \in 1 .. m : stack[i] \notin seen => Child(seen, lev, par, stack[i])
    BY <1>2, <1>3, <2>1
  <2> QED
    BY <2>2, <2>3 DEF StackInv
<1> QED
  BY <1>2, <1>6, <1>7, <1>8, <1>9 DEF SearchInv

\* 0 is no block.
LEMMA BlockNumbers ==
  Cardinality(Blocks) \in Nat /\ 0 \notin Blocks /\ \A b \in Blocks : b \in Nat
<1>1. Cardinality(Blocks) \in Nat /\ Blocks = 1 .. Cardinality(Blocks)
  BY CgAnalysesAssumption, FS_CardinalityType
<1> QED
  BY <1>1

\* The path is taken back as far as to the parent of the block on top of the stack.
LEMMA ResetKeeps ==
  ASSUME NEW seen, NEW lev, NEW ls, NEW stack, SearchInv(seen, lev, parent, ls, stack),
         stack # <<>>, NEW top, top = stack[Len(stack)], top \notin seen,
         NEW b, EndsAt(b, seen, lev, <<>>, stack),
         NEW lev2, lev2 = [x \in Blocks |-> IF x \in PathBelow(b, parent[top]) THEN 0 ELSE lev[x]]
  PROVE  /\ SearchInv(seen, lev2, parent, ls, stack) /\ TopInv(seen, lev2, stack)
         /\ parent[top] # 0
<1> PICK P, F, P2, F2 : /\ P = OnPath(seen, lev) /\ F = Finished(seen, lev)
                        /\ P2 = OnPath(seen, lev2) /\ F2 = Finished(seen, lev2)
  OBVIOUS
<1> PICK gone, n, next, lo : /\ gone = PathBelow(b, parent[top]) /\ n = Len(stack)
                             /\ next = parent[top] /\ lo = lev[parent[top]]
  OBVIOUS
<1>1. /\ seen \in SUBSET Blocks /\ lev \in [Blocks -> Nat] /\ parent \in [Blocks -> Blocks \cup {0}]
      /\ ls \in [Blocks -> SUBSET Blocks] /\ stack \in Seq(Blocks)
  BY DEF SearchInv, SearchTypes
<1>2. n \in 1 .. n /\ n \in Nat /\ top \in Blocks /\ top \in Range(stack)
  <2>1. n \in Nat /\ n # 0
    BY <1>1, EmptySeq, LenProperties
  <2>2. n \in 1 .. n
    BY <2>1
  <2> QED
    BY <1>1, <2>1, <2>2, RangeFacts
<1>3. \A u \in P : u \in seen /\ u \in Blocks /\ lev[u] # 0 /\ lev[u] \in Nat
  BY <1>1 DEF OnPath
<1>4. next \in P /\ lev[top] = lo + 1 /\ lo \in Nat /\ lo >= 1
  <2>1. Child(seen, lev, parent, top)
    BY <1>2 DEF SearchInv, StackInv
  <2>2. next \in P /\ lev[top] = lo + 1
    BY <2>1 DEF Child
  <2> QED
    BY <1>3, <2>2
<1>5. next # 0
  BY <1>3, <1>4, BlockNumbers
<1>6. b \in P /\ (\A u \in P : lev[u] <= lev[b]) /\ \A x \in Range(stack) \ seen : lev[x] <= lev[b]
  <2>1. Range(<<>>) = {}
    BY EmptyFacts
  <2> QED
    BY <2>1 DEF EndsAt
<1>7. \A x \in Range(stack) : x \notin seen => lev[x] <= lo + 1
  <2>1. ASSUME NEW x \in Range(stack), x \notin seen PROVE lev[x] <= lev[top]
    BY <2>1, TopIsLowest DEF SearchInv
  <2> QED
    BY <1>4, <2>1
<1>8. /\ parent[1] = 0 /\ 1 \in seen /\ lev[1] = 1
      /\ \A u \in P \ {1} : parent[u] \in P /\ lev[u] = lev[parent[u]] + 1 /\ u \in Succs(parent[u])
      /\ \A u, v \in P : lev[u] = lev[v] => u = v
  BY DEF SearchInv, PathInv, Child
<1>9. /\ b \in gone /\ gone \subseteq Blocks
      /\ \A q \in gone : parent[q] \notin {0, next} => parent[q] \in gone
      /\ \A X \in SUBSET Blocks :
           b \in X /\ (\A q \in X : parent[q] \notin {0, next} => parent[q] \in X) => gone \subseteq X
  <2>1. parent \in [Blocks -> Blocks \cup {0}] /\ b \in Blocks
    BY <1>1, <1>3, <1>6
  <2>2. LET Q == PathBelow(b, next)
        IN  /\ b \in Q /\ Q \subseteq Blocks
            /\ \A q \in Q : parent[q] \notin {0, next} => parent[q] \in Q
            /\ \A X \in SUBSET Blocks :
                 b \in X /\ (\A q \in X : parent[q] \notin {0, next} => parent[q] \in X) => Q \subseteq X
    BY ONLY <2>1, PathBelowFacts
  <2>3. gone = PathBelow(b, next)
    OBVIOUS
  <2> QED
    BY <2>2, <2>3
<1>10. gone = {u \in P : lev[u] > lo}
  <2> DEFINE X == {u \in P : lev[u] > lo}
  <2>1. X \subseteq Blocks /\ b \in X
    BY <1>2, <1>3, <1>4, <1>6
  <2>2. ASSUME NEW q \in X, parent[q] \notin {0, next} PROVE parent[q] \in X
    <3>1. q # 1
      BY <1>8, <2>2
    <3>2. parent[q] \in P /\ lev[q] = lev[parent[q]] + 1
      BY <1>8, <3>1
    <3>3. lev[parent[q]] # lo /\ lev[parent[q]] \in Nat
      BY <1>3, <1>4, <1>8, <2>2, <3>2
    <3> QED
      BY <1>4, <3>2, <3>3
  <2>3. gone \subseteq X
    BY <1>9, <2>1, <2>2
  <2>4. \A q \in gone : q \in P /\ q # 1 /\ lev[q] > lo + 1 => parent[q] \in gone
    <3> SUFFICES ASSUME NEW q \in gone, q \in P, q # 1, lev[q] > lo + 1 PROVE parent[q] \in gone
      OBVIOUS
    <3>1. parent[q] \in P /\ lev[q] = lev[parent[q]] + 1 /\ lev[parent[q]] \in Nat /\ parent[q] \in Blocks
      BY <1>3, <1>8
    <3>2. lev[parent[q]] # lo
      BY <1>4, <3>1
    <3>3. parent[q] # next
      BY <3>2
    <3>4. parent[q] # 0
      BY <3>1, BlockNumbers
    <3> QED
      BY <1>9, <3>3, <3>4
  <2>5. \A u \in P : lev[u] > lo => u \in gone
    <3>1. SearchTypes(seen, lev, parent, ls, stack) /\ PathInv(seen, lev, parent)
      BY DEF SearchInv
    <3>2. b \in OnPath(seen, lev) /\ \A u \in OnPath(seen, lev) : lev[u] <= lev[b]
      BY <1>6
    <3>3. lo \in Nat /\ b \in gone
      BY <1>4, <1>9
    <3>4. \A q \in gone : q \in OnPath(seen, lev) /\ q # 1 /\ lev[q] > lo + 1 => parent[q] \in gone
      BY <2>4
    <3>5. \A u \in OnPath(seen, lev) : lev[u] > lo => u \in gone
      BY ONLY <3>1, <3>2, <3>3, <3>4, PathDown
    <3> QED
      BY <3>5
  <2> QED
    BY <2>3, <2>5
<1>11. /\ lev2 \in [Blocks -> Nat]
       /\ \A x \in Blocks : lev2[x] = IF x \in gone THEN 0 ELSE lev[x]
  BY <1>1
<1>12. P2 = {u \in P : lev[u] <= lo} /\ \A u \in P2 : lev2[u] = lev[u] /\ u \in P
  <2>1. \A u : u \in P2 <=> u \in seen /\ lev2[u] # 0
    BY DEF OnPath
  <2>2. \A u : u \in P <=> u \in seen /\ lev[u] # 0
    BY DEF OnPath
  <2>3. \A u \in seen : u \in Blocks
    BY <1>1
  <2>4. \A u \in P : lev[u] > lo <=> ~(lev[u] <= lo)
    BY <1>3, <1>4
  <2>5. \A u : u \in P2 <=> u \in P /\ lev[u] <= lo
    BY <1>10, <1>11, <2>1, <2>2, <2>3, <2>4
  <2>6. \A u \in P2 : lev2[u] = lev[u]
    BY <1>10, <1>11, <2>1, <2>3
  <2> QED
    BY <2>5, <2>6
<1>13. F2 = F \cup gone /\ F \cap P = {} /\ seen = F \cup P
  <2>1. gone \subseteq seen /\ P2 = P \ gone
    BY <1>3, <1>4, <1>10, <1>12
  <2>2. F2 = seen \ P2 /\ F = seen \ P /\ P \subseteq seen
    BY <1>3 DEF Finished
  <2> QED
    BY <1>10, <2>1, <2>2
<1>14. \A x \in Blocks : x \notin seen => lev2[x] = lev[x]
  BY <1>3, <1>10, <1>11
<1>15. SearchTypes(seen, lev2, parent, ls, stack)
  BY <1>1, <1>11 DEF SearchTypes
<1>16. PathInv(seen, lev2, parent)
  <2>1. 1 \in P2
    BY <1>4, <1>8, <1>12 DEF OnPath
  <2>2. ASSUME NEW u \in P2 \ {1} PROVE Child(seen, lev2, parent, u)
    <3>1. u \in P /\ parent[u] \in P /\ lev[u] = lev[parent[u]] + 1 /\ u \in Succs(parent[u]) /\ lev[u] <= lo
      BY <1>8, <1>12
    <3>2. lev[parent[u]] <= lo
      BY <1>3, <1>4, <3>1
    <3>3. parent[u] \in P2
      BY <1>12, <3>1, <3>2
    <3> QED
      BY <1>12, <3>1, <3>3 DEF Child
  <2>3. \A u, v \in P2 : lev2[u] = lev2[v] => u = v
    BY <1>8, <1>12
  <2> QED
    BY <1>8, <1>12, <2>1, <2>2, <2>3 DEF PathInv
<1>17. StackInv(seen, lev2, parent, stack)
  <2>1. \A i \in 1 .. n : stack[i] \in Blocks /\ stack[i] \in Range(stack)
    BY <1>1, RangeFacts
  <2>2. ASSUME NEW i \in 1 .. n, stack[i] \notin seen PROVE Child(seen, lev2, parent, stack[i])
    <3> PICK x : x = stack[i]
      OBVIOUS
    <3>1. Child(seen, lev, parent, x)
      BY <2>2 DEF SearchInv, StackInv
    <3>2. x \in Blocks /\ x \notin seen /\ lev[x] <= lo + 1
      BY <1>7, <2>1, <2>2
    <3>3. parent[x] \in P /\ lev[x] = lev[parent[x]] + 1 /\ x \in Succs(parent[x])
      BY <3>1 DEF Child
    <3>4. lev[parent[x]] <= lo
      BY <1>3, <1>4, <3>2, <3>3
    <3>5. parent[x] \in P2
      BY <1>12, <3>3, <3>4
    <3>6. lev2[x] = lev[x] /\ lev2[parent[x]] = lev[parent[x]]
      BY <1>12, <1>14, <3>2, <3>5
    <3> QED
      BY <3>3, <3>5, <3>6 DEF Child
  <2>3. \A i, j \in 1 .. n :
             i < j /\ stack[i] \notin seen /\ stack[j] \notin seen
               /\ (\A k \in i + 1 .. n : stack[k] # stack[i])
               => lev[stack[i]] <= lev[stack[j]]
    BY DEF SearchInv, StackInv
  <2>4. \A i \in 1 .. n : stack[i] \notin seen => lev2[stack[i]] = lev[stack[i]]
    BY <1>14, <2>1
  <2>5. \A i, j \in 1 .. n :
             i < j /\ stack[i] \notin seen /\ stack[j] \notin seen
               /\ (\A k \in i + 1 .. n : stack[k] # stack[i])
               => lev2[stack[i]] <= lev2[stack[j]]
    BY <2>3, <2>4
  <2> QED
    BY <2>2, <2>5 DEF StackInv
<1>18. \A u \in seen : \A s \in Succs(u) \ seen : u \in P /\ s \in Range(stack) /\ lev[u] < lev[s] /\ lev[u] <= lo
  <2> SUFFICES ASSUME NEW u \in seen, NEW s \in Succs(u) \ seen
               PROVE  u \in P /\ s \in Range(stack) /\ lev[u] < lev[s] /\ lev[u] <= lo
    OBVIOUS
  <2>1. u \in P /\ s \in Range(stack) /\ lev[u] < lev[s]
    BY DEF SearchInv, OpenInv
  <2>2. s \in Blocks
    BY <1>1, <2>1, RangeFacts
  <2>3. lev[s] \in Nat /\ lev[u] \in Nat /\ lev[s] <= lo + 1
    BY <1>1, <1>3, <1>7, <2>1, <2>2
  <2> QED
    BY <1>4, <2>1, <2>3
<1>19. OpenInv(seen, lev2, stack)
  <2> SUFFICES ASSUME NEW u \in seen, NEW s \in Succs(u) \ seen
               PROVE  u \in P2 /\ s \in Range(stack) /\ lev2[u] < lev2[s]
    BY DEF OpenInv
  <2>1. u \in P /\ s \in Range(stack) /\ lev[u] < lev[s] /\ lev[u] <= lo
    BY <1>18
  <2>2. s \in Blocks
    BY <1>1, <2>1, RangeFacts
  <2> QED
    BY <1>12, <1>14, <2>1, <2>2
<1>20. /\ \A u \in F : \A s \in Succs(u) : s \in ls[u] \/ s \in F
       /\ \A u, v \in P : v \in Succs(u) /\ lev[v] <= lev[u] => v \in ls[u]
  BY DEF SearchInv, EdgeInv
<1>21. EdgeInv(seen, lev2, ls)
  <2>1. ASSUME NEW u \in F2, NEW s \in Succs(u) PROVE s \in ls[u] \/ s \in F2
    <3>1. CASE u \in F
      BY <1>13, <1>20, <3>1
    <3>2. CASE u \in gone /\ s \notin F2
      <4>1. u \in P /\ lev[u] > lo /\ u \in seen
        BY <1>3, <1>10, <3>2
      <4>2. s \in seen
        BY <1>3, <1>4, <1>18, <4>1
      <4>3. s \in P /\ ~(lev[s] > lo)
        BY <1>10, <1>13, <3>2, <4>2
      <4>4. lev[s] <= lev[u]
        BY <1>3, <1>4, <4>1, <4>3
      <4> QED
        BY <1>20, <4>1, <4>3, <4>4
    <3> QED
      BY <1>13, <3>1, <3>2
  <2>2. \A u, v \in P2 : v \in Succs(u) /\ lev2[v] <= lev2[u] => v \in ls[u]
    BY <1>12, <1>20
  <2> QED
    BY <2>1, <2>2 DEF EdgeInv
<1>22. NoCycle(F2, ls)
  <2> SUFFICES ASSUME NEW X \in SUBSET F2, X # {} PROVE \E x \in X : Source(X, ls, x)
    BY DEF NoCycle
  <2>1. CASE X \cap gone = {}
    <3>1. X \in SUBSET F
      BY <1>13, <2>1
    <3> QED
      BY <3>1 DEF SearchInv, NoCycle
  <2>2. CASE X \cap gone # {}
    <3> DEFINE T == {lev[u] : u \in X \cap gone}
    <3>1. T # {} /\ T \subseteq Nat
      BY <1>3, <1>10, <2>2
    <3>2. PICK k \in T : \A m \in T : k <= m
      BY <3>1, LeastNat
    <3>3. PICK x \in X \cap gone : lev[x] = k
      BY <3>2
    <3>4. \A p \in X \cap gone : lev[x] <= lev[p]
      BY <3>2, <3>3
    <3>5. Source(X, ls, x)
      <4> SUFFICES ASSUME NEW p \in X, x \in Succs(p) PROVE x \in ls[p]
        BY <3>3 DEF Source
      <4>1. CASE p \in gone
        BY <1>10, <1>20, <3>4, <4>1
      <4>2. CASE p \in F
        BY <1>10, <1>13, <1>20, <4>2
      <4> QED
        BY <1>13, <4>1, <4>2
    <3> QED
      BY <3>5
  <2> QED
    BY <2>1, <2>2
<1>23. TopInv(seen, lev2, stack)
  <2>1. lev2[top] = lo + 1
    BY <1>2, <1>4, <1>14
  <2>2. \A u \in P2 : lev2[u] <= lo /\ lev2[u] \in Nat
    BY <1>3, <1>12
  <2> QED
    BY <1>4, <2>1, <2>2 DEF TopInv
<1> QED
  BY <1>5, <1>15, <1>16, <1>17, <1>19, <1>21, <1>22, <1>23 DEF SearchInv

\* The state of the search.
SearchHolds ==
  \/ Unstarted(visited, level, parent, loop_succs, dfs_bbs)
  \/ /\ SearchInv(visited, level, parent, loop_succs, dfs_bbs)
     /\ TopInv(visited, level, dfs_bbs)

\* A round of the loop of FindBackEdge.
LEMMA SearchStep ==
  ASSUME prog \in Programs, SearchHolds, FindBackEdge
  PROVE  /\ SearchInv(visited', level', parent', loop_succs', dfs_bbs')
         /\ TopInv(visited', level', dfs_bbs')
<1>1. PICK bb, seen, mine :
         bb = Last(dfs_bbs) /\ seen = visited \cup {bb} /\ mine = IF level[bb] = 0 THEN 1 ELSE level[bb]
  OBVIOUS
<1>2. PICK new, full, stack :
         new = Unseen(bb, seen) /\ full = Front(dfs_bbs) \o new /\ stack = Unvisited(full, seen)
  OBVIOUS
<1>3. PICK lv, par :
         /\ lv = [b \in Blocks |-> IF b \in Range(new) THEN mine + 1 ELSE IF b = bb THEN mine ELSE level[b]]
         /\ par = [b \in Blocks |-> IF b \in Range(new) THEN bb ELSE parent[b]]
  OBVIOUS
<1>4. PICK next, ls :
         /\ next = parent[Last(stack)]
         /\ ls = [loop_succs EXCEPT ![bb] = {s \in Succs(bb) \cap seen : lv[s] # 0 /\ mine >= lv[s]}]
  OBVIOUS
<1>5. /\ dfs_bbs # <<>> /\ visited' = seen /\ parent' = par /\ loop_succs' = ls /\ dfs_bbs' = stack
      /\ level' = IF new = <<>> /\ stack # <<>>
                  THEN [b \in Blocks |-> IF b \in (IF next = 0 THEN {bb} ELSE PathBelow(bb, next))
                                         THEN 0 ELSE lv[b]]
                  ELSE lv
  BY <1>1, <1>2, <1>3, <1>4, Zenon DEF FindBackEdge
<1>6. Visited(bb, mine, visited, level, parent, loop_succs, seen, lv, par, ls, new)
  BY <1>1, <1>2, <1>3, <1>4 DEF Visited
<1>7. SearchInv(seen, lv, par, ls, full) /\ EndsAt(bb, seen, lv, new, full)
  <2>1. CASE Unstarted(visited, level, parent, loop_succs, dfs_bbs)
    <3>1. dfs_bbs = <<1>> /\ level = [b \in Blocks |-> 0] /\ 1 \in Blocks
      BY <2>1, CgAnalysesAssumption DEF Unstarted
    <3>2. bb = 1 /\ mine = 1
      BY <1>1, <3>1 DEF Last
    <3>3. new \in Seq(Blocks)
      BY <1>2, <3>1, <3>2, UnseenFacts
    <3>4. full = new
      <4>1. Front(<<1>>) = <<>>
        BY DEF Front
      <4>2. <<>> \o new = new
        BY <3>3
      <4> QED
        BY <1>2, <3>1, <4>1, <4>2
    <3>5. Unstarted(visited, level, parent, loop_succs, <<1>>)
      BY <2>1, <3>1
    <3>6. Visited(1, 1, visited, level, parent, loop_succs, seen, lv, par, ls, new)
      BY <1>6, <3>2
    <3>7. SearchInv(seen, lv, par, ls, new) /\ EndsAt(1, seen, lv, new, new)
      BY ONLY prog \in Programs, <3>5, <3>6, FirstVisit
    <3> QED
      BY <3>2, <3>4, <3>7
  <2>2. CASE /\ SearchInv(visited, level, parent, loop_succs, dfs_bbs)
             /\ TopInv(visited, level, dfs_bbs)
    <3>1. /\ dfs_bbs \in Seq(Blocks) /\ level \in [Blocks -> Nat] /\ visited \in SUBSET Blocks
      BY <2>2 DEF SearchInv, SearchTypes
    <3>2. Len(dfs_bbs) \in 1 .. Len(dfs_bbs)
      <4>1. Len(dfs_bbs) \in Nat /\ Len(dfs_bbs) # 0
        BY <1>5, <3>1, EmptySeq, LenProperties
      <4> QED
        BY <4>1
    <3>3. bb = dfs_bbs[Len(dfs_bbs)] /\ full = SubSeq(dfs_bbs, 1, Len(dfs_bbs) - 1) \o new
      BY <1>1, <1>2 DEF Last, Front
    <3>4. bb \notin visited
      BY <1>5, <2>2, <3>3 DEF TopInv
    <3>5. Child(visited, level, parent, bb)
      BY <2>2, <3>2, <3>3, <3>4 DEF SearchInv, StackInv
    <3>6. mine = level[bb]
      BY <1>1, <3>1, <3>5 DEF Child, OnPath
    <3>7. Visited(bb, level[bb], visited, level, parent, loop_succs, seen, lv, par, ls, new)
      BY <1>6, <3>6
    <3>8. dfs_bbs # <<>> /\ bb = dfs_bbs[Len(dfs_bbs)]
      BY <1>5, <3>3
    <3>9. /\ SearchInv(seen, lv, par, ls, SubSeq(dfs_bbs, 1, Len(dfs_bbs) - 1) \o new)
          /\ EndsAt(bb, seen, lv, new, SubSeq(dfs_bbs, 1, Len(dfs_bbs) - 1) \o new)
      BY ONLY prog \in Programs, <2>2, <3>7, <3>8, NextVisit
    <3> QED
      BY <3>3, <3>9
  <2> QED
    BY <2>1, <2>2 DEF SearchHolds
<1>8. /\ SearchInv(seen, lv, par, ls, stack)
      /\ stack # <<>> => stack[Len(stack)] \notin seen
      /\ \A x : x \notin seen => (x \in Range(stack) <=> x \in Range(full))
  BY <1>2, <1>7, PopKeeps
<1>9. EndsAt(bb, seen, lv, new, stack)
  BY <1>7, <1>8 DEF EndsAt
<1>10. CASE new = <<>> /\ stack # <<>>
  <2>1. par = parent
    <3>1. parent \in [Blocks -> Blocks \cup {0}]
      <4>1. 1 \in Blocks
        BY CgAnalysesAssumption
      <4> QED
        BY DEF SearchHolds, Unstarted, SearchInv, SearchTypes
    <3>2. Range(new) = {}
      BY <1>10, EmptyFacts
    <3> QED
      BY <1>3, <3>1, <3>2
  <2> PICK lev2 : lev2 = [x \in Blocks |-> IF x \in PathBelow(bb, parent[stack[Len(stack)]]) THEN 0 ELSE lv[x]]
    OBVIOUS
  <2> PICK top : top = stack[Len(stack)]
    OBVIOUS
  <2>2. SearchInv(seen, lv, parent, ls, stack) /\ EndsAt(bb, seen, lv, <<>>, stack)
    BY <1>8, <1>9, <1>10, <2>1
  <2>3. /\ stack # <<>> /\ top = stack[Len(stack)] /\ top \notin seen
        /\ lev2 = [x \in Blocks |-> IF x \in PathBelow(bb, parent[top]) THEN 0 ELSE lv[x]]
    BY <1>8, <1>10
  <2>4. /\ SearchInv(seen, lev2, parent, ls, stack) /\ TopInv(seen, lev2, stack)
        /\ parent[top] # 0
    BY ONLY <2>2, <2>3, ResetKeeps
  <2>5. next = parent[top] /\ next # 0
    BY <1>4, <2>3, <2>4 DEF Last
  <2>6. level' = lev2
    BY <1>5, <1>10, <2>3, <2>5
  <2> QED
    BY <1>5, <2>1, <2>4, <2>6
<1>11. CASE ~(new = <<>> /\ stack # <<>>)
  <2>1. TopInv(seen, lv, stack)
    <3> SUFFICES ASSUME stack # <<>> PROVE \A u \in OnPath(seen, lv) : lv[u] < lv[stack[Len(stack)]]
      BY <1>8 DEF TopInv
    <3>0. PICK top : top = stack[Len(stack)]
      OBVIOUS
    <3>1. /\ new # <<>> /\ lv \in [Blocks -> Nat] /\ stack \in Seq(Blocks) /\ seen \in SUBSET Blocks
      BY <1>8, <1>11 DEF SearchInv, SearchTypes
    <3>2. bb \in Blocks
      <4>1. bb \in OnPath(seen, lv)
        BY <1>9 DEF EndsAt
      <4> QED
        BY <3>1, <4>1 DEF OnPath
    <3>3. PICK x \in Range(new) : x \in Blocks
      <4>1. new \in Seq(Blocks)
        BY <1>2, <3>2, UnseenFacts
      <4>2. Len(new) \in Nat /\ Len(new) # 0
        BY <3>1, <4>1, EmptySeq, LenProperties
      <4>3. 1 \in 1 .. Len(new)
        BY <4>2
      <4> QED
        BY <4>1, <4>3, RangeFacts
    <3>4. x \notin seen /\ x \in Range(stack)
      <4>1. \A y : y \in Range(new) => y \notin seen /\ y \in Range(full)
        <5>1. /\ new \in Seq(Blocks)
              /\ \A y : y \in Range(new) <=> y \in Succs(bb) /\ y \notin seen
          BY <1>2, <3>2, UnseenFacts
        <5>2. Front(dfs_bbs) \in Seq(Blocks)
          <6>1. dfs_bbs \in Seq(Blocks)
            <7>1. <<1>> \in Seq(Blocks)
              BY CgAnalysesAssumption
            <7> QED
              BY <7>1 DEF SearchHolds, Unstarted, SearchInv, SearchTypes
          <6>2. Len(dfs_bbs) \in Nat /\ Len(dfs_bbs) # 0
            BY <1>5, <6>1, EmptySeq, LenProperties
          <6>3. 1 \in 1 .. Len(dfs_bbs) + 1 /\ Len(dfs_bbs) - 1 \in 1 - 1 .. Len(dfs_bbs)
            BY <6>2
          <6> QED
            BY <6>1, <6>3, PartFacts DEF Front
        <5>3. new \in Seq(Blocks)
          BY <5>1
        <5>4. \A y : y \in Range(Front(dfs_bbs) \o new) <=> y \in Range(Front(dfs_bbs)) \/ y \in Range(new)
          BY ONLY <5>2, <5>3, JoinedFacts
        <5> QED
          BY <1>2, <5>1, <5>4
      <4> QED
        BY <1>8, <4>1
    <3>5. lv[x] = lv[bb] + 1 /\ \A u \in OnPath(seen, lv) : lv[u] <= lv[bb]
      BY <1>9, <3>4 DEF EndsAt
    <3>6. lv[x] <= lv[top]
      <4>1. SearchTypes(seen, lv, par, ls, stack) /\ StackInv(seen, lv, par, stack)
        BY <1>8 DEF SearchInv
      <4>2. stack # <<>> /\ stack[Len(stack)] \notin seen /\ x \in Range(stack) /\ x \notin seen
        BY <1>8, <3>4
      <4> QED
        BY <3>0, <4>1, <4>2, TopIsLowest
    <3>7. top \in Blocks
      <4>1. Len(stack) \in Nat /\ Len(stack) # 0
        BY <3>1, EmptySeq, LenProperties
      <4>2. Len(stack) \in 1 .. Len(stack)
        BY <4>1
      <4> QED
        BY <3>0, <3>1, <4>2, RangeFacts
    <3>8. ASSUME NEW u \in OnPath(seen, lv) PROVE lv[u] < lv[top]
      <4>1. u \in Blocks /\ lv[u] \in Nat /\ lv[bb] \in Nat /\ lv[top] \in Nat /\ lv[x] \in Nat
        BY <3>1, <3>2, <3>3, <3>7 DEF OnPath
      <4> QED
        BY <3>5, <3>6, <4>1
    <3> QED
      BY <3>0, <3>8
  <2> QED
    BY <1>5, <1>8, <1>11, <2>1
<1> QED
  BY <1>10, <1>11

\* The end of the search: every block has been visited, and no cycle is left.
LEMMA SearchEnds ==
  ASSUME prog \in Programs, SearchHolds, dfs_bbs = <<>>
  PROVE  /\ NoCycle(Blocks, loop_succs) /\ OnCycle(loop_succs) /\ loop_succs \in [Blocks -> SUBSET Blocks]
         /\ visited = Blocks
<1> PICK P, F : P = OnPath(visited, level) /\ F = Finished(visited, level)
  OBVIOUS
<1>1. SearchInv(visited, level, parent, loop_succs, <<>>)
  <2>1. <<1>> # <<>>
    OBVIOUS
  <2> QED
    BY <2>1 DEF SearchHolds, Unstarted
<1>2. /\ visited \in SUBSET Blocks /\ level \in [Blocks -> Nat]
      /\ loop_succs \in [Blocks -> SUBSET Blocks] /\ 1 \in visited
  BY <1>1 DEF SearchInv, SearchTypes, PathInv
<1>3. visited = Blocks
  <2>1. Range(<<>>) = {}
    BY EmptyFacts
  <2>2. \A u \in visited : Succs(u) \subseteq visited
    BY <1>1, <2>1 DEF SearchInv, OpenInv
  <2>3. \A u \in visited : Range(prog.succ[u]) \subseteq visited
    BY <2>2 DEF Succs
  <2> QED
    BY <1>2, <2>3, CgAnalysesAssumption
<1>4. /\ \A u \in F : \A s \in Succs(u) : s \in loop_succs[u] \/ s \in F
      /\ \A u, v \in P : v \in Succs(u) /\ level[v] <= level[u] => v \in loop_succs[u]
  BY <1>1 DEF SearchInv, EdgeInv
<1>5. Blocks = F \cup P /\ F \cap P = {}
  BY <1>2, <1>3 DEF Finished, OnPath
<1>6. NoCycle(Blocks, loop_succs)
  <2> SUFFICES ASSUME NEW X \in SUBSET Blocks, X # {} PROVE \E x \in X : Source(X, loop_succs, x)
    BY DEF NoCycle
  <2>1. CASE X \cap P = {}
    <3>1. X \in SUBSET F
      BY <1>5, <2>1
    <3> QED
      BY <1>1, <3>1 DEF SearchInv, NoCycle
  <2>2. CASE X \cap P # {}
    <3> DEFINE T == {level[u] : u \in X \cap P}
    <3>1. T # {} /\ T \subseteq Nat
      BY <1>2, <2>2
    <3>2. PICK k \in T : \A m \in T : k <= m
      BY <3>1, LeastNat
    <3>3. PICK x \in X \cap P : level[x] = k
      BY <3>2
    <3>4. \A p \in X \cap P : level[x] <= level[p]
      BY <3>2, <3>3
    <3>5. Source(X, loop_succs, x)
      <4> SUFFICES ASSUME NEW p \in X, x \in Succs(p) PROVE x \in loop_succs[p]
        BY <3>3 DEF Source
      <4>1. CASE p \in P
        BY <1>4, <3>4, <4>1
      <4>2. CASE p \in F
        BY <1>4, <1>5, <3>3, <4>2
      <4> QED
        BY <1>5, <4>1, <4>2
    <3> QED
      BY <3>5
  <2> QED
    BY <2>1, <2>2
<1> QED
  BY <1>1, <1>2, <1>3, <1>6 DEF SearchInv

-----------------------------------------------------------------------------
(* The order of the blocks: what the operators of BFS return. *)

\* p comes before x in s.
Earlier(s, p, x) == \E i, j \in 1 .. Len(s) : i < j /\ s[i] = p /\ s[j] = x

\* One sequence behind another.
LEMMA JoinedEarlier ==
  ASSUME NEW A, NEW s \in Seq(A), NEW t \in Seq(A), NEW p, NEW x
  PROVE  Earlier(s \o t, p, x) <=> \/ Earlier(s, p, x) \/ Earlier(t, p, x)
                                   \/ p \in Range(s) /\ x \in Range(t)
<1>1. PICK m, n, u : m = Len(s) /\ n = Len(t) /\ u = s \o t
  OBVIOUS
<1>2. m \in Nat /\ n \in Nat
  BY <1>1, LenProperties
<1>3. /\ u \in Seq(A) /\ Len(u) = m + n
      /\ \A i \in 1 .. m : u[i] = s[i]
      /\ \A i \in m + 1 .. m + n : i - m \in 1 .. n /\ u[i] = t[i - m]
  BY <1>1, JoinedFacts
<1>4. /\ \A i \in 1 .. m : s[i] \in Range(s)
      /\ \A y \in Range(s) : \E i \in 1 .. m : s[i] = y
  BY <1>1, RangeFacts
<1>5. /\ \A i \in 1 .. n : t[i] \in Range(t)
      /\ \A y \in Range(t) : \E i \in 1 .. n : t[i] = y
  BY <1>1, RangeFacts
<1>6. \A i \in 1 .. n : m + i \in m + 1 .. m + n /\ m + i \in 1 .. m + n /\ u[m + i] = t[i]
  <2> SUFFICES ASSUME NEW i \in 1 .. n
               PROVE  m + i \in m + 1 .. m + n /\ m + i \in 1 .. m + n /\ u[m + i] = t[i]
    OBVIOUS
  <2>1. m + i \in m + 1 .. m + n /\ m + i \in 1 .. m + n /\ (m + i) - m = i
    BY <1>2
  <2>2. u[m + i] = t[(m + i) - m]
    BY <1>3, <2>1
  <2> QED
    BY <2>1, <2>2
<1>7. ASSUME Earlier(s, p, x) PROVE Earlier(u, p, x)
  <2>1. PICK i \in 1 .. m, j \in 1 .. m : i < j /\ s[i] = p /\ s[j] = x
    BY <1>1, <1>7 DEF Earlier
  <2>2. i \in 1 .. m + n /\ j \in 1 .. m + n
    BY <1>2
  <2> QED
    BY <1>3, <2>1, <2>2 DEF Earlier
<1>8. ASSUME Earlier(t, p, x) PROVE Earlier(u, p, x)
  <2>1. PICK i \in 1 .. n, j \in 1 .. n : i < j /\ t[i] = p /\ t[j] = x
    BY <1>1, <1>8 DEF Earlier
  <2>2. m + i < m + j
    BY <1>2, <2>1
  <2> QED
    BY <1>3, <1>6, <2>1, <2>2 DEF Earlier
<1>9. ASSUME p \in Range(s), x \in Range(t) PROVE Earlier(u, p, x)
  <2>1. PICK i \in 1 .. m, j \in 1 .. n : s[i] = p /\ t[j] = x
    BY <1>4, <1>5, <1>9
  <2>2. i < m + j /\ i \in 1 .. m + n
    BY <1>2
  <2> QED
    BY <1>3, <1>6, <2>1, <2>2 DEF Earlier
<1>10. ASSUME Earlier(u, p, x)
       PROVE  \/ Earlier(s, p, x) \/ Earlier(t, p, x)
              \/ p \in Range(s) /\ x \in Range(t)
  <2>1. PICK i \in 1 .. m + n, j \in 1 .. m + n : i < j /\ u[i] = p /\ u[j] = x
    BY <1>3, <1>10 DEF Earlier
  <2>2. CASE j \in 1 .. m
    <3>1. i \in 1 .. m
      BY <1>2, <2>1, <2>2
    <3> QED
      BY <1>1, <1>3, <2>1, <2>2, <3>1 DEF Earlier
  <2>3. CASE i \in m + 1 .. m + n
    <3>1. j \in m + 1 .. m + n /\ i - m < j - m
      BY <1>2, <2>1, <2>3
    <3>2. i - m \in 1 .. n /\ j - m \in 1 .. n /\ t[i - m] = p /\ t[j - m] = x
      BY <1>3, <2>1, <2>3, <3>1
    <3> QED
      BY <1>1, <3>1, <3>2 DEF Earlier
  <2>4. CASE i \in 1 .. m /\ j \in m + 1 .. m + n
    BY <1>3, <1>4, <1>5, <2>1, <2>4
  <2> QED
    BY <1>2, <2>2, <2>3, <2>4
<1> QED
  BY <1>1, <1>7, <1>8, <1>9, <1>10

\* Who comes before another comes in the sequence.
LEMMA EarlierFacts ==
  ASSUME NEW A, NEW s \in Seq(A), NEW p, NEW x, Earlier(s, p, x)
  PROVE  p \in Range(s) /\ x \in Range(s)
  BY RangeFacts DEF Earlier

\* One more at the end.
LEMMA AppendedEarlier ==
  ASSUME NEW A, NEW s \in Seq(A), NEW e \in A
  PROVE  /\ \A p, x : Earlier(s, p, x) => Earlier(Append(s, e), p, x)
         /\ \A p \in Range(s) : Earlier(Append(s, e), p, e)
<1>1. Append(s, e) = s \o <<e>> /\ <<e>> \in Seq(A) /\ e \in Range(<<e>>)
  <2>1. Append(s, e) = s \o <<e>>
    OBVIOUS
  <2> QED
    BY <2>1, SingleFacts
<1>2. ASSUME NEW p, NEW x, Earlier(s, p, x) \/ (p \in Range(s) /\ x \in Range(<<e>>))
      PROVE  Earlier(Append(s, e), p, x)
  BY <1>1, <1>2, JoinedEarlier
<1> QED
  BY <1>1, <1>2

\* A sequence with no one before another.
LEMMA SingleEarlier ==
  ASSUME NEW e, NEW p, NEW x
  PROVE  ~Earlier(<<e>>, p, x) /\ ~Earlier(<<>>, p, x)
<1>1. Len(<<e>>) = 1 /\ Len(<<>>) = 0
  OBVIOUS
<1> QED
  BY <1>1 DEF Earlier

\* A block with one predecessor.
LEMMA OnePredecessor ==
  ASSUME NEW b \in Blocks, NEW x, x \in Succs(b), Cardinality(Preds(x)) = 1
  PROVE  Preds(x) = {b}
<1>1. IsFiniteSet(Preds(x)) /\ b \in Preds(x)
  <2>1. Preds(x) \in SUBSET Blocks
    BY DEF Preds
  <2> QED
    BY <2>1, CgAnalysesAssumption, FS_Subset DEF Preds
<1>2. PICK p : Preds(x) = {p}
  BY <1>1, FS_Singleton
<1> QED
  BY <1>1, <1>2

(* A straight line starts with b; each further block of it has not been seen and has its
   only predecessor before it. *)
LEMMA StraightLineFacts ==
  ASSUME prog \in Programs, NEW b \in Blocks, NEW seen
  PROVE  LET r == MarkStraightLineBBInBFS(b, seen)
         IN  /\ r \in Seq(Blocks) /\ Distinct(r) /\ b \in Range(r)
             /\ Last(r) \in Range(r) /\ Last(r) \in Blocks
             /\ \A x \in Range(r) \ {b} : x \notin seen /\ \E p : Preds(x) = {p} /\ Earlier(r, p, x)
<1> DEFINE n == Cardinality(Blocks)
           T == {t \in Seq(Blocks) : t # <<>>}
           On(t) == LET s == prog.succ[Last(t)]
                    IN  Len(s) = 1 /\ s[1] \notin seen \cup Range(t) /\ Cardinality(Preds(s[1])) = 1
           Step(t) == IF On(t) THEN Append(t, prog.succ[Last(t)][1]) ELSE t
           Eq(f) == f = [k \in 0 .. n |-> IF k = 0 THEN <<b>> ELSE Step(f[k - 1])]
           L == CHOOSE f : Eq(f)
           g == [k \in 1 .. n |-> [t \in T |-> Step(t)]]
<1>1. MarkStraightLineBBInBFS(b, seen) = L[n]
  BY DEF MarkStraightLineBBInBFS
<1>2. n \in Nat
  BY BlockNumbers
<1> HIDE DEF n
<1>3. ASSUME NEW t \in T
      PROVE  /\ Last(t) \in Range(t) /\ Last(t) \in Blocks
             /\ On(t) => prog.succ[Last(t)][1] \in Succs(Last(t)) /\ prog.succ[Last(t)][1] \in Blocks
  <2>1. Len(t) \in Nat /\ Len(t) # 0
    BY EmptySeq, LenProperties
  <2>2. Len(t) \in 1 .. Len(t) /\ Last(t) = t[Len(t)]
    BY <2>1 DEF Last
  <2>3. Last(t) \in Range(t) /\ Last(t) \in Blocks
    BY <2>2, RangeFacts
  <2>4. prog.succ[Last(t)] \in Seq(Blocks)
    BY <2>3, CgAnalysesAssumption
  <2>5. ASSUME On(t) PROVE prog.succ[Last(t)][1] \in Succs(Last(t)) /\ prog.succ[Last(t)][1] \in Blocks
    <3> PICK s : s = prog.succ[Last(t)]
      OBVIOUS
    <3>1. s \in Seq(Blocks) /\ Len(s) = 1 /\ 1 \in 1 .. Len(s)
      BY <2>4, <2>5
    <3>2. s[1] \in Range(s) /\ s[1] \in Blocks
      BY ONLY <3>1, RangeFacts
    <3> QED
      BY <3>2 DEF Succs
  <2> QED
    BY <2>3, <2>5
<1> HIDE DEF On
<1>4. ASSUME NEW t \in T PROVE Step(t) \in T
  <2>1. CASE On(t)
    <3> PICK e : e = prog.succ[Last(t)][1]
      OBVIOUS
    <3>1. e \in Blocks /\ Step(t) = Append(t, e)
      BY <1>3, <2>1
    <3>2. Append(t, e) \in Seq(Blocks) /\ Len(Append(t, e)) = Len(t) + 1 /\ Len(t) \in Nat
      BY <3>1, AppendedFacts, LenProperties
    <3>3. Append(t, e) # <<>>
      BY <3>2, EmptyFacts
    <3> QED
      BY <3>1, <3>2, <3>3
  <2>2. CASE ~On(t)
    BY <2>2
  <2> QED
    BY <2>1, <2>2
<1>5. <<b>> \in T
  BY SingleFacts
<1>6. \A k \in 1 .. n : \A t \in T : g[k][t] = Step(t) /\ g[k][t] \in T
  <2> HIDE DEF T, Step
  <2> QED
    BY <1>4
<1>7. Eq(L)
  <2>1. \E f \in [0 .. n -> T] : Iterates(n, <<b>>, g, f)
    <3> HIDE DEF T, g, Step
    <3> QED
      BY <1>2, <1>5, <1>6, Iteration
  <2>2. PICK f \in [0 .. n -> T] : Iterates(n, <<b>>, g, f)
    BY <2>1
  <2> HIDE DEF g, Step
  <2>3. ASSUME NEW k \in 0 .. n
        PROVE  (IF k = 0 THEN <<b>> ELSE g[k][f[k - 1]]) = IF k = 0 THEN <<b>> ELSE Step(f[k - 1])
    <3>1. k # 0 => k \in 1 .. n /\ k - 1 \in 0 .. n
      BY <1>2
    <3>2. k # 0 => f[k - 1] \in T
      BY <2>2, <3>1
    <3> HIDE DEF T
    <3> QED
      BY <1>6, <3>1, <3>2
  <2>4. Eq(f)
    <3> HIDE DEF T
    <3> QED
      BY <2>2, <2>3 DEF Iterates
  <2> HIDE DEF Eq
  <2> QED
    BY <2>4
<1> HIDE DEF L, g
<1> DEFINE Ok(r) == /\ r \in T /\ Distinct(r) /\ b \in Range(r)
                    /\ \A x \in Range(r) \ {b} :
                         x \notin seen /\ \E p : Preds(x) = {p} /\ Earlier(r, p, x)
           V == {k \in 0 .. n : Ok(L[k])}
<1>8. 0 \in V
  <2>1. L[0] = <<b>> /\ 0 \in 0 .. n
    <3> HIDE DEF Step
    <3> QED
      BY <1>2, <1>7
  <2>2. Distinct(<<b>>) /\ \A x : x \in Range(<<b>>) <=> x = b
    BY SingleFacts
  <2>3. Ok(<<b>>)
    BY <1>5, <2>2
  <2> HIDE DEF Ok
  <2> QED
    BY <2>1, <2>3
<1>9. ASSUME NEW k \in 1 .. n, k - 1 \in V PROVE k \in V
  <2>1. PICK t : t = L[k - 1]
    OBVIOUS
  <2>2. L[k] = Step(t) /\ k \in 0 .. n
    <3>1. k \in 0 .. n /\ k # 0
      BY <1>2
    <3> HIDE DEF Step
    <3> QED
      BY <1>7, <2>1, <3>1
  <2>3. Ok(t)
    BY <1>9, <2>1
  <2>4. Ok(Step(t))
    <3>1. CASE ~On(t)
      BY <2>3, <3>1
    <3>2. CASE On(t)
      <4>1. PICK e : e = prog.succ[Last(t)][1]
        OBVIOUS
      <4>2. /\ t \in Seq(Blocks) /\ e \in Blocks /\ e \in Succs(Last(t)) /\ Step(t) = Append(t, e)
            /\ Last(t) \in Range(t) /\ Last(t) \in Blocks
        BY <1>3, <2>3, <3>2, <4>1
      <4>3. e \notin seen /\ e \notin Range(t) /\ Cardinality(Preds(e)) = 1
        BY <3>2, <4>1 DEF On
      <4>4. PICK r : r = Append(t, e)
        OBVIOUS
      <4>5. /\ r \in Seq(Blocks) /\ Distinct(r)
            /\ \A x : x \in Range(r) <=> x \in Range(t) \/ x = e
        BY <2>3, <4>2, <4>3, <4>4, AppendedFacts
      <4>6. /\ \A p, x : Earlier(t, p, x) => Earlier(r, p, x)
            /\ \A p \in Range(t) : Earlier(r, p, e)
        BY <4>2, <4>4, AppendedEarlier
      <4>7. Preds(e) = {Last(t)}
        BY <4>2, <4>3, OnePredecessor
      <4>8. r \in T
        BY <1>4, <2>3, <4>2, <4>4
      <4>9. ASSUME NEW x \in Range(r) \ {b}
            PROVE  x \notin seen /\ \E p : Preds(x) = {p} /\ Earlier(r, p, x)
        <5>1. CASE x = e
          BY <4>2, <4>3, <4>6, <4>7, <5>1
        <5>2. CASE x # e
          <6>1. x \in Range(t) \ {b}
            BY <4>5, <4>9, <5>2
          <6>2. x \notin seen /\ \E p : Preds(x) = {p} /\ Earlier(t, p, x)
            BY <2>3, <6>1
          <6> QED
            BY <4>6, <6>2
        <5> QED
          BY <5>1, <5>2
      <4>10. Ok(r)
        BY <2>3, <4>5, <4>8, <4>9
      <4> HIDE DEF Ok, Step
      <4> QED
        BY <4>2, <4>4, <4>10
    <3> QED
      BY <3>1, <3>2
  <2> HIDE DEF Ok, Step
  <2> QED
    BY <2>2, <2>4
<1> HIDE DEF V
<1>10. n \in V
  <2>1. \A k \in 1 .. n : k - 1 \in V => k \in V
    BY <1>9
  <2>2. 0 .. n \subseteq V
    BY ONLY <1>2, <1>8, <2>1, UpToInduction
  <2> QED
    BY <1>2, <2>2
<1>11. Ok(L[n])
  BY <1>10 DEF V
<1>12. L[n] \in T
  BY <1>11
<1> QED
  BY <1>1, <1>3, <1>11, <1>12

(* What is pushed has not been seen, and all predecessors of it that do not close a loop have,
   or were pushed before it. *)
LEMMA PushedFacts ==
  ASSUME prog \in Programs, NEW b \in Blocks, NEW seen
  PROVE  LET r == PushedSuccs(b, seen)
         IN  /\ r \in Seq(Blocks) /\ Distinct(r)
             /\ \A x \in Range(r) :
                  x \notin seen /\ \A p \in Preds(x) : x \in loop_succs[p] \/ p \in seen \/ Earlier(r, p, x)
<1> DEFINE S == prog.succ[b]
           n == Len(S)
           T == Seq(Blocks)
           Free(e, t) == e \notin seen \cup Range(t) /\ AllPredBBVisited(e, seen \cup Range(t))
           Step(i, t) == IF Free(S[i], t) THEN Append(t, S[i]) ELSE t
           Eq(f) == f = [i \in 0 .. n |-> IF i = 0 THEN <<>> ELSE Step(i, f[i - 1])]
           P == CHOOSE f : Eq(f)
           g == [i \in 1 .. n |-> [t \in T |-> Step(i, t)]]
<1>1. S \in Seq(Blocks)
  BY CgAnalysesAssumption
<1>2. n \in Nat /\ \A i \in 1 .. n : S[i] \in Blocks
  BY <1>1, LenProperties, RangeFacts
<1>3. PushedSuccs(b, seen) = P[n]
  BY DEF PushedSuccs
<1> HIDE DEF S, Free
<1>4. ASSUME NEW i \in 1 .. n, NEW t \in T PROVE Step(i, t) \in T
  <2>1. S[i] \in Blocks
    BY <1>2
  <2>2. Append(t, S[i]) \in T
    BY <2>1, AppendedFacts
  <2> QED
    BY <2>2
<1> HIDE DEF n
<1>5. \A i \in 1 .. n : \A t \in T : g[i][t] = Step(i, t) /\ g[i][t] \in T
  <2> HIDE DEF T, Step
  <2> QED
    BY <1>4
<1>6. Eq(P)
  <2>1. <<>> \in T
    BY EmptyFacts
  <2>2. \E f \in [0 .. n -> T] : Iterates(n, <<>>, g, f)
    <3> HIDE DEF T, g, Step
    <3> QED
      BY <1>2, <1>5, <2>1, Iteration
  <2>3. PICK f \in [0 .. n -> T] : Iterates(n, <<>>, g, f)
    BY <2>2
  <2> HIDE DEF g, Step
  <2>4. ASSUME NEW i \in 0 .. n
        PROVE  (IF i = 0 THEN <<>> ELSE g[i][f[i - 1]]) = IF i = 0 THEN <<>> ELSE Step(i, f[i - 1])
    <3>1. i # 0 => i \in 1 .. n /\ i - 1 \in 0 .. n
      BY <1>2
    <3>2. i # 0 => f[i - 1] \in T
      BY <2>3, <3>1
    <3> HIDE DEF T
    <3> QED
      BY <1>5, <3>1, <3>2
  <2>5. Eq(f)
    <3> HIDE DEF T
    <3> QED
      BY <2>3, <2>4 DEF Iterates
  <2> HIDE DEF Eq
  <2> QED
    BY <2>5
<1> HIDE DEF P, g
<1> DEFINE Placed(r, x) ==
             x \notin seen /\ \A p \in Preds(x) : x \in loop_succs[p] \/ p \in seen \/ Earlier(r, p, x)
           Ok(r) == r \in T /\ Distinct(r) /\ \A x \in Range(r) : Placed(r, x)
           V == {i \in 0 .. n : Ok(P[i])}
<1>7. 0 \in V
  <2>1. P[0] = <<>> /\ 0 \in 0 .. n
    <3> HIDE DEF Step
    <3> QED
      BY <1>2, <1>6
  <2>2. Ok(<<>>)
    BY EmptyFacts
  <2> HIDE DEF Ok
  <2> QED
    BY <2>1, <2>2
<1>8. ASSUME NEW i \in 1 .. n, i - 1 \in V PROVE i \in V
  <2>1. PICK t, e : t = P[i - 1] /\ e = S[i]
    OBVIOUS
  <2>2. P[i] = Step(i, t) /\ i \in 0 .. n
    <3>1. i \in 0 .. n /\ i # 0
      BY <1>2
    <3> HIDE DEF Step
    <3> QED
      BY <1>6, <2>1, <3>1
  <2>3. Ok(t) /\ e \in Blocks
    BY <1>2, <1>8, <2>1
  <2>4. Ok(Step(i, t))
    <3>1. CASE ~Free(e, t)
      BY <2>1, <2>3, <3>1
    <3>2. CASE Free(e, t)
      <4>1. PICK r : r = Append(t, e)
        OBVIOUS
      <4>2. /\ r \in Seq(Blocks)
            /\ \A x : x \in Range(r) <=> x \in Range(t) \/ x = e
            /\ Distinct(t) /\ e \notin Range(t) => Distinct(r)
        BY <2>3, <4>1, AppendedFacts
      <4>3. /\ \A p, x : Earlier(t, p, x) => Earlier(r, p, x)
            /\ \A p \in Range(t) : Earlier(r, p, e)
        BY <2>3, <4>1, AppendedEarlier
      <4>4. /\ e \notin seen /\ e \notin Range(t)
            /\ \A p \in Preds(e) : e \in loop_succs[p] \/ p \in seen \/ p \in Range(t)
        BY <3>2 DEF Free, AllPredBBVisited
      <4>5. Distinct(r)
        BY <2>3, <4>2, <4>4
      <4>6. ASSUME NEW x \in Range(r) PROVE Placed(r, x)
        <5>1. CASE x = e
          BY <4>3, <4>4, <5>1
        <5>2. CASE x # e
          <6>1. x \in Range(t)
            BY <4>2, <5>2
          <6> QED
            BY <2>3, <4>3, <6>1
        <5> QED
          BY <5>1, <5>2
      <4> HIDE DEF Placed
      <4>7. Ok(r)
        BY <4>2, <4>5, <4>6
      <4>8. Step(i, t) = r
        BY <2>1, <3>2, <4>1
      <4> HIDE DEF Ok, Step
      <4> QED
        BY <4>7, <4>8
    <3> QED
      BY <3>1, <3>2
  <2> HIDE DEF Ok, Step
  <2> QED
    BY <2>2, <2>4
<1> HIDE DEF V
<1>9. n \in V
  <2>1. \A i \in 1 .. n : i - 1 \in V => i \in V
    BY <1>8
  <2>2. 0 .. n \subseteq V
    BY ONLY <1>2, <1>7, <2>1, UpToInduction
  <2> QED
    BY <1>2, <2>2
<1>10. Ok(P[n])
  BY <1>9 DEF V
<1> QED
  BY <1>3, <1>10

(* What a round of BFS puts behind the blocks that are sorted: r starts with h; each further
   block of it is new and has its only predecessor before it. *)
IsRun(r, h, seen) ==
  /\ r \in Seq(Blocks) /\ Distinct(r) /\ h \in Range(r) /\ Last(r) \in Blocks
  /\ \A x \in Range(r) \ {h} : x \notin seen /\ \E p : Preds(x) = {p} /\ Earlier(r, p, x)

\* The straight line of the branch that comes directly after an `if'.
LEMMA BranchFacts ==
  ASSUME prog \in Programs, NEW b \in Blocks, NEW seen,
         NEW c \in SearchForStraightLineBBs(b, seen)
  PROVE  LET r == MarkStraightLineBBInBFS(c, seen)
         IN  /\ r \in Seq(Blocks) /\ Distinct(r) /\ Last(r) \in Blocks /\ Range(r) # {}
             /\ Last(r) \in Range(r)
             /\ \A x \in Range(r) :
                  x \notin seen /\ \E p : Preds(x) = {p} /\ (p = b \/ Earlier(r, p, x))
<1>1. PICK r : r = MarkStraightLineBBInBFS(c, seen)
  OBVIOUS
<1>2. c \in Succs(b) /\ c \notin seen /\ Cardinality(Preds(c)) = 1
  BY DEF SearchForStraightLineBBs
<1>3. c \in Blocks
  BY <1>2, ProgramFacts
<1>4. Preds(c) = {b}
  BY <1>2, OnePredecessor
<1>5. /\ r \in Seq(Blocks) /\ Distinct(r) /\ c \in Range(r)
      /\ Last(r) \in Range(r) /\ Last(r) \in Blocks
      /\ \A x \in Range(r) \ {c} : x \notin seen /\ \E p : Preds(x) = {p} /\ Earlier(r, p, x)
  <2>1. LET q == MarkStraightLineBBInBFS(c, seen)
        IN  /\ q \in Seq(Blocks) /\ Distinct(q) /\ c \in Range(q)
            /\ Last(q) \in Range(q) /\ Last(q) \in Blocks
            /\ \A x \in Range(q) \ {c} : x \notin seen /\ \E p : Preds(x) = {p} /\ Earlier(q, p, x)
    BY ONLY prog \in Programs, <1>3, StraightLineFacts
  <2> QED
    BY <1>1, <2>1
<1>6. ASSUME NEW x \in Range(r)
      PROVE  x \notin seen /\ \E p : Preds(x) = {p} /\ (p = b \/ Earlier(r, p, x))
  <2>1. CASE x = c
    BY <1>2, <1>4, <2>1
  <2>2. CASE x # c
    BY <1>5, <2>2
  <2> QED
    BY <2>1, <2>2
<1> QED
  BY <1>1, <1>5, <1>6

\* The last of two sequences, one behind the other.
LEMMA LastOfJoined ==
  ASSUME NEW A, NEW s \in Seq(A), NEW t \in Seq(A), t # <<>>
  PROVE  Last(s \o t) = Last(t)
<1>1. PICK u, m, n : u = s \o t /\ m = Len(s) /\ n = Len(t)
  OBVIOUS
<1>2. m \in Nat /\ n \in Nat /\ n # 0
  BY <1>1, LenProperties, EmptySeq
<1>3. Len(u) = m + n /\ \A i \in m + 1 .. m + n : u[i] = t[i - m]
  BY <1>1, JoinedFacts
<1>4. m + n \in m + 1 .. m + n /\ (m + n) - m = n
  BY <1>2
<1>5. u[m + n] = t[n]
  BY <1>3, <1>4
<1> QED
  BY <1>1, <1>3, <1>5 DEF Last

(* The straight line after h, and the branch of an `if' that may come directly after it. *)
IsRunOf(line, more, h, seen) ==
  /\ line = MarkStraightLineBBInBFS(h, seen)
  /\ \/ more = <<>>
     \/ \E c \in SearchForStraightLineBBs(Last(line), seen \cup Range(line)) :
          more = MarkStraightLineBBInBFS(c, seen \cup Range(line))

\* The two together are what a round of BFS puts behind the blocks that are sorted.
LEMMA RunFacts ==
  ASSUME prog \in Programs, NEW h \in Blocks, NEW seen, NEW line, NEW more,
         IsRunOf(line, more, h, seen)
  PROVE  /\ IsRun(line \o more, h, seen)
         /\ \A x : x \in Range(line \o more) <=> x \in Range(line) \/ x \in Range(more)
<1>1. PICK seen1 : seen1 = seen \cup Range(line)
  OBVIOUS
<1>2. /\ line = MarkStraightLineBBInBFS(h, seen)
      /\ \/ more = <<>>
         \/ \E c \in SearchForStraightLineBBs(Last(line), seen1) : more = MarkStraightLineBBInBFS(c, seen1)
  BY <1>1 DEF IsRunOf
<1>3. /\ line \in Seq(Blocks) /\ Distinct(line) /\ h \in Range(line)
      /\ Last(line) \in Range(line) /\ Last(line) \in Blocks
      /\ \A x \in Range(line) \ {h} : x \notin seen /\ \E p : Preds(x) = {p} /\ Earlier(line, p, x)
  <2>1. LET q == MarkStraightLineBBInBFS(h, seen)
        IN  /\ q \in Seq(Blocks) /\ Distinct(q) /\ h \in Range(q)
            /\ Last(q) \in Range(q) /\ Last(q) \in Blocks
            /\ \A x \in Range(q) \ {h} : x \notin seen /\ \E p : Preds(x) = {p} /\ Earlier(q, p, x)
    BY ONLY prog \in Programs, h \in Blocks, StraightLineFacts
  <2> QED
    BY <1>2, <2>1
<1>4. /\ more \in Seq(Blocks) /\ Distinct(more) /\ (more # <<>> => Last(more) \in Blocks)
      /\ \A x \in Range(more) :
           x \notin seen1 /\ \E p : Preds(x) = {p} /\ (p = Last(line) \/ Earlier(more, p, x))
  <2>1. CASE more = <<>>
    <3>1. <<>> \in Seq(Blocks) /\ Range(<<>>) = {} /\ Distinct(<<>>)
      BY EmptyFacts
    <3> QED
      BY <2>1, <3>1
  <2>2. CASE more # <<>>
    <3>1. PICK c : c \in SearchForStraightLineBBs(Last(line), seen1) /\ more = MarkStraightLineBBInBFS(c, seen1)
      BY <1>2, <2>2
    <3>2. LET r == MarkStraightLineBBInBFS(c, seen1)
          IN  /\ r \in Seq(Blocks) /\ Distinct(r) /\ Last(r) \in Blocks /\ Range(r) # {}
              /\ Last(r) \in Range(r)
              /\ \A x \in Range(r) :
                   x \notin seen1 /\ \E p : Preds(x) = {p} /\ (p = Last(line) \/ Earlier(r, p, x))
      BY ONLY prog \in Programs, <1>3, <3>1, BranchFacts
    <3> QED
      BY ONLY <3>1, <3>2
  <2> QED
    BY <2>1, <2>2
<1>5. PICK r : r = line \o more
  OBVIOUS
<1>6. /\ r \in Seq(Blocks)
      /\ \A x : x \in Range(r) <=> x \in Range(line) \/ x \in Range(more)
      /\ Distinct(line) /\ Distinct(more) /\ Range(line) \cap Range(more) = {} => Distinct(r)
  BY ONLY <1>3, <1>4, <1>5, JoinedFacts
<1>7. \A p, x : Earlier(line, p, x) \/ Earlier(more, p, x) \/ (p \in Range(line) /\ x \in Range(more))
                  => Earlier(r, p, x)
  BY <1>3, <1>4, <1>5, JoinedEarlier
<1>8. Distinct(r)
  <2>1. Range(line) \cap Range(more) = {}
    BY <1>1, <1>4
  <2> QED
    BY <1>3, <1>4, <1>6, <2>1
<1>9. Last(r) \in Blocks
  <2>1. CASE more = <<>>
    <3>1. r = line
      BY ONLY <1>3, <1>5, <2>1
    <3> QED
      BY <1>3, <3>1
  <2>2. CASE more # <<>>
    BY ONLY <1>3, <1>4, <1>5, <2>2, LastOfJoined
  <2> QED
    BY <2>1, <2>2
<1>10. ASSUME NEW x \in Range(r) \ {h}
       PROVE  x \notin seen /\ \E p : Preds(x) = {p} /\ Earlier(r, p, x)
  <2>1. CASE x \in Range(line)
    BY <1>3, <1>7, <2>1
  <2>2. CASE x \in Range(more)
    <3>1. PICK p : Preds(x) = {p} /\ (p = Last(line) \/ Earlier(more, p, x))
      BY <1>4, <2>2
    <3>2. Earlier(r, p, x)
      BY <1>3, <1>7, <2>2, <3>1
    <3> QED
      BY <1>1, <1>4, <2>2, <3>1, <3>2
  <2> QED
    BY <1>6, <2>1, <2>2
<1>11. IsRun(r, h, seen)
  BY <1>3, <1>6, <1>8, <1>9, <1>10 DEF IsRun
<1> QED
  BY <1>5, <1>6, <1>11

(* A block comes after all its predecessors, those excepted from which an edge closes a loop. *)
InOrder(s) == \A x \in Range(s) : \A p \in Preds(x) : x \in loop_succs[p] \/ Earlier(s, p, x)

(* The blocks sorted and the blocks that wait are the blocks visited; each is there once, and
   they are in order. *)
Ordered(so, wl, seen) ==
  /\ so \in Seq(Blocks) /\ wl \in Seq(Blocks)
  /\ Distinct(so) /\ Distinct(wl) /\ Range(so) \cap Range(wl) = {}
  /\ seen = Range(so) \cup Range(wl)
  /\ InOrder(so \o wl)

\* A round of BFS.
LEMMA OrderedRound ==
  ASSUME NEW so, NEW wl, NEW seen, Ordered(so, wl, seen), wl # <<>>,
         NEW r, IsRun(r, Head(wl), seen),
         NEW more, more \in Seq(Blocks), Distinct(more),
         \A x \in Range(more) : /\ x \notin seen \cup Range(r)
                                /\ \A p \in Preds(x) : \/ x \in loop_succs[p]
                                                       \/ p \in seen \cup Range(r)
                                                       \/ Earlier(more, p, x)
  PROVE  /\ Ordered(so \o r, Tail(wl) \o more, seen \cup Range(r) \cup Range(more))
         /\ Len(so \o r) > Len(so)
<1>1. PICK h, tl, one, so2, wl2, s, s2 :
         /\ h = Head(wl) /\ tl = Tail(wl) /\ one = <<h>> /\ so2 = so \o r /\ wl2 = tl \o more
         /\ s = so \o wl /\ s2 = so2 \o wl2
  OBVIOUS
<1>2. /\ so \in Seq(Blocks) /\ wl \in Seq(Blocks)
      /\ Distinct(so) /\ Distinct(wl) /\ Range(so) \cap Range(wl) = {}
      /\ seen = Range(so) \cup Range(wl) /\ InOrder(s)
  BY ONLY Ordered(so, wl, seen), <1>1 DEF Ordered
<1>3. /\ h \in Blocks /\ tl \in Seq(Blocks) /\ Distinct(tl) /\ h \notin Range(tl)
      /\ wl = one \o tl /\ one \in Seq(Blocks)
      /\ \A x : x \in Range(wl) <=> x = h \/ x \in Range(tl)
      /\ \A x : x \in Range(one) <=> x = h
  <2>1. h \in Blocks /\ one \in Seq(Blocks) /\ \A x : x \in Range(one) <=> x = h
    <3>1. h \in Blocks
      BY ONLY <1>1, <1>2, wl # <<>>, TailFacts
    <3> QED
      BY ONLY <1>1, <3>1, SingleFacts
  <2>2. /\ tl \in Seq(Blocks) /\ Distinct(tl) /\ h \notin Range(tl) /\ wl = one \o tl
        /\ \A x : x \in Range(wl) <=> x = h \/ x \in Range(tl)
    BY ONLY <1>1, <1>2, wl # <<>>, TailFacts
  <2> QED
    BY ONLY <2>1, <2>2
<1>4. /\ r \in Seq(Blocks) /\ Distinct(r) /\ h \in Range(r)
      /\ \A x \in Range(r) \ {h} : x \notin seen /\ \E p : Preds(x) = {p} /\ Earlier(r, p, x)
  BY ONLY IsRun(r, Head(wl), seen), <1>1 DEF IsRun
<1>5. /\ more \in Seq(Blocks) /\ Distinct(more)
      /\ \A x \in Range(more) : /\ x \notin seen \cup Range(r)
                                /\ \A p \in Preds(x) : \/ x \in loop_succs[p]
                                                       \/ p \in seen \cup Range(r)
                                                       \/ Earlier(more, p, x)
  OBVIOUS
<1>6. /\ so2 \in Seq(Blocks) /\ Distinct(so2) /\ Len(so2) = Len(so) + Len(r)
      /\ \A x : x \in Range(so2) <=> x \in Range(so) \/ x \in Range(r)
  <2>1. Range(so) \cap Range(r) = {}
    BY ONLY <1>2, <1>3, <1>4
  <2> QED
    BY ONLY <1>1, <1>2, <1>4, <2>1, JoinedFacts
<1>7. /\ wl2 \in Seq(Blocks) /\ Distinct(wl2)
      /\ \A x : x \in Range(wl2) <=> x \in Range(tl) \/ x \in Range(more)
  <2>1. Range(tl) \cap Range(more) = {}
    BY ONLY <1>2, <1>3, <1>5
  <2> QED
    BY ONLY <1>1, <1>3, <1>5, <2>1, JoinedFacts
<1>8. Range(so2) \cap Range(wl2) = {}
  BY ONLY <1>2, <1>3, <1>4, <1>5, <1>6, <1>7
<1>9. /\ \A x : x \in Range(s) <=> x \in Range(so) \/ x \in Range(wl)
      /\ \A x : x \in Range(s2) <=> x \in Range(so2) \/ x \in Range(wl2)
  <2>1. \A x : x \in Range(s) <=> x \in Range(so) \/ x \in Range(wl)
    BY ONLY <1>1, <1>2, JoinedFacts
  <2>2. so2 \in Seq(Blocks) /\ wl2 \in Seq(Blocks)
    BY ONLY <1>6, <1>7
  <2>3. \A x : x \in Range(s2) <=> x \in Range(so2) \/ x \in Range(wl2)
    BY ONLY <1>1, <2>2, JoinedFacts
  <2> QED
    BY ONLY <2>1, <2>3
<1>10. \A p, x : Earlier(s, p, x) => \/ Earlier(so, p, x) \/ Earlier(tl, p, x)
                                     \/ (p = h /\ x \in Range(tl)) \/ (p \in Range(so) /\ x \in Range(wl))
  <2> SUFFICES ASSUME NEW p, NEW x, Earlier(s, p, x)
               PROVE  \/ Earlier(so, p, x) \/ Earlier(tl, p, x)
                      \/ (p = h /\ x \in Range(tl)) \/ (p \in Range(so) /\ x \in Range(wl))
    OBVIOUS
  <2>1. Earlier(so, p, x) \/ Earlier(wl, p, x) \/ (p \in Range(so) /\ x \in Range(wl))
    BY ONLY Earlier(s, p, x), <1>1, <1>2, JoinedEarlier
  <2>2. Earlier(wl, p, x) => \/ Earlier(one, p, x) \/ Earlier(tl, p, x) \/ (p \in Range(one) /\ x \in Range(tl))
    BY ONLY <1>3, JoinedEarlier
  <2>3. ~Earlier(one, p, x)
    BY ONLY <1>1, SingleEarlier
  <2> QED
    BY ONLY <1>3, <2>1, <2>2, <2>3
<1>11. \A p, x : \/ Earlier(so, p, x) \/ Earlier(r, p, x) \/ (p \in Range(so) /\ x \in Range(r))
                 => Earlier(so2, p, x)
  BY ONLY <1>1, <1>2, <1>4, JoinedEarlier
<1>12. \A p, x : \/ Earlier(tl, p, x) \/ Earlier(more, p, x) \/ (p \in Range(tl) /\ x \in Range(more))
                 => Earlier(wl2, p, x)
  BY ONLY <1>1, <1>3, <1>5, JoinedEarlier
<1>13. \A p, x : \/ Earlier(so2, p, x) \/ Earlier(wl2, p, x) \/ (p \in Range(so2) /\ x \in Range(wl2))
                 => Earlier(s2, p, x)
  BY ONLY <1>1, <1>6, <1>7, JoinedEarlier
<1>14. ASSUME NEW x \in Range(s2), NEW p \in Preds(x), x \notin loop_succs[p]
       PROVE  Earlier(s2, p, x)
  <2>1. /\ Earlier(so, p, x) => p \in Range(so) /\ x \in Range(so)
        /\ Earlier(tl, p, x) => p \in Range(tl) /\ x \in Range(tl)
    BY ONLY <1>2, <1>3, EarlierFacts
  <2>2. CASE x \in seen
    <3>1. Earlier(s, p, x)
      BY ONLY <1>2, <1>9, <1>14, <2>2 DEF InOrder
    <3>2. \/ Earlier(so, p, x) \/ Earlier(tl, p, x)
          \/ (p = h /\ x \in Range(tl)) \/ (p \in Range(so) /\ x \in Range(wl))
      BY ONLY <1>10, <3>1
    <3>3. CASE Earlier(so, p, x)
      BY ONLY <1>11, <1>13, <3>3
    <3>4. CASE Earlier(tl, p, x)
      BY ONLY <1>12, <1>13, <3>4
    <3>5. CASE p = h /\ x \in Range(tl)
      BY ONLY <1>4, <1>6, <1>7, <1>13, <3>5
    <3>6. CASE p \in Range(so) /\ x \in Range(wl)
      BY ONLY <1>3, <1>4, <1>6, <1>7, <1>11, <1>13, <3>6
    <3> QED
      BY ONLY <3>2, <3>3, <3>4, <3>5, <3>6
  <2>3. CASE x \in Range(r) \ {h}
    BY ONLY <1>4, <1>11, <1>13, <1>14, <2>3
  <2>4. CASE x \in Range(more)
    <3>1. p \in seen \cup Range(r) \/ Earlier(more, p, x)
      BY ONLY <1>5, <1>14, <2>4
    <3>2. p \in Range(so2) \/ p \in Range(tl) \/ Earlier(more, p, x)
      BY ONLY <1>2, <1>3, <1>4, <1>6, <3>1
    <3>3. CASE p \in Range(so2)
      BY ONLY <1>7, <1>13, <2>4, <3>3
    <3>4. CASE p \in Range(tl) \/ Earlier(more, p, x)
      BY ONLY <1>12, <1>13, <2>4, <3>4
    <3> QED
      BY ONLY <3>2, <3>3, <3>4
  <2>5. x \in seen \/ x \in Range(r) \ {h} \/ x \in Range(more)
    BY ONLY <1>2, <1>3, <1>6, <1>7, <1>9, <1>14
  <2> QED
    BY ONLY <2>2, <2>3, <2>4, <2>5
<1>15. InOrder(s2)
  BY ONLY <1>14 DEF InOrder
<1>16. seen \cup Range(r) \cup Range(more) = Range(so2) \cup Range(wl2)
  BY ONLY <1>2, <1>3, <1>4, <1>6, <1>7
<1>17. Ordered(so2, wl2, seen \cup Range(r) \cup Range(more))
  BY ONLY <1>1, <1>6, <1>7, <1>8, <1>15, <1>16 DEF Ordered
<1>18. Len(so2) > Len(so)
  <2>1. PICK i \in 1 .. Len(r) : r[i] = h
    BY ONLY <1>4, RangeFacts
  <2>2. Len(r) \in Nat /\ Len(so) \in Nat
    BY ONLY <1>2, <1>4, LenProperties
  <2> QED
    BY ONLY <1>6, <2>1, <2>2
<1> QED
  BY ONLY <1>1, <1>17, <1>18

(* A search starts at a block whose predecessors have been visited. *)
LEMMA OrderedStart ==
  ASSUME NEW so, NEW seen, Ordered(so, <<>>, seen),
         NEW b \in Blocks, b \notin seen, AllPredBBVisited(b, seen)
  PROVE  Ordered(so, <<b>>, seen \cup {b})
<1>1. /\ so \in Seq(Blocks) /\ Distinct(so) /\ seen = Range(so) /\ InOrder(so)
  <2>1. so \in Seq(Blocks) /\ Distinct(so) /\ InOrder(so \o <<>>) /\ seen = Range(so) \cup Range(<<>>)
    BY DEF Ordered
  <2>2. so \o <<>> = so /\ Range(<<>>) = {}
    BY <2>1, EmptyFacts
  <2> QED
    BY <2>1, <2>2
<1>2. PICK one, s : one = <<b>> /\ s = so \o one
  OBVIOUS
<1>3. one \in Seq(Blocks) /\ Distinct(one) /\ \A x : x \in Range(one) <=> x = b
  BY <1>2, SingleFacts
<1>4. \A x : x \in Range(s) <=> x \in Range(so) \/ x = b
  BY ONLY <1>1, <1>2, <1>3, JoinedFacts
<1>5. \A p, x : Earlier(so, p, x) \/ (p \in Range(so) /\ x \in Range(one)) => Earlier(s, p, x)
  BY ONLY <1>1, <1>2, <1>3, JoinedEarlier
<1>6. \A p \in Preds(b) : b \in loop_succs[p] \/ p \in Range(so)
  BY <1>1 DEF AllPredBBVisited
<1>7. ASSUME NEW x \in Range(s), NEW p \in Preds(x)
      PROVE  x \in loop_succs[p] \/ Earlier(s, p, x)
  <2>1. CASE x = b
    BY <1>3, <1>5, <1>6, <2>1
  <2>2. CASE x # b
    BY <1>1, <1>4, <1>5, <2>2 DEF InOrder
  <2> QED
    BY <2>1, <2>2
<1>8. InOrder(s)
  BY <1>7 DEF InOrder
<1>9. Range(so) \cap Range(one) = {} /\ seen \cup {b} = Range(so) \cup Range(one)
  BY <1>1, <1>3
<1> QED
  BY <1>1, <1>2, <1>3, <1>8, <1>9 DEF Ordered

\* A sweep over all blocks that starts no search has found every block visited.
LEMMA AllVisited ==
  ASSUME NEW seen \in SUBSET Blocks, NoCycle(Blocks, loop_succs),
         \A b \in Blocks \ seen : ~AllPredBBVisited(b, seen)
  PROVE  seen = Blocks
<1> SUFFICES ASSUME Blocks \ seen # {} PROVE FALSE
  OBVIOUS
<1>1. PICK X : X = Blocks \ seen
  OBVIOUS
<1>2. PICK x \in X : Source(X, loop_succs, x)
  BY <1>1 DEF NoCycle
<1>3. \A p \in X : x \in Succs(p) => x \in loop_succs[p]
  BY <1>2 DEF Source
<1>4. ASSUME NEW p \in Preds(x) PROVE x \in loop_succs[p] \/ p \in seen
  BY <1>1, <1>3 DEF Preds
<1>5. AllPredBBVisited(x, seen)
  BY <1>4 DEF AllPredBBVisited
<1> QED
  BY <1>1, <1>2, <1>5

\* What order means for the places of two blocks.
LEMMA OrderedPlaces ==
  ASSUME NEW so, Ordered(so, <<>>, Blocks), OnCycle(loop_succs)
  PROVE  /\ Len(so) = Cardinality(Blocks) /\ Range(so) = Blocks
         /\ \A i, j \in DOMAIN so :
              so[j] \in Succs(so[i]) =>
                IF so[j] \in loop_succs[so[i]]
                THEN so[j] \in Reaching({so[i]}, Blocks)
                ELSE i < j
<1>1. /\ so \in Seq(Blocks) /\ Distinct(so) /\ Blocks = Range(so) /\ InOrder(so)
  <2>1. so \in Seq(Blocks) /\ Distinct(so) /\ InOrder(so \o <<>>) /\ Blocks = Range(so) \cup Range(<<>>)
    BY DEF Ordered
  <2>2. so \o <<>> = so /\ Range(<<>>) = {}
    BY <2>1, EmptyFacts
  <2> QED
    BY <2>1, <2>2
<1>2. Len(so) = Cardinality(Blocks)
  BY <1>1, DistinctLength, CgAnalysesAssumption
<1>3. DOMAIN so = 1 .. Len(so) /\ \A i \in 1 .. Len(so) : so[i] \in Blocks
  BY <1>1, LenProperties, RangeFacts
<1>4. ASSUME NEW i \in 1 .. Len(so), NEW j \in 1 .. Len(so), so[j] \in Succs(so[i]),
             so[j] \notin loop_succs[so[i]]
      PROVE  i < j
  <2>1. so[i] \in Preds(so[j]) /\ so[j] \in Range(so)
    BY <1>1, <1>3, <1>4 DEF Preds
  <2>2. Earlier(so, so[i], so[j])
    BY <1>1, <1>4, <2>1 DEF InOrder
  <2>3. PICK k \in 1 .. Len(so), m \in 1 .. Len(so) : k < m /\ so[k] = so[i] /\ so[m] = so[j]
    BY <2>2 DEF Earlier
  <2>4. k = i /\ m = j
    BY <1>1, <2>3 DEF Distinct
  <2> QED
    BY <2>3, <2>4
<1>5. \A u \in Blocks : \A s \in loop_succs[u] : s \in Reaching({u}, Blocks)
  BY DEF OnCycle
<1> QED
  BY <1>1, <1>2, <1>3, <1>4, <1>5

-----------------------------------------------------------------------------
(* The order of the blocks: the inductive invariant. *)

NothingSorted ==
  sorted_bbs = <<>> /\ worklist = <<>> /\ visited_bbs = {} /\ sortedCnt = 0 /\ done = FALSE

\* What the search for the edges that close a loop leaves.
LoopsFound == NoCycle(Blocks, loop_succs) /\ OnCycle(loop_succs)

\* A sweep that has not started a search and finds no block to start one at is a whole sweep.
SweepHolds ==
  /\ done = FALSE /\ sortedCnt \in Nat /\ sortedCnt <= Len(sorted_bbs)
  /\ sortedCnt = Len(sorted_bbs) /\ worklist = <<>> => at = 1

OrderInv ==
  /\ prog \in Programs /\ phase # "exit"
  /\ phase = "live" => Unstarted(visited, level, parent, loop_succs, dfs_bbs)
  /\ phase = "loop" => SearchHolds
  /\ phase \in {"live", "loop"} => NothingSorted
  /\ phase \in {"order", "intervals"} =>
       LoopsFound /\ Ordered(sorted_bbs, worklist, visited_bbs)
  /\ phase = "order" => SweepHolds
  /\ phase = "intervals" => visited_bbs = Blocks /\ worklist = <<>>

\* The graph stays.
LEMMA GraphStays ==
  ASSUME prog' = prog
  PROVE  /\ \A b : Succs(b)' = Succs(b) /\ Preds(b)' = Preds(b)
         /\ \A S, T : Reaching(S, T)' = Reaching(S, T)
<1>1. \A b : Succs(b)' = Succs(b)
  BY DEF Succs
<1>2. \A b : Preds(b)' = Preds(b)
  BY <1>1 DEF Preds
<1>3. \A S, T : Reaching(S, T)' = Reaching(S, T)
  BY <1>1, ZenonT(40) DEF Reaching
<1> QED
  BY <1>1, <1>2, <1>3

\* What is said of the search is said of the same graph after the step.
LEMMA SearchStays ==
  ASSUME prog' = prog, SearchInv(visited', level', parent', loop_succs', dfs_bbs'),
         TopInv(visited', level', dfs_bbs')
  PROVE  SearchHolds'
<1>1. \A b : Succs(b)' = Succs(b)
  BY GraphStays
<1>2. \A S, T : Reaching(S, T)' = Reaching(S, T)
  BY GraphStays
<1>3. SearchTypes(visited, level, parent, loop_succs, dfs_bbs)'
  BY DEF SearchInv, SearchTypes
<1>4. PathInv(visited, level, parent)'
  <2>1. PathInv(visited', level', parent')
    BY DEF SearchInv
  <2> QED
    BY <1>1, <2>1 DEF PathInv, Child, OnPath
<1>5. StackInv(visited, level, parent, dfs_bbs)'
  <2>1. StackInv(visited', level', parent', dfs_bbs')
    BY DEF SearchInv
  <2> QED
    BY <1>1, <2>1 DEF StackInv, Child, OnPath
<1>6. OpenInv(visited, level, dfs_bbs)'
  <2>1. OpenInv(visited', level', dfs_bbs')
    BY DEF SearchInv
  <2> QED
    BY <1>1, <2>1 DEF OpenInv, OnPath
<1>7. EdgeInv(visited, level, loop_succs)'
  <2>1. EdgeInv(visited', level', loop_succs')
    BY DEF SearchInv
  <2> QED
    BY <1>1, <2>1 DEF EdgeInv, Finished, OnPath
<1>8. NoCycle(Finished(visited, level), loop_succs)'
  <2>1. NoCycle(Finished(visited', level'), loop_succs')
    BY DEF SearchInv
  <2> QED
    BY <1>1, <2>1 DEF NoCycle, Source, Finished, OnPath
<1>9. OnCycle(loop_succs)'
  <2>1. OnCycle(loop_succs')
    BY DEF SearchInv
  <2> QED
    BY <1>2, <2>1 DEF OnCycle
<1>10. TopInv(visited, level, dfs_bbs)'
  BY DEF TopInv, OnPath
<1> QED
  BY <1>3, <1>4, <1>5, <1>6, <1>7, <1>8, <1>9, <1>10 DEF SearchHolds, SearchInv

\* So is what is said of its result, and of the order.
LEMMA OrderStays ==
  ASSUME prog' = prog, loop_succs' = loop_succs
  PROVE  /\ LoopsFound => LoopsFound'
         /\ Ordered(sorted_bbs', worklist', visited_bbs') => Ordered(sorted_bbs, worklist, visited_bbs)'
<1>1. \A b : Succs(b)' = Succs(b) /\ Preds(b)' = Preds(b)
  BY GraphStays
<1>2. \A S, T : Reaching(S, T)' = Reaching(S, T)
  BY GraphStays
<1>3. NoCycle(Blocks, loop_succs) => NoCycle(Blocks, loop_succs)'
  BY <1>1 DEF NoCycle, Source
<1>4. OnCycle(loop_succs) => OnCycle(loop_succs)'
  BY <1>2 DEF OnCycle
<1>5. InOrder(sorted_bbs' \o worklist') => InOrder(sorted_bbs \o worklist)'
  BY <1>1 DEF InOrder, Earlier
<1>6. Ordered(sorted_bbs', worklist', visited_bbs') => Ordered(sorted_bbs, worklist, visited_bbs)'
  BY <1>5 DEF Ordered
<1> QED
  BY <1>3, <1>4, <1>6 DEF LoopsFound

-----------------------------------------------------------------------------
(* The order of the blocks: the steps. *)

\* A step that changes no variable of the graph, the search and the order.
LEMMA OrderLater ==
  ASSUME OrderInv, prog' = prog, UNCHANGED loopVars, UNCHANGED orderVars,
         \/ phase' = phase /\ (phase = "order" => at' = at)
         \/ phase = "live" /\ phase' = "loop"
         \/ phase' \notin {"live", "loop", "order", "intervals", "exit"}
  PROVE  OrderInv'
<1>1. /\ visited' = visited /\ level' = level /\ parent' = parent /\ loop_succs' = loop_succs
      /\ dfs_bbs' = dfs_bbs
  BY DEF loopVars
<1>2. /\ visited_bbs' = visited_bbs /\ sorted_bbs' = sorted_bbs /\ worklist' = worklist
      /\ sortedCnt' = sortedCnt /\ done' = done
  BY DEF orderVars
<1>3. Unstarted(visited, level, parent, loop_succs, dfs_bbs)
        => Unstarted(visited, level, parent, loop_succs, dfs_bbs)'
  BY <1>1 DEF Unstarted
<1>4. SearchHolds => SearchHolds'
  <2>1. CASE Unstarted(visited, level, parent, loop_succs, dfs_bbs)
    BY <1>3, <2>1 DEF SearchHolds
  <2>2. CASE /\ SearchInv(visited, level, parent, loop_succs, dfs_bbs)
             /\ TopInv(visited, level, dfs_bbs)
    <3>1. /\ SearchInv(visited', level', parent', loop_succs', dfs_bbs')
          /\ TopInv(visited', level', dfs_bbs')
      BY ONLY <1>1, <2>2
    <3> QED
      BY ONLY prog' = prog, <3>1, SearchStays
  <2> QED
    BY <2>1, <2>2 DEF SearchHolds
<1>5. NothingSorted => NothingSorted'
  BY <1>2 DEF NothingSorted
<1>6. /\ LoopsFound => LoopsFound'
      /\ Ordered(sorted_bbs, worklist, visited_bbs) => Ordered(sorted_bbs, worklist, visited_bbs)'
  BY <1>1, <1>2, OrderStays
<1>7. SweepHolds /\ at' = at => SweepHolds'
  BY <1>2 DEF SweepHolds
<1>8. visited_bbs = Blocks /\ worklist = <<>> => (visited_bbs = Blocks /\ worklist = <<>>)'
  BY <1>2
<1>9. Unstarted(visited, level, parent, loop_succs, dfs_bbs) => SearchHolds
  BY DEF SearchHolds
<1>10. prog' \in Programs /\ phase' # "exit"
  BY DEF OrderInv
<1>11. CASE phase' = phase /\ (phase = "order" => at' = at)
  BY <1>3, <1>4, <1>5, <1>6, <1>7, <1>8, <1>10, <1>11 DEF OrderInv
<1>12. CASE phase = "live" /\ phase' = "loop"
  BY <1>4, <1>5, <1>9, <1>10, <1>12 DEF OrderInv
<1>13. CASE phase' \notin {"live", "loop", "order", "intervals", "exit"}
  BY <1>10, <1>13 DEF OrderInv
<1> QED
  BY <1>11, <1>12, <1>13

\* The search for the edges that close a loop goes on.
LEMMA OrderSearch ==
  ASSUME OrderInv, FindBackEdge, UNCHANGED orderVars
  PROVE  OrderInv'
<1>1. prog' = prog /\ phase' = phase /\ phase = "loop"
  BY Zenon DEF FindBackEdge
<1>2. prog \in Programs /\ SearchHolds /\ NothingSorted
  BY <1>1 DEF OrderInv
<1>3. /\ SearchInv(visited', level', parent', loop_succs', dfs_bbs')
      /\ TopInv(visited', level', dfs_bbs')
  BY ONLY <1>2, FindBackEdge, SearchStep
<1>4. SearchHolds'
  BY ONLY <1>1, <1>3, SearchStays
<1>5. NothingSorted'
  BY <1>2 DEF NothingSorted, orderVars
<1> QED
  BY <1>1, <1>2, <1>4, <1>5 DEF OrderInv

\* The search has ended, and the first sweep starts.
LEMMA OrderStart ==
  ASSUME OrderInv, StartOrder
  PROVE  OrderInv'
<1>1. /\ prog' = prog /\ phase = "loop" /\ dfs_bbs = <<>> /\ phase' = "order" /\ at' = 1
      /\ loop_succs' = loop_succs
      /\ visited_bbs' = visited_bbs /\ sorted_bbs' = sorted_bbs /\ worklist' = worklist
      /\ sortedCnt' = sortedCnt /\ done' = done
  BY DEF StartOrder, AnalysesDone, loopVars, orderVars
<1>2. prog \in Programs /\ SearchHolds /\ NothingSorted
  BY <1>1 DEF OrderInv
<1>3. LoopsFound
  <2>1. NoCycle(Blocks, loop_succs) /\ OnCycle(loop_succs)
    BY ONLY <1>1, <1>2, SearchEnds
  <2> QED
    BY <2>1 DEF LoopsFound
<1>4. Ordered(<<>>, <<>>, {})
  <2>1. <<>> \in Seq(Blocks) /\ Distinct(<<>>) /\ Range(<<>>) = {}
    BY EmptyFacts
  <2>2. <<>> \o <<>> = <<>>
    OBVIOUS
  <2>3. InOrder(<<>>)
    BY <2>1 DEF InOrder
  <2> QED
    BY <2>1, <2>2, <2>3 DEF Ordered
<1>5. Ordered(sorted_bbs', worklist', visited_bbs')
  BY <1>1, <1>2, <1>4 DEF NothingSorted
<1>6. LoopsFound' /\ Ordered(sorted_bbs, worklist, visited_bbs)'
  BY ONLY <1>1, <1>3, <1>5, OrderStays
<1>7. SweepHolds'
  <2>1. Len(<<>>) = 0
    OBVIOUS
  <2> QED
    BY <1>1, <1>2, <2>1 DEF NothingSorted, SweepHolds
<1> QED
  BY <1>1, <1>2, <1>6, <1>7 DEF OrderInv

\* A search starts.
LEMMA OrderStartBFS ==
  ASSUME OrderInv, StartBFS
  PROVE  OrderInv'
<1>1. PICK ready, b :
         /\ ready = {c \in Blocks \ visited_bbs : c >= at /\ AllPredBBVisited(c, visited_bbs)}
         /\ b = CHOOSE c \in ready : \A d \in ready : c <= d
  OBVIOUS
<1>2. /\ phase = "order" /\ worklist = <<>> /\ ready # {}
      /\ worklist' = <<b>> /\ visited_bbs' = visited_bbs \cup {b}
      /\ prog' = prog /\ phase' = phase /\ loop_succs' = loop_succs
      /\ sorted_bbs' = sorted_bbs /\ sortedCnt' = sortedCnt /\ done' = done
  BY <1>1 DEF StartBFS, loopVars
<1>3. b \in Blocks /\ b \notin visited_bbs /\ AllPredBBVisited(b, visited_bbs)
  <2>1. ready \subseteq Nat
    BY <1>1, BlockNumbers
  <2>2. \E c \in ready : \A d \in ready : c <= d
    BY ONLY <1>2, <2>1, LeastNat
  <2>3. b \in ready
    BY ONLY <1>1, <2>2
  <2> QED
    BY <1>1, <2>3
<1>4. LoopsFound /\ Ordered(sorted_bbs, <<>>, visited_bbs) /\ SweepHolds /\ prog \in Programs
  BY <1>2 DEF OrderInv
<1>5. Ordered(sorted_bbs', worklist', visited_bbs')
  <2>1. Ordered(sorted_bbs, <<b>>, visited_bbs \cup {b})
    BY ONLY <1>3, <1>4, OrderedStart
  <2> QED
    BY ONLY <1>2, <2>1
<1>6. LoopsFound' /\ Ordered(sorted_bbs, worklist, visited_bbs)'
  BY ONLY <1>2, <1>4, <1>5, OrderStays
<1>7. SweepHolds'
  <2>1. <<b>> # <<>>
    OBVIOUS
  <2> QED
    BY <1>2, <1>4, <2>1 DEF SweepHolds
<1> QED
  BY <1>2, <1>4, <1>6, <1>7 DEF OrderInv

\* A round of the search.
LEMMA OrderBFSStep ==
  ASSUME OrderInv, BFSStep
  PROVE  OrderInv'
<1> DEFINE h == Head(worklist)
           line == MarkStraightLineBBInBFS(h, visited_bbs)
           seen1 == visited_bbs \cup Range(line)
           cand == SearchForStraightLineBBs(Last(line), seen1)
           more == IF cand = {} THEN <<>>
                   ELSE MarkStraightLineBBInBFS(CHOOSE c \in cand : TRUE, seen1)
           run == line \o more
           seen2 == seen1 \cup Range(more)
           pushed == PushedSuccs(Last(run), seen2)
<1>1. /\ h = Head(worklist)
      /\ line = MarkStraightLineBBInBFS(h, visited_bbs)
      /\ seen1 = visited_bbs \cup Range(line)
      /\ cand = SearchForStraightLineBBs(Last(line), seen1)
  OBVIOUS
<1>2. more = IF cand = {} THEN <<>> ELSE MarkStraightLineBBInBFS(CHOOSE c \in cand : TRUE, seen1)
  OBVIOUS
<1>3. /\ run = line \o more /\ seen2 = seen1 \cup Range(more)
      /\ pushed = PushedSuccs(Last(run), seen2)
  OBVIOUS
<1>4. /\ phase = "order" /\ worklist # <<>>
      /\ sorted_bbs' = sorted_bbs \o run /\ worklist' = Tail(worklist) \o pushed
      /\ visited_bbs' = seen2 \cup Range(pushed)
      /\ prog' = prog /\ phase' = phase /\ loop_succs' = loop_succs
      /\ sortedCnt' = sortedCnt /\ done' = done
  BY Zenon DEF BFSStep, loopVars
<1> HIDE DEF h, line, seen1, cand, more, run, seen2, pushed
<1>5. /\ LoopsFound /\ Ordered(sorted_bbs, worklist, visited_bbs) /\ SweepHolds
      /\ prog \in Programs
  BY <1>4 DEF OrderInv
<1>6. h \in Blocks
  <2>1. worklist \in Seq(Blocks)
    BY <1>5 DEF Ordered
  <2> QED
    BY ONLY <1>1, <1>4, <2>1, TailFacts
<1>7. /\ IsRun(run, h, visited_bbs)
      /\ \A x : x \in Range(run) <=> x \in Range(line) \/ x \in Range(more)
  <2>1. IsRunOf(line, more, h, visited_bbs)
    BY ONLY <1>1, <1>2 DEF IsRunOf
  <2>2. /\ IsRun(line \o more, h, visited_bbs)
        /\ \A x : x \in Range(line \o more) <=> x \in Range(line) \/ x \in Range(more)
    BY ONLY <1>5, <1>6, <2>1, RunFacts
  <2> QED
    BY ONLY <1>3, <2>2
<1>8. seen2 = visited_bbs \cup Range(run)
  BY ONLY <1>1, <1>3, <1>7
<1>9. /\ pushed \in Seq(Blocks) /\ Distinct(pushed)
      /\ \A x \in Range(pushed) :
           /\ x \notin seen2
           /\ \A p \in Preds(x) : x \in loop_succs[p] \/ p \in seen2 \/ Earlier(pushed, p, x)
  <2>1. Last(run) \in Blocks
    BY ONLY <1>7 DEF IsRun
  <2>2. LET r == PushedSuccs(Last(run), seen2)
        IN  /\ r \in Seq(Blocks) /\ Distinct(r)
            /\ \A x \in Range(r) :
                 x \notin seen2 /\ \A p \in Preds(x) : x \in loop_succs[p] \/ p \in seen2 \/ Earlier(r, p, x)
    BY ONLY <1>5, <2>1, PushedFacts
  <2> QED
    BY ONLY <1>3, <2>2
<1>10. /\ Ordered(sorted_bbs \o run, Tail(worklist) \o pushed,
                  visited_bbs \cup Range(run) \cup Range(pushed))
       /\ Len(sorted_bbs \o run) > Len(sorted_bbs)
  <2>1. IsRun(run, Head(worklist), visited_bbs) /\ worklist # <<>>
    BY ONLY <1>1, <1>4, <1>7
  <2>2. \A x \in Range(pushed) :
           /\ x \notin visited_bbs \cup Range(run)
           /\ \A p \in Preds(x) : \/ x \in loop_succs[p]
                                  \/ p \in visited_bbs \cup Range(run)
                                  \/ Earlier(pushed, p, x)
    BY ONLY <1>8, <1>9
  <2> QED
    BY ONLY <1>5, <1>9, <2>1, <2>2, OrderedRound
<1>11. Ordered(sorted_bbs', worklist', visited_bbs') /\ Len(sorted_bbs') > Len(sorted_bbs)
  BY ONLY <1>4, <1>8, <1>10
<1>12. LoopsFound' /\ Ordered(sorted_bbs, worklist, visited_bbs)'
  BY ONLY <1>4, <1>5, <1>11, OrderStays
<1>13. SweepHolds'
  <2>1. Len(sorted_bbs) \in Nat /\ Len(sorted_bbs') \in Nat
    <3>1. sorted_bbs \in Seq(Blocks) /\ sorted_bbs' \in Seq(Blocks)
      BY <1>5, <1>11 DEF Ordered
    <3> QED
      BY ONLY <3>1, LenProperties
  <2>2. sortedCnt \in Nat /\ sortedCnt <= Len(sorted_bbs) /\ done = FALSE
    BY <1>5 DEF SweepHolds
  <2>3. sortedCnt < Len(sorted_bbs')
    BY ONLY <1>11, <2>1, <2>2
  <2> QED
    BY ONLY <1>4, <2>1, <2>2, <2>3 DEF SweepHolds
<1> QED
  BY ONLY <1>4, <1>5, <1>12, <1>13 DEF OrderInv

\* A sweep ends: with progress, or with every block visited.
LEMMA OrderSweep ==
  ASSUME OrderInv, NextSweep
  PROVE  OrderInv'
<1>1. /\ phase = "order" /\ worklist = <<>>
      /\ \A b \in Blocks \ visited_bbs : b >= at => ~AllPredBBVisited(b, visited_bbs)
      /\ sortedCnt' = Len(sorted_bbs) /\ at' = 1
      /\ done' = (done \/ sortedCnt = Len(sorted_bbs))
      /\ phase' = IF sortedCnt # Len(sorted_bbs) THEN "order"
                  ELSE IF done THEN "exit"
                  ELSE IF visited_bbs = Blocks THEN "intervals" ELSE "order"
      /\ prog' = prog /\ loop_succs' = loop_succs
      /\ visited_bbs' = visited_bbs /\ sorted_bbs' = sorted_bbs /\ worklist' = worklist
  BY DEF NextSweep, loopVars
<1>2. /\ LoopsFound /\ Ordered(sorted_bbs, worklist, visited_bbs) /\ SweepHolds
      /\ prog \in Programs
  BY <1>1 DEF OrderInv
<1>3. Ordered(sorted_bbs', worklist', visited_bbs')
  BY ONLY <1>1, <1>2
<1>4. LoopsFound' /\ Ordered(sorted_bbs, worklist, visited_bbs)'
  BY ONLY <1>1, <1>2, <1>3, OrderStays
<1>5. Len(sorted_bbs) \in Nat /\ visited_bbs \in SUBSET Blocks
  <2>1. /\ sorted_bbs \in Seq(Blocks) /\ worklist \in Seq(Blocks)
        /\ visited_bbs = Range(sorted_bbs) \cup Range(worklist)
    BY <1>2 DEF Ordered
  <2>2. Len(sorted_bbs) \in Nat
    BY ONLY <2>1, LenProperties
  <2>3. Range(sorted_bbs) \subseteq Blocks /\ Range(worklist) \subseteq Blocks
    BY ONLY <2>1, RangeFacts
  <2> QED
    BY ONLY <2>1, <2>2, <2>3
<1>6. CASE sortedCnt # Len(sorted_bbs)
  <2>1. phase' = "order" /\ done' = FALSE
    BY <1>1, <1>2, <1>6 DEF SweepHolds
  <2>2. SweepHolds'
    BY <1>1, <1>5, <2>1 DEF SweepHolds
  <2> QED
    BY <1>1, <1>2, <1>4, <2>1, <2>2 DEF OrderInv
<1>7. CASE sortedCnt = Len(sorted_bbs)
  <2>1. at = 1 /\ done = FALSE
    BY <1>1, <1>2, <1>7 DEF SweepHolds
  <2>2. \A b \in Blocks : b >= 1
    BY BlockNumbers
  <2>3. \A b \in Blocks \ visited_bbs : ~AllPredBBVisited(b, visited_bbs)
    BY <1>1, <2>1, <2>2
  <2>4. visited_bbs = Blocks
    <3>1. NoCycle(Blocks, loop_succs)
      BY <1>2 DEF LoopsFound
    <3> QED
      BY ONLY <1>5, <2>3, <3>1, AllVisited
  <2>5. phase' = "intervals"
    BY <1>1, <1>7, <2>1, <2>4
  <2> QED
    BY <1>1, <1>2, <1>4, <2>4, <2>5 DEF OrderInv
<1> QED
  BY <1>6, <1>7

\* Every step.
LEMMA OrderInvNext ==
  ASSUME OrderInv, [Next]_vars
  PROVE  OrderInv'
<1>1. CASE AnalysisLive /\ UNCHANGED orderVars
  <2>1. prog' = prog /\ phase' = phase /\ phase = "live" /\ UNCHANGED loopVars
    BY <1>1, Zenon DEF AnalysisLive
  <2> QED
    BY <1>1, <2>1, OrderLater
<1>2. CASE NextIteration /\ UNCHANGED orderVars
  <2>1. /\ prog' = prog /\ UNCHANGED loopVars /\ phase = "live"
        /\ phase' = phase \/ phase' = "loop"
    BY <1>2, Zenon DEF NextIteration
  <2> QED
    BY <1>2, <2>1, OrderLater
<1>3. CASE FindBackEdge /\ UNCHANGED orderVars
  BY <1>3, OrderSearch
<1>4. CASE StartOrder
  BY <1>4, OrderStart
<1>5. CASE StartBFS
  BY <1>5, OrderStartBFS
<1>6. CASE BFSStep
  BY <1>6, OrderBFSStep
<1>7. CASE NextSweep
  BY <1>7, OrderSweep
<1>8. CASE ComputeLiveInterval
  <2>1. /\ prog' = prog /\ UNCHANGED loopVars /\ UNCHANGED orderVars
        /\ phase' = phase /\ phase = "intervals"
    BY <1>8, Zenon DEF ComputeLiveInterval
  <2> QED
    BY <2>1, OrderLater
<1>9. CASE BuildIntervalRanges
  BY <1>9, OrderLater, Zenon DEF BuildIntervalRanges
<1>10. CASE InitFreeRegPool
  BY <1>10, OrderLater, Zenon DEF InitFreeRegPool
<1>11. CASE AllocateInsn
  BY <1>11, OrderLater, Zenon DEF AllocateInsn
<1>12. CASE StartFinalize
  BY <1>12, OrderLater, Zenon DEF StartFinalize
<1>13. CASE FinalizeInsn
  BY <1>13, OrderLater, Zenon DEF FinalizeInsn
<1>14. CASE StartRun
  BY <1>14, OrderLater, Zenon DEF StartRun
<1>15. CASE RunBlock
  BY <1>15, OrderLater, Zenon DEF RunBlock
<1>16. CASE UNCHANGED vars
  <2>1. prog' = prog /\ phase' = phase /\ at' = at /\ UNCHANGED loopVars /\ UNCHANGED orderVars
    BY <1>16 DEF vars
  <2> QED
    BY <2>1, OrderLater
<1> QED
  BY <1>1, <1>2, <1>3, <1>4, <1>5, <1>6, <1>7, <1>8, <1>9, <1>10, <1>11, <1>12, <1>13, <1>14,
     <1>15, <1>16, Zenon DEF Next, NextIntervals, NextAnalyses

\* The initial state.
LEMMA OrderInvInit == Init => OrderInv
<1> SUFFICES ASSUME Init PROVE OrderInv
  OBVIOUS
<1>1. prog \in Programs /\ phase = "live"
  BY DEF Init, InitIntervals, InitAnalyses
<1>2. Unstarted(visited, level, parent, loop_succs, dfs_bbs)
  BY DEF Init, InitIntervals, InitAnalyses, Unstarted
<1>3. NothingSorted
  BY DEF Init, InitIntervals, NothingSorted
<1> QED
  BY <1>1, <1>2, <1>3 DEF OrderInv

(* The depth-first search of FindBackEdge (loop.cpp) keeps a level for the blocks on its path
   and finds an edge for every cycle, each on a cycle; BFS (aarch64_reg_alloc.cpp) sorts a
   block once, and not before a predecessor that such an edge does not excuse. *)
THEOREM OrderInvHolds == Spec => []OrderInv
<1>1. Init => OrderInv
  BY OrderInvInit
<1>2. OrderInv /\ [Next]_vars => OrderInv'
  BY OrderInvNext
<1> QED
  BY <1>1, <1>2, PTL DEF Spec

(* For every program BFS ends with all blocks in an order in which a block comes after its
   predecessors, those excepted that it is on a cycle with over an edge that closes a loop;
   the exit of the compiler for two sweeps without progress is never taken. *)
THEOREM BlockOrderHolds == Spec => []BlocksAreOrdered
<1>1. ASSUME OrderInv PROVE BlocksAreOrdered
  <2>1. phase # "exit"
    BY <1>1 DEF OrderInv
  <2>2. ASSUME phase = "intervals"
        PROVE  /\ Len(sorted_bbs) = Cardinality(Blocks) /\ Range(sorted_bbs) = Blocks
               /\ \A i, j \in DOMAIN sorted_bbs :
                    sorted_bbs[j] \in Succs(sorted_bbs[i]) =>
                      IF sorted_bbs[j] \in loop_succs[sorted_bbs[i]]
                      THEN sorted_bbs[j] \in Reaching({sorted_bbs[i]}, Blocks)
                      ELSE i < j
    <3>1. Ordered(sorted_bbs, <<>>, Blocks) /\ OnCycle(loop_succs)
      BY <1>1, <2>2 DEF OrderInv, LoopsFound
    <3> QED
      BY ONLY <3>1, OrderedPlaces
  <2> QED
    BY <2>1, <2>2 DEF BlocksAreOrdered
<1>2. OrderInv => BlocksAreOrdered
  BY <1>1
<1> QED
  BY <1>2, OrderInvHolds, PTL

-----------------------------------------------------------------------------
(* The scan: what holds of its state st when the definitions up to instruction m have been
   allocated and the intervals that end at instruction n, or before, have been retired.
   Between two instructions m and n are the number of the last one; after
   RetireFromActive m is one less than n. *)

Pool == ParamRegs \cup CallerRegs \cup CalleeRegs

\* The intervals of a parameter register.
Entries(r) == [regno : {r}, first_def : Nat, phys_use : Nat]
Entry == UNION {Entries(r) : r \in ParamRegs}

ScanStates ==
  [free : SUBSET Pool, assigned : [VRegs -> Pool \cup {0}], spilled : SUBSET VRegs,
   save : SUBSET VRegs, parent : [VRegs -> VRegs \cup {0}], child : [VRegs -> VRegs \cup {0}],
   active : SUBSET VRegs, params : SUBSET Entry, queue : [ParamRegs -> Seq(Entry)],
   last : [ParamRegs -> Seq(Entry)], cnt : [CalleeRegs -> Nat]]

\* The definition of b has been allocated, or has been given up.
Started(b, m) == LI[b].first_def # 0 /\ LI[b].first_def <= m

\* b has not ended and holds r; b and c hold the same.
Holds(st, n, b, r) == b \in st.active /\ LI[b].last_use > n /\ st.assigned[b] = r
Share(st, n, b, c) == b # c /\ Holds(st, n, b, st.assigned[c]) /\ Holds(st, n, c, st.assigned[c])

\* b lies in a hole of h, which was there first.
Under(b, h) == InHole(b, h) /\ LI[h].first_def < LI[b].first_def

ActiveInv(st, m, n) ==
  /\ st.active \cap st.spilled = {}
  /\ \A b \in st.active : st.assigned[b] # 0 /\ Started(b, m)
  /\ \A b \in VRegs : ~Started(b, m) => st.assigned[b] = 0 /\ st.parent[b] = 0 /\ st.child[b] = 0
  /\ \A b \in VRegs : b \notin st.spilled /\ Started(b, m) =>
                        st.assigned[b] # 0 /\ (LI[b].last_use > n => b \in st.active)

HeldInv(st, n) == \A b, r : Holds(st, n, b, r) => r \notin st.free

(* An interval may end at the instruction that defines it.  Then it is active until the next,
   and no other loses a register with it. *)
EndedInv(st, n) ==
  \A b \in st.active : LI[b].last_use <= n =>
    /\ st.parent[b] = 0
    /\ \A c : ~Holds(st, n, c, st.assigned[b])
    /\ \A p \in st.params : p.regno # st.assigned[b]

\* Of those that hold the same register, one is the outermost, and each lies in a hole of others.
NestInv(st, n) ==
  /\ \A b, c : Share(st, n, b, c) => Under(b, c) \/ Under(c, b)
  /\ \A b, c : Share(st, n, b, c) /\ st.child[b] = 0 => Under(b, c)
  /\ \A b, c : Share(st, n, b, c) /\ st.child[b] # 0 =>
                 c = st.child[b] \/ Under(c, st.child[b]) \/ Under(b, c)
  /\ \A b, c : Share(st, n, b, c) /\ st.parent[b] = 0 => Under(c, b)
  /\ \A b, r : Holds(st, n, b, r) /\ st.child[b] # 0 =>
                 Holds(st, n, st.child[b], r) /\ Under(st.child[b], b)
  /\ \A b, r : Holds(st, n, b, r) => \E c : Holds(st, n, c, r) /\ st.parent[c] = 0

(* The intervals that are to come of a parameter register are in order; one that has come, or
   is set aside, keeps the register from all others, and who has the register ends before the
   next comes. *)
InSequence(q) ==
  /\ \A i \in DOMAIN q : q[i].first_def <= q[i].phys_use
  /\ \A i, j \in DOMAIN q : i < j => q[i].phys_use <= q[j].first_def

QueueInv(st) ==
  \A r \in ParamRegs : st.last[r] \o st.queue[r] \in Seq(Entries(r)) /\ InSequence(st.last[r] \o st.queue[r])

AsideInv(st, n) ==
  \A r \in ParamRegs : st.last[r] # <<>> =>
    /\ r \notin st.free /\ Len(st.last[r]) = 1
    /\ \A b : ~Holds(st, n, b, r)
    /\ \A p \in st.params : p.regno # r

ComeInv(st, n) ==
  \A p \in st.params :
    /\ p.regno \in ParamRegs /\ p.regno \notin st.free
    /\ \A b : ~Holds(st, n, b, p.regno)
    /\ \A q \in Range(st.queue[p.regno]) : p.phys_use <= q.first_def
    /\ \A q \in st.params : q.regno = p.regno => q = p

NextInv(st, n) ==
  \A b, r : Holds(st, n, b, r) /\ r \in ParamRegs =>
    \A q \in Range(st.queue[r]) : LI[b].last_use <= q.first_def

ParamInv(st, n) == QueueInv(st) /\ AsideInv(st, n) /\ ComeInv(st, n) /\ NextInv(st, n)

\* No register is lost.
Accounted(st) ==
  \A r \in Pool : \/ r \in st.free
                  \/ \E b \in st.active : st.assigned[b] = r
                  \/ \E p \in st.params : p.regno = r
                  \/ r \in ParamRegs /\ st.last[r] # <<>>

Good(st, m, n) ==
  /\ ActiveInv(st, m, n) /\ HeldInv(st, n) /\ EndedInv(st, n) /\ NestInv(st, n)
  /\ ParamInv(st, n) /\ Accounted(st)

\* Nothing that is active ends at n, and nothing is set aside.
Fresh(st, n) ==
  /\ \A b \in st.active : LI[b].last_use > n
  /\ \A r \in ParamRegs : st.last[r] = <<>>

\* What is used of the intervals.
IntervalTypes ==
  /\ \A b \in VRegs : /\ LI[b].first_def \in Nat /\ LI[b].last_use \in Nat
                      /\ \A p \in LI[b].holes : p[1] \in Int /\ p[2] \in Int /\ p[2] <= LI[b].last_use
  /\ \A b, c \in VRegs : LI[b].first_def = LI[c].first_def /\ LI[b].first_def # 0 => b = c

\* Who lies in a hole of another ends with it, or before.
LEMMA UnderFacts ==
  ASSUME IntervalTypes
  PROVE  /\ \A a, b \in VRegs : Under(a, b) => LI[a].last_use <= LI[b].last_use /\ ~Under(b, a)
         /\ \A a, b, c \in VRegs : Under(a, b) /\ Under(b, c) => Under(a, c)
<1>1. ASSUME NEW a \in VRegs, NEW b \in VRegs, Under(a, b)
      PROVE  LI[a].last_use <= LI[b].last_use /\ ~Under(b, a)
  BY <1>1 DEF IntervalTypes, Under, InHole
<1>2. ASSUME NEW a \in VRegs, NEW b \in VRegs, NEW c \in VRegs, Under(a, b), Under(b, c)
      PROVE  Under(a, c)
  <2>1. PICK p \in LI[c].holes : p[1] <= LI[b].first_def /\ p[2] >= LI[b].last_use
    BY <1>2 DEF Under, InHole
  <2>2. LI[a].last_use <= LI[b].last_use
    BY <1>1, <1>2
  <2>3. p[1] <= LI[a].first_def /\ p[2] >= LI[a].last_use
    BY <1>2, <2>1, <2>2 DEF Under, IntervalTypes
  <2> QED
    BY <1>2, <2>1, <2>3 DEF Under, InHole, IntervalTypes
<1> QED
  BY <1>1, <1>2

\* The registers are numbers above 0, and none is of two kinds.
LEMMA PoolFacts == Pool \subseteq Nat /\ 0 \notin Pool /\ \A r \in Pool : r > 0
<1>1. Pool \subseteq 1 .. kMaxRegNum
  BY RegistersAreApart DEF Pool
<1> QED
  BY <1>1 DEF kMaxRegNum

\* An instruction that defines nothing new.
LEMMA NothingNew ==
  ASSUME IntervalTypes, NEW n \in Nat, NEW st, st \in ScanStates, Good(st, n - 1, n),
         \A b \in VRegs : LI[b].first_def = n /\ n # 0 => b \in st.spilled
  PROVE  Good(st, n, n)
<1>1. \A b \in VRegs : Started(b, n) => Started(b, n - 1) \/ b \in st.spilled
  BY DEF IntervalTypes, Started
<1>2. \A b \in VRegs : Started(b, n - 1) => Started(b, n)
  BY DEF IntervalTypes, Started
<1>3. st.active \subseteq VRegs
  BY DEF ScanStates
<1>4. ActiveInv(st, n, n)
  BY <1>1, <1>2, <1>3 DEF Good, ActiveInv
<1> QED
  BY <1>4 DEF Good

\* One more is spilled that is not active.
LEMMA SpillMore ==
  ASSUME NEW m, NEW n, NEW st, Good(st, m, n), NEW v, v \notin st.active,
         NEW st2, st2.spilled = st.spilled \cup {v},
         st2.free = st.free, st2.assigned = st.assigned, st2.parent = st.parent, st2.child = st.child,
         st2.active = st.active, st2.params = st.params, st2.queue = st.queue, st2.last = st.last
  PROVE  Good(st2, m, n)
<1>1. \A b, r : Holds(st2, n, b, r) <=> Holds(st, n, b, r)
  BY DEF Holds
<1>2. \A b, c : Share(st2, n, b, c) <=> Share(st, n, b, c)
  BY DEF Share, Holds
<1>3. ActiveInv(st2, m, n)
  BY DEF Good, ActiveInv
<1>4. HeldInv(st2, n) /\ EndedInv(st2, n)
  BY <1>1 DEF Good, HeldInv, EndedInv
<1>5. NestInv(st2, n)
  BY <1>1, <1>2 DEF Good, NestInv
<1>6. ParamInv(st2, n)
  BY <1>1 DEF Good, ParamInv, QueueInv, AsideInv, ComeInv, NextInv
<1>7. Accounted(st2)
  BY DEF Good, Accounted
<1> QED
  BY <1>3, <1>4, <1>5, <1>6, <1>7 DEF Good

(* A new interval gets a register that is free.  If the register is one of the parameters,
   the interval ends before the next use of it comes. *)
LEMMA TakeFree ==
  ASSUME IntervalTypes, NEW n \in Nat, n > 0, NEW st, st \in ScanStates, Good(st, n - 1, n),
         \A b \in st.active : LI[b].last_use > n,
         NEW v \in VRegs, LI[v].first_def = n, v \notin st.spilled,
         NEW r \in st.free, r \in ParamRegs => \A q \in Range(st.queue[r]) : LI[v].last_use <= q.first_def,
         NEW st2, st2.active = st.active \cup {v}, st2.assigned = [st.assigned EXCEPT ![v] = r],
         st2.free = st.free \ {r},
         st2.spilled = st.spilled, st2.parent = st.parent, st2.child = st.child,
         st2.params = st.params, st2.queue = st.queue, st2.last = st.last
  PROVE  Good(st2, n, n)
<1>1. /\ st.active \subseteq VRegs /\ st.assigned \in [VRegs -> Pool \cup {0}] /\ st.free \subseteq Pool
      /\ r \in Pool /\ r # 0
  BY PoolFacts DEF ScanStates
<1>2. /\ ~Started(v, n - 1) /\ Started(v, n)
      /\ \A b \in VRegs : b # v => (Started(b, n) <=> Started(b, n - 1))
  BY DEF IntervalTypes, Started
<1>3. v \notin st.active /\ st.parent[v] = 0 /\ st.child[v] = 0 /\ st.assigned[v] = 0
  BY <1>2 DEF Good, ActiveInv
<1>4. \A b : ~Holds(st, n, b, r)
  BY DEF Good, HeldInv
<1>5. st2.assigned[v] = r /\ \A b \in VRegs : b # v => st2.assigned[b] = st.assigned[b]
  BY <1>1
<1>6. \A b, x : Holds(st2, n, b, x) <=> Holds(st, n, b, x) \/ (b = v /\ x = r /\ LI[v].last_use > n)
  BY <1>1, <1>3, <1>5 DEF Holds
<1>7. \A b, c : Share(st2, n, b, c) => Share(st, n, b, c)
  BY <1>3, <1>4, <1>5, <1>6 DEF Share, Holds
<1>8. ActiveInv(st2, n, n)
  BY <1>1, <1>2, <1>3, <1>5 DEF Good, ActiveInv
<1>9. HeldInv(st2, n)
  BY <1>4, <1>6 DEF Good, HeldInv
<1>10. EndedInv(st2, n)
  <2>1. \A p \in st2.params : p.regno # r
    BY DEF Good, ParamInv, ComeInv
  <2>2. \A b \in st2.active : LI[b].last_use <= n => b = v
    BY <1>1 DEF IntervalTypes
  <2>3. LI[v].last_use <= n => ~(LI[v].last_use > n)
    BY DEF IntervalTypes
  <2> QED
    BY <1>3, <1>4, <1>5, <1>6, <2>1, <2>2, <2>3 DEF EndedInv
<1>11. NestInv(st2, n)
  BY <1>3, <1>4, <1>6, <1>7 DEF Good, NestInv
<1>12. ParamInv(st2, n)
  <2>1. QueueInv(st) /\ AsideInv(st, n) /\ ComeInv(st, n) /\ NextInv(st, n)
    BY DEF Good, ParamInv
  <2>2. QueueInv(st2)
    BY <2>1 DEF QueueInv
  <2>3. AsideInv(st2, n)
    BY <1>6, <2>1 DEF AsideInv
  <2>4. ComeInv(st2, n)
    <3>1. \A p \in st.params : p.regno # r
      BY <2>1 DEF ComeInv
    <3> QED
      BY <1>6, <2>1, <3>1 DEF ComeInv
  <2>5. NextInv(st2, n)
    BY <1>6, <2>1 DEF NextInv
  <2> QED
    BY <2>2, <2>3, <2>4, <2>5 DEF ParamInv
<1>13. Accounted(st2)
  BY <1>1, <1>3, <1>5 DEF Good, Accounted
<1> QED
  BY <1>8, <1>9, <1>10, <1>11, <1>12, <1>13 DEF Good

\* v is active in a hole of h.
Nested(st, v, h, st2) ==
  /\ st2.active = st.active \cup {v} /\ st2.assigned = [st.assigned EXCEPT ![v] = st.assigned[h]]
  /\ st2.parent = [st.parent EXCEPT ![v] = h] /\ st2.child = [st.child EXCEPT ![h] = v]
  /\ st2.free = st.free /\ st2.spilled = st.spilled
  /\ st2.params = st.params /\ st2.queue = st.queue /\ st2.last = st.last

(* A new interval gets the register of an innermost one, in a hole of which it lies. *)
LEMMA TakeHole ==
  ASSUME IntervalTypes, NEW n \in Nat, n > 0, NEW st, st \in ScanStates, Good(st, n - 1, n),
         \A b \in st.active : LI[b].last_use > n,
         NEW v \in VRegs, LI[v].first_def = n, v \notin st.spilled, LI[v].last_use > n,
         NEW h \in st.active, InHole(v, h), st.child[h] = 0,
         NEW st2, Nested(st, v, h, st2)
  PROVE  Good(st2, n, n)
<1>0. /\ st2.active = st.active \cup {v} /\ st2.assigned = [st.assigned EXCEPT ![v] = st.assigned[h]]
      /\ st2.parent = [st.parent EXCEPT ![v] = h] /\ st2.child = [st.child EXCEPT ![h] = v]
      /\ st2.free = st.free /\ st2.spilled = st.spilled
      /\ st2.params = st.params /\ st2.queue = st.queue /\ st2.last = st.last
  BY DEF Nested
<1> USE <1>0
<1>1. /\ st.active \subseteq VRegs /\ st.assigned \in [VRegs -> Pool \cup {0}] /\ st.free \subseteq Pool
      /\ st.parent \in [VRegs -> VRegs \cup {0}] /\ st.child \in [VRegs -> VRegs \cup {0}]
      /\ h \in VRegs /\ 0 \notin VRegs
  BY VirtualRegisters DEF ScanStates, IsVirtual, kMaxRegNum
<1>2. /\ ~Started(v, n - 1) /\ Started(v, n)
      /\ \A b \in VRegs : b # v => (Started(b, n) <=> Started(b, n - 1))
  BY DEF IntervalTypes, Started
<1>3. v \notin st.active /\ st.parent[v] = 0 /\ st.child[v] = 0 /\ st.assigned[v] = 0 /\ h # v
  BY <1>2 DEF Good, ActiveInv
<1>4. PICK r : r = st.assigned[h] /\ Holds(st, n, h, r) /\ r # 0 /\ r \in Pool
  BY <1>1 DEF Holds, Good, ActiveInv
<1>5. Under(v, h)
  BY <1>1, <1>3 DEF Under, Good, ActiveInv, Started, IntervalTypes
<1>6. /\ st2.assigned[v] = r /\ \A b \in VRegs : b # v => st2.assigned[b] = st.assigned[b]
      /\ st2.parent[v] = h /\ \A b \in VRegs : b # v => st2.parent[b] = st.parent[b]
      /\ st2.child[h] = v /\ \A b \in VRegs : b # h => st2.child[b] = st.child[b]
  BY <1>1, <1>4
<1>7. \A b, x : Holds(st2, n, b, x) <=> Holds(st, n, b, x) \/ (b = v /\ x = r)
  BY <1>1, <1>3, <1>6 DEF Holds
<1>8. \A b, x : Holds(st, n, b, x) => b \in st.active /\ b \in VRegs /\ b # v /\ x = st.assigned[b]
  BY <1>1, <1>3 DEF Holds
<1>9. \A b : Holds(st, n, b, r) => b = h \/ Under(h, b)
  BY <1>1, <1>4 DEF Good, NestInv, Share, Holds
<1>10. \A b : Holds(st, n, b, r) => Under(v, b)
  BY <1>1, <1>5, <1>8, <1>9, UnderFacts
<1>11. \A b, c : Share(st2, n, b, c) =>
                   Share(st, n, b, c) \/ (b = v /\ Holds(st, n, c, r)) \/ (c = v /\ Holds(st, n, b, r))
  BY <1>1, <1>3, <1>6, <1>7, <1>8 DEF Share
<1>12. ActiveInv(st2, n, n)
  BY <1>1, <1>2, <1>3, <1>4, <1>6 DEF Good, ActiveInv
<1>13. HeldInv(st2, n)
  BY <1>4, <1>7 DEF Good, HeldInv
<1>14. EndedInv(st2, n)
  BY <1>1 DEF EndedInv, IntervalTypes
<1>15. NestInv(st2, n)
  <2>1. NestInv(st, n)
    BY DEF Good
  <2>2. ASSUME NEW b, NEW c, Share(st2, n, b, c) PROVE Under(b, c) \/ Under(c, b)
    BY <1>10, <1>11, <2>1, <2>2 DEF NestInv
  <2>3. ASSUME NEW b, NEW c, Share(st2, n, b, c), st2.child[b] = 0 PROVE Under(b, c)
    <3>1. b # h
      BY <1>1, <1>6, <2>3
    <3>2. CASE b = v
      BY <1>8, <1>10, <1>11, <2>3, <3>2 DEF Share
    <3>3. CASE b # v
      <4>1. b \in VRegs /\ st.child[b] = 0
        BY <1>6, <1>7, <1>8, <2>3, <3>1, <3>3 DEF Share
      <4>2. CASE c = v
        <5>1. Holds(st, n, b, r)
          BY <1>3, <1>11, <2>3, <3>3, <4>2 DEF Share, Holds
        <5>2. Share(st, n, b, h)
          BY <1>4, <3>1, <5>1 DEF Share, Holds
        <5>3. Under(b, h) /\ Under(h, b)
          BY <1>9, <2>1, <3>1, <4>1, <5>1, <5>2 DEF NestInv
        <5> QED
          BY <1>1, <4>1, <5>3, UnderFacts
      <4>3. CASE c # v
        BY <1>11, <2>1, <2>3, <3>3, <4>1, <4>3 DEF NestInv
      <4> QED
        BY <4>2, <4>3
    <3> QED
      BY <3>2, <3>3
  <2>4. ASSUME NEW b, NEW c, Share(st2, n, b, c), st2.child[b] # 0
        PROVE  c = st2.child[b] \/ Under(c, st2.child[b]) \/ Under(b, c)
    <3>1. b # v
      BY <1>3, <1>6, <2>4
    <3>2. b \in VRegs /\ b \in st.active
      BY <1>7, <1>8, <2>4, <3>1 DEF Share
    <3>3. CASE b = h
      BY <1>4, <1>6, <1>9, <1>11, <2>4, <3>1, <3>3 DEF Share, Holds
    <3>4. CASE b # h
      <4>1. st2.child[b] = st.child[b] /\ st.child[b] # 0
        BY <1>6, <2>4, <3>2, <3>4
      <4>2. CASE c = v
        <5>1. Holds(st, n, b, r)
          BY <1>11, <2>4, <3>1, <4>2, <1>3 DEF Share, Holds
        <5>2. Holds(st, n, st.child[b], r)
          BY <2>1, <4>1, <5>1 DEF NestInv
        <5> QED
          BY <1>10, <4>1, <4>2, <5>2
      <4>3. CASE c # v
        BY <1>11, <2>1, <2>4, <3>1, <4>1, <4>3 DEF NestInv
      <4> QED
        BY <4>2, <4>3
    <3> QED
      BY <3>3, <3>4
  <2>5. ASSUME NEW b, NEW c, Share(st2, n, b, c), st2.parent[b] = 0 PROVE Under(c, b)
    <3>1. b # v
      BY <1>1, <1>6, <2>5
    <3>2. b \in VRegs /\ st.parent[b] = 0
      BY <1>6, <1>7, <1>8, <2>5, <3>1 DEF Share
    <3> QED
      BY <1>10, <1>11, <2>1, <2>5, <3>1, <3>2 DEF NestInv
  <2>6. ASSUME NEW b, NEW x, Holds(st2, n, b, x), st2.child[b] # 0
        PROVE  Holds(st2, n, st2.child[b], x) /\ Under(st2.child[b], b)
    <3>1. b # v
      BY <1>3, <1>6, <2>6
    <3>2. CASE b = h
      BY <1>4, <1>5, <1>6, <1>7, <1>8, <2>6, <3>1, <3>2
    <3>3. CASE b # h
      BY <1>6, <1>7, <1>8, <2>1, <2>6, <3>1, <3>3 DEF NestInv
    <3> QED
      BY <3>2, <3>3
  <2>7. ASSUME NEW b, NEW x, Holds(st2, n, b, x) PROVE \E c : Holds(st2, n, c, x) /\ st2.parent[c] = 0
    <3>1. Holds(st, n, b, x) \/ Holds(st, n, h, x)
      BY <1>4, <1>7, <2>7
    <3>2. PICK c : Holds(st, n, c, x) /\ st.parent[c] = 0
      BY <2>1, <3>1 DEF NestInv
    <3> QED
      BY <1>6, <1>7, <1>8, <3>2
  <2> QED
    BY <2>2, <2>3, <2>4, <2>5, <2>6, <2>7 DEF NestInv
<1>16. ParamInv(st2, n)
  <2>1. QueueInv(st) /\ AsideInv(st, n) /\ ComeInv(st, n) /\ NextInv(st, n)
    BY DEF Good, ParamInv
  <2>2. QueueInv(st2)
    BY <2>1 DEF QueueInv
  <2>3. AsideInv(st2, n)
    BY <1>4, <1>7, <2>1 DEF AsideInv
  <2>4. ComeInv(st2, n)
    BY <1>4, <1>7, <2>1 DEF ComeInv
  <2>5. NextInv(st2, n)
    <3>1. LI[v].last_use <= LI[h].last_use /\ LI[v].last_use \in Nat /\ LI[h].last_use \in Nat
      BY <1>1, <1>5, UnderFacts DEF IntervalTypes
    <3> SUFFICES ASSUME NEW b, NEW x, Holds(st2, n, b, x), x \in ParamRegs, NEW q \in Range(st2.queue[x])
                 PROVE  LI[b].last_use <= q.first_def
      BY DEF NextInv
    <3>2. q \in Range(st.queue[x])
      OBVIOUS
    <3>3. CASE Holds(st, n, b, x)
      BY <2>1, <3>2, <3>3 DEF NextInv
    <3>4. CASE b = v /\ x = r
      <4>1. LI[h].last_use <= q.first_def
        BY <1>4, <2>1, <3>2, <3>4 DEF NextInv
      <4>2. q.first_def \in Nat
        <5>1. st.queue[x] \in Seq(Entry)
          BY DEF ScanStates
        <5>2. q \in Entry
          BY <3>2, <5>1, RangeFacts
        <5> QED
          BY <5>2 DEF Entry, Entries
      <4> QED
        BY <3>1, <3>4, <4>1, <4>2
    <3> QED
      BY <1>7, <3>3, <3>4
  <2> QED
    BY <2>2, <2>3, <2>4, <2>5 DEF ParamInv
<1>17. Accounted(st2)
  BY <1>1, <1>3, <1>6 DEF Good, Accounted
<1> QED
  BY <1>12, <1>13, <1>14, <1>15, <1>16, <1>17 DEF Good

(* An interval that shares its register with no other gives it up, and is spilled. *)
LEMMA GiveUp ==
  ASSUME IntervalTypes, NEW n \in Nat, NEW m, NEW st, st \in ScanStates, Good(st, m, n),
         NEW w \in st.active, LI[w].last_use > n, st.parent[w] = 0, st.child[w] = 0,
         st.assigned[w] \notin ParamRegs,
         NEW st2, st2.active = st.active \ {w}, st2.spilled = st.spilled \cup {w},
         st2.free = st.free \cup {st.assigned[w]},
         st2.assigned = st.assigned, st2.parent = st.parent, st2.child = st.child,
         st2.params = st.params, st2.queue = st.queue, st2.last = st.last
  PROVE  Good(st2, m, n)
<1>1. st.active \subseteq VRegs /\ w \in VRegs
  BY DEF ScanStates
<1>2. PICK r : r = st.assigned[w] /\ Holds(st, n, w, r) /\ r \notin ParamRegs /\ st2.free = st.free \cup {r}
  BY DEF Holds
<1>3. \A b : Holds(st, n, b, r) => b = w
  <2> SUFFICES ASSUME NEW b, Holds(st, n, b, r), b # w PROVE FALSE
    OBVIOUS
  <2>1. Share(st, n, w, b)
    BY <1>2 DEF Share, Holds
  <2>2. Under(w, b) /\ Under(b, w)
    BY <2>1 DEF Good, NestInv
  <2>3. b \in VRegs
    BY <1>1 DEF Holds
  <2> QED
    BY <1>1, <2>2, <2>3, UnderFacts
<1>4. \A b, x : Holds(st2, n, b, x) <=> Holds(st, n, b, x) /\ b # w
  BY DEF Holds
<1>5. \A b, x : Holds(st2, n, b, x) <=> Holds(st, n, b, x) /\ x # r
  BY <1>2, <1>3, <1>4 DEF Holds
<1>6. \A b, c : Share(st2, n, b, c) => Share(st, n, b, c)
  BY <1>4 DEF Share, Holds
<1>7. ActiveInv(st2, m, n)
  BY DEF Good, ActiveInv
<1>8. HeldInv(st2, n)
  BY <1>2, <1>5 DEF Good, HeldInv
<1>9. EndedInv(st2, n)
  BY <1>4 DEF Good, EndedInv
<1>10. NestInv(st2, n)
  BY <1>5, <1>6 DEF Good, NestInv
<1>11. ParamInv(st2, n)
  <2>1. QueueInv(st) /\ AsideInv(st, n) /\ ComeInv(st, n) /\ NextInv(st, n)
    BY DEF Good, ParamInv
  <2>2. QueueInv(st2)
    BY <2>1 DEF QueueInv
  <2>3. AsideInv(st2, n)
    BY <1>2, <1>4, <2>1 DEF AsideInv
  <2>4. ComeInv(st2, n)
    BY <1>2, <1>4, <2>1 DEF ComeInv
  <2>5. NextInv(st2, n)
    BY <1>4, <2>1 DEF NextInv
  <2> QED
    BY <2>2, <2>3, <2>4, <2>5 DEF ParamInv
<1>12. Accounted(st2)
  BY <1>2 DEF Good, Accounted
<1> QED
  BY <1>7, <1>8, <1>9, <1>10, <1>11, <1>12 DEF Good

(* An interval that has ended at n is active once more when n defines it again. *)
LEMMA ActiveAgain ==
  ASSUME IntervalTypes, NEW n \in Nat, NEW m, NEW st, st \in ScanStates, Good(st, m, n),
         NEW v \in VRegs, LI[v].last_use <= n, v \notin st.spilled, Started(v, m), st.parent[v] = 0,
         \A c : ~Holds(st, n, c, st.assigned[v]), \A p \in st.params : p.regno # st.assigned[v],
         NEW st2, st2.active = st.active \cup {v}, st2.spilled = st.spilled,
         st2.free = st.free, st2.assigned = st.assigned, st2.parent = st.parent, st2.child = st.child,
         st2.params = st.params, st2.queue = st.queue, st2.last = st.last
  PROVE  Good(st2, m, n)
<1>1. st.active \subseteq VRegs /\ ~(LI[v].last_use > n)
  BY DEF ScanStates, IntervalTypes
<1>2. \A b, r : Holds(st2, n, b, r) <=> Holds(st, n, b, r)
  BY <1>1 DEF Holds
<1>3. \A b, c : Share(st2, n, b, c) <=> Share(st, n, b, c)
  BY <1>2 DEF Share
<1>4. ActiveInv(st2, m, n)
  BY DEF Good, ActiveInv
<1>5. HeldInv(st2, n)
  BY <1>2 DEF Good, HeldInv
<1>6. EndedInv(st2, n)
  BY <1>2 DEF Good, EndedInv
<1>7. NestInv(st2, n)
  BY <1>2, <1>3 DEF Good, NestInv
<1>8. ParamInv(st2, n)
  BY <1>2 DEF Good, ParamInv, QueueInv, AsideInv, ComeInv, NextInv
<1>9. Accounted(st2)
  BY DEF Good, Accounted
<1> QED
  BY <1>4, <1>5, <1>6, <1>7, <1>8, <1>9 DEF Good

LEMMA EmptyJoined ==
  ASSUME NEW A, NEW s \in Seq(A)
  PROVE  <<>> \o s = s
OBVIOUS

(* The next interval of a parameter register comes.  Nobody holds the register. *)
LEMMA ParamComes ==
  ASSUME IntervalTypes, NEW n \in Nat, NEW m, NEW st, st \in ScanStates, Good(st, m, n), Fresh(st, n),
         NEW r \in ParamRegs, st.queue[r] # <<>>, Head(st.queue[r]).first_def = n,
         \A p \in st.params : p.phys_use > n,
         NEW st2, st2.free = st.free \ {r}, st2.params = st.params \cup {Head(st.queue[r])},
         st2.queue = [st.queue EXCEPT ![r] = Tail(@)], st2.last = st.last,
         st2.spilled = st.spilled, st2.active = st.active,
         st2.assigned = st.assigned, st2.parent = st.parent, st2.child = st.child
  PROVE  Good(st2, m, n)
<1>1. PICK e, q, t : e = Head(st.queue[r]) /\ q = st.queue[r] /\ t = Tail(st.queue[r])
  OBVIOUS
<1>2. st.active \subseteq VRegs /\ st.queue \in [ParamRegs -> Seq(Entry)] /\ st.last \in [ParamRegs -> Seq(Entry)]
      /\ r \in Pool
  BY DEF ScanStates, Pool
<1>3. QueueInv(st) /\ AsideInv(st, n) /\ ComeInv(st, n) /\ NextInv(st, n)
  BY DEF Good, ParamInv
<1>4. \A x \in ParamRegs : st.last[x] = <<>> /\ st.last[x] \o st.queue[x] = st.queue[x]
  <2> SUFFICES ASSUME NEW x \in ParamRegs PROVE st.last[x] = <<>> /\ st.last[x] \o st.queue[x] = st.queue[x]
    OBVIOUS
  <2>1. st.last[x] = <<>> /\ st.queue[x] \in Seq(Entry)
    BY <1>2 DEF Fresh
  <2> QED
    BY <2>1, EmptyJoined
<1>5. q \in Seq(Entries(r)) /\ InSequence(q)
  BY <1>1, <1>3, <1>4 DEF QueueInv
<1>6. /\ e \in Entries(r) /\ e = q[1] /\ Len(q) \in Nat /\ Len(q) >= 1
      /\ t \in Seq(Entries(r)) /\ Len(t) = Len(q) - 1 /\ \A i \in 1 .. Len(q) - 1 : t[i] = q[i + 1]
      /\ e \in Range(q) /\ Range(t) \subseteq Range(q)
  <2>1. q # <<>> /\ e = Head(q) /\ t = Tail(q)
    BY <1>1
  <2>2. /\ Head(q) \in Entries(r) /\ Head(q) = q[1] /\ Len(q) >= 1
        /\ Tail(q) \in Seq(Entries(r)) /\ Len(Tail(q)) = Len(q) - 1
        /\ \A i \in 1 .. Len(q) - 1 : Tail(q)[i] = q[i + 1]
        /\ \A x : x \in Range(q) <=> x = Head(q) \/ x \in Range(Tail(q))
    BY ONLY <1>5, <2>1, TailFacts
  <2>3. Len(q) \in Nat
    BY <1>5, LenProperties
  <2> QED
    BY ONLY <2>1, <2>2, <2>3
<1>7. \A x \in Range(t) : e.phys_use <= x.first_def
  <2> SUFFICES ASSUME NEW x \in Range(t) PROVE e.phys_use <= x.first_def
    OBVIOUS
  <2>1. PICK i \in 1 .. Len(t) : t[i] = x
    BY <1>6, RangeFacts
  <2>2. 1 \in DOMAIN q /\ i + 1 \in DOMAIN q /\ 1 < i + 1
    BY <1>5, <1>6, LenProperties
  <2> QED
    BY <1>5, <1>6, <2>1, <2>2 DEF InSequence
<1>8. InSequence(t)
  <2>1. DOMAIN q = 1 .. Len(q) /\ DOMAIN t = 1 .. Len(q) - 1
    BY <1>5, <1>6, LenProperties
  <2>2. \A i \in DOMAIN t : i + 1 \in DOMAIN q /\ t[i] = q[i + 1]
    BY <1>6, <2>1
  <2>3. \A i, j \in DOMAIN t : i < j => i + 1 < j + 1
    BY <2>1
  <2> QED
    BY <1>5, <2>2, <2>3 DEF InSequence
<1>9. e.regno = r /\ e.first_def = n /\ e.first_def \in Nat /\ e.phys_use \in Nat
  BY <1>1, <1>6 DEF Entries
<1>10. \A b : ~Holds(st, n, b, r)
  <2> SUFFICES ASSUME NEW b, Holds(st, n, b, r) PROVE FALSE
    OBVIOUS
  <2>1. LI[b].last_use <= n
    BY <1>1, <1>3, <1>6, <1>9 DEF NextInv
  <2> QED
    BY <1>2, <2>1 DEF Holds, IntervalTypes
<1>11. \A p \in st.params : p.regno # r
  <2> SUFFICES ASSUME NEW p \in st.params, p.regno = r PROVE FALSE
    OBVIOUS
  <2>1. p.phys_use <= n
    BY <1>1, <1>3, <1>6, <1>9 DEF ComeInv
  <2>2. p.phys_use \in Nat
    BY DEF ScanStates, Entry, Entries
  <2> QED
    BY <2>1, <2>2
<1>12. \A b, x : Holds(st2, n, b, x) <=> Holds(st, n, b, x)
  BY DEF Holds
<1>13. \A b, c : Share(st2, n, b, c) <=> Share(st, n, b, c)
  BY <1>12 DEF Share
<1>14. ActiveInv(st2, m, n)
  BY DEF Good, ActiveInv
<1>15. HeldInv(st2, n)
  BY <1>12 DEF Good, HeldInv
<1>16. EndedInv(st2, n)
  BY <1>2 DEF EndedInv, Fresh, IntervalTypes
<1>17. NestInv(st2, n)
  BY <1>12, <1>13 DEF Good, NestInv
<1>18. ParamInv(st2, n)
  <2>1. st2.queue[r] = t /\ \A x \in ParamRegs : x # r => st2.queue[x] = st.queue[x]
    BY <1>1, <1>2
  <2>2. \A x \in ParamRegs : st2.last[x] \o st2.queue[x] = st2.queue[x]
    <3> SUFFICES ASSUME NEW x \in ParamRegs PROVE st2.last[x] \o st2.queue[x] = st2.queue[x]
      OBVIOUS
    <3>1. CASE x = r
      BY <1>4, <1>6, <2>1, <3>1, EmptyJoined
    <3>2. CASE x # r
      BY <1>4, <2>1, <3>2
    <3> QED
      BY <3>1, <3>2
  <2>3. QueueInv(st2)
    <3> SUFFICES ASSUME NEW x \in ParamRegs
                 PROVE  st2.queue[x] \in Seq(Entries(x)) /\ InSequence(st2.queue[x])
      BY <2>2 DEF QueueInv
    <3>1. CASE x = r
      BY <1>6, <1>8, <2>1, <3>1
    <3>2. CASE x # r
      BY <1>3, <1>4, <2>1, <3>2 DEF QueueInv
    <3> QED
      BY <3>1, <3>2
  <2>4. AsideInv(st2, n)
    BY <1>4 DEF AsideInv
  <2>5. ComeInv(st2, n)
    <3>1. st2.params = st.params \cup {e} /\ st2.free = st.free \ {r}
      BY <1>1
    <3> SUFFICES ASSUME NEW p \in st2.params
                 PROVE  /\ p.regno \in ParamRegs /\ p.regno \notin st2.free
                        /\ \A b : ~Holds(st2, n, b, p.regno)
                        /\ \A x \in Range(st2.queue[p.regno]) : p.phys_use <= x.first_def
                        /\ \A x \in st2.params : x.regno = p.regno => x = p
      BY DEF ComeInv
    <3>2. CASE p = e
      BY <1>7, <1>9, <1>10, <1>11, <1>12, <2>1, <3>1, <3>2
    <3>3. CASE p \in st.params
      <4>1. p.regno # r
        BY <1>11, <3>3
      <4> QED
        BY <1>3, <1>9, <1>12, <2>1, <3>1, <3>3, <4>1 DEF ComeInv
    <3> QED
      BY <3>1, <3>2, <3>3
  <2>6. NextInv(st2, n)
    BY <1>3, <1>10, <1>12, <2>1 DEF NextInv
  <2> QED
    BY <2>3, <2>4, <2>5, <2>6 DEF ParamInv
<1>19. Accounted(st2)
  BY <1>1, <1>9 DEF Good, Accounted
<1> QED
  BY <1>14, <1>15, <1>16, <1>17, <1>18, <1>19 DEF Good

\* Who ends at n, and lies in no hole, leaves its register free.
LeftFree(st, n) ==
  \A b \in VRegs :
    /\ LI[b].last_use = n /\ b \notin st.spilled /\ Started(b, n - 1)
    /\ \A h \in VRegs : ~InHole(b, h)
    => st.assigned[b] \in st.free /\ st.parent[b] = 0

\* The intervals that end at n are retired.
LEMMA RetireKeeps ==
  ASSUME IntervalTypes, mode # "all", NEW n \in Nat, n > 0, NEW st, st \in ScanStates, Good(st, n - 1, n - 1),
         NEW st2, st2 = RetireFromActive(st, n)
  PROVE  /\ st2 \in ScanStates /\ Good(st2, n - 1, n) /\ Fresh(st2, n)
         /\ \A p \in st2.params : p.phys_use > n
         /\ st2.spilled = st.spilled
         /\ LeftFree(st2, n)
<1>1. PICK o : o = n - 1 /\ o \in Nat /\ n = o + 1
  OBVIOUS
<1>2. PICK back, used, gone, owners :
        /\ back = {r \in ParamRegs : st.last[r] # <<>>}
        /\ used = {p \in st.params : p.phys_use <= n}
        /\ gone = {v \in st.active : LI[v].last_use <= n}
        /\ owners = {v \in gone : st.parent[v] = 0 /\ st.assigned[v] # 0}
  OBVIOUS
<1>3. st2 = [st EXCEPT
                !.queue  = [r \in ParamRegs |-> st.last[r] \o st.queue[r]],
                !.last   = [r \in ParamRegs |-> <<>>],
                !.params = @ \ used,
                !.active = @ \ gone,
                !.free   = @ \cup back \cup {p.regno : p \in used} \cup {st.assigned[v] : v \in owners},
                !.child  = [v \in VRegs |-> IF st.child[v] \in gone THEN 0 ELSE st.child[v]],
                !.parent = [v \in VRegs |-> IF v \in gone THEN 0 ELSE st.parent[v]]]
  BY <1>2 DEF RetireFromActive
<1>4. /\ st2.queue = [r \in ParamRegs |-> st.last[r] \o st.queue[r]]
      /\ st2.last = [r \in ParamRegs |-> <<>>]
      /\ st2.params = st.params \ used
      /\ st2.active = st.active \ gone
      /\ st2.free = st.free \cup back \cup {p.regno : p \in used} \cup {st.assigned[v] : v \in owners}
      /\ st2.child = [v \in VRegs |-> IF st.child[v] \in gone THEN 0 ELSE st.child[v]]
      /\ st2.parent = [v \in VRegs |-> IF v \in gone THEN 0 ELSE st.parent[v]]
      /\ st2.assigned = st.assigned /\ st2.spilled = st.spilled /\ st2.save = st.save /\ st2.cnt = st.cnt
  BY ONLY <1>3, st \in ScanStates DEF ScanStates
<1>5. /\ st.active \subseteq VRegs /\ st.assigned \in [VRegs -> Pool \cup {0}] /\ st.free \subseteq Pool
      /\ st.parent \in [VRegs -> VRegs \cup {0}] /\ st.child \in [VRegs -> VRegs \cup {0}]
      /\ st.queue \in [ParamRegs -> Seq(Entry)] /\ st.last \in [ParamRegs -> Seq(Entry)]
      /\ st.params \subseteq Entry
  BY DEF ScanStates
<1>6. 0 \notin Pool /\ 0 \notin VRegs /\ \A b \in VRegs : LI[b].last_use \in Nat
  BY PoolFacts, VirtualRegisters DEF IsVirtual, kMaxRegNum, IntervalTypes
<1>7. \A p \in st.params : p.regno \in ParamRegs /\ p.phys_use \in Nat /\ p.first_def \in Nat
  BY <1>5 DEF Entry, Entries
<1>8. \A x \in ParamRegs : st.last[x] \o st.queue[x] \in Seq(Entry)
  <2> SUFFICES ASSUME NEW x \in ParamRegs PROVE st.last[x] \o st.queue[x] \in Seq(Entry)
    OBVIOUS
  <2>1. st.last[x] \in Seq(Entry) /\ st.queue[x] \in Seq(Entry)
    BY <1>5
  <2> QED
    BY <2>1, JoinedFacts
<1>9. \A x \in ParamRegs : st.last[x] = <<>> => st.last[x] \o st.queue[x] = st.queue[x]
  <2> SUFFICES ASSUME NEW x \in ParamRegs, st.last[x] = <<>> PROVE st.last[x] \o st.queue[x] = st.queue[x]
    OBVIOUS
  <2>1. st.queue[x] \in Seq(Entry)
    BY <1>5, Zenon
  <2> QED
    BY <2>1, EmptyJoined
<1>10. st2 \in ScanStates
  <2>1. <<>> \in Seq(Entry)
    BY EmptyFacts
  <2>2. st2.free \subseteq Pool
    <3>1. back \subseteq Pool /\ {p.regno : p \in used} \subseteq Pool
      BY <1>2, <1>7 DEF Pool
    <3>2. {st.assigned[v] : v \in owners} \subseteq Pool
      BY <1>2, <1>5
    <3> QED
      BY <1>4, <1>5, <3>1, <3>2
  <2>3. st2.queue \in [ParamRegs -> Seq(Entry)] /\ st2.last \in [ParamRegs -> Seq(Entry)]
    BY <1>4, <1>8, <2>1
  <2>4. /\ st2.params \subseteq Entry /\ st2.active \subseteq VRegs
        /\ st2.child \in [VRegs -> VRegs \cup {0}] /\ st2.parent \in [VRegs -> VRegs \cup {0}]
    BY <1>4, <1>5
  <2> QED
    BY <1>3, <1>4, <2>2, <2>3, <2>4, Zenon DEF ScanStates
<1> USE <1>1
<1>11. QueueInv(st) /\ AsideInv(st, o) /\ ComeInv(st, o) /\ NextInv(st, o)
  BY DEF Good, ParamInv
<1>12. ActiveInv(st, o, o) /\ HeldInv(st, o) /\ EndedInv(st, o) /\ NestInv(st, o) /\ Accounted(st)
  BY DEF Good
<1>13. \A b, r : Holds(st2, n, b, r) <=> Holds(st, o, b, r) /\ b \notin gone
  BY <1>2, <1>4, <1>5, <1>6 DEF Holds
<1>14. \A b, c : Share(st2, n, b, c) => Share(st, o, b, c) /\ b \notin gone /\ c \notin gone
  BY <1>4, <1>13 DEF Share
<1>15. \A b, r : Holds(st, o, b, r) => b \in st.active /\ b \in VRegs /\ r = st.assigned[b]
                                        /\ (b \in gone => LI[b].last_use = n) /\ (b \notin gone => LI[b].last_use > n)
  BY <1>2, <1>5, <1>6 DEF Holds
<1>16. \A b \in gone : (\A c : ~Holds(st, o, c, st.assigned[b])) \/ Holds(st, o, b, st.assigned[b])
  BY <1>2, <1>5, <1>6, <1>12 DEF Holds, EndedInv
\* Who goes and has no parent had the register last.
<1>17. \A b \in owners : \A c : ~Holds(st2, n, c, st.assigned[b])
  <2> SUFFICES ASSUME NEW b \in owners, NEW c, Holds(st2, n, c, st.assigned[b]) PROVE FALSE
    OBVIOUS
  <2>1. Holds(st, o, c, st.assigned[b]) /\ c \notin gone /\ b \in gone /\ st.parent[b] = 0
    BY <1>2, <1>13
  <2>2. Share(st, o, b, c)
    BY <1>15, <1>16, <2>1 DEF Share
  <2>3. Under(c, b)
    BY <1>12, <2>1, <2>2 DEF NestInv
  <2>4. b \in VRegs /\ c \in VRegs /\ LI[b].last_use = n /\ LI[c].last_use > n
    BY <1>15, <1>16, <2>1
  <2> QED
    BY <1>6, <2>3, <2>4, UnderFacts
<1>18. ActiveInv(st2, o, n)
  <2>1. \A b \in VRegs : ~Started(b, o) => st2.assigned[b] = 0 /\ st2.parent[b] = 0 /\ st2.child[b] = 0
    BY <1>4, <1>5, <1>12 DEF ActiveInv
  <2>2. \A b \in VRegs : b \notin st2.spilled /\ Started(b, o) =>
                           st2.assigned[b] # 0 /\ (LI[b].last_use > n => b \in st2.active)
    BY <1>2, <1>4, <1>6, <1>12 DEF ActiveInv
  <2> QED
    BY <1>4, <1>12, <2>1, <2>2 DEF ActiveInv
<1>19. HeldInv(st2, n)
  <2> SUFFICES ASSUME NEW b, NEW r, Holds(st2, n, b, r) PROVE r \notin st2.free
    BY DEF HeldInv
  <2>1. Holds(st, o, b, r)
    BY <1>13
  <2>2. r \notin st.free /\ r \notin back
    BY <1>2, <1>11, <1>12, <2>1 DEF HeldInv, AsideInv
  <2>3. r \notin {p.regno : p \in used}
    BY <1>2, <1>11, <2>1 DEF ComeInv
  <2>4. r \notin {st.assigned[v] : v \in owners}
    BY <1>17
  <2> QED
    BY <1>4, <2>2, <2>3, <2>4
<1>20. \A b \in st2.active : LI[b].last_use > n
  BY <1>2, <1>4, <1>5, <1>6
<1>21. EndedInv(st2, n)
  BY <1>4, <1>5, <1>6, <1>20 DEF EndedInv
<1>22. NestInv(st2, n)
  <2>1. ASSUME NEW b, NEW c, Share(st2, n, b, c) PROVE Under(b, c) \/ Under(c, b)
    BY <1>12, <1>14, <2>1 DEF NestInv
  <2>2. ASSUME NEW b, NEW c, Share(st2, n, b, c)
        PROVE  /\ b \in VRegs /\ c \in VRegs /\ LI[c].last_use > n
               /\ Share(st, o, b, c) /\ b \notin gone /\ c \notin gone /\ Holds(st, o, b, st.assigned[c])
    BY <1>4, <1>13, <1>14, <1>15, <2>2 DEF Share
  <2>3. ASSUME NEW b, NEW c, Share(st2, n, b, c), st2.child[b] = 0 PROVE Under(b, c)
    <3>1. CASE st.child[b] = 0
      BY <1>12, <2>2, <2>3, <3>1 DEF NestInv
    <3>2. CASE st.child[b] # 0
      <4>1. st.child[b] \in gone /\ st.child[b] \in VRegs
        BY <1>2, <1>4, <1>5, <2>2, <2>3, <3>2
      <4>2. c = st.child[b] \/ Under(c, st.child[b]) \/ Under(b, c)
        BY <1>12, <2>2, <2>3, <3>2 DEF NestInv
      <4>3. LI[st.child[b]].last_use <= n
        BY <1>2, <4>1
      <4> QED
        BY <1>6, <2>2, <2>3, <4>1, <4>2, <4>3, UnderFacts
    <3> QED
      BY <3>1, <3>2
  <2>4. ASSUME NEW b, NEW c, Share(st2, n, b, c), st2.child[b] # 0
        PROVE  c = st2.child[b] \/ Under(c, st2.child[b]) \/ Under(b, c)
    <3>1. st2.child[b] = st.child[b] /\ st.child[b] # 0
      BY <1>4, <2>2, <2>4
    <3> QED
      BY <1>12, <2>2, <2>4, <3>1 DEF NestInv
  <2>5. ASSUME NEW b, NEW c, Share(st2, n, b, c), st2.parent[b] = 0 PROVE Under(c, b)
    <3>1. st.parent[b] = 0
      BY <1>4, <2>2, <2>5
    <3> QED
      BY <1>12, <2>2, <2>5, <3>1 DEF NestInv
  <2>6. ASSUME NEW b, NEW r, Holds(st2, n, b, r), st2.child[b] # 0
        PROVE  Holds(st2, n, st2.child[b], r) /\ Under(st2.child[b], b)
    <3>1. b \in VRegs /\ Holds(st, o, b, r)
      BY <1>13, <1>15, <2>6
    <3>2. st2.child[b] = st.child[b] /\ st.child[b] # 0 /\ st.child[b] \notin gone
      BY <1>4, <2>6, <3>1
    <3> QED
      BY <1>12, <1>13, <3>1, <3>2 DEF NestInv
  <2>7. ASSUME NEW b, NEW r, Holds(st2, n, b, r) PROVE \E c : Holds(st2, n, c, r) /\ st2.parent[c] = 0
    <3>1. PICK c : Holds(st, o, c, r) /\ st.parent[c] = 0
      BY <1>12, <1>13, <2>7 DEF NestInv
    <3>2. c \in VRegs /\ r = st.assigned[c] /\ st.assigned[c] \in Pool
      BY <1>5, <1>12, <1>15, <3>1 DEF ActiveInv
    <3>3. c \notin gone
      BY <1>2, <1>6, <1>17, <2>7, <3>1, <3>2
    <3> QED
      BY <1>4, <1>13, <3>1, <3>2, <3>3
  <2> QED
    BY <2>1, <2>3, <2>4, <2>5, <2>6, <2>7 DEF NestInv
<1>23. ParamInv(st2, n)
  <2>1. \A x \in ParamRegs : st2.last[x] = <<>> /\ st2.queue[x] = st.last[x] \o st.queue[x]
    BY <1>4
  <2>2. \A x \in ParamRegs : st2.last[x] \o st2.queue[x] = st.last[x] \o st.queue[x]
    <3> SUFFICES ASSUME NEW x \in ParamRegs PROVE st2.last[x] \o st2.queue[x] = st.last[x] \o st.queue[x]
      OBVIOUS
    <3> QED
      BY <1>8, <2>1, EmptyJoined
  <2>3. QueueInv(st2)
    BY <1>11, <2>2 DEF QueueInv
  <2>4. AsideInv(st2, n)
    BY <2>1 DEF AsideInv
  <2>5. ComeInv(st2, n)
    <3> SUFFICES ASSUME NEW p \in st2.params
                 PROVE  /\ p.regno \in ParamRegs /\ p.regno \notin st2.free
                        /\ \A b : ~Holds(st2, n, b, p.regno)
                        /\ \A q \in Range(st2.queue[p.regno]) : p.phys_use <= q.first_def
                        /\ \A q \in st2.params : q.regno = p.regno => q = p
      BY DEF ComeInv
    <3>1. p \in st.params /\ p \notin used
      BY <1>4
    <3>2. /\ p.regno \in ParamRegs /\ p.regno \notin st.free
          /\ \A b : ~Holds(st, o, b, p.regno)
          /\ \A q \in Range(st.queue[p.regno]) : p.phys_use <= q.first_def
          /\ \A q \in st.params : q.regno = p.regno => q = p
      BY <1>11, <3>1 DEF ComeInv
    <3>3. p.regno \notin back /\ st.last[p.regno] = <<>>
      BY <1>2, <1>11, <3>1, <3>2 DEF AsideInv
    <3>4. p.regno \notin {q.regno : q \in used}
      BY <1>2, <3>1, <3>2
    <3>5. p.regno \notin {st.assigned[v] : v \in owners}
      <4> SUFFICES ASSUME NEW v \in owners, st.assigned[v] = p.regno PROVE FALSE
        OBVIOUS
      <4>1. v \in gone /\ v \in st.active
        BY <1>2
      <4>2. ~Holds(st, o, v, st.assigned[v])
        BY <3>2
      <4>3. LI[v].last_use <= o
        BY <1>5, <1>6, <4>1, <4>2 DEF Holds
      <4> QED
        BY <1>12, <3>1, <4>1, <4>3 DEF EndedInv
    <3>6. st2.queue[p.regno] = st.queue[p.regno]
      BY <1>9, <2>1, <3>2, <3>3
    <3> QED
      BY <1>4, <1>13, <3>2, <3>3, <3>4, <3>5, <3>6
  <2>6. NextInv(st2, n)
    <3> SUFFICES ASSUME NEW b, NEW r \in ParamRegs, Holds(st2, n, b, r), NEW q \in Range(st2.queue[r])
                 PROVE  LI[b].last_use <= q.first_def
      BY DEF NextInv
    <3>1. Holds(st, o, b, r)
      BY <1>13
    <3>2. st.last[r] = <<>>
      BY <1>11, <3>1 DEF AsideInv
    <3>3. st2.queue[r] = st.queue[r]
      BY <1>9, <2>1, <3>2
    <3> QED
      BY <1>11, <3>1, <3>3 DEF NextInv
  <2> QED
    BY <2>3, <2>4, <2>5, <2>6 DEF ParamInv
<1>24. Accounted(st2)
  <2> SUFFICES ASSUME NEW r \in Pool
               PROVE  \/ r \in st2.free
                      \/ \E b \in st2.active : st2.assigned[b] = r
                      \/ \E p \in st2.params : p.regno = r
    BY DEF Accounted
  <2>1. CASE r \in st.free \/ (r \in ParamRegs /\ st.last[r] # <<>>)
    BY <1>2, <1>4, <2>1
  <2>2. CASE \E p \in st.params : p.regno = r
    BY <1>2, <1>4, <2>2
  <2>3. ASSUME NEW b \in st.active, st.assigned[b] = r PROVE r \in st2.free \/ \E c \in st2.active : st2.assigned[c] = r
    <3>1. r # 0
      BY <1>6
    <3>2. CASE b \notin gone
      BY <1>4, <2>3, <3>2
    <3>3. CASE b \in gone /\ st.parent[b] = 0
      BY <1>2, <1>4, <2>3, <3>1, <3>3
    <3>4. CASE b \in gone /\ st.parent[b] # 0
      <4>1. LI[b].last_use > o
        BY <1>5, <1>6, <1>12, <2>3, <3>4 DEF EndedInv
      <4>2. Holds(st, o, b, r)
        BY <2>3, <4>1 DEF Holds
      <4>3. PICK c : Holds(st, o, c, r) /\ st.parent[c] = 0
        BY <1>12, <4>2 DEF NestInv
      <4>4. c \in st.active /\ st.assigned[c] = r
        BY <1>15, <4>3
      <4> QED
        BY <1>2, <1>4, <3>1, <4>3, <4>4
    <3> QED
      BY <3>2, <3>3, <3>4
  <2> QED
    BY <1>12, <2>1, <2>2, <2>3 DEF Accounted
<1>25. Fresh(st2, n)
  BY <1>4, <1>20 DEF Fresh
<1>26. \A p \in st2.params : p.phys_use > n
  BY <1>2, <1>4, <1>7
<1>27. ASSUME NEW b \in VRegs, LI[b].last_use = n, b \notin st2.spilled, Started(b, o),
              \A h \in VRegs : ~InHole(b, h)
       PROVE  st2.assigned[b] \in st2.free /\ st2.parent[b] = 0
  <2>1. b \in st.active /\ st.assigned[b] # 0
    BY <1>4, <1>6, <1>12, <1>27 DEF ActiveInv
  <2>2. Holds(st, o, b, st.assigned[b]) /\ b \in gone
    BY <1>2, <1>27, <2>1 DEF Holds
  <2>3. PICK c : Holds(st, o, c, st.assigned[b]) /\ st.parent[c] = 0
    BY <1>12, <2>2 DEF NestInv
  <2>4. c = b
    <3> SUFFICES ASSUME c # b PROVE FALSE
      OBVIOUS
    <3>1. Share(st, o, c, b)
      BY <1>15, <2>2, <2>3 DEF Share
    <3>2. Under(b, c) /\ c \in VRegs
      BY <1>12, <1>15, <2>3, <3>1 DEF NestInv
    <3> QED
      BY <1>27, <3>2 DEF Under
  <2> QED
    BY <1>2, <1>4, <2>1, <2>2, <2>3, <2>4
<1> QED
  BY <1>4, <1>10, <1>18, <1>19, <1>21, <1>22, <1>23, <1>24, <1>25, <1>26, <1>27 DEF Good, LeftFree

\* The places from the first that is not to be dropped.
Kept(q, Drop) == {i \in DOMAIN q : \E j \in 1 .. i : q[j] \notin Drop}

LEMMA KeptFacts ==
  ASSUME NEW A, NEW q \in Seq(A), NEW Drop
  PROVE  \E k \in 0 .. Len(q) : /\ Len(q) - Cardinality(Kept(q, Drop)) = k
                                /\ k < Len(q) => q[k + 1] \notin Drop
<1> DEFINE n == Len(q)
           K == Kept(q, Drop)
<1>1. n \in Nat /\ DOMAIN q = 1 .. n
  BY LenProperties
<1>2. K = {i \in 1 .. n : \E j \in 1 .. i : q[j] \notin Drop}
  BY <1>1 DEF Kept
<1> HIDE DEF n, K
<1>3. CASE K = {}
  <2>1. n - Cardinality(K) = n
    BY <1>1, <1>3, FS_EmptySet
  <2> QED
    BY <1>1, <2>1 DEF n, K
<1>4. CASE K # {}
  <2>1. PICK i \in K : \A j \in K : i <= j
    <3>1. K \subseteq Nat
      BY <1>1, <1>2
    <3> QED
      BY <1>4, <3>1, LeastNat
  <2>2. i \in 1 .. n
    BY <1>2
  <2>3. q[i] \notin Drop
    <3>1. PICK j \in 1 .. i : q[j] \notin Drop
      BY <1>2, <2>1
    <3>2. j \in K
      BY <1>1, <1>2, <2>2, <3>1
    <3>3. j = i
      BY <2>1, <2>2, <3>1, <3>2
    <3> QED
      BY <3>1, <3>3
  <2>4. K = i .. n
    <3>1. \A x \in i .. n : x \in K
      BY <1>1, <1>2, <2>2, <2>3
    <3>2. \A x \in K : x \in i .. n
      BY <1>1, <1>2, <2>1, <2>2
    <3> QED
      BY <3>1, <3>2
  <2>5. Cardinality(i .. n) = n - i + 1
    BY <1>1, <2>2, FS_Interval
  <2>6. PICK k : k = i - 1
    OBVIOUS
  <2>7. k \in 0 .. n /\ k + 1 = i
    BY <1>1, <2>2, <2>6
  <2>8. n - Cardinality(K) = k
    BY <1>1, <2>2, <2>4, <2>5, <2>6
  <2> QED
    BY <2>3, <2>7, <2>8 DEF n, K
<1> QED
  BY <1>3, <1>4

\* The rest of a sequence in order is in order, and after its head.
LEMMA RestInSequence ==
  ASSUME NEW r \in ParamRegs, NEW q \in Seq(Entries(r)), InSequence(q), NEW k \in 0 .. Len(q)
  PROVE  LET t == SubSeq(q, k + 1, Len(q))
         IN  /\ t \in Seq(Entries(r)) /\ InSequence(t) /\ Range(t) \subseteq Range(q)
             /\ t # <<>> => k < Len(q) /\ Head(t) = q[k + 1]
<1> PICK n, t : n = Len(q) /\ t = SubSeq(q, k + 1, Len(q))
  OBVIOUS
<1>1. n \in Nat /\ DOMAIN q = 1 .. n /\ k \in 0 .. n
  BY LenProperties
<1>2. t \in Seq(Entries(r)) /\ Len(t) = n - k /\ \A i \in 1 .. n - k : t[i] = q[k + i]
  <2>1. k + 1 \in 1 .. Len(q) + 1 /\ Len(q) \in (k + 1) - 1 .. Len(q)
    BY <1>1
  <2>2. /\ t \in Seq(Entries(r)) /\ Len(t) = n - (k + 1) + 1
        /\ \A i \in 1 .. n - (k + 1) + 1 : t[i] = q[(k + 1) + i - 1]
    BY <2>1, PartFacts
  <2>3. n - (k + 1) + 1 = n - k /\ \A i \in 1 .. n - k : (k + 1) + i - 1 = k + i
    BY <1>1
  <2> QED
    BY <2>2, <2>3
<1>3. DOMAIN t = 1 .. n - k
  BY <1>2, LenProperties
<1>4. \A i \in 1 .. n - k : k + i \in 1 .. n
  BY <1>1
<1>5. InSequence(t)
  <2>1. \A i \in DOMAIN t : t[i].first_def <= t[i].phys_use
    BY <1>1, <1>2, <1>3, <1>4 DEF InSequence
  <2>2. ASSUME NEW i \in DOMAIN t, NEW j \in DOMAIN t, i < j PROVE t[i].phys_use <= t[j].first_def
    <3>1. k + i \in DOMAIN q /\ k + j \in DOMAIN q /\ k + i < k + j
      BY <1>1, <1>3, <1>4, <2>2
    <3> QED
      BY <1>2, <1>3, <3>1 DEF InSequence
  <2> QED
    BY <2>1, <2>2 DEF InSequence
<1>6. Range(t) \subseteq Range(q)
  <2> SUFFICES ASSUME NEW x \in Range(t) PROVE x \in Range(q)
    OBVIOUS
  <2>1. PICK i \in 1 .. Len(t) : t[i] = x
    BY <1>2, RangeFacts
  <2>2. k + i \in 1 .. Len(q) /\ q[k + i] = x
    BY <1>2, <1>4, <2>1
  <2> QED
    BY <2>2, RangeFacts
<1>7. ASSUME t # <<>> PROVE k < n /\ Head(t) = q[k + 1]
  <2>1. Len(t) >= 1 /\ Head(t) = t[1]
    BY <1>2, <1>7, TailFacts
  <2>2. 1 \in 1 .. n - k
    BY <1>1, <1>2, <2>1
  <2> QED
    BY <1>1, <1>2, <2>1, <2>2
<1> QED
  BY <1>2, <1>5, <1>6, <1>7

\* All come after the head.
LEMMA HeadInSequence ==
  ASSUME NEW r \in ParamRegs, NEW q \in Seq(Entries(r)), InSequence(q), q # <<>>
  PROVE  /\ Head(q) \in Range(q) /\ Head(q).first_def <= Head(q).phys_use
         /\ \A x \in Range(q) : x = Head(q) \/ Head(q).phys_use <= x.first_def
<1>1. Head(q) = q[1] /\ Len(q) \in Nat /\ Len(q) >= 1 /\ DOMAIN q = 1 .. Len(q)
  BY TailFacts, LenProperties
<1>2. Head(q) \in Range(q)
  BY <1>1, RangeFacts
<1>3. Head(q).first_def <= Head(q).phys_use
  BY <1>1 DEF InSequence
<1>4. ASSUME NEW x \in Range(q) PROVE x = Head(q) \/ Head(q).phys_use <= x.first_def
  <2>1. PICK i \in 1 .. Len(q) : q[i] = x
    BY RangeFacts
  <2> QED
    BY <1>1, <2>1 DEF InSequence
<1> QED
  BY <1>2, <1>3, <1>4

(* What InsertParamToActive does to the intervals of one parameter register: q are those to come,
   l0 was set aside before; l is set aside now, t are left. *)
Cut(q, l0, l, t, r, S, fd, lu) ==
  \E k \in 0 .. Len(q) :
    LET s == SubSeq(q, k + 1, Len(q))
        h == s # <<>> /\ Head(s).first_def < lu /\ Head(s).phys_use > fd /\ r \in S
    IN  /\ k < Len(q) => ~(q[k + 1].first_def <= fd /\ q[k + 1].phys_use <= fd)
        /\ t = IF h THEN Tail(s) ELSE s
        /\ l = IF h THEN <<Head(s)>> ELSE l0

CutState(st, v, st2) ==
  /\ \A r \in ParamRegs : Cut(st.queue[r], st.last[r], st2.last[r], st2.queue[r], r, st.free,
                                     LI[v].first_def, LI[v].last_use)
  /\ st2.free \subseteq st.free
  /\ (\A r \in ParamRegs : st.last[r] = <<>>) =>
       /\ st2.free = st.free \ {r \in ParamRegs : st2.last[r] # <<>>}
       /\ \A r \in ParamRegs : st2.last[r] # <<>> => r \in st.free
  /\ st2 = [st EXCEPT !.queue = st2.queue, !.last = st2.last, !.free = st2.free]
  /\ st2.queue = [r \in ParamRegs |-> st2.queue[r]] /\ st2.last = [r \in ParamRegs |-> st2.last[r]]

LEMMA CutsQueues ==
  ASSUME NEW st, st \in ScanStates, NEW v,
         NEW st2, st2 = InsertParamToActive(st, v)
  PROVE  CutState(st, v, st2)
<1> DEFINE fd == LI[v].first_def
           lu == LI[v].last_use
           Over(p) == p.first_def <= fd /\ p.phys_use <= fd
           Left(q) == LET keep == {i \in DOMAIN q : \E j \in 1 .. i : ~Over(q[j])}
                      IN  SubSeq(q, Len(q) - Cardinality(keep) + 1, Len(q))
           q == [r \in ParamRegs |-> Left(st.queue[r])]
           hold == {r \in ParamRegs \cap st.free :
                      q[r] # <<>> /\ Head(q[r]).first_def < lu /\ Head(q[r]).phys_use > fd}
           Drop == {p \in Entry : Over(p)}
<1>1. st2 = [st EXCEPT !.queue = [r \in ParamRegs |-> IF r \in hold THEN Tail(q[r]) ELSE q[r]],
                       !.last  = [r \in ParamRegs |-> IF r \in hold THEN <<Head(q[r])>> ELSE st.last[r]],
                       !.free  = @ \ hold]
  BY Zenon DEF InsertParamToActive
<1>2. ASSUME NEW r \in ParamRegs
      PROVE  \E k \in 0 .. Len(st.queue[r]) :
               /\ q[r] = SubSeq(st.queue[r], k + 1, Len(st.queue[r]))
               /\ k < Len(st.queue[r]) => ~Over(st.queue[r][k + 1])
  <2>1. PICK s : s = st.queue[r]
    OBVIOUS
  <2>2. s \in Seq(Entry)
    BY <2>1 DEF ScanStates
  <2>3. Len(s) \in Nat /\ DOMAIN s = 1 .. Len(s) /\ \A i \in 1 .. Len(s) : s[i] \in Entry
    BY <2>2, LenProperties, RangeFacts
  <2>4. {i \in DOMAIN s : \E j \in 1 .. i : ~Over(s[j])} = Kept(s, Drop)
    <3>1. \A i \in DOMAIN s : \A j \in 1 .. i : ~Over(s[j]) <=> s[j] \notin Drop
      <4> SUFFICES ASSUME NEW i \in DOMAIN s, NEW j \in 1 .. i PROVE ~Over(s[j]) <=> s[j] \notin Drop
        OBVIOUS
      <4>1. j \in 1 .. Len(s)
        BY <2>3
      <4>2. s[j] \in Entry
        BY <2>3, <4>1
      <4> QED
        BY <4>2
    <3> HIDE DEF Over, Drop
    <3> QED
      BY <3>1 DEF Kept
  <2>5. PICK k \in 0 .. Len(s) : /\ Len(s) - Cardinality(Kept(s, Drop)) = k
                                 /\ k < Len(s) => s[k + 1] \notin Drop
    BY <2>2, KeptFacts
  <2>6. Left(s) = SubSeq(s, k + 1, Len(s))
    BY <2>4, <2>5
  <2>7. k < Len(s) => ~Over(s[k + 1])
    <3> SUFFICES ASSUME k < Len(s) PROVE ~Over(s[k + 1])
      OBVIOUS
    <3>1. s[k + 1] \in Entry
      BY <2>3
    <3> QED
      BY <2>5, <3>1
  <2>8. q[r] = Left(s)
    BY <2>1
  <2> HIDE DEF q, Left, Over
  <2> QED
    BY <2>1, <2>6, <2>7, <2>8
<1> DEFINE Q == [r \in ParamRegs |-> IF r \in hold THEN Tail(q[r]) ELSE q[r]]
           L == [r \in ParamRegs |-> IF r \in hold THEN <<Head(q[r])>> ELSE st.last[r]]
<1>3. \A r : r \in hold <=> r \in ParamRegs /\ r \in st.free /\ q[r] # <<>> /\ Head(q[r]).first_def < lu
                             /\ Head(q[r]).phys_use > fd
  OBVIOUS
<1>4. hold \subseteq ParamRegs /\ hold \subseteq st.free
  BY <1>3, Zenon
<1>5. /\ \A r \in ParamRegs : Q[r] = (IF r \in hold THEN Tail(q[r]) ELSE q[r])
                              /\ L[r] = (IF r \in hold THEN <<Head(q[r])>> ELSE st.last[r])
      /\ Q = [r \in ParamRegs |-> Q[r]] /\ L = [r \in ParamRegs |-> L[r]]
  BY Zenon
<1>6. st2 = [st EXCEPT !.queue = Q, !.last = L, !.free = @ \ hold]
  BY <1>1, Zenon
<1> HIDE DEF hold, Q, L, q
<1>7. st2.queue = Q /\ st2.last = L /\ st2.free = st.free \ hold
  BY ONLY <1>6, st \in ScanStates DEF ScanStates
<1>8. (\A r \in ParamRegs : st.last[r] = <<>>) => \A r \in ParamRegs : L[r] # <<>> <=> r \in hold
  <2>1. ASSUME NEW e PROVE <<e>> # <<>>
    OBVIOUS
  <2> QED
    BY <1>5, <2>1
<1>9. (\A r \in ParamRegs : st.last[r] = <<>>) => hold = {r \in ParamRegs : L[r] # <<>>}
  BY <1>4, <1>8
<1>10. ASSUME NEW r \in ParamRegs
       PROVE  Cut(st.queue[r], st.last[r], st2.last[r], st2.queue[r], r, st.free, fd, lu)
  <2>1. PICK k \in 0 .. Len(st.queue[r]) :
               /\ q[r] = SubSeq(st.queue[r], k + 1, Len(st.queue[r]))
               /\ k < Len(st.queue[r]) => ~Over(st.queue[r][k + 1])
    BY <1>2
  <2>2. PICK s, qq : qq = st.queue[r] /\ s = SubSeq(qq, k + 1, Len(qq))
    OBVIOUS
  <2>3. q[r] = s
    BY <2>1, <2>2
  <2>4. r \in hold <=> (s # <<>> /\ Head(s).first_def < lu /\ Head(s).phys_use > fd /\ r \in st.free)
    BY <1>3, <2>3
  <2>5. st2.queue[r] = (IF r \in hold THEN Tail(s) ELSE s) /\ st2.last[r] = (IF r \in hold THEN <<Head(s)>> ELSE st.last[r])
    BY <1>5, <1>7, <2>3
  <2> QED
    BY <2>1, <2>2, <2>4, <2>5 DEF Cut
<1> QED
  BY <1>4, <1>5, <1>6, <1>7, <1>8, <1>9, <1>10, Zenon DEF CutState

\* What is left is in order, and a part of what was to come.
CutResult(q, l, t, r, S, lu) ==
  /\ t \in Seq(Entries(r)) /\ l \in Seq(Entries(r)) /\ Len(l) <= 1
  /\ l # <<>> => r \in S /\ Len(l) = 1
  /\ l \o t \in Seq(Entries(r)) /\ InSequence(l \o t)
  /\ Range(t) \subseteq Range(q)
  /\ r \in S /\ l = <<>> => \A x \in Range(t) : lu <= x.first_def

LEMMA CutFits ==
  ASSUME NEW r \in ParamRegs, NEW q \in Seq(Entries(r)), InSequence(q), NEW l, NEW t, NEW S,
         NEW fd \in Nat, NEW lu \in Nat, Cut(q, <<>>, l, t, r, S, fd, lu)
  PROVE  CutResult(q, l, t, r, S, lu)
<1>1. PICK k \in 0 .. Len(q) :
        LET s == SubSeq(q, k + 1, Len(q))
            h == s # <<>> /\ Head(s).first_def < lu /\ Head(s).phys_use > fd /\ r \in S
        IN  /\ k < Len(q) => ~(q[k + 1].first_def <= fd /\ q[k + 1].phys_use <= fd)
            /\ t = IF h THEN Tail(s) ELSE s
            /\ l = IF h THEN <<Head(s)>> ELSE <<>>
  BY DEF Cut
<1> DEFINE s == SubSeq(q, k + 1, Len(q))
           h == s # <<>> /\ Head(s).first_def < lu /\ Head(s).phys_use > fd /\ r \in S
<1>2. /\ s \in Seq(Entries(r)) /\ InSequence(s) /\ Range(s) \subseteq Range(q)
      /\ s # <<>> => k < Len(q) /\ Head(s) = q[k + 1]
  BY RestInSequence
<1>3. CASE h
  <2>1. t = Tail(s) /\ l = <<Head(s)>> /\ s # <<>> /\ r \in S
    BY <1>1, <1>3
  <2> HIDE DEF s, h
  <2>2. /\ Head(s) \in Entries(r) /\ Tail(s) \in Seq(Entries(r))
        /\ \A x : x \in Range(s) <=> x = Head(s) \/ x \in Range(Tail(s))
        /\ s = <<Head(s)>> \o Tail(s)
    BY <1>2, <2>1, TailFacts
  <2>3. <<Head(s)>> \in Seq(Entries(r)) /\ Len(<<Head(s)>>) = 1
    BY <2>2, SingleFacts
  <2>4. l \o t = s /\ l # <<>>
    BY <2>1, <2>2
  <2>5. t \in Seq(Entries(r)) /\ l \in Seq(Entries(r)) /\ Len(l) = 1
    BY <2>1, <2>2, <2>3
  <2>6. Range(t) \subseteq Range(q)
    BY <1>2, <2>1, <2>2
  <2> QED
    <3>1. l \o t \in Seq(Entries(r)) /\ InSequence(l \o t)
      BY <1>2, <2>4, Zenon
    <3>2. Len(l) <= 1
      BY ONLY <2>5
    <3> QED
      BY <2>1, <2>4, <2>5, <2>6, <3>1, <3>2, Zenon DEF CutResult
<1>4. CASE ~h
  <2>1. t = s /\ l = <<>>
    BY <1>1, <1>4
  <2>4. ~(s # <<>> /\ Head(s).first_def < lu /\ Head(s).phys_use > fd /\ r \in S)
    BY <1>4
  <2> HIDE DEF s, h
  <2>2. l \in Seq(Entries(r)) /\ Len(l) = 0 /\ l \o t = t
    BY <1>2, <2>1, EmptyFacts, EmptyJoined
  <2>3. ASSUME r \in S, NEW x \in Range(t) PROVE lu <= x.first_def
    <3>1. s # <<>>
      <4>1. Range(<<>>) = {}
        BY EmptyFacts
      <4> QED
        BY <2>1, <2>3, <4>1
    <3>2. k < Len(q) /\ Head(s) = q[k + 1]
      BY <1>2, <3>1
    <3>3. /\ Head(s) \in Range(s) /\ Head(s).first_def <= Head(s).phys_use
          /\ \A y \in Range(s) : y = Head(s) \/ Head(s).phys_use <= y.first_def
      BY <1>2, <3>1, HeadInSequence
    <3>4. Head(s) \in Entries(r) /\ x \in Entries(r)
      BY <1>2, <2>1, <2>3, <3>3, RangeFacts
    <3>5. Head(s).first_def \in Nat /\ Head(s).phys_use \in Nat /\ x.first_def \in Nat
      BY <3>4 DEF Entries
    <3>6. ~(Head(s).first_def <= fd /\ Head(s).phys_use <= fd)
      BY <1>1, <3>2
    <3>7. ~(Head(s).first_def < lu /\ Head(s).phys_use > fd)
      BY <2>3, <2>4, <3>1
    <3>8. x = Head(s) \/ Head(s).phys_use <= x.first_def
      BY <2>1, <2>3, <3>3
    <3>9. lu <= Head(s).first_def
      BY <3>3, <3>5, <3>6, <3>7
    <3>10. lu <= x.first_def
      BY <3>3, <3>5, <3>8, <3>9
    <3> QED
      BY <3>10
  <2> QED
    BY <1>2, <2>1, <2>2, <2>3 DEF CutResult
<1> QED
  BY <1>3, <1>4

\* The types alone.
LastTypes(st) == \A r \in ParamRegs : Len(st.last[r]) <= 1

LEMMA InsertTypes ==
  ASSUME NEW st, st \in ScanStates, LastTypes(st), NEW v, NEW st2, st2 = InsertParamToActive(st, v)
  PROVE  st2 \in ScanStates /\ LastTypes(st2) /\ st2.active = st.active
<1>1. CutState(st, v, st2)
  BY CutsQueues
<1>2. ASSUME NEW r \in ParamRegs
      PROVE  st2.queue[r] \in Seq(Entry) /\ st2.last[r] \in Seq(Entry) /\ Len(st2.last[r]) <= 1
  <2>1. PICK q, l0 : q = st.queue[r] /\ l0 = st.last[r]
    OBVIOUS
  <2>2. q \in Seq(Entry) /\ l0 \in Seq(Entry) /\ Len(l0) <= 1
    BY <2>1 DEF ScanStates, LastTypes
  <2>3. Cut(q, l0, st2.last[r], st2.queue[r], r, st.free, LI[v].first_def, LI[v].last_use)
    BY <1>1, <2>1 DEF CutState
  <2>4. PICK k \in 0 .. Len(q), h \in BOOLEAN :
               LET s == SubSeq(q, k + 1, Len(q))
               IN  /\ h => s # <<>>
                   /\ st2.queue[r] = IF h THEN Tail(s) ELSE s
                   /\ st2.last[r] = IF h THEN <<Head(s)>> ELSE l0
    BY <2>3 DEF Cut
  <2>5. PICK s : s = SubSeq(q, k + 1, Len(q))
    OBVIOUS
  <2>6. s \in Seq(Entry)
    <3>1. Len(q) \in Nat
      BY <2>2, LenProperties
    <3>2. k + 1 \in 1 .. Len(q) + 1 /\ Len(q) \in (k + 1) - 1 .. Len(q)
      BY <3>1
    <3> QED
      BY <2>2, <2>5, <3>2, PartFacts
  <2>7. s # <<>> => Head(s) \in Entry /\ Tail(s) \in Seq(Entry)
    BY <2>6, TailFacts
  <2>8. s # <<>> => <<Head(s)>> \in Seq(Entry) /\ Len(<<Head(s)>>) = 1
    BY <2>7, SingleFacts
  <2> QED
    BY <2>2, <2>4, <2>5, <2>6, <2>7, <2>8
<1>3. st2.queue \in [ParamRegs -> Seq(Entry)] /\ st2.last \in [ParamRegs -> Seq(Entry)]
  BY <1>1, <1>2 DEF CutState
<1>4. st2 = [st EXCEPT !.queue = st2.queue, !.last = st2.last, !.free = st2.free]
  BY <1>1 DEF CutState
<1>5. st2.free \subseteq Pool
  BY <1>1 DEF CutState, ScanStates
<1>6. st2 \in ScanStates /\ st2.active = st.active
  BY ONLY <1>3, <1>4, <1>5, st \in ScanStates DEF ScanStates
<1> QED
  BY <1>2, <1>6 DEF LastTypes

(* The parameter registers that are written while v is live are set aside.  What is left
   free of them v can have. *)
LEMMA InsertKeeps ==
  ASSUME IntervalTypes, NEW n, NEW m, NEW st, st \in ScanStates, Good(st, m, n),
         NEW v \in VRegs, \A r \in ParamRegs : st.last[r] = <<>>,
         NEW st2, st2 = InsertParamToActive(st, v)
  PROVE  /\ st2 \in ScanStates /\ Good(st2, m, n)
         /\ st2.active = st.active /\ st2.spilled = st.spilled /\ st2.assigned = st.assigned
         /\ st2.parent = st.parent /\ st2.child = st.child /\ st2.params = st.params
         /\ st.free \ ParamRegs \subseteq st2.free /\ st2.free \subseteq st.free
         /\ \A r \in ParamRegs : Len(st2.last[r]) <= 1
         /\ \A r \in ParamRegs \cap st2.free : \A q \in Range(st2.queue[r]) : LI[v].last_use <= q.first_def
<1>1. /\ \A r \in ParamRegs : Cut(st.queue[r], st.last[r], st2.last[r], st2.queue[r], r, st.free,
                                     LI[v].first_def, LI[v].last_use)
      /\ st2.free = st.free \ {r \in ParamRegs : st2.last[r] # <<>>}
      /\ \A r \in ParamRegs : st2.last[r] # <<>> => r \in st.free
      /\ st2 = [st EXCEPT !.queue = st2.queue, !.last = st2.last, !.free = st2.free]
      /\ st2.queue = [r \in ParamRegs |-> st2.queue[r]] /\ st2.last = [r \in ParamRegs |-> st2.last[r]]
  <2>1. CutState(st, v, st2)
    BY CutsQueues
  <2> QED
    BY <2>1, Zenon DEF CutState
<1>2. /\ st2.active = st.active /\ st2.spilled = st.spilled /\ st2.assigned = st.assigned
      /\ st2.parent = st.parent /\ st2.child = st.child /\ st2.params = st.params
      /\ st2.save = st.save /\ st2.cnt = st.cnt
  BY ONLY <1>1, st \in ScanStates, Zenon DEF ScanStates
<1>3. QueueInv(st) /\ AsideInv(st, n) /\ ComeInv(st, n) /\ NextInv(st, n)
  BY DEF Good, ParamInv
<1>4. ASSUME NEW r \in ParamRegs
      PROVE  /\ st2.queue[r] \in Seq(Entries(r)) /\ st2.last[r] \in Seq(Entries(r)) /\ Len(st2.last[r]) <= 1
             /\ st2.last[r] # <<>> => r \in st.free /\ Len(st2.last[r]) = 1
             /\ st2.last[r] \o st2.queue[r] \in Seq(Entries(r)) /\ InSequence(st2.last[r] \o st2.queue[r])
             /\ Range(st2.queue[r]) \subseteq Range(st.queue[r])
             /\ r \in st.free /\ st2.last[r] = <<>> =>
                  \A x \in Range(st2.queue[r]) : LI[v].last_use <= x.first_def
  <2>1. st.queue[r] \in Seq(Entries(r)) /\ InSequence(st.queue[r])
    <3>1. st.last[r] = <<>> /\ st.queue[r] \in Seq(Entry)
      BY DEF ScanStates
    <3>2. st.last[r] \o st.queue[r] = st.queue[r]
      BY <3>1, EmptyJoined
    <3> QED
      BY <1>3, <3>2 DEF QueueInv
  <2>2. LI[v].first_def \in Nat /\ LI[v].last_use \in Nat
    BY DEF IntervalTypes
  <2>3. Cut(st.queue[r], <<>>, st2.last[r], st2.queue[r], r, st.free, LI[v].first_def, LI[v].last_use)
    BY <1>1, Zenon
  <2>4. CutResult(st.queue[r], st2.last[r], st2.queue[r], r, st.free, LI[v].last_use)
    BY <2>1, <2>2, <2>3, CutFits
  <2> QED
    BY <2>4 DEF CutResult
<1>5. st2 \in ScanStates
  <2>1. \A r \in ParamRegs : Seq(Entries(r)) \subseteq Seq(Entry)
    <3> SUFFICES ASSUME NEW r \in ParamRegs PROVE Seq(Entries(r)) \subseteq Seq(Entry)
      OBVIOUS
    <3>1. Entries(r) \subseteq Entry
      BY DEF Entry
    <3> QED
      BY <3>1
  <2>2. st2.queue \in [ParamRegs -> Seq(Entry)] /\ st2.last \in [ParamRegs -> Seq(Entry)]
    BY <1>1, <1>4, <2>1, Zenon
  <2>3. st2.free \subseteq Pool
    BY <1>1, Zenon DEF ScanStates
  <2> QED
    BY <1>1, <2>2, <2>3, Zenon DEF ScanStates
<1>6. \A b, r : Holds(st2, n, b, r) <=> Holds(st, n, b, r)
  BY <1>2 DEF Holds
<1>7. \A b, c : Share(st2, n, b, c) <=> Share(st, n, b, c)
  BY <1>2, <1>6 DEF Share
<1>8. ActiveInv(st2, m, n)
  BY <1>2, Zenon DEF Good, ActiveInv
<1>9. HeldInv(st2, n)
  BY <1>1, <1>6, Zenon DEF Good, HeldInv
<1>10. EndedInv(st2, n)
  BY <1>2, <1>6 DEF Good, EndedInv
<1>11. NestInv(st2, n)
  BY <1>2, <1>6, <1>7 DEF Good, NestInv
<1>12. ParamInv(st2, n)
  <2>1. QueueInv(st2)
    BY <1>4 DEF QueueInv
  <2>2. AsideInv(st2, n)
    <3> SUFFICES ASSUME NEW r \in ParamRegs, st2.last[r] # <<>>
                 PROVE  /\ r \notin st2.free /\ Len(st2.last[r]) = 1
                        /\ \A b : ~Holds(st2, n, b, r)
                        /\ \A p \in st2.params : p.regno # r
      BY Zenon DEF AsideInv
    <3>1. r \in st.free /\ r \notin st2.free /\ Len(st2.last[r]) = 1
      BY <1>1, <1>4, Zenon
    <3>2. \A b : ~Holds(st2, n, b, r)
      BY <1>6, <3>1 DEF Good, HeldInv
    <3>3. \A p \in st2.params : p.regno # r
      BY <1>2, <1>3, <3>1, Zenon DEF ComeInv
    <3> QED
      BY <3>1, <3>2, <3>3
  <2>3. ComeInv(st2, n)
    <3>1. \A p \in st.params : Range(st2.queue[p.regno]) \subseteq Range(st.queue[p.regno])
      BY <1>3, <1>4 DEF ComeInv
    <3> QED
      BY <1>1, <1>2, <1>3, <1>6, <3>1, Zenon DEF ComeInv
  <2>4. NextInv(st2, n)
    BY <1>3, <1>4, <1>6 DEF NextInv
  <2> QED
    BY <2>1, <2>2, <2>3, <2>4 DEF ParamInv
<1>13. Accounted(st2)
  <2>1. \A r \in Pool : r \in st.free => r \in st2.free \/ (r \in ParamRegs /\ st2.last[r] # <<>>)
    BY <1>1, Zenon
  <2>2. Accounted(st)
    BY DEF Good
  <2> QED
    BY <1>2, <2>1, <2>2 DEF Accounted
<1>14. Good(st2, m, n)
  BY <1>8, <1>9, <1>10, <1>11, <1>12, <1>13, Zenon DEF Good
<1>15. st.free \ ParamRegs \subseteq st2.free /\ st2.free \subseteq st.free
  BY <1>1, Zenon
<1>16. \A r \in ParamRegs \cap st2.free : \A q \in Range(st2.queue[r]) : LI[v].last_use <= q.first_def
  BY <1>1, <1>4, Zenon
<1> QED
  BY <1>2, <1>4, <1>5, <1>14, <1>15, <1>16

\* Only should_save and callee_use_cnt change.
Idle(st, st2) ==
  /\ st2.free = st.free /\ st2.assigned = st.assigned /\ st2.spilled = st.spilled
  /\ st2.parent = st.parent /\ st2.child = st.child /\ st2.active = st.active
  /\ st2.params = st.params /\ st2.queue = st.queue /\ st2.last = st.last

\* v gets the free register r.
Took(st, v, r, st2) ==
  /\ r \in st.free /\ st2.assigned = [st.assigned EXCEPT ![v] = r] /\ st2.free = st.free \ {r}
  /\ st2.spilled = st.spilled /\ st2.parent = st.parent /\ st2.child = st.child /\ st2.active = st.active
  /\ st2.params = st.params /\ st2.queue = st.queue /\ st2.last = st.last

\* v gets the register of h.
Filled(st, v, h, st2) ==
  /\ h \in HasHole(st, v) /\ st2.assigned = [st.assigned EXCEPT ![v] = st.assigned[h]]
  /\ st2.parent = [st.parent EXCEPT ![v] = h] /\ st2.child = [st.child EXCEPT ![h] = v]
  /\ st2.free = st.free /\ st2.spilled = st.spilled /\ st2.active = st.active
  /\ st2.params = st.params /\ st2.queue = st.queue /\ st2.last = st.last

LEMMA IdleFacts ==
  ASSUME NEW st, NEW st2, Idle(st, st2)
  PROVE  /\ \A m, n : Good(st, m, n) => Good(st2, m, n)
         /\ \A v : HasHole(st2, v) = HasHole(st, v)
         /\ \A v, r, st3 : Took(st2, v, r, st3) => Took(st, v, r, st3)
         /\ \A v, h, st3 : Filled(st2, v, h, st3) => Filled(st, v, h, st3)
         /\ \A st3 : Idle(st2, st3) => Idle(st, st3)
<1>1. \A n, b, r : Holds(st2, n, b, r) <=> Holds(st, n, b, r)
  BY DEF Idle, Holds
<1>2. \A n, b, c : Share(st2, n, b, c) <=> Share(st, n, b, c)
  BY <1>1 DEF Idle, Share
<1>3. ASSUME NEW m, NEW n, Good(st, m, n) PROVE Good(st2, m, n)
  <2>1. ActiveInv(st2, m, n)
    BY <1>3 DEF Good, ActiveInv, Idle
  <2>2. HeldInv(st2, n)
    BY <1>1, <1>3 DEF Good, HeldInv, Idle
  <2>3. EndedInv(st2, n)
    BY <1>1, <1>3 DEF Good, EndedInv, Idle
  <2>4. NestInv(st2, n)
    BY <1>1, <1>2, <1>3 DEF Good, NestInv, Idle
  <2>5. ParamInv(st2, n)
    BY <1>1, <1>3 DEF Good, ParamInv, QueueInv, AsideInv, ComeInv, NextInv, Idle
  <2>6. Accounted(st2)
    BY <1>3 DEF Good, Accounted, Idle
  <2> QED
    BY <2>1, <2>2, <2>3, <2>4, <2>5, <2>6 DEF Good
<1>4. \A v : HasHole(st2, v) = HasHole(st, v)
  BY DEF HasHole, Idle
<1>5. \A v, r, st3 : Took(st2, v, r, st3) => Took(st, v, r, st3)
  BY DEF Took, Idle
<1>6. \A v, h, st3 : Filled(st2, v, h, st3) => Filled(st, v, h, st3)
  BY <1>4 DEF Filled, Idle
<1>7. \A st3 : Idle(st2, st3) => Idle(st, st3)
  BY DEF Idle
<1> QED
  BY <1>3, <1>4, <1>5, <1>6, <1>7

LEMMA GetRegTakes ==
  ASSUME NEW st, st \in ScanStates, NEW v \in VRegs, NEW S, S \subseteq st.free, S # {},
         NEW st2, st2 = GetRegFromSet(st, v, S)
  PROVE  st2 \in ScanStates /\ \E r \in S : Took(st, v, r, st2)
<1>1. PICK r : r = Least(S)
  OBVIOUS
<1>2. S \subseteq Nat
  BY PoolFacts DEF ScanStates
<1>3. r \in S
  <2>1. \E x \in S : \A y \in S : x <= y
    BY <1>2, LeastNat
  <2> QED
    BY <1>1, <2>1 DEF Least
<1>4. st2 = [st EXCEPT !.assigned[v] = r, !.free = @ \ {r}]
  BY <1>1 DEF GetRegFromSet
<1>5. r \in Pool
  BY <1>3 DEF ScanStates
<1>6. st2 \in ScanStates
  BY ONLY <1>4, <1>5, st \in ScanStates, v \in VRegs DEF ScanStates
<1>7. Took(st, v, r, st2)
  <2>1. r \in st.free
    BY <1>3
  <2> QED
    BY ONLY <1>4, <2>1, st \in ScanStates DEF Took, ScanStates
<1> QED
  BY <1>3, <1>6, <1>7

\* There is a first in the order of the set active.
LEMMA FirstActive ==
  ASSUME IntervalTypes, NEW S, S \subseteq VRegs, S # {}
  PROVE  \E h \in S : \A w \in S : ActiveBefore(h, w)
<1> DEFINE E == {LI[v].last_use : v \in S}
<1>1. PICK e \in E : \A x \in E : e <= x
  <2>1. E \subseteq Nat /\ E # {}
    BY DEF IntervalTypes
  <2> HIDE DEF E
  <2> QED
    BY <2>1, LeastNat
<1> DEFINE T == {v \in S : LI[v].last_use = e}
           D == {LI[v].first_def : v \in T}
<1>2. PICK d \in D : \A x \in D : d <= x
  <2>1. T \subseteq VRegs /\ \E v \in S : v \in T
    OBVIOUS
  <2>2. D \subseteq Nat /\ D # {}
    <3> HIDE DEF T
    <3> QED
      BY <2>1 DEF IntervalTypes
  <2> HIDE DEF D
  <2> QED
    BY <2>2, LeastNat
<1>3. PICK h \in T : LI[h].first_def = d
  OBVIOUS
<1>4. ASSUME NEW w \in S PROVE ActiveBefore(h, w)
  <2>1. LI[h].last_use = e /\ LI[w].last_use \in Nat /\ e \in Nat /\ e <= LI[w].last_use
    BY <1>1, <1>3 DEF IntervalTypes
  <2>2. LI[w].last_use = e => LI[h].first_def <= LI[w].first_def
    BY <1>2, <1>3
  <2> QED
    BY <2>1, <2>2 DEF ActiveBefore
<1> QED
  BY <1>3, <1>4

LEMMA FillInHoleFills ==
  ASSUME IntervalTypes, NEW st, st \in ScanStates, NEW v \in VRegs,
         NEW st2, st2 = FillInHole(st, v)
  PROVE  st2 \in ScanStates /\ (st2 = st \/ \E h : Filled(st, v, h, st2))
<1>1. CASE HasHole(st, v) = {}
  BY <1>1 DEF FillInHole
<1>2. CASE HasHole(st, v) # {}
  <2>1. PICK h : h = CHOOSE x \in HasHole(st, v) : \A w \in HasHole(st, v) : ActiveBefore(x, w)
    OBVIOUS
  <2>2. HasHole(st, v) \subseteq VRegs
    BY DEF HasHole, ScanStates
  <2>3. h \in HasHole(st, v)
    <3>1. \E x \in HasHole(st, v) : \A w \in HasHole(st, v) : ActiveBefore(x, w)
      BY <1>2, <2>2, FirstActive
    <3> QED
      BY <2>1, <3>1
  <2>4. st2 = [st EXCEPT !.child[h] = v, !.parent[v] = h, !.assigned[v] = st.assigned[h],
                         !.save = IF st.assigned[h] \in CalleeRegs THEN @ \ {v} ELSE @]
    BY <1>2, <2>1 DEF FillInHole
  <2>5. h \in VRegs
    BY <2>2, <2>3
  <2>6. st2 \in ScanStates
    BY ONLY <2>4, <2>5, st \in ScanStates, v \in VRegs DEF ScanStates
  <2>7. Filled(st, v, h, st2)
    BY ONLY <2>3, <2>4, <2>5, st \in ScanStates, v \in VRegs DEF ScanStates, Filled
  <2> QED
    BY <2>6, <2>7
<1> QED
  BY <1>1, <1>2

\* Whether v has got a register, and how.
TookFree(st, v, st2) == \E r \in st.free : Took(st, v, r, st2) /\ (mode = "fast" => r \notin ParamRegs)
Allocated(st, v, st2) == TookFree(st, v, st2) \/ \E h : Filled(st, v, h, st2)

LEMMA FindAvailableFacts ==
  ASSUME IntervalTypes, NEW st, st \in ScanStates, NEW v \in VRegs, st.assigned[v] = 0, NEW n,
         NEW st2, st2 = FindAvailablePhyReg(st, v, n)
  PROVE  /\ st2 \in ScanStates
         /\ Idle(st, st2) \/ Allocated(st, v, st2)
         /\ CalleeOf(st) # {} => TookFree(st, v, st2)
<1> DEFINE saved == [st EXCEPT !.save = @ \cup {v}]
           unsaved == [st EXCEPT !.save = @ \ {v}]
<1>1. saved \in ScanStates /\ unsaved \in ScanStates /\ Idle(st, saved) /\ Idle(st, unsaved) /\ Idle(st, st)
      /\ saved.free = st.free /\ unsaved.free = st.free
  BY DEF ScanStates, Idle
<1> HIDE DEF saved, unsaved
<1> DEFINE Fine(s) == /\ s \in ScanStates
                      /\ Idle(st, s) \/ Allocated(st, v, s)
                      /\ CalleeOf(st) # {} => TookFree(st, v, s)
<1>2. CalleeOf(st) \subseteq st.free /\ CallerOf(st) \subseteq st.free /\ ParamOf(st) \subseteq st.free
      /\ CalleeOf(st) \cap ParamRegs = {} /\ CallerOf(st) \cap ParamRegs = {}
  BY RegistersAreApart DEF CalleeOf, CallerOf, ParamOf
<1>3. ASSUME NEW s \in {st, saved, unsaved}, NEW S, S \subseteq st.free, S # {}, S \cap ParamRegs = {} \/ mode # "fast"
      PROVE  Fine(GetRegFromSet(s, v, S))
  <2>1. s \in ScanStates /\ Idle(st, s) /\ S \subseteq s.free
    BY <1>1, <1>3
  <2>2. PICK s2 : s2 = GetRegFromSet(s, v, S)
    OBVIOUS
  <2>3. s2 \in ScanStates /\ \E r \in S : Took(s, v, r, s2)
    BY <1>3, <2>1, <2>2, GetRegTakes
  <2>4. PICK r \in S : Took(st, v, r, s2)
    BY <2>1, <2>3, IdleFacts
  <2>5. Fine(s2)
    BY <1>3, <2>3, <2>4 DEF Allocated, TookFree
  <2> QED
    BY <2>2, <2>5
<1>4. ASSUME NEW s \in {st, saved}, NEW s2, s2 = FillInHole(s, v)
      PROVE  s2 \in ScanStates /\ (Idle(st, s2) \/ Allocated(st, v, s2))
  <2>1. s \in ScanStates /\ Idle(st, s)
    BY <1>1, <1>4
  <2>2. s2 \in ScanStates /\ (s2 = s \/ \E h : Filled(s, v, h, s2))
    BY <1>4, <2>1, FillInHoleFills
  <2> QED
    BY <2>1, <2>2, IdleFacts DEF Allocated
<1>5. st2 = IF mode = "fast"
        THEN IF CalleeOf(st) # {} THEN GetRegFromSet(unsaved, v, CalleeOf(st))
             ELSE IF CallerOf(st) # {} THEN GetRegFromSet(saved, v, CallerOf(st))
             ELSE unsaved
        ELSE IF Crosses(v, n)
        THEN IF CalleeOf(st) # {} THEN GetRegFromSet(unsaved, v, CalleeOf(st))
             ELSE IF LI[v].multi_use_in_bb /\ CallerOf(st) # {} THEN GetRegFromSet(saved, v, CallerOf(st))
             ELSE IF LI[v].multi_use_in_bb /\ ParamOf(st) # {} THEN GetRegFromSet(saved, v, ParamOf(st))
             ELSE IF FillInHole(saved, v).assigned[v] # 0 THEN FillInHole(saved, v) ELSE unsaved
        ELSE IF ParamOf(st) # {} THEN GetRegFromSet(st, v, ParamOf(st))
             ELSE IF CallerOf(st) # {} THEN GetRegFromSet(st, v, CallerOf(st))
             ELSE IF CalleeOf(st) # {} THEN GetRegFromSet(st, v, CalleeOf(st))
             ELSE FillInHole(st, v)
  BY DEF FindAvailablePhyReg, saved, unsaved
<1>6. PICK f, g : f = FillInHole(saved, v) /\ g = FillInHole(st, v)
  OBVIOUS
<1>7. /\ f \in ScanStates /\ (Idle(st, f) \/ Allocated(st, v, f))
      /\ g \in ScanStates /\ (Idle(st, g) \/ Allocated(st, v, g))
  BY <1>4, <1>6
<1>8. \/ st2 = unsaved /\ CalleeOf(st) = {}
      \/ st2 = f /\ CalleeOf(st) = {}
      \/ st2 = g /\ CalleeOf(st) = {}
      \/ st2 = GetRegFromSet(unsaved, v, CalleeOf(st)) /\ CalleeOf(st) # {}
      \/ st2 = GetRegFromSet(saved, v, CallerOf(st)) /\ CallerOf(st) # {}
      \/ st2 = GetRegFromSet(saved, v, ParamOf(st)) /\ ParamOf(st) # {} /\ mode # "fast"
      \/ st2 = GetRegFromSet(st, v, ParamOf(st)) /\ ParamOf(st) # {} /\ mode # "fast"
      \/ st2 = GetRegFromSet(st, v, CallerOf(st)) /\ CallerOf(st) # {}
      \/ st2 = GetRegFromSet(st, v, CalleeOf(st)) /\ CalleeOf(st) # {}
  BY <1>5, <1>6, Zenon
<1>9. CASE st2 \in {f, g, unsaved} /\ CalleeOf(st) = {}
  BY <1>1, <1>7, <1>9
<1>10. CalleeOf(st) # {} => Fine(GetRegFromSet(unsaved, v, CalleeOf(st))) /\ Fine(GetRegFromSet(st, v, CalleeOf(st)))
  BY <1>2, <1>3
<1>11. CallerOf(st) # {} => Fine(GetRegFromSet(saved, v, CallerOf(st))) /\ Fine(GetRegFromSet(st, v, CallerOf(st)))
  BY <1>2, <1>3
<1>12. ParamOf(st) # {} /\ mode # "fast" =>
         Fine(GetRegFromSet(saved, v, ParamOf(st))) /\ Fine(GetRegFromSet(st, v, ParamOf(st)))
  BY <1>2, <1>3
<1>13. Fine(st2)
  <2>1. CASE st2 \in {f, g, unsaved}
    BY <1>8, <1>9, <1>10, <1>11, <1>12, <2>1
  <2>2. CASE st2 \notin {f, g, unsaved}
    <3> HIDE DEF Fine
    <3> QED
      BY <1>8, <1>10, <1>11, <1>12, <2>2
  <2> QED
    BY <2>1, <2>2
<1> QED
  BY <1>13

LEMMA IdleAfter ==
  ASSUME NEW st, NEW st2, NEW st3, Idle(st2, st3)
  PROVE  /\ \A v, r : Took(st, v, r, st2) => Took(st, v, r, st3)
         /\ \A v, h : Filled(st, v, h, st2) => Filled(st, v, h, st3)
         /\ Idle(st, st2) => Idle(st, st3)
<1>1. \A v, r : Took(st, v, r, st2) => Took(st, v, r, st3)
  BY DEF Took, Idle
<1>2. \A v, h : Filled(st, v, h, st2) => Filled(st, v, h, st3)
  BY DEF Filled, Idle
<1>3. Idle(st, st2) => Idle(st, st3)
  BY DEF Idle
<1> QED
  BY <1>1, <1>2, <1>3

LEMMA CountedFacts ==
  ASSUME NEW st, st \in ScanStates, NEW v \in VRegs
  PROVE  Counted(st, v) \in ScanStates /\ Idle(st, Counted(st, v))
<1>1. CASE st.assigned[v] \in CalleeRegs
  <2>1. Counted(st, v) = [st EXCEPT !.cnt[st.assigned[v]] = @ + 1]
    BY <1>1 DEF Counted
  <2>2. Counted(st, v) \in ScanStates
    <3>1. st.cnt \in [CalleeRegs -> Nat]
      BY DEF ScanStates
    <3>2. PICK c : c = [st.cnt EXCEPT ![st.assigned[v]] = st.cnt[st.assigned[v]] + 1]
      OBVIOUS
    <3>3. c \in [CalleeRegs -> Nat]
      BY <1>1, <3>1, <3>2
    <3>4. Counted(st, v) = [st EXCEPT !.cnt = c]
      BY <2>1, <3>2
    <3> QED
      BY ONLY <3>3, <3>4, st \in ScanStates DEF ScanStates
  <2>3. Idle(st, Counted(st, v))
    BY ONLY <2>1, st \in ScanStates DEF Idle, ScanStates
  <2> QED
    BY <2>2, <2>3
<1>2. CASE st.assigned[v] \notin CalleeRegs
  <2>1. Counted(st, v) = st
    BY <1>2 DEF Counted
  <2> QED
    BY <2>1 DEF Idle
<1> QED
  BY <1>1, <1>2

AssignResult(st, v, a) ==
  /\ a.st \in ScanStates
  /\ mode = "all" => a.st = st /\ ~a.got
  /\ mode # "all" /\ st.assigned[v] # 0 => Idle(st, a.st) /\ (a.got <=> v \notin st.spilled)
  /\ mode # "all" /\ st.assigned[v] = 0 /\ v \in st.spilled => a.st = st /\ ~a.got
  /\ mode # "all" /\ st.assigned[v] = 0 /\ v \notin st.spilled =>
       /\ (a.got /\ Allocated(st, v, a.st)) \/ (~a.got /\ Idle(st, a.st))
       /\ CalleeOf(st) # {} => a.got /\ TookFree(st, v, a.st)

LEMMA AssignPhysRegsFacts ==
  ASSUME IntervalTypes, NEW st, st \in ScanStates, NEW v \in VRegs, NEW n
  PROVE  AssignResult(st, v, AssignPhysRegs(st, v, n))
<1> PICK a : a = AssignPhysRegs(st, v, n)
  OBVIOUS
<1>1. CASE mode = "all"
  <2>1. a = [st |-> st, got |-> FALSE]
    BY <1>1 DEF AssignPhysRegs
  <2>2. a.st = st /\ a.got = FALSE
    BY <2>1
  <2>3. AssignResult(st, v, a)
    BY <1>1, <2>2 DEF AssignResult
  <2> QED
    BY <2>3
<1>2. CASE mode # "all" /\ st.assigned[v] # 0
  <2>1. a = [st |-> Counted(st, v), got |-> v \notin st.spilled]
    BY <1>2 DEF AssignPhysRegs
  <2>2. a.st = Counted(st, v) /\ a.got = (v \notin st.spilled)
    BY <2>1
  <2>3. AssignResult(st, v, a)
    BY <1>2, <2>2, CountedFacts DEF AssignResult
  <2> QED
    BY <2>3
<1>3. CASE mode # "all" /\ st.assigned[v] = 0 /\ v \in st.spilled
  <2>1. a = [st |-> st, got |-> FALSE]
    BY <1>3 DEF AssignPhysRegs
  <2>2. a.st = st /\ a.got = FALSE
    BY <2>1
  <2>3. AssignResult(st, v, a)
    BY <1>3, <2>2 DEF AssignResult
  <2> QED
    BY <2>3
<1>4. CASE mode # "all" /\ st.assigned[v] = 0 /\ v \notin st.spilled
  <2>1. PICK f : f = FindAvailablePhyReg(st, v, n)
    OBVIOUS
  <2>2. a = [st |-> Counted(f, v), got |-> f.assigned[v] # 0]
    BY <1>4, <2>1 DEF AssignPhysRegs
  <2>3. a.st = Counted(f, v) /\ a.got = (f.assigned[v] # 0)
    BY <2>2
  <2>4. /\ f \in ScanStates
        /\ Idle(st, f) \/ Allocated(st, v, f)
        /\ CalleeOf(st) # {} => TookFree(st, v, f)
    BY <1>4, <2>1, FindAvailableFacts
  <2>5. Counted(f, v) \in ScanStates /\ Idle(f, Counted(f, v))
    BY <2>4, CountedFacts
  <2>6. \A r : Took(st, v, r, f) => f.assigned[v] # 0 /\ Took(st, v, r, a.st)
    <3>1. \A r \in st.free : r # 0
      BY PoolFacts DEF ScanStates
    <3>2. st.assigned \in [VRegs -> Pool \cup {0}]
      BY DEF ScanStates
    <3>3. \A r : Took(st, v, r, f) => f.assigned[v] # 0
      BY <3>1, <3>2 DEF Took
    <3> QED
      BY <2>3, <2>5, <3>3, IdleAfter
  <2>7. \A h : Filled(st, v, h, f) => f.assigned[v] # 0 /\ Filled(st, v, h, a.st)
    <3>1. st.assigned \in [VRegs -> Pool \cup {0}]
      BY DEF ScanStates
    <3>2. \A h : Filled(st, v, h, f) => f.assigned[v] # 0
      BY <3>1 DEF Filled, HasHole
    <3> QED
      BY <2>3, <2>5, <3>2, IdleAfter
  <2>8. Idle(st, f) => f.assigned[v] = 0 /\ Idle(st, a.st)
    BY <1>4, <2>3, <2>5, IdleAfter DEF Idle
  <2>9. Allocated(st, v, f) => f.assigned[v] # 0 /\ Allocated(st, v, a.st)
    BY <2>6, <2>7 DEF Allocated, TookFree
  <2>10. AssignResult(st, v, a)
    <3>1. TookFree(st, v, f) => f.assigned[v] # 0 /\ TookFree(st, v, a.st)
      BY <2>6 DEF TookFree
    <3> QED
      BY <1>4, <2>3, <2>4, <2>5, <2>8, <2>9, <3>1 DEF AssignResult
  <2> QED
    BY <2>10
<1> QED
  BY <1>1, <1>2, <1>3, <1>4

\* A new interval that gets a register, or is spilled.
NewInterval(st, v, n) ==
  /\ v \in VRegs /\ LI[v].first_def = n /\ (LI[v].last_use > n \/ \A h \in VRegs : ~InHole(v, h))
  /\ mode # "fast" =>
       \A r \in ParamRegs \cap st.free : \A q \in Range(st.queue[r]) : LI[v].last_use <= q.first_def
  /\ \A b \in st.active : LI[b].last_use > n

LEMMA TakeAny ==
  ASSUME IntervalTypes, NEW n \in Nat, n > 0, NEW st, st \in ScanStates, Good(st, n - 1, n),
         NEW v, NewInterval(st, v, n), v \notin st.spilled,
         NEW s, s \in ScanStates, Allocated(st, v, s),
         NEW st2, st2 = [s EXCEPT !.active = @ \cup {v}]
  PROVE  st2 \in ScanStates /\ Good(st2, n, n)
<1>1. v \in VRegs /\ LI[v].first_def = n /\ \A b \in st.active : LI[b].last_use > n
  BY DEF NewInterval
<1>2. /\ st2.free = s.free /\ st2.assigned = s.assigned /\ st2.spilled = s.spilled
      /\ st2.parent = s.parent /\ st2.child = s.child /\ st2.active = s.active \cup {v}
      /\ st2.params = s.params /\ st2.queue = s.queue /\ st2.last = s.last
      /\ st2 \in ScanStates
  BY <1>1 DEF ScanStates
<1>3. ASSUME NEW r \in st.free, Took(st, v, r, s), mode = "fast" => r \notin ParamRegs PROVE Good(st2, n, n)
  <2>1. r \in ParamRegs => \A q \in Range(st.queue[r]) : LI[v].last_use <= q.first_def
    BY <1>3 DEF NewInterval
  <2>2. /\ st2.active = st.active \cup {v} /\ st2.assigned = [st.assigned EXCEPT ![v] = r]
        /\ st2.free = st.free \ {r}
        /\ st2.spilled = st.spilled /\ st2.parent = st.parent /\ st2.child = st.child
        /\ st2.params = st.params /\ st2.queue = st.queue /\ st2.last = st.last
    BY <1>2, <1>3 DEF Took
  <2> QED
    BY ONLY IntervalTypes, n \in Nat, n > 0, st \in ScanStates, Good(st, n - 1, n), v \notin st.spilled,
            r \in st.free, <1>1, <2>1, <2>2, TakeFree
<1>4. ASSUME NEW h, Filled(st, v, h, s) PROVE Good(st2, n, n)
  <2>1. h \in st.active /\ st.child[h] = 0 /\ InHole(v, h)
    BY <1>4 DEF Filled, HasHole
  <2>2. LI[v].last_use > n
    BY <2>1 DEF NewInterval, ScanStates
  <2>3. Nested(st, v, h, st2)
    BY <1>2, <1>4 DEF Filled, Nested
  <2> QED
    BY ONLY IntervalTypes, n \in Nat, n > 0, st \in ScanStates, Good(st, n - 1, n), v \notin st.spilled,
            <1>1, <2>1, <2>2, <2>3, TakeHole
<1> QED
  BY <1>2, <1>3, <1>4 DEF Allocated, TookFree

LEMMA SpillNew ==
  ASSUME IntervalTypes, NEW n \in Nat, n > 0, NEW st, st \in ScanStates, Good(st, n - 1, n),
         NEW v \in VRegs, v \notin st.active,
         \A b \in VRegs : LI[b].first_def = n => b = v \/ b \in st.spilled,
         NEW st2, st2 = SetOperandSpill(st, v)
  PROVE  st2 \in ScanStates /\ Good(st2, n, n)
<1>1. st2 \in ScanStates
  BY DEF SetOperandSpill, ScanStates
<1>2. /\ st2.spilled = st.spilled \cup {v}
      /\ st2.free = st.free /\ st2.assigned = st.assigned /\ st2.parent = st.parent /\ st2.child = st.child
      /\ st2.active = st.active /\ st2.params = st.params /\ st2.queue = st.queue /\ st2.last = st.last
  BY DEF SetOperandSpill, ScanStates
<1>3. Good(st2, n - 1, n)
  BY ONLY <1>2, Good(st, n - 1, n), v \notin st.active, SpillMore
<1>4. \A b \in VRegs : LI[b].first_def = n /\ n # 0 => b \in st2.spilled
  BY <1>2
<1> QED
  BY ONLY IntervalTypes, n \in Nat, <1>1, <1>3, <1>4, NothingNew

(* For want of a register v is spilled, or another that is active. *)
LEMMA HandleSpillFacts ==
  ASSUME IntervalTypes, mode # "all", NEW n \in Nat, n > 0, NEW st, st \in ScanStates, Good(st, n - 1, n),
         NEW v \in VRegs, v \notin st.active,
         v \notin st.spilled => NewInterval(st, v, n) /\ st.assigned[v] = 0,
         \A b \in VRegs : LI[b].first_def = n => b = v \/ b \in st.spilled,
         NEW st2, st2 = HandleSpillForInsn(st, v, n)
  PROVE  st2 \in ScanStates /\ Good(st2, n, n)
<1>1. PICK low : low = FindLowestPrioInActive(st.active)
  OBVIOUS
<1>2. PICK w : w = CHOOSE x \in low : TRUE
  OBVIOUS
<1>3. PICK stf : stf = [st EXCEPT !.free = @ \cup {st.assigned[w]}]
  OBVIOUS
<1>4. PICK try : try = AssignPhysRegs(stf, v, n)
  OBVIOUS
<1>5. st2 = IF \/ low = {} \/ v \in st.spilled \/ LI[v].first_def # n
            THEN SetOperandSpill(st, v)
            ELSE IF \/ st.parent[w] # 0 \/ st.child[w] # 0
                    \/ LowerPriority(v, w) \/ LI[v].ref_count < LI[w].ref_count
                    \/ st.assigned[w] \notin CalleeRegs
            THEN SetOperandSpill(st, v)
            ELSE IF ~try.got
            THEN SetOperandSpill([try.st EXCEPT !.free = @ \ {st.assigned[w]}], v)
            ELSE [try.st EXCEPT !.active = (@ \ {w}) \cup {v}, !.spilled = @ \cup {w}]
  BY <1>1, <1>2, <1>3, <1>4 DEF HandleSpillForInsn
<1>6. CASE st2 = SetOperandSpill(st, v)
  BY <1>6, SpillNew
<1>7. CASE st2 # SetOperandSpill(st, v)
  <2>1. /\ low # {} /\ v \notin st.spilled
        /\ st.parent[w] = 0 /\ st.child[w] = 0 /\ st.assigned[w] \in CalleeRegs
        /\ st2 = IF ~try.got
                 THEN SetOperandSpill([try.st EXCEPT !.free = @ \ {st.assigned[w]}], v)
                 ELSE [try.st EXCEPT !.active = (@ \ {w}) \cup {v}, !.spilled = @ \cup {w}]
    BY <1>5, <1>7
  <2>2. w \in st.active /\ st.active \subseteq VRegs
    BY <1>1, <1>2, <2>1 DEF FindLowestPrioInActive, ScanStates
  <2>3. NewInterval(st, v, n) /\ st.assigned[v] = 0 /\ w # v
    BY <2>1, <2>2
  <2>4. st.assigned[w] \in Pool /\ st.assigned[w] \notin ParamRegs
    BY <2>1, RegistersAreApart DEF Pool
  <2>5. /\ stf \in ScanStates /\ stf.free = st.free \cup {st.assigned[w]} /\ stf.assigned = st.assigned
        /\ stf.spilled = st.spilled /\ stf.parent = st.parent /\ stf.child = st.child
        /\ stf.active = st.active /\ stf.params = st.params /\ stf.queue = st.queue /\ stf.last = st.last
    BY ONLY <1>3, <2>4, st \in ScanStates DEF ScanStates
  <2>6. CalleeOf(stf) # {}
    BY <2>1, <2>5 DEF CalleeOf
  <2>7. AssignResult(stf, v, try)
    BY <1>4, <2>5, AssignPhysRegsFacts
  <2>8. try.got /\ try.st \in ScanStates
    BY <2>1, <2>3, <2>5, <2>6, <2>7 DEF AssignResult
  <2>9. PICK r \in stf.free : Took(stf, v, r, try.st) /\ (mode = "fast" => r \notin ParamRegs)
    BY <2>1, <2>3, <2>5, <2>6, <2>7 DEF AssignResult, TookFree
  <2>10. PICK give : give = [st EXCEPT !.free = @ \cup {st.assigned[w]}, !.active = @ \ {w}, !.spilled = @ \cup {w}]
    OBVIOUS
  <2>11. /\ give \in ScanStates /\ give.free = st.free \cup {st.assigned[w]} /\ give.assigned = st.assigned
         /\ give.spilled = st.spilled \cup {w} /\ give.parent = st.parent /\ give.child = st.child
         /\ give.active = st.active \ {w}
         /\ give.params = st.params /\ give.queue = st.queue /\ give.last = st.last
    BY ONLY <2>2, <2>4, <2>10, st \in ScanStates DEF ScanStates
  <2>12. LI[w].last_use > n
    BY <2>2, <2>3 DEF NewInterval
  <2>13. Good(give, n - 1, n)
    BY ONLY IntervalTypes, n \in Nat, st \in ScanStates, Good(st, n - 1, n), <2>1, <2>2, <2>4, <2>11, <2>12, GiveUp
  <2>14. PICK s : s = [try.st EXCEPT !.active = @ \ {w}, !.spilled = @ \cup {w}]
    OBVIOUS
  <2>15. /\ s \in ScanStates /\ s.free = try.st.free /\ s.assigned = try.st.assigned
         /\ s.spilled = try.st.spilled \cup {w} /\ s.parent = try.st.parent /\ s.child = try.st.child
         /\ s.active = try.st.active \ {w}
         /\ s.params = try.st.params /\ s.queue = try.st.queue /\ s.last = try.st.last
    BY ONLY <2>2, <2>8, <2>14 DEF ScanStates
  <2>16. Allocated(give, v, s)
    <3>1. r \in give.free /\ Took(give, v, r, s)
      BY <2>5, <2>9, <2>11, <2>15 DEF Took
    <3> QED
      BY <2>9, <3>1 DEF Allocated, TookFree
  <2>17. st2 = [s EXCEPT !.active = @ \cup {v}]
    <3>1. st2 = [try.st EXCEPT !.active = (@ \ {w}) \cup {v}, !.spilled = @ \cup {w}]
      BY <2>1, <2>8
    <3> QED
      BY ONLY <3>1, <2>8, <2>14 DEF ScanStates
  <2>18. NewInterval(give, v, n)
    <3>1. ParamRegs \cap give.free = ParamRegs \cap st.free
      BY <2>4, <2>11
    <3> QED
      BY <2>3, <2>11, <3>1 DEF NewInterval
  <2>19. v \notin give.spilled
    BY <2>1, <2>3, <2>11
  <2> QED
    BY ONLY IntervalTypes, n \in Nat, n > 0, <2>11, <2>13, <2>15, <2>16, <2>17, <2>18, <2>19, TakeAny
<1> QED
  BY <1>6, <1>7

(* The definition of v at n. *)
LEMMA AssignDefFacts ==
  ASSUME IntervalTypes, mode # "all", NEW n \in Nat, n > 0, NEW st, st \in ScanStates, Good(st, n - 1, n),
         Fresh(st, n), NEW v \in VRegs, LI[v].first_def \in 1 .. n, LI[v].last_use >= n,
         \A b \in VRegs : LI[b].first_def = n => b = v,
         LI[v].last_use > n \/ \A h \in VRegs : ~InHole(v, h),
         LI[v].last_use = n /\ v \notin st.spilled /\ LI[v].first_def < n =>
           st.assigned[v] \in st.free /\ st.parent[v] = 0,
         NEW st2, st2 = AssignDef(st, v, n)
  PROVE  st2 \in ScanStates /\ Good(st2, n, n)
<1>1. PICK held, a : held = (IF mode = "fast" THEN st ELSE InsertParamToActive(st, v)) /\ a = AssignPhysRegs(held, v, n)
  OBVIOUS
<1>2. st2 = IF a.got THEN [a.st EXCEPT !.active = @ \cup {v}] ELSE HandleSpillForInsn(a.st, v, n)
  BY <1>1 DEF AssignDef
<1>3. /\ held \in ScanStates /\ Good(held, n - 1, n)
      /\ held.active = st.active /\ held.spilled = st.spilled /\ held.assigned = st.assigned
      /\ held.parent = st.parent /\ held.child = st.child /\ held.params = st.params
      /\ st.free \ ParamRegs \subseteq held.free /\ held.free \subseteq st.free
      /\ mode # "fast" =>
           \A r \in ParamRegs \cap held.free : \A q \in Range(held.queue[r]) : LI[v].last_use <= q.first_def
  <2>1. CASE mode = "fast"
    BY <1>1, <2>1
  <2>2. CASE mode # "fast"
    <3>1. held = InsertParamToActive(st, v) /\ \A r \in ParamRegs : st.last[r] = <<>>
      BY <1>1, <2>2 DEF Fresh
    <3> QED
      BY ONLY IntervalTypes, st \in ScanStates, Good(st, n - 1, n), v \in VRegs, <3>1, InsertKeeps
  <2> QED
    BY <2>1, <2>2
<1>4. AssignResult(held, v, a)
  BY <1>1, <1>3, AssignPhysRegsFacts
<1>5. \A b \in held.active : LI[b].last_use > n
  BY <1>3 DEF Fresh
<1>6. CASE v \in st.spilled
  <2>1. ~a.got /\ a.st \in ScanStates /\ (a.st = held \/ Idle(held, a.st))
    BY <1>3, <1>4, <1>6 DEF AssignResult
  <2>2. Good(a.st, n - 1, n) /\ a.st.spilled = st.spilled /\ a.st.active = st.active
    BY <1>3, <2>1, IdleFacts DEF Idle
  <2>3. v \notin a.st.active /\ v \in a.st.spilled
    BY <1>3, <1>6, <2>2 DEF Good, ActiveInv
  <2>4. st2 = HandleSpillForInsn(a.st, v, n)
    BY <1>2, <2>1
  <2> QED
    BY <2>1, <2>2, <2>3, <2>4, HandleSpillFacts
<1>7. CASE v \notin st.spilled /\ LI[v].first_def = n
  <2>1. ~Started(v, n - 1)
    BY <1>7 DEF Started
  <2>2. held.assigned[v] = 0 /\ v \notin held.active /\ v \notin held.spilled
    BY <1>3, <1>7, <2>1 DEF Good, ActiveInv
  <2>3. a.st \in ScanStates /\ ((a.got /\ Allocated(held, v, a.st)) \/ (~a.got /\ Idle(held, a.st)))
    BY <1>4, <2>2 DEF AssignResult
  <2>4. NewInterval(held, v, n)
    BY <1>3, <1>5, <1>7 DEF NewInterval
  <2>5. CASE a.got
    <3>1. Allocated(held, v, a.st) /\ st2 = [a.st EXCEPT !.active = @ \cup {v}]
      BY <1>2, <2>3, <2>5
    <3> QED
      BY ONLY IntervalTypes, n \in Nat, n > 0, <1>3, <2>2, <2>3, <2>4, <3>1, TakeAny
  <2>6. CASE ~a.got
    <3>1. Idle(held, a.st) /\ st2 = HandleSpillForInsn(a.st, v, n)
      BY <1>2, <2>3, <2>6
    <3>2. Good(a.st, n - 1, n)
      BY <1>3, <3>1, IdleFacts
    <3>3. /\ NewInterval(a.st, v, n) /\ a.st.assigned[v] = 0 /\ v \notin a.st.active
          /\ \A b \in VRegs : LI[b].first_def = n => b = v \/ b \in a.st.spilled
      BY <2>2, <2>4, <3>1 DEF NewInterval, Idle
    <3> QED
      BY ONLY IntervalTypes, mode # "all", n \in Nat, n > 0, v \in VRegs, <2>3, <3>1, <3>2, <3>3, HandleSpillFacts
  <2> QED
    BY <2>5, <2>6
<1>8. CASE v \notin st.spilled /\ LI[v].first_def < n
  <2>1. Started(v, n - 1)
    BY <1>8 DEF Started
  <2>2. held.assigned[v] # 0 /\ v \notin held.spilled /\ (LI[v].last_use > n => v \in held.active)
    BY <1>3, <1>8, <2>1 DEF Good, ActiveInv
  <2>3. a.st \in ScanStates /\ a.got /\ Idle(held, a.st) /\ Good(a.st, n - 1, n)
    BY <1>3, <1>4, <2>2, IdleFacts DEF AssignResult
  <2>4. PICK s : s = a.st /\ s \in ScanStates /\ Idle(held, s) /\ Good(s, n - 1, n)
    BY <2>3
  <2>5. st2 = [s EXCEPT !.active = @ \cup {v}]
    BY <1>2, <2>3, <2>4
  <2>6. /\ st2.free = s.free /\ st2.assigned = s.assigned /\ st2.spilled = s.spilled
        /\ st2.parent = s.parent /\ st2.child = s.child /\ st2.active = s.active \cup {v}
        /\ st2.params = s.params /\ st2.queue = s.queue /\ st2.last = s.last
        /\ st2 \in ScanStates
    BY ONLY <2>4, <2>5, v \in VRegs DEF ScanStates
  <2>7. Good(st2, n - 1, n)
    <3>1. CASE LI[v].last_use > n
      <4>1. s.active \cup {v} = s.active
        BY <2>2, <2>4, <3>1 DEF Idle
      <4>2. Idle(s, st2)
        BY <2>6, <4>1 DEF Idle
      <4> QED
        BY <2>4, <4>2, IdleFacts
    <3>2. CASE ~(LI[v].last_use > n)
      <4>1. LI[v].last_use = n
        BY <3>2 DEF IntervalTypes
      <4>2. s.parent[v] = 0 /\ s.assigned = st.assigned /\ v \notin s.spilled /\ st.assigned[v] \in st.free
        BY <1>3, <1>8, <2>4, <4>1 DEF Idle
      <4>3. \A c : ~Holds(s, n, c, s.assigned[v])
        <5>1. \A c : ~Holds(st, n, c, st.assigned[v])
          BY <4>2 DEF Good, HeldInv
        <5> QED
          BY <1>3, <2>4, <4>2, <5>1 DEF Holds, Idle
      <4>4. \A p \in s.params : p.regno # s.assigned[v]
        BY <1>3, <2>4, <4>2 DEF Good, ParamInv, ComeInv, Idle
      <4>5. Started(v, n - 1) /\ LI[v].last_use <= n
        BY <2>1, <4>1
      <4> QED
        BY ONLY IntervalTypes, n \in Nat, v \in VRegs, <2>4, <2>6, <4>2, <4>3, <4>4, <4>5, ActiveAgain
    <3> QED
      BY <3>1, <3>2
  <2>8. \A b \in VRegs : LI[b].first_def = n /\ n # 0 => b \in st2.spilled
    BY <1>8
  <2> QED
    BY ONLY IntervalTypes, n \in Nat, <2>6, <2>7, <2>8, NothingNew
<1> QED
  BY <1>6, <1>7, <1>8

\* The operand that is written.
DefPart(st, n) ==
  IF IsVirtual(insns[n].def) THEN AssignDef(st, insns[n].def, n)
  ELSE IF IsParam(insns[n].def) THEN ActivateParam(st, insns[n].def, n) ELSE st

\* What the operands that are read keep is kept.
LEMMA UsesKeep ==
  ASSUME NEW n, NEW st, NEW A, insns[n].uses \in Seq(A), NEW T, DefPart(st, n) \in T,
         \A u \in Range(insns[n].uses) : \A t \in T : AssignUse(t, u, n) \in T
  PROVE  AssignPhysRegsForInsn(st, n) \in T
<1> DEFINE S == insns[n].uses
           k == Len(S)
           d == DefPart(st, n)
           Eq(f) == f = [i \in 0 .. k |-> IF i = 0 THEN d ELSE AssignUse(f[i - 1], S[i], n)]
           U == CHOOSE f : Eq(f)
           g == [i \in 1 .. k |-> [t \in T |-> AssignUse(t, S[i], n)]]
<1>1. AssignPhysRegsForInsn(st, n) = U[k]
  BY DEF AssignPhysRegsForInsn, DefPart
<1>2. k \in Nat /\ \A i \in 1 .. k : S[i] \in Range(S)
  BY LenProperties, RangeFacts
<1>3. \A i \in 1 .. k : \A t \in T : g[i][t] = AssignUse(t, S[i], n) /\ g[i][t] \in T
  BY <1>2
<1>4. d \in T
  OBVIOUS
<1> HIDE DEF S, k, d
<1>5. Eq(U)
  <2>1. \E f \in [0 .. k -> T] : Iterates(k, d, g, f)
    <3> HIDE DEF g
    <3> QED
      BY <1>2, <1>3, <1>4, Iteration
  <2>2. PICK f \in [0 .. k -> T] : Iterates(k, d, g, f)
    BY <2>1
  <2> HIDE DEF g
  <2>3. ASSUME NEW i \in 0 .. k
        PROVE  (IF i = 0 THEN d ELSE g[i][f[i - 1]]) = IF i = 0 THEN d ELSE AssignUse(f[i - 1], S[i], n)
    <3>1. i # 0 => i \in 1 .. k /\ i - 1 \in 0 .. k
      BY <1>2
    <3>2. i # 0 => f[i - 1] \in T
      BY <2>2, <3>1
    <3> QED
      BY <1>3, <3>1, <3>2
  <2>4. Eq(f)
    BY <2>2, <2>3 DEF Iterates
  <2> HIDE DEF Eq
  <2> QED
    BY <2>4
<1> HIDE DEF U, g
<1> DEFINE V == {i \in 0 .. k : U[i] \in T}
<1>6. \A i \in 0 .. k : U[i] = IF i = 0 THEN d ELSE AssignUse(U[i - 1], S[i], n)
  BY <1>5, Zenon
<1>7. 0 \in V
  BY <1>2, <1>4, <1>6
<1>8. ASSUME NEW i \in 1 .. k, i - 1 \in V PROVE i \in V
  <2>1. i \in 0 .. k /\ i # 0
    BY <1>2
  <2>2. U[i] = AssignUse(U[i - 1], S[i], n)
    BY <1>6, <2>1
  <2>3. AssignUse(U[i - 1], S[i], n) \in T
    BY <1>2, <1>8 DEF S
  <2> QED
    BY <2>1, <2>2, <2>3
<1> HIDE DEF V
<1>9. k \in V
  <2>1. 0 .. k \subseteq V
    BY ONLY <1>2, <1>7, <1>8, UpToInduction
  <2> QED
    BY <1>2, <2>1
<1> QED
  BY <1>1, <1>9 DEF V

(* What the intervals are right about: where a register is written or read its interval has
   begun, and has not ended before. *)
IntervalsRight ==
  /\ IntervalTypes
  /\ Len(insns) \in Nat
  /\ \A n \in 1 .. Len(insns) :
       /\ insns[n].uses \in Seq(Nat)
       /\ IsVirtual(insns[n].def) => /\ insns[n].def \in VRegs /\ LI[insns[n].def].first_def \in 1 .. n
                                     /\ LI[insns[n].def].last_use >= n
       /\ \A u \in Range(insns[n].uses) :
            IsVirtual(u) => u \in VRegs /\ LI[u].first_def \in 1 .. n - 1 /\ LI[u].last_use >= n
  /\ \A b \in VRegs : LI[b].first_def # 0 => insns[LI[b].first_def].def = b

\* An interval that ends where its register is written does not lie in a hole.
WellWrittenAt(n) ==
  IsVirtual(insns[n].def) =>
    LI[insns[n].def].last_use > n \/ \A h \in VRegs : ~InHole(insns[n].def, h)

\* An operand that is read finds its register, or is spilled already.
LEMMA AssignUseFacts ==
  ASSUME IntervalsRight, mode # "all", NEW n \in 1 .. Len(insns), NEW u \in Range(insns[n].uses),
         NEW st, st \in ScanStates, Good(st, n, n)
  PROVE  AssignUse(st, u, n) \in ScanStates /\ Good(AssignUse(st, u, n), n, n)
<1>1. CASE ~IsVirtual(u)
  BY <1>1 DEF AssignUse
<1>2. CASE IsVirtual(u)
  <2>1. PICK a, s : a = AssignPhysRegs(st, u, n) /\ s = AssignUse(st, u, n)
    OBVIOUS
  <2>2. s = IF a.got THEN a.st ELSE SetOperandSpill(a.st, u)
    BY <1>2, <2>1 DEF AssignUse
  <2>3. u \in VRegs /\ LI[u].first_def \in 1 .. n - 1 /\ IntervalTypes
    BY <1>2 DEF IntervalsRight
  <2>4. Started(u, n)
    BY <2>3 DEF Started, IntervalTypes
  <2>5. AssignResult(st, u, a)
    BY <2>1, <2>3, AssignPhysRegsFacts
  <2>6. u \notin st.spilled => st.assigned[u] # 0
    BY <2>3, <2>4 DEF Good, ActiveInv
  <2>7. a.st \in ScanStates /\ (a.st = st \/ Idle(st, a.st)) /\ (a.got <=> u \notin st.spilled)
    BY <2>5, <2>6 DEF AssignResult
  <2>8. Good(a.st, n, n) /\ a.st.spilled = st.spilled
    BY <2>7, IdleFacts DEF Idle
  <2>9. CASE a.got
    BY <2>1, <2>2, <2>7, <2>8, <2>9
  <2>10. CASE ~a.got
    <3>1. s = SetOperandSpill(a.st, u) /\ u \in a.st.spilled
      BY <2>2, <2>7, <2>8, <2>10
    <3>2. a.st.spilled \cup {u} = a.st.spilled
      BY <3>1
    <3>3. s = [a.st EXCEPT !.spilled = a.st.spilled]
      BY <3>1, <3>2 DEF SetOperandSpill
    <3>4. s \in ScanStates /\ Idle(a.st, s)
      BY ONLY <2>7, <3>3 DEF ScanStates, Idle
    <3> QED
      BY <2>1, <2>8, <3>4, IdleFacts
  <2> QED
    BY <2>9, <2>10
<1> QED
  BY <1>1, <1>2

\* A parameter register that is written.
LEMMA ActivateParamFacts ==
  ASSUME IntervalTypes, NEW n \in Nat, n > 0, NEW st, st \in ScanStates, Good(st, n - 1, n), Fresh(st, n),
         \A p \in st.params : p.phys_use > n, NEW r \in ParamRegs,
         \A b \in VRegs : LI[b].first_def # n,
         NEW st2, st2 = ActivateParam(st, r, n)
  PROVE  st2 \in ScanStates /\ Good(st2, n, n)
<1>1. st2 \in ScanStates /\ Good(st2, n - 1, n)
  <2>1. CASE st2 = st
    BY <2>1
  <2>2. CASE st2 # st
    <3>1. st.queue[r] # <<>> /\ Head(st.queue[r]).first_def = n
      BY <2>2 DEF ActivateParam
    <3>2. st2 = [st EXCEPT !.free = @ \ {r}, !.params = @ \cup {Head(st.queue[r])}, !.queue[r] = Tail(@)]
      BY <2>2 DEF ActivateParam
    <3>3. st.queue[r] \in Seq(Entry)
      BY DEF ScanStates
    <3>4. Head(st.queue[r]) \in Entry /\ Tail(st.queue[r]) \in Seq(Entry)
      BY <3>1, <3>3, TailFacts
    <3>5. PICK e, t : e = Head(st.queue[r]) /\ t = Tail(st.queue[r])
      OBVIOUS
    <3>6. st2 = [st EXCEPT !.free = @ \ {r}, !.params = @ \cup {e}, !.queue[r] = t]
      BY <3>2, <3>5
    <3>7. st2 \in ScanStates
      BY ONLY <3>4, <3>5, <3>6, r \in ParamRegs, st \in ScanStates DEF ScanStates
    <3>8. /\ st2.free = st.free \ {r} /\ st2.params = st.params \cup {Head(st.queue[r])}
          /\ st2.queue = [st.queue EXCEPT ![r] = Tail(@)] /\ st2.last = st.last
          /\ st2.spilled = st.spilled /\ st2.active = st.active
          /\ st2.assigned = st.assigned /\ st2.parent = st.parent /\ st2.child = st.child
      BY ONLY <3>5, <3>6, st \in ScanStates DEF ScanStates
    <3>9. Good(st2, n - 1, n)
      BY ONLY IntervalTypes, n \in Nat, st \in ScanStates, Good(st, n - 1, n), Fresh(st, n), r \in ParamRegs,
              \A p \in st.params : p.phys_use > n, <3>1, <3>8, ParamComes
    <3> QED
      BY <3>7, <3>9
  <2> QED
    BY <2>1, <2>2
<1> QED
  BY <1>1, NothingNew

(* One instruction: the intervals that end are retired, the operand that is written and
   those that are read get their registers. *)
LEMMA InsnKeeps ==
  ASSUME IntervalsRight, mode # "all", NEW n \in 1 .. Len(insns), WellWrittenAt(n),
         NEW st, st \in ScanStates, Good(st, n - 1, n - 1),
         NEW st2, st2 = AssignPhysRegsForInsn(RetireFromActive(st, n), n)
  PROVE  st2 \in ScanStates /\ Good(st2, n, n)
<1>1. n \in Nat /\ n > 0 /\ IntervalTypes /\ insns[n].uses \in Seq(Nat)
  BY DEF IntervalsRight
<1>2. PICK s : s = RetireFromActive(st, n)
  OBVIOUS
<1>3. /\ s \in ScanStates /\ Good(s, n - 1, n) /\ Fresh(s, n)
      /\ \A p \in s.params : p.phys_use > n
      /\ LeftFree(s, n)
  BY <1>1, <1>2, RetireKeeps
<1>4. \A b \in VRegs : LI[b].first_def = n => b = insns[n].def
  BY <1>1 DEF IntervalsRight
<1>5. DefPart(s, n) \in ScanStates /\ Good(DefPart(s, n), n, n)
  <2>1. CASE IsVirtual(insns[n].def)
    <3>1. PICK v : v = insns[n].def
      OBVIOUS
    <3>2. v \in VRegs /\ LI[v].first_def \in 1 .. n /\ LI[v].last_use >= n
      BY <2>1, <3>1 DEF IntervalsRight
    <3>3. LI[v].last_use > n \/ \A h \in VRegs : ~InHole(v, h)
      BY <2>1, <3>1 DEF WellWrittenAt
    <3>4. LI[v].last_use = n /\ v \notin s.spilled /\ LI[v].first_def < n =>
            s.assigned[v] \in s.free /\ s.parent[v] = 0
      <4>1. LI[v].first_def < n => Started(v, n - 1)
        BY <3>2 DEF Started
      <4>2. LI[v].last_use = n => ~(LI[v].last_use > n)
        BY <1>1
      <4> QED
        BY <1>3, <3>2, <3>3, <4>1, <4>2 DEF LeftFree
    <3>5. \A b \in VRegs : LI[b].first_def = n => b = v
      BY <1>4, <3>1
    <3>6. PICK s2 : s2 = AssignDef(s, v, n)
      OBVIOUS
    <3>7. s2 \in ScanStates /\ Good(s2, n, n)
      BY ONLY mode # "all", <1>1, <1>3, <3>2, <3>3, <3>4, <3>5, <3>6, AssignDefFacts
    <3> QED
      BY <2>1, <3>1, <3>6, <3>7 DEF DefPart
  <2>2. CASE ~IsVirtual(insns[n].def)
    <3>1. \A b \in VRegs : LI[b].first_def # n
      BY <1>4, <2>2, VirtualRegisters
    <3>2. CASE IsParam(insns[n].def)
      <4>1. DefPart(s, n) = ActivateParam(s, insns[n].def, n) /\ insns[n].def \in ParamRegs
        BY <2>2, <3>2 DEF DefPart, IsParam
      <4> QED
        BY ONLY <1>1, <1>3, <3>1, <4>1, ActivateParamFacts
    <3>3. CASE ~IsParam(insns[n].def)
      <4>1. DefPart(s, n) = s
        BY <2>2, <3>3 DEF DefPart
      <4> QED
        BY <1>1, <1>3, <3>1, <4>1, NothingNew
    <3> QED
      BY <3>2, <3>3
  <2> QED
    BY <2>1, <2>2
<1>6. PICK T : T = {t \in ScanStates : Good(t, n, n)}
  OBVIOUS
<1>7. \A u \in Range(insns[n].uses) : \A t \in T : AssignUse(t, u, n) \in T
  BY <1>6, AssignUseFacts
<1>8. DefPart(s, n) \in T
  BY <1>5, <1>6
<1>9. AssignPhysRegsForInsn(s, n) \in T
  BY ONLY <1>1, <1>7, <1>8, UsesKeep
<1> QED
  BY <1>2, <1>6, <1>9

\* Where everything is spilled nothing is active.
SpillsAll == {t \in ScanStates : t.active = {} /\ LastTypes(t)}

LEMMA SpillsOne ==
  ASSUME NEW t, t \in SpillsAll, NEW v \in VRegs
  PROVE  SetOperandSpill(t, v) \in SpillsAll
<1>1. PICK s : s = SetOperandSpill(t, v)
  OBVIOUS
<1>2. s = [t EXCEPT !.spilled = @ \cup {v}] /\ t \in ScanStates /\ t.active = {}
  BY <1>1 DEF SetOperandSpill, SpillsAll
<1>3. s \in ScanStates /\ s.active = t.active /\ s.last = t.last
  BY ONLY <1>2, v \in VRegs DEF ScanStates
<1> QED
  BY <1>1, <1>2, <1>3 DEF SpillsAll, LastTypes

LEMMA AllKeeps ==
  ASSUME IntervalsRight, mode = "all", NEW n \in 1 .. Len(insns), NEW st, st \in SpillsAll,
         NEW st2, st2 = AssignPhysRegsForInsn(RetireFromActive(st, n), n)
  PROVE  st2 \in SpillsAll
<1>1. IntervalTypes /\ insns[n].uses \in Seq(Nat)
  BY DEF IntervalsRight
<1>2. RetireFromActive(st, n) = st
  BY DEF RetireFromActive
<1>3. ASSUME NEW t, t \in SpillsAll, NEW v \in VRegs
      PROVE  AssignPhysRegs(t, v, n).st = t /\ ~AssignPhysRegs(t, v, n).got
  BY DEF AssignPhysRegs
<1>4. DefPart(st, n) \in SpillsAll
  <2>1. CASE IsVirtual(insns[n].def)
    <3>1. PICK v : v = insns[n].def
      OBVIOUS
    <3>2. v \in VRegs
      BY <2>1, <3>1 DEF IntervalsRight
    <3>3. PICK held : held = InsertParamToActive(st, v)
      OBVIOUS
    <3>4. held \in SpillsAll
      BY <3>3, InsertTypes DEF SpillsAll
    <3>5. DefPart(st, n) = HandleSpillForInsn(held, v, n)
      BY <1>3, <2>1, <3>1, <3>2, <3>3, <3>4 DEF DefPart, AssignDef
    <3>6. FindLowestPrioInActive(held.active) = {}
      BY <3>4 DEF SpillsAll, FindLowestPrioInActive
    <3>7. HandleSpillForInsn(held, v, n) = SetOperandSpill(held, v)
      BY <3>6 DEF HandleSpillForInsn
    <3> QED
      BY <3>2, <3>4, <3>5, <3>7, SpillsOne
  <2>2. CASE ~IsVirtual(insns[n].def)
    BY <2>2 DEF DefPart, ActivateParam
  <2> QED
    BY <2>1, <2>2
<1>5. ASSUME NEW u \in Range(insns[n].uses), NEW t \in SpillsAll
      PROVE  AssignUse(t, u, n) \in SpillsAll
  <2>1. CASE IsVirtual(u)
    <3>1. u \in VRegs
      BY <2>1 DEF IntervalsRight
    <3>2. AssignUse(t, u, n) = SetOperandSpill(t, u)
      BY <1>3, <2>1, <3>1 DEF AssignUse
    <3> QED
      BY <3>1, <3>2, SpillsOne
  <2>2. CASE ~IsVirtual(u)
    BY <2>2 DEF AssignUse
  <2> QED
    BY <2>1, <2>2
<1>6. PICK T : T = SpillsAll
  OBVIOUS
<1>7. AssignPhysRegsForInsn(st, n) \in T
  BY ONLY <1>1, <1>4, <1>5, <1>6, UsesKeep
<1> QED
  BY <1>2, <1>6, <1>7

LEMMA GoodLast ==
  ASSUME NEW st, st \in ScanStates, NEW m, NEW n, Good(st, m, n)
  PROVE  LastTypes(st)
<1> SUFFICES ASSUME NEW r \in ParamRegs PROVE Len(st.last[r]) <= 1
  BY DEF LastTypes
<1>1. st.last[r] # <<>> => Len(st.last[r]) = 1
  BY DEF Good, ParamInv, AsideInv
<1>2. st.last[r] = <<>> => Len(st.last[r]) = 0
  OBVIOUS
<1>3. PICK k : k = Len(st.last[r])
  OBVIOUS
<1>4. k = 0 \/ k = 1
  BY <1>1, <1>2, <1>3
<1>5. k <= 1
  BY ONLY <1>4
<1> QED
  BY <1>3, <1>5

(* What the first phases leave: the intervals are right, and those of a parameter register
   follow one another. *)
PoolRight ==
  /\ IntervalsRight
  /\ \A r \in ParamRegs : queue[r] \in Seq(Entries(r)) /\ InSequence(queue[r])
  /\ queue = [r \in ParamRegs |-> queue[r]]
  /\ spilled \subseteq VRegs

\* The first state of the scan.
LEMMA FirstState ==
  ASSUME PoolRight,
         NEW st, st = [free     |-> ParamRegs \cup CallerRegs \cup CalleeRegs,
                       assigned |-> [v \in VRegs |-> 0],
                       spilled  |-> spilled,
                       save     |-> {},
                       parent   |-> [v \in VRegs |-> 0],
                       child    |-> [v \in VRegs |-> 0],
                       active   |-> {},
                       params   |-> {},
                       queue    |-> queue,
                       last     |-> [r \in ParamRegs |-> <<>>],
                       cnt      |-> [r \in CalleeRegs |-> 0]]
  PROVE  st \in SpillsAll /\ Good(st, 0, 0)
<1>1. /\ st.free = Pool /\ st.assigned = [v \in VRegs |-> 0] /\ st.spilled = spilled /\ st.save = {}
      /\ st.parent = [v \in VRegs |-> 0] /\ st.child = [v \in VRegs |-> 0] /\ st.active = {}
      /\ st.params = {} /\ st.queue = queue /\ st.last = [r \in ParamRegs |-> <<>>]
      /\ st.cnt = [r \in CalleeRegs |-> 0]
  BY DEF Pool
<1>2. \A r \in ParamRegs : Seq(Entries(r)) \subseteq Seq(Entry)
  <2> SUFFICES ASSUME NEW r \in ParamRegs PROVE Seq(Entries(r)) \subseteq Seq(Entry)
    OBVIOUS
  <2>1. Entries(r) \subseteq Entry
    BY DEF Entry
  <2> QED
    BY <2>1
<1>3. queue \in [ParamRegs -> Seq(Entry)] /\ spilled \subseteq VRegs
  BY <1>2 DEF PoolRight
<1>4. st \in ScanStates
  <2>1. \A e : e \in [ParamRegs -> Seq(Entry)] => e \in [ParamRegs -> Seq(Entry)]
    OBVIOUS
  <2>2. <<>> \in Seq(Entry)
    OBVIOUS
  <2>3. [r \in ParamRegs |-> <<>>] \in [ParamRegs -> Seq(Entry)]
    BY <2>2
  <2>4. [v \in VRegs |-> 0] \in [VRegs -> VRegs \cup {0}] /\ [v \in VRegs |-> 0] \in [VRegs -> Pool \cup {0}]
    OBVIOUS
  <2>5. [r \in CalleeRegs |-> 0] \in [CalleeRegs -> Nat]
    OBVIOUS
  <2>6. ParamRegs \cup CallerRegs \cup CalleeRegs = Pool
    BY DEF Pool
  <2> QED
    BY <1>3, <2>3, <2>4, <2>5, <2>6 DEF ScanStates
<1>5. \A r \in ParamRegs : st.last[r] = <<>>
  BY <1>1
<1>6. \A n, b, r : ~Holds(st, n, b, r)
  BY <1>1 DEF Holds
<1>7. \A b \in VRegs : ~Started(b, 0)
  BY DEF PoolRight, IntervalsRight, IntervalTypes, Started
<1>8. ActiveInv(st, 0, 0)
  BY <1>1, <1>7 DEF ActiveInv
<1>9. HeldInv(st, 0) /\ EndedInv(st, 0) /\ NestInv(st, 0)
  BY <1>1, <1>6 DEF HeldInv, EndedInv, NestInv, Share
<1>10. QueueInv(st)
  <2> SUFFICES ASSUME NEW r \in ParamRegs
               PROVE  st.last[r] \o st.queue[r] \in Seq(Entries(r)) /\ InSequence(st.last[r] \o st.queue[r])
    BY DEF QueueInv
  <2>1. queue[r] \in Seq(Entries(r)) /\ InSequence(queue[r])
    BY DEF PoolRight
  <2>2. st.last[r] \o st.queue[r] = queue[r]
    BY <1>1, <1>5, <2>1, EmptyJoined
  <2> QED
    BY <2>1, <2>2
<1>11. ParamInv(st, 0)
  BY <1>1, <1>5, <1>6, <1>10 DEF ParamInv, AsideInv, ComeInv, NextInv
<1>12. Accounted(st)
  BY <1>1 DEF Accounted
<1>13. Good(st, 0, 0)
  BY <1>8, <1>9, <1>11, <1>12 DEF Good
<1> QED
  BY <1>1, <1>4, <1>13, GoodLast DEF SpillsAll

(* Every block but the first was found by the search from a predecessor, over an edge that does
   not close a loop. *)
EnterInv ==
  /\ phase # "live" =>
       \A b \in visited \cup Range(dfs_bbs) :
         b = 1 \/ \E p \in visited : b \in Succs(p) /\ b \notin loop_succs[p]
  /\ phase \notin {"live", "loop"} => visited = Blocks

LEMMA EnterSearch ==
  ASSUME OrderInv, EnterInv, FindBackEdge
  PROVE  EnterInv'
<1>1. PICK bb, seen, mine :
         bb = Last(dfs_bbs) /\ seen = visited \cup {bb} /\ mine = IF level[bb] = 0 THEN 1 ELSE level[bb]
  OBVIOUS
<1>2. PICK new, full, stack :
         new = Unseen(bb, seen) /\ full = Front(dfs_bbs) \o new /\ stack = Unvisited(full, seen)
  OBVIOUS
<1>3. PICK lv : lv = [b \in Blocks |-> IF b \in Range(new) THEN mine + 1 ELSE IF b = bb THEN mine ELSE level[b]]
  OBVIOUS
<1>4. PICK back : back = {s \in Succs(bb) \cap seen : lv[s] # 0 /\ mine >= lv[s]}
  OBVIOUS
<1>5. /\ phase = "loop" /\ dfs_bbs # <<>> /\ visited' = seen /\ dfs_bbs' = stack
      /\ loop_succs' = [loop_succs EXCEPT ![bb] = back]
      /\ prog' = prog /\ phase' = phase
  BY <1>1, <1>2, <1>3, <1>4, Zenon DEF FindBackEdge
<1>6. prog \in Programs /\ SearchHolds
  BY <1>5 DEF OrderInv
<1>7. dfs_bbs \in Seq(Blocks) /\ bb \notin visited /\ visited \subseteq Blocks /\ bb = dfs_bbs[Len(dfs_bbs)]
  <2>1. bb = dfs_bbs[Len(dfs_bbs)]
    BY <1>1 DEF Last
  <2>2. CASE Unstarted(visited, level, parent, loop_succs, dfs_bbs)
    <3>1. <<1>> \in Seq(Blocks)
      BY CgAnalysesAssumption
    <3> QED
      BY <2>1, <2>2, <3>1 DEF Unstarted
  <2>3. CASE SearchInv(visited, level, parent, loop_succs, dfs_bbs) /\ TopInv(visited, level, dfs_bbs)
    BY <1>5, <2>1, <2>3 DEF SearchInv, SearchTypes, TopInv
  <2> QED
    BY <1>6, <2>2, <2>3 DEF SearchHolds
<1>8. Len(dfs_bbs) \in Nat /\ Len(dfs_bbs) > 0
  BY <1>5, <1>7, EmptySeq, LenProperties
<1>9. bb \in Blocks /\ bb \in Range(dfs_bbs)
  BY <1>7, <1>8, RangeFacts
<1>10. new \in Seq(Blocks) /\ \A x : x \in Range(new) <=> x \in Succs(bb) \ seen
  BY <1>2, <1>6, <1>9, UnseenFacts
<1>11. Range(stack) \subseteq Range(dfs_bbs) \cup Range(new)
  <2>1. Front(dfs_bbs) = SubSeq(dfs_bbs, 1, Len(dfs_bbs) - 1)
    BY DEF Front
  <2>2. Front(dfs_bbs) \in Seq(Blocks) /\ Range(Front(dfs_bbs)) \subseteq Range(dfs_bbs)
    <3>1. Len(dfs_bbs) - 1 \in 0 .. Len(dfs_bbs)
      BY <1>8
    <3> QED
      BY ONLY <1>7, <2>1, <3>1, CutFacts
  <2>3. full \in Seq(Blocks) /\ Range(full) \subseteq Range(dfs_bbs) \cup Range(new)
    BY <1>2, <1>10, <2>2, JoinedFacts
  <2>4. Range(stack) \subseteq Range(full)
    <3>1. /\ stack \in Seq(Blocks) /\ Len(stack) \in 0 .. Len(full)
          /\ \A i \in 1 .. Len(stack) : stack[i] = full[i]
      <4>1. /\ Unvisited(full, seen) \in Seq(Blocks) /\ Len(Unvisited(full, seen)) \in 0 .. Len(full)
            /\ \A i \in 1 .. Len(Unvisited(full, seen)) : Unvisited(full, seen)[i] = full[i]
        BY ONLY <2>3, UnvisitedFacts
      <4> QED
        BY ONLY <1>2, <4>1
    <3>2. Len(full) \in Nat /\ \A i \in 1 .. Len(full) : full[i] \in Range(full)
      BY <2>3, LenProperties, RangeFacts
    <3>3. \A x \in Range(stack) : \E i \in 1 .. Len(stack) : stack[i] = x
      BY <3>1, RangeFacts
    <3> QED
      BY <3>1, <3>2, <3>3
  <2> QED
    BY <2>3, <2>4
<1>12. \A p : Succs(p)' = Succs(p)
  BY <1>5, GraphStays
<1>13. \A p \in visited : loop_succs'[p] = loop_succs[p]
  BY <1>5, <1>7
<1>14. loop_succs'[bb] \subseteq seen
  <2>1. loop_succs \in [Blocks -> SUBSET Blocks]
    BY <1>6 DEF SearchHolds, Unstarted, SearchInv, SearchTypes
  <2> QED
    BY <1>4, <1>5, <1>9, <2>1
<1>15. ASSUME NEW b \in seen \cup Range(stack), b # 1
       PROVE  \E p \in seen : b \in Succs(p) /\ b \notin loop_succs'[p]
  <2>1. CASE b \in visited \cup Range(dfs_bbs)
    <3>1. PICK p \in visited : b \in Succs(p) /\ b \notin loop_succs[p]
      BY <1>5, <1>15, <2>1 DEF EnterInv
    <3> QED
      BY <1>1, <1>13, <3>1
  <2>2. CASE b \notin visited \cup Range(dfs_bbs)
    <3>1. b \in Range(new)
      BY <1>1, <1>9, <1>11, <1>15, <2>2
    <3>2. b \in Succs(bb) /\ b \notin seen
      BY <1>10, <3>1
    <3> QED
      BY <1>1, <1>14, <3>2
  <2> QED
    BY <2>1, <2>2
<1> QED
  BY <1>5, <1>12, <1>15 DEF EnterInv

\* Every step.
LEMMA EnterInvNext ==
  ASSUME OrderInv, EnterInv, [Next]_vars
  PROVE  EnterInv'
<1>1. CASE FindBackEdge
  BY <1>1, EnterSearch
<1>2. CASE StartOrder
  <2>1. /\ phase = "loop" /\ dfs_bbs = <<>> /\ prog' = prog /\ UNCHANGED loopVars
    BY <1>2 DEF StartOrder, AnalysesDone
  <2>2. visited = Blocks
    BY <2>1, SearchEnds DEF OrderInv
  <2>3. \A p : Succs(p)' = Succs(p)
    BY <2>1, GraphStays
  <2> QED
    BY <2>1, <2>2, <2>3 DEF EnterInv, loopVars
<1>3. CASE NextIteration
  <2>1. prog' = prog /\ UNCHANGED loopVars /\ phase = "live" /\ (phase' = phase \/ phase' = "loop")
    BY <1>3, Zenon DEF NextIteration
  <2>2. Unstarted(visited, level, parent, loop_succs, dfs_bbs)
    BY <2>1 DEF OrderInv
  <2>3. visited' = {} /\ dfs_bbs' = <<1>>
    BY <2>1, <2>2 DEF Unstarted, loopVars
  <2>4. \A x : x \in Range(<<1>>) <=> x = 1
    BY SingleFacts, 1 \in Nat
  <2> QED
    BY <2>1, <2>3, <2>4 DEF EnterInv
<1>4. ASSUME prog' = prog, UNCHANGED loopVars,
             phase' = "live" \/ phase' = phase \/ (phase \notin {"live", "loop"} /\ phase' \notin {"live", "loop"})
      PROVE  EnterInv'
  <2>1. \A p : Succs(p)' = Succs(p)
    BY <1>4, GraphStays
  <2> QED
    BY <1>4, <2>1 DEF EnterInv, loopVars
<1>5. CASE AnalysisLive
  BY <1>4, <1>5, Zenon DEF AnalysisLive
<1>6. CASE StartBFS
  BY <1>4, <1>6, Zenon DEF StartBFS
<1>7. CASE BFSStep
  BY <1>4, <1>7, Zenon DEF BFSStep
<1>8. CASE NextSweep
  <2>1. prog' = prog /\ UNCHANGED loopVars /\ phase = "order" /\ phase' \in {"order", "exit", "intervals"}
    BY <1>8 DEF NextSweep
  <2> QED
    BY <1>4, <2>1
<1>9. CASE ComputeLiveInterval
  BY <1>4, <1>9, Zenon DEF ComputeLiveInterval
<1>10. CASE BuildIntervalRanges
  <2>1. prog' = prog /\ UNCHANGED loopVars /\ phase = "intervals" /\ phase' = "pool"
    BY <1>10, Zenon DEF BuildIntervalRanges
  <2> QED
    BY <1>4, <2>1
<1>11. CASE InitFreeRegPool
  <2>1. prog' = prog /\ UNCHANGED loopVars /\ phase = "pool" /\ phase' = "allocate"
    BY <1>11, Zenon DEF InitFreeRegPool
  <2> QED
    BY <1>4, <2>1
<1>12. CASE AllocateInsn
  BY <1>4, <1>12, Zenon DEF AllocateInsn
<1>13. CASE StartFinalize
  <2>1. prog' = prog /\ UNCHANGED loopVars /\ phase = "allocate" /\ phase' = "finalize"
    BY <1>13, Zenon DEF StartFinalize
  <2> QED
    BY <1>4, <2>1
<1>14. CASE FinalizeInsn
  BY <1>4, <1>14, Zenon DEF FinalizeInsn
<1>15. CASE StartRun
  <2>1. prog' = prog /\ UNCHANGED loopVars /\ phase = "finalize" /\ phase' = "run"
    BY <1>15, Zenon DEF StartRun
  <2> QED
    BY <1>4, <2>1
<1>16. CASE RunBlock
  BY <1>4, <1>16, Zenon DEF RunBlock
<1>17. CASE UNCHANGED vars
  BY <1>4, <1>17 DEF vars
<1> QED
  BY <1>1, <1>2, <1>3, <1>5, <1>6, <1>7, <1>8, <1>9, <1>10, <1>11, <1>12, <1>13, <1>14, <1>15,
     <1>16, <1>17, Zenon DEF Next, NextIntervals, NextAnalyses

(* A register that is read in a block before the block writes it is in use. *)
LEMMA UseFirst ==
  ASSUME prog \in Programs, NEW b \in Blocks, NEW k \in 1 .. Len(Code(b)),
         NEW v \in Range(Code(b)[k].uses), \A i \in 1 .. k - 1 : v \notin Defs(Code(b)[i])
  PROVE  v \in DefUse(b).use
<1> DEFINE c == Code(b)
           n == Len(c)
           F == CHOOSE f : Collected(c, 1, f)
<1>1. c \in Seq(Instruction)
  BY CgAnalysesAssumption DEF Code
<1>2. n \in Nat
  BY <1>1, LenProperties
<1>3. DefUse(b) = F[1]
  BY DEF DefUse, Collected, CollectedOne
<1>4. k \in 1 .. n /\ v \in Range(c[k].uses) /\ \A i \in 1 .. k - 1 : v \notin Defs(c[i])
  OBVIOUS
<1> HIDE DEF c, n, F
<1>5. Collected(c, 1, F)
  BY <1>2, CollectedExists, Zenon DEF F, n
<1>6. \A i \in 1 .. n + 1 : F[i] = IF i = n + 1 THEN [use |-> {}, def |-> {}]
                                   ELSE CollectedOne(c[i], F[i + 1])
  BY <1>5 DEF Collected, n
<1>7. \A i \in 1 .. n : F[i].use = (F[i + 1].use \ Defs(c[i])) \cup Range(c[i].uses)
  <2> SUFFICES ASSUME NEW i \in 1 .. n PROVE F[i].use = (F[i + 1].use \ Defs(c[i])) \cup Range(c[i].uses)
    OBVIOUS
  <2>1. i \in 1 .. n + 1 /\ i # n + 1
    BY <1>2
  <2>2. F[i] = CollectedOne(c[i], F[i + 1])
    BY <1>6, <2>1
  <2> QED
    BY <2>2 DEF CollectedOne
<1> DEFINE T == {j \in 0 .. k - 1 : v \in F[k - j].use}
<1>8. 0 \in T
  <2>1. k - 0 = k
    BY <1>2, <1>4
  <2> QED
    BY <1>2, <1>4, <1>7, <2>1
<1>9. ASSUME NEW j \in 1 .. k - 1, j - 1 \in T PROVE j \in T
  <2>1. k - j \in 1 .. k - 1 /\ k - j \in 1 .. n /\ (k - j) + 1 = k - (j - 1) /\ j \in 0 .. k - 1
    BY <1>2, <1>4
  <2>2. v \in F[(k - j) + 1].use
    BY <1>9, <2>1
  <2> QED
    BY <1>4, <1>7, <2>1, <2>2
<1> HIDE DEF T
<1>10. k - 1 \in T
  <2>1. k - 1 \in Nat
    BY <1>2, <1>4
  <2>2. 0 .. k - 1 \subseteq T
    BY ONLY <1>8, <1>9, <2>1, UpToInduction
  <2> QED
    BY <2>1, <2>2
<1> QED
  <2>1. k - (k - 1) = 1
    BY <1>2, <1>4
  <2> QED
    BY <1>3, <1>10, <2>1 DEF T

\* livein has a set of registers for every block.
LiveTypes == livein \in [Blocks -> SUBSET Regs]

LEMMA LiveTypesNext ==
  ASSUME LiveInv, LiveInv', LiveTypes, [Next]_vars
  PROVE  LiveTypes'
<1>1. CASE AnalysisLive
  <2>1. phase' = "live"
    BY <1>1, Zenon DEF AnalysisLive
  <2> QED
    BY <2>1 DEF LiveInv, LiveTypeOK, LiveTypes
<1>2. ASSUME prog' = prog, livein' = livein
      PROVE  LiveTypes'
  BY <1>2, ProgramStays DEF LiveTypes
<1>3. CASE NextIteration
  BY <1>2, <1>3, Zenon DEF NextIteration
<1>4. CASE FindBackEdge
  BY <1>2, <1>4, Zenon DEF FindBackEdge, liveVars
<1>5. CASE StartOrder \/ StartBFS
  BY <1>2, <1>5, Zenon DEF StartOrder, StartBFS, liveVars
<1>6. CASE BFSStep
  BY <1>2, <1>6, Zenon DEF BFSStep, liveVars
<1>7. CASE NextSweep
  BY <1>2, <1>7, Zenon DEF NextSweep, liveVars
<1>8. CASE ComputeLiveInterval
  BY <1>2, <1>8, Zenon DEF ComputeLiveInterval, liveVars
<1>9. CASE BuildIntervalRanges
  BY <1>2, <1>9, Zenon DEF BuildIntervalRanges, liveVars
<1>10. CASE InitFreeRegPool \/ AllocateInsn
  BY <1>2, <1>10, Zenon DEF InitFreeRegPool, AllocateInsn, liveVars
<1>11. CASE StartFinalize \/ StartRun
  BY <1>2, <1>11, Zenon DEF StartFinalize, StartRun, liveVars
<1>12. CASE FinalizeInsn
  BY <1>2, <1>12, Zenon DEF FinalizeInsn, liveVars
<1>13. CASE RunBlock
  BY <1>2, <1>13, Zenon DEF RunBlock, liveVars
<1>14. CASE UNCHANGED vars
  BY <1>2, <1>14 DEF vars, liveVars
<1> QED
  BY <1>1, <1>3, <1>4, <1>5, <1>6, <1>7, <1>8, <1>9, <1>10, <1>11, <1>12, <1>13, <1>14,
     Zenon DEF Next, NextIntervals, NextAnalyses

\* v is written in one of the first j blocks of the order.
WrittenBy(j, v) == \E i \in 1 .. j : \E insn \in Range(Code(sorted_bbs[i])) : v \in Defs(insn)

\* What is known of the analyses when the intervals are computed.
Analysed ==
  /\ prog \in Programs /\ LivenessIsExact /\ LiveTypes
  /\ Ordered(sorted_bbs, <<>>, Blocks) /\ OnCycle(loop_succs)
  /\ \A b \in Blocks : b = 1 \/ \E p \in Blocks : b \in Succs(p) /\ b \notin loop_succs[p]
  /\ phase = "intervals"

LEMMA AnalysedFacts ==
  ASSUME LiveInv, OrderInv, EnterInv, LiveTypes, phase = "intervals"
  PROVE  Analysed
<1>1. visited = Blocks
  BY DEF EnterInv
<1>2. \A b \in Blocks : b = 1 \/ \E p \in Blocks : b \in Succs(p) /\ b \notin loop_succs[p]
  BY <1>1 DEF EnterInv
<1>3. Ordered(sorted_bbs, <<>>, Blocks) /\ OnCycle(loop_succs)
  BY DEF OrderInv, LoopsFound
<1> QED
  BY <1>2, <1>3 DEF LiveInv, Analysed

\* What is live somewhere is in livein wherever it is live.
LEMMA LiveIn ==
  ASSUME Analysed, NEW v, NEW b \in Blocks,
         (\E a \in Blocks : v \in livein[a]) \/ (\E a \in Blocks : v \in DefUse(a).use)
  PROVE  v \in livein[b] <=> b \in LiveAtStart(v)
<1>1. v \in (UNION Range(livein)) \cup UNION {DefUse(a).use : a \in Blocks}
  <2>1. CASE \E a \in Blocks : v \in livein[a]
    <3>1. \A a \in Blocks : livein[a] \in Range(livein)
      BY DEF Analysed, LiveTypes, Range
    <3> QED
      BY <2>1, <3>1
  <2> QED
    BY <2>1
<1>2. {a \in Blocks : v \in livein[a]} = LiveAtStart(v)
  BY <1>1 DEF Analysed, LivenessIsExact
<1> QED
  BY <1>2

LEMMA WrittenBefore ==
  ASSUME Analysed, NEW v, v \notin livein[1],
         NEW j \in 1 .. Len(sorted_bbs), v \in livein[sorted_bbs[j]]
  PROVE  WrittenBy(j - 1, v)
<1> PICK so : so = sorted_bbs
  OBVIOUS
<1>1. /\ prog \in Programs /\ so \in Seq(Blocks) /\ Distinct(so) /\ Range(so) = Blocks
      /\ Len(so) \in Nat /\ \A i \in 1 .. Len(so) : so[i] \in Blocks
  <2>1. so \in Seq(Blocks) /\ Distinct(so) /\ Blocks = Range(so) \cup Range(<<>>)
    BY DEF Ordered, Analysed
  <2>2. Range(<<>>) = {}
    BY EmptyFacts
  <2> QED
    BY <2>1, <2>2, LenProperties, RangeFacts DEF Analysed
<1>2. \A i, k \in 1 .. Len(so) :
        so[k] \in Succs(so[i]) /\ so[k] \notin loop_succs[so[i]] => i < k
  <2>1. DOMAIN so = 1 .. Len(so)
    BY <1>1, LenProperties
  <2>2. Ordered(so, <<>>, Blocks) /\ OnCycle(loop_succs)
    BY DEF Analysed
  <2> QED
    BY ONLY <2>1, <2>2, OrderedPlaces
<1> DEFINE T == {k \in 1 .. Len(so) : v \in livein[so[k]] /\ ~WrittenBy(k - 1, v)}
<1>3. SUFFICES ASSUME T # {} PROVE FALSE
  OBVIOUS
<1>4. T \subseteq Nat
  BY <1>1
<1>5. PICK k \in T : \A m \in T : k <= m
  BY ONLY <1>3, <1>4, LeastNat
<1>6. PICK b : b = so[k] /\ b \in Blocks
  BY <1>1
<1>7. b # 1 /\ v \in livein[b]
  BY <1>5, <1>6
<1>8. PICK p \in Blocks : b \in Succs(p) /\ b \notin loop_succs[p]
  BY <1>6, <1>7 DEF Analysed
<1>9. PICK i \in 1 .. Len(so) : so[i] = p
  BY <1>1, RangeFacts
<1>10. i < k
  BY <1>2, <1>5, <1>6, <1>8, <1>9
<1>11. i \in 1 .. k - 1
  BY <1>1, <1>10
<1>12. CASE v \in DefUse(p).def
  <2>1. \E insn \in Range(Code(p)) : v \in Defs(insn)
    BY <1>1, <1>12, DefUseFacts
  <2>2. WrittenBy(k - 1, v)
    BY <1>9, <1>11, <2>1 DEF WrittenBy
  <2> QED
    BY <1>5, <2>2
<1>13. CASE v \notin DefUse(p).def
  <2>1. b \in LiveAtStart(v)
    BY <1>6, <1>7, LiveIn
  <2>2. p \in LiveAtStart(v)
    BY <1>1, <1>8, <1>13, <2>1, LiveFacts
  <2>3. v \in livein[p]
    BY <1>6, <1>7, <2>2, LiveIn
  <2>4. i \notin T
    BY <1>1, <1>5, <1>10
  <2>5. WrittenBy(i - 1, v)
    BY <1>9, <2>3, <2>4
  <2>6. \A m \in 1 .. i - 1 : m \in 1 .. k - 1
    BY <1>1, <1>10
  <2>7. WrittenBy(k - 1, v)
    BY <2>5, <2>6 DEF WrittenBy
  <2> QED
    BY <1>5, <2>7
<1> QED
  BY <1>12, <1>13

\* What goes out of a block has been written in it or before, and so has what it reads.
LEMMA WrittenOut ==
  ASSUME Analysed, NEW v, v \notin livein[1],
         NEW j \in 1 .. Len(sorted_bbs), v \in liveout[sorted_bbs[j]]
  PROVE  WrittenBy(j, v)
<1> PICK b : b = sorted_bbs[j]
  OBVIOUS
<1>1. prog \in Programs /\ sorted_bbs \in Seq(Blocks) /\ b \in Blocks /\ Len(sorted_bbs) \in Nat
  <2>1. sorted_bbs \in Seq(Blocks)
    BY DEF Ordered, Analysed
  <2> QED
    BY <2>1, LenProperties, RangeFacts DEF Analysed
<1>2. PICK s \in Succs(b) : v \in livein[s]
  BY <1>1 DEF Analysed, LivenessIsExact
<1>3. s \in Blocks
  BY <1>1, <1>2, ProgramFacts
<1>4. s \in LiveAtStart(v)
  BY <1>2, <1>3, LiveIn
<1>5. CASE v \in DefUse(b).def
  <2>1. \E insn \in Range(Code(b)) : v \in Defs(insn)
    BY <1>1, <1>5, DefUseFacts
  <2>2. j \in 1 .. j
    BY <1>1
  <2> QED
    BY <2>1, <2>2 DEF WrittenBy
<1>6. CASE v \notin DefUse(b).def
  <2>1. b \in LiveAtStart(v)
    BY <1>1, <1>4, <1>6, LiveFacts
  <2>2. v \in livein[b]
    BY <1>1, <1>2, <1>3, <2>1, LiveIn
  <2>3. WrittenBy(j - 1, v)
    BY <2>2, WrittenBefore
  <2>4. \A m \in 1 .. j - 1 : m \in 1 .. j
    BY <1>1
  <2> QED
    BY <2>3, <2>4 DEF WrittenBy
<1> QED
  BY <1>5, <1>6

LEMMA WrittenUse ==
  ASSUME Analysed, NEW j \in 1 .. Len(sorted_bbs), NEW k \in 1 .. Len(Code(sorted_bbs[j])),
         NEW v \in Range(Code(sorted_bbs[j])[k].uses), v \notin livein[1]
  PROVE  WrittenBy(j - 1, v) \/ \E i \in 1 .. k - 1 : v \in Defs(Code(sorted_bbs[j])[i])
<1> SUFFICES ASSUME \A i \in 1 .. k - 1 : v \notin Defs(Code(sorted_bbs[j])[i])
             PROVE  WrittenBy(j - 1, v)
  OBVIOUS
<1> PICK b : b = sorted_bbs[j]
  OBVIOUS
<1>1. prog \in Programs /\ b \in Blocks
  <2>1. sorted_bbs \in Seq(Blocks)
    BY DEF Ordered, Analysed
  <2> QED
    BY <2>1, LenProperties, RangeFacts DEF Analysed
<1>2. v \in DefUse(b).use
  BY <1>1, UseFirst
<1>3. b \in LiveAtStart(v)
  BY <1>1, <1>2, LiveFacts
<1>4. v \in livein[b]
  BY <1>1, <1>2, <1>3, LiveIn
<1> QED
  BY <1>4, WrittenBefore

(* The intervals of the virtual registers as they are computed, and what is right of them when the
   first n of the instructions ins have been seen. *)
Interval == [first_def : Nat, last_use : Nat, ref_count : Nat, result_count : Nat,
             multi_use_in_bb : BOOLEAN, holes : {{}}]

IntervalsTo(li, ins, n) ==
  /\ \A v \in VRegs : li[v].first_def # 0 => li[v].first_def \in 1 .. n /\ ins[li[v].first_def].def = v
  /\ \A m \in 1 .. n : IsVirtual(ins[m].def) =>
       ins[m].def \in VRegs /\ li[ins[m].def].first_def \in 1 .. m /\ li[ins[m].def].last_use >= m
  /\ \A m \in 1 .. n : \A u \in Range(ins[m].uses) : IsVirtual(u) => u \in VRegs /\ li[u].last_use >= m

\* The intervals of the parameter registers are in order, and all end at k or before.
QueuesTo(q, k) ==
  \A r \in ParamRegs :
    /\ q[r] \in Seq(Entries(r)) /\ InSequence(q[r])
    /\ \A i \in 1 .. Len(q[r]) : q[r][i].phys_use <= k

SetupStates == [LI : [VRegs -> Interval], queue : [ParamRegs -> Seq(Entry)], used : SUBSET VRegs]

\* No interval ends before n that did not before.
Longer(old, new, n) == \A v \in VRegs : new[v].last_use >= old[v].last_use \/ new[v].last_use >= n

SetUse(q, u, n) == [q EXCEPT ![u][Len(q[u])].phys_use = n]

\* The queue of u when its last interval is used by n.
LEMMA QueueUsed ==
  ASSUME NEW q, q \in [ParamRegs -> Seq(Entry)], NEW n \in Nat, NEW u \in ParamRegs,
         NEW q2, q2 = SetUse(q, u, n), q[u] # <<>>
  PROVE  /\ q2 \in [ParamRegs -> Seq(Entry)]
         /\ \A r \in ParamRegs : r # u => q2[r] = q[r]
         /\ Len(q2[u]) = Len(q[u]) /\ Len(q[u]) \in Nat /\ Len(q[u]) > 0
         /\ \A i \in 1 .. Len(q[u]) - 1 : q2[u][i] = q[u][i]
         /\ q2[u][Len(q[u])].regno = q[u][Len(q[u])].regno
         /\ q2[u][Len(q[u])].first_def = q[u][Len(q[u])].first_def
         /\ q2[u][Len(q[u])].phys_use = n
         /\ \A r : q[u] \in Seq(Entries(r)) => q2[u] \in Seq(Entries(r))
<1>1. PICK s, k : s = q[u] /\ k = Len(s)
  OBVIOUS
<1>2. s \in Seq(Entry) /\ k \in Nat /\ k > 0 /\ k \in 1 .. k
  <2>1. s \in Seq(Entry)
    BY <1>1
  <2>2. k \in Nat /\ k # 0
    BY <1>1, <2>1, EmptySeq, LenProperties
  <2> QED
    BY <2>1, <2>2
<1>3. s \in [1 .. k -> Entry] /\ s[k] \in Entry
  BY <1>1, <1>2, LenProperties
<1>4. PICK e : e = [s[k] EXCEPT !.phys_use = n]
  OBVIOUS
<1>5. PICK t : t = [s EXCEPT ![k] = e]
  OBVIOUS
<1>6. q2 = [q EXCEPT ![u] = t]
  BY <1>1, <1>4, <1>5 DEF SetUse
<1>7. \A r : s[k] \in Entries(r) => e \in Entries(r) /\ e.regno = s[k].regno /\ e.first_def = s[k].first_def /\ e.phys_use = n
  BY <1>4 DEF Entries
<1>8. PICK r0 \in ParamRegs : s[k] \in Entries(r0)
  BY <1>3 DEF Entry
<1>9. e \in Entries(r0) /\ e \in Entry /\ e.regno = s[k].regno /\ e.first_def = s[k].first_def /\ e.phys_use = n
  BY <1>7, <1>8 DEF Entry
<1>10. t \in [1 .. k -> Entry] /\ t[k] = e /\ \A i \in 1 .. k : i # k => t[i] = s[i]
  BY <1>2, <1>3, <1>5, <1>9
<1>11. t \in Seq(Entry) /\ Len(t) = k
  BY <1>2, <1>10, FunctionSeq
<1>12. ASSUME NEW r, s \in Seq(Entries(r)) PROVE t \in Seq(Entries(r))
  <2>1. s \in [1 .. k -> Entries(r)]
    BY <1>1, <1>12, LenProperties
  <2>2. e \in Entries(r)
    BY <1>2, <1>7, <2>1
  <2>3. t \in [1 .. k -> Entries(r)]
    BY <1>5, <2>1, <2>2
  <2> QED
    BY <1>2, <2>3, FunctionSeq
<1>13. q2[u] = t /\ q2 \in [ParamRegs -> Seq(Entry)] /\ \A r \in ParamRegs : r # u => q2[r] = q[r]
  BY <1>6, <1>11
<1>14. \A i \in 1 .. k - 1 : i \in 1 .. k /\ i # k
  BY <1>2
<1>15. /\ Len(t) = Len(s) /\ Len(s) \in Nat /\ Len(s) > 0
       /\ \A i \in 1 .. Len(s) - 1 : t[i] = s[i]
       /\ t[Len(s)].regno = s[Len(s)].regno
       /\ t[Len(s)].first_def = s[Len(s)].first_def /\ t[Len(s)].phys_use = n
  BY ONLY <1>1, <1>2, <1>9, <1>10, <1>11, <1>14
<1> QED
  BY ONLY <1>1, <1>12, <1>13, <1>15

NewEntry(d, n) == [regno |-> d, first_def |-> n, phys_use |-> n]

\* The queue of d with one interval more.
LEMMA QueueDefined ==
  ASSUME NEW q, q \in [ParamRegs -> Seq(Entry)], NEW n \in Nat, NEW d \in ParamRegs, NEW s, s = q[d],
         NEW t, t = Append(s, NewEntry(d, n))
  PROVE  /\ t \in Seq(Entry) /\ Len(t) = Len(s) + 1 /\ Len(s) \in Nat
         /\ \A i \in 1 .. Len(s) : t[i] = s[i]
         /\ t[Len(s) + 1].first_def = n /\ t[Len(s) + 1].phys_use = n
         /\ s \in Seq(Entries(d)) => t \in Seq(Entries(d))
<1>1. PICK e : e = NewEntry(d, n)
  OBVIOUS
<1>2. e \in Entries(d) /\ e.first_def = n /\ e.phys_use = n
  BY <1>1 DEF Entries, NewEntry
<1>3. e \in Entry /\ s \in Seq(Entry) /\ t = Append(s, e)
  BY <1>1, <1>2 DEF Entry
<1>4. Len(s) \in Nat
  BY <1>3, LenProperties
<1>5. t \in Seq(Entry) /\ Len(t) = Len(s) + 1 /\ (\A i \in 1 .. Len(s) : t[i] = s[i]) /\ t[Len(s) + 1] = e
  <2>1. t \in Seq(Entry) /\ Len(t) = Len(s) + 1 /\ (\A i \in 1 .. Len(s) : t[i] = s[i])
    BY <1>3, AppendedFacts
  <2>2. t[Len(s) + 1] = e
    BY <1>3, <1>4
  <2> QED
    BY <2>1, <2>2
<1>6. s \in Seq(Entries(d)) => t \in Seq(Entries(d))
  BY <1>2, <1>3, AppendedFacts
<1> QED
  BY <1>2, <1>4, <1>5, <1>6

\* The queue of r becomes longer, or its last interval does.
QueueGrows(q, q2, r, m, k, k2) ==
  /\ \A p \in ParamRegs : p # r => q2[p] = q[p]
  /\ q2[r] \in Seq(Entries(r))
  /\ Len(q2[r]) = m \/ Len(q2[r]) = m + 1
  /\ Len(q[r]) = m \/ (Len(q[r]) = m + 1 /\ Len(q2[r]) = m + 1)
  /\ \A i \in 1 .. m : q2[r][i] = q[r][i]
  /\ Len(q2[r]) = m + 1 =>
       /\ q2[r][m + 1].phys_use <= k2 /\ q2[r][m + 1].first_def <= q2[r][m + 1].phys_use
       /\ (Len(q[r]) = m + 1 /\ q2[r][m + 1].first_def = q[r][m + 1].first_def) \/ q2[r][m + 1].first_def >= k

LEMMA QueueKeeps ==
  ASSUME NEW q, NEW k \in Nat, QueuesTo(q, k), NEW k2 \in Nat, k <= k2, NEW r \in ParamRegs, NEW q2,
         NEW m \in Nat, QueueGrows(q, q2, r, m, k, k2)
  PROVE  QueuesTo(q2, k2)
<1> USE DEF QueueGrows
<1> SUFFICES ASSUME NEW p \in ParamRegs
             PROVE  /\ q2[p] \in Seq(Entries(p)) /\ InSequence(q2[p])
                    /\ \A i \in 1 .. Len(q2[p]) : q2[p][i].phys_use <= k2
  BY DEF QueuesTo
<1>1. /\ q[p] \in Seq(Entries(p)) /\ InSequence(q[p]) /\ \A i \in 1 .. Len(q[p]) : q[p][i].phys_use <= k
  BY DEF QueuesTo
<1>2. \A i \in 1 .. Len(q[p]) : q[p][i].phys_use \in Nat /\ q[p][i].first_def \in Nat
  <2>1. \A i \in 1 .. Len(q[p]) : q[p][i] \in Entries(p)
    BY <1>1, RangeFacts
  <2> QED
    BY <2>1 DEF Entries
<1>3. CASE p # r
  BY <1>1, <1>2, <1>3
<1>4. CASE p = r
  <2>1. DOMAIN q[r] = 1 .. Len(q[r]) /\ DOMAIN q2[r] = 1 .. Len(q2[r])
    BY <1>1, <1>4, LenProperties
  <2>2. \A i \in 1 .. Len(q2[r]) : q2[r][i].phys_use \in Nat /\ q2[r][i].first_def \in Nat
    <3>1. \A i \in 1 .. Len(q2[r]) : q2[r][i] \in Entries(r)
      BY RangeFacts
    <3> QED
      BY <3>1 DEF Entries
  <2>3. \A i \in 1 .. Len(q2[r]) : i \in 1 .. m \/ (i = m + 1 /\ Len(q2[r]) = m + 1)
    OBVIOUS
  <2>4. \A i \in 1 .. m : i \in 1 .. Len(q[r])
    OBVIOUS
  <2>5. /\ \A i \in 1 .. m : q[r][i].first_def <= q[r][i].phys_use /\ q[r][i].phys_use <= k
        /\ \A i, j \in 1 .. m : i < j => q[r][i].phys_use <= q[r][j].first_def
        /\ Len(q[r]) = m + 1 => \A i \in 1 .. m : q[r][i].phys_use <= q[r][m + 1].first_def
    <3>1. \A i \in 1 .. Len(q[r]) : q[r][i].phys_use <= k
      BY <1>1, <1>4
    <3>2. \A i \in 1 .. Len(q[r]) : q[r][i].first_def <= q[r][i].phys_use
      BY <1>1, <1>4, <2>1 DEF InSequence
    <3>3. \A i, j \in 1 .. Len(q[r]) : i < j => q[r][i].phys_use <= q[r][j].first_def
      BY <1>1, <1>4, <2>1 DEF InSequence
    <3>4. Len(q[r]) = m + 1 => m + 1 \in 1 .. Len(q[r]) /\ \A i \in 1 .. m : i < m + 1
      OBVIOUS
    <3> QED
      BY ONLY <2>4, <3>1, <3>2, <3>3, <3>4
  <2>6. \A i \in 1 .. Len(q2[r]) : q2[r][i].first_def <= q2[r][i].phys_use /\ q2[r][i].phys_use <= k2
    <3> SUFFICES ASSUME NEW i \in 1 .. Len(q2[r])
                 PROVE  q2[r][i].first_def <= q2[r][i].phys_use /\ q2[r][i].phys_use <= k2
      OBVIOUS
    <3>1. CASE i \in 1 .. m
      BY <2>2, <2>5, <3>1
    <3>2. CASE i = m + 1 /\ Len(q2[r]) = m + 1
      BY <3>2
    <3> QED
      BY <2>3, <3>1, <3>2
  <2>7. ASSUME NEW i \in 1 .. Len(q2[r]), NEW j \in 1 .. Len(q2[r]), i < j
        PROVE  q2[r][i].phys_use <= q2[r][j].first_def
    <3>1. i \in 1 .. m
      BY <2>3, <2>7
    <3>2. CASE j \in 1 .. m
      BY <2>5, <2>7, <3>1, <3>2
    <3>3. CASE j = m + 1 /\ Len(q2[r]) = m + 1
      <4>1. q2[r][i] = q[r][i] /\ q[r][i].phys_use <= k
        BY <2>5, <3>1
      <4>2. CASE Len(q[r]) = m + 1 /\ q2[r][m + 1].first_def = q[r][m + 1].first_def
        BY <2>5, <3>1, <3>3, <4>1, <4>2
      <4>3. CASE q2[r][m + 1].first_def >= k
        BY <2>2, <3>3, <4>1, <4>3
      <4> QED
        BY <3>3, <4>2, <4>3
    <3> QED
      BY <2>3, <3>2, <3>3
  <2>8. InSequence(q2[r])
    BY <2>1, <2>6, <2>7 DEF InSequence
  <2> QED
    BY <1>4, <2>6, <2>8
<1> QED
  BY <1>3, <1>4

\* The queues keep their order when instruction n uses a physical register.
LEMMA UsedSame ==
  ASSUME NEW q, q \in [ParamRegs -> Seq(Entry)], NEW n \in Nat, NEW u,
         ~(u \in ParamRegs /\ q[u] # <<>>)
  PROVE  SetUse(q, u, n) = q
<1>1. CASE u \notin ParamRegs
  BY <1>1 DEF SetUse
<1>2. CASE u \in ParamRegs /\ q[u] = <<>>
  <2>1. PICK s, e : s = q[u] /\ e = [s[Len(s)] EXCEPT !.phys_use = n]
    OBVIOUS
  <2>2. SetUse(q, u, n) = [q EXCEPT ![u] = [s EXCEPT ![0] = e]]
    BY <1>2, <2>1, EmptySeq DEF SetUse
  <2>3. [s EXCEPT ![0] = e] = s
    <3>1. s = <<>>
      BY <1>2, <2>1
    <3>2. [<<>> EXCEPT ![0] = e] = <<>>
      OBVIOUS
    <3> QED
      BY <3>1, <3>2
  <2>4. [q EXCEPT ![u] = s] = q
    BY ONLY <2>1, q \in [ParamRegs -> Seq(Entry)]
  <2> QED
    BY ONLY <2>2, <2>3, <2>4
<1> QED
  BY <1>1, <1>2

LEMMA UsedKeeps ==
  ASSUME NEW q, q \in [ParamRegs -> Seq(Entry)], NEW n \in Nat, NEW u
  PROVE  /\ SetUse(q, u, n) \in [ParamRegs -> Seq(Entry)]
         /\ QueuesTo(q, n) => QueuesTo(SetUse(q, u, n), n)
<1>1. CASE ~(u \in ParamRegs /\ q[u] # <<>>)
  BY <1>1, UsedSame
<1>2. CASE u \in ParamRegs /\ q[u] # <<>>
  <2>1. PICK q2 : q2 = SetUse(q, u, n)
    OBVIOUS
  <2>2. /\ q2 \in [ParamRegs -> Seq(Entry)]
        /\ \A r \in ParamRegs : r # u => q2[r] = q[r]
        /\ Len(q2[u]) = Len(q[u]) /\ Len(q[u]) \in Nat /\ Len(q[u]) > 0
        /\ \A i \in 1 .. Len(q[u]) - 1 : q2[u][i] = q[u][i]
        /\ q2[u][Len(q[u])].first_def = q[u][Len(q[u])].first_def
        /\ q2[u][Len(q[u])].phys_use = n
        /\ \A r : q[u] \in Seq(Entries(r)) => q2[u] \in Seq(Entries(r))
    BY <1>2, <2>1, QueueUsed
  <2>3. ASSUME QueuesTo(q, n) PROVE QueuesTo(q2, n)
    <3>1. PICK m : m = Len(q[u]) - 1
      OBVIOUS
    <3>2. m \in Nat /\ Len(q[u]) = m + 1 /\ Len(q2[u]) = m + 1 /\ m + 1 \in 1 .. Len(q[u])
      BY <2>2, <3>1
    <3>3. q[u] \in Seq(Entries(u)) /\ InSequence(q[u]) /\ q[u][m + 1].phys_use <= n
      BY <1>2, <2>3, <3>2 DEF QueuesTo
    <3>4. q[u][m + 1].first_def <= q[u][m + 1].phys_use /\ q[u][m + 1] \in Entries(u)
      BY <3>2, <3>3, RangeFacts DEF InSequence
    <3>5. q[u][m + 1].first_def <= n
      BY <3>3, <3>4 DEF Entries
    <3>6. /\ q2[u] \in Seq(Entries(u)) /\ \A i \in 1 .. m : q2[u][i] = q[u][i]
          /\ q2[u][m + 1].phys_use = n /\ q2[u][m + 1].first_def = q[u][m + 1].first_def
      BY <2>2, <3>1, <3>2, <3>3
    <3>7. /\ q2[u][m + 1].phys_use <= n /\ q2[u][m + 1].first_def <= q2[u][m + 1].phys_use
          /\ (Len(q[u]) = m + 1 /\ q2[u][m + 1].first_def = q[u][m + 1].first_def) \/ q2[u][m + 1].first_def >= n
      BY <3>2, <3>5, <3>6
    <3>8. /\ Len(q2[u]) = m \/ Len(q2[u]) = m + 1
          /\ Len(q[u]) = m \/ (Len(q[u]) = m + 1 /\ Len(q2[u]) = m + 1)
          /\ \A p \in ParamRegs : p # u => q2[p] = q[p]
          /\ u \in ParamRegs /\ n <= n
      BY <1>2, <2>2, <3>2
    <3>9. QueueGrows(q, q2, u, m, n, n)
      BY <3>2, <3>6, <3>7, <3>8 DEF QueueGrows
    <3> QED
      BY ONLY n \in Nat, QueuesTo(q, n), <3>2, <3>8, <3>9, QueueKeeps
  <2> QED
    BY <2>1, <2>2, <2>3
<1> QED
  BY <1>1, <1>2

LEMMA SetupUseTypes ==
  ASSUME NEW n \in Nat, NEW st \in SetupStates, NEW u \in Nat, IsVirtual(u) => u \in VRegs,
         NEW st2, st2 = SetupUse(st, u, n)
  PROVE  /\ st2 \in SetupStates
         /\ IF IsVirtual(u) THEN /\ \A v \in VRegs : v # u => st2.LI[v] = st.LI[v]
                                 /\ st2.LI[u].first_def = st.LI[u].first_def /\ st2.LI[u].last_use = n
                                 /\ st2.queue = st.queue
            ELSE /\ st2.LI = st.LI
                 /\ st2.queue = SetUse(st.queue, u, n)
<1>1. CASE IsVirtual(u)
  <2>1. PICK before : before = UsedInBB(st.used, u) /\ before \in BOOLEAN
    BY Zenon DEF UsedInBB
  <2>2. st.LI[u] \in Interval /\ u \in VRegs
    BY <1>1 DEF SetupStates
  <2>3. PICK e : e = UseInterval(st.LI[u], n, before)
    OBVIOUS
  <2>4. e \in Interval /\ e.first_def = st.LI[u].first_def /\ e.last_use = n
    <3>1. PICK a, b, c, d, f, h : /\ a \in Nat /\ b \in Nat /\ c \in Nat /\ d \in Nat /\ f \in BOOLEAN /\ h \in {{}}
                                  /\ st.LI[u] = [first_def |-> a, last_use |-> b, ref_count |-> c, result_count |-> d,
                                                 multi_use_in_bb |-> f, holes |-> h]
      BY <2>2 DEF Interval
    <3>2. PICK g : g = (f \/ before) /\ g \in BOOLEAN
      BY Zenon
    <3>3. PICK e1 : e1 = [first_def |-> a, last_use |-> n, ref_count |-> c, result_count |-> d,
                          multi_use_in_bb |-> f, holes |-> h]
      OBVIOUS
    <3>4. e1 = [st.LI[u] EXCEPT !.last_use = n]
      BY ONLY <3>1, <3>3
    <3>5. PICK e2 : e2 = [first_def |-> a, last_use |-> n, ref_count |-> c + 1, result_count |-> d,
                          multi_use_in_bb |-> f, holes |-> h]
      OBVIOUS
    <3>6. e2 = [e1 EXCEPT !.ref_count = st.LI[u].ref_count + 1] /\ e2.multi_use_in_bb = f /\ st.LI[u].multi_use_in_bb = f
      BY ONLY <3>1, <3>3, <3>5
    <3>7. e = [e2 EXCEPT !.multi_use_in_bb = g]
      BY ONLY <2>3, <3>2, <3>4, <3>6, Zenon DEF UseInterval
    <3>8. e = [first_def |-> a, last_use |-> n, ref_count |-> c + 1, result_count |-> d,
               multi_use_in_bb |-> g, holes |-> h]
      BY ONLY <3>5, <3>7
    <3> QED
      BY <3>1, <3>2, <3>8 DEF Interval
  <2>5. st2 = [st EXCEPT !.LI = [st.LI EXCEPT ![u] = e], !.used = st.used \cup {u}]
    BY <1>1, <2>1, <2>3 DEF SetupUse
  <2>6. PICK li : li = [st.LI EXCEPT ![u] = e]
    OBVIOUS
  <2>7. li \in [VRegs -> Interval] /\ li[u] = e /\ \A v \in VRegs : v # u => li[v] = st.LI[v]
    BY <2>2, <2>4, <2>6 DEF SetupStates
  <2>8. st2 \in SetupStates /\ st2.LI = li /\ st2.queue = st.queue
    <3>1. PICK L, Q, V : /\ L \in [VRegs -> Interval] /\ Q \in [ParamRegs -> Seq(Entry)] /\ V \in SUBSET VRegs
                         /\ st = [LI |-> L, queue |-> Q, used |-> V]
      BY DEF SetupStates
    <3>2. PICK V2 : V2 = st.used \cup {u}
      OBVIOUS
    <3>3. V2 \in SUBSET VRegs
      BY <2>2, <3>1, <3>2
    <3>4. st2 = [st EXCEPT !.LI = li, !.used = V2]
      BY ONLY <2>5, <2>6, <3>2
    <3>5. st2 = [LI |-> li, queue |-> Q, used |-> V2] /\ st.queue = Q
      BY ONLY <3>1, <3>4
    <3> QED
      BY ONLY <2>7, <3>1, <3>3, <3>5 DEF SetupStates
  <2> QED
    BY <1>1, <2>4, <2>7, <2>8
<1>2. CASE ~IsVirtual(u)
  <2>1. PICK q : q = SetUse(st.queue, u, n)
    OBVIOUS
  <2>2. st2 = [st EXCEPT !.queue = q]
    BY <1>2, <2>1 DEF SetupUse, SetUse
  <2>3. st.queue \in [ParamRegs -> Seq(Entry)]
    BY DEF SetupStates
  <2>4. q \in [ParamRegs -> Seq(Entry)]
    BY <2>1, <2>3, UsedKeeps
  <2>5. st2 \in SetupStates /\ st2.LI = st.LI /\ st2.queue = q
    BY ONLY <2>2, <2>4, st \in SetupStates DEF SetupStates
  <2> QED
    BY <1>2, <2>1, <2>5
<1> QED
  BY <1>1, <1>2

SetupInv(st, ins, n, k) == st \in SetupStates /\ IntervalsTo(st.LI, ins, n) /\ QueuesTo(st.queue, k)

LEMMA SetupUseKeeps ==
  ASSUME NEW n \in Nat, n > 0, NEW ins, NEW st, SetupInv(st, ins, n - 1, n),
         NEW u \in Nat, IsVirtual(u) => u \in VRegs,
         NEW st2, st2 = SetupUse(st, u, n)
  PROVE  /\ SetupInv(st2, ins, n - 1, n) /\ Longer(st.LI, st2.LI, n)
         /\ IsVirtual(u) => st2.LI[u].last_use >= n
<1>1. st \in SetupStates /\ IntervalsTo(st.LI, ins, n - 1) /\ QueuesTo(st.queue, n)
  BY DEF SetupInv
<1>2. /\ st2 \in SetupStates
      /\ IF IsVirtual(u) THEN /\ \A v \in VRegs : v # u => st2.LI[v] = st.LI[v]
                              /\ st2.LI[u].first_def = st.LI[u].first_def /\ st2.LI[u].last_use = n
                              /\ st2.queue = st.queue
         ELSE /\ st2.LI = st.LI
              /\ st2.queue = SetUse(st.queue, u, n)
  BY <1>1, SetupUseTypes
<1>3. \A v \in VRegs : st.LI[v].last_use \in Nat /\ st2.LI[v].last_use \in Nat
  BY <1>1, <1>2 DEF SetupStates, Interval
<1>4. CASE IsVirtual(u)
  <2>1. \A v \in VRegs : /\ st2.LI[v].first_def = st.LI[v].first_def
                         /\ st2.LI[v].last_use = st.LI[v].last_use \/ st2.LI[v].last_use = n
    BY <1>2, <1>4
  <2>2. IntervalsTo(st2.LI, ins, n - 1)
    <3>1. \A v \in VRegs : st2.LI[v].first_def # 0 =>
             st2.LI[v].first_def \in 1 .. n - 1 /\ ins[st2.LI[v].first_def].def = v
      BY <1>1, <2>1 DEF IntervalsTo
    <3> QED
      BY <1>1, <1>3, <2>1, <3>1 DEF IntervalsTo
  <2>3. Longer(st.LI, st2.LI, n)
    BY <1>3, <2>1 DEF Longer
  <2> QED
    BY <1>1, <1>2, <1>4, <2>2, <2>3 DEF SetupInv
<1>5. CASE ~IsVirtual(u)
  <2>1. st2.LI = st.LI
    BY <1>2, <1>5
  <2>2. QueuesTo(st2.queue, n)
    <3>1. st.queue \in [ParamRegs -> Seq(Entry)] /\ st2.queue = SetUse(st.queue, u, n)
      BY <1>1, <1>2, <1>5 DEF SetupStates
    <3> QED
      BY <1>1, <3>1, UsedKeeps
  <2>3. Longer(st.LI, st2.LI, n)
    BY <1>3, <2>1 DEF Longer
  <2> QED
    BY <1>1, <1>2, <1>5, <2>1, <2>2, <2>3 DEF SetupInv
<1> QED
  BY <1>4, <1>5

SetDef(q, d, n) == [q EXCEPT ![d] = Append(q[d], NewEntry(d, n))]

LEMMA DefinedKeeps ==
  ASSUME NEW q, q \in [ParamRegs -> Seq(Entry)], NEW n \in Nat, NEW d \in ParamRegs
  PROVE  /\ SetDef(q, d, n) \in [ParamRegs -> Seq(Entry)]
         /\ \A k \in Nat : k <= n /\ QueuesTo(q, k) => QueuesTo(SetDef(q, d, n), n)
<1>1. PICK q2, s, t : q2 = SetDef(q, d, n) /\ s = q[d] /\ t = Append(s, NewEntry(d, n))
  OBVIOUS
<1>2. /\ t \in Seq(Entry) /\ Len(t) = Len(s) + 1 /\ Len(s) \in Nat
      /\ \A i \in 1 .. Len(s) : t[i] = s[i]
      /\ t[Len(s) + 1].first_def = n /\ t[Len(s) + 1].phys_use = n
      /\ s \in Seq(Entries(d)) => t \in Seq(Entries(d))
  BY ONLY n \in Nat, d \in ParamRegs, q \in [ParamRegs -> Seq(Entry)], <1>1, QueueDefined
<1>3. q2 = [q EXCEPT ![d] = t]
  BY <1>1 DEF SetDef
<1>4. q2 \in [ParamRegs -> Seq(Entry)] /\ q2[d] = t /\ \A r \in ParamRegs : r # d => q2[r] = q[r]
  BY ONLY d \in ParamRegs, q \in [ParamRegs -> Seq(Entry)], <1>2, <1>3
<1>5. ASSUME NEW k \in Nat, k <= n, QueuesTo(q, k) PROVE QueuesTo(q2, n)
  <2>1. PICK m : m = Len(s)
    OBVIOUS
  <2>2. s \in Seq(Entries(d))
    BY <1>1, <1>5 DEF QueuesTo
  <2>3. QueueGrows(q, q2, d, m, k, n)
    BY <1>1, <1>2, <1>4, <1>5, <2>1, <2>2 DEF QueueGrows
  <2>4. m \in Nat
    BY <1>2, <2>1
  <2> QED
    BY ONLY n \in Nat, d \in ParamRegs, <1>5, <2>3, <2>4, QueueKeeps
<1> QED
  BY <1>1, <1>4, <1>5

DefDone(st, d, n, st2) ==
  IF IsVirtual(d) THEN /\ \A v \in VRegs : v # d => st2.LI[v] = st.LI[v]
                       /\ st2.LI[d].first_def = IF st.LI[d].first_def = 0 THEN n ELSE st.LI[d].first_def
                       /\ st2.LI[d].last_use = IF st.LI[d].first_def = 0 \/ st.LI[d].last_use < n
                                               THEN n + 1 ELSE st.LI[d].last_use
                       /\ st2.queue = st.queue
  ELSE /\ st2.LI = st.LI
       /\ st2.queue = IF d \in ParamRegs THEN SetDef(st.queue, d, n) ELSE st.queue

LEMMA SetupDefTypes ==
  ASSUME NEW n \in Nat, NEW st \in SetupStates, NEW d \in Nat, IsVirtual(d) => d \in VRegs,
         NEW st2, st2 = SetupDef(st, d, n)
  PROVE  /\ st2 \in SetupStates
         /\ DefDone(st, d, n, st2)
<1> USE DEF DefDone
<1>1. CASE IsVirtual(d)
  <2>1. PICK before : before = UsedInBB(st.used, d) /\ before \in BOOLEAN
    BY Zenon DEF UsedInBB
  <2>2. st.LI[d] \in Interval /\ d \in VRegs
    BY <1>1 DEF SetupStates
  <2>3. PICK e : e = DefInterval(st.LI[d], n, before)
    OBVIOUS
  <2>4. /\ e \in Interval /\ e.first_def = IF st.LI[d].first_def = 0 THEN n ELSE st.LI[d].first_def
        /\ e.last_use = IF st.LI[d].first_def = 0 \/ st.LI[d].last_use < n THEN n + 1 ELSE st.LI[d].last_use
    <3>1. PICK a, b, c, x, f, h : /\ a \in Nat /\ b \in Nat /\ c \in Nat /\ x \in Nat /\ f \in BOOLEAN /\ h \in {{}}
                                  /\ st.LI[d] = [first_def |-> a, last_use |-> b, ref_count |-> c, result_count |-> x,
                                                 multi_use_in_bb |-> f, holes |-> h]
      BY <2>2 DEF Interval
    <3>2. PICK g : g = (f \/ before) /\ g \in BOOLEAN
      BY Zenon
    <3>3. PICK a2, b2 : a2 = (IF a = 0 THEN n ELSE a) /\ b2 = (IF a = 0 \/ b < n THEN n + 1 ELSE b)
      OBVIOUS
    <3>4. a2 \in Nat /\ b2 \in Nat
      BY <3>1, <3>3
    <3>5. PICK e1 : e1 = [first_def |-> a2, last_use |-> b2, ref_count |-> c + 1, result_count |-> x + 1,
                          multi_use_in_bb |-> f, holes |-> h]
      OBVIOUS
    <3>6. st.LI[d].first_def = a /\ st.LI[d].last_use = b /\ st.LI[d].ref_count = c /\ st.LI[d].result_count = x
      BY <3>1
    <3>7. PICK o : o = st.LI[d]
      OBVIOUS
    <3>8. e1 = [o EXCEPT !.first_def = a2, !.last_use = b2, !.ref_count = c + 1, !.result_count = x + 1]
      <4>1. PICK o1 : o1 = [first_def |-> a2, last_use |-> b, ref_count |-> c, result_count |-> x,
                           multi_use_in_bb |-> f, holes |-> h]
        OBVIOUS
      <4>2. PICK o2 : o2 = [first_def |-> a2, last_use |-> b2, ref_count |-> c, result_count |-> x,
                           multi_use_in_bb |-> f, holes |-> h]
        OBVIOUS
      <4>3. PICK o3 : o3 = [first_def |-> a2, last_use |-> b2, ref_count |-> c + 1, result_count |-> x,
                           multi_use_in_bb |-> f, holes |-> h]
        OBVIOUS
      <4>4. o1 = [o EXCEPT !.first_def = a2]
        BY ONLY <3>1, <3>7, <4>1
      <4>5. o2 = [o1 EXCEPT !.last_use = b2]
        BY ONLY <4>1, <4>2
      <4>6. o3 = [o2 EXCEPT !.ref_count = c + 1]
        BY ONLY <4>2, <4>3
      <4>7. e1 = [o3 EXCEPT !.result_count = x + 1]
        BY ONLY <3>5, <4>3
      <4> QED
        BY ONLY <4>4, <4>5, <4>6, <4>7, Zenon
    <3>9. e1.multi_use_in_bb = f
      BY ONLY <3>5
    <3>10. [o EXCEPT !.first_def = IF @ = 0 THEN n ELSE @,
                     !.last_use = IF o.first_def = 0 \/ @ < n THEN n + 1 ELSE @,
                     !.ref_count = @ + 1, !.result_count = @ + 1] = e1
      BY ONLY <3>3, <3>6, <3>7, <3>8
    <3>11. e = [e1 EXCEPT !.multi_use_in_bb = @ \/ before]
      BY <2>3, <3>7, <3>10 DEF DefInterval
    <3>12. e = [e1 EXCEPT !.multi_use_in_bb = g]
      BY ONLY <3>2, <3>9, <3>11, Zenon
    <3>13. e = [first_def |-> a2, last_use |-> b2, ref_count |-> c + 1, result_count |-> x + 1,
                multi_use_in_bb |-> g, holes |-> h]
      BY ONLY <3>5, <3>12
    <3> QED
      BY <3>1, <3>2, <3>3, <3>4, <3>13 DEF Interval
  <2>5. st2 = [st EXCEPT !.LI = [st.LI EXCEPT ![d] = e], !.used = st.used \cup {d}]
    BY <1>1, <2>1, <2>3 DEF SetupDef
  <2>6. PICK li : li = [st.LI EXCEPT ![d] = e]
    OBVIOUS
  <2>7. li \in [VRegs -> Interval] /\ li[d] = e /\ \A v \in VRegs : v # d => li[v] = st.LI[v]
    BY <2>2, <2>4, <2>6 DEF SetupStates
  <2>8. st2 \in SetupStates /\ st2.LI = li /\ st2.queue = st.queue
    <3>1. PICK L, Q, V : /\ L \in [VRegs -> Interval] /\ Q \in [ParamRegs -> Seq(Entry)] /\ V \in SUBSET VRegs
                         /\ st = [LI |-> L, queue |-> Q, used |-> V]
      BY DEF SetupStates
    <3>2. PICK V2 : V2 = st.used \cup {d}
      OBVIOUS
    <3>3. V2 \in SUBSET VRegs
      BY <2>2, <3>1, <3>2
    <3>4. st2 = [st EXCEPT !.LI = li, !.used = V2]
      BY ONLY <2>5, <2>6, <3>2
    <3>5. st2 = [LI |-> li, queue |-> Q, used |-> V2] /\ st.queue = Q
      BY ONLY <3>1, <3>4
    <3> QED
      BY ONLY <2>7, <3>1, <3>3, <3>5 DEF SetupStates
  <2> QED
    BY <1>1, <2>4, <2>7, <2>8
<1>2. CASE ~IsVirtual(d) /\ d \in ParamRegs
  <2>1. PICK q : q = SetDef(st.queue, d, n)
    OBVIOUS
  <2>2. st2 = [st EXCEPT !.queue = q]
    BY <1>2, <2>1 DEF SetupDef, SetDef, NewEntry, IsParam
  <2>3. st.queue \in [ParamRegs -> Seq(Entry)]
    BY DEF SetupStates
  <2>4. q \in [ParamRegs -> Seq(Entry)]
    BY <1>2, <2>1, <2>3, DefinedKeeps
  <2>5. st2 \in SetupStates /\ st2.LI = st.LI /\ st2.queue = q
    BY ONLY <2>2, <2>4, st \in SetupStates DEF SetupStates
  <2> QED
    BY <1>2, <2>1, <2>5
<1>3. CASE ~IsVirtual(d) /\ d \notin ParamRegs
  BY <1>3 DEF SetupDef, IsParam
<1> QED
  BY <1>1, <1>2, <1>3

\* The destination of instruction n, when its operands have been seen.
LEMMA SetupDefKeeps ==
  ASSUME NEW n \in Nat, n > 0, NEW ins, NEW st, SetupInv(st, ins, n - 1, n),
         \A u \in Range(ins[n].uses) : IsVirtual(u) => u \in VRegs /\ st.LI[u].last_use >= n,
         NEW d \in Nat, ins[n].def = d, IsVirtual(d) => d \in VRegs,
         NEW st2, st2 = SetupDef(st, d, n)
  PROVE  SetupInv(st2, ins, n, n + 1) /\ Longer(st.LI, st2.LI, n)
<1>1. st \in SetupStates /\ IntervalsTo(st.LI, ins, n - 1) /\ QueuesTo(st.queue, n)
  BY DEF SetupInv
<1>2. /\ st2 \in SetupStates
      /\ DefDone(st, d, n, st2)
  BY <1>1, SetupDefTypes
<1>3. \A v \in VRegs : /\ st.LI[v].last_use \in Nat /\ st2.LI[v].last_use \in Nat
                       /\ st.LI[v].first_def \in Nat /\ st2.LI[v].first_def \in Nat
  BY <1>1, <1>2 DEF SetupStates, Interval
<1> USE DEF DefDone
<1>4. Longer(st.LI, st2.LI, n)
  BY <1>2, <1>3 DEF Longer
<1>5. \A m \in 1 .. n : m = n \/ m \in 1 .. n - 1
  OBVIOUS
<1>6. QueuesTo(st2.queue, n + 1)
  <2>1. QueuesTo(st2.queue, n)
    <3>1. st.queue \in [ParamRegs -> Seq(Entry)] /\ n <= n
      BY <1>1 DEF SetupStates
    <3> QED
      BY <1>1, <1>2, <3>1, DefinedKeeps
  <2> SUFFICES ASSUME NEW r \in ParamRegs, NEW i \in 1 .. Len(st2.queue[r])
               PROVE  st2.queue[r][i].phys_use <= n + 1
    BY <2>1 DEF QueuesTo
  <2>2. st2.queue[r] \in Seq(Entries(r)) /\ st2.queue[r][i].phys_use <= n
    BY <2>1 DEF QueuesTo
  <2>3. st2.queue[r][i] \in Entries(r)
    BY <2>2, RangeFacts
  <2> QED
    BY <2>2, <2>3 DEF Entries
<1>7. IntervalsTo(st2.LI, ins, n)
  <2>1. ASSUME NEW v \in VRegs, st2.LI[v].first_def # 0
        PROVE  st2.LI[v].first_def \in 1 .. n /\ ins[st2.LI[v].first_def].def = v
    <3>1. CASE st2.LI[v].first_def = st.LI[v].first_def
      BY <1>1, <2>1, <3>1 DEF IntervalsTo
    <3>2. CASE st2.LI[v].first_def # st.LI[v].first_def
      BY <1>2, <3>2
    <3> QED
      BY <3>1, <3>2
  <2>2. ASSUME NEW m \in 1 .. n, IsVirtual(ins[m].def)
        PROVE  /\ ins[m].def \in VRegs /\ st2.LI[ins[m].def].first_def \in 1 .. m
               /\ st2.LI[ins[m].def].last_use >= m
    <3>1. CASE m = n
      <4>1. st.LI[d].first_def # 0 => st.LI[d].first_def \in 1 .. n - 1
        BY <1>1, <2>2, <3>1 DEF IntervalsTo
      <4> QED
        BY <1>2, <1>3, <2>2, <3>1, <4>1
    <3>2. CASE m \in 1 .. n - 1
      <4>1. PICK w : w = ins[m].def
        OBVIOUS
      <4>2. w \in VRegs /\ st.LI[w].first_def \in 1 .. m /\ st.LI[w].last_use >= m
        BY <1>1, <2>2, <3>2, <4>1 DEF IntervalsTo
      <4>3. st2.LI[w].first_def = st.LI[w].first_def /\ st2.LI[w].last_use >= m
        BY <1>2, <1>3, <1>4, <3>2, <4>2 DEF Longer
      <4> QED
        BY <4>1, <4>2, <4>3
    <3> QED
      BY <1>5, <3>1, <3>2
  <2>3. ASSUME NEW m \in 1 .. n, NEW u \in Range(ins[m].uses), IsVirtual(u)
        PROVE  u \in VRegs /\ st2.LI[u].last_use >= m
    <3>1. u \in VRegs /\ st.LI[u].last_use >= m
      BY <1>1, <1>5, <2>3 DEF IntervalsTo
    <3> QED
      BY <1>3, <1>4, <3>1 DEF Longer
  <2> QED
    BY <2>1, <2>2, <2>3 DEF IntervalsTo
<1> QED
  BY <1>2, <1>4, <1>6, <1>7 DEF SetupInv

\* The operands of an instruction of the program.
GoodInsn(insn) ==
  /\ insn.def \in Nat /\ insn.uses \in Seq(Nat)
  /\ \A r \in {insn.def} \cup Range(insn.uses) : IsVirtual(r) => r \in VRegs

\* st has seen the last i operands of instruction n.
UsedTo(st0, st, ins, n, u, i) ==
  /\ SetupInv(st, ins, n - 1, n) /\ Longer(st0.LI, st.LI, n)
  /\ \A j \in 1 .. i : IsVirtual(u[Len(u) + 1 - j]) => st.LI[u[Len(u) + 1 - j]].last_use >= n

LEMMA SetupInsn ==
  ASSUME NEW insn, GoodInsn(insn), NEW n \in Nat, NEW st0 \in SetupStates,
         NEW st2, st2 = SetupLiveInterval(st0, insn, n)
  PROVE  /\ st2 \in SetupStates
         /\ \A ins : /\ n > 0 /\ SetupInv(st0, ins, n - 1, n)
                     /\ ins[n].def = insn.def /\ ins[n].uses = insn.uses
                     => SetupInv(st2, ins, n, n + 1) /\ Longer(st0.LI, st2.LI, n)
<1> DEFINE u == insn.uses
           k == Len(u)
           d == insn.def
           Eq(f) == f = [i \in 0 .. k |-> IF i = 0 THEN st0 ELSE SetupUse(f[i - 1], u[k + 1 - i], n)]
           U == CHOOSE f : Eq(f)
           T == SetupStates
           g == [i \in 1 .. k |-> [t \in T |-> SetupUse(t, u[k + 1 - i], n)]]
<1>1. st2 = SetupDef(U[k], d, n)
  BY DEF SetupLiveInterval
<1>2. k \in Nat /\ (\A i \in 1 .. k : u[k + 1 - i] \in Range(u)) /\ (\A x \in Range(u) : \E i \in 1 .. k : u[k + 1 - i] = x)
  <2>1. k \in Nat
    BY LenProperties DEF GoodInsn
  <2>2. \A i \in 1 .. k : k + 1 - i \in 1 .. k /\ k + 1 - (k + 1 - i) = i
    BY <2>1
  <2>3. (\A i \in 1 .. k : u[i] \in Range(u)) /\ \A x \in Range(u) : \E i \in 1 .. k : u[i] = x
    BY RangeFacts DEF GoodInsn
  <2> HIDE DEF u, k
  <2> QED
    BY <2>1, <2>2, <2>3
<1>3. \A x \in Range(u) : x \in Nat /\ (IsVirtual(x) => x \in VRegs)
  BY RangeFacts DEF GoodInsn
<1>4. d \in Nat /\ (IsVirtual(d) => d \in VRegs)
  BY DEF GoodInsn
<1>5. k = Len(u) /\ u = insn.uses /\ d = insn.def
  OBVIOUS
<1>6. st0 \in T
  OBVIOUS
<1> HIDE DEF u, k, d
<1>7. \A t \in T : \A i \in 1 .. k : SetupUse(t, u[k + 1 - i], n) \in T
  <2> SUFFICES ASSUME NEW t \in T, NEW i \in 1 .. k PROVE SetupUse(t, u[k + 1 - i], n) \in T
    OBVIOUS
  <2>1. PICK x : x = u[k + 1 - i]
    OBVIOUS
  <2>2. x \in Nat /\ (IsVirtual(x) => x \in VRegs)
    BY <1>2, <1>3, <2>1
  <2>3. SetupUse(t, x, n) \in T
    BY <2>2, SetupUseTypes
  <2> QED
    BY <2>1, <2>3
<1> HIDE DEF T
<1>8. \A i \in 1 .. k : \A t \in T : g[i][t] = SetupUse(t, u[k + 1 - i], n) /\ g[i][t] \in T
  BY <1>7
<1>9. Eq(U)
  <2>1. \E f \in [0 .. k -> T] : Iterates(k, st0, g, f)
    <3> HIDE DEF g
    <3> QED
      BY <1>2, <1>6, <1>8, Iteration
  <2>2. PICK f \in [0 .. k -> T] : Iterates(k, st0, g, f)
    BY <2>1
  <2> HIDE DEF g
  <2>3. ASSUME NEW i \in 0 .. k
        PROVE  (IF i = 0 THEN st0 ELSE g[i][f[i - 1]]) = IF i = 0 THEN st0 ELSE SetupUse(f[i - 1], u[k + 1 - i], n)
    <3>1. i # 0 => i \in 1 .. k /\ i - 1 \in 0 .. k
      BY <1>2
    <3>2. i # 0 => f[i - 1] \in T
      BY <2>2, <3>1
    <3> QED
      BY <1>8, <3>1, <3>2
  <2>4. Eq(f)
    BY <2>2, <2>3 DEF Iterates
  <2> HIDE DEF Eq
  <2> QED
    BY <2>4
<1> HIDE DEF U, g
<1>10. \A i \in 0 .. k : U[i] = IF i = 0 THEN st0 ELSE SetupUse(U[i - 1], u[k + 1 - i], n)
  BY <1>9, Zenon
<1>11. U[k] \in T
  <2> DEFINE V == {i \in 0 .. k : U[i] \in T}
  <2>1. 0 \in V
    BY <1>2, <1>6, <1>10
  <2>2. ASSUME NEW i \in 1 .. k, i - 1 \in V PROVE i \in V
    <3>1. i \in 0 .. k /\ i # 0
      BY <1>2
    <3> QED
      BY <1>7, <1>10, <2>2, <3>1
  <2> HIDE DEF V
  <2>3. 0 .. k \subseteq V
    BY ONLY <1>2, <2>1, <2>2, UpToInduction
  <2> QED
    BY <1>2, <2>3 DEF V
<1>12. st2 \in SetupStates
  BY <1>1, <1>4, <1>11, SetupDefTypes DEF T
<1>13. ASSUME NEW ins, n > 0, SetupInv(st0, ins, n - 1, n), ins[n].def = d, ins[n].uses = u
       PROVE  SetupInv(st2, ins, n, n + 1) /\ Longer(st0.LI, st2.LI, n)
  <2> DEFINE V == {i \in 0 .. k : UsedTo(st0, U[i], ins, n, u, i)}
  <2>1. \A t : SetupInv(t, ins, n - 1, n) => t \in SetupStates /\ \A v \in VRegs : t.LI[v].last_use \in Nat
    BY DEF SetupInv, SetupStates, Interval
  <2>2. 0 \in V
    <3>1. U[0] = st0
      BY <1>2, <1>10
    <3>2. Longer(st0.LI, st0.LI, n)
      BY <1>13, <2>1 DEF Longer
    <3>3. \A j \in 1 .. 0 : FALSE
      OBVIOUS
    <3> QED
      BY <1>2, <1>13, <3>1, <3>2, <3>3 DEF UsedTo
  <2>3. ASSUME NEW i \in 1 .. k, i - 1 \in V PROVE i \in V
    <3>1. i \in 0 .. k /\ i # 0
      BY <1>2
    <3>2. PICK s, t, x : s = U[i - 1] /\ t = U[i] /\ x = u[k + 1 - i]
      OBVIOUS
    <3>3. t = SetupUse(s, x, n) /\ x \in Nat /\ (IsVirtual(x) => x \in VRegs)
      BY <1>2, <1>3, <1>10, <3>1, <3>2
    <3>4. UsedTo(st0, s, ins, n, u, i - 1)
      BY <2>3, <3>2
    <3>5. SetupInv(s, ins, n - 1, n)
      BY <3>4 DEF UsedTo
    <3>6. /\ SetupInv(t, ins, n - 1, n) /\ Longer(s.LI, t.LI, n)
          /\ IsVirtual(x) => t.LI[x].last_use >= n
      BY <1>13, <3>3, <3>5, SetupUseKeeps
    <3>7. \A v \in VRegs : st0.LI[v].last_use \in Nat /\ s.LI[v].last_use \in Nat /\ t.LI[v].last_use \in Nat
      BY <1>13, <2>1, <3>5, <3>6
    <3>8. Longer(st0.LI, t.LI, n)
      BY <3>4, <3>6, <3>7 DEF UsedTo, Longer
    <3>9. ASSUME NEW j \in 1 .. i, IsVirtual(u[k + 1 - j])
          PROVE  t.LI[u[k + 1 - j]].last_use >= n
      <4>1. CASE j = i
        BY <3>2, <3>6, <3>9, <4>1
      <4>2. CASE j # i
        <5>1. j \in 1 .. i - 1 /\ j \in 1 .. k
          BY <1>2, <4>2
        <5>2. PICK y : y = u[k + 1 - j]
          OBVIOUS
        <5>3. y \in VRegs /\ s.LI[y].last_use >= n
          BY <1>2, <1>3, <1>5, <3>4, <3>9, <5>1, <5>2 DEF UsedTo
        <5>4. t.LI[y].last_use >= n
          BY <3>6, <3>7, <5>3 DEF Longer
        <5> QED
          BY <5>2, <5>4
      <4> QED
        BY <4>1, <4>2
    <3> QED
      BY <1>5, <3>1, <3>2, <3>6, <3>8, <3>9 DEF UsedTo
  <2> HIDE DEF V
  <2>4. 0 .. k \subseteq V
    BY ONLY <1>2, <2>2, <2>3, UpToInduction
  <2>5. UsedTo(st0, U[k], ins, n, u, k)
    BY <1>2, <2>4 DEF V
  <2>6. PICK s : s = U[k]
    OBVIOUS
  <2>7. SetupInv(s, ins, n - 1, n) /\ Longer(st0.LI, s.LI, n)
    BY <2>5, <2>6 DEF UsedTo
  <2>8. \A x \in Range(ins[n].uses) : IsVirtual(x) => x \in VRegs /\ s.LI[x].last_use >= n
    BY <1>2, <1>3, <1>5, <1>13, <2>5, <2>6 DEF UsedTo
  <2>9. st2 = SetupDef(s, d, n)
    BY <1>1, <2>6
  <2>10. SetupInv(st2, ins, n, n + 1) /\ Longer(s.LI, st2.LI, n)
    BY ONLY n \in Nat, <1>4, <1>13, <2>7, <2>8, <2>9, SetupDefKeeps
  <2>11. \A v \in VRegs : st0.LI[v].last_use \in Nat /\ s.LI[v].last_use \in Nat /\ st2.LI[v].last_use \in Nat
    <3>1. st2 \in SetupStates
      BY <1>12
    <3> QED
      BY <1>13, <2>1, <2>7, <3>1 DEF SetupStates, Interval
  <2> QED
    BY <2>7, <2>10, <2>11 DEF Longer
<1> QED
  BY <1>5, <1>12, <1>13

SetupBlock(st, c, n0) ==
  LET S[i \in 0 .. Len(c)] == IF i = 0 THEN st ELSE LET s == S[i - 1] IN SetupLiveInterval(s, c[i], n0 + i)
  IN  S[Len(c)]

\* All instructions of a block; n0 come before it.
LEMMA SetupBlockKeeps ==
  ASSUME NEW c \in Seq(Instruction), \A i \in 1 .. Len(c) : GoodInsn(c[i]), NEW n0 \in Nat,
         NEW st0 \in SetupStates, NEW st2, st2 = SetupBlock(st0, c, n0)
  PROVE  /\ st2 \in SetupStates
         /\ \A ins : /\ SetupInv(st0, ins, n0, n0 + 1)
                     /\ \A i \in 1 .. Len(c) : ins[n0 + i].def = c[i].def /\ ins[n0 + i].uses = c[i].uses
                     => SetupInv(st2, ins, n0 + Len(c), n0 + Len(c) + 1) /\ Longer(st0.LI, st2.LI, n0)
<1> DEFINE k == Len(c)
           Eq(f) == f = [i \in 0 .. k |-> IF i = 0 THEN st0 ELSE SetupLiveInterval(f[i - 1], c[i], n0 + i)]
           U == CHOOSE f : Eq(f)
           T == SetupStates
           g == [i \in 1 .. k |-> [t \in T |-> SetupLiveInterval(t, c[i], n0 + i)]]
<1>1. st2 = U[k]
  BY DEF SetupBlock
<1>2. k \in Nat
  BY LenProperties
<1>3. k = Len(c) /\ st0 \in T
  OBVIOUS
<1> HIDE DEF k
<1>4. \A t \in T : \A i \in 1 .. k : SetupLiveInterval(t, c[i], n0 + i) \in T
  <2> SUFFICES ASSUME NEW t \in T, NEW i \in 1 .. k PROVE SetupLiveInterval(t, c[i], n0 + i) \in T
    OBVIOUS
  <2>1. GoodInsn(c[i]) /\ n0 + i \in Nat
    BY <1>2, <1>3
  <2> QED
    BY <2>1, SetupInsn
<1> HIDE DEF T
<1>5. \A i \in 1 .. k : \A t \in T : g[i][t] = SetupLiveInterval(t, c[i], n0 + i) /\ g[i][t] \in T
  BY <1>4
<1>6. Eq(U)
  <2>1. \E f \in [0 .. k -> T] : Iterates(k, st0, g, f)
    <3> HIDE DEF g
    <3> QED
      BY <1>2, <1>3, <1>5, Iteration
  <2>2. PICK f \in [0 .. k -> T] : Iterates(k, st0, g, f)
    BY <2>1
  <2> HIDE DEF g
  <2>3. ASSUME NEW i \in 0 .. k
        PROVE  (IF i = 0 THEN st0 ELSE g[i][f[i - 1]]) = IF i = 0 THEN st0 ELSE SetupLiveInterval(f[i - 1], c[i], n0 + i)
    <3>1. i # 0 => i \in 1 .. k /\ i - 1 \in 0 .. k
      BY <1>2
    <3>2. i # 0 => f[i - 1] \in T
      BY <2>2, <3>1
    <3> QED
      BY <1>5, <3>1, <3>2
  <2>4. Eq(f)
    BY <2>2, <2>3 DEF Iterates
  <2> HIDE DEF Eq
  <2> QED
    BY <2>4
<1> HIDE DEF U, g
<1>7. \A i \in 0 .. k : U[i] = IF i = 0 THEN st0 ELSE SetupLiveInterval(U[i - 1], c[i], n0 + i)
  BY <1>6, Zenon
<1> DEFINE V == {i \in 0 .. k : U[i] \in T}
<1>8. 0 .. k \subseteq V
  <2>1. 0 \in V
    BY <1>2, <1>3, <1>7
  <2>2. ASSUME NEW i \in 1 .. k, i - 1 \in V PROVE i \in V
    <3>1. i \in 0 .. k /\ i # 0
      BY <1>2
    <3> QED
      BY <1>4, <1>7, <2>2, <3>1
  <2> HIDE DEF V
  <2> QED
    BY ONLY <1>2, <2>1, <2>2, UpToInduction
<1>9. U[k] \in T
  BY <1>2, <1>8
<1>10. ASSUME NEW ins, SetupInv(st0, ins, n0, n0 + 1),
              \A i \in 1 .. k : ins[n0 + i].def = c[i].def /\ ins[n0 + i].uses = c[i].uses
       PROVE  SetupInv(st2, ins, n0 + k, n0 + k + 1) /\ Longer(st0.LI, st2.LI, n0)
  <2> DEFINE P(t, i) == SetupInv(t, ins, n0 + i, n0 + i + 1) /\ Longer(st0.LI, t.LI, n0)
             W == {i \in 0 .. k : P(U[i], i)}
  <2>1. \A t \in T : \A v \in VRegs : t.LI[v].last_use \in Nat
    BY DEF T, SetupStates, Interval
  <2>2. 0 \in W
    <3>1. U[0] = st0 /\ 0 \in 0 .. k
      BY <1>2, <1>7
    <3>2. Longer(st0.LI, st0.LI, n0)
      BY <1>3, <2>1 DEF Longer
    <3>3. n0 + 0 = n0
      OBVIOUS
    <3>4. P(st0, 0)
      BY <1>10, <3>2, <3>3
    <3> HIDE DEF P
    <3> QED
      BY <3>1, <3>4
  <2>3. ASSUME NEW i \in 1 .. k, i - 1 \in W PROVE i \in W
    <3>1. i \in 0 .. k /\ i # 0 /\ i - 1 \in 0 .. k
      BY <1>2
    <3>2. PICK s, t, n : s = U[i - 1] /\ t = U[i] /\ n = n0 + i
      OBVIOUS
    <3>3. t = SetupLiveInterval(s, c[i], n)
      BY <1>7, <3>1, <3>2
    <3>4. n \in Nat /\ n > 0 /\ n0 + (i - 1) = n - 1 /\ n0 + (i - 1) + 1 = n /\ n0 <= n
      BY <1>2, <3>2
    <3>5. P(s, i - 1)
      BY <2>3, <3>2
    <3>6. SetupInv(s, ins, n - 1, n) /\ Longer(st0.LI, s.LI, n0)
      BY <3>4, <3>5
    <3>7. s \in SetupStates
      BY <3>6 DEF SetupInv
    <3>8. GoodInsn(c[i]) /\ ins[n].def = c[i].def /\ ins[n].uses = c[i].uses
      BY <1>3, <1>10, <3>2
    <3>9. SetupInv(t, ins, n, n + 1) /\ Longer(s.LI, t.LI, n)
      BY ONLY <3>3, <3>4, <3>6, <3>7, <3>8, SetupInsn
    <3>10. \A v \in VRegs : st0.LI[v].last_use \in Nat /\ s.LI[v].last_use \in Nat /\ t.LI[v].last_use \in Nat
      <4>1. s \in T /\ t \in T
        BY <3>7, <3>9 DEF SetupInv, T
      <4> QED
        BY <1>3, <2>1, <4>1
    <3>11. Longer(st0.LI, t.LI, n0)
      <4> SUFFICES ASSUME NEW v \in VRegs
                   PROVE  t.LI[v].last_use >= st0.LI[v].last_use \/ t.LI[v].last_use >= n0
        BY DEF Longer
      <4>1. PICK x, y, z : x = st0.LI[v].last_use /\ y = s.LI[v].last_use /\ z = t.LI[v].last_use
        OBVIOUS
      <4>2. x \in Nat /\ y \in Nat /\ z \in Nat
        BY <3>10, <4>1
      <4>3. (y >= x \/ y >= n0) /\ (z >= y \/ z >= n)
        BY <3>6, <3>9, <4>1 DEF Longer
      <4>4. z >= x \/ z >= n0
        BY <3>4, <4>2, <4>3
      <4> QED
        BY <4>1, <4>4
    <3>12. P(t, i)
      BY <3>2, <3>9, <3>11
    <3> HIDE DEF P
    <3> QED
      BY <3>1, <3>2, <3>12
  <2> HIDE DEF W
  <2>4. 0 .. k \subseteq W
    BY ONLY <1>2, <2>2, <2>3, UpToInduction
  <2> USE DEF W
  <2> QED
    BY <1>1, <1>2, <2>4
<1> QED
  BY <1>1, <1>3, <1>9, <1>10 DEF T

-----------------------------------------------------------------------------
(* The instructions of the first k blocks of the order, one block after the other. *)

Placed == [bb : Blocks, op : STRING, def : Nat, uses : Seq(Nat)]

EndOf(fid, j) == fid[sorted_bbs[j]] - 1 + Len(Code(sorted_bbs[j]))

SameInsn(x, b, i) == x.bb = b /\ x.op = Code(b)[i].op /\ x.def = Code(b)[i].def /\ x.uses = Code(b)[i].uses

PlacedAt(ins, fid, j) ==
  /\ fid[sorted_bbs[j]] > 0 /\ EndOf(fid, j) <= Len(ins)
  /\ \A i \in 1 .. Len(Code(sorted_bbs[j])) :
       SameInsn(ins[fid[sorted_bbs[j]] - 1 + i], sorted_bbs[j], i)

Layout(ins, fid, k) ==
  /\ ins \in Seq(Placed) /\ fid \in [Blocks -> Nat]
  /\ \A j \in 1 .. k : PlacedAt(ins, fid, j)
  /\ \A n \in 1 .. Len(ins) : \E j \in 1 .. k : \E i \in 1 .. Len(Code(sorted_bbs[j])) :
       n = fid[sorted_bbs[j]] - 1 + i
  /\ \A i, j \in 1 .. k : i < j => EndOf(fid, i) < fid[sorted_bbs[j]]

\* The code of block b, as it is put at the end.
CodeOf(b) == [i \in 1 .. Len(Code(b)) |->
                [bb |-> b, op |-> Code(b)[i].op, def |-> Code(b)[i].def, uses |-> Code(b)[i].uses]]

Added(ins, fid, b, ins2, fid2) == ins2 = ins \o CodeOf(b) /\ fid2 = [fid EXCEPT ![b] = Len(ins) + 1]

AddedRight(ins, fid, b, ins2, fid2, k) ==
  /\ Layout(ins2, fid2, k + 1)
  /\ Len(ins2) = Len(ins) + Len(Code(b)) /\ Len(ins) \in Nat /\ Len(Code(b)) \in Nat
  /\ \A n \in 1 .. Len(ins) : ins2[n] = ins[n]
  /\ \A i \in 1 .. Len(Code(b)) : SameInsn(ins2[Len(ins) + i], b, i)
  /\ \A j \in 1 .. k : EndOf(fid2, j) = EndOf(fid, j)
  /\ EndOf(fid2, k + 1) = Len(ins2)

LEMMA LayoutStep ==
  ASSUME prog \in Programs, sorted_bbs \in Seq(Blocks), Distinct(sorted_bbs),
         NEW k \in Nat, k < Len(sorted_bbs), NEW ins, NEW fid, Layout(ins, fid, k),
         NEW b, b = sorted_bbs[k + 1], NEW ins2, NEW fid2, Added(ins, fid, b, ins2, fid2)
  PROVE  AddedRight(ins, fid, b, ins2, fid2, k)
<1> USE DEF Added, AddedRight
<1>1. PICK so, L : so = sorted_bbs /\ L = Len(ins)
  OBVIOUS
<1>2. Len(so) \in Nat /\ k + 1 \in 1 .. Len(so) /\ b \in Blocks /\ \A j \in 1 .. k + 1 : so[j] \in Blocks
  BY <1>1, LenProperties, RangeFacts
<1>3. \A x \in Blocks : Code(x) \in Seq(Instruction) /\ Len(Code(x)) \in Nat
  BY CgAnalysesAssumption, LenProperties DEF Code
<1>4. PICK c, m : c = Code(b) /\ m = Len(c)
  OBVIOUS
<1>5. c \in Seq(Instruction) /\ m \in Nat
  BY <1>2, <1>3, <1>4
<1>6. PICK t : t = CodeOf(b)
  OBVIOUS
<1>7. /\ t \in Seq(Placed) /\ Len(t) = m
      /\ \A i \in 1 .. m : SameInsn(t[i], b, i)
  <2>1. t = [i \in 1 .. m |-> [bb |-> b, op |-> c[i].op, def |-> c[i].def, uses |-> c[i].uses]]
    BY <1>4, <1>6 DEF CodeOf
  <2>2. \A i \in 1 .. m : c[i] \in Instruction
    BY <1>4, <1>5, RangeFacts
  <2>3. \A i \in 1 .. m : [bb |-> b, op |-> c[i].op, def |-> c[i].def, uses |-> c[i].uses] \in Placed
    BY <1>2, <2>2 DEF Placed, Instruction
  <2>4. t \in [1 .. m -> Placed]
    BY <2>1, <2>3
  <2>5. \A i \in 1 .. m : SameInsn(t[i], b, i)
    BY <1>4, <2>1 DEF SameInsn
  <2> QED
    BY <1>5, <2>4, <2>5, FunctionSeq
<1>8. ins \in Seq(Placed) /\ L \in Nat /\ fid \in [Blocks -> Nat]
  BY <1>1, LenProperties DEF Layout
<1>9. /\ ins2 \in Seq(Placed) /\ Len(ins2) = L + m
      /\ \A n \in 1 .. L : ins2[n] = ins[n]
      /\ \A i \in 1 .. m : ins2[L + i] = t[i]
  <2>1. ins2 = ins \o t
    BY <1>6
  <2>2. /\ ins2 \in Seq(Placed) /\ Len(ins2) = Len(ins) + Len(t)
        /\ \A n \in 1 .. Len(ins) : ins2[n] = ins[n]
        /\ \A n \in Len(ins) + 1 .. Len(ins) + Len(t) : ins2[n] = t[n - Len(ins)]
    BY <1>7, <1>8, <2>1, JoinedFacts
  <2>3. \A i \in 1 .. m : L + i \in L + 1 .. L + m /\ (L + i) - L = i
    BY <1>5, <1>8
  <2> QED
    BY <1>1, <1>7, <2>2, <2>3
<1>10. fid2 \in [Blocks -> Nat] /\ fid2[b] = L + 1 /\ \A x \in Blocks : x # b => fid2[x] = fid[x]
  BY <1>1, <1>2, <1>8
<1>11. \A j \in 1 .. k : so[j] # b
  <2>1. \A i, j \in 1 .. Len(so) : i # j => so[i] # so[j]
    BY <1>1, LenProperties DEF Distinct
  <2>2. \A j \in 1 .. k : j \in 1 .. Len(so) /\ j # k + 1
    BY <1>2
  <2> QED
    BY <1>1, <1>2, <2>1, <2>2
<1>12. ASSUME NEW j \in 1 .. k
       PROVE  /\ so[j] \in Blocks /\ fid2[so[j]] = fid[so[j]] /\ EndOf(fid2, j) = EndOf(fid, j)
              /\ EndOf(fid, j) <= L /\ EndOf(fid, j) \in Int /\ PlacedAt(ins2, fid2, j)
  <2>1. so[j] \in Blocks /\ fid2[so[j]] = fid[so[j]] /\ fid[so[j]] \in Nat
    BY <1>2, <1>8, <1>10, <1>11
  <2>2. PlacedAt(ins, fid, j)
    BY DEF Layout
  <2>3. PICK x, f, w : x = so[j] /\ f = fid[x] /\ w = Len(Code(x))
    OBVIOUS
  <2>4. EndOf(fid2, j) = f - 1 + w /\ EndOf(fid, j) = f - 1 + w /\ f \in Nat /\ w \in Nat
    BY <1>1, <1>3, <2>1, <2>3 DEF EndOf
  <2>5. f > 0 /\ f - 1 + w <= L /\ \A i \in 1 .. w : SameInsn(ins[f - 1 + i], x, i)
    BY <1>1, <2>2, <2>3, <2>4 DEF PlacedAt
  <2>6. \A i \in 1 .. w : f - 1 + i \in 1 .. L
    BY <1>8, <2>4, <2>5
  <2>7. \A i \in 1 .. w : SameInsn(ins2[f - 1 + i], x, i)
    BY <1>9, <2>5, <2>6
  <2>8. f - 1 + w <= Len(ins2)
    BY <1>5, <1>8, <1>9, <2>4, <2>5
  <2>9. PlacedAt(ins2, fid2, j)
    BY <1>1, <2>1, <2>3, <2>4, <2>5, <2>7, <2>8 DEF PlacedAt
  <2> QED
    BY <2>1, <2>4, <2>5, <2>9
<1>13. EndOf(fid2, k + 1) = L + m
  BY <1>1, <1>4, <1>5, <1>8, <1>10 DEF EndOf
<1>14. PlacedAt(ins2, fid2, k + 1)
  <2>1. \A i \in 1 .. m : SameInsn(ins2[L + 1 - 1 + i], b, i)
    <3>1. \A i \in 1 .. m : L + 1 - 1 + i = L + i
      BY <1>8
    <3> QED
      BY <1>7, <1>9, <3>1
  <2>2. L + 1 > 0 /\ L + m <= Len(ins2)
    BY <1>5, <1>8, <1>9
  <2> QED
    BY <1>1, <1>4, <1>10, <1>13, <2>1, <2>2 DEF PlacedAt
<1>15. \A j \in 1 .. k + 1 : j = k + 1 \/ j \in 1 .. k
  OBVIOUS
<1>16. ASSUME NEW n \in 1 .. Len(ins2)
       PROVE  \E j \in 1 .. k + 1 : \E i \in 1 .. Len(Code(so[j])) : n = fid2[so[j]] - 1 + i
  <2>1. CASE n \in 1 .. L
    <3>1. PICK j \in 1 .. k : \E i \in 1 .. Len(Code(so[j])) : n = fid[so[j]] - 1 + i
      BY <1>1, <2>1 DEF Layout
    <3>2. j \in 1 .. k + 1 /\ fid2[so[j]] = fid[so[j]]
      BY <1>12
    <3> QED
      BY <3>1, <3>2
  <2>2. CASE n \notin 1 .. L
    <3>1. n - L \in 1 .. m /\ n = L + 1 - 1 + (n - L)
      BY <1>5, <1>8, <1>9, <2>2
    <3>2. k + 1 \in 1 .. k + 1 /\ so[k + 1] = b
      BY <1>1
    <3>3. PICK i \in 1 .. m : n = L + 1 - 1 + i
      BY <3>1
    <3>4. n = fid2[so[k + 1]] - 1 + i /\ i \in 1 .. Len(Code(so[k + 1]))
      <4>1. fid2[so[k + 1]] = L + 1 /\ Len(Code(so[k + 1])) = m
        BY ONLY <1>4, <1>10, <3>2
      <4>2. PICK x, y : x = fid2[so[k + 1]] /\ y = Len(Code(so[k + 1]))
        OBVIOUS
      <4>3. x = L + 1 /\ y = m
        BY <4>1, <4>2
      <4>4. n = x - 1 + i /\ i \in 1 .. y
        BY <1>5, <1>8, <3>3, <4>3
      <4> QED
        BY <4>2, <4>4
    <3> QED
      BY <3>2, <3>4
  <2> QED
    BY <2>1, <2>2
<1>17. ASSUME NEW i \in 1 .. k + 1, NEW j \in 1 .. k + 1, i < j
       PROVE  EndOf(fid2, i) < fid2[so[j]]
  <2>1. i \in 1 .. k
    BY <1>17
  <2>2. CASE j = k + 1
    <3>1. EndOf(fid2, i) = EndOf(fid, i) /\ EndOf(fid, i) <= L /\ EndOf(fid, i) \in Int
      BY <1>12, <2>1
    <3>2. fid2[so[j]] = L + 1
      BY <1>1, <1>10, <2>2
    <3>3. PICK e : e = EndOf(fid, i)
      OBVIOUS
    <3>4. e < L + 1
      BY <1>8, <3>1, <3>3
    <3> QED
      BY <3>1, <3>2, <3>3, <3>4
  <2>3. CASE j \in 1 .. k
    <3>1. EndOf(fid2, i) = EndOf(fid, i) /\ fid2[so[j]] = fid[so[j]]
      BY <1>12, <2>1, <2>3
    <3>2. EndOf(fid, i) < fid[so[j]]
      BY <1>1, <1>17, <2>1, <2>3 DEF Layout
    <3> QED
      BY <3>1, <3>2
  <2> QED
    BY <1>15, <2>2, <2>3
<1>18. Layout(ins2, fid2, k + 1)
  <2>1. \A j \in 1 .. k + 1 : PlacedAt(ins2, fid2, j)
    BY <1>12, <1>14, <1>15
  <2>2. \A n \in 1 .. Len(ins2) : \E j \in 1 .. k + 1 : \E i \in 1 .. Len(Code(sorted_bbs[j])) :
          n = fid2[sorted_bbs[j]] - 1 + i
    BY <1>1, <1>16
  <2>3. \A i, j \in 1 .. k + 1 : i < j => EndOf(fid2, i) < fid2[sorted_bbs[j]]
    BY <1>1, <1>17
  <2>4. ins2 \in Seq(Placed) /\ fid2 \in [Blocks -> Nat]
    BY <1>9, <1>10
  <2> QED
    BY ONLY <2>1, <2>2, <2>3, <2>4 DEF Layout
<1> QED
  BY <1>1, <1>4, <1>5, <1>7, <1>8, <1>9, <1>12, <1>13, <1>18

LEMMA ReplacedLast ==
  ASSUME NEW A, NEW s \in Seq(A), s # <<>>, NEW e \in A
  PROVE  Append(Front(s), e) = [s EXCEPT ![Len(s)] = e]
<1>1. PICK n : n = Len(s)
  OBVIOUS
<1>2. n \in Nat /\ n > 0 /\ s \in [1 .. n -> A]
  BY <1>1, EmptySeq, LenProperties
<1>3. Front(s) = SubSeq(s, 1, n - 1)
  BY <1>1 DEF Front
<1>4. PICK t : t = SubSeq(s, 1, n - 1)
  OBVIOUS
<1>5. t \in Seq(A) /\ Len(t) = n - 1 /\ \A k \in 1 .. n - 1 : t[k] = s[k]
  <2>1. 1 \in 1 .. Len(s) + 1 /\ n - 1 \in 1 - 1 .. Len(s)
    BY <1>1, <1>2
  <2>2. /\ SubSeq(s, 1, n - 1) \in Seq(A) /\ Len(SubSeq(s, 1, n - 1)) = (n - 1) - 1 + 1
        /\ \A k \in 1 .. (n - 1) - 1 + 1 : SubSeq(s, 1, n - 1)[k] = s[1 + k - 1]
    BY <2>1, PartFacts
  <2>3. (n - 1) - 1 + 1 = n - 1 /\ \A k \in 1 .. n - 1 : 1 + k - 1 = k
    BY <1>2
  <2> QED
    BY <1>4, <2>2, <2>3
<1>6. PICK w : w = Append(t, e)
  OBVIOUS
<1>7. w \in Seq(A) /\ Len(w) = n /\ (\A k \in 1 .. n - 1 : w[k] = s[k]) /\ w[n] = e
  <2>1. /\ w \in Seq(A) /\ Len(w) = Len(t) + 1 /\ (\A k \in 1 .. Len(t) : w[k] = t[k])
        /\ w[Len(t) + 1] = e
    BY <1>5, <1>6, AppendedFacts
  <2>2. n - 1 + 1 = n
    BY <1>2
  <2> QED
    BY <1>5, <2>1, <2>2
<1>8. w \in [1 .. n -> A]
  BY <1>7, LenProperties
<1>9. PICK x : x = [s EXCEPT ![n] = e]
  OBVIOUS
<1>10. x \in [1 .. n -> A] /\ x[n] = e /\ \A k \in 1 .. n : k # n => x[k] = s[k]
  BY <1>2, <1>9
<1>11. \A k \in 1 .. n : w[k] = x[k]
  <2>1. \A k \in 1 .. n : k = n \/ k \in 1 .. n - 1
    BY <1>2
  <2> QED
    BY <1>2, <1>7, <1>10, <2>1
<1>12. w = x
  <2>1. w = [k \in 1 .. n |-> w[k]] /\ x = [k \in 1 .. n |-> x[k]]
    BY <1>8, <1>10
  <2>2. [k \in 1 .. n |-> w[k]] = [k \in 1 .. n |-> x[k]]
    BY <1>11
  <2> QED
    BY <2>1, <2>2
<1> QED
  BY <1>1, <1>3, <1>4, <1>6, <1>9, <1>12

\* What is live at the end of one of the first k blocks, and written by then, does not end before.
Ends(li, ins, fid, k) ==
  \A j \in 1 .. k : \A v \in VRegs :
    /\ v \in liveout[sorted_bbs[j]] /\ Code(sorted_bbs[j]) # <<>>
    /\ \E m \in 1 .. EndOf(fid, j) : ins[m].def = v
    => li[v].last_use >= EndOf(fid, j)

IntervalsSoFar(li, q, ins, fid, k) ==
  /\ li \in [VRegs -> Interval] /\ q \in [ParamRegs -> Seq(Entry)]
  /\ IntervalsTo(li, ins, Len(ins)) /\ QueuesTo(q, Len(ins) + 1)
  /\ Layout(ins, fid, k) /\ Ends(li, ins, fid, k)

\* The parameter registers that come in with a block, and those that go out with it.
CameIn(q, b, n0) ==
  [r \in ParamRegs |-> IF Code(b) # <<>> /\ r \in livein[b] THEN Append(q[r], NewEntry(r, n0 + 1)) ELSE q[r]]

LEMMA CameInKeeps ==
  ASSUME NEW q, q \in [ParamRegs -> Seq(Entry)], NEW n0 \in Nat, QueuesTo(q, n0 + 1), NEW b,
         NEW q2, q2 = CameIn(q, b, n0)
  PROVE  q2 \in [ParamRegs -> Seq(Entry)] /\ QueuesTo(q2, n0 + 1)
<1>1. n0 + 1 \in Nat /\ n0 + 1 <= n0 + 1
  OBVIOUS
<1>2. ASSUME NEW r \in ParamRegs
      PROVE  /\ q2[r] \in Seq(Entry) /\ q2[r] \in Seq(Entries(r)) /\ InSequence(q2[r])
             /\ \A i \in 1 .. Len(q2[r]) : q2[r][i].phys_use <= n0 + 1
  <2>1. CASE q2[r] = q[r]
    BY <2>1 DEF QueuesTo
  <2>2. CASE q2[r] # q[r]
    <3>1. q2[r] = Append(q[r], NewEntry(r, n0 + 1))
      BY <2>2 DEF CameIn
    <3>2. PICK p : p = SetDef(q, r, n0 + 1)
      OBVIOUS
    <3>3. p \in [ParamRegs -> Seq(Entry)] /\ QueuesTo(p, n0 + 1)
      BY <1>1, <3>2, DefinedKeeps
    <3>4. p[r] = q2[r]
      BY <3>1, <3>2 DEF SetDef
    <3>5. /\ p[r] \in Seq(Entry) /\ p[r] \in Seq(Entries(r)) /\ InSequence(p[r])
          /\ \A i \in 1 .. Len(p[r]) : p[r][i].phys_use <= n0 + 1
      BY <3>3 DEF QueuesTo
    <3> QED
      BY <3>4, <3>5
  <2> QED
    BY <2>1, <2>2
<1>3. q2 = [r \in ParamRegs |-> q2[r]]
  BY DEF CameIn
<1> QED
  BY <1>2, <1>3 DEF QueuesTo

WentOut(q, here, n) ==
  [r \in ParamRegs |-> IF r \in here THEN Append(Front(q[r]), [Last(q[r]) EXCEPT !.phys_use = n]) ELSE q[r]]

LEMMA WentOutKeeps ==
  ASSUME NEW q, q \in [ParamRegs -> Seq(Entry)], NEW n \in Nat, QueuesTo(q, n), NEW here,
         \A r \in here : q[r] # <<>>, NEW q2, q2 = WentOut(q, here, n)
  PROVE  q2 \in [ParamRegs -> Seq(Entry)] /\ QueuesTo(q2, n)
<1>1. ASSUME NEW r \in ParamRegs
      PROVE  /\ q2[r] \in Seq(Entry) /\ q2[r] \in Seq(Entries(r)) /\ InSequence(q2[r])
             /\ \A i \in 1 .. Len(q2[r]) : q2[r][i].phys_use <= n
  <2>1. CASE r \notin here
    <3>1. q2[r] = q[r]
      BY <2>1 DEF WentOut
    <3> QED
      BY <3>1 DEF QueuesTo
  <2>2. CASE r \in here
    <3>1. PICK s, e : s = q[r] /\ e = [s[Len(s)] EXCEPT !.phys_use = n]
      OBVIOUS
    <3>2. s \in Seq(Entries(r)) /\ s # <<>> /\ Len(s) \in Nat /\ Len(s) > 0
      BY <2>2, <3>1, EmptySeq, LenProperties DEF QueuesTo
    <3>3. s[Len(s)] \in Entries(r)
      BY <3>2, RangeFacts
    <3>4. e \in Entries(r)
      BY <3>1, <3>3 DEF Entries
    <3>5. q2[r] = Append(Front(s), e)
      BY <2>2, <3>1 DEF WentOut, Last
    <3>6. q2[r] = [s EXCEPT ![Len(s)] = e]
      BY ONLY <3>2, <3>4, <3>5, ReplacedLast
    <3>7. PICK p : p = SetUse(q, r, n)
      OBVIOUS
    <3>8. p \in [ParamRegs -> Seq(Entry)] /\ QueuesTo(p, n)
      BY <3>7, UsedKeeps
    <3>9. p[r] = q2[r]
      BY <3>1, <3>6, <3>7 DEF SetUse
    <3>10. /\ p[r] \in Seq(Entry) /\ p[r] \in Seq(Entries(r)) /\ InSequence(p[r])
           /\ \A i \in 1 .. Len(p[r]) : p[r][i].phys_use <= n
      BY <3>8 DEF QueuesTo
    <3> QED
      BY <3>9, <3>10
  <2> QED
    BY <2>1, <2>2
<1>2. q2 = [r \in ParamRegs |-> q2[r]]
  BY DEF WentOut
<1> QED
  BY <1>1, <1>2 DEF QueuesTo

\* The intervals after a block that ends at n: what goes out of it is in use as far as that.
LiveOut(li, b, n) ==
  [v \in VRegs |-> IF v \in liveout[b] /\ Code(b) # <<>> /\ li[v].first_def # 0
                   THEN [li[v] EXCEPT !.last_use = n] ELSE li[v]]

LEMMA LiveOutFacts ==
  ASSUME NEW li \in [VRegs -> Interval], NEW b, NEW n \in Nat, NEW li2, li2 = LiveOut(li, b, n)
  PROVE  /\ li2 \in [VRegs -> Interval]
         /\ \A v \in VRegs :
              /\ li2[v].first_def = li[v].first_def
              /\ IF v \in liveout[b] /\ Code(b) # <<>> /\ li[v].first_def # 0
                 THEN li2[v].last_use = n ELSE li2[v].last_use = li[v].last_use
<1>1. ASSUME NEW v \in VRegs
      PROVE  /\ li2[v] \in Interval /\ li2[v].first_def = li[v].first_def
             /\ IF v \in liveout[b] /\ Code(b) # <<>> /\ li[v].first_def # 0
                THEN li2[v].last_use = n ELSE li2[v].last_use = li[v].last_use
  <2>1. PICK x : x = li[v]
    OBVIOUS
  <2>2. PICK e : e = [x EXCEPT !.last_use = n]
    OBVIOUS
  <2>3. x \in Interval
    BY <2>1
  <2>4. e \in Interval /\ e.first_def = x.first_def /\ e.last_use = n
    BY ONLY n \in Nat, <2>2, <2>3 DEF Interval
  <2>5. li2[v] = IF v \in liveout[b] /\ Code(b) # <<>> /\ x.first_def # 0 THEN e ELSE x
    BY <2>1, <2>2 DEF LiveOut
  <2> QED
    BY <2>1, <2>3, <2>4, <2>5
<1>2. li2 = [v \in VRegs |-> li2[v]]
  BY DEF LiveOut
<1> QED
  BY <1>1, <1>2

LEMMA ComputeKeeps ==
  ASSUME prog \in Programs, sorted_bbs \in Seq(Blocks), Distinct(sorted_bbs),
         NEW k \in Nat, at = k + 1, IntervalsSoFar(LI, queue, insns, first_id, k), ComputeLiveInterval
  PROVE  IntervalsSoFar(LI', queue', insns', first_id', k + 1) /\ k < Len(sorted_bbs)
<1> DEFINE b == sorted_bbs[at]
           c == Code(b)
           n0 == Len(insns)
           come == CameIn(queue, b, n0)
           st0 == [LI |-> LI, queue |-> come, used |-> {}]
           st == SetupBlock(st0, c, n0)
           here == {r \in ParamRegs : /\ c # <<>> /\ r \in liveout[b] /\ st.queue[r] # <<>>
                                      /\ Last(st.queue[r]).first_def > n0}
<1>0. b = sorted_bbs[at] /\ c = Code(b) /\ n0 = Len(insns)
  OBVIOUS
<1>1. b = sorted_bbs[k + 1] /\ c = Code(b) /\ n0 = Len(insns)
  OBVIOUS
<1>2. come = CameIn(queue, b, n0)
  OBVIOUS
<1>3. st0 = [LI |-> LI, queue |-> come, used |-> {}]
  OBVIOUS
<1>4. st = SetupBlock(st0, c, n0)
  OBVIOUS
<1>5. \A r \in here : st.queue[r] # <<>>
  BY Zenon
<1>6. /\ insns' = insns \o CodeOf(b)
      /\ first_id' = [first_id EXCEPT ![b] = n0 + 1]
      /\ LI' = LiveOut(st.LI, b, n0 + Len(c))
      /\ queue' = WentOut(st.queue, here, n0 + Len(c) + 1)
      /\ at <= Len(sorted_bbs)
  BY ComputeLiveInterval, Zenon
     DEF ComputeLiveInterval, CodeOf, LiveOut, WentOut, SetupBlock, CameIn, NewEntry
<1> HIDE DEF b, c, n0, come, st0, st, here
<1>7. k < Len(sorted_bbs) /\ Len(sorted_bbs) \in Nat
  BY <1>6, LenProperties
<1>8. b \in Blocks
  BY <1>1, <1>7, RangeFacts
<1>9. c \in Seq(Instruction) /\ (\A i \in 1 .. Len(c) : GoodInsn(c[i])) /\ Len(c) \in Nat
  <2>1. c \in Seq(Instruction)
    BY <1>1, <1>8, CgAnalysesAssumption DEF Code
  <2>2. ASSUME NEW i \in 1 .. Len(c) PROVE GoodInsn(c[i])
    <3>1. c[i] \in Instruction /\ c[i] \in Range(c)
      BY <2>1, RangeFacts
    <3>2. \A r \in {c[i].def} \cup Range(c[i].uses) : IsVirtual(r) => r \in VRegs
      BY <1>1, <1>8, <3>1, VirtualRegisters DEF Code
    <3> QED
      BY <3>1, <3>2 DEF GoodInsn, Instruction
  <2> QED
    BY <2>1, <2>2, LenProperties
<1>10. PICK ins2, fid2, li2, q2, m, N : /\ ins2 = insns' /\ fid2 = first_id' /\ li2 = LI' /\ q2 = queue'
                                        /\ m = Len(c) /\ N = n0 + m
  OBVIOUS
<1>11. /\ LI \in [VRegs -> Interval] /\ queue \in [ParamRegs -> Seq(Entry)]
       /\ IntervalsTo(LI, insns, n0) /\ QueuesTo(queue, n0 + 1)
       /\ Layout(insns, first_id, k) /\ Ends(LI, insns, first_id, k)
  BY <1>1 DEF IntervalsSoFar
<1>12. /\ Layout(ins2, fid2, k + 1)
       /\ Len(ins2) = n0 + m /\ n0 \in Nat /\ m \in Nat
       /\ \A n \in 1 .. n0 : ins2[n] = insns[n]
       /\ \A i \in 1 .. m : SameInsn(ins2[n0 + i], b, i)
       /\ \A j \in 1 .. k : EndOf(fid2, j) = EndOf(first_id, j)
       /\ EndOf(fid2, k + 1) = N
  <2>1. b = sorted_bbs[k + 1] /\ Added(insns, first_id, b, ins2, fid2)
    BY <1>1, <1>6, <1>10 DEF Added
  <2>2. AddedRight(insns, first_id, b, ins2, fid2, k)
    BY ONLY prog \in Programs, sorted_bbs \in Seq(Blocks), Distinct(sorted_bbs), k \in Nat, <1>7, <1>11, <2>1,
            LayoutStep
  <2> QED
    BY <1>1, <1>10, <2>2 DEF AddedRight
<1>13. come \in [ParamRegs -> Seq(Entry)] /\ QueuesTo(come, n0 + 1)
  BY ONLY <1>2, <1>11, <1>12, CameInKeeps
<1>14. st0 \in SetupStates /\ st0.LI = LI /\ st0.queue = come
  BY ONLY <1>3, <1>11, <1>13 DEF SetupStates
<1>15. IntervalsTo(LI, ins2, n0)
  BY <1>11, <1>12 DEF IntervalsTo
<1>16. SetupInv(st0, ins2, n0, n0 + 1)
  BY <1>13, <1>14, <1>15 DEF SetupInv
<1>17. \A i \in 1 .. m : ins2[n0 + i].def = c[i].def /\ ins2[n0 + i].uses = c[i].uses
  BY <1>1, <1>12 DEF SameInsn
<1>18. st \in SetupStates /\ SetupInv(st, ins2, N, N + 1) /\ Longer(LI, st.LI, n0)
  <2>1. \A i \in 1 .. Len(c) : ins2[n0 + i].def = c[i].def /\ ins2[n0 + i].uses = c[i].uses
    BY <1>10, <1>17
  <2>2. /\ st \in SetupStates
        /\ SetupInv(st, ins2, n0 + Len(c), n0 + Len(c) + 1) /\ Longer(st0.LI, st.LI, n0)
    BY ONLY <1>4, <1>9, <1>12, <1>14, <1>16, <2>1, SetupBlockKeeps
  <2> QED
    BY <1>10, <1>14, <2>2
<1>19. N \in Nat /\ N >= n0 /\ N + 1 \in Nat
  BY <1>10, <1>12
<1>20. st.LI \in [VRegs -> Interval] /\ st.queue \in [ParamRegs -> Seq(Entry)]
  BY <1>18 DEF SetupStates
<1>21. li2 = LiveOut(st.LI, b, N) /\ q2 = WentOut(st.queue, here, N + 1)
  BY <1>6, <1>10
<1>22. /\ li2 \in [VRegs -> Interval]
       /\ \A v \in VRegs :
            /\ li2[v].first_def = st.LI[v].first_def
            /\ IF v \in liveout[b] /\ Code(b) # <<>> /\ st.LI[v].first_def # 0
               THEN li2[v].last_use = N ELSE li2[v].last_use = st.LI[v].last_use
  BY ONLY <1>19, <1>20, <1>21, LiveOutFacts
<1>23. q2 \in [ParamRegs -> Seq(Entry)] /\ QueuesTo(q2, N + 1)
  <2>1. \A r \in here : st.queue[r] # <<>>
    BY <1>5
  <2>2. QueuesTo(st.queue, N + 1)
    BY <1>18 DEF SetupInv
  <2> QED
    BY ONLY <1>19, <1>20, <1>21, <2>1, <2>2, WentOutKeeps
<1>24. \A v \in VRegs : /\ LI[v].last_use \in Nat /\ st.LI[v].last_use \in Nat /\ li2[v].last_use \in Nat
                        /\ LI[v].last_use >= n0 => li2[v].last_use >= n0
  <2> SUFFICES ASSUME NEW v \in VRegs
               PROVE  /\ LI[v].last_use \in Nat /\ st.LI[v].last_use \in Nat /\ li2[v].last_use \in Nat
                      /\ LI[v].last_use >= n0 => li2[v].last_use >= n0
    OBVIOUS
  <2>1. LI[v].last_use \in Nat /\ st.LI[v].last_use \in Nat /\ li2[v].last_use \in Nat
    BY <1>11, <1>20, <1>22 DEF Interval
  <2> QED
    BY <1>12, <1>18, <1>19, <1>22, <2>1 DEF Longer
<1>25. IntervalsTo(li2, ins2, N)
  <2>1. IntervalsTo(st.LI, ins2, N)
    BY <1>18 DEF SetupInv
  <2>2. \A v \in VRegs : \A n \in 1 .. N : st.LI[v].last_use >= n => li2[v].last_use >= n
    BY <1>19, <1>22, <1>24
  <2>3. \A v \in VRegs : li2[v].first_def # 0 => li2[v].first_def \in 1 .. N /\ ins2[li2[v].first_def].def = v
    BY <1>22, <2>1 DEF IntervalsTo
  <2>4. \A n \in 1 .. N : IsVirtual(ins2[n].def) =>
          /\ ins2[n].def \in VRegs /\ li2[ins2[n].def].first_def \in 1 .. n /\ li2[ins2[n].def].last_use >= n
    BY <1>22, <2>1, <2>2 DEF IntervalsTo
  <2>5. \A n \in 1 .. N : \A u \in Range(ins2[n].uses) : IsVirtual(u) => u \in VRegs /\ li2[u].last_use >= n
    BY <2>1, <2>2 DEF IntervalsTo
  <2> QED
    BY <2>3, <2>4, <2>5 DEF IntervalsTo
<1>26. Ends(li2, ins2, fid2, k + 1)
  <2> SUFFICES ASSUME NEW j \in 1 .. k + 1, NEW v \in VRegs,
                      v \in liveout[sorted_bbs[j]], Code(sorted_bbs[j]) # <<>>,
                      NEW x \in 1 .. EndOf(fid2, j), ins2[x].def = v
               PROVE  li2[v].last_use >= EndOf(fid2, j)
    BY DEF Ends
  <2>1. CASE j = k + 1
    <3>1. sorted_bbs[j] = b /\ EndOf(fid2, j) = N /\ x \in 1 .. N
      BY <1>1, <1>12, <2>1
    <3>2. IntervalsTo(st.LI, ins2, N) /\ IsVirtual(v)
      BY <1>18, VirtualRegisters DEF SetupInv
    <3>3. st.LI[v].first_def \in 1 .. x
      BY <3>1, <3>2 DEF IntervalsTo
    <3>4. li2[v].last_use = N
      BY <1>22, <3>1, <3>3
    <3> QED
      BY <1>19, <3>1, <3>4
  <2>2. CASE j \in 1 .. k
    <3>1. PICK e : e = EndOf(first_id, j)
      OBVIOUS
    <3>2. EndOf(fid2, j) = e
      BY <1>12, <2>2, <3>1
    <3>3. e \in Int /\ e <= n0
      <4>1. PlacedAt(insns, first_id, j) /\ first_id \in [Blocks -> Nat]
        BY <1>11, <2>2 DEF Layout
      <4>2. sorted_bbs[j] \in Blocks
        BY <1>7, <2>2, RangeFacts
      <4>3. Len(Code(sorted_bbs[j])) \in Nat
        BY <4>2, CgAnalysesAssumption, LenProperties DEF Code
      <4>4. first_id[sorted_bbs[j]] \in Nat
        BY <4>1, <4>2
      <4> QED
        BY <1>1, <3>1, <4>1, <4>3, <4>4 DEF PlacedAt, EndOf
    <3>4. x \in 1 .. e /\ x \in 1 .. n0
      BY <1>12, <3>2, <3>3
    <3>5. insns[x].def = v
      BY <1>12, <3>4
    <3>6. LI[v].last_use >= e
      BY <1>11, <2>2, <3>1, <3>4, <3>5 DEF Ends
    <3>7. li2[v].last_use >= e
      BY <1>12, <1>18, <1>19, <1>22, <1>24, <3>3, <3>6 DEF Longer
    <3> QED
      BY <3>2, <3>7
  <2> QED
    BY <2>1, <2>2
<1>27. IntervalsSoFar(li2, q2, ins2, fid2, k + 1)
  BY <1>10, <1>12, <1>22, <1>23, <1>25, <1>26 DEF IntervalsSoFar
<1> QED
  BY <1>7, <1>10, <1>27

\* A virtual register is not a parameter register.
LEMMA VirtualNotParam ==
  ASSUME NEW v \in VRegs
  PROVE  v \notin ParamRegs
<1>1. v > kMaxRegNum /\ v \in Nat
  BY VirtualRegisters DEF IsVirtual
<1>2. SUFFICES ASSUME v \in ParamRegs PROVE FALSE
  OBVIOUS
<1>3. v \in 1 .. kMaxRegNum
  BY <1>2, RegistersAreApart
<1>4. v <= kMaxRegNum
  <2>1. PICK k : k = kMaxRegNum
    OBVIOUS
  <2>2. k = 100
    BY <2>1 DEF kMaxRegNum
  <2>3. v \in 1 .. k
    BY <1>3, <2>1
  <2> QED
    BY <2>1, <2>2, <2>3
<1> QED
  BY <1>1, <1>4 DEF kMaxRegNum

\* Where the code of a block begins and ends.
LEMMA PlaceFacts ==
  ASSUME prog \in Programs, sorted_bbs \in Seq(Blocks), NEW k \in Nat, k <= Len(sorted_bbs),
         NEW ins, NEW fid, Layout(ins, fid, k), NEW j \in 1 .. k
  PROVE  /\ sorted_bbs[j] \in Blocks /\ Len(Code(sorted_bbs[j])) \in Nat
         /\ fid[sorted_bbs[j]] \in Nat /\ fid[sorted_bbs[j]] > 0
         /\ EndOf(fid, j) \in Nat /\ EndOf(fid, j) = fid[sorted_bbs[j]] - 1 + Len(Code(sorted_bbs[j]))
         /\ EndOf(fid, j) <= Len(ins) /\ Len(ins) \in Nat
         /\ \A i \in 1 .. k : i < j => EndOf(fid, i) < fid[sorted_bbs[j]]
<1>1. PICK x : x = sorted_bbs[j]
  OBVIOUS
<1>2. x \in Blocks
  BY <1>1, LenProperties, RangeFacts
<1>3. Len(Code(x)) \in Nat
  BY <1>2, CgAnalysesAssumption, LenProperties DEF Code
<1>4. PICK f, w, e : f = fid[x] /\ w = Len(Code(x)) /\ e = EndOf(fid, j)
  OBVIOUS
<1>5. fid \in [Blocks -> Nat] /\ PlacedAt(ins, fid, j) /\ Len(ins) \in Nat
  BY LenProperties DEF Layout
<1>6. f \in Nat /\ w \in Nat /\ e = f - 1 + w
  BY <1>1, <1>2, <1>3, <1>4, <1>5 DEF EndOf
<1>7. f > 0 /\ e <= Len(ins)
  BY <1>1, <1>4, <1>5 DEF PlacedAt
<1>8. e \in Nat
  BY <1>6, <1>7
<1>9. \A i \in 1 .. k : i < j => EndOf(fid, i) < f
  BY <1>1, <1>4 DEF Layout
<1> QED
  BY <1>1, <1>2, <1>4, <1>5, <1>6, <1>7, <1>8, <1>9

LEMMA EndsGrow ==
  ASSUME prog \in Programs, sorted_bbs \in Seq(Blocks), NEW k \in Nat, k <= Len(sorted_bbs),
         NEW ins, NEW fid, Layout(ins, fid, k), NEW j \in 1 .. k, NEW i \in 1 .. j
  PROVE  EndOf(fid, i) <= EndOf(fid, j) /\ EndOf(fid, i) \in Nat /\ EndOf(fid, j) \in Nat
<1>1. i \in 1 .. k
  OBVIOUS
<1>2. PICK x, y, f, w : x = EndOf(fid, i) /\ y = EndOf(fid, j) /\ f = fid[sorted_bbs[j]] /\ w = Len(Code(sorted_bbs[j]))
  OBVIOUS
<1>3. x \in Nat
  BY <1>1, <1>2, PlaceFacts
<1>4. y \in Nat /\ w \in Nat /\ f \in Nat /\ y = f - 1 + w /\ (i < j => x < f)
  <2>1. /\ w \in Nat /\ f \in Nat /\ y \in Nat /\ y = f - 1 + w
        /\ \A h \in 1 .. k : h < j => EndOf(fid, h) < f
    BY <1>2, PlaceFacts
  <2> QED
    BY <1>1, <1>2, <2>1
<1>5. i = j \/ i < j
  OBVIOUS
<1>6. x <= y
  <2>1. CASE i = j
    <3>1. x = y
      BY <1>2, <2>1
    <3> QED
      BY <1>3, <3>1
  <2>2. CASE i < j
    <3>1. x < f
      BY <1>4, <2>2
    <3> QED
      BY <1>3, <1>4, <3>1
  <2> QED
    BY <1>5, <2>1, <2>2
<1> QED
  BY <1>2, <1>3, <1>4, <1>6

\* What was written in one of the first j blocks is written by an instruction of one of them.
LEMMA WrittenPlace ==
  ASSUME prog \in Programs, sorted_bbs \in Seq(Blocks), NEW k \in Nat, k <= Len(sorted_bbs),
         NEW ins, NEW fid, Layout(ins, fid, k), NEW j \in 0 .. k, NEW v \in VRegs, WrittenBy(j, v)
  PROVE  \E i \in 1 .. j : \E m \in 1 .. EndOf(fid, i) : ins[m].def = v
<1>1. PICK i \in 1 .. j : \E insn \in Range(Code(sorted_bbs[i])) : v \in Defs(insn)
  BY DEF WrittenBy
<1>2. i \in 1 .. k
  OBVIOUS
<1>3. PICK x, f, w, e : x = sorted_bbs[i] /\ f = fid[x] /\ w = Len(Code(x)) /\ e = EndOf(fid, i)
  OBVIOUS
<1>4. x \in Blocks /\ f \in Nat /\ f > 0 /\ w \in Nat /\ e = f - 1 + w
  BY <1>2, <1>3, PlaceFacts
<1>5. Code(x) \in Seq(Instruction)
  BY <1>4, CgAnalysesAssumption DEF Code
<1>6. PICK p \in 1 .. w : v \in Defs(Code(x)[p])
  BY <1>1, <1>3, <1>5, RangeFacts
<1>7. v \notin ParamRegs
  BY VirtualNotParam
<1>8. v = Code(x)[p].def
  BY <1>6, <1>7 DEF Defs
<1>9. SameInsn(ins[f - 1 + p], x, p)
  <2>1. PlacedAt(ins, fid, i)
    BY <1>2 DEF Layout
  <2> QED
    BY <1>3, <1>6, <2>1 DEF PlacedAt
<1>10. f - 1 + p \in 1 .. e
  BY <1>4, <1>6
<1>11. ins[f - 1 + p].def = v
  BY <1>8, <1>9 DEF SameInsn
<1> QED
  BY <1>3, <1>10, <1>11

\* No virtual register is live where the program starts.
NothingComesIn == \A v \in VRegs : v \notin livein[1]

\* All blocks have been numbered.
Numbered ==
  /\ Analysed /\ NothingComesIn /\ prog \in Programs /\ sorted_bbs \in Seq(Blocks)
  /\ Len(sorted_bbs) \in Nat
  /\ IntervalsSoFar(LI, queue, insns, first_id, Len(sorted_bbs))

LEMMA NumberedPlace ==
  ASSUME Numbered, NEW n \in 1 .. Len(insns)
  PROVE  /\ Len(insns) \in Nat
         /\ \E j \in 1 .. Len(sorted_bbs) : \E i \in 1 .. Len(Code(sorted_bbs[j])) :
              /\ n = first_id[sorted_bbs[j]] - 1 + i
              /\ SameInsn(insns[n], sorted_bbs[j], i)
              /\ Len(Code(sorted_bbs[j])) \in Nat /\ sorted_bbs[j] \in Blocks
              /\ first_id[sorted_bbs[j]] \in Nat /\ first_id[sorted_bbs[j]] > 0
              /\ EndOf(first_id, j) \in Nat /\ n <= EndOf(first_id, j)
<1>1. PICK k : k = Len(sorted_bbs)
  OBVIOUS
<1>2. k \in Nat /\ k <= Len(sorted_bbs) /\ Layout(insns, first_id, k) /\ prog \in Programs /\ sorted_bbs \in Seq(Blocks)
  BY <1>1 DEF Numbered, IntervalsSoFar
<1>3. PICK j \in 1 .. k : \E i \in 1 .. Len(Code(sorted_bbs[j])) : n = first_id[sorted_bbs[j]] - 1 + i
  BY <1>2 DEF Layout
<1>4. PICK i \in 1 .. Len(Code(sorted_bbs[j])) : n = first_id[sorted_bbs[j]] - 1 + i
  BY <1>3
<1>5. SameInsn(insns[n], sorted_bbs[j], i)
  <2>1. PlacedAt(insns, first_id, j)
    BY <1>2 DEF Layout
  <2> QED
    BY <1>4, <2>1 DEF PlacedAt
<1>6. /\ sorted_bbs[j] \in Blocks /\ Len(Code(sorted_bbs[j])) \in Nat
      /\ first_id[sorted_bbs[j]] \in Nat /\ first_id[sorted_bbs[j]] > 0
      /\ EndOf(first_id, j) \in Nat
      /\ EndOf(first_id, j) = first_id[sorted_bbs[j]] - 1 + Len(Code(sorted_bbs[j]))
      /\ Len(insns) \in Nat
  BY <1>2, PlaceFacts
<1>7. n <= EndOf(first_id, j)
  BY <1>4, <1>6
<1> QED
  BY <1>1, <1>4, <1>5, <1>6, <1>7

\* What goes out of a block has an interval that goes on at least to its end.
LEMMA OutFacts ==
  ASSUME Numbered, NEW j \in 1 .. Len(sorted_bbs), Code(sorted_bbs[j]) # <<>>,
         NEW v \in VRegs, v \in liveout[sorted_bbs[j]]
  PROVE  LI[v].last_use >= EndOf(first_id, j)
<1>1. PICK k : k = Len(sorted_bbs)
  OBVIOUS
<1>2. k \in Nat /\ k <= Len(sorted_bbs) /\ Layout(insns, first_id, k) /\ prog \in Programs /\ sorted_bbs \in Seq(Blocks)
  BY <1>1 DEF Numbered, IntervalsSoFar
<1>3. WrittenBy(j, v)
  BY WrittenOut DEF Numbered, NothingComesIn
<1>4. j \in 0 .. k /\ j \in 1 .. k
  BY <1>1, <1>2
<1>5. PICK i \in 1 .. j : \E m \in 1 .. EndOf(first_id, i) : insns[m].def = v
  BY <1>2, <1>3, <1>4, WrittenPlace
<1>6. EndOf(first_id, i) <= EndOf(first_id, j) /\ EndOf(first_id, i) \in Nat /\ EndOf(first_id, j) \in Nat
  BY <1>2, <1>4, EndsGrow
<1>7. \E m \in 1 .. EndOf(first_id, j) : insns[m].def = v
  BY <1>5, <1>6
<1> QED
  BY <1>7 DEF Numbered, IntervalsSoFar, Ends

\* Where a register is read its interval has begun.
LEMMA UseBegun ==
  ASSUME Numbered, NEW n \in 1 .. Len(insns), NEW u \in Range(insns[n].uses), IsVirtual(u)
  PROVE  u \in VRegs /\ LI[u].first_def \in 1 .. n - 1 /\ LI[u].last_use >= n
<1>1. PICK k : k = Len(sorted_bbs)
  OBVIOUS
<1>2. k \in Nat /\ k <= Len(sorted_bbs) /\ Layout(insns, first_id, k) /\ prog \in Programs /\ sorted_bbs \in Seq(Blocks)
  BY <1>1 DEF Numbered, IntervalsSoFar
<1>3. IntervalsTo(LI, insns, Len(insns)) /\ Len(insns) \in Nat
  BY NumberedPlace DEF Numbered, IntervalsSoFar
<1>4. u \in VRegs /\ LI[u].last_use >= n
  BY <1>3 DEF IntervalsTo
<1>15. PICK j \in 1 .. k : \E i \in 1 .. Len(Code(sorted_bbs[j])) :
         /\ n = first_id[sorted_bbs[j]] - 1 + i
         /\ SameInsn(insns[n], sorted_bbs[j], i)
         /\ Len(Code(sorted_bbs[j])) \in Nat /\ sorted_bbs[j] \in Blocks
         /\ first_id[sorted_bbs[j]] \in Nat /\ first_id[sorted_bbs[j]] > 0
  BY <1>1, NumberedPlace
<1>5. PICK i \in 1 .. Len(Code(sorted_bbs[j])) :
         /\ n = first_id[sorted_bbs[j]] - 1 + i
         /\ SameInsn(insns[n], sorted_bbs[j], i)
         /\ Len(Code(sorted_bbs[j])) \in Nat /\ sorted_bbs[j] \in Blocks
         /\ first_id[sorted_bbs[j]] \in Nat /\ first_id[sorted_bbs[j]] > 0
  BY <1>15
<1>6. PICK x, f : x = sorted_bbs[j] /\ f = first_id[x]
  OBVIOUS
<1>7. SUFFICES \E m \in 1 .. n - 1 : insns[m].def = u
  <2> SUFFICES ASSUME NEW m \in 1 .. n - 1, insns[m].def = u
               PROVE  LI[u].first_def \in 1 .. n - 1
    BY <1>4
  <2>1. m \in 1 .. Len(insns) /\ IsVirtual(insns[m].def)
    BY <1>3
  <2>2. LI[insns[m].def].first_def \in 1 .. m
    BY <1>3, <2>1 DEF IntervalsTo
  <2> QED
    BY <2>2
<1>8. u \in Range(Code(x)[i].uses)
  BY <1>5, <1>6 DEF SameInsn
<1>9. j \in 1 .. Len(sorted_bbs) /\ u \notin livein[1] /\ Analysed
  BY <1>1, <1>4 DEF Numbered, NothingComesIn
<1>10. WrittenBy(j - 1, u) \/ \E h \in 1 .. i - 1 : u \in Defs(Code(x)[h])
  BY <1>6, <1>8, <1>9, WrittenUse
<1>11. CASE WrittenBy(j - 1, u)
  <2>1. j - 1 \in 0 .. k
    BY <1>2
  <2>2. PICK h \in 1 .. j - 1 : \E m \in 1 .. EndOf(first_id, h) : insns[m].def = u
    BY <1>2, <1>4, <1>11, <2>1, WrittenPlace
  <2>3. PICK m \in 1 .. EndOf(first_id, h) : insns[m].def = u
    BY <2>2
  <2>4. h \in 1 .. k /\ h < j
    BY <1>2
  <2>5. EndOf(first_id, h) < f /\ EndOf(first_id, h) \in Nat
    <3>1. EndOf(first_id, h) \in Nat
      BY <1>2, <2>4, PlaceFacts
    <3>2. EndOf(first_id, h) < f
      BY <1>2, <1>6, <2>4 DEF Layout
    <3> QED
      BY <3>1, <3>2
  <2>6. m \in 1 .. n - 1
    BY <1>5, <1>6, <2>5
  <2> QED
    BY <2>3, <2>6
<1>12. CASE \E h \in 1 .. i - 1 : u \in Defs(Code(x)[h])
  <2>1. PICK h \in 1 .. i - 1 : u \in Defs(Code(x)[h])
    BY <1>12
  <2>2. u \notin ParamRegs
    BY <1>4, VirtualNotParam
  <2>3. u = Code(x)[h].def
    BY <2>1, <2>2 DEF Defs
  <2>4. h \in 1 .. Len(Code(x)) /\ f - 1 + h \in 1 .. n - 1
    BY <1>5, <1>6
  <2>5. SameInsn(insns[f - 1 + h], x, h)
    <3>1. PlacedAt(insns, first_id, j)
      BY <1>2 DEF Layout
    <3> QED
      BY <1>6, <2>4, <3>1 DEF PlacedAt
  <2>6. insns[f - 1 + h].def = u
    BY <2>3, <2>5 DEF SameInsn
  <2> QED
    BY <2>4, <2>6
<1> QED
  BY <1>10, <1>11, <1>12

\* Pairs of numbers, of which the first is at most last.
Pairs(last) == {p \in Int \X Int : p[1] <= last}

LEMMA PairFacts ==
  ASSUME NEW last \in Int, NEW x \in Int, NEW y \in Int, x <= last
  PROVE  << x, y >> \in Pairs(last)
  BY DEF Pairs

LEMMA AddRangeTypes ==
  ASSUME NEW last \in Int, NEW r \in Seq(Pairs(last)), NEW from \in Int, NEW to \in Int, from <= last
  PROVE  AddRange(r, from, to) \in Seq(Pairs(last))
<1> DEFINE P == Pairs(last)
<1>1. << from, to >> \in P
  BY PairFacts
<1>4. r \in Seq(P)
  OBVIOUS
<1>2. CASE r = <<>>
  <2>1. AddRange(r, from, to) = << << from, to >> >>
    BY <1>2 DEF AddRange
  <2>2. PICK e : e = << from, to >>
    OBVIOUS
  <2> HIDE DEF P
  <2>3. << e >> \in Seq(P)
    BY <1>1, <2>2, SingleFacts
  <2> QED
    BY <2>1, <2>2, <2>3 DEF P
<1>3. CASE r # <<>>
  <2>1. PICK h : h = r[1]
    OBVIOUS
  <2>2. Head(r) = h /\ h \in P /\ Tail(r) \in Seq(P)
    <3> HIDE DEF P
    <3>1. Head(r) \in P /\ Tail(r) \in Seq(P)
      BY ONLY <1>3, <1>4, HeadTailProperties
    <3>2. Head(r) = r[1]
      BY <1>3, <1>4
    <3> QED
      BY <2>1, <3>1, <3>2
  <2>3. h[2] \in Int /\ h[1] \in Int
    BY <2>2 DEF Pairs
  <2>4. << from, IF to >= h[2] THEN to ELSE h[2] >> \in P
    <3>1. PICK y : y = IF to >= h[2] THEN to ELSE h[2]
      OBVIOUS
    <3>2. y \in Int
      BY <2>3, <3>1
    <3> QED
      BY <3>1, <3>2, PairFacts
  <2>5. PICK e, f : e = << from, to >> /\ f = << from, IF to >= h[2] THEN to ELSE h[2] >>
    OBVIOUS
  <2> HIDE DEF P
  <2>6. << e >> \o r \in Seq(P) /\ << f >> \o Tail(r) \in Seq(P)
    <3>1. << e >> \in Seq(P) /\ << f >> \in Seq(P) /\ Tail(r) \in Seq(P) /\ r \in Seq(P)
      BY <1>1, <2>2, <2>4, <2>5, SingleFacts DEF P
    <3> QED
      BY ONLY <3>1, JoinedFacts
  <2>7. AddRange(r, from, to) = IF to < h[1] THEN << e >> \o r
                                ELSE IF from < h[1] THEN << f >> \o Tail(r) ELSE r
    BY <1>3, <2>2, <2>5 DEF AddRange
  <2> QED
    BY <2>6, <2>7 DEF P
<1> QED
  BY <1>2, <1>3

\* One instruction of the loop over the ranges of v.
RangeStep(v, p, n) ==
  LET b    == insns[n].bb
      last == n = Len(insns) \/ insns[n + 1].bb # b
      left  == IF last /\ v \in liveout[b] THEN AddRange(p, first_id[b], n + 1) ELSE p
      def  == IF insns[n].def = v /\ left # <<>>
              THEN <<<<n, Head(left)[2]>>>> \o Tail(left) ELSE left
  IN  IF v \in Range(insns[n].uses) THEN AddRange(def, first_id[b], n) ELSE def

LEMMA RangeStepTypes ==
  ASSUME Numbered, NEW v \in VRegs, NEW n \in 1 .. Len(insns), NEW p \in Seq(Pairs(LI[v].last_use))
  PROVE  RangeStep(v, p, n) \in Seq(Pairs(LI[v].last_use))
<1> DEFINE l == LI[v].last_use
           P == Pairs(l)
           x == insns[n]
           b == x.bb
           f == first_id[b]
           o == IF (n = Len(insns) \/ insns[n + 1].bb # b) /\ v \in liveout[b] THEN AddRange(p, f, n + 1) ELSE p
           d == IF x.def = v /\ o # <<>> THEN << << n, Head(o)[2] >> >> \o Tail(o) ELSE o
<1>1. RangeStep(v, p, n) = IF v \in Range(x.uses) THEN AddRange(d, f, n) ELSE d
  BY DEF RangeStep
<1>2. Len(insns) \in Nat /\ n \in Nat /\ IntervalsTo(LI, insns, Len(insns)) /\ l \in Int
  <2>1. l \in Nat /\ IntervalsTo(LI, insns, Len(insns))
    BY DEF Numbered, IntervalsSoFar, Interval
  <2> QED
    BY <2>1, NumberedPlace
<1>3. /\ f \in Nat /\ f <= n
      /\ v \in liveout[b] => f <= l
  <2>1. PICK j \in 1 .. Len(sorted_bbs) : \E i \in 1 .. Len(Code(sorted_bbs[j])) :
              /\ n = first_id[sorted_bbs[j]] - 1 + i
              /\ SameInsn(insns[n], sorted_bbs[j], i)
              /\ Len(Code(sorted_bbs[j])) \in Nat /\ sorted_bbs[j] \in Blocks
              /\ first_id[sorted_bbs[j]] \in Nat /\ first_id[sorted_bbs[j]] > 0
              /\ EndOf(first_id, j) \in Nat /\ n <= EndOf(first_id, j)
    BY NumberedPlace
  <2>2. PICK i \in 1 .. Len(Code(sorted_bbs[j])) :
              /\ n = first_id[sorted_bbs[j]] - 1 + i
              /\ SameInsn(insns[n], sorted_bbs[j], i)
              /\ Len(Code(sorted_bbs[j])) \in Nat /\ sorted_bbs[j] \in Blocks
              /\ first_id[sorted_bbs[j]] \in Nat /\ first_id[sorted_bbs[j]] > 0
              /\ EndOf(first_id, j) \in Nat /\ n <= EndOf(first_id, j)
    BY <2>1
  <2>3. b = sorted_bbs[j]
    BY <2>2 DEF SameInsn
  <2>4. PICK g, w, e : g = first_id[sorted_bbs[j]] /\ w = Len(Code(sorted_bbs[j])) /\ e = EndOf(first_id, j)
    OBVIOUS
  <2>5. n = g - 1 + i /\ i \in 1 .. w /\ w \in Nat /\ g \in Nat /\ e \in Nat /\ n <= e /\ f = g
    BY <2>2, <2>3, <2>4
  <2>6. f \in Nat /\ f <= n
    BY <2>5
  <2>7. ASSUME v \in liveout[b] PROVE f <= l
    <3>1. Code(sorted_bbs[j]) # <<>>
      BY <2>2
    <3>2. l >= e
      BY <2>3, <2>4, <2>7, <3>1, OutFacts
    <3> QED
      BY <1>2, <2>5, <2>6, <3>2
  <2> QED
    BY <2>6, <2>7
<1>4. x.def = v => n <= l
  <2>1. IsVirtual(v)
    BY VirtualRegisters
  <2> QED
    BY <1>2, <2>1 DEF IntervalsTo
<1>5. v \in Range(x.uses) => n <= l
  <2>1. IsVirtual(v)
    BY VirtualRegisters
  <2> QED
    BY <1>2, <2>1 DEF IntervalsTo
<1>6. p \in Seq(P)
  OBVIOUS
<1> HIDE DEF l, x, b, f
<1>7. o \in Seq(P)
  <2>1. CASE v \in liveout[b]
    <3>1. AddRange(p, f, n + 1) \in Seq(P)
      BY <1>2, <1>3, <1>6, <2>1, AddRangeTypes
    <3> HIDE DEF P
    <3> QED
      BY <1>6, <3>1
  <2>2. CASE v \notin liveout[b]
    BY <1>6, <2>2
  <2> QED
    BY <2>1, <2>2
<1>8. d \in Seq(P)
  <2>1. CASE x.def = v /\ o # <<>>
    <3> HIDE DEF o
    <3>1. PICK h : h = o[1]
      OBVIOUS
    <3>2. Head(o) = h /\ h \in P /\ Tail(o) \in Seq(P)
      <4> HIDE DEF P
      <4> QED
        BY <1>7, <2>1, <3>1, HeadTailProperties
    <3>3. << n, h[2] >> \in P
      <4>1. h[2] \in Int /\ n \in Int /\ n <= l
        BY <1>2, <1>4, <2>1, <3>2 DEF Pairs
      <4> QED
        BY <1>2, <4>1, PairFacts
    <3>4. PICK e : e = << n, h[2] >>
      OBVIOUS
    <3> HIDE DEF P
    <3>5. << e >> \in Seq(P)
      BY <3>3, <3>4, SingleFacts
    <3>6. << e >> \o Tail(o) \in Seq(P)
      BY ONLY <3>2, <3>5, JoinedFacts
    <3>7. d = << e >> \o Tail(o)
      BY <2>1, <3>2, <3>4
    <3> QED
      BY <3>6, <3>7
  <2>2. CASE ~(x.def = v /\ o # <<>>)
    <3> HIDE DEF o, P
    <3> QED
      BY <1>7, <2>2
  <2> QED
    BY <2>1, <2>2
<1> HIDE DEF d, o
<1>9. CASE v \in Range(x.uses)
  <2>1. f \in Int /\ n \in Int /\ f <= l
    BY <1>2, <1>3, <1>5, <1>9
  <2>2. AddRange(d, f, n) \in Seq(P)
    BY <1>2, <1>8, <2>1, AddRangeTypes
  <2> QED
    BY <1>1, <1>9, <2>2 DEF l
<1>10. CASE v \notin Range(x.uses)
  BY <1>1, <1>8, <1>10 DEF l
<1> QED
  BY <1>9, <1>10

LEMMA RangesTypes ==
  ASSUME Numbered, NEW v \in VRegs, Len(insns) \in Nat
  PROVE  Ranges(v) \in Seq(Pairs(LI[v].last_use))
<1> DEFINE k == Len(insns)
           T == Seq(Pairs(LI[v].last_use))
           Eq(f) == f = [i \in 0 .. k |-> IF i = 0 THEN <<>> ELSE RangeStep(v, f[i - 1], k + 1 - i)]
           R == CHOOSE f : Eq(f)
           g == [i \in 1 .. k |-> [t \in T |-> RangeStep(v, t, k + 1 - i)]]
<1>1. Ranges(v) = R[k]
  BY DEF Ranges, RangeStep
<1>2. k \in Nat /\ \A i \in 1 .. k : k + 1 - i \in 1 .. k
  OBVIOUS
<1>3. <<>> \in T
  OBVIOUS
<1>4. \A t \in T : \A i \in 1 .. k : RangeStep(v, t, k + 1 - i) \in T
  <2> SUFFICES ASSUME NEW t \in T, NEW i \in 1 .. k PROVE RangeStep(v, t, k + 1 - i) \in T
    OBVIOUS
  <2>1. PICK n : n = k + 1 - i
    OBVIOUS
  <2>2. n \in 1 .. Len(insns)
    BY <1>2, <2>1
  <2>3. RangeStep(v, t, n) \in T
    BY <2>2, RangeStepTypes
  <2> QED
    BY <2>1, <2>3
<1> HIDE DEF T, k
<1>5. \A i \in 1 .. k : \A t \in T : g[i][t] = RangeStep(v, t, k + 1 - i) /\ g[i][t] \in T
  BY <1>4
<1>6. Eq(R)
  <2>1. \E f \in [0 .. k -> T] : Iterates(k, <<>>, g, f)
    <3> HIDE DEF g
    <3> QED
      BY <1>2, <1>3, <1>5, Iteration
  <2>2. PICK f \in [0 .. k -> T] : Iterates(k, <<>>, g, f)
    BY <2>1
  <2> HIDE DEF g
  <2>3. ASSUME NEW i \in 0 .. k
        PROVE  (IF i = 0 THEN <<>> ELSE g[i][f[i - 1]]) = IF i = 0 THEN <<>> ELSE RangeStep(v, f[i - 1], k + 1 - i)
    <3>1. i # 0 => i \in 1 .. k /\ i - 1 \in 0 .. k
      BY <1>2
    <3>2. i # 0 => f[i - 1] \in T
      BY <2>2, <3>1
    <3> QED
      BY <1>5, <3>1, <3>2
  <2>4. Eq(f)
    BY <2>2, <2>3 DEF Iterates
  <2> HIDE DEF Eq
  <2> QED
    BY <2>4
<1> HIDE DEF R, g
<1>7. \A i \in 0 .. k : R[i] = IF i = 0 THEN <<>> ELSE RangeStep(v, R[i - 1], k + 1 - i)
  BY <1>6, Zenon
<1> DEFINE V == {i \in 0 .. k : R[i] \in T}
<1>8. 0 \in V
  BY <1>2, <1>3, <1>7
<1>9. ASSUME NEW i \in 1 .. k, i - 1 \in V PROVE i \in V
  <2>1. i \in 0 .. k /\ i # 0
    BY <1>2
  <2> QED
    BY <1>4, <1>7, <1>9, <2>1
<1> HIDE DEF V
<1>10. 0 .. k \subseteq V
  BY ONLY <1>2, <1>8, <1>9, UpToInduction
<1>11. R[k] \in T
  BY <1>2, <1>10 DEF V
<1> QED
  BY <1>1, <1>11 DEF T

\* A hole of an interval ends with it, or before.
LEMMA HolesTypes ==
  ASSUME Numbered, NEW v \in VRegs, Len(insns) \in Nat, NEW p \in Holes(v)
  PROVE  p[1] \in Int /\ p[2] \in Int /\ p[2] <= LI[v].last_use
<1>1. PICK r, l : r = Ranges(v) /\ l = LI[v].last_use
  OBVIOUS
<1>2. r \in Seq(Pairs(l))
  BY <1>1, RangesTypes
<1>3. PICK i \in 1 .. Len(r) - 1 : p = << r[i][2], r[i + 1][1] >>
  BY <1>1 DEF Holes
<1>4. Len(r) \in Nat /\ r \in [1 .. Len(r) -> Pairs(l)]
  BY <1>2, LenProperties
<1>5. i \in 1 .. Len(r) /\ i + 1 \in 1 .. Len(r)
  BY <1>4
<1>6. r[i] \in Pairs(l) /\ r[i + 1] \in Pairs(l)
  BY <1>4, <1>5
<1>7. r[i][2] \in Int /\ r[i + 1][1] \in Int /\ r[i + 1][1] <= l
  BY <1>6 DEF Pairs
<1> QED
  BY <1>1, <1>3, <1>7

\* One interval of the lowest priority, if there are too many.
CutOne(a, overlapNum) == IF Cardinality(a) > overlapNum THEN a \ FindLowestPrioInActive(a) ELSE a

LEMMA AnalysisTypes ==
  ASSUME NEW st, st.active \subseteq VRegs, st.spilled \subseteq VRegs, NEW n, NEW overlapNum,
         IsVirtual(insns[n].def) => insns[n].def \in VRegs,
         NEW st2, st2 = LiveIntervalAnalysisAt(st, n, overlapNum)
  PROVE  st2 \in [active : SUBSET VRegs, spilled : SUBSET VRegs]
<1> DEFINE d == insns[n].def
           kept == {v \in st.active : LI[v].last_use > n}
           act == IF IsVirtual(d) /\ LI[d].first_def = n THEN kept \cup {d} ELSE kept
           m == Cardinality(VRegs)
           T == SUBSET VRegs
           Eq(f) == f = [k \in 0 .. m |-> IF k = 0 THEN act ELSE CutOne(f[k - 1], overlapNum)]
           C == CHOOSE f : Eq(f)
           g == [k \in 1 .. m |-> [t \in T |-> CutOne(t, overlapNum)]]
<1>1. st2 = [active |-> C[m], spilled |-> st.spilled \cup (act \ C[m])]
  BY DEF LiveIntervalAnalysisAt, CutOne
<1>2. act \in T
  OBVIOUS
<1>3. m \in Nat
  BY VirtualRegisters, FS_CardinalityType
<1>4. \A t \in T : CutOne(t, overlapNum) \in T
  BY DEF CutOne
<1> HIDE DEF act, m
<1>5. \A k \in 1 .. m : \A t \in T : g[k][t] = CutOne(t, overlapNum) /\ g[k][t] \in T
  BY <1>4
<1> HIDE DEF T
<1>6. Eq(C)
  <2>1. \E f \in [0 .. m -> T] : Iterates(m, act, g, f)
    <3> HIDE DEF g
    <3> QED
      BY <1>2, <1>3, <1>5, Iteration
  <2>2. PICK f \in [0 .. m -> T] : Iterates(m, act, g, f)
    BY <2>1
  <2> HIDE DEF g
  <2>3. ASSUME NEW k \in 0 .. m
        PROVE  (IF k = 0 THEN act ELSE g[k][f[k - 1]]) = IF k = 0 THEN act ELSE CutOne(f[k - 1], overlapNum)
    <3>1. k # 0 => k \in 1 .. m /\ k - 1 \in 0 .. m
      BY <1>3
    <3>2. k # 0 => f[k - 1] \in T
      BY <2>2, <3>1
    <3> QED
      BY <1>5, <3>1, <3>2
  <2>4. Eq(f)
    BY <2>2, <2>3 DEF Iterates
  <2> HIDE DEF Eq
  <2> QED
    BY <2>4
<1> HIDE DEF C, g
<1>7. \A k \in 0 .. m : C[k] = IF k = 0 THEN act ELSE CutOne(C[k - 1], overlapNum)
  BY <1>6, Zenon
<1> DEFINE V == {k \in 0 .. m : C[k] \in T}
<1>8. 0 \in V
  BY <1>2, <1>3, <1>7
<1>9. ASSUME NEW k \in 1 .. m, k - 1 \in V PROVE k \in V
  <2>1. k \in 0 .. m /\ k # 0
    BY <1>3
  <2> QED
    BY <1>4, <1>7, <1>9, <2>1
<1> HIDE DEF V
<1>10. 0 .. m \subseteq V
  BY ONLY <1>3, <1>8, <1>9, UpToInduction
<1>11. C[m] \in T
  BY <1>3, <1>10 DEF V
<1> QED
  BY <1>1, <1>2, <1>11 DEF T

LEMMA PreSpilledTypes ==
  ASSUME NEW overlapNum, Len(insns) \in Nat,
         \A n \in 1 .. Len(insns) : IsVirtual(insns[n].def) => insns[n].def \in VRegs
  PROVE  PreSpilled(overlapNum) \subseteq VRegs
<1> DEFINE m == Len(insns)
           T == [active : SUBSET VRegs, spilled : SUBSET VRegs]
           s0 == [active |-> {}, spilled |-> {}]
           Eq(f) == f = [n \in 0 .. m |-> IF n = 0 THEN s0 ELSE LiveIntervalAnalysisAt(f[n - 1], n, overlapNum)]
           C == CHOOSE f : Eq(f)
           g == [n \in 1 .. m |-> [t \in T |-> LiveIntervalAnalysisAt(t, n, overlapNum)]]
<1>1. PreSpilled(overlapNum) = C[m].spilled
  BY DEF PreSpilled
<1>2. s0 \in T
  OBVIOUS
<1>3. m \in Nat
  OBVIOUS
<1>4. \A t \in T : \A n \in 1 .. m : LiveIntervalAnalysisAt(t, n, overlapNum) \in T
  <2> SUFFICES ASSUME NEW t \in T, NEW n \in 1 .. m PROVE LiveIntervalAnalysisAt(t, n, overlapNum) \in T
    OBVIOUS
  <2>1. t.active \subseteq VRegs /\ t.spilled \subseteq VRegs
    OBVIOUS
  <2> QED
    BY <2>1, AnalysisTypes
<1> HIDE DEF m, s0
<1>5. \A n \in 1 .. m : \A t \in T : g[n][t] = LiveIntervalAnalysisAt(t, n, overlapNum) /\ g[n][t] \in T
  BY <1>4
<1>12. \A t \in T : t.spilled \subseteq VRegs
  OBVIOUS
<1> HIDE DEF T
<1>6. Eq(C)
  <2>1. \E f \in [0 .. m -> T] : Iterates(m, s0, g, f)
    <3> HIDE DEF g
    <3> QED
      BY <1>2, <1>3, <1>5, Iteration
  <2>2. PICK f \in [0 .. m -> T] : Iterates(m, s0, g, f)
    BY <2>1
  <2> HIDE DEF g
  <2>3. ASSUME NEW n \in 0 .. m
        PROVE  (IF n = 0 THEN s0 ELSE g[n][f[n - 1]])
                 = IF n = 0 THEN s0 ELSE LiveIntervalAnalysisAt(f[n - 1], n, overlapNum)
    <3>1. n # 0 => n \in 1 .. m /\ n - 1 \in 0 .. m
      BY <1>3
    <3>2. n # 0 => f[n - 1] \in T
      BY <2>2, <3>1
    <3> QED
      BY <1>5, <3>1, <3>2
  <2>4. Eq(f)
    BY <2>2, <2>3 DEF Iterates
  <2> HIDE DEF Eq
  <2> QED
    BY <2>4
<1> HIDE DEF C, g
<1>7. \A n \in 0 .. m : C[n] = IF n = 0 THEN s0 ELSE LiveIntervalAnalysisAt(C[n - 1], n, overlapNum)
  BY <1>6, Zenon
<1> DEFINE V == {n \in 0 .. m : C[n] \in T}
<1>8. 0 \in V
  BY <1>2, <1>3, <1>7
<1>9. ASSUME NEW n \in 1 .. m, n - 1 \in V PROVE n \in V
  <2>1. n \in 0 .. m /\ n # 0
    BY <1>3
  <2> QED
    BY <1>4, <1>7, <1>9, <2>1
<1> HIDE DEF V
<1>10. 0 .. m \subseteq V
  BY ONLY <1>3, <1>8, <1>9, UpToInduction
<1>11. C[m] \in T
  BY <1>3, <1>10 DEF V
<1> QED
  BY <1>1, <1>11, <1>12

\* The intervals with their holes.
WithHoles(li) == [v \in VRegs |-> [li[v] EXCEPT !.holes = Holes(v)]]

LEMMA WithHolesFacts ==
  ASSUME LI \in [VRegs -> Interval], NEW v \in VRegs
  PROVE  /\ WithHoles(LI)[v].first_def = LI[v].first_def /\ WithHoles(LI)[v].last_use = LI[v].last_use
         /\ WithHoles(LI)[v].holes = Holes(v)
  BY DEF WithHoles, Interval

\* The ranges are built: what the scan needs of the intervals is there.
LEMMA PoolReady ==
  ASSUME Numbered, BuildIntervalRanges
  PROVE  PoolRight'
<1>1. PICK x, l, k, q, h : x = insns /\ l = LI /\ k = Len(insns) /\ q = queue /\ h = WithHoles(LI)
  OBVIOUS
<1>2. insns' = x /\ queue' = q /\ LI' = h
  BY <1>1 DEF BuildIntervalRanges, WithHoles
<1>3. /\ l \in [VRegs -> Interval] /\ q \in [ParamRegs -> Seq(Entry)]
      /\ IntervalsTo(l, x, k) /\ QueuesTo(q, k + 1) /\ x \in Seq(Placed) /\ k \in Nat
  BY <1>1, LenProperties DEF Numbered, IntervalsSoFar, Layout
<1>4. \A n \in 1 .. k : x[n].uses \in Seq(Nat)
  <2>1. x \in [1 .. k -> Placed]
    BY <1>1, <1>3, LenProperties
  <2>2. \A p \in Placed : p.uses \in Seq(Nat)
    BY DEF Placed
  <2> QED
    BY <2>1, <2>2
<1>5. \A v \in VRegs : h[v].first_def = l[v].first_def /\ h[v].last_use = l[v].last_use /\ h[v].holes = Holes(v)
  BY <1>1, <1>3, WithHolesFacts
<1>6. \A v \in VRegs : l[v].first_def \in Nat /\ l[v].last_use \in Nat
  BY <1>3 DEF Interval
<1>7. \A v \in VRegs : l[v].first_def # 0 => l[v].first_def \in 1 .. k /\ x[l[v].first_def].def = v
  BY <1>3 DEF IntervalsTo
<1>8. \A v \in VRegs : \A p \in h[v].holes : p[1] \in Int /\ p[2] \in Int /\ p[2] <= h[v].last_use
  BY <1>1, <1>3, <1>5, HolesTypes
<1>9. \A b, c \in VRegs : h[b].first_def = h[c].first_def /\ h[b].first_def # 0 => b = c
  BY <1>5, <1>7
<1>10. IntervalTypes'
  BY <1>2, <1>5, <1>6, <1>8, <1>9 DEF IntervalTypes
<1>11. \A n \in 1 .. k : IsVirtual(x[n].def) =>
         x[n].def \in VRegs /\ h[x[n].def].first_def \in 1 .. n /\ h[x[n].def].last_use >= n
  <2> SUFFICES ASSUME NEW n \in 1 .. k, IsVirtual(x[n].def)
               PROVE  x[n].def \in VRegs /\ h[x[n].def].first_def \in 1 .. n /\ h[x[n].def].last_use >= n
    OBVIOUS
  <2>1. x[n].def \in VRegs /\ l[x[n].def].first_def \in 1 .. n /\ l[x[n].def].last_use >= n
    BY <1>3 DEF IntervalsTo
  <2> QED
    BY <1>5, <2>1
<1>12. \A n \in 1 .. k : \A u \in Range(x[n].uses) :
         IsVirtual(u) => u \in VRegs /\ h[u].first_def \in 1 .. n - 1 /\ h[u].last_use >= n
  <2> SUFFICES ASSUME NEW n \in 1 .. k, NEW u \in Range(x[n].uses), IsVirtual(u)
               PROVE  u \in VRegs /\ h[u].first_def \in 1 .. n - 1 /\ h[u].last_use >= n
    OBVIOUS
  <2>1. u \in VRegs /\ l[u].first_def \in 1 .. n - 1 /\ l[u].last_use >= n
    BY <1>1, UseBegun
  <2> QED
    BY <1>5, <2>1
<1>13. \A b \in VRegs : h[b].first_def # 0 => x[h[b].first_def].def = b
  BY <1>5, <1>7
<1>14. IntervalsRight'
  BY <1>1, <1>2, <1>3, <1>4, <1>10, <1>11, <1>12, <1>13 DEF IntervalsRight
<1>15. \A r \in ParamRegs : q[r] \in Seq(Entries(r)) /\ InSequence(q[r])
  BY <1>3 DEF QueuesTo
<1>16. q = [r \in ParamRegs |-> q[r]]
  BY <1>3
<1>17. spilled' \subseteq VRegs
  <2>1. PICK overlapNum : spilled' = PreSpilled(overlapNum)
    BY DEF BuildIntervalRanges
  <2>2. Len(insns) \in Nat /\ \A n \in 1 .. Len(insns) : IsVirtual(insns[n].def) => insns[n].def \in VRegs
    BY <1>1, <1>3, <1>11
  <2> QED
    BY <2>1, <2>2, PreSpilledTypes
<1>18. \A r \in ParamRegs : queue'[r] \in Seq(Entries(r)) /\ InSequence(queue'[r])
  BY <1>2, <1>15
<1> QED
  BY <1>2, <1>14, <1>16, <1>17, <1>18 DEF PoolRight

\* What is said of the numbering is said of the same program after the step.
LEMMA NumberingStays ==
  ASSUME prog' = prog, sorted_bbs' = sorted_bbs, liveout' = liveout, NEW k, at' = k + 1, k \in Nat,
         IntervalsSoFar(LI', queue', insns', first_id', k)
  PROVE  IntervalsSoFar(LI, queue, insns, first_id, at - 1)'
<1>0. at' - 1 = k
  OBVIOUS
<1>1. \A b : Code(b)' = Code(b)
  BY DEF Code
<1>2. \A j : EndOf(first_id, j)' = EndOf(first_id', j)
  BY <1>1 DEF EndOf
<1>3. \A x, b, i : SameInsn(x, b, i)' <=> SameInsn(x, b, i)
  BY <1>1 DEF SameInsn
<1>4. /\ LI' \in [VRegs -> Interval] /\ queue' \in [ParamRegs -> Seq(Entry)]
      /\ IntervalsTo(LI', insns', Len(insns')) /\ QueuesTo(queue', Len(insns') + 1)
      /\ Layout(insns', first_id', k) /\ Ends(LI', insns', first_id', k)
  BY DEF IntervalsSoFar
<1>5. IntervalsTo(LI, insns, Len(insns))' /\ QueuesTo(queue, Len(insns) + 1)'
  BY <1>4 DEF IntervalsTo, QueuesTo
<1>6. \A j : PlacedAt(insns', first_id', j) => PlacedAt(insns, first_id, j)'
  <2> SUFFICES ASSUME NEW j, PlacedAt(insns', first_id', j) PROVE PlacedAt(insns, first_id, j)'
    OBVIOUS
  <2>1. /\ first_id'[sorted_bbs[j]] > 0 /\ EndOf(first_id', j) <= Len(insns')
        /\ \A i \in 1 .. Len(Code(sorted_bbs[j])) :
             SameInsn(insns'[first_id'[sorted_bbs[j]] - 1 + i], sorted_bbs[j], i)
    BY DEF PlacedAt
  <2>2. \A i \in 1 .. Len(Code(sorted_bbs[j])) :
             SameInsn(insns[first_id[sorted_bbs[j]] - 1 + i], sorted_bbs[j], i)'
    BY <2>1, <1>1 DEF SameInsn
  <2> QED
    BY <1>1, <1>2, <2>1, <2>2 DEF PlacedAt
<1>7. Layout(insns, first_id, at - 1)'
  <2>1. /\ insns' \in Seq(Placed) /\ first_id' \in [Blocks -> Nat]
        /\ \A j \in 1 .. k : PlacedAt(insns', first_id', j)
        /\ \A n \in 1 .. Len(insns') : \E j \in 1 .. k : \E i \in 1 .. Len(Code(sorted_bbs[j])) :
             n = first_id'[sorted_bbs[j]] - 1 + i
        /\ \A i, j \in 1 .. k : i < j => EndOf(first_id', i) < first_id'[sorted_bbs[j]]
    BY <1>4 DEF Layout
  <2>2. \A j \in 1 .. k : PlacedAt(insns, first_id, j)'
    BY <1>6, <2>1
  <2>3. \A n \in 1 .. Len(insns') : \E j \in 1 .. k : \E i \in 1 .. Len(Code(sorted_bbs[j])') :
             n = first_id'[sorted_bbs'[j]] - 1 + i
    BY <1>1, <2>1
  <2>4. \A i, j \in 1 .. k : i < j => EndOf(first_id, i)' < first_id'[sorted_bbs'[j]]
    BY <1>2, <2>1
  <2> QED
    BY <1>0, <2>1, <2>2, <2>3, <2>4 DEF Layout
<1>8. Ends(LI, insns, first_id, at - 1)'
  <2>1. \A j \in 1 .. k : \A v \in VRegs :
          /\ v \in liveout[sorted_bbs[j]] /\ Code(sorted_bbs[j]) # <<>>
          /\ \E m \in 1 .. EndOf(first_id', j) : insns'[m].def = v
          => LI'[v].last_use >= EndOf(first_id', j)
    BY <1>4 DEF Ends
  <2>2. \A j \in 1 .. k : \A v \in VRegs :
          /\ v \in liveout'[sorted_bbs'[j]] /\ Code(sorted_bbs[j])' # <<>>
          /\ \E m \in 1 .. EndOf(first_id, j)' : insns'[m].def = v
          => LI'[v].last_use >= EndOf(first_id, j)'
    BY <1>1, <1>2, <2>1
  <2> QED
    BY <1>0, <2>2 DEF Ends
<1> QED
  BY <1>4, <1>5, <1>7, <1>8 DEF IntervalsSoFar

\* No instruction has been numbered.
NothingNumbered ==
  /\ insns = <<>> /\ first_id = [b \in Blocks |-> 0]
  /\ LI = [v \in VRegs |-> NoInterval] /\ queue = [r \in ParamRegs |-> <<>>]

LEMMA NumberingStarts ==
  ASSUME NothingNumbered
  PROVE  IntervalsSoFar(LI, queue, insns, first_id, 0)
<1>1. LI \in [VRegs -> Interval] /\ queue \in [ParamRegs -> Seq(Entry)]
  BY DEF NothingNumbered, NoInterval, Interval
<1>2. Len(insns) = 0 /\ insns \in Seq(Placed) /\ first_id \in [Blocks -> Nat]
  BY DEF NothingNumbered
<1>3. \A j \in 1 .. 0 : FALSE
  OBVIOUS
<1>4. IntervalsTo(LI, insns, Len(insns))
  <2>1. \A v \in VRegs : LI[v].first_def = 0
    BY DEF NothingNumbered, NoInterval
  <2> QED
    BY <1>2, <1>3, <2>1 DEF IntervalsTo
<1>5. QueuesTo(queue, Len(insns) + 1)
  <2>1. \A r \in ParamRegs : queue[r] = <<>>
    BY DEF NothingNumbered
  <2>2. \A r : <<>> \in Seq(Entries(r))
    OBVIOUS
  <2>3. InSequence(<<>>)
    BY DEF InSequence
  <2>4. Len(<<>>) = 0
    OBVIOUS
  <2> QED
    BY <1>3, <2>1, <2>2, <2>3, <2>4 DEF QueuesTo
<1>6. Layout(insns, first_id, 0)
  BY <1>2, <1>3 DEF Layout
<1>7. Ends(LI, insns, first_id, 0)
  BY <1>3 DEF Ends
<1> QED
  BY <1>1, <1>4, <1>5, <1>6, <1>7 DEF IntervalsSoFar

(* While the instructions are numbered what was numbered is right. *)
NumberInv ==
  /\ phase \in {"live", "loop", "order"} => NothingNumbered
  /\ phase = "intervals" => /\ at \in Nat /\ at > 0 /\ at - 1 <= Len(sorted_bbs)
                            /\ IntervalsSoFar(LI, queue, insns, first_id, at - 1)

LEMMA NumberInvInit == Init => NumberInv
<1> SUFFICES ASSUME Init PROVE NumberInv
  OBVIOUS
<1>1. phase = "live"
  BY DEF Init, InitIntervals, InitAnalyses
<1>2. NothingNumbered
  BY DEF Init, InitIntervals, NothingNumbered
<1> QED
  BY <1>1, <1>2 DEF NumberInv

LEMMA NumberInvNext ==
  ASSUME OrderInv, NumberInv, [Next]_vars
  PROVE  NumberInv'
<1>1. ASSUME phase \in {"live", "loop", "order"}, phase' \in {"live", "loop", "order"}, UNCHANGED intervalVars
      PROVE  NumberInv'
  <2>1. NothingNumbered'
    BY <1>1 DEF NumberInv, NothingNumbered, intervalVars
  <2> QED
    BY <1>1, <2>1 DEF NumberInv
<1>2. ASSUME phase' \in {"pool", "allocate", "finalize", "run"}
      PROVE  NumberInv'
  BY <1>2 DEF NumberInv
<1>3. CASE NextAnalyses /\ UNCHANGED <<orderVars, intervalVars>>
  <2>1. phase \in {"live", "loop", "order"} /\ phase' \in {"live", "loop", "order"}
    BY <1>3, Zenon DEF NextAnalyses, AnalysisLive, NextIteration, FindBackEdge
  <2> QED
    BY <1>1, <1>3, <2>1, Zenon
<1>4. CASE StartOrder
  BY <1>1, <1>4, Zenon DEF StartOrder, AnalysesDone
<1>5. CASE StartBFS
  BY <1>1, <1>5, Zenon DEF StartBFS
<1>6. CASE BFSStep
  BY <1>1, <1>6, Zenon DEF BFSStep
<1>7. CASE NextSweep
  <2>1. /\ phase = "order" /\ at' = 1 /\ UNCHANGED intervalVars /\ prog' = prog /\ sorted_bbs' = sorted_bbs
        /\ liveout' = liveout
    BY <1>7 DEF NextSweep, liveVars
  <2>2. NothingNumbered /\ NothingNumbered'
    BY <2>1 DEF NumberInv, NothingNumbered, intervalVars
  <2>3. phase' = "intervals" => OrderInv'
    BY OrderInvNext
  <2>4. LI' = LI /\ queue' = queue /\ insns' = insns /\ first_id' = first_id
    BY <2>1 DEF intervalVars
  <2>5. IntervalsSoFar(LI', queue', insns', first_id', 0)
    <3>1. IntervalsSoFar(LI, queue, insns, first_id, 0)
      BY <2>2, NumberingStarts
    <3> QED
      BY <2>4, <3>1
  <2>6. IntervalsSoFar(LI, queue, insns, first_id, at - 1)'
    <3>1. at' = 0 + 1 /\ 0 \in Nat
      BY <2>1
    <3> QED
      BY <2>1, <2>5, <3>1, NumberingStays
  <2>7. at' - 1 <= Len(sorted_bbs')
    <3>1. Len(sorted_bbs) \in Nat
      BY <2>1, LenProperties DEF OrderInv, Ordered
    <3> QED
      BY <2>1, <3>1
  <2> QED
    BY <2>1, <2>2, <2>6, <2>7 DEF NumberInv
<1>8. CASE ComputeLiveInterval
  <2>1. /\ phase = "intervals" /\ phase' = phase /\ at' = at + 1 /\ prog' = prog /\ sorted_bbs' = sorted_bbs
        /\ liveout' = liveout
    BY <1>8, Zenon DEF ComputeLiveInterval, liveVars, orderVars
  <2>2. PICK k : k = at - 1
    OBVIOUS
  <2>3. k \in Nat /\ at = k + 1 /\ IntervalsSoFar(LI, queue, insns, first_id, k)
    BY <2>1, <2>2 DEF NumberInv
  <2>4. sorted_bbs \in Seq(Blocks) /\ Distinct(sorted_bbs) /\ prog \in Programs
    BY <2>1 DEF OrderInv, Ordered
  <2>5. IntervalsSoFar(LI', queue', insns', first_id', k + 1) /\ k < Len(sorted_bbs)
    BY <1>8, <2>3, <2>4, ComputeKeeps
  <2>6. at' = (k + 1) + 1 /\ k + 1 \in Nat /\ Len(sorted_bbs) \in Nat
    BY <2>1, <2>3, <2>4, LenProperties
  <2>7. IntervalsSoFar(LI, queue, insns, first_id, at - 1)'
    BY <2>1, <2>5, <2>6, NumberingStays
  <2>8. at' \in Nat /\ at' > 0 /\ at' - 1 <= Len(sorted_bbs')
    BY <2>1, <2>3, <2>5, <2>6
  <2> QED
    BY <2>1, <2>7, <2>8, Zenon DEF NumberInv
<1>9. CASE BuildIntervalRanges
  BY <1>2, <1>9, Zenon DEF BuildIntervalRanges
<1>10. CASE InitFreeRegPool
  BY <1>2, <1>10, Zenon DEF InitFreeRegPool
<1>11. CASE AllocateInsn
  BY <1>2, <1>11, Zenon DEF AllocateInsn
<1>12. CASE StartFinalize
  BY <1>2, <1>12, Zenon DEF StartFinalize
<1>13. CASE StartRun
  BY <1>2, <1>13, Zenon DEF StartRun
<1>14. CASE FinalizeInsn
  BY <1>2, <1>14, Zenon DEF FinalizeInsn
<1>15. CASE RunBlock
  BY <1>2, <1>15, Zenon DEF RunBlock
<1>16. CASE UNCHANGED vars
  <2>1. /\ phase' = phase /\ at' = at /\ prog' = prog /\ sorted_bbs' = sorted_bbs /\ liveout' = liveout
        /\ LI' = LI /\ queue' = queue /\ insns' = insns /\ first_id' = first_id
    BY <1>16 DEF vars, intervalVars, liveVars, orderVars
  <2>2. NothingNumbered => NothingNumbered'
    BY <2>1 DEF NothingNumbered
  <2>3. CASE phase = "intervals"
    <3>1. PICK k : k = at - 1
      OBVIOUS
    <3>2. k \in Nat /\ at = k + 1 /\ IntervalsSoFar(LI, queue, insns, first_id, k) /\ k <= Len(sorted_bbs)
      BY <2>3, <3>1 DEF NumberInv
    <3>3. IntervalsSoFar(LI', queue', insns', first_id', k)
      BY <2>1, <3>2
    <3>4. IntervalsSoFar(LI, queue, insns, first_id, at - 1)'
      BY <2>1, <3>2, <3>3, NumberingStays
    <3>5. at' \in Nat /\ at' > 0 /\ at' - 1 <= Len(sorted_bbs')
      BY <2>1, <3>2
    <3> QED
      BY <2>1, <2>3, <3>4, <3>5 DEF NumberInv
  <2>4. CASE phase # "intervals"
    BY <2>1, <2>2, <2>4 DEF NumberInv
  <2> QED
    BY <2>3, <2>4
<1> QED
  BY <1>3, <1>4, <1>5, <1>6, <1>7, <1>8, <1>9, <1>10, <1>11, <1>12, <1>13, <1>14, <1>15, <1>16,
     Zenon DEF Next, NextIntervals

-----------------------------------------------------------------------------
(* The scan, step by step. *)

LEMMA EnterInvInit == Init => EnterInv
BY DEF Init, InitIntervals, InitAnalyses, EnterInv

LEMMA LiveTypesInit == Init => LiveTypes
BY LiveInvInit DEF Init, InitIntervals, InitAnalyses, LiveInv, LiveTypeOK, LiveTypes

(* A program reads no virtual register before it writes it, and what it writes is read, or ends
   there and lies in no hole of another interval. *)
WellWritten == NothingComesIn /\ \A n \in 1 .. Len(insns) : WellWrittenAt(n)

\* The registers are kept after the first k instructions.
ScanAfter(st, k) == IF mode = "all" THEN st \in SpillsAll ELSE st \in ScanStates /\ Good(st, k, k)

(* The invariant of the scan, for programs that are written well. *)
ScanInv ==
  WellWritten =>
    /\ phase \in {"pool", "allocate", "finalize", "run"} => PoolRight
    /\ phase \in {"allocate", "finalize", "run"} => mode \in Modes /\ ra \in ScanStates /\ LastTypes(ra)
    /\ phase = "allocate" => at \in 1 .. Len(insns) + 1 /\ ScanAfter(ra, at - 1)

\* What is said of the intervals is said of them while they do not change.
LEMMA PoolStays ==
  ASSUME UNCHANGED liveVars, UNCHANGED intervalVars
  PROVE  (WellWritten' <=> WellWritten) /\ (PoolRight => PoolRight')
<1>1. /\ livein' = livein /\ insns' = insns /\ LI' = LI /\ queue' = queue /\ spilled' = spilled
  BY DEF liveVars, intervalVars
<1>2. \A v, h : InHole(v, h)' <=> InHole(v, h)
  BY <1>1 DEF InHole
<1>3. \A n : WellWrittenAt(n)' <=> WellWrittenAt(n)
  BY <1>1, <1>2 DEF WellWrittenAt
<1>4. NothingComesIn' <=> NothingComesIn
  BY <1>1 DEF NothingComesIn
<1>5. WellWritten' <=> WellWritten
  BY <1>1, <1>3, <1>4 DEF WellWritten
<1>6. IntervalTypes => IntervalTypes'
  BY <1>1 DEF IntervalTypes
<1>7. IntervalsRight => IntervalsRight'
  BY <1>1, <1>6 DEF IntervalsRight
<1> QED
  BY <1>1, <1>5, <1>7 DEF PoolRight

LEMMA GoodStays ==
  ASSUME UNCHANGED intervalVars, NEW st, NEW k, k \in Nat, ra' = st, at' = k + 1, Good(st, k, k)
  PROVE  Good(ra, at - 1, at - 1)'
<1>0. at' - 1 = k /\ LI' = LI
  BY DEF intervalVars
<1>1. \A b, m : Started(b, m)' <=> Started(b, m)
  BY <1>0 DEF Started
<1>2. \A b, r : Holds(st, k, b, r) <=> Holds(ra, at - 1, b, r)'
  BY <1>0 DEF Holds
<1>3. \A b, c : Share(st, k, b, c) <=> Share(ra, at - 1, b, c)'
  BY <1>2 DEF Share
<1>4. \A b, h : Under(b, h)' <=> Under(b, h)
  BY <1>0 DEF Under, InHole
<1>5. ActiveInv(ra, at - 1, at - 1)'
  BY <1>0, <1>1 DEF Good, ActiveInv
<1>6. HeldInv(ra, at - 1)'
  BY <1>2 DEF Good, HeldInv
<1>7. EndedInv(ra, at - 1)'
  BY <1>0, <1>2 DEF Good, EndedInv
<1>8. NestInv(ra, at - 1)'
  BY <1>2, <1>3, <1>4 DEF Good, NestInv
<1>9. ParamInv(ra, at - 1)'
  <2>1. QueueInv(ra)'
    BY DEF Good, ParamInv, QueueInv
  <2>2. AsideInv(ra, at - 1)'
    BY <1>2 DEF Good, ParamInv, AsideInv
  <2>3. ComeInv(ra, at - 1)'
    BY <1>2 DEF Good, ParamInv, ComeInv
  <2>4. NextInv(ra, at - 1)'
    BY <1>0, <1>2 DEF Good, ParamInv, NextInv
  <2> QED
    BY <2>1, <2>2, <2>3, <2>4 DEF ParamInv
<1>10. Accounted(ra)'
  BY DEF Good, Accounted
<1> QED
  BY <1>5, <1>6, <1>7, <1>8, <1>9, <1>10 DEF Good

LEMMA AfterStays ==
  ASSUME UNCHANGED intervalVars, mode' = mode, NEW st, NEW k, k \in Nat, ra' = st, at' = k + 1, ScanAfter(st, k)
  PROVE  ScanAfter(ra, at - 1)'
<1>1. CASE mode = "all"
  BY <1>1 DEF ScanAfter, SpillsAll, LastTypes
<1>2. CASE mode # "all"
  <2>1. st \in ScanStates /\ Good(st, k, k)
    BY <1>2 DEF ScanAfter
  <2>2. Good(ra, at - 1, at - 1)'
    BY <2>1, GoodStays
  <2> QED
    BY <1>2, <2>1, <2>2 DEF ScanAfter
<1> QED
  BY <1>1, <1>2

LEMMA AfterTypes ==
  ASSUME NEW st, NEW k, ScanAfter(st, k)
  PROVE  st \in ScanStates /\ LastTypes(st)
<1>1. CASE mode = "all"
  BY <1>1 DEF ScanAfter, SpillsAll
<1>2. CASE mode # "all"
  BY <1>2, GoodLast DEF ScanAfter
<1> QED
  BY <1>1, <1>2

\* An instruction is allocated.
LEMMA AfterInsn ==
  ASSUME IntervalsRight, NEW n \in 1 .. Len(insns), WellWrittenAt(n), NEW st, ScanAfter(st, n - 1)
  PROVE  ScanAfter(AssignPhysRegsForInsn(RetireFromActive(st, n), n), n)
<1>1. PICK s : s = AssignPhysRegsForInsn(RetireFromActive(st, n), n)
  OBVIOUS
<1>2. CASE mode = "all"
  <2>1. st \in SpillsAll
    BY <1>2 DEF ScanAfter
  <2>2. s \in SpillsAll
    BY <1>1, <1>2, <2>1, AllKeeps
  <2> QED
    BY <1>1, <1>2, <2>2 DEF ScanAfter
<1>3. CASE mode # "all"
  <2>1. st \in ScanStates /\ Good(st, n - 1, n - 1)
    BY <1>3 DEF ScanAfter
  <2>2. s \in ScanStates /\ Good(s, n, n)
    BY <1>1, <1>3, <2>1, InsnKeeps
  <2> QED
    BY <1>1, <1>3, <2>2 DEF ScanAfter
<1> QED
  BY <1>2, <1>3

LEMMA ScanPool ==
  ASSUME LiveInv, OrderInv, EnterInv, LiveTypes, NumberInv, BuildIntervalRanges
  PROVE  ScanInv'
<1> SUFFICES ASSUME WellWritten' PROVE PoolRight'
  BY DEF BuildIntervalRanges, ScanInv
<1>1. phase = "intervals" /\ at > Len(sorted_bbs) /\ livein' = livein
  BY DEF BuildIntervalRanges, liveVars
<1>2. NothingComesIn
  BY <1>1 DEF WellWritten, NothingComesIn
<1>3. Analysed
  BY <1>1, AnalysedFacts
<1>4. prog \in Programs /\ sorted_bbs \in Seq(Blocks)
  BY <1>1, <1>3 DEF OrderInv, Ordered
<1>5. Len(sorted_bbs) \in Nat
  BY <1>4, LenProperties
<1>6. PICK k : k = at - 1
  OBVIOUS
<1>7. at \in Nat /\ k <= Len(sorted_bbs) /\ IntervalsSoFar(LI, queue, insns, first_id, k)
  BY <1>1, <1>6 DEF NumberInv
<1>8. k = Len(sorted_bbs)
  BY <1>1, <1>5, <1>6, <1>7
<1>9. Numbered
  BY <1>2, <1>3, <1>4, <1>5, <1>7, <1>8 DEF Numbered
<1> QED
  BY <1>9, PoolReady

LEMMA ScanStarts ==
  ASSUME ScanInv, InitFreeRegPool
  PROVE  ScanInv'
<1> SUFFICES ASSUME WellWritten'
             PROVE  /\ PoolRight'
                    /\ mode' \in Modes /\ ra' \in ScanStates /\ LastTypes(ra)'
                    /\ at' \in 1 .. Len(insns') + 1 /\ ScanAfter(ra, at - 1)'
  BY DEF InitFreeRegPool, ScanInv
<1>1. phase = "pool" /\ mode' \in Modes /\ at' = 1 /\ UNCHANGED liveVars /\ UNCHANGED intervalVars
  BY DEF InitFreeRegPool
<1>2. PoolRight /\ PoolRight'
  BY <1>1, PoolStays DEF ScanInv
<1>3. PICK st : st = ra'
  OBVIOUS
<1>4. st \in SpillsAll /\ Good(st, 0, 0)
  BY <1>2, <1>3, FirstState DEF InitFreeRegPool
<1>5. st \in ScanStates /\ LastTypes(st)
  BY <1>4 DEF SpillsAll
<1>6. LastTypes(ra)'
  BY <1>3, <1>5 DEF LastTypes
<1>7. ra' \in SpillsAll'
  BY <1>3, <1>4, <1>6 DEF SpillsAll
<1>8. Good(ra, at - 1, at - 1)'
  <2>1. at' = 0 + 1 /\ 0 \in Nat
    BY <1>1
  <2> QED
    BY <1>1, <1>3, <1>4, <2>1, GoodStays
<1>9. ScanAfter(ra, at - 1)'
  BY <1>3, <1>5, <1>7, <1>8 DEF ScanAfter
<1>10. at' \in 1 .. Len(insns') + 1
  <2>1. Len(insns') \in Nat
    BY <1>2 DEF PoolRight, IntervalsRight
  <2> QED
    BY <1>1, <2>1
<1> QED
  BY <1>1, <1>2, <1>3, <1>5, <1>6, <1>9, <1>10

LEMMA ScanAllocates ==
  ASSUME ScanInv, AllocateInsn
  PROVE  ScanInv'
<1> SUFFICES ASSUME WellWritten'
             PROVE  /\ PoolRight'
                    /\ mode' \in Modes /\ ra' \in ScanStates /\ LastTypes(ra)'
                    /\ at' \in 1 .. Len(insns') + 1 /\ ScanAfter(ra, at - 1)'
  BY DEF ScanInv
<1>1. /\ phase = "allocate" /\ at <= Len(insns) /\ at' = at + 1 /\ mode' = mode
      /\ ra' = AssignPhysRegsForInsn(RetireFromActive(ra, at), at)
      /\ UNCHANGED liveVars /\ UNCHANGED intervalVars
  BY DEF AllocateInsn
<1>2. WellWritten /\ PoolRight /\ PoolRight' /\ mode \in Modes
  BY <1>1, PoolStays DEF ScanInv
<1>3. at \in 1 .. Len(insns) + 1 /\ ScanAfter(ra, at - 1)
  BY <1>1, <1>2 DEF ScanInv
<1>4. IntervalsRight /\ Len(insns) \in Nat
  BY <1>2 DEF PoolRight, IntervalsRight
<1>5. PICK n : n = at
  OBVIOUS
<1>6. n \in 1 .. Len(insns) /\ n \in Nat /\ at' = n + 1
  BY <1>1, <1>3, <1>4, <1>5
<1>7. WellWrittenAt(n)
  BY <1>2, <1>6 DEF WellWritten
<1>8. PICK st, st2 : st = ra /\ st2 = ra'
  OBVIOUS
<1>9. ScanAfter(st, n - 1)
  BY <1>3, <1>5, <1>8
<1>10. st2 = AssignPhysRegsForInsn(RetireFromActive(st, n), n)
  BY <1>1, <1>5, <1>8
<1>11. ScanAfter(st2, n)
  BY <1>4, <1>6, <1>7, <1>9, <1>10, AfterInsn
<1>12. st2 \in ScanStates /\ LastTypes(st2)
  BY <1>11, AfterTypes
<1>13. ScanAfter(ra, at - 1)'
  BY <1>1, <1>6, <1>8, <1>11, AfterStays
<1>14. LastTypes(ra)'
  BY <1>8, <1>12 DEF LastTypes
<1>15. at' \in 1 .. Len(insns') + 1
  <2>1. insns' = insns
    BY <1>1 DEF intervalVars
  <2> QED
    BY <1>4, <1>6, <2>1
<1> QED
  BY <1>1, <1>2, <1>8, <1>12, <1>13, <1>14, <1>15

LEMMA ScanLater ==
  ASSUME ScanInv, UNCHANGED <<liveVars, intervalVars, scanVars>>,
         phase \in {"allocate", "finalize", "run"}, phase' \in {"finalize", "run"}
  PROVE  ScanInv'
<1>1. UNCHANGED liveVars /\ UNCHANGED intervalVars /\ mode' = mode /\ ra' = ra
  BY DEF scanVars
<1>2. (WellWritten' <=> WellWritten) /\ (PoolRight => PoolRight')
  BY <1>1, PoolStays
<1>3. LastTypes(ra) => LastTypes(ra)'
  BY <1>1 DEF LastTypes
<1> QED
  BY <1>1, <1>2, <1>3 DEF ScanInv

LEMMA ScanInvNext ==
  ASSUME LiveInv, OrderInv, EnterInv, LiveTypes, NumberInv, ScanInv, [Next]_vars
  PROVE  ScanInv'
<1>1. ASSUME phase' \in {"live", "loop", "order", "intervals", "exit"} PROVE ScanInv'
  BY <1>1 DEF ScanInv
<1>2. CASE AnalysisLive \/ NextIteration \/ FindBackEdge
  BY <1>1, <1>2, Zenon DEF AnalysisLive, NextIteration, FindBackEdge
<1>3. CASE StartOrder
  BY <1>1, <1>3, Zenon DEF StartOrder
<1>4. CASE StartBFS
  BY <1>1, <1>4, Zenon DEF StartBFS
<1>5. CASE BFSStep
  BY <1>1, <1>5, Zenon DEF BFSStep
<1>6. CASE NextSweep
  <2>1. phase' \in {"order", "intervals", "exit"}
    BY <1>6 DEF NextSweep
  <2> QED
    BY <1>1, <2>1, Zenon
<1>7. CASE ComputeLiveInterval
  BY <1>1, <1>7, Zenon DEF ComputeLiveInterval
<1>8. CASE BuildIntervalRanges
  BY <1>8, ScanPool
<1>9. CASE InitFreeRegPool
  BY <1>9, ScanStarts
<1>10. CASE AllocateInsn
  BY <1>10, ScanAllocates
<1>11. CASE StartFinalize
  BY <1>11, ScanLater, Zenon DEF StartFinalize, scanVars
<1>12. CASE FinalizeInsn
  BY <1>12, ScanLater, Zenon DEF FinalizeInsn
<1>13. CASE StartRun
  BY <1>13, ScanLater DEF StartRun
<1>14. CASE RunBlock
  BY <1>14, ScanLater DEF RunBlock
<1>15. CASE UNCHANGED vars
  <2>1. /\ UNCHANGED liveVars /\ UNCHANGED intervalVars /\ mode' = mode /\ ra' = ra /\ phase' = phase
        /\ at' = at /\ insns' = insns
    BY <1>15 DEF vars, scanVars, intervalVars
  <2>2. (WellWritten' <=> WellWritten) /\ (PoolRight => PoolRight')
    BY <2>1, PoolStays
  <2>3. LastTypes(ra) => LastTypes(ra)'
    BY <2>1 DEF LastTypes
  <2>4. ASSUME WellWritten, phase = "allocate" PROVE at' \in 1 .. Len(insns') + 1 /\ ScanAfter(ra, at - 1)'
    <3>1. PoolRight /\ at \in 1 .. Len(insns) + 1 /\ ScanAfter(ra, at - 1)
      BY <2>4 DEF ScanInv
    <3>2. Len(insns) \in Nat
      BY <3>1 DEF PoolRight, IntervalsRight
    <3>3. PICK st, k : st = ra /\ k = at - 1
      OBVIOUS
    <3>4. k \in Nat /\ at' = k + 1 /\ ra' = st /\ ScanAfter(st, k)
      BY <2>1, <3>1, <3>2, <3>3
    <3>5. ScanAfter(ra, at - 1)'
      BY <2>1, <3>4, AfterStays
    <3> QED
      BY <2>1, <3>1, <3>5
  <2> QED
    BY <2>1, <2>2, <2>3, <2>4 DEF ScanInv
<1> QED
  BY <1>2, <1>3, <1>4, <1>5, <1>6, <1>7, <1>8, <1>9, <1>10, <1>11, <1>12, <1>13, <1>14, <1>15,
     Zenon DEF Next, NextIntervals, NextAnalyses

LEMMA ScanInvInit == Init => ScanInv
BY DEF Init, InitIntervals, InitAnalyses, ScanInv

\* Two intervals that hold the same register lie one in a hole of the other.
LEMMA GoodKept ==
  ASSUME NEW st, st \in ScanStates, NEW n, Good(st, n, n), NEW v, NEW w,
         v \in st.active, w \in st.active, v # w, LI[v].last_use > n, LI[w].last_use > n
  PROVE  /\ st.assigned[v] \notin st.free
         /\ st.assigned[v] = st.assigned[w] => InHole(v, w) \/ InHole(w, v)
<1>1. Holds(st, n, v, st.assigned[v]) /\ Holds(st, n, w, st.assigned[w])
  BY DEF Holds
<1>2. st.assigned[v] = st.assigned[w] => Share(st, n, v, w)
  BY <1>1 DEF Share
<1> QED
  BY <1>1, <1>2 DEF Good, HeldInv, NestInv, Under

LEMMA ScanKept ==
  ASSUME ScanInv, WellWritten
  PROVE  RegistersAreKept
<1>1. TypeOK
  <2> SUFFICES ASSUME phase \in {"allocate", "finalize", "run"}
               PROVE  /\ mode \in Modes
                      /\ ra.free \subseteq ParamRegs \cup CallerRegs \cup CalleeRegs
                      /\ ra.active \subseteq VRegs /\ ra.spilled \subseteq VRegs /\ ra.save \subseteq VRegs
                      /\ \A v \in VRegs :
                           /\ ra.assigned[v] \in {0} \cup ParamRegs \cup CallerRegs \cup CalleeRegs
                           /\ ra.parent[v] \in {0} \cup VRegs /\ ra.child[v] \in {0} \cup VRegs
                      /\ \A r \in ParamRegs : Len(ra.last[r]) <= 1
    BY DEF TypeOK
  <2>1. mode \in Modes /\ ra \in ScanStates /\ LastTypes(ra)
    BY DEF ScanInv
  <2> QED
    BY <2>1 DEF ScanStates, LastTypes, Pool
<1>2. ASSUME phase = "allocate", mode # "all", NEW n, n = at - 1
      PROVE  /\ \A r \in ParamRegs \cup CallerRegs \cup CalleeRegs :
                  \/ r \in ra.free
                  \/ \E v \in ra.active : ra.assigned[v] = r
                  \/ \E p \in ra.params : p.regno = r
                  \/ r \in ParamRegs /\ ra.last[r] # <<>>
             /\ \A v \in {u \in ra.active : LI[u].last_use > n} :
                  /\ ra.assigned[v] \notin ra.free
                  /\ \A w \in {u \in ra.active : LI[u].last_use > n} \ {v} :
                       ra.assigned[v] = ra.assigned[w] => InHole(v, w) \/ InHole(w, v)
  <2>1. ra \in ScanStates /\ Good(ra, n, n)
    BY <1>2 DEF ScanInv, ScanAfter
  <2>2. \A r \in ParamRegs \cup CallerRegs \cup CalleeRegs :
          \/ r \in ra.free
          \/ \E v \in ra.active : ra.assigned[v] = r
          \/ \E p \in ra.params : p.regno = r
          \/ r \in ParamRegs /\ ra.last[r] # <<>>
    BY <2>1 DEF Good, Accounted, Pool
  <2>3. \A v \in ra.active : LI[v].last_use > n => ra.assigned[v] \notin ra.free
    BY <2>1 DEF Good, HeldInv, Holds
  <2>4. \A v, w \in ra.active : v # w /\ LI[v].last_use > n /\ LI[w].last_use > n =>
          (ra.assigned[v] = ra.assigned[w] => InHole(v, w) \/ InHole(w, v))
    BY <2>1, GoodKept
  <2> QED
    BY <2>2, <2>3, <2>4
<1> QED
  BY <1>1, <1>2 DEF RegistersAreKept

(* For every program that reads no virtual register before it writes it, and in which what is
   written is read later, or lies in no hole, the scan of AllocateRegisters loses no register
   and gives none away that is still needed: between two instructions each one is free, set
   aside for a parameter or held, and only an interval in the hole of another shares a register
   with it. *)
THEOREM RegistersHold == Spec => [](WellWritten => RegistersAreKept)
<1>1. Init => EnterInv /\ LiveTypes /\ NumberInv /\ ScanInv
  BY EnterInvInit, LiveTypesInit, NumberInvInit, ScanInvInit
<1>2. /\ LiveInv /\ LiveInv' /\ OrderInv
      /\ EnterInv /\ LiveTypes /\ NumberInv /\ ScanInv
      /\ [Next]_vars
      => (EnterInv /\ LiveTypes /\ NumberInv /\ ScanInv)'
  <2> SUFFICES ASSUME LiveInv, LiveInv', OrderInv, EnterInv, LiveTypes, NumberInv, ScanInv, [Next]_vars
               PROVE  EnterInv' /\ LiveTypes' /\ NumberInv' /\ ScanInv'
    OBVIOUS
  <2>1. EnterInv'
    BY EnterInvNext
  <2>2. LiveTypes'
    BY LiveTypesNext
  <2>3. NumberInv'
    BY NumberInvNext
  <2>4. ScanInv'
    BY ScanInvNext
  <2> QED
    BY <2>1, <2>2, <2>3, <2>4
<1>3. ScanInv => (WellWritten => RegistersAreKept)
  BY ScanKept
<1> QED
  BY <1>1, <1>2, <1>3, LiveInvHolds, OrderInvHolds, PTL DEF Spec
==============================================================================
