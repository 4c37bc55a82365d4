---------------------------- MODULE MemPoolProofs ----------------------------
(***************************************************************************)
(* Theorems about MemPool for any pools, blocks, sizes and bounds.         *)
(*                                                                         *)
(* The properties follow from one inductive invariant, IInv.  Its core     *)
(* relates a stack of blocks to the markers pushed on it: the blocks they  *)
(* mark lie on the stack in the order of the pushes, and memory handed out *)
(* since a push lies strictly above the marked block, what was handed out  *)
(* before at or below it.                                                  *)
(***************************************************************************)
EXTENDS MemPool, SequenceTheorems, TLAPS

\* Position of a block on a stack; the null pointer is below the bottom.
Pos(stack, b) == IF b = NoBlock THEN 0 ELSE CHOOSE i \in DOMAIN stack : stack[i] = b

\* The k-th components of the markers are on the stack, in the order of the pushes.
MarksFit(stack, marks, k) ==
  /\ \A i \in DOMAIN marks : marks[i][k] \in ToSet(stack) \cup {NoBlock}
  /\ \A i, j \in DOMAIN marks :
       i <= j => Pos(stack, marks[i][k]) <= Pos(stack, marks[j][k])

\* Memory of block b handed out under level markers is above the blocks marked until
\* then, and not above those marked later.
AllocFits(stack, marks, k, b, level) ==
  /\ b \in ToSet(stack)
  /\ level \in 0 .. Len(marks)
  /\ \A i \in DOMAIN marks : i <= level <=> Pos(stack, marks[i][k]) < Pos(stack, b)

Marker == (Blocks \cup {NoBlock}) \X (Blocks \cup {NoBlock})

\* What TypeOK leaves open.
MarkerInv ==
  /\ marker_stack \in [Pools -> Seq(Marker)]
  /\ \A mp \in Pools : Len(marker_stack[mp]) <= MaxMarks

MarksInv ==
  \A mp \in Pools :
    /\ MarksFit(mem_block_stack[mp], marker_stack[mp], 1)
    /\ MarksFit(large_mem_block_stack[mp], marker_stack[mp], 2)

LiveInv ==
  \A a \in live :
    /\ a.pool \in mem_pools
    /\ a.size <= kMinBlockSize =>
         AllocFits(mem_block_stack[a.pool], marker_stack[a.pool], 1, a.block, a.level)
    /\ a.size > kMinBlockSize =>
         AllocFits(large_mem_block_stack[a.pool], marker_stack[a.pool], 2, a.block, a.level)
    /\ a.start + a.size <= orig_size[a.block] - avail[a.block]

\* The lists tell small blocks from large ones, and free blocks are whole.
SizeInv ==
  /\ \A mp \in Pools : /\ \A b \in Small(mp) : orig_size[b] = kMinBlockSize
                       /\ \A b \in Large(mp) : orig_size[b] > kMinBlockSize
  /\ \A b \in Free : orig_size[b] = kMinBlockSize
  /\ \A b \in large_free_mem_blocks : orig_size[b] > kMinBlockSize
  /\ \A b \in Free \cup large_free_mem_blocks : avail[b] = orig_size[b]

IInv ==
  /\ TypeOK /\ OwnedOnce /\ NoSmallBlockLost /\ NoOverlap
  /\ MarkerInv /\ MarksInv /\ LiveInv /\ SizeInv
-----------------------------------------------------------------------------
(* Positions on stacks. *)

\* What IsInjective and ToSet say of a sequence of blocks.
LEMMA SeqFacts ==
  ASSUME NEW stack \in Seq(Blocks)
  PROVE  /\ Len(stack) \in Nat /\ DOMAIN stack = 1 .. Len(stack)
         /\ \A i \in 1 .. Len(stack) : stack[i] \in Blocks /\ stack[i] \in ToSet(stack)
         /\ \A b \in ToSet(stack) : b \in Blocks /\ \E i \in 1 .. Len(stack) : b = stack[i]
         /\ IsInjective(stack) <=>
              \A i, j \in 1 .. Len(stack) : stack[i] = stack[j] => i = j
BY DEF ToSet, IsInjective

\* A block lies at one position of an injective sequence.
LEMMA OnePosition ==
  ASSUME NEW stack \in Seq(Blocks), IsInjective(stack),
         NEW i \in 1 .. Len(stack), NEW j \in 1 .. Len(stack), stack[i] = stack[j]
  PROVE  i = j
BY SeqFacts

\* The elements of a sequence are in a set if each of them is.
LEMMA ToSetWithin ==
  ASSUME NEW stack \in Seq(Blocks), NEW T, \A i \in 1 .. Len(stack) : stack[i] \in T
  PROVE  ToSet(stack) \subseteq T
BY DEF ToSet

\* The position of a block is where it lies.
LEMMA PosOfElement ==
  ASSUME NEW stack \in Seq(Blocks), IsInjective(stack), NEW i \in 1 .. Len(stack)
  PROVE  Pos(stack, stack[i]) = i
<1>1. stack[i] # NoBlock
  BY SeqFacts, MemPoolAssumption
<1>2. \A j \in DOMAIN stack : stack[j] = stack[i] => j = i
  BY SeqFacts
<1> QED
  BY <1>1, <1>2, SeqFacts DEF Pos

\* Positions are those of the stack, and 0 for the null pointer.
LEMMA PosRange ==
  ASSUME NEW stack \in Seq(Blocks), IsInjective(stack),
         NEW b \in ToSet(stack) \cup {NoBlock}
  PROVE  /\ Pos(stack, b) \in 0 .. Len(stack)
         /\ b = NoBlock <=> Pos(stack, b) = 0
         /\ b # NoBlock => stack[Pos(stack, b)] = b
<1>1. CASE b = NoBlock
  BY <1>1, SeqFacts DEF Pos
<1>2. CASE b # NoBlock
  <2>1. PICK i \in 1 .. Len(stack) : b = stack[i]
    BY <1>2, SeqFacts
  <2>2. Pos(stack, b) = i
    BY <2>1, PosOfElement
  <2> QED
    BY <1>2, <2>1, <2>2, SeqFacts
<1> QED
  BY <1>1, <1>2

\* A block that is pushed lies above all others, whose positions stay.
LEMMA PosAppend ==
  ASSUME NEW stack \in Seq(Blocks), IsInjective(stack), NEW b \in Blocks \ ToSet(stack)
  PROVE  /\ Append(stack, b) \in Seq(Blocks) /\ IsInjective(Append(stack, b))
         /\ ToSet(Append(stack, b)) = ToSet(stack) \cup {b}
         /\ Pos(Append(stack, b), b) = Len(stack) + 1
         /\ \A c \in ToSet(stack) \cup {NoBlock} : Pos(Append(stack, b), c) = Pos(stack, c)
<1> DEFINE t == Append(stack, b)
<1>1. /\ t \in Seq(Blocks) /\ Len(t) = Len(stack) + 1 /\ Len(stack) \in Nat
      /\ t[Len(stack) + 1] = b /\ \A i \in 1 .. Len(stack) : t[i] = stack[i]
  BY AppendProperties, SeqFacts
<1> HIDE DEF t
<1>2. IsInjective(t)
  <2> SUFFICES ASSUME NEW i \in 1 .. Len(t), NEW j \in 1 .. Len(t), t[i] = t[j] PROVE i = j
    BY <1>1, SeqFacts
  <2>1. CASE i \in 1 .. Len(stack) /\ j \in 1 .. Len(stack)
    BY <1>1, <2>1, SeqFacts
  <2>2. CASE i = Len(stack) + 1 \/ j = Len(stack) + 1
    <3>1. Len(stack) \in Nat /\ \A k \in 1 .. Len(stack) : stack[k] \in ToSet(stack)
      BY SeqFacts
    <3>2. \A k \in 1 .. Len(stack) : t[k] # b
      BY <1>1, <3>1
    <3> QED
      BY <1>1, <2>2, <3>1, <3>2
  <2> QED
    BY <1>1, <2>1, <2>2
<1>3. ToSet(t) = ToSet(stack) \cup {b}
  <2>1. ASSUME NEW i \in 1 .. Len(t) PROVE t[i] \in ToSet(stack) \cup {b}
    <3>1. Len(stack) \in Nat /\ \A k \in 1 .. Len(stack) : stack[k] \in ToSet(stack)
      BY SeqFacts
    <3> QED
      BY <1>1, <3>1
  <2>2. b \in ToSet(t)
    BY <1>1, SeqFacts
  <2>3. ASSUME NEW i \in 1 .. Len(stack) PROVE stack[i] \in ToSet(t)
    <3>1. i \in 1 .. Len(t) /\ t[i] = stack[i]
      BY <1>1
    <3> QED
      BY <1>1, <3>1, SeqFacts
  <2> QED
    BY <1>1, <2>1, <2>2, <2>3, SeqFacts
<1>4. Pos(t, b) = Len(stack) + 1
  BY <1>1, <1>2, PosOfElement
<1>5. ASSUME NEW c \in ToSet(stack) \cup {NoBlock} PROVE Pos(t, c) = Pos(stack, c)
  <2>1. CASE c = NoBlock
    BY <2>1 DEF Pos
  <2>2. CASE c # NoBlock
    <3>1. PICK i \in 1 .. Len(stack) : c = stack[i]
      BY <2>2, SeqFacts
    <3>2. i \in 1 .. Len(t) /\ c = t[i]
      BY <1>1, <3>1
    <3> QED
      BY <1>1, <1>2, <3>1, <3>2, PosOfElement
  <2> QED
    BY <2>1, <2>2
<1> QED
  BY <1>1, <1>2, <1>3, <1>4, <1>5 DEF t

\* Unwinding a stack to n blocks leaves those at the positions up to n where they were.
LEMMA PosPrefix ==
  ASSUME NEW stack \in Seq(Blocks), IsInjective(stack), NEW n \in 0 .. Len(stack)
  PROVE  LET t == SubSeq(stack, 1, n)
         IN  /\ t \in Seq(Blocks) /\ IsInjective(t) /\ ToSet(t) \subseteq ToSet(stack)
             /\ \A c \in ToSet(stack) \cup {NoBlock} :
                  /\ c \in ToSet(t) \cup {NoBlock} <=> Pos(stack, c) <= n
                  /\ Pos(stack, c) <= n => Pos(t, c) = Pos(stack, c)
<1> DEFINE t == SubSeq(stack, 1, n)
<1>1. /\ t \in Seq(Blocks) /\ Len(t) = n /\ n <= Len(stack)
      /\ \A i \in 1 .. n : t[i] = stack[i]
  BY SeqFacts, SubSeqProperties
<1> HIDE DEF t
<1>2. IsInjective(t)
  <2>1. \A i, j \in 1 .. Len(t) : t[i] = t[j] => i = j
    BY <1>1, SeqFacts
  <2> QED
    BY <1>1, <2>1, SeqFacts
<1>3. ToSet(t) \subseteq ToSet(stack)
  BY <1>1, SeqFacts
<1>4. ASSUME NEW c \in ToSet(stack) \cup {NoBlock}
      PROVE  /\ c \in ToSet(t) \cup {NoBlock} <=> Pos(stack, c) <= n
             /\ Pos(stack, c) <= n => Pos(t, c) = Pos(stack, c)
  <2>1. CASE c = NoBlock
    BY <2>1, PosRange DEF Pos
  <2>2. CASE c # NoBlock
    <3>1. PICK i \in 1 .. Len(stack) : c = stack[i] /\ Pos(stack, c) = i
      BY <2>2, SeqFacts, PosOfElement
    <3>2. ASSUME c \in ToSet(t) PROVE i <= n
      <4>1. PICK j \in 1 .. Len(t) : c = t[j]
        BY <1>1, <3>2, SeqFacts
      <4>2. j \in 1 .. Len(stack) /\ j <= n /\ stack[j] = stack[i]
        BY <1>1, <3>1, <4>1, SeqFacts
      <4> QED
        BY <3>1, <4>2, PosOfElement
    <3>3. ASSUME i <= n PROVE c \in ToSet(t) /\ Pos(t, c) = i
      <4>1. i \in 1 .. Len(t) /\ t[i] = c
        BY <1>1, <3>1, <3>3
      <4> QED
        BY <1>1, <1>2, <4>1, PosOfElement, SeqFacts
    <3>4. c \in ToSet(t) <=> i <= n
      BY <3>2, <3>3
    <3> QED
      BY <2>2, <3>1, <3>3, <3>4
  <2> QED
    BY <2>1, <2>2
<1> QED
  BY <1>1, <1>2, <1>3, <1>4 DEF t
-----------------------------------------------------------------------------
(* What the operations do to stacks and markers that fit. *)

\* Malloc from a block that is pushed onto the stack.
LEMMA FitAppend ==
  ASSUME NEW stack \in Seq(Blocks), IsInjective(stack), NEW b \in Blocks \ ToSet(stack),
         NEW marks \in Seq(Marker), NEW k \in {1, 2}, MarksFit(stack, marks, k)
  PROVE  /\ MarksFit(Append(stack, b), marks, k)
         /\ AllocFits(Append(stack, b), marks, k, b, Len(marks))
         /\ \A c, level : AllocFits(stack, marks, k, c, level)
                            => AllocFits(Append(stack, b), marks, k, c, level)
<1> DEFINE t == Append(stack, b)
<1>1. /\ ToSet(t) = ToSet(stack) \cup {b}
      /\ Pos(t, b) = Len(stack) + 1 /\ Len(stack) \in Nat
      /\ \A c \in ToSet(stack) \cup {NoBlock} : Pos(t, c) = Pos(stack, c)
  BY PosAppend, SeqFacts
<1> HIDE DEF t
<1>2. \A i \in DOMAIN marks : /\ marks[i][k] \in ToSet(stack) \cup {NoBlock}
                              /\ Pos(t, marks[i][k]) = Pos(stack, marks[i][k])
                              /\ Pos(stack, marks[i][k]) \in 0 .. Len(stack)
  BY <1>1, PosRange DEF MarksFit
<1>3. MarksFit(t, marks, k)
  BY <1>1, <1>2 DEF MarksFit
<1>4. AllocFits(t, marks, k, b, Len(marks))
  <2>1. /\ Len(marks) \in Nat /\ DOMAIN marks = 1 .. Len(marks)
    BY LenProperties
  <2> QED
    BY <1>1, <1>2, <2>1 DEF AllocFits
<1>5. ASSUME NEW c, NEW level, AllocFits(stack, marks, k, c, level)
      PROVE  AllocFits(t, marks, k, c, level)
  BY <1>1, <1>2, <1>5 DEF AllocFits
<1> QED
  BY <1>3, <1>4, <1>5 DEF t

\* Malloc from the rest of the top block, which the last push has not marked.
LEMMA FitTop ==
  ASSUME NEW stack \in Seq(Blocks), IsInjective(stack), stack # <<>>,
         NEW marks \in Seq(Marker), NEW k \in {1, 2}, MarksFit(stack, marks, k),
         marks # <<>> => Last(marks)[k] # Last(stack)
  PROVE  AllocFits(stack, marks, k, Last(stack), Len(marks))
<1>1. /\ Len(marks) \in Nat /\ DOMAIN marks = 1 .. Len(marks)
      /\ Len(stack) \in Nat \ {0} /\ Last(stack) = stack[Len(stack)]
      /\ marks # <<>> => Len(marks) # 0 /\ Last(marks) = marks[Len(marks)]
  BY LenProperties, EmptySeq DEF Last
<1>2. Pos(stack, Last(stack)) = Len(stack) /\ Last(stack) \in ToSet(stack)
  BY <1>1, PosOfElement, SeqFacts
<1>3. ASSUME NEW i \in DOMAIN marks PROVE Pos(stack, marks[i][k]) < Len(stack)
  <2>1. marks # <<>> /\ Len(marks) \in DOMAIN marks /\ i <= Len(marks)
    BY <1>1, <1>3, EmptySeq
  <2> DEFINE last == marks[Len(marks)][k]
  <2>2. last # Last(stack) /\ last \in ToSet(stack) \cup {NoBlock}
    BY <1>1, <2>1 DEF MarksFit
  <2>3. Pos(stack, marks[i][k]) <= Pos(stack, last)
    BY <2>1 DEF MarksFit
  <2> HIDE DEF last
  <2>4. Pos(stack, last) \in 0 .. Len(stack) /\ Pos(stack, last) # Len(stack)
    BY <1>1, <2>2, PosRange
  <2>5. Pos(stack, marks[i][k]) \in 0 .. Len(stack)
    BY PosRange DEF MarksFit
  <2> QED
    BY <1>1, <2>3, <2>4, <2>5
<1> QED
  BY <1>1, <1>2, <1>3 DEF AllocFits

\* Push marks the top of the stack.
LEMMA FitPush ==
  ASSUME NEW stack \in Seq(Blocks), IsInjective(stack),
         NEW marks \in Seq(Marker), NEW k \in {1, 2}, MarksFit(stack, marks, k),
         NEW mark \in Marker, mark[k] = Top(stack)
  PROVE  /\ MarksFit(stack, Append(marks, mark), k)
         /\ \A c, level : AllocFits(stack, marks, k, c, level)
                            => AllocFits(stack, Append(marks, mark), k, c, level)
<1> DEFINE ms == Append(marks, mark)
<1>1. /\ ms \in Seq(Marker) /\ Len(ms) = Len(marks) + 1 /\ Len(marks) \in Nat
      /\ DOMAIN ms = 1 .. Len(marks) + 1 /\ DOMAIN marks = 1 .. Len(marks)
      /\ ms[Len(marks) + 1] = mark /\ \A i \in 1 .. Len(marks) : ms[i] = marks[i]
  BY AppendProperties, LenProperties
<1> HIDE DEF ms
<1>2. /\ Top(stack) \in ToSet(stack) \cup {NoBlock}
      /\ Pos(stack, Top(stack)) = Len(stack) /\ Len(stack) \in Nat
  <2>1. CASE stack = <<>>
    BY <2>1, EmptySeq DEF Top, Pos
  <2>2. CASE stack # <<>>
    <3>1. Len(stack) \in 1 .. Len(stack) /\ Top(stack) = stack[Len(stack)] /\ Len(stack) \in Nat
      BY <2>2, EmptySeq, SeqFacts DEF Top, Last
    <3> QED
      BY <3>1, PosOfElement, SeqFacts
  <2> QED
    BY <2>1, <2>2
<1>3. \A c \in ToSet(stack) \cup {NoBlock} : Pos(stack, c) \in 0 .. Len(stack)
  BY PosRange
<1>4. \A i \in 1 .. Len(marks) : marks[i][k] \in ToSet(stack) \cup {NoBlock}
  BY <1>1 DEF MarksFit
<1>5. MarksFit(stack, ms, k)
  <2>1. \A i \in DOMAIN ms : ms[i][k] \in ToSet(stack) \cup {NoBlock}
    BY <1>1, <1>2, <1>4
  <2>2. ASSUME NEW i \in DOMAIN ms, NEW j \in DOMAIN ms, i <= j
        PROVE  Pos(stack, ms[i][k]) <= Pos(stack, ms[j][k])
    <3>1. CASE j \in 1 .. Len(marks)
      <4>1. i \in DOMAIN marks /\ j \in DOMAIN marks /\ ms[i] = marks[i] /\ ms[j] = marks[j]
        BY <1>1, <2>2, <3>1
      <4> QED
        BY <2>2, <4>1 DEF MarksFit
    <3>2. CASE j = Len(marks) + 1
      <4>1. Pos(stack, ms[j][k]) = Len(stack)
        BY <1>1, <1>2, <3>2
      <4>2. Pos(stack, ms[i][k]) \in 0 .. Len(stack)
        BY <1>3, <2>1
      <4> QED
        BY <1>2, <4>1, <4>2
    <3> QED
      BY <1>1, <3>1, <3>2
  <2> QED
    BY <2>1, <2>2 DEF MarksFit
<1>6. ASSUME NEW c, NEW level, AllocFits(stack, marks, k, c, level)
      PROVE  AllocFits(stack, ms, k, c, level)
  <2>1. /\ c \in ToSet(stack) /\ level \in 0 .. Len(marks)
        /\ \A i \in DOMAIN marks : i <= level <=> Pos(stack, marks[i][k]) < Pos(stack, c)
    BY <1>6 DEF AllocFits
  <2>2. ASSUME NEW i \in DOMAIN ms
        PROVE  i <= level <=> Pos(stack, ms[i][k]) < Pos(stack, c)
    <3>1. CASE i \in 1 .. Len(marks)
      BY <1>1, <2>1, <3>1
    <3>2. CASE i = Len(marks) + 1
      <4>1. Pos(stack, ms[i][k]) = Len(stack) /\ Pos(stack, c) \in 0 .. Len(stack)
        BY <1>1, <1>2, <1>3, <2>1, <3>2
      <4> QED
        BY <1>1, <1>2, <2>1, <3>2, <4>1
    <3> QED
      BY <1>1, <3>1, <3>2
  <2> QED
    BY <1>1, <2>1, <2>2 DEF AllocFits
<1> QED
  BY <1>5, <1>6 DEF ms

\* Pop unwinds to the marked block: what was handed out before the push stays, and what
\* was handed out since is gone if there was a block to mark.
LEMMA FitPop ==
  ASSUME NEW stack \in Seq(Blocks), IsInjective(stack),
         NEW marks \in Seq(Marker), NEW k \in {1, 2}, MarksFit(stack, marks, k),
         marks # <<>>
  PROVE  LET n == Kept(stack, Last(marks)[k])
             t == SubSeq(stack, 1, n)
         IN  /\ n \in 0 .. Len(stack)
             /\ MarksFit(t, Front(marks), k)
             /\ \A c, level : AllocFits(stack, marks, k, c, level) =>
                  /\ level < Len(marks) => AllocFits(t, Front(marks), k, c, level)
                  /\ level = Len(marks) /\ Last(marks)[k] # NoBlock => c \notin ToSet(t)
<1> DEFINE last == Len(marks)
           n == Kept(stack, Last(marks)[k])
           t == SubSeq(stack, 1, n)
           ms == Front(marks)
<1>1. /\ last \in Nat \ {0} /\ DOMAIN marks = 1 .. last /\ last \in DOMAIN marks
      /\ Last(marks) = marks[last]
  BY LenProperties, EmptySeq DEF Last
<1>2. /\ Len(ms) = last - 1 /\ DOMAIN ms = 1 .. last - 1
      /\ \A i \in 1 .. last - 1 : ms[i] = marks[i]
  <2>1. ms \in Seq(Marker) /\ Len(ms) = last - 1
    BY <1>1, ElementOfSeq, SubSeqProperties DEF Front
  <2>2. ASSUME NEW i \in 1 .. last - 1 PROVE ms[i] = marks[i]
    BY <1>1, ElementOfSeq, SubSeqProperties DEF Front
  <2> QED
    BY <2>1, <2>2, LenProperties
<1> DEFINE p(i) == Pos(stack, marks[i][k])
<1>3. \A i \in 1 .. last : /\ marks[i][k] \in ToSet(stack) \cup {NoBlock}
                           /\ p(i) \in 0 .. Len(stack) /\ p(i) <= p(last)
  BY <1>1, PosRange DEF MarksFit
<1>4. /\ n \in 0 .. Len(stack) /\ p(last) <= n
      /\ marks[last][k] # NoBlock => n = p(last)
  <2>1. Len(stack) \in Nat
    BY SeqFacts
  <2>2. marks[last][k] # NoBlock => n = p(last)
    BY <1>1 DEF Kept, Pos
  <2>3. marks[last][k] = NoBlock => n = Len(stack)
    BY <1>1 DEF Kept
  <2> QED
    BY <1>1, <1>3, <2>1, <2>2, <2>3
<1> HIDE DEF last, n, ms
<1>5. \A c \in ToSet(stack) \cup {NoBlock} :
        /\ c \in ToSet(t) \cup {NoBlock} <=> Pos(stack, c) <= n
        /\ Pos(stack, c) <= n => Pos(t, c) = Pos(stack, c)
  BY <1>4, PosPrefix
<1> HIDE DEF t
<1>6. \A i \in 1 .. last : /\ marks[i][k] \in ToSet(t) \cup {NoBlock}
                           /\ Pos(t, marks[i][k]) = p(i)
  <2> TAKE i \in 1 .. last
  <2>1. p(i) <= n
    BY <1>1, <1>3, <1>4, SeqFacts
  <2> QED
    BY <1>3, <1>5, <2>1
<1>7. MarksFit(t, ms, k)
  <2>1. \A i \in DOMAIN ms : ms[i][k] \in ToSet(t) \cup {NoBlock} /\ i \in 1 .. last
    BY <1>1, <1>2, <1>6
  <2>2. ASSUME NEW i \in DOMAIN ms, NEW j \in DOMAIN ms, i <= j
        PROVE  Pos(t, ms[i][k]) <= Pos(t, ms[j][k])
    <3>1. p(i) <= p(j)
      BY <1>1, <2>1, <2>2 DEF MarksFit
    <3> QED
      BY <1>2, <1>6, <2>1, <3>1
  <2> QED
    BY <2>1, <2>2 DEF MarksFit
<1>8. ASSUME NEW c, NEW level, AllocFits(stack, marks, k, c, level)
      PROVE  /\ level < last => AllocFits(t, ms, k, c, level)
             /\ level = last /\ marks[last][k] # NoBlock => c \notin ToSet(t)
  <2>1. /\ c \in ToSet(stack) /\ level \in 0 .. last
        /\ \A i \in 1 .. last : i <= level <=> p(i) < Pos(stack, c)
        /\ Pos(stack, c) \in 0 .. Len(stack) /\ c # NoBlock
    <3>1. c \in ToSet(stack) /\ c # NoBlock
      BY <1>8, SeqFacts, MemPoolAssumption DEF AllocFits
    <3> QED
      BY <1>1, <1>8, <3>1, PosRange DEF AllocFits, last
  <2>2. ASSUME level < last PROVE AllocFits(t, ms, k, c, level)
    <3>1. Pos(stack, c) <= n
      BY <1>1, <1>3, <1>4, <2>1, <2>2, SeqFacts
    <3>2. c \in ToSet(t) /\ Pos(t, c) = Pos(stack, c)
      BY <1>5, <2>1, <3>1
    <3>3. level \in 0 .. Len(ms)
      BY <1>1, <1>2, <2>1, <2>2
    <3>4. ASSUME NEW i \in DOMAIN ms
          PROVE  i <= level <=> Pos(t, ms[i][k]) < Pos(t, c)
      <4>1. i \in 1 .. last /\ ms[i] = marks[i]
        BY <1>1, <1>2
      <4> QED
        BY <1>6, <2>1, <3>2, <4>1
    <3> QED
      BY <3>2, <3>3, <3>4 DEF AllocFits
  <2>3. ASSUME level = last, marks[last][k] # NoBlock PROVE c \notin ToSet(t)
    <3>1. p(last) < Pos(stack, c) /\ n = p(last)
      BY <1>1, <1>4, <2>1, <2>3
    <3>2. ~(Pos(stack, c) <= n)
      BY <1>3, <1>1, <2>1, <3>1, SeqFacts
    <3> QED
      BY <1>5, <2>1, <3>2
  <2> QED
    BY <2>2, <2>3
<1> QED
  BY <1>1, <1>4, <1>7, <1>8 DEF t, ms, n, last
-----------------------------------------------------------------------------
(* What is on a stack that was turned round, cut or appended. *)

\* Blocks are recycled from the top of the stack: the same blocks in reverse order.
LEMMA ReverseFacts ==
  ASSUME NEW stack \in Seq(Blocks)
  PROVE  /\ Reverse(stack) \in Seq(Blocks)
         /\ ToSet(Reverse(stack)) = ToSet(stack)
         /\ IsInjective(stack) => IsInjective(Reverse(stack))
<1> DEFINE r == Reverse(stack)
<1>1. /\ Len(stack) \in Nat
      /\ \A i \in 1 .. Len(stack) : /\ Len(stack) - i + 1 \in 1 .. Len(stack)
                                    /\ stack[Len(stack) - i + 1] \in Blocks
  BY SeqFacts
<1>2. /\ r \in Seq(Blocks) /\ Len(r) = Len(stack)
      /\ \A i \in 1 .. Len(stack) : r[i] = stack[Len(stack) - i + 1]
  BY <1>1 DEF Reverse
<1> HIDE DEF r
<1>3. \A i \in 1 .. Len(r) : r[i] \in ToSet(stack)
  BY <1>1, <1>2, SeqFacts
<1>4. ASSUME NEW i \in 1 .. Len(stack) PROVE stack[i] \in ToSet(r)
  <2>1. /\ Len(stack) - i + 1 \in 1 .. Len(r)
        /\ r[Len(stack) - i + 1] = stack[Len(stack) - (Len(stack) - i + 1) + 1]
        /\ Len(stack) - (Len(stack) - i + 1) + 1 = i
    BY <1>1, <1>2
  <2> QED
    BY <1>2, <2>1, SeqFacts
<1>5. ASSUME IsInjective(stack), NEW i \in 1 .. Len(r), NEW j \in 1 .. Len(r), r[i] = r[j]
      PROVE  i = j
  <2> DEFINE k == Len(stack) - i + 1
             l == Len(stack) - j + 1
  <2>1. k \in 1 .. Len(stack) /\ l \in 1 .. Len(stack) /\ stack[k] = stack[l]
    BY <1>1, <1>2, <1>5
  <2>2. k = l
    BY <1>5, <2>1, SeqFacts
  <2> QED
    BY <1>1, <1>2, <2>2
<1>6. ToSet(r) = ToSet(stack)
  BY <1>2, <1>3, <1>4, ToSetWithin
<1>7. IsInjective(stack) => IsInjective(r)
  BY <1>2, <1>5, SeqFacts
<1> QED
  BY <1>2, <1>6, <1>7 DEF r

\* Blocks put at the end of the list of free ones.
LEMMA ConcatFacts ==
  ASSUME NEW s \in Seq(Blocks), NEW t \in Seq(Blocks)
  PROVE  /\ s \o t \in Seq(Blocks)
         /\ ToSet(s \o t) = ToSet(s) \cup ToSet(t)
         /\ IsInjective(s) /\ IsInjective(t) /\ ToSet(s) \cap ToSet(t) = {}
              => IsInjective(s \o t)
<1> DEFINE c == s \o t
<1>1. /\ c \in Seq(Blocks) /\ Len(c) = Len(s) + Len(t) /\ Len(s) \in Nat /\ Len(t) \in Nat
      /\ \A i \in 1 .. Len(s) : c[i] = s[i]
      /\ \A i \in Len(s) + 1 .. Len(c) : c[i] = t[i - Len(s)] /\ i - Len(s) \in 1 .. Len(t)
  BY ConcatProperties, SeqFacts
<1> HIDE DEF c
<1>2. ASSUME NEW i \in 1 .. Len(c) PROVE c[i] \in ToSet(s) \cup ToSet(t)
  <2>1. CASE i <= Len(s)
    BY <1>1, <2>1, SeqFacts
  <2>2. CASE i > Len(s)
    <3>1. c[i] = t[i - Len(s)] /\ i - Len(s) \in 1 .. Len(t)
      BY <1>1, <2>2
    <3> QED
      BY <3>1, SeqFacts
  <2> QED
    BY <1>1, <2>1, <2>2
<1>3. ASSUME NEW i \in 1 .. Len(s) PROVE s[i] \in ToSet(c)
  <2>1. i \in 1 .. Len(c) /\ c[i] = s[i]
    BY <1>1
  <2> QED
    BY <1>1, <2>1, SeqFacts
<1>4. ASSUME NEW i \in 1 .. Len(t) PROVE t[i] \in ToSet(c)
  <2>1. PICK k : k = Len(s) + i
    OBVIOUS
  <2>2. k \in Len(s) + 1 .. Len(c) /\ k \in 1 .. Len(c) /\ k - Len(s) = i
    BY <1>1, <2>1
  <2>3. c[k] = t[i]
    BY <1>1, <2>2
  <2> QED
    BY <1>1, <2>2, <2>3, SeqFacts
<1>5. ToSet(c) = ToSet(s) \cup ToSet(t)
  BY <1>1, <1>2, <1>3, <1>4, ToSetWithin
<1>6. ASSUME IsInjective(s), IsInjective(t), ToSet(s) \cap ToSet(t) = {},
             NEW i \in 1 .. Len(c), NEW j \in 1 .. Len(c), c[i] = c[j]
      PROVE  i = j
  <2>1. CASE i \in 1 .. Len(s) /\ j \in 1 .. Len(s)
    BY <1>1, <1>6, <2>1, SeqFacts
  <2>2. CASE i \in Len(s) + 1 .. Len(c) /\ j \in Len(s) + 1 .. Len(c)
    <3>1. i - Len(s) = j - Len(s)
      BY <1>1, <1>6, <2>2, SeqFacts
    <3> QED
      BY <1>1, <3>1
  <2>3. CASE i \in 1 .. Len(s) /\ j \in Len(s) + 1 .. Len(c)
    <3>1. c[i] \in ToSet(s) /\ c[j] \in ToSet(t)
      BY <1>1, <2>3, SeqFacts
    <3> QED
      BY <1>6, <3>1
  <2>4. CASE j \in 1 .. Len(s) /\ i \in Len(s) + 1 .. Len(c)
    <3>1. c[j] \in ToSet(s) /\ c[i] \in ToSet(t)
      BY <1>1, <2>4, SeqFacts
    <3> QED
      BY <1>6, <3>1
  <2> QED
    BY <1>1, <2>1, <2>2, <2>3, <2>4
<1>7. IsInjective(s) /\ IsInjective(t) /\ ToSet(s) \cap ToSet(t) = {} => IsInjective(c)
  BY <1>1, <1>6, SeqFacts
<1> QED
  BY <1>1, <1>5, <1>7 DEF c

\* Unwinding takes off the stack exactly what does not stay.
LEMMA CutFacts ==
  ASSUME NEW stack \in Seq(Blocks), IsInjective(stack), NEW n \in 0 .. Len(stack)
  PROVE  LET t == SubSeq(stack, 1, n)
             u == SubSeq(stack, n + 1, Len(stack))
         IN  /\ u \in Seq(Blocks) /\ IsInjective(u)
             /\ ToSet(stack) = ToSet(t) \cup ToSet(u)
             /\ ToSet(t) \cap ToSet(u) = {}
<1> DEFINE t == SubSeq(stack, 1, n)
           u == SubSeq(stack, n + 1, Len(stack))
<1>1. /\ u \in Seq(Blocks) /\ Len(u) = Len(stack) - n /\ Len(stack) \in Nat
      /\ \A i \in 1 .. Len(u) : u[i] = stack[n + i] /\ n + i \in 1 .. Len(stack)
  BY SeqFacts, SubSeqProperties
<1>2. /\ t \in Seq(Blocks) /\ Len(t) = n
      /\ \A i \in 1 .. Len(t) : t[i] = stack[i] /\ i \in 1 .. Len(stack)
  BY SeqFacts, SubSeqProperties
<1> HIDE DEF t, u
<1>3. ASSUME NEW i \in 1 .. Len(u), NEW j \in 1 .. Len(u), u[i] = u[j] PROVE i = j
  <2>1. n + i \in 1 .. Len(stack) /\ n + j \in 1 .. Len(stack) /\ stack[n + i] = stack[n + j]
    BY <1>1, <1>3
  <2>2. n + i = n + j
    BY <2>1, OnePosition
  <2> QED
    BY <1>1, <2>2
<1>4. ToSet(t) \cup ToSet(u) \subseteq ToSet(stack)
  BY <1>1, <1>2, SeqFacts
<1>5. ASSUME NEW i \in 1 .. Len(stack) PROVE stack[i] \in ToSet(t) \cup ToSet(u)
  <2>1. CASE i <= n
    <3>1. i \in 1 .. Len(t) /\ t[i] = stack[i]
      BY <1>2, <2>1
    <3> QED
      BY <1>2, <3>1, SeqFacts
  <2>2. CASE i > n
    <3>1. i - n \in 1 .. Len(u) /\ u[i - n] = stack[n + (i - n)] /\ n + (i - n) = i
      BY <1>1, <2>2
    <3> QED
      BY <1>1, <3>1, SeqFacts
  <2> QED
    BY <1>1, <2>1, <2>2
<1>6. ASSUME NEW b \in ToSet(t), b \in ToSet(u) PROVE FALSE
  <2>1. PICK i \in 1 .. Len(t) : b = t[i]
    BY <1>2, SeqFacts
  <2>2. PICK j \in 1 .. Len(u) : b = u[j]
    BY <1>1, <1>6, SeqFacts
  <2>3. i = n + j
    <3>1. /\ i \in 1 .. Len(stack) /\ n + j \in 1 .. Len(stack)
          /\ stack[i] = stack[n + j]
      BY <1>1, <1>2, <2>1, <2>2
    <3> QED
      BY <3>1, SeqFacts
  <2> QED
    BY <1>1, <1>2, <2>1, <2>2, <2>3
<1>7. ToSet(stack) = ToSet(t) \cup ToSet(u)
  BY <1>4, <1>5, ToSetWithin
<1>8. ToSet(t) \cap ToSet(u) = {}
  BY <1>6
<1>9. IsInjective(u)
  BY <1>1, <1>3, SeqFacts
<1> QED
  BY <1>1, <1>7, <1>8, <1>9 DEF t, u

\* The large free list takes some of the blocks it is offered and loses none.
LEMMA InsertLargeFacts ==
  ASSUME NEW free, NEW blocks
  PROVE  /\ free \subseteq InsertLarge(free, blocks)
         /\ InsertLarge(free, blocks) \subseteq free \cup ToSet(blocks)
BY DEF InsertLarge, ToSet
-----------------------------------------------------------------------------
(* The inductive invariant. *)

\* The initial state satisfies it.
LEMMA InitIInv == Init => IInv
<1> SUFFICES ASSUME Init PROVE IInv
  OBVIOUS
<1> USE MemPoolAssumption DEF Init
<1>1. TypeOK
  BY DEF TypeOK
<1>2. OwnedOnce /\ NoSmallBlockLost /\ NoOverlap
  BY DEF OwnedOnce, NoSmallBlockLost, NoOverlap, Free, Small, Large, ToSet, IsInjective
<1>3. MarkerInv /\ MarksInv
  BY DEF MarkerInv, MarksInv, MarksFit
<1>4. LiveInv /\ SizeInv
  BY DEF LiveInv, SizeInv, Free, Small, Large, ToSet
<1> QED
  BY <1>1, <1>2, <1>3, <1>4 DEF IInv

\* What the invariant says of the stacks of one pool.
LEMMA StackFacts ==
  ASSUME IInv, NEW mp \in Pools
  PROVE  /\ mem_block_stack[mp] \in Seq(Blocks) /\ IsInjective(mem_block_stack[mp])
         /\ large_mem_block_stack[mp] \in Seq(Blocks)
         /\ IsInjective(large_mem_block_stack[mp])
         /\ marker_stack[mp] \in Seq(Marker) /\ Len(marker_stack[mp]) <= MaxMarks
         /\ MarksFit(mem_block_stack[mp], marker_stack[mp], 1)
         /\ MarksFit(large_mem_block_stack[mp], marker_stack[mp], 2)
         /\ Small(mp) \subseteq heap /\ Large(mp) \subseteq heap /\ heap \subseteq Blocks
<1>1. /\ mem_block_stack[mp] \in Seq(heap) /\ large_mem_block_stack[mp] \in Seq(heap)
      /\ heap \subseteq Blocks
  BY DEF IInv, TypeOK
<1>2. mem_block_stack[mp] \in Seq(Blocks) /\ large_mem_block_stack[mp] \in Seq(Blocks)
  BY <1>1, SeqMonotonic
<1>3. Small(mp) \subseteq heap /\ Large(mp) \subseteq heap
  BY <1>1 DEF Small, Large, ToSet
<1> QED
  BY <1>1, <1>2, <1>3 DEF IInv, OwnedOnce, MarkerInv, MarksInv

\* Memory in use is in a block its pool holds, on the stack for its size.
LEMMA LiveFacts ==
  ASSUME IInv, NEW a \in live
  PROVE  /\ a \in Allocation /\ a.pool \in Pools /\ a.pool \in mem_pools /\ a.block \in Blocks
         /\ a.size \in Nat \ {0} /\ a.start \in Nat
         /\ a.size <= kMinBlockSize => a.block \in Small(a.pool)
         /\ a.size > kMinBlockSize => a.block \in Large(a.pool)
<1>1. a \in Allocation
  BY DEF IInv, TypeOK
<1>2. /\ a.pool \in Pools /\ a.block \in Blocks /\ a.size \in Nat \ {0} /\ a.start \in Nat
  BY <1>1, MemPoolAssumption DEF Allocation
<1> QED
  BY <1>1, <1>2 DEF IInv, LiveInv, AllocFits, Small, Large

\* OwnedOnce, block by block.
LEMMA OwnedFacts ==
  ASSUME IInv
  PROVE  /\ \A mp \in Pools : \A b \in Small(mp) :
              /\ b \notin Free /\ b \notin large_free_mem_blocks
              /\ \A mq \in Pools : b \notin Large(mq) /\ (mq # mp => b \notin Small(mq))
         /\ \A mp \in Pools : \A b \in Large(mp) :
              /\ b \notin Free /\ b \notin large_free_mem_blocks
              /\ \A mq \in Pools : mq # mp => b \notin Large(mq)
         /\ \A b \in Free : b \notin large_free_mem_blocks /\ b \in Blocks
         /\ \A b \in large_free_mem_blocks : b \in Blocks
<1>1. \A mp \in Pools :
        /\ (Small(mp) \cup Large(mp)) \cap (Free \cup large_free_mem_blocks) = {}
        /\ \A mq \in Pools : Small(mp) \cap Large(mq) = {}
        /\ \A mq \in Pools \ {mp} : Small(mp) \cap Small(mq) = {} /\ Large(mp) \cap Large(mq) = {}
  BY DEF IInv, OwnedOnce
<1>2. Free \cap large_free_mem_blocks = {}
  BY DEF IInv, OwnedOnce
<1>3. Free \subseteq Blocks /\ large_free_mem_blocks \subseteq Blocks
  BY DEF IInv, TypeOK, Free, ToSet
<1> QED
  BY <1>1, <1>2, <1>3

\* A free block, or one the heap has yet to deliver, is on no stack and holds nothing.
LEMMA FreshBlock ==
  ASSUME IInv, NEW b \in Free \cup large_free_mem_blocks \cup (Blocks \ heap)
  PROVE  /\ \A mp \in Pools : b \notin Small(mp) /\ b \notin Large(mp)
         /\ \A a \in live : a.block # b
         /\ b \in Blocks
<1>1. \A mp \in Pools : b \notin Small(mp) /\ b \notin Large(mp)
  BY StackFacts DEF IInv, OwnedOnce
<1>2. ASSUME NEW a \in live PROVE a.block # b
  <2>1. a.block \in Small(a.pool) \cup Large(a.pool) /\ a.pool \in Pools
    BY LiveFacts, MemPoolAssumption
  <2> QED
    BY <1>1, <2>1
<1>3. b \in Blocks
  BY DEF IInv, TypeOK, Free, ToSet
<1> QED
  BY <1>1, <1>2, <1>3

\* Memory carved out of a block lies beyond what was handed out of it.
LEMMA CarveInv ==
  ASSUME IInv, NEW mp \in mem_pools, NEW b \in Blocks, NEW size \in Sizes,
         NEW before \in Nat, size <= before,
         Carve(mp, b, size, before),
         orig_size' \in [Blocks -> Nat], before <= orig_size'[b],
         \A c \in Blocks \ {b} : orig_size'[c] = orig_size[c],
         \A a \in live : a.block = b => before = avail[b] /\ orig_size'[b] = orig_size[b]
  PROVE  /\ avail' \in [Blocks -> Nat] /\ avail'[b] = before - size
         /\ \A c \in Blocks \ {b} : avail'[c] = avail[c]
         /\ live' \subseteq Allocation
         /\ \A a \in live' : a.start + a.size <= orig_size'[a.block] - avail'[a.block]
         /\ NoOverlap'
<1> DEFINE new == [pool |-> mp, block |-> b, start |-> orig_size'[b] - before,
                   size |-> size, level |-> Len(marker_stack[mp])]
<1>1. avail \in [Blocks -> Nat] /\ orig_size \in [Blocks -> Nat] /\ mp \in Pools
  BY DEF IInv, TypeOK
<1>2. size \in Nat \ {0} /\ orig_size'[b] \in Nat
  BY MemPoolAssumption
<1>3. /\ avail' = [avail EXCEPT ![b] = before - size] /\ live' = live \cup {new}
  BY DEF Carve
<1>4. /\ avail' \in [Blocks -> Nat] /\ avail'[b] = before - size
      /\ \A c \in Blocks \ {b} : avail'[c] = avail[c]
  BY <1>1, <1>2, <1>3
<1>5. new \in Allocation
  <2>1. Len(marker_stack[mp]) \in 0 .. MaxMarks
    BY <1>1, StackFacts, LenProperties, MemPoolAssumption
  <2>2. orig_size'[b] - before \in Nat
    BY <1>2
  <2> QED
    BY <1>1, <2>1, <2>2 DEF Allocation
<1>6. live \subseteq Allocation
  BY DEF IInv, TypeOK
<1>7. ASSUME NEW a \in live
      PROVE  /\ a.start + a.size <= orig_size'[a.block] - avail'[a.block]
             /\ a.block = b => a.start + a.size <= orig_size'[b] - before
  <2>1. /\ a.start + a.size <= orig_size[a.block] - avail[a.block]
        /\ a.start \in Nat /\ a.size \in Nat /\ a.block \in Blocks
    BY LiveFacts DEF IInv, LiveInv
  <2>2. CASE a.block = b
    BY <1>1, <1>2, <1>4, <2>1, <2>2
  <2>3. CASE a.block # b
    BY <1>4, <2>1, <2>3
  <2> QED
    BY <2>2, <2>3
<1>8. /\ new.start + new.size <= orig_size'[new.block] - avail'[new.block]
      /\ new.start = orig_size'[b] - before /\ new.block = b
  BY <1>2, <1>4
<1> HIDE DEF new
<1>9. NoOverlap'
  <2> SUFFICES ASSUME NEW a \in live', NEW c \in live', a # c, a.block = c.block
               PROVE  a.start + a.size <= c.start \/ c.start + c.size <= a.start
    BY DEF NoOverlap
  <2>1. CASE a \in live /\ c \in live
    BY <2>1 DEF IInv, NoOverlap
  <2>2. CASE a \in live /\ c = new
    BY <1>7, <1>8, <2>2
  <2>3. CASE a = new /\ c \in live
    BY <1>7, <1>8, <2>3
  <2> QED
    BY <1>3, <2>1, <2>2, <2>3
<1>10. \A a \in live' : a.start + a.size <= orig_size'[a.block] - avail'[a.block]
  BY <1>3, <1>7, <1>8
<1>11. live' \subseteq Allocation
  BY <1>3, <1>5, <1>6
<1> QED
  BY <1>4, <1>9, <1>10, <1>11

\* A small block that is pushed fits under the markers, and so does the memory carved from it.
LEMMA PushSmall ==
  ASSUME IInv, NEW mp \in mem_pools, NEW b \in Blocks, b \notin Small(mp),
         NEW size \in Sizes, size <= kMinBlockSize, NEW before, Carve(mp, b, size, before),
         mem_block_stack' = [mem_block_stack EXCEPT ![mp] = Append(@, b)],
         UNCHANGED <<mem_pools, large_mem_block_stack, marker_stack>>,
         \A a \in live' : a.start + a.size <= orig_size'[a.block] - avail'[a.block],
         heap' = heap \cup {b}
  PROVE  /\ MarksInv' /\ LiveInv'
         /\ Small(mp)' = Small(mp) \cup {b}
         /\ \A mq \in Pools \ {mp} : mem_block_stack'[mq] = mem_block_stack[mq]
         /\ \A mq \in Pools \ {mp} : Small(mq)' = Small(mq)
         /\ \A mq \in Pools : Large(mq)' = Large(mq)
         /\ IsInjective(mem_block_stack'[mp])
         /\ mem_block_stack' \in [Pools -> Seq(heap')] /\ large_mem_block_stack' \in [Pools -> Seq(heap')]
<1> DEFINE new == [pool |-> mp, block |-> b, start |-> orig_size'[b] - before,
                   size |-> size, level |-> Len(marker_stack[mp])]
           stack == mem_block_stack[mp]
           t == Append(stack, b)
<1>1. /\ mp \in Pools /\ mem_block_stack \in [Pools -> Seq(heap)] /\ large_mem_block_stack \in [Pools -> Seq(heap)]
  BY DEF IInv, TypeOK
<1>2. stack \in Seq(Blocks) /\ IsInjective(stack) /\ b \in Blocks \ ToSet(stack)
  BY <1>1, StackFacts DEF Small
<1>3. t \in Seq(Blocks) /\ IsInjective(t) /\ ToSet(t) = ToSet(stack) \cup {b}
  BY <1>2, PosAppend
<1>4. /\ MarksFit(t, marker_stack[mp], 1)
      /\ AllocFits(t, marker_stack[mp], 1, b, Len(marker_stack[mp]))
      /\ \A c, level : AllocFits(stack, marker_stack[mp], 1, c, level)
                         => AllocFits(t, marker_stack[mp], 1, c, level)
  BY <1>1, <1>2, StackFacts, FitAppend
<1>5. t \in Seq(heap')
  <2>1. stack \in Seq(heap') /\ b \in heap'
    BY <1>1, SeqMonotonic
  <2> QED
    BY <2>1, AppendProperties
<1> HIDE DEF t
<1>6. /\ mem_block_stack'[mp] = t /\ \A mq \in Pools \ {mp} : mem_block_stack'[mq] = mem_block_stack[mq]
      /\ large_mem_block_stack' = large_mem_block_stack /\ marker_stack' = marker_stack
      /\ mem_block_stack' \in [Pools -> Seq(heap')] /\ large_mem_block_stack' \in [Pools -> Seq(heap')]
  <2>1. \A mq \in Pools : mem_block_stack[mq] \in Seq(heap') /\ large_mem_block_stack[mq] \in Seq(heap')
    BY <1>1, SeqMonotonic
  <2>2. large_mem_block_stack \in [Pools -> Seq(heap')]
    BY <1>1, <2>1
  <2>3. mem_block_stack' = [mem_block_stack EXCEPT ![mp] = t]
    BY DEF t
  <2> QED
    BY <1>1, <1>5, <2>1, <2>2, <2>3
<1>7. MarksInv'
  BY <1>4, <1>6 DEF MarksInv, IInv
<1>8. LiveInv'
  <2> SUFFICES ASSUME NEW a \in live'
               PROVE  /\ a.pool \in mem_pools
                      /\ a.size <= kMinBlockSize =>
                           AllocFits(mem_block_stack'[a.pool], marker_stack[a.pool], 1,
                                     a.block, a.level)
                      /\ a.size > kMinBlockSize =>
                           AllocFits(large_mem_block_stack'[a.pool], marker_stack[a.pool], 2,
                                     a.block, a.level)
    BY <1>6 DEF LiveInv
  <2>1. live' = live \cup {new}
    BY DEF Carve
  <2>2. CASE a \in live
    <3>1. /\ a.pool \in mem_pools /\ a.pool \in Pools
          /\ a.size <= kMinBlockSize =>
               AllocFits(mem_block_stack[a.pool], marker_stack[a.pool], 1, a.block, a.level)
          /\ a.size > kMinBlockSize =>
               AllocFits(large_mem_block_stack[a.pool], marker_stack[a.pool], 2, a.block,
                         a.level)
      BY <2>2, LiveFacts DEF IInv, LiveInv
    <3>2. CASE a.pool = mp
      BY <1>4, <1>6, <3>1, <3>2
    <3>3. CASE a.pool # mp
      BY <1>6, <3>1, <3>3
    <3> QED
      BY <3>2, <3>3
  <2>3. CASE a = new
    <3>1. /\ a.pool = mp /\ a.block = b /\ a.size = size /\ a.level = Len(marker_stack[mp])
          /\ size \in Nat
      BY <2>3, MemPoolAssumption
    <3>2. AllocFits(mem_block_stack'[a.pool], marker_stack[a.pool], 1, a.block, a.level)
      BY <1>4, <1>6, <3>1
    <3>3. ~(a.size > kMinBlockSize)
      BY <3>1, MemPoolAssumption
    <3> QED
      BY <3>1, <3>2, <3>3
  <2> QED
    BY <2>1, <2>2, <2>3
<1> QED
  BY <1>3, <1>6, <1>7, <1>8 DEF Small, Large

\* The same for a large block.
LEMMA PushLarge ==
  ASSUME IInv, NEW mp \in mem_pools, NEW b \in Blocks, b \notin Large(mp),
         NEW size \in Sizes, size > kMinBlockSize, NEW before, Carve(mp, b, size, before),
         large_mem_block_stack' = [large_mem_block_stack EXCEPT ![mp] = Append(@, b)],
         UNCHANGED <<mem_pools, mem_block_stack, marker_stack>>,
         \A a \in live' : a.start + a.size <= orig_size'[a.block] - avail'[a.block],
         heap' = heap \cup {b}
  PROVE  /\ MarksInv' /\ LiveInv'
         /\ Large(mp)' = Large(mp) \cup {b}
         /\ \A mq \in Pools \ {mp} : large_mem_block_stack'[mq] = large_mem_block_stack[mq]
         /\ \A mq \in Pools \ {mp} : Large(mq)' = Large(mq)
         /\ \A mq \in Pools : Small(mq)' = Small(mq)
         /\ IsInjective(large_mem_block_stack'[mp])
         /\ large_mem_block_stack' \in [Pools -> Seq(heap')] /\ mem_block_stack' \in [Pools -> Seq(heap')]
<1> DEFINE new == [pool |-> mp, block |-> b, start |-> orig_size'[b] - before,
                   size |-> size, level |-> Len(marker_stack[mp])]
           stack == large_mem_block_stack[mp]
           t == Append(stack, b)
<1>1. /\ mp \in Pools /\ large_mem_block_stack \in [Pools -> Seq(heap)] /\ mem_block_stack \in [Pools -> Seq(heap)]
  BY DEF IInv, TypeOK
<1>2. stack \in Seq(Blocks) /\ IsInjective(stack) /\ b \in Blocks \ ToSet(stack)
  BY <1>1, StackFacts DEF Large
<1>3. t \in Seq(Blocks) /\ IsInjective(t) /\ ToSet(t) = ToSet(stack) \cup {b}
  BY <1>2, PosAppend
<1>4. /\ MarksFit(t, marker_stack[mp], 2)
      /\ AllocFits(t, marker_stack[mp], 2, b, Len(marker_stack[mp]))
      /\ \A c, level : AllocFits(stack, marker_stack[mp], 2, c, level)
                         => AllocFits(t, marker_stack[mp], 2, c, level)
  BY <1>1, <1>2, StackFacts, FitAppend
<1>5. t \in Seq(heap')
  <2>1. stack \in Seq(heap') /\ b \in heap'
    BY <1>1, SeqMonotonic
  <2> QED
    BY <2>1, AppendProperties
<1> HIDE DEF t
<1>6. /\ large_mem_block_stack'[mp] = t /\ \A mq \in Pools \ {mp} : large_mem_block_stack'[mq] = large_mem_block_stack[mq]
      /\ mem_block_stack' = mem_block_stack /\ marker_stack' = marker_stack
      /\ large_mem_block_stack' \in [Pools -> Seq(heap')] /\ mem_block_stack' \in [Pools -> Seq(heap')]
  <2>1. \A mq \in Pools : large_mem_block_stack[mq] \in Seq(heap') /\ mem_block_stack[mq] \in Seq(heap')
    BY <1>1, SeqMonotonic
  <2>2. mem_block_stack \in [Pools -> Seq(heap')]
    BY <1>1, <2>1
  <2>3. large_mem_block_stack' = [large_mem_block_stack EXCEPT ![mp] = t]
    BY DEF t
  <2> QED
    BY <1>1, <1>5, <2>1, <2>2, <2>3
<1>7. MarksInv'
  BY <1>4, <1>6 DEF MarksInv, IInv
<1>8. LiveInv'
  <2> SUFFICES ASSUME NEW a \in live'
               PROVE  /\ a.pool \in mem_pools
                      /\ a.size <= kMinBlockSize =>
                           AllocFits(mem_block_stack'[a.pool], marker_stack[a.pool], 1,
                                     a.block, a.level)
                      /\ a.size > kMinBlockSize =>
                           AllocFits(large_mem_block_stack'[a.pool], marker_stack[a.pool], 2,
                                     a.block, a.level)
    BY <1>6 DEF LiveInv
  <2>1. live' = live \cup {new}
    BY DEF Carve
  <2>2. CASE a \in live
    <3>1. /\ a.pool \in mem_pools /\ a.pool \in Pools
          /\ a.size <= kMinBlockSize =>
               AllocFits(mem_block_stack[a.pool], marker_stack[a.pool], 1, a.block, a.level)
          /\ a.size > kMinBlockSize =>
               AllocFits(large_mem_block_stack[a.pool], marker_stack[a.pool], 2, a.block,
                         a.level)
      BY <2>2, LiveFacts DEF IInv, LiveInv
    <3>2. CASE a.pool = mp
      BY <1>4, <1>6, <3>1, <3>2
    <3>3. CASE a.pool # mp
      BY <1>6, <3>1, <3>3
    <3> QED
      BY <3>2, <3>3
  <2>3. CASE a = new
    <3>1. /\ a.pool = mp /\ a.block = b /\ a.size = size /\ a.level = Len(marker_stack[mp])
          /\ size \in Nat
      BY <2>3, MemPoolAssumption
    <3>2. AllocFits(large_mem_block_stack'[a.pool], marker_stack[a.pool], 2, a.block, a.level)
      BY <1>4, <1>6, <3>1
    <3>3. ~(a.size <= kMinBlockSize)
      BY <3>1, MemPoolAssumption
    <3> QED
      BY <3>1, <3>2, <3>3
  <2> QED
    BY <2>1, <2>2, <2>3
<1> QED
  BY <1>3, <1>6, <1>7, <1>8 DEF Small, Large
-----------------------------------------------------------------------------
(* Every operation preserves the inductive invariant. *)

\* Memory from the rest of the top block.
LEMMA StepTop ==
  ASSUME IInv, NEW mp \in Pools, NEW size \in Sizes, MallocSmall(mp, size),
         TopServes(mp, size)
  PROVE  IInv'
<1> DEFINE stack == mem_block_stack[mp]
           b == Last(stack)
           new == [pool |-> mp, block |-> b, start |-> orig_size'[b] - avail[b],
                   size |-> size, level |-> Len(marker_stack[mp])]
<1>1. /\ mp \in mem_pools /\ size <= kMinBlockSize
      /\ Carve(mp, b, size, avail[b])
      /\ UNCHANGED <<mem_pools, mem_block_stack, large_mem_block_stack, marker_stack,
                     free_mem_blocks, large_free_mem_blocks, orig_size, heap>>
  BY DEF MallocSmall, ctrlVars
<1>2. /\ stack # <<>> /\ avail[b] >= size
      /\ marker_stack[mp] # <<>> => Last(marker_stack[mp])[1] # b
  BY DEF TopServes
<1>3. /\ AllocFits(stack, marker_stack[mp], 1, b, Len(marker_stack[mp]))
      /\ b \in Small(mp) /\ b \in heap /\ b \in Blocks
  <2>1. AllocFits(stack, marker_stack[mp], 1, b, Len(marker_stack[mp]))
    BY <1>2, StackFacts, FitTop
  <2> QED
    BY <2>1, StackFacts DEF AllocFits, Small
<1>4. /\ avail \in [Blocks -> Nat] /\ orig_size \in [Blocks -> Nat]
      /\ size \in Nat /\ avail[b] <= orig_size[b]
  BY <1>3, MemPoolAssumption DEF IInv, TypeOK
<1>5. /\ avail' \in [Blocks -> Nat] /\ avail'[b] = avail[b] - size
      /\ \A c \in Blocks \ {b} : avail'[c] = avail[c]
      /\ live' \subseteq Allocation
      /\ \A a \in live' : a.start + a.size <= orig_size'[a.block] - avail'[a.block]
      /\ NoOverlap'
  <2>1. \A c \in Blocks \ {b} : orig_size'[c] = orig_size[c]
    BY <1>1
  <2>2. \A a \in live : a.block = b => avail[b] = avail[b] /\ orig_size'[b] = orig_size[b]
    BY <1>1
  <2>3. size <= avail[b] /\ avail[b] \in Nat /\ avail[b] <= orig_size'[b]
    BY <1>1, <1>2, <1>3, <1>4
  <2>4. orig_size' \in [Blocks -> Nat]
    BY <1>1, <1>4
  <2> HIDE DEF b
  <2> QED
    BY <1>1, <1>3, <2>1, <2>2, <2>3, <2>4, CarveInv
<1>6. TypeOK'
  <2>1. \A c \in heap : avail'[c] <= orig_size[c]
    <3>1. \A c \in heap : c \in Blocks /\ avail[c] <= orig_size[c]
      BY DEF IInv, TypeOK
    <3> QED
      BY <1>3, <1>4, <1>5, <3>1
  <2> QED
    BY <1>1, <1>5, <2>1 DEF IInv, TypeOK
<1>7. OwnedOnce' /\ NoSmallBlockLost' /\ MarkerInv' /\ MarksInv'
  BY <1>1 DEF IInv, OwnedOnce, NoSmallBlockLost, MarkerInv, MarksInv, Free, Known, Small, Large
<1>8. LiveInv'
  <2>1. live' = live \cup {new}
    BY <1>1 DEF Carve
  <2>2. ASSUME NEW a \in live'
        PROVE  /\ a.pool \in mem_pools
               /\ a.size <= kMinBlockSize =>
                    AllocFits(mem_block_stack[a.pool], marker_stack[a.pool], 1, a.block,
                              a.level)
               /\ a.size > kMinBlockSize =>
                    AllocFits(large_mem_block_stack[a.pool], marker_stack[a.pool], 2,
                              a.block, a.level)
    <3>1. CASE a \in live
      BY <3>1 DEF IInv, LiveInv
    <3>2. CASE a = new
      <4>1. a.pool = mp /\ a.block = b /\ a.size = size /\ a.level = Len(marker_stack[mp])
        BY <3>2
      <4>2. ~(size > kMinBlockSize)
        BY <1>1, <1>4, MemPoolAssumption
      <4> QED
        BY <1>1, <1>3, <4>1, <4>2
    <3> QED
      BY <2>1, <3>1, <3>2
  <2> QED
    BY <1>1, <1>5, <2>2 DEF LiveInv
<1>9. SizeInv'
  <2>1. b \notin Free \cup large_free_mem_blocks
    BY <1>3, FreshBlock
  <2>2. Free \cup large_free_mem_blocks \subseteq Blocks
    BY DEF IInv, TypeOK, Free, ToSet
  <2> QED
    BY <1>1, <1>5, <2>1, <2>2 DEF IInv, SizeInv, Free, Small, Large
<1> QED
  BY <1>5, <1>6, <1>7, <1>8, <1>9 DEF IInv

\* Memory from a free small block, or from one the heap delivers.
LEMMA StepSmallBlock ==
  ASSUME IInv, NEW mp \in mem_pools, NEW size \in Sizes, size <= kMinBlockSize,
         NEW b \in Free \cup (Blocks \ heap),
         Carve(mp, b, size, kMinBlockSize),
         orig_size' \in [Blocks -> Nat], orig_size'[b] = kMinBlockSize,
         \A c \in Blocks \ {b} : orig_size'[c] = orig_size[c],
         mem_block_stack' = [mem_block_stack EXCEPT ![mp] = Append(@, b)],
         heap' = heap \cup {b}, free_mem_blocks' \in Seq(heap),
         IsInjective(free_mem_blocks'), Free' = Free \ {b},
         UNCHANGED <<mem_pools, large_free_mem_blocks, large_mem_block_stack, marker_stack>>
  PROVE  IInv'
<1>1. /\ \A mq \in Pools : b \notin Small(mq) /\ b \notin Large(mq)
      /\ \A a \in live : a.block # b
      /\ b \in Blocks /\ b \notin large_free_mem_blocks
  <2>1. b \in Free \cup large_free_mem_blocks \cup (Blocks \ heap)
    OBVIOUS
  <2>2. b \notin large_free_mem_blocks
    BY DEF IInv, TypeOK, OwnedOnce
  <2> QED
    BY <2>1, <2>2, FreshBlock
<1>2. /\ mp \in Pools /\ kMinBlockSize \in Nat /\ size \in Nat
      /\ avail \in [Blocks -> Nat] /\ orig_size \in [Blocks -> Nat] /\ heap \subseteq Blocks
  BY MemPoolAssumption DEF IInv, TypeOK
<1>3. /\ avail' \in [Blocks -> Nat] /\ avail'[b] = kMinBlockSize - size
      /\ \A c \in Blocks \ {b} : avail'[c] = avail[c]
      /\ live' \subseteq Allocation
      /\ \A a \in live' : a.start + a.size <= orig_size'[a.block] - avail'[a.block]
      /\ NoOverlap'
  <2>1. size <= kMinBlockSize /\ kMinBlockSize <= orig_size'[b]
    BY <1>2
  <2>2. \A a \in live : a.block = b => kMinBlockSize = avail[b] /\ orig_size'[b] = orig_size[b]
    BY <1>1
  <2>3. b \in Blocks /\ kMinBlockSize \in Nat
    BY <1>1, <1>2
  <2> QED
    BY <2>1, <2>2, <2>3, CarveInv
<1>4. /\ MarksInv' /\ LiveInv'
      /\ Small(mp)' = Small(mp) \cup {b}
      /\ \A mq \in Pools \ {mp} : mem_block_stack'[mq] = mem_block_stack[mq]
      /\ \A mq \in Pools \ {mp} : Small(mq)' = Small(mq)
      /\ \A mq \in Pools : Large(mq)' = Large(mq)
      /\ IsInjective(mem_block_stack'[mp])
      /\ mem_block_stack' \in [Pools -> Seq(heap')]
      /\ large_mem_block_stack' \in [Pools -> Seq(heap')]
  BY <1>1, <1>2, <1>3, PushSmall
<1>5. TypeOK'
  <2>1. free_mem_blocks' \in Seq(heap')
    BY SeqMonotonic
  <2>2. \A c \in heap' : avail'[c] <= orig_size'[c]
    <3>1. \A c \in heap : avail[c] <= orig_size[c]
      BY DEF IInv, TypeOK
    <3>2. avail'[b] <= orig_size'[b]
      BY <1>2, <1>3
    <3> QED
      BY <1>2, <1>3, <3>1, <3>2
  <2>3. \A mq \in Pools : \A i \in DOMAIN marker_stack[mq] :
          marker_stack[mq][i] \in (heap' \cup {NoBlock}) \X (heap' \cup {NoBlock})
    BY DEF IInv, TypeOK
  <2> QED
    BY <1>1, <1>2, <1>3, <1>4, <2>1, <2>2, <2>3 DEF IInv, TypeOK
<1>6. OwnedOnce'
  <2>1. /\ \A mq \in Pools : IsInjective(mem_block_stack[mq])
        /\ \A mq \in Pools : IsInjective(large_mem_block_stack[mq])
    BY DEF IInv, OwnedOnce
  <2>2. \A mq \in Pools : IsInjective(mem_block_stack'[mq])
    BY <1>4, <2>1
  <2>3. \A mq \in Pools :
          (Small(mq)' \cup Large(mq)') \cap (Free' \cup large_free_mem_blocks') = {}
    <3> SUFFICES ASSUME NEW mq \in Pools, NEW c \in Small(mq)' \cup Large(mq)'
                 PROVE  c \notin Free' /\ c \notin large_free_mem_blocks
      OBVIOUS
    <3>1. c = b \/ c \in Small(mq) \/ c \in Large(mq)
      BY <1>4 DEF Small, Large
    <3> QED
      BY <1>1, <3>1, OwnedFacts
  <2>4. \A mq, mr \in Pools : Small(mq)' \cap Large(mr)' = {}
    <3> SUFFICES ASSUME NEW mq \in Pools, NEW mr \in Pools, NEW c \in Small(mq)'
                 PROVE  c \notin Large(mr)'
      OBVIOUS
    <3>1. c = b \/ c \in Small(mq)
      BY <1>4 DEF Small, Large
    <3> QED
      BY <1>1, <1>4, <3>1, OwnedFacts DEF Small, Large
  <2>5. \A mq \in Pools : \A mr \in Pools \ {mq} :
          Small(mq)' \cap Small(mr)' = {} /\ Large(mq)' \cap Large(mr)' = {}
    <3> SUFFICES ASSUME NEW mq \in Pools, NEW mr \in Pools, mq # mr
                 PROVE  /\ \A c \in Small(mq)' : c \notin Small(mr)'
                        /\ \A c \in Large(mq)' : c \notin Large(mr)'
      OBVIOUS
    <3>1. ASSUME NEW c \in Small(mq)' PROVE c \notin Small(mr)'
      BY <1>1, <1>4, OwnedFacts DEF Small, Large
    <3>2. ASSUME NEW c \in Large(mq)' PROVE c \notin Large(mr)'
      BY <1>4, OwnedFacts DEF Small, Large
    <3> QED
      BY <3>1, <3>2
  <2> QED
    BY <2>1, <2>2, <2>3, <2>4, <2>5 DEF IInv, OwnedOnce
<1>7. NoSmallBlockLost'
  <2>1. \A c : c \in Known' <=>
          \/ c \in Free' \/ c \in large_free_mem_blocks'
          \/ \E mq \in Pools : \/ c \in ToSet(mem_block_stack'[mq])
                               \/ c \in ToSet(large_mem_block_stack'[mq])
    BY DEF Known, Small, Large
  <2>2. \A c : c \in Known <=>
          \/ c \in Free \/ c \in large_free_mem_blocks
          \/ \E mq \in Pools : c \in Small(mq) \/ c \in Large(mq)
    BY DEF Known
  <2>3. b \in Known'
    BY <1>2, <1>4, <2>1 DEF Small
  <2>4. ASSUME NEW c \in Known PROVE c \in Known'
    BY <1>4, <2>1, <2>2, <2>3 DEF Small, Large
  <2> QED
    BY <1>2, <2>3, <2>4 DEF IInv, NoSmallBlockLost
<1>8. SizeInv'
  <2>1. \A c \in Free' \cup large_free_mem_blocks : c # b /\ c \in Blocks
    BY <1>1, OwnedFacts
  <2>2. \A mq \in Pools : \A c \in Small(mq) \cup Large(mq) : c # b /\ c \in Blocks
    BY <1>1, StackFacts
  <2>3. ASSUME NEW mq \in Pools
        PROVE  /\ \A c \in Small(mq)' : orig_size'[c] = kMinBlockSize
               /\ \A c \in Large(mq)' : orig_size'[c] > kMinBlockSize
    BY <1>4, <2>2, ZenonT(30) DEF IInv, SizeInv, Small, Large
  <2>4. \A c \in Free' \cup large_free_mem_blocks : avail'[c] = orig_size'[c]
    BY <1>3, <2>1 DEF IInv, SizeInv
  <2>5. /\ \A c \in Free' : orig_size'[c] = kMinBlockSize
        /\ \A c \in large_free_mem_blocks : orig_size'[c] > kMinBlockSize
    BY <2>1 DEF IInv, SizeInv
  <2> QED
    BY <2>3, <2>4, <2>5 DEF SizeInv
<1> QED
  BY <1>3, <1>4, <1>5, <1>6, <1>7, <1>8 DEF IInv, MarkerInv

\* MallocSmall as a whole.
LEMMA StepMallocSmall ==
  ASSUME IInv, NEW mp \in Pools, NEW size \in Sizes, MallocSmall(mp, size)
  PROVE  IInv'
<1>1. mp \in mem_pools /\ size <= kMinBlockSize
  BY DEF MallocSmall
<1>2. /\ free_mem_blocks \in Seq(heap) /\ IsInjective(free_mem_blocks)
      /\ orig_size \in [Blocks -> Nat] /\ heap \subseteq Blocks /\ kMinBlockSize \in Nat
  BY MemPoolAssumption DEF IInv, TypeOK, OwnedOnce
<1>3. CASE TopServes(mp, size)
  BY <1>3, StepTop
<1>4. CASE ~TopServes(mp, size) /\ free_mem_blocks # <<>>
  <2> DEFINE b == Head(free_mem_blocks)
             rest == Tail(free_mem_blocks)
  <2>1. /\ free_mem_blocks' = rest
        /\ UNCHANGED <<large_free_mem_blocks, orig_size, heap, mem_pools,
                       large_mem_block_stack, marker_stack>>
        /\ mem_block_stack' = [mem_block_stack EXCEPT ![mp] = Append(@, b)]
        /\ Carve(mp, b, size, avail[b])
    BY <1>4 DEF MallocSmall
  <2>2. free_mem_blocks \in Seq(Blocks)
    BY <1>2, SeqMonotonic
  <2>3. /\ b \in Blocks /\ b \in Free /\ b \in heap /\ b = free_mem_blocks[1]
        /\ rest \in Seq(heap) /\ Len(free_mem_blocks) \in Nat /\ Len(free_mem_blocks) >= 1
        /\ Len(rest) = Len(free_mem_blocks) - 1
        /\ \A i \in 1 .. Len(rest) : rest[i] = free_mem_blocks[i + 1]
    <3>1. /\ Len(free_mem_blocks) \in Nat /\ Len(free_mem_blocks) >= 1
          /\ b = free_mem_blocks[1]
      BY <1>4, <2>2, EmptySeq
    <3>2. free_mem_blocks[1] \in Free
      BY <2>2, <3>1, SeqFacts DEF Free
    <3> QED
      BY <1>2, <1>4, <2>2, <3>1, <3>2, HeadTailProperties
  <2>4. rest \in Seq(Blocks)
    BY <1>2, <2>3, SeqMonotonic
  <2> HIDE DEF b, rest
  <2>5. IsInjective(rest)
    <3> SUFFICES ASSUME NEW i \in 1 .. Len(rest), NEW j \in 1 .. Len(rest), rest[i] = rest[j]
                 PROVE  i = j
      BY <2>4, SeqFacts
    <3>1. /\ i + 1 \in 1 .. Len(free_mem_blocks) /\ j + 1 \in 1 .. Len(free_mem_blocks)
          /\ free_mem_blocks[i + 1] = free_mem_blocks[j + 1]
      BY <2>3
    <3>2. i + 1 = j + 1
      BY <1>2, <2>2, <3>1, SeqFacts
    <3> QED
      BY <3>2
  <2>6. Free' = Free \ {b}
    <3>1. ASSUME NEW i \in 1 .. Len(rest) PROVE rest[i] \in Free \ {b}
      <4>1. i + 1 \in 1 .. Len(free_mem_blocks) /\ rest[i] = free_mem_blocks[i + 1] /\ i + 1 # 1
        BY <2>3
      <4>2. free_mem_blocks[i + 1] # free_mem_blocks[1]
        <5>1. 1 \in 1 .. Len(free_mem_blocks) /\ IsInjective(free_mem_blocks)
          BY <1>2, <2>3, <4>1
        <5> QED
          BY <2>2, <4>1, <5>1, OnePosition
      <4> QED
        BY <2>2, <2>3, <4>1, <4>2, SeqFacts DEF Free
    <3>2. ASSUME NEW i \in 1 .. Len(free_mem_blocks), free_mem_blocks[i] # b
          PROVE  free_mem_blocks[i] \in ToSet(rest)
      <4>1. i - 1 \in 1 .. Len(rest) /\ rest[i - 1] = free_mem_blocks[i]
        BY <2>3, <3>2
      <4> QED
        BY <2>4, <4>1, SeqFacts
    <3>3. ToSet(rest) \subseteq Free \ {b}
      BY <2>4, <3>1, ToSetWithin
    <3>4. \A i \in 1 .. Len(free_mem_blocks) : free_mem_blocks[i] \in ToSet(rest) \cup {b}
      BY <3>2
    <3>5. Free \subseteq ToSet(rest) \cup {b}
      BY <2>2, <3>4, ToSetWithin DEF Free
    <3> QED
      BY <2>1, <3>3, <3>5 DEF Free
  <2>7. avail[b] = kMinBlockSize /\ orig_size[b] = kMinBlockSize
    BY <2>3 DEF IInv, SizeInv
  <2>8. /\ b \in Free \cup (Blocks \ heap) /\ Carve(mp, b, size, kMinBlockSize)
        /\ orig_size' \in [Blocks -> Nat] /\ orig_size'[b] = kMinBlockSize
        /\ \A c \in Blocks \ {b} : orig_size'[c] = orig_size[c]
        /\ heap' = heap \cup {b} /\ free_mem_blocks' \in Seq(heap)
        /\ IsInjective(free_mem_blocks')
    BY <1>2, <2>1, <2>3, <2>5, <2>7
  <2> QED
    BY <1>1, <2>1, <2>6, <2>8, StepSmallBlock
<1>5. CASE ~TopServes(mp, size) /\ free_mem_blocks = <<>>
  <2>1. PICK b \in Blocks :
          /\ FromHeap(mp, b, kMinBlockSize, size)
          /\ mem_block_stack' = [mem_block_stack EXCEPT ![mp] = Append(@, b)]
    BY <1>5 DEF MallocSmall
  <2>2. /\ b \in Free \cup (Blocks \ heap) /\ Carve(mp, b, size, kMinBlockSize)
        /\ orig_size' = [orig_size EXCEPT ![b] = kMinBlockSize]
        /\ heap' = heap \cup {b} /\ b \notin heap
        /\ UNCHANGED <<mem_pools, free_mem_blocks, large_free_mem_blocks,
                       large_mem_block_stack, marker_stack>>
    BY <1>5, <2>1 DEF MallocSmall, FromHeap, ctrlVars
  <2>3. Free' = Free \ {b}
    BY <1>5, <2>2 DEF Free, ToSet
  <2>4. /\ orig_size' \in [Blocks -> Nat] /\ orig_size'[b] = kMinBlockSize
        /\ \A c \in Blocks \ {b} : orig_size'[c] = orig_size[c]
        /\ free_mem_blocks' \in Seq(heap) /\ IsInjective(free_mem_blocks')
    BY <1>2, <2>2
  <2> QED
    BY <1>1, <2>1, <2>2, <2>3, <2>4, StepSmallBlock
<1> QED
  BY <1>3, <1>4, <1>5

\* Memory from a free large block, or from one the heap delivers.
LEMMA StepLargeBlock ==
  ASSUME IInv, NEW mp \in mem_pools, NEW size \in Sizes, size > kMinBlockSize,
         NEW b \in large_free_mem_blocks \cup (Blocks \ heap),
         Carve(mp, b, size, orig_size'[b]),
         orig_size' \in [Blocks -> Nat], size <= orig_size'[b],
         \A c \in Blocks \ {b} : orig_size'[c] = orig_size[c],
         large_mem_block_stack' = [large_mem_block_stack EXCEPT ![mp] = Append(@, b)],
         heap' = heap \cup {b}, large_free_mem_blocks' = large_free_mem_blocks \ {b},
         UNCHANGED <<mem_pools, free_mem_blocks, mem_block_stack, marker_stack>>
  PROVE  IInv'
<1>1. /\ \A mq \in Pools : b \notin Small(mq) /\ b \notin Large(mq)
      /\ \A a \in live : a.block # b
      /\ b \in Blocks /\ b \notin Free
  <2>1. b \in Free \cup large_free_mem_blocks \cup (Blocks \ heap)
    OBVIOUS
  <2>2. b \notin Free
    <3>1. \A c \in Free : c \in heap /\ c \notin large_free_mem_blocks
      <4>1. Free \subseteq heap
        BY DEF IInv, TypeOK, Free, ToSet
      <4> QED
        BY <4>1, OwnedFacts
    <3> QED
      BY <3>1
  <2> QED
    BY <2>1, <2>2, FreshBlock
<1>2. /\ mp \in Pools /\ kMinBlockSize \in Nat /\ size \in Nat
      /\ avail \in [Blocks -> Nat] /\ orig_size \in [Blocks -> Nat] /\ heap \subseteq Blocks
  BY MemPoolAssumption DEF IInv, TypeOK
<1>3. /\ avail' \in [Blocks -> Nat] /\ avail'[b] = orig_size'[b] - size
      /\ \A c \in Blocks \ {b} : avail'[c] = avail[c]
      /\ live' \subseteq Allocation
      /\ \A a \in live' : a.start + a.size <= orig_size'[a.block] - avail'[a.block]
      /\ NoOverlap'
  <2>1. orig_size'[b] \in Nat /\ orig_size'[b] <= orig_size'[b]
    BY <1>1
  <2>2. \A a \in live : a.block = b => orig_size'[b] = avail[b] /\ orig_size'[b] = orig_size[b]
    BY <1>1
  <2>3. b \in Blocks
    BY <1>1
  <2> QED
    BY <2>1, <2>2, <2>3, CarveInv
<1>4. /\ MarksInv' /\ LiveInv'
      /\ Large(mp)' = Large(mp) \cup {b}
      /\ \A mq \in Pools \ {mp} : large_mem_block_stack'[mq] = large_mem_block_stack[mq]
      /\ \A mq \in Pools \ {mp} : Large(mq)' = Large(mq)
      /\ \A mq \in Pools : Small(mq)' = Small(mq)
      /\ IsInjective(large_mem_block_stack'[mp])
      /\ mem_block_stack' \in [Pools -> Seq(heap')]
      /\ large_mem_block_stack' \in [Pools -> Seq(heap')]
  BY <1>1, <1>2, <1>3, PushLarge
<1>5. TypeOK'
  <2>1. free_mem_blocks' \in Seq(heap') /\ large_free_mem_blocks' \subseteq heap'
    BY SeqMonotonic DEF IInv, TypeOK
  <2>2. \A c \in heap' : avail'[c] <= orig_size'[c]
    <3>1. \A c \in heap : avail[c] <= orig_size[c]
      BY DEF IInv, TypeOK
    <3>2. avail'[b] <= orig_size'[b]
      BY <1>1, <1>2, <1>3
    <3> QED
      BY <1>2, <1>3, <3>1, <3>2
  <2>3. \A mq \in Pools : \A i \in DOMAIN marker_stack[mq] :
          marker_stack[mq][i] \in (heap' \cup {NoBlock}) \X (heap' \cup {NoBlock})
    BY DEF IInv, TypeOK
  <2> QED
    BY <1>1, <1>2, <1>3, <1>4, <2>1, <2>2, <2>3 DEF IInv, TypeOK
<1>6. OwnedOnce'
  <2>1. /\ \A mq \in Pools : IsInjective(mem_block_stack[mq])
        /\ \A mq \in Pools : IsInjective(large_mem_block_stack[mq])
    BY DEF IInv, OwnedOnce
  <2>2. \A mq \in Pools : IsInjective(large_mem_block_stack'[mq])
    BY <1>4, <2>1
  <2>3. \A mq \in Pools :
          (Small(mq)' \cup Large(mq)') \cap (Free' \cup large_free_mem_blocks') = {}
    <3> SUFFICES ASSUME NEW mq \in Pools, NEW c \in Small(mq)' \cup Large(mq)'
                 PROVE  c \notin Free' /\ c \notin large_free_mem_blocks'
      OBVIOUS
    <3>1. c = b \/ c \in Small(mq) \/ c \in Large(mq)
      BY <1>4 DEF Small, Large
    <3> QED
      BY <1>1, <3>1, OwnedFacts DEF Free
  <2>4. \A mq, mr \in Pools : Small(mq)' \cap Large(mr)' = {}
    <3> SUFFICES ASSUME NEW mq \in Pools, NEW mr \in Pools, NEW c \in Small(mq)'
                 PROVE  c \notin Large(mr)'
      OBVIOUS
    <3>1. c \in Small(mq) /\ c # b
      BY <1>1, <1>4 DEF Small, Large
    <3> QED
      BY <1>1, <1>4, <3>1, OwnedFacts DEF Small, Large
  <2>5. \A mq \in Pools : \A mr \in Pools \ {mq} :
          Small(mq)' \cap Small(mr)' = {} /\ Large(mq)' \cap Large(mr)' = {}
    <3> SUFFICES ASSUME NEW mq \in Pools, NEW mr \in Pools, mq # mr
                 PROVE  /\ \A c \in Small(mq)' : c \notin Small(mr)'
                        /\ \A c \in Large(mq)' : c \notin Large(mr)'
      OBVIOUS
    <3>1. ASSUME NEW c \in Small(mq)' PROVE c \notin Small(mr)'
      BY <1>4, OwnedFacts DEF Small, Large
    <3>2. ASSUME NEW c \in Large(mq)' PROVE c \notin Large(mr)'
      BY <1>1, <1>4, OwnedFacts DEF Small, Large
    <3> QED
      BY <3>1, <3>2
  <2> QED
    BY <2>1, <2>2, <2>3, <2>4, <2>5 DEF IInv, OwnedOnce, Free
<1>7. NoSmallBlockLost'
  <2>1. \A c : c \in Known' <=>
          \/ c \in Free' \/ c \in large_free_mem_blocks'
          \/ \E mq \in Pools : \/ c \in ToSet(mem_block_stack'[mq])
                               \/ c \in ToSet(large_mem_block_stack'[mq])
    BY DEF Known, Small, Large
  <2>2. \A c : c \in Known <=>
          \/ c \in Free \/ c \in large_free_mem_blocks
          \/ \E mq \in Pools : c \in Small(mq) \/ c \in Large(mq)
    BY DEF Known
  <2>3. b \in Known'
    BY <1>2, <1>4, <2>1 DEF Large
  <2>4. ASSUME NEW c \in Known PROVE c \in Known'
    BY <1>4, <2>1, <2>2, <2>3 DEF Small, Large, Free
  <2> QED
    BY <1>2, <2>3, <2>4 DEF IInv, NoSmallBlockLost
<1>8. SizeInv'
  <2>1. \A c \in Free \cup large_free_mem_blocks' : c # b /\ c \in Blocks
    BY <1>1, OwnedFacts
  <2>2. \A mq \in Pools : \A c \in Small(mq) \cup Large(mq) : c # b /\ c \in Blocks
    BY <1>1, StackFacts
  <2>3. ASSUME NEW mq \in Pools
        PROVE  /\ \A c \in Small(mq)' : orig_size'[c] = kMinBlockSize
               /\ \A c \in Large(mq)' : orig_size'[c] > kMinBlockSize
    <3>1. \A c \in Small(mq)' : orig_size'[c] = kMinBlockSize
      BY <1>4, <2>2 DEF IInv, SizeInv, Small, Large
    <3>2. orig_size'[b] > kMinBlockSize
      BY <1>1, <1>2
    <3>3. ASSUME NEW c \in Large(mq)' PROVE orig_size'[c] > kMinBlockSize
      <4>1. c = b \/ c \in Large(mq)
        BY <1>4 DEF Large
      <4> QED
        BY <2>2, <3>2, <4>1 DEF IInv, SizeInv
    <3> QED
      BY <3>1, <3>3
  <2>4. \A c \in Free \cup large_free_mem_blocks' : avail'[c] = orig_size'[c]
    BY <1>3, <2>1 DEF IInv, SizeInv
  <2>5. /\ \A c \in Free : orig_size'[c] = kMinBlockSize
        /\ \A c \in large_free_mem_blocks' : orig_size'[c] > kMinBlockSize
    BY <2>1 DEF IInv, SizeInv
  <2> QED
    BY <2>3, <2>4, <2>5 DEF SizeInv, Free
<1> QED
  BY <1>3, <1>4, <1>5, <1>6, <1>7, <1>8 DEF IInv, MarkerInv

\* MallocLarge as a whole.
LEMMA StepMallocLarge ==
  ASSUME IInv, NEW mp \in Pools, NEW size \in Sizes, MallocLarge(mp, size)
  PROVE  IInv'
<1>1. /\ mp \in mem_pools /\ size > kMinBlockSize
      /\ UNCHANGED <<mem_pools, mem_block_stack, marker_stack>>
  BY DEF MallocLarge
<1>2. /\ orig_size \in [Blocks -> Nat] /\ heap \subseteq Blocks /\ size \in Nat
      /\ large_free_mem_blocks \subseteq heap
  BY MemPoolAssumption DEF IInv, TypeOK
<1>3. PICK b \in Blocks :
        /\ large_mem_block_stack' = [large_mem_block_stack EXCEPT ![mp] = Append(@, b)]
        /\ \/ /\ b \in Bucket(Key(size)) /\ orig_size[b] >= size
              /\ large_free_mem_blocks' = large_free_mem_blocks \ {b}
              /\ UNCHANGED <<free_mem_blocks, orig_size, heap>>
              /\ Carve(mp, b, size, avail[b])
           \/ FromHeap(mp, b, size, size)
  BY DEF MallocLarge
<1>4. CASE /\ b \in Bucket(Key(size)) /\ orig_size[b] >= size
           /\ large_free_mem_blocks' = large_free_mem_blocks \ {b}
           /\ UNCHANGED <<free_mem_blocks, orig_size, heap>>
           /\ Carve(mp, b, size, avail[b])
  <2>1. b \in large_free_mem_blocks
    BY <1>4 DEF Bucket
  <2>2. avail[b] = orig_size'[b]
    BY <1>4, <2>1 DEF IInv, SizeInv
  <2>3. /\ Carve(mp, b, size, orig_size'[b]) /\ size <= orig_size'[b]
        /\ heap' = heap \cup {b} /\ orig_size' \in [Blocks -> Nat]
        /\ \A c \in Blocks \ {b} : orig_size'[c] = orig_size[c]
    BY <1>2, <1>4, <2>1, <2>2
  <2> QED
    BY <1>1, <1>3, <1>4, <2>1, <2>3, StepLargeBlock
<1>5. CASE FromHeap(mp, b, size, size)
  <2>1. /\ b \in Blocks \ heap /\ heap' = heap \cup {b}
        /\ orig_size' = [orig_size EXCEPT ![b] = size] /\ Carve(mp, b, size, size)
        /\ UNCHANGED <<free_mem_blocks, large_free_mem_blocks>>
    BY <1>5 DEF FromHeap, ctrlVars
  <2>2. /\ orig_size' \in [Blocks -> Nat] /\ orig_size'[b] = size /\ size <= orig_size'[b]
        /\ \A c \in Blocks \ {b} : orig_size'[c] = orig_size[c]
        /\ Carve(mp, b, size, orig_size'[b])
        /\ large_free_mem_blocks' = large_free_mem_blocks \ {b}
    BY <1>2, <2>1
  <2> QED
    BY <1>1, <1>3, <2>1, <2>2, StepLargeBlock
<1> QED
  BY <1>3, <1>4, <1>5
-----------------------------------------------------------------------------
(* Blocks that go back to the free lists: DeleteMemPool and Pop. *)

\* A sequence of blocks of the heap.
LEMMA SeqOfHeap ==
  ASSUME NEW s \in Seq(Blocks), NEW S, ToSet(s) \subseteq S
  PROVE  s \in Seq(S)
<1>1. /\ Len(s) \in Nat /\ s \in [1 .. Len(s) -> Blocks]
      /\ \A i \in 1 .. Len(s) : s[i] \in S
  BY SeqFacts
<1>2. s \in [1 .. Len(s) -> S]
  BY <1>1
<1> QED
  BY <1>1, <1>2

\* Recycling the blocks u1 and u2 of a pool, which keeps t1 and t2, leaves each block
\* in one place, and free blocks whole.
LEMMA RecycleInv ==
  ASSUME IInv, NEW mp \in Pools,
         NEW t1 \in Seq(Blocks), NEW u1 \in Seq(Blocks), IsInjective(t1), IsInjective(u1),
         NEW t2 \in Seq(Blocks), NEW u2 \in Seq(Blocks), IsInjective(t2), IsInjective(u2),
         Small(mp) = ToSet(t1) \cup ToSet(u1), ToSet(t1) \cap ToSet(u1) = {},
         Large(mp) = ToSet(t2) \cup ToSet(u2), ToSet(t2) \cap ToSet(u2) = {},
         Recycle(Reverse(u1), Reverse(u2)),
         mem_block_stack' = [mem_block_stack EXCEPT ![mp] = t1],
         large_mem_block_stack' = [large_mem_block_stack EXCEPT ![mp] = t2],
         UNCHANGED <<orig_size, heap>>, live' \subseteq live
  PROVE  /\ OwnedOnce' /\ NoSmallBlockLost' /\ NoOverlap' /\ SizeInv'
         /\ free_mem_blocks' \in Seq(heap') /\ large_free_mem_blocks' \subseteq heap'
         /\ mem_block_stack' \in [Pools -> Seq(heap')]
         /\ large_mem_block_stack' \in [Pools -> Seq(heap')]
         /\ avail' \in [Blocks -> Nat] /\ \A b \in heap' : avail'[b] <= orig_size'[b]
         /\ heap' \subseteq Blocks /\ live' \subseteq Allocation
         /\ \A b \in ToSet(t1) \cup ToSet(t2) : avail'[b] = avail[b]
<1>1. /\ free_mem_blocks \in Seq(heap) /\ large_free_mem_blocks \subseteq heap
      /\ mem_block_stack \in [Pools -> Seq(heap)]
      /\ large_mem_block_stack \in [Pools -> Seq(heap)]
      /\ avail \in [Blocks -> Nat] /\ orig_size \in [Blocks -> Nat]
      /\ \A b \in heap : avail[b] <= orig_size[b]
      /\ heap \subseteq Blocks /\ live \subseteq Allocation
      /\ free_mem_blocks \in Seq(Blocks)
  BY SeqMonotonic DEF IInv, TypeOK
<1>2. /\ IsInjective(free_mem_blocks)
      /\ \A mq \in Pools : IsInjective(mem_block_stack[mq]) /\ IsInjective(large_mem_block_stack[mq])
  BY DEF IInv, OwnedOnce
<1>3. /\ Small(mp) \subseteq heap /\ Large(mp) \subseteq heap
      /\ Free \subseteq heap
  BY <1>1, StackFacts DEF Free, ToSet
<1>4. /\ ToSet(u1) \cap Free = {} /\ ToSet(u1) \cap ToSet(u2) = {}
      /\ \A b \in ToSet(u1) : b \notin large_free_mem_blocks
      /\ \A b \in ToSet(u2) : b \notin Free
  BY OwnedFacts
<1>5. /\ free_mem_blocks' \in Seq(Blocks) /\ IsInjective(free_mem_blocks')
      /\ Free' = Free \cup ToSet(u1)
  <2>1. /\ Reverse(u1) \in Seq(Blocks) /\ IsInjective(Reverse(u1))
        /\ ToSet(Reverse(u1)) = ToSet(u1)
    BY ReverseFacts
  <2>2. free_mem_blocks' = free_mem_blocks \o Reverse(u1)
    BY DEF Recycle
  <2>3. ToSet(free_mem_blocks) \cap ToSet(Reverse(u1)) = {}
    BY <1>4, <2>1 DEF Free
  <2> QED
    BY <1>1, <1>2, <2>1, <2>2, <2>3, ConcatFacts DEF Free
<1>6. /\ large_free_mem_blocks \subseteq large_free_mem_blocks'
      /\ large_free_mem_blocks' \subseteq large_free_mem_blocks \cup ToSet(u2)
  <2>1. ToSet(Reverse(u2)) = ToSet(u2)
    BY ReverseFacts
  <2> QED
    BY <2>1, InsertLargeFacts DEF Recycle
<1>7. avail' = [b \in Blocks |-> IF b \in ToSet(u1) \cup ToSet(u2)
                                 THEN orig_size[b] ELSE avail[b]]
  BY ReverseFacts DEF Recycle
<1>8. /\ mem_block_stack'[mp] = t1 /\ large_mem_block_stack'[mp] = t2
      /\ \A mq \in Pools \ {mp} : /\ mem_block_stack'[mq] = mem_block_stack[mq]
                                  /\ large_mem_block_stack'[mq] = large_mem_block_stack[mq]
  BY <1>1
<1>9. /\ Small(mp)' = ToSet(t1) /\ Large(mp)' = ToSet(t2)
      /\ \A mq \in Pools \ {mp} : Small(mq)' = Small(mq) /\ Large(mq)' = Large(mq)
      /\ \A mq \in Pools : Small(mq)' \subseteq Small(mq) /\ Large(mq)' \subseteq Large(mq)
  BY <1>8 DEF Small, Large
<1>10. /\ free_mem_blocks' \in Seq(heap') /\ large_free_mem_blocks' \subseteq heap'
       /\ mem_block_stack' \in [Pools -> Seq(heap')]
       /\ large_mem_block_stack' \in [Pools -> Seq(heap')]
  <2>1. t1 \in Seq(heap) /\ t2 \in Seq(heap)
    BY <1>3, SeqOfHeap
  <2>2. free_mem_blocks' \in Seq(heap)
    BY <1>3, <1>5, SeqOfHeap DEF Free
  <2> QED
    BY <1>1, <1>3, <1>6, <2>1, <2>2
<1>11. /\ avail' \in [Blocks -> Nat] /\ \A b \in heap' : avail'[b] <= orig_size'[b]
       /\ \A b \in Blocks : b \notin ToSet(u1) \cup ToSet(u2) => avail'[b] = avail[b]
       /\ \A b \in ToSet(u1) \cup ToSet(u2) : b \in Blocks => avail'[b] = orig_size[b]
  BY <1>1, <1>7
<1>12. \A b \in ToSet(t1) \cup ToSet(t2) : avail'[b] = avail[b]
  <2> SUFFICES ASSUME NEW b \in ToSet(t1) \cup ToSet(t2) PROVE avail'[b] = avail[b]
    OBVIOUS
  <2>1. b \in Blocks /\ b \notin ToSet(u1) \cup ToSet(u2)
    BY <1>1, <1>3, OwnedFacts
  <2> QED
    BY <1>11, <2>1
<1>13. OwnedOnce'
  <2>1. IsInjective(free_mem_blocks') /\ Free' \cap large_free_mem_blocks' = {}
    BY <1>4, <1>5, <1>6, OwnedFacts
  <2>2. \A mq \in Pools : IsInjective(mem_block_stack'[mq]) /\ IsInjective(large_mem_block_stack'[mq])
    BY <1>2, <1>8
  <2>3. ASSUME NEW mq \in Pools, NEW b \in Small(mq)' \cup Large(mq)'
        PROVE  b \notin Free' /\ b \notin large_free_mem_blocks'
    <3>1. b \in Small(mq) \cup Large(mq)
      BY <1>9
    <3>2. b \notin Free /\ b \notin large_free_mem_blocks
      BY <3>1, OwnedFacts
    <3>3. b \notin ToSet(u1) /\ b \notin ToSet(u2)
      BY <1>9, <3>1, OwnedFacts
    <3> QED
      BY <1>5, <1>6, <3>2, <3>3
  <2>4. ASSUME NEW mq \in Pools, NEW mr \in Pools, NEW b \in Small(mq)'
        PROVE  b \notin Large(mr)' /\ (mq # mr => b \notin Small(mr)')
    BY <1>9, OwnedFacts
  <2>5. ASSUME NEW mq \in Pools, NEW mr \in Pools, mq # mr, NEW b \in Large(mq)'
        PROVE  b \notin Large(mr)'
    BY <1>9, <2>5, OwnedFacts
  <2>6. \A mq \in Pools : (Small(mq)' \cup Large(mq)') \cap (Free' \cup large_free_mem_blocks') = {}
    BY <2>3
  <2>7. \A mq, mr \in Pools : Small(mq)' \cap Large(mr)' = {}
    BY <2>4
  <2>8. \A mq \in Pools : \A mr \in Pools \ {mq} :
          Small(mq)' \cap Small(mr)' = {} /\ Large(mq)' \cap Large(mr)' = {}
    BY <2>4, <2>5
  <2> QED
    BY <2>1, <2>2, <2>6, <2>7, <2>8 DEF OwnedOnce
<1>14. NoSmallBlockLost'
  <2> SUFFICES ASSUME NEW b \in heap, orig_size[b] = kMinBlockSize PROVE b \in Known'
    BY DEF NoSmallBlockLost
  <2>1. b \in Known
    BY DEF IInv, NoSmallBlockLost
  <2>2. \A c : c \in Known' <=>
          \/ c \in Free' \/ c \in large_free_mem_blocks'
          \/ \E mq \in Pools : c \in Small(mq)' \/ c \in Large(mq)'
    BY DEF Known
  <2>3. \/ b \in Free \/ b \in large_free_mem_blocks
        \/ \E mq \in Pools : b \in Small(mq) \/ b \in Large(mq)
    BY <2>1 DEF Known
  <2>4. CASE b \in Free \/ b \in large_free_mem_blocks
    BY <1>5, <1>6, <2>2, <2>4
  <2>5. ASSUME NEW mq \in Pools, b \in Small(mq) \/ b \in Large(mq) PROVE b \in Known'
    <3>1. b \notin Large(mq)
      BY <1>1, MemPoolAssumption DEF IInv, SizeInv
    <3>2. CASE mq # mp
      BY <1>9, <2>2, <2>5, <3>2
    <3>3. CASE mq = mp
      BY <1>5, <1>9, <2>2, <2>5, <3>1, <3>3
    <3> QED
      BY <3>2, <3>3
  <2> QED
    BY <2>3, <2>4, <2>5
<1>15. SizeInv'
  <2>1. ASSUME NEW mq \in Pools
        PROVE  /\ \A b \in Small(mq)' : orig_size'[b] = kMinBlockSize
               /\ \A b \in Large(mq)' : orig_size'[b] > kMinBlockSize
    BY <1>9 DEF IInv, SizeInv
  <2>2. /\ \A b \in Free' : orig_size'[b] = kMinBlockSize
        /\ \A b \in large_free_mem_blocks' : orig_size'[b] > kMinBlockSize
    BY <1>5, <1>6 DEF IInv, SizeInv
  <2>3. ASSUME NEW b \in Free' \cup large_free_mem_blocks' PROVE avail'[b] = orig_size'[b]
    <3>1. b \in Blocks
      BY <1>1, <1>3, <1>5, <1>6
    <3>2. CASE b \in ToSet(u1) \cup ToSet(u2)
      BY <1>11, <3>1, <3>2
    <3>3. CASE b \notin ToSet(u1) \cup ToSet(u2)
      <4>1. b \in Free \cup large_free_mem_blocks
        BY <1>5, <1>6, <3>3
      <4> QED
        BY <1>11, <3>1, <3>3, <4>1 DEF IInv, SizeInv
    <3> QED
      BY <3>2, <3>3
  <2> QED
    BY <2>1, <2>2, <2>3 DEF SizeInv
<1>16. NoOverlap'
  BY DEF IInv, NoOverlap
<1> QED
  BY <1>1, <1>10, <1>11, <1>12, <1>13, <1>14, <1>15, <1>16

\* Leaving a pool without blocks and markers.
LEMMA StepDeleteMemPool ==
  ASSUME IInv, NEW mp \in Pools, DeleteMemPool(mp)
  PROVE  IInv'
<1> DEFINE small == mem_block_stack[mp]
           large == large_mem_block_stack[mp]
<1>1. /\ mem_pools' = mem_pools \ {mp}
      /\ Recycle(Reverse(small), Reverse(large))
      /\ mem_block_stack' = [mem_block_stack EXCEPT ![mp] = <<>>]
      /\ large_mem_block_stack' = [large_mem_block_stack EXCEPT ![mp] = <<>>]
      /\ marker_stack' = [marker_stack EXCEPT ![mp] = <<>>]
      /\ live' = {a \in live : a.pool # mp} /\ live' \subseteq live
      /\ UNCHANGED <<orig_size, heap>>
  BY DEF DeleteMemPool
<1>2. /\ small \in Seq(Blocks) /\ IsInjective(small) /\ Small(mp) = ToSet(small)
      /\ large \in Seq(Blocks) /\ IsInjective(large) /\ Large(mp) = ToSet(large)
  BY StackFacts DEF Small, Large
<1>3. /\ <<>> \in Seq(Blocks) /\ IsInjective(<<>>) /\ ToSet(<<>>) = {}
  BY DEF IsInjective, ToSet
<1> HIDE DEF small, large
<1>4. /\ OwnedOnce' /\ NoSmallBlockLost' /\ NoOverlap' /\ SizeInv'
      /\ free_mem_blocks' \in Seq(heap') /\ large_free_mem_blocks' \subseteq heap'
      /\ mem_block_stack' \in [Pools -> Seq(heap')]
      /\ large_mem_block_stack' \in [Pools -> Seq(heap')]
      /\ avail' \in [Blocks -> Nat] /\ \A b \in heap' : avail'[b] <= orig_size'[b]
      /\ heap' \subseteq Blocks /\ live' \subseteq Allocation
  <2>1. /\ Small(mp) = ToSet(<<>>) \cup ToSet(small) /\ ToSet(<<>>) \cap ToSet(small) = {}
        /\ Large(mp) = ToSet(<<>>) \cup ToSet(large) /\ ToSet(<<>>) \cap ToSet(large) = {}
    BY <1>2, <1>3
  <2> QED
    BY <1>1, <1>2, <1>3, <2>1, RecycleInv
<1>5. /\ marker_stack \in [Pools -> Seq(Marker)] /\ orig_size \in [Blocks -> Nat]
      /\ mem_pools \subseteq Pools
      /\ mem_block_stack \in [Pools -> Seq(heap)]
      /\ large_mem_block_stack \in [Pools -> Seq(heap)]
  BY DEF IInv, TypeOK, MarkerInv
<1>6. /\ marker_stack'[mp] = <<>> /\ mem_block_stack'[mp] = <<>> /\ large_mem_block_stack'[mp] = <<>>
      /\ \A mq \in Pools \ {mp} : /\ marker_stack'[mq] = marker_stack[mq]
                                  /\ mem_block_stack'[mq] = mem_block_stack[mq]
                                  /\ large_mem_block_stack'[mq] = large_mem_block_stack[mq]
  BY <1>1, <1>5
<1>7. TypeOK'
  <2>1. \A mq \in Pools : \A i \in DOMAIN marker_stack'[mq] :
          marker_stack'[mq][i] \in (heap' \cup {NoBlock}) \X (heap' \cup {NoBlock})
    BY <1>1, <1>6 DEF IInv, TypeOK
  <2> QED
    BY <1>1, <1>4, <1>5, <2>1 DEF TypeOK
<1>8. MarkerInv'
  BY <1>1, <1>5, <1>6, MemPoolAssumption DEF IInv, MarkerInv
<1>9. MarksInv'
  <2> SUFFICES ASSUME NEW mq \in Pools
               PROVE  /\ MarksFit(mem_block_stack'[mq], marker_stack'[mq], 1)
                      /\ MarksFit(large_mem_block_stack'[mq], marker_stack'[mq], 2)
    BY DEF MarksInv
  <2>1. CASE mq = mp
    BY <1>6, <2>1 DEF MarksFit
  <2>2. CASE mq # mp
    BY <1>6, <2>2, StackFacts
  <2> QED
    BY <2>1, <2>2
<1>10. LiveInv'
  <2> SUFFICES ASSUME NEW a \in live'
               PROVE  /\ a.pool \in mem_pools'
                      /\ a.size <= kMinBlockSize =>
                           AllocFits(mem_block_stack'[a.pool], marker_stack'[a.pool], 1, a.block, a.level)
                      /\ a.size > kMinBlockSize =>
                           AllocFits(large_mem_block_stack'[a.pool], marker_stack'[a.pool], 2, a.block, a.level)
                      /\ a.start + a.size <= orig_size'[a.block] - avail'[a.block]
    BY DEF LiveInv
  <2>1. a \in live /\ a.pool # mp /\ a.pool \in Pools /\ a.pool \in mem_pools'
    BY <1>1, LiveFacts
  <2>2. avail'[a.block] = avail[a.block]
    <3>1. /\ a.block \in Blocks
          /\ a.block \in Small(a.pool) \/ a.block \in Large(a.pool)
      BY <2>1, LiveFacts, MemPoolAssumption
    <3>2. a.block \notin Small(mp) /\ a.block \notin Large(mp)
      BY <2>1, <3>1, OwnedFacts
    <3>3. /\ ToSet(Reverse(small)) = Small(mp) /\ ToSet(Reverse(large)) = Large(mp)
      BY <1>2, ReverseFacts
    <3> QED
      BY <1>1, <3>1, <3>2, <3>3 DEF Recycle
  <2> QED
    BY <1>1, <1>6, <2>1, <2>2 DEF IInv, LiveInv
<1> QED
  BY <1>4, <1>7, <1>8, <1>9, <1>10 DEF IInv

\* A new pool is empty.
LEMMA StepNewMemPool ==
  ASSUME IInv, NEW mp \in Pools, NewMemPool(mp)
  PROVE  IInv'
<1>1. /\ mem_pools' = mem_pools \cup {mp}
      /\ UNCHANGED <<free_mem_blocks, large_free_mem_blocks, mem_block_stack,
                     large_mem_block_stack, marker_stack, avail, orig_size, heap, live>>
  BY DEF NewMemPool, ctrlVars, poolVars
<1>2. TypeOK'
  BY <1>1 DEF IInv, TypeOK
<1>3. OwnedOnce'
  BY <1>1 DEF IInv, OwnedOnce, Free, Small, Large
<1>4. NoSmallBlockLost'
  BY <1>1 DEF IInv, NoSmallBlockLost, Known, Free, Small, Large
<1>5. NoOverlap' /\ MarkerInv' /\ MarksInv'
  BY <1>1 DEF IInv, NoOverlap, MarkerInv, MarksInv
<1>6. LiveInv' /\ SizeInv'
  BY <1>1 DEF IInv, LiveInv, SizeInv, Free, Small, Large
<1> QED
  BY <1>2, <1>3, <1>4, <1>5, <1>6 DEF IInv

\* The top of a stack of blocks of the heap.
LEMMA TopType ==
  ASSUME NEW S, NEW stack \in Seq(S)
  PROVE  Top(stack) \in S \cup {NoBlock}
<1>1. CASE stack = <<>>
  BY <1>1 DEF Top
<1>2. CASE stack # <<>>
  <2>1. Len(stack) \in 1 .. Len(stack) /\ stack[Len(stack)] \in S
    BY <1>2, EmptySeq, LenProperties
  <2> QED
    BY <1>2, <2>1 DEF Top, Last
<1> QED
  BY <1>1, <1>2

\* Push marks the tops of both stacks.
LEMMA StepPush ==
  ASSUME IInv, NEW mp \in Pools, Push(mp)
  PROVE  IInv'
<1> DEFINE mark == <<Top(mem_block_stack[mp]), Top(large_mem_block_stack[mp])>>
<1>1. /\ Len(marker_stack[mp]) < MaxMarks
      /\ marker_stack' = [marker_stack EXCEPT ![mp] = Append(@, mark)]
      /\ UNCHANGED <<mem_pools, free_mem_blocks, large_free_mem_blocks, mem_block_stack,
                     large_mem_block_stack, avail, orig_size, heap, live>>
  BY DEF Push, ctrlVars
<1>2. /\ marker_stack \in [Pools -> Seq(Marker)] /\ heap \subseteq Blocks
      /\ mem_block_stack[mp] \in Seq(heap) /\ large_mem_block_stack[mp] \in Seq(heap)
  BY DEF IInv, TypeOK, MarkerInv
<1>3. /\ mark \in (heap \cup {NoBlock}) \X (heap \cup {NoBlock}) /\ mark \in Marker
      /\ mark[1] = Top(mem_block_stack[mp]) /\ mark[2] = Top(large_mem_block_stack[mp])
  BY <1>2, TopType DEF Marker
<1> HIDE DEF mark
<1>4. /\ marker_stack'[mp] = Append(marker_stack[mp], mark)
      /\ \A mq \in Pools \ {mp} : marker_stack'[mq] = marker_stack[mq]
      /\ marker_stack[mp] \in Seq(Marker)
      /\ Append(marker_stack[mp], mark) \in Seq(Marker)
      /\ Len(Append(marker_stack[mp], mark)) = Len(marker_stack[mp]) + 1
      /\ Len(marker_stack[mp]) \in Nat
      /\ DOMAIN Append(marker_stack[mp], mark) = 1 .. Len(marker_stack[mp]) + 1
      /\ Append(marker_stack[mp], mark)[Len(marker_stack[mp]) + 1] = mark
      /\ \A i \in 1 .. Len(marker_stack[mp]) : Append(marker_stack[mp], mark)[i] = marker_stack[mp][i]
      /\ DOMAIN marker_stack[mp] = 1 .. Len(marker_stack[mp])
  BY <1>1, <1>2, <1>3, AppendProperties, LenProperties
<1>5. TypeOK'
  <2>1. ASSUME NEW mq \in Pools, NEW i \in DOMAIN marker_stack'[mq]
        PROVE  marker_stack'[mq][i] \in (heap \cup {NoBlock}) \X (heap \cup {NoBlock})
    <3>1. CASE mq # mp
      BY <1>4, <3>1 DEF IInv, TypeOK
    <3>2. CASE mq = mp
      <4>1. CASE i \in 1 .. Len(marker_stack[mp])
        <5>1. i \in DOMAIN marker_stack[mp] /\ marker_stack'[mq][i] = marker_stack[mp][i]
          BY <1>4, <3>2, <4>1
        <5> QED
          BY <5>1 DEF IInv, TypeOK
      <4>2. CASE i = Len(marker_stack[mp]) + 1
        BY <1>3, <1>4, <3>2, <4>2
      <4> QED
        BY <1>4, <3>2, <4>1, <4>2
    <3> QED
      BY <3>1, <3>2
  <2> QED
    BY <1>1, <2>1 DEF IInv, TypeOK
<1>6. MarkerInv'
  BY <1>1, <1>2, <1>4, MemPoolAssumption DEF IInv, MarkerInv
<1>7. \A mq \in Pools :
        /\ MarksFit(mem_block_stack[mq], marker_stack'[mq], 1)
        /\ MarksFit(large_mem_block_stack[mq], marker_stack'[mq], 2)
        /\ \A c, level : AllocFits(mem_block_stack[mq], marker_stack[mq], 1, c, level)
                           => AllocFits(mem_block_stack[mq], marker_stack'[mq], 1, c, level)
        /\ \A c, level : AllocFits(large_mem_block_stack[mq], marker_stack[mq], 2, c, level)
                           => AllocFits(large_mem_block_stack[mq], marker_stack'[mq], 2, c, level)
  <2> SUFFICES ASSUME NEW mq \in Pools
               PROVE  /\ MarksFit(mem_block_stack[mq], marker_stack'[mq], 1)
                      /\ MarksFit(large_mem_block_stack[mq], marker_stack'[mq], 2)
                      /\ \A c, level : AllocFits(mem_block_stack[mq], marker_stack[mq], 1, c, level)
                           => AllocFits(mem_block_stack[mq], marker_stack'[mq], 1, c, level)
                      /\ \A c, level : AllocFits(large_mem_block_stack[mq], marker_stack[mq], 2, c, level)
                           => AllocFits(large_mem_block_stack[mq], marker_stack'[mq], 2, c, level)
    OBVIOUS
  <2>1. CASE mq # mp
    BY <1>4, <2>1, StackFacts
  <2>2. CASE mq = mp
    <3>1. /\ mem_block_stack[mp] \in Seq(Blocks) /\ IsInjective(mem_block_stack[mp])
          /\ large_mem_block_stack[mp] \in Seq(Blocks) /\ IsInjective(large_mem_block_stack[mp])
          /\ MarksFit(mem_block_stack[mp], marker_stack[mp], 1)
          /\ MarksFit(large_mem_block_stack[mp], marker_stack[mp], 2)
      BY StackFacts
    <3>2. /\ MarksFit(mem_block_stack[mp], Append(marker_stack[mp], mark), 1)
          /\ \A c, level : AllocFits(mem_block_stack[mp], marker_stack[mp], 1, c, level)
               => AllocFits(mem_block_stack[mp], Append(marker_stack[mp], mark), 1, c, level)
      BY <1>3, <1>4, <3>1, FitPush
    <3>3. /\ MarksFit(large_mem_block_stack[mp], Append(marker_stack[mp], mark), 2)
          /\ \A c, level : AllocFits(large_mem_block_stack[mp], marker_stack[mp], 2, c, level)
               => AllocFits(large_mem_block_stack[mp], Append(marker_stack[mp], mark), 2, c, level)
      BY <1>3, <1>4, <3>1, FitPush
    <3> QED
      BY <1>4, <2>2, <3>2, <3>3
  <2> QED
    BY <2>1, <2>2
<1>8. MarksInv'
  BY <1>1, <1>7 DEF MarksInv
<1>9. LiveInv'
  <2> SUFFICES ASSUME NEW a \in live
               PROVE  /\ a.pool \in mem_pools
                      /\ a.size <= kMinBlockSize =>
                           AllocFits(mem_block_stack[a.pool], marker_stack'[a.pool], 1, a.block, a.level)
                      /\ a.size > kMinBlockSize =>
                           AllocFits(large_mem_block_stack[a.pool], marker_stack'[a.pool], 2, a.block, a.level)
                      /\ a.start + a.size <= orig_size[a.block] - avail[a.block]
    BY <1>1 DEF LiveInv
  <2>1. a.pool \in Pools
    BY LiveFacts
  <2> QED
    BY <1>7, <2>1 DEF IInv, LiveInv
<1>10. /\ OwnedOnce' /\ SizeInv'
  BY <1>1 DEF IInv, OwnedOnce, SizeInv, Free, Small, Large
<1>11. NoSmallBlockLost' /\ NoOverlap'
  BY <1>1 DEF IInv, NoSmallBlockLost, NoOverlap, Known, Free, Small, Large
<1> QED
  BY <1>5, <1>6, <1>8, <1>9, <1>10, <1>11 DEF IInv

\* Pop takes the blocks above the marked ones off both stacks.
LEMMA StepPop ==
  ASSUME IInv, NEW mp \in Pools, Pop(mp)
  PROVE  IInv'
<1> DEFINE marks == marker_stack[mp]
           small == mem_block_stack[mp]
           large == large_mem_block_stack[mp]
           i == Kept(small, Last(marks)[1])
           j == Kept(large, Last(marks)[2])
           t1 == SubSeq(small, 1, i)
           u1 == SubSeq(small, i + 1, Len(small))
           t2 == SubSeq(large, 1, j)
           u2 == SubSeq(large, j + 1, Len(large))
<1>1. /\ marks # <<>>
      /\ Recycle(Reverse(u1), Reverse(u2))
      /\ mem_block_stack' = [mem_block_stack EXCEPT ![mp] = t1]
      /\ large_mem_block_stack' = [large_mem_block_stack EXCEPT ![mp] = t2]
      /\ marker_stack' = [marker_stack EXCEPT ![mp] = Front(@)]
      /\ live' = {a \in live : a.pool = mp => a.level < Len(marks)} /\ live' \subseteq live
      /\ UNCHANGED <<mem_pools, orig_size, heap>>
  BY DEF Pop
<1>2. /\ small \in Seq(Blocks) /\ IsInjective(small) /\ Small(mp) = ToSet(small)
      /\ large \in Seq(Blocks) /\ IsInjective(large) /\ Large(mp) = ToSet(large)
      /\ marks \in Seq(Marker) /\ MarksFit(small, marks, 1) /\ MarksFit(large, marks, 2)
  BY StackFacts DEF Small, Large
<1>3. /\ marker_stack \in [Pools -> Seq(Marker)] /\ orig_size \in [Blocks -> Nat]
      /\ mem_pools \subseteq Pools
      /\ mem_block_stack \in [Pools -> Seq(heap)]
      /\ large_mem_block_stack \in [Pools -> Seq(heap)]
  BY DEF IInv, TypeOK, MarkerInv
<1>4. /\ marker_stack'[mp] = Front(marks) /\ mem_block_stack'[mp] = t1
      /\ large_mem_block_stack'[mp] = t2
      /\ \A mq \in Pools \ {mp} : /\ marker_stack'[mq] = marker_stack[mq]
                                  /\ mem_block_stack'[mq] = mem_block_stack[mq]
                                  /\ large_mem_block_stack'[mq] = large_mem_block_stack[mq]
  BY <1>1, <1>3
<1> HIDE DEF marks, small, large
<1>5. /\ i \in 0 .. Len(small) /\ MarksFit(t1, Front(marks), 1)
      /\ \A c, level : AllocFits(small, marks, 1, c, level) /\ level < Len(marks)
                         => AllocFits(t1, Front(marks), 1, c, level)
  BY <1>1, <1>2, FitPop
<1>6. /\ j \in 0 .. Len(large) /\ MarksFit(t2, Front(marks), 2)
      /\ \A c, level : AllocFits(large, marks, 2, c, level) /\ level < Len(marks)
                         => AllocFits(t2, Front(marks), 2, c, level)
  BY <1>1, <1>2, FitPop
<1> HIDE DEF i, j
<1>7. /\ t1 \in Seq(Blocks) /\ IsInjective(t1) /\ u1 \in Seq(Blocks) /\ IsInjective(u1)
      /\ Small(mp) = ToSet(t1) \cup ToSet(u1) /\ ToSet(t1) \cap ToSet(u1) = {}
  BY <1>2, <1>5, PosPrefix, CutFacts
<1>8. /\ t2 \in Seq(Blocks) /\ IsInjective(t2) /\ u2 \in Seq(Blocks) /\ IsInjective(u2)
      /\ Large(mp) = ToSet(t2) \cup ToSet(u2) /\ ToSet(t2) \cap ToSet(u2) = {}
  BY <1>2, <1>6, PosPrefix, CutFacts
<1>9. /\ Len(marks) \in Nat \ {0} /\ DOMAIN marks = 1 .. Len(marks)
      /\ Front(marks) \in Seq(Marker) /\ DOMAIN Front(marks) = 1 .. Len(marks) - 1
      /\ Len(Front(marks)) = Len(marks) - 1
      /\ \A n \in 1 .. Len(marks) - 1 : Front(marks)[n] = marks[n]
  <2>1. Len(marks) \in Nat \ {0} /\ DOMAIN marks = 1 .. Len(marks)
    BY <1>1, <1>2, LenProperties, EmptySeq
  <2>2. Front(marks) = SubSeq(marks, 1, Len(marks) - 1) /\ marks \in Seq(Marker)
    BY <1>2 DEF Front
  <2> QED
    BY <2>1, <2>2, SubSeqProperties
<1> HIDE DEF t1, t2, u1, u2
<1>10. /\ OwnedOnce' /\ NoSmallBlockLost' /\ NoOverlap' /\ SizeInv'
       /\ free_mem_blocks' \in Seq(heap') /\ large_free_mem_blocks' \subseteq heap'
       /\ mem_block_stack' \in [Pools -> Seq(heap')]
       /\ large_mem_block_stack' \in [Pools -> Seq(heap')]
       /\ avail' \in [Blocks -> Nat] /\ \A b \in heap' : avail'[b] <= orig_size'[b]
       /\ heap' \subseteq Blocks /\ live' \subseteq Allocation
       /\ \A b \in ToSet(t1) \cup ToSet(t2) : avail'[b] = avail[b]
  BY <1>1, <1>7, <1>8, RecycleInv
<1>11. TypeOK'
  <2>1. ASSUME NEW mq \in Pools, NEW n \in DOMAIN marker_stack'[mq]
        PROVE  marker_stack'[mq][n] \in (heap \cup {NoBlock}) \X (heap \cup {NoBlock})
    <3>1. CASE mq # mp
      BY <1>4, <3>1 DEF IInv, TypeOK
    <3>2. CASE mq = mp
      <4>1. n \in DOMAIN marker_stack[mp] /\ marker_stack'[mq][n] = marker_stack[mp][n]
        BY <1>4, <1>9, <3>2 DEF marks
      <4> QED
        BY <4>1 DEF IInv, TypeOK
    <3> QED
      BY <3>1, <3>2
  <2> QED
    BY <1>1, <1>3, <1>10, <2>1 DEF TypeOK
<1>12. MarkerInv'
  <2>1. Len(marker_stack[mp]) <= MaxMarks
    BY DEF IInv, MarkerInv
  <2> QED
    BY <1>1, <1>3, <1>4, <1>9, <2>1, MemPoolAssumption DEF IInv, MarkerInv, marks
<1>13. MarksInv'
  <2> SUFFICES ASSUME NEW mq \in Pools
               PROVE  /\ MarksFit(mem_block_stack'[mq], marker_stack'[mq], 1)
                      /\ MarksFit(large_mem_block_stack'[mq], marker_stack'[mq], 2)
    BY DEF MarksInv
  <2>1. CASE mq = mp
    BY <1>4, <1>5, <1>6, <2>1
  <2>2. CASE mq # mp
    BY <1>4, <2>2, StackFacts
  <2> QED
    BY <2>1, <2>2
<1>14. LiveInv'
  <2> SUFFICES ASSUME NEW a \in live'
               PROVE  /\ a.pool \in mem_pools
                      /\ a.size <= kMinBlockSize =>
                           AllocFits(mem_block_stack'[a.pool], marker_stack'[a.pool], 1, a.block, a.level)
                      /\ a.size > kMinBlockSize =>
                           AllocFits(large_mem_block_stack'[a.pool], marker_stack'[a.pool], 2, a.block, a.level)
                      /\ a.start + a.size <= orig_size[a.block] - avail'[a.block]
    BY <1>1 DEF LiveInv
  <2>1. /\ a \in live /\ a.pool \in Pools /\ a.pool \in mem_pools /\ a.block \in Blocks
        /\ a.pool = mp => a.level < Len(marks)
        /\ a.size <= kMinBlockSize \/ a.size > kMinBlockSize
    BY <1>1, LiveFacts, MemPoolAssumption
  <2>2. /\ a.size <= kMinBlockSize =>
             AllocFits(mem_block_stack[a.pool], marker_stack[a.pool], 1, a.block, a.level)
        /\ a.size > kMinBlockSize =>
             AllocFits(large_mem_block_stack[a.pool], marker_stack[a.pool], 2, a.block, a.level)
        /\ a.start + a.size <= orig_size[a.block] - avail[a.block]
    BY <2>1 DEF IInv, LiveInv
  <2>3. CASE a.pool = mp
    <3>1. /\ a.size <= kMinBlockSize => AllocFits(t1, Front(marks), 1, a.block, a.level)
          /\ a.size > kMinBlockSize => AllocFits(t2, Front(marks), 2, a.block, a.level)
      BY <1>5, <1>6, <2>1, <2>2, <2>3 DEF small, large, marks
    <3>2. a.block \in ToSet(t1) \cup ToSet(t2)
      BY <2>1, <3>1 DEF AllocFits
    <3> QED
      BY <1>4, <1>10, <2>1, <2>2, <2>3, <3>1, <3>2
  <2>4. CASE a.pool # mp
    <3>1. a.block \in Small(a.pool) \/ a.block \in Large(a.pool)
      BY <2>1, LiveFacts
    <3>2. a.block \notin ToSet(Reverse(u1)) \cup ToSet(Reverse(u2))
      BY <1>7, <1>8, <2>1, <2>4, <3>1, OwnedFacts, ReverseFacts
    <3> QED
      BY <1>1, <1>4, <2>1, <2>2, <2>4, <3>2 DEF Recycle
  <2> QED
    BY <2>3, <2>4
<1> QED
  BY <1>10, <1>11, <1>12, <1>13, <1>14 DEF IInv

\* Without the controller nothing is held.
LEMMA StepDestroyCtrler == IInv /\ DestroyCtrler => IInv'
<1> SUFFICES ASSUME IInv, DestroyCtrler PROVE IInv'
  OBVIOUS
<1>1. /\ mem_pools' = {} /\ free_mem_blocks' = <<>> /\ large_free_mem_blocks' = {}
      /\ mem_block_stack' = [mp \in Pools |-> <<>>]
      /\ large_mem_block_stack' = [mp \in Pools |-> <<>>]
      /\ marker_stack' = [mp \in Pools |-> <<>>]
      /\ heap' = heap \ Known /\ live' = {}
      /\ avail' = [b \in Blocks |-> IF b \in Known THEN 0 ELSE avail[b]]
      /\ orig_size' = [b \in Blocks |-> IF b \in Known THEN 0 ELSE orig_size[b]]
  BY DEF DestroyCtrler
<1>2. /\ avail \in [Blocks -> Nat] /\ orig_size \in [Blocks -> Nat] /\ heap \subseteq Blocks
      /\ \A b \in heap : avail[b] <= orig_size[b]
  BY DEF IInv, TypeOK
<1>3. \A b \in heap' : b \in heap /\ b \in Blocks /\ b \notin Known
  BY <1>1, <1>2
<1>4. TypeOK'
  <2>1. \A b \in heap' : avail'[b] <= orig_size'[b]
    BY <1>1, <1>2, <1>3
  <2>2. avail' \in [Blocks -> Nat] /\ orig_size' \in [Blocks -> Nat]
    BY <1>1, <1>2
  <2>3. /\ mem_block_stack' \in [Pools -> Seq(heap')]
        /\ large_mem_block_stack' \in [Pools -> Seq(heap')]
        /\ free_mem_blocks' \in Seq(heap')
    BY <1>1
  <2>4. /\ heap' \subseteq Blocks /\ mem_pools' \subseteq Pools /\ live' \subseteq Allocation
        /\ large_free_mem_blocks' \subseteq heap'
    BY <1>1, <1>2
  <2>5. \A mp \in Pools : DOMAIN marker_stack'[mp] = {}
    BY <1>1
  <2> QED
    BY <2>1, <2>2, <2>3, <2>4, <2>5 DEF TypeOK
<1>5. OwnedOnce' /\ NoOverlap'
  BY <1>1 DEF OwnedOnce, NoOverlap, Free, Small, Large, ToSet, IsInjective
<1>6. NoSmallBlockLost'
  <2>1. ASSUME NEW b \in heap' PROVE orig_size'[b] # kMinBlockSize
    BY <1>1, <1>3 DEF IInv, NoSmallBlockLost
  <2> QED
    BY <2>1 DEF NoSmallBlockLost
<1>7. MarkerInv' /\ MarksInv'
  BY <1>1, MemPoolAssumption DEF MarkerInv, MarksInv, MarksFit
<1>8. LiveInv' /\ SizeInv'
  BY <1>1 DEF LiveInv, SizeInv, Free, Small, Large, ToSet
<1> QED
  BY <1>4, <1>5, <1>6, <1>7, <1>8 DEF IInv

\* No step breaks it.
LEMMA StepIInv == IInv /\ [Next]_vars => IInv'
<1> SUFFICES ASSUME IInv, [Next]_vars PROVE IInv'
  OBVIOUS
<1>1. ASSUME NEW mp \in Pools, NewMemPool(mp) PROVE IInv'
  BY <1>1, StepNewMemPool
<1>2. ASSUME NEW mp \in Pools, DeleteMemPool(mp) PROVE IInv'
  BY <1>2, StepDeleteMemPool
<1>3. ASSUME NEW mp \in Pools, Push(mp) PROVE IInv'
  BY <1>3, StepPush
<1>4. ASSUME NEW mp \in Pools, Pop(mp) PROVE IInv'
  BY <1>4, StepPop
<1>5. ASSUME NEW mp \in Pools, NEW size \in Sizes, MallocSmall(mp, size) PROVE IInv'
  BY <1>5, StepMallocSmall
<1>6. ASSUME NEW mp \in Pools, NEW size \in Sizes, MallocLarge(mp, size) PROVE IInv'
  BY <1>6, StepMallocLarge
<1>7. CASE DestroyCtrler
  BY <1>7, StepDestroyCtrler
<1>8. CASE UNCHANGED vars
  <2>1. TypeOK' /\ OwnedOnce'
    BY <1>8 DEF IInv, TypeOK, OwnedOnce, Free, Small, Large, vars, ctrlVars, poolVars
  <2>2. NoSmallBlockLost' /\ NoOverlap'
    BY <1>8 DEF IInv, NoSmallBlockLost, NoOverlap, Known, Free, Small, Large, vars, ctrlVars, poolVars
  <2>3. MarkerInv' /\ MarksInv' /\ LiveInv' /\ SizeInv'
    BY <1>8 DEF IInv, MarkerInv, MarksInv, LiveInv, SizeInv, Free, Small, Large, vars, ctrlVars, poolVars
  <2> QED
    BY <2>1, <2>2, <2>3 DEF IInv
<1> QED
  BY <1>1, <1>2, <1>3, <1>4, <1>5, <1>6, <1>7, <1>8 DEF Next
-----------------------------------------------------------------------------
\* The inductive invariant holds in every state, for any pools, blocks and sizes.
THEOREM IInvHolds == Spec => []IInv
<1>1. Init => IInv
  BY InitIInv
<1>2. IInv /\ [Next]_vars => IInv'
  BY StepIInv
<1> QED
  BY <1>1, <1>2, PTL DEF Spec

\* A block is in one place, and no small block is forgotten, however often pools are
\* made, unwound and deleted and their blocks recycled (DeleteMemPool, Pop, Malloc).
THEOREM RecyclingIsSound == Spec => []BlocksAreRecycled
<1>1. IInv => BlocksAreRecycled
  BY DEF IInv, BlocksAreRecycled
<1> QED
  BY <1>1, IInvHolds, PTL

\* Malloc never hands out memory that is in use.
THEOREM MallocIsSound == Spec => []NoOverlap
<1>1. IInv => NoOverlap
  BY DEF IInv
<1> QED
  BY <1>1, IInvHolds, PTL

\* Memory in use is in a block of its own pool, and Pop finds the blocks it looks for.
THEOREM MemoryStaysHeld == Spec => []LiveIsHeld
<1>1. IInv => LiveIsHeld
  <2> SUFFICES ASSUME IInv PROVE LiveIsHeld
    OBVIOUS
  <2>1. MarksAreHeld
    BY DEF IInv, MarksInv, MarksFit, MarksAreHeld, Small, Large
  <2>2. ASSUME NEW a \in live
        PROVE  /\ a.pool \in mem_pools
               /\ a.block \in Small(a.pool) \cup Large(a.pool)
               /\ a.start + a.size <= orig_size[a.block] - avail[a.block]
    BY LiveFacts, MemPoolAssumption DEF IInv, LiveInv
  <2> QED
    BY <2>1, <2>2 DEF LiveIsHeld
<1> QED
  BY <1>1, IInvHolds, PTL

\* What was allocated since the last Push lies above the marked block: when Pop takes
\* it from its user its block leaves the stack.
THEOREM PopIsComplete == Spec => PopReclaims
<1> DEFINE Reclaims ==
      \A mp \in Pools : \A a \in Popped(mp) :
        /\ a.size <= kMinBlockSize /\ Last(marker_stack[mp])[1] # NoBlock
             => a.block \notin Small(mp)'
        /\ a.size > kMinBlockSize /\ Last(marker_stack[mp])[2] # NoBlock
             => a.block \notin Large(mp)'
<1>1. ASSUME IInv, NEW mp \in Pools, Pop(mp), NEW a \in live, a \notin live'
      PROVE  /\ a.pool = mp
             /\ a.size <= kMinBlockSize /\ Last(marker_stack[mp])[1] # NoBlock
                  => a.block \notin Small(mp)'
             /\ a.size > kMinBlockSize /\ Last(marker_stack[mp])[2] # NoBlock
                  => a.block \notin Large(mp)'
  <2> DEFINE marks == marker_stack[mp]
             t1 == SubSeq(mem_block_stack[mp], 1, Kept(mem_block_stack[mp], Last(marks)[1]))
             t2 == SubSeq(large_mem_block_stack[mp], 1,
                          Kept(large_mem_block_stack[mp], Last(marks)[2]))
  <2>1. /\ marks # <<>> /\ a.pool = mp /\ ~(a.level < Len(marks))
        /\ mem_block_stack' = [mem_block_stack EXCEPT ![mp] = t1]
        /\ large_mem_block_stack' = [large_mem_block_stack EXCEPT ![mp] = t2]
    BY <1>1 DEF Pop
  <2>2. mem_block_stack'[mp] = t1 /\ large_mem_block_stack'[mp] = t2
    BY <1>1, <2>1 DEF IInv, TypeOK
  <2>3. a.level = Len(marks)
    <3>1. a.level \in 0 .. Len(marks) /\ Len(marks) \in Nat
      BY <1>1, <2>1, StackFacts, LenProperties, LiveFacts, MemPoolAssumption
         DEF IInv, LiveInv, AllocFits
    <3> QED
      BY <2>1, <3>1
  <2>4. a.size <= kMinBlockSize /\ Last(marks)[1] # NoBlock => a.block \notin ToSet(t1)
    <3>1. a.size <= kMinBlockSize =>
            AllocFits(mem_block_stack[mp], marks, 1, a.block, a.level)
      BY <1>1, <2>1 DEF IInv, LiveInv
    <3> HIDE DEF marks
    <3> QED
      BY <1>1, <2>1, <2>3, <3>1, StackFacts, FitPop DEF marks
  <2>5. a.size > kMinBlockSize /\ Last(marks)[2] # NoBlock => a.block \notin ToSet(t2)
    <3>1. a.size > kMinBlockSize =>
            AllocFits(large_mem_block_stack[mp], marks, 2, a.block, a.level)
      BY <1>1, <2>1 DEF IInv, LiveInv
    <3> HIDE DEF marks
    <3> QED
      BY <1>1, <2>1, <2>3, <3>1, StackFacts, FitPop DEF marks
  <2> QED
    BY <2>1, <2>2, <2>4, <2>5 DEF Small, Large
<1>2. ASSUME IInv, [Next]_vars PROVE Reclaims
  <2> SUFFICES ASSUME NEW mp \in Pools, NEW a \in live, a \notin live', a.pool = mp,
                      mp \in mem_pools'
               PROVE  /\ a.size <= kMinBlockSize /\ Last(marker_stack[mp])[1] # NoBlock
                           => a.block \notin Small(mp)'
                      /\ a.size > kMinBlockSize /\ Last(marker_stack[mp])[2] # NoBlock
                           => a.block \notin Large(mp)'
    BY DEF Popped
  <2>1. ASSUME NEW mq \in Pools, NEW size \in Sizes,
               MallocSmall(mq, size) \/ MallocLarge(mq, size)
        PROVE  live \subseteq live'
    BY <2>1 DEF MallocSmall, MallocLarge, FromHeap, Carve
  <2>2. ASSUME NEW mq \in Pools, NewMemPool(mq) \/ Push(mq) PROVE live' = live
    BY <2>2 DEF NewMemPool, Push
  <2>3. ASSUME NEW mq \in Pools, DeleteMemPool(mq) PROVE mq # mp
    BY <2>3 DEF DeleteMemPool
  <2>4. ASSUME NEW mq \in Pools, DeleteMemPool(mq) PROVE FALSE
    BY <2>3, <2>4 DEF DeleteMemPool
  <2>5. CASE DestroyCtrler
    BY <2>5 DEF DestroyCtrler
  <2>6. CASE UNCHANGED vars
    BY <2>6 DEF vars
  <2>7. ASSUME NEW mq \in Pools, Pop(mq) PROVE Pop(mp)
    BY <1>1, <1>2, <2>7
  <2>8. CASE Pop(mp)
    BY <1>1, <1>2, <2>8
  <2> QED
    BY <1>2, <2>1, <2>2, <2>4, <2>5, <2>6, <2>7, <2>8 DEF Next
<1>3. IInv /\ [Next]_vars => [Reclaims]_vars
  BY <1>2
<1> HIDE DEF Reclaims
<1>4. Spec => [][Reclaims]_vars
  BY <1>3, IInvHolds, PTL DEF Spec
<1> QED
  BY <1>4 DEF PopReclaims, Reclaims
=============================================================================
