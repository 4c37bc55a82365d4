------------------------------ MODULE MemPool ------------------------------
(***************************************************************************)
(* The memory pools every phase allocates from (mempool/src/MP.cpp): a     *)
(* controller with free lists, pools with a stack of small and a stack of  *)
(* large blocks, and a stack of markers per pool for Push and Pop.         *)
(*                                                                         *)
(* Sizes are counted in an abstract unit.  The pointer of a block is       *)
(* orig_size - avail.  Calloc and Realloc change the state as their call   *)
(* of Malloc does.  A heap allocation that fails changes nothing.          *)
(***************************************************************************)
EXTENDS Integers, Sequences, SequencesExt

CONSTANTS
  Pools,          \* identities of MemPool objects
  Blocks,         \* bound: the blocks the heap can deliver
  kMinBlockSize,  \* 0x800 in the code
  Sizes,          \* sizes asked of Malloc
  MaxMarks,       \* bound: markers on one pool
  NoBlock         \* nullptr

ASSUME MemPoolAssumption ==
  /\ kMinBlockSize \in Nat \ {0}
  /\ Sizes \subseteq Nat \ {0}
  /\ MaxMarks \in Nat
  /\ NoBlock \notin Blocks

VARIABLES
  mem_pools,              \* the pools that exist
  free_mem_blocks,        \* list of small blocks
  large_free_mem_blocks,  \* union of the sets kept per key; see InsertLarge
  mem_block_stack, large_mem_block_stack,   \* per pool
  marker_stack,           \* per pool, pairs <<top small block, top large block>>
  avail, orig_size,       \* per block
  heap,                   \* blocks malloc'ed and not freed
  live                    \* history: memory handed out and not yet reclaimed by
                          \* the Pop or DeleteMemPool its user has asked for
ctrlVars == <<free_mem_blocks, large_free_mem_blocks>>
poolVars == <<mem_block_stack, large_mem_block_stack, marker_stack>>
vars == <<mem_pools, ctrlVars, poolVars, avail, orig_size, heap, live>>

\* Memory at start .. start+size-1 of block, handed out under level markers.
Allocation ==
  [pool : Pools, block : Blocks, start : Nat, size : Sizes, level : 0 .. MaxMarks]

TypeOK ==
  /\ mem_pools \subseteq Pools
  /\ free_mem_blocks \in Seq(heap)
  /\ large_free_mem_blocks \subseteq heap
  /\ mem_block_stack \in [Pools -> Seq(heap)]
  /\ large_mem_block_stack \in [Pools -> Seq(heap)]
  /\ \A mp \in Pools : \A i \in DOMAIN marker_stack[mp] :
       marker_stack[mp][i] \in (heap \cup {NoBlock}) \X (heap \cup {NoBlock})
  /\ avail \in [Blocks -> Nat] /\ orig_size \in [Blocks -> Nat]
  /\ \A b \in heap : avail[b] <= orig_size[b]
  /\ heap \subseteq Blocks
  /\ live \subseteq Allocation

Init ==
  /\ mem_pools = {} /\ free_mem_blocks = <<>> /\ large_free_mem_blocks = {}
  /\ mem_block_stack = [mp \in Pools |-> <<>>]
  /\ large_mem_block_stack = [mp \in Pools |-> <<>>]
  /\ marker_stack = [mp \in Pools |-> <<>>]
  /\ avail = [b \in Blocks |-> 0] /\ orig_size = [b \in Blocks |-> 0]
  /\ heap = {} /\ live = {}

-----------------------------------------------------------------------------
Top(stack) == IF stack = <<>> THEN NoBlock ELSE Last(stack)

\* The large free blocks are kept in a set per key, size / kMinBlockSize + 1.
Key(size) == size \div kMinBlockSize + 1
Bucket(key) == {b \in large_free_mem_blocks : Key(orig_size[b]) = key}

\* The set of a key is ordered by avail alone, so it takes no second block of a
\* size it holds: blocks are inserted one after the other, equal sizes once.
InsertLarge(free, blocks) ==
  LET IsNew(i) == /\ \A f \in free : orig_size[f] # orig_size[blocks[i]]
                  /\ \A j \in 1 .. i - 1 : orig_size[blocks[j]] # orig_size[blocks[i]]
  IN  free \cup {blocks[i] : i \in {j \in DOMAIN blocks : IsNew(j)}}

\* Mutant: the available size does not decrease.
CarveKeepsAvail(mp, b, size, before) ==
  /\ avail' = [avail EXCEPT ![b] = before]
  /\ live' = live \cup {[pool |-> mp, block |-> b, start |-> orig_size'[b] - before,
                         size |-> size, level |-> Len(marker_stack[mp])]}

\* Memory is taken from the front of what block b has left.
Carve(mp, b, size, before) ==
  /\ avail' = [avail EXCEPT ![b] = before - size]
  /\ live' = live \cup {[pool |-> mp, block |-> b, start |-> orig_size'[b] - before,
                         size |-> size, level |-> Len(marker_stack[mp])]}

\* GetMemBlock and GetLargeMemBlock without a free block: malloc.
FromHeap(mp, b, blockSize, size) ==
  /\ b \in Blocks \ heap
  /\ heap' = heap \cup {b}
  /\ orig_size' = [orig_size EXCEPT ![b] = blockSize]
  /\ Carve(mp, b, size, blockSize)
  /\ UNCHANGED ctrlVars

\* Mutant: the marker is not looked at.
TopServesMarked(mp, size) ==
  mem_block_stack[mp] # <<>> /\ avail[Last(mem_block_stack[mp])] >= size

\* The rest of the top block is used unless the last operation was a push.
TopServes(mp, size) ==
  /\ mem_block_stack[mp] # <<>>
  /\ marker_stack[mp] # <<>> => Last(marker_stack[mp])[1] # Last(mem_block_stack[mp])
  /\ avail[Last(mem_block_stack[mp])] >= size

\* Mutant: the block taken stays in the free list.
MallocSmallKeepsFree(mp, size) ==
  /\ mp \in mem_pools /\ size <= kMinBlockSize
  /\ \E b \in Blocks :
       /\ mem_block_stack' = [mem_block_stack EXCEPT ![mp] = Append(@, b)]
       /\ \/ /\ free_mem_blocks # <<>> /\ b = Head(free_mem_blocks)
             /\ UNCHANGED <<ctrlVars, orig_size, heap>>
             /\ Carve(mp, b, size, avail[b])
          \/ free_mem_blocks = <<>> /\ FromHeap(mp, b, kMinBlockSize, size)
  /\ UNCHANGED <<mem_pools, large_mem_block_stack, marker_stack>>

\* Malloc with GetMemBlock.
MallocSmall(mp, size) ==
  /\ mp \in mem_pools /\ size <= kMinBlockSize
  /\ \/ /\ TopServes(mp, size)
        /\ UNCHANGED <<mem_block_stack, ctrlVars, orig_size, heap>>
        /\ LET b == Last(mem_block_stack[mp]) IN Carve(mp, b, size, avail[b])
     \/ /\ ~TopServes(mp, size) /\ free_mem_blocks # <<>>
        /\ free_mem_blocks' = Tail(free_mem_blocks)
        /\ UNCHANGED <<large_free_mem_blocks, orig_size, heap>>
        /\ LET b == Head(free_mem_blocks)
           IN  /\ mem_block_stack' = [mem_block_stack EXCEPT ![mp] = Append(@, b)]
               /\ Carve(mp, b, size, avail[b])
     \/ /\ ~TopServes(mp, size) /\ free_mem_blocks = <<>>
        /\ \E b \in Blocks :
             /\ FromHeap(mp, b, kMinBlockSize, size)
             /\ mem_block_stack' = [mem_block_stack EXCEPT ![mp] = Append(@, b)]
  /\ UNCHANGED <<mem_pools, large_mem_block_stack, marker_stack>>

\* Malloc with GetLargeMemBlock: the largest free block of the key, if it is large
\* enough; otherwise the heap.
MallocLarge(mp, size) ==
  /\ mp \in mem_pools /\ size > kMinBlockSize
  /\ \E b \in Blocks :
       /\ large_mem_block_stack' = [large_mem_block_stack EXCEPT ![mp] = Append(@, b)]
       /\ \/ /\ b \in Bucket(Key(size)) /\ orig_size[b] >= size
             /\ \A c \in Bucket(Key(size)) : orig_size[c] <= orig_size[b]
             /\ large_free_mem_blocks' = large_free_mem_blocks \ {b}
             /\ UNCHANGED <<free_mem_blocks, orig_size, heap>>
             /\ Carve(mp, b, size, avail[b])
          \/ /\ \A c \in Bucket(Key(size)) : orig_size[c] < size
             /\ FromHeap(mp, b, size, size)
  /\ UNCHANGED <<mem_pools, mem_block_stack, marker_stack>>

NewMemPool(mp) ==
  /\ mp \in Pools \ mem_pools
  /\ mem_pools' = mem_pools \cup {mp}
  /\ UNCHANGED <<ctrlVars, poolVars, avail, orig_size, heap, live>>

\* The blocks of the sequence go back to the free lists, whole again.
Recycle(small, large) ==
  /\ free_mem_blocks' = free_mem_blocks \o small
  /\ large_free_mem_blocks' = InsertLarge(large_free_mem_blocks, large)
  /\ avail' = [b \in Blocks |-> IF b \in ToSet(small) \cup ToSet(large)
                                THEN orig_size[b] ELSE avail[b]]

DeleteMemPool(mp) ==
  /\ mp \in mem_pools
  /\ mem_pools' = mem_pools \ {mp}
  /\ Recycle(Reverse(mem_block_stack[mp]), Reverse(large_mem_block_stack[mp]))
  /\ mem_block_stack' = [mem_block_stack EXCEPT ![mp] = <<>>]
  /\ large_mem_block_stack' = [large_mem_block_stack EXCEPT ![mp] = <<>>]
  /\ marker_stack' = [marker_stack EXCEPT ![mp] = <<>>]
  /\ live' = {a \in live : a.pool # mp}
  /\ UNCHANGED <<orig_size, heap>>

Push(mp) ==
  /\ mp \in mem_pools /\ Len(marker_stack[mp]) < MaxMarks
  /\ marker_stack' = [marker_stack EXCEPT ![mp] =
       Append(@, <<Top(mem_block_stack[mp]), Top(large_mem_block_stack[mp])>>)]
  /\ UNCHANGED <<mem_pools, ctrlVars, mem_block_stack, large_mem_block_stack, avail,
                 orig_size, heap, live>>

\* Mutant: the marked block is unwound as well.
KeptOneLess(stack, mark) ==
  IF mark = NoBlock THEN Len(stack)
  ELSE (CHOOSE i \in DOMAIN stack : stack[i] = mark) - 1

\* How many blocks stay on the stack when it is unwound to the marked one: all of
\* them when the marker is a null pointer.
Kept(stack, mark) ==
  IF mark = NoBlock THEN Len(stack)
  ELSE CHOOSE i \in DOMAIN stack : stack[i] = mark

\* With no marker Pop returns false and changes nothing.
Pop(mp) ==
  /\ mp \in mem_pools /\ marker_stack[mp] # <<>>
  /\ LET mark  == Last(marker_stack[mp])
         small == mem_block_stack[mp]
         large == large_mem_block_stack[mp]
         i     == Kept(small, mark[1])
         j     == Kept(large, mark[2])
     IN  /\ Recycle(Reverse(SubSeq(small, i + 1, Len(small))),
                    Reverse(SubSeq(large, j + 1, Len(large))))
         /\ mem_block_stack' = [mem_block_stack EXCEPT ![mp] = SubSeq(small, 1, i)]
         /\ large_mem_block_stack' = [large_mem_block_stack EXCEPT ![mp] = SubSeq(large, 1, j)]
  /\ marker_stack' = [marker_stack EXCEPT ![mp] = Front(@)]
  /\ live' = {a \in live : a.pool = mp => a.level < Len(marker_stack[mp])}
  /\ UNCHANGED <<mem_pools, orig_size, heap>>

\* Blocks some pool or free list knows of.
Small(mp) == ToSet(mem_block_stack[mp])
Large(mp) == ToSet(large_mem_block_stack[mp])
Free      == ToSet(free_mem_blocks)
Known     == Free \cup large_free_mem_blocks \cup UNION {Small(mp) \cup Large(mp) : mp \in Pools}

\* ~MemPoolCtrler with ~MemPool: what the pools and the free lists hold is freed.
DestroyCtrler ==
  /\ mem_pools' = {} /\ free_mem_blocks' = <<>> /\ large_free_mem_blocks' = {}
  /\ mem_block_stack' = [mp \in Pools |-> <<>>]
  /\ large_mem_block_stack' = [mp \in Pools |-> <<>>]
  /\ marker_stack' = [mp \in Pools |-> <<>>]
  /\ heap' = heap \ Known
  /\ avail' = [b \in Blocks |-> IF b \in Known THEN 0 ELSE avail[b]]
  /\ orig_size' = [b \in Blocks |-> IF b \in Known THEN 0 ELSE orig_size[b]]
  /\ live' = {}

Next ==
  \/ \E mp \in Pools :
       \/ NewMemPool(mp) \/ DeleteMemPool(mp) \/ Push(mp) \/ Pop(mp)
       \/ \E size \in Sizes : MallocSmall(mp, size) \/ MallocLarge(mp, size)
  \/ DestroyCtrler

Spec == Init /\ [][Next]_vars

-----------------------------------------------------------------------------
(* Properties. *)

\* Two pieces of memory in use at the same time never overlap, whatever pools they
\* come from and however often their blocks were recycled.
NoOverlap ==
  \A a, c \in live : a # c /\ a.block = c.block =>
    a.start + a.size <= c.start \/ c.start + c.size <= a.start

\* Pop unwinds the stacks to the marked blocks without looking for the bottom, so
\* the marked blocks must still be there.
MarksAreHeld ==
  \A mp \in Pools : \A i \in DOMAIN marker_stack[mp] :
    /\ marker_stack[mp][i][1] \in Small(mp) \cup {NoBlock}
    /\ marker_stack[mp][i][2] \in Large(mp) \cup {NoBlock}

\* Memory in use lies in a block its own pool holds, and so do the marks: no Pop takes away what was
\* allocated before the matching Push, and recycled blocks hold nothing alive.
LiveIsHeld ==
  /\ MarksAreHeld
  /\ \A a \in live :
       /\ a.pool \in mem_pools
       /\ a.block \in Small(a.pool) \cup Large(a.pool)
       /\ a.start + a.size <= orig_size[a.block] - avail[a.block]

\* A block is in one place only: a position of one stack or of the free lists.
OwnedOnce ==
  /\ IsInjective(free_mem_blocks) /\ Free \cap large_free_mem_blocks = {}
  /\ \A mp \in Pools :
       /\ IsInjective(mem_block_stack[mp]) /\ IsInjective(large_mem_block_stack[mp])
       /\ (Small(mp) \cup Large(mp)) \cap (Free \cup large_free_mem_blocks) = {}
       /\ \A mq \in Pools : Small(mp) \cap Large(mq) = {}
       /\ \A mq \in Pools \ {mp} : Small(mp) \cap Small(mq) = {} /\ Large(mp) \cap Large(mq) = {}

\* A small block is never forgotten: it is in a stack or free for the next pool.
NoSmallBlockLost == \A b \in heap : orig_size[b] = kMinBlockSize => b \in Known

\* Recycling is sound: no block is in two places, so that no pool uses another's, and
\* small ones do not get lost however often pools come and go.
BlocksAreRecycled == TypeOK /\ OwnedOnce /\ NoSmallBlockLost

\* The memory a Pop takes from its user.
Popped(mp) == {a \in live \ live' : a.pool = mp /\ mp \in mem_pools'}

\* What was allocated since the last Push is in a recycled block after the Pop, if
\* the Push found a block to mark: Malloc never fills up the marked block.
PopReclaims ==
  [][\A mp \in Pools : \A a \in Popped(mp) :
       /\ a.size <= kMinBlockSize /\ Last(marker_stack[mp])[1] # NoBlock
            => a.block \notin Small(mp)'
       /\ a.size > kMinBlockSize /\ Last(marker_stack[mp])[2] # NoBlock
            => a.block \notin Large(mp)']_vars
=============================================================================
