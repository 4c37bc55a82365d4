----------------------------- MODULE MCMemPool -----------------------------
(* A small instance of MemPool for TLC. *)
EXTENDS MemPool, TLC

CONSTANTS p1, p2, b1, b2, b3

MCPools  == {p1, p2}
MCBlocks == {b1, b2, b3}

\* Two units make a small block; 4 and 5 are large and share a key.
MCSizes == {1, 2, 4, 5}

\* Pools and blocks are named, never compared.
PoolBlockSymmetry == Permutations(Pools) \cup Permutations(Blocks)
=============================================================================
