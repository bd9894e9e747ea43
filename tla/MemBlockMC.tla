----------------------------- MODULE MemBlockMC -----------------------------
(* MemBlock on a small instance.                                            *)
EXTENDS MemBlock, TLC

CONSTANTS c1, c2, c3, c4, c5, b1, b2, b3

FiveCells == {c1, c2, c3, c4, c5}
ThreeBlocks == {b1, b2, b3}

(* Sizes malloc accepts and one memblock_alloc refuses.                    *)
SomeSizes == {-1, 1, 2}

Symmetry == Permutations(Cell) \cup Permutations(Block)
=============================================================================
