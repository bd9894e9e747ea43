----------------------------- MODULE FreeListMC -----------------------------
(* FreeList on a small instance.                                            *)
EXTENDS FreeList, TLC

CONSTANTS m1, m2, m3, m4, t1, t2, t3

Handles      == {m1, m2, m3}
MoreHandles  == {m1, m2, m3, m4}
Tags         == {t1, t2}
MoreTags     == {t1, t2, t3}

(* One request below an int, one that fits the block it leaves, one that    *)
(* is too large for it and whose own block is too large for the others.     *)
Requests == {0, 3, 7}

Symmetry == Permutations(Mem) \cup Permutations(Tag)
=============================================================================
