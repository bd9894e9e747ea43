---------------------------- MODULE ScanKernelMC ----------------------------
(* ScanKernel with a group of one block, on a device without lockstep.      *)
EXTENDS ScanKernel

Alone == {1}

(* Up to eight iterations, the last of them with and without a remainder.   *)
SomeCounts == {3, 7, 12, 16}

FullWidth == {GroupSize}
=============================================================================
