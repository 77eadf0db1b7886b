---------------------------- MODULE MCKernelHeap ----------------------------
(* A heap of up to four pages of eight units and two processors.           *)
EXTENDS KernelHeap, TLC

\* Processors are interchangeable (safety only).
ProcSymmetry == Permutations(Procs)
=============================================================================
