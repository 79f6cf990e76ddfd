----------------------------- MODULE MCSemaphore -----------------------------
(* Semaphore for TLC; Sym is used by the runs that check safety only.       *)
EXTENDS Semaphore, TLC

Sym == Permutations(Threads)
=============================================================================
