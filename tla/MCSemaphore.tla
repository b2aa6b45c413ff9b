----------------------------- MODULE MCSemaphore -----------------------------
EXTENDS Semaphore, TLC

Symmetry == Permutations(Calls \ MainCalls)

==============================================================================
