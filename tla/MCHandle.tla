------------------------------ MODULE MCHandle ------------------------------
EXTENDS Handle, TLC

MCSymmetry == Permutations(Thread) \cup Permutations(Target) \cup Permutations(ContextId)
=============================================================================
