----------------------------- MODULE MCWalWriter -----------------------------
EXTENDS WalWriter, TLC

\* The pool's threads are interchangeable.
Symmetry == Permutations(Writers)
=============================================================================
