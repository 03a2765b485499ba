-------------------------- MODULE MCUsageLifecycle --------------------------
\* UsageLifecycle on a small instance; the two files are interchangeable.
EXTENDS UsageLifecycle, TLC

Symmetry == Permutations(Paths)
=============================================================================
