---------------------------- MODULE MCShellLink -----------------------------
\* ShellLink for TLC: the configurations give the number of threads and calls.
EXTENDS ShellLink, TLC

\* The threads are interchangeable.
Symmetry == Permutations(Callers)
=============================================================================
