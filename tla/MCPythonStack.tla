--------------------------- MODULE MCPythonStack ---------------------------
\* Two threads that run Python code under one tracker after another.
EXTENDS PythonStack, TLC

Symmetry == Permutations(Threads) \cup Permutations(Codes)
=============================================================================
