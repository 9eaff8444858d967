---------------------------- MODULE MCAggregators ----------------------------
\* Aggregators for TLC.
EXTENDS Aggregators, TLC

Symmetry == Permutations(Addresses) \cup Permutations(SimpleKeys)
=============================================================================
