---- MODULE MCHooks ----
(* Small instances of Hooks. *)
EXTENDS Hooks, TLC

Symmetry == Permutations(Threads) \cup Permutations(Addresses)
====
