---------------------------- MODULE MCTokenVault ----------------------------
(* Small instances of TokenVault for TLC. *)
EXTENDS TokenVault, TLC

Symmetry == Permutations(Threads) \cup Permutations(Values)
              \cup Permutations(Tokens) \cup Permutations(Primes)
=============================================================================
