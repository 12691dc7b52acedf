----------------------------- MODULE MCStartup -----------------------------
(* A small instance of Startup for TLC. *)
EXTENDS Startup, TLC

Symmetry ==
  Permutations(Processes) \cup Permutations(Keys)
    \cup Permutations(Services) \cup Permutations(Profiles)
=============================================================================
