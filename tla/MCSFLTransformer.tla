-------------------------- MODULE MCSFLTransformer --------------------------
(* A small instance of SFLTransformer for TLC. *)
EXTENDS SFLTransformer, TLC

At(times, found) == [time : times, found : {found}, token : {0}]

\* Times that lie in each class after one another; a failure, a shortage, and
\* the words that contain other entries of the tables.
SomeLines ==
  At({NoTime, 0, 59, 90000, 864000}, {})
    \cup At({NoTime, 0, 59}, {"failed"})
    \cup At({59, 864000}, {"mem=", "high"})
    \cup At({NoTime, 864000}, {"disconnected", "connected"})
    \cup [time : {NoTime}, found : {{"closed"}, {"rate limit", "limit", "slow"}},
          token : {12345678}]

Symmetry == Permutations(Threads)
=============================================================================
