---------------------------- MODULE MCZKDPClient ----------------------------
(* A small instance of ZKDPClient for TLC. *)
EXTENDS ZKDPClient

MCRequests == 1..MaxSends

\* Both sides of the floor, outside the range, and no number.
SomeConfidences == {6, 7, 11, NaN}

SomeVectors == {{"whitelisted", "unlabelled"}, {"whitelisted", "unlisted"}}
SomeFallbacks == {{"unlisted"}}
=============================================================================
