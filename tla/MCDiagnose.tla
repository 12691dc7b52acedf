---------------------------- MODULE MCDiagnose ----------------------------
(* A small instance of Diagnose for TLC. *)
EXTENDS Diagnose, TLC

SomeTokens == {12345678, 87654321}

\* A failure and a plain line for each token, one with a padded number, and one
\* with a number that is no token.
SomeLines ==
  [time : {NoTime}, found : {{}, {"failed"}}, token : SomeTokens]
    \cup [time : {NoTime}, found : {{}}, token : {0, 1234, 11111111}]
===========================================================================
