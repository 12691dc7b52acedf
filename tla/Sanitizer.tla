----------------------------- MODULE Sanitizer -----------------------------
(***************************************************************************)
(* What run_pipeline promises its caller, whatever the layers do: either   *)
(* nothing comes out, or a text of which every piece is clear of what the  *)
(* egress check knows and every long number is a token of the session.     *)
(* The vault only grows, and never gives two values one token.             *)
(*                                                                         *)
(* A piece is a word for Pipeline, which implements this module, and a     *)
(* line for Diagnose, which is built on it.                                *)
(***************************************************************************)
EXTENDS Naturals, Sequences, Functions

CONSTANTS Tokens,
          Clear,     \* pieces that pass the egress check and hold no long number
          Long,      \* pieces that pass it and hold a long number
          NumberOf   \* the number in each of these

VARIABLES vault,    \* values to tokens
          released  \* the text that came out, if one did: a set

sanitizerVars == <<vault, released>>

Init == vault = <<>> /\ released = {}

Begin == released' = {} /\ UNCHANGED vault

Issue ==
  /\ released = {} /\ UNCHANGED released
  /\ \E value \in DOMAIN vault' :
       /\ value \notin DOMAIN vault
       /\ vault'[value] \in Tokens \ Range(vault)
       /\ vault' = [v \in DOMAIN vault \cup {value} |->
                      IF v = value THEN vault'[value] ELSE vault[v]]

Passes(piece) ==
  \/ piece \in Clear
  \/ piece \in Long /\ NumberOf[piece] \in Range(vault)

Release ==
  /\ released = {} /\ UNCHANGED vault
  /\ \E text \in released' :
       /\ released' = {text}
       /\ text \in Seq(Clear \cup Long)
       /\ \A i \in DOMAIN text : Passes(text[i])

Next == Begin \/ Issue \/ Release

Spec == Init /\ [][Next]_sanitizerVars
=============================================================================
