----------------------------- MODULE MCPipeline -----------------------------
(* A small instance of Pipeline for TLC. *)
EXTENDS Pipeline, TLC

CONSTANTS ip, host, word, day, key, dsn, n, seen

Plain(form, name) == 
  [core |-> <<form, name>>, label |-> "none", contexts |-> <<>>, comment |-> FALSE]
After(contexts, w) == [w EXCEPT !.contexts = contexts]
Labelled(w) == [w EXCEPT !.label = "key"]
Comment(w) == [w EXCEPT !.comment = TRUE]

SomeNames == {ip, host, word, day, key, dsn, n} \cup Tokens

SomeWords ==
  {Plain("ip", ip), After(<<"user", "password">>, Plain("ip", ip)), Plain("encoded", ip),
   Plain("odd", host), Labelled(Plain("odd", host)), Comment(Plain("odd", host)),
   Labelled(Plain("dense", host)), After(<<"user">>, Plain("date", day)), Plain("date", day),
   Plain("event", word), Plain("random", word), Plain("small", n), Plain("eight", seen),
   After(<<"path", "metric">>, Plain("small", n))}

\* "key -----BEGIN ..." and "dsn postgresql://...", without the words that every
\* layer leaves alone.
SomeCanaries ==
  <<[text |-> <<Plain("header", key)>>, needle |-> 1, source |-> "OTHER"],
    [text |-> <<Plain("odd", dsn), Labelled(Plain("dense", key))>>, needle |-> 2,
     source |-> "OTHER"]>>

FreshTokens == Permutations(Tokens \ {seen})
=============================================================================
