---------------------------- MODULE MCLlmStream ----------------------------
(* Bodies for TLC: up to MaxLines lines.                                   *)
EXTENDS LlmStream

CONSTANTS w1, w2, MaxLines

Delta(c, a, l) == [kind |-> "delta", content |-> c, alternative |-> a, last |-> l]

SomeLines ==
  {[kind |-> k] : k \in {"blank", "garbage", "end", "failure"}}
  \cup {Delta(w1, Blank, FALSE), Delta(w2, w1, FALSE), Delta(w2, Blank, TRUE),
        Delta(Blank, w2, FALSE), Delta(Blank, Blank, FALSE)}

MCBodies == UNION {[1..n -> SomeLines] : n \in 0..MaxLines}
=============================================================================
