------------------------------ MODULE Listing ------------------------------
(***************************************************************************)
(* Sorting and filtering, as the sort and filter functions of Go, Rust and *)
(* Python do it for lists.  Both are about order only, and take a relation *)
(* or a set where the code passes a function.                              *)
(***************************************************************************)
EXTENDS Naturals, Sequences, FiniteSets

(* The elements of a finite set in the order of R, a strict total order:   *)
(* place i is taken by the element that i - 1 others come before.          *)
InOrder(S, R) ==
  [i \in 1..Cardinality(S) |->
     CHOOSE x \in S : Cardinality({y \in S : <<y, x>> \in R}) = i - 1]

(* The elements of a sequence that are in S, in their order. *)
Among(s, S) ==
  LET places == {i \in DOMAIN s : s[i] \in S}
      listed == InOrder(places, {p \in places \X places : p[1] < p[2]})
  IN [i \in 1..Cardinality(places) |-> s[listed[i]]]
=============================================================================
