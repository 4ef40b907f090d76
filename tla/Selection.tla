----------------------------- MODULE Selection -----------------------------
(***************************************************************************)
(* The loop with which the code filters a slice: the entries that pass, in *)
(* their order.  What passes is given by its indices.                      *)
(***************************************************************************)
EXTENDS Naturals, Sequences, FiniteSets

\* The place of index i among the indices I.
Place(I, i) == Cardinality({j \in I : j <= i})

\* The entries of s at the indices I.
Selected(s, I) == [k \in 1 .. Cardinality(I) |-> s[CHOOSE i \in I : Place(I, i) = k]]
=============================================================================
