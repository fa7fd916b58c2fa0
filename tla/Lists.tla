------------------------------- MODULE Lists -------------------------------
(* What the loops that copy some entries of a list and skip the rest make.  *)
EXTENDS Naturals, Sequences, FiniteSets

\* The entries of s at the positions `at', in their order.
Pick(s, at) ==
  [n \in 1 .. Cardinality(at) |-> s[CHOOSE i \in at : Cardinality({j \in at : j <= i}) = n]]
=============================================================================
