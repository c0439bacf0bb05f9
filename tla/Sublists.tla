------------------------------- MODULE Sublists -------------------------------
(***************************************************************************)
(* The elements of a sequence that pass a test, in their order: what the   *)
(* loops of the store that append what they are asked for and filter in    *)
(* the browser UI return.  The test is given as the set of the places      *)
(* whose elements pass.                                                    *)
(***************************************************************************)
EXTENDS Naturals, Sequences, FiniteSets

\* The k-th number of a set of numbers.
Nth(I, k) == CHOOSE i \in I : Cardinality({j \in I : j <= i}) = k

Sublist(s, I) == [k \in 1..Cardinality(I) |-> s[Nth(I, k)]]
=============================================================================
