--------------------------- MODULE Subsequences ----------------------------
(***************************************************************************)
(* What is left of a sequence when only some of it is taken, in its order. *)
(***************************************************************************)
EXTENDS Integers, Sequences, FiniteSets

\* The one of some indices that has k of them up to itself.
Nth(indices, k) == CHOOSE i \in indices : Cardinality({j \in indices : j <= i}) = k

\* What stands at those indices.
Picked(seq, indices) == [k \in 1..Cardinality(indices) |-> seq[Nth(indices, k)]]

\* What a sequence holds of a set.
Kept(seq, S) == Picked(seq, {i \in DOMAIN seq : seq[i] \in S})
=============================================================================
