----------------------------- MODULE Selection -----------------------------
(***************************************************************************)
(* Part of a sequence, in the order of the sequence.  The passes walk over *)
(* a block, or a vector, and keep or handle what fits: Picked is the       *)
(* sequence of the elements at the places chosen.  (SelectSeq says the     *)
(* same of a test; a set of places can be reasoned about.)                 *)
(***************************************************************************)
EXTENDS Integers, Sequences, FiniteSets

\* the i-th smallest element of a set of numbers
Nth(S, i) == CHOOSE n \in S : Cardinality({m \in S : m < n}) = i - 1

\* the numbers of a set in increasing order
Listed(S) == [i \in 1 .. Cardinality(S) |-> Nth(S, i)]

\* the elements of s at the places in S
Picked(s, S) == [i \in 1 .. Cardinality(S) |-> s[Nth(S, i)]]
=============================================================================
