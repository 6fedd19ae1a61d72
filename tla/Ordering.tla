------------------------------ MODULE Ordering ------------------------------
(***************************************************************************)
(* sorted: a finite set as the list of its items in a strict order.        *)
(***************************************************************************)
EXTENDS Integers, Sequences, FiniteSets

\* The sequence itself: TLC computes a concatenation where it stands, and the
\* values of a function each time they are asked for.
AtOnce(seq) == seq \o <<>>

\* A finite set in increasing order: as many come before an item as its place says.
Listing(S, Less(_, _)) ==
    AtOnce([i \in 1 .. Cardinality(S) |->
               CHOOSE x \in S : Cardinality({y \in S : Less(y, x)}) = i - 1])
=============================================================================
