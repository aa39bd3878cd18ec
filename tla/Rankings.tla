------------------------------ MODULE Rankings ------------------------------
(***************************************************************************)
(* Rankings: sequences of what a query sorts and a loop filters, written   *)
(* so that what they contain, and in which order, can be proved.           *)
(***************************************************************************)
EXTENDS Integers, Sequences, FiniteSets

\* The elements of S in the order R, a set of pairs.
Ranked(S, R) ==
  [n \in 1 .. Cardinality(S) |-> CHOOSE c \in S : Cardinality({d \in S : <<d, c>> \in R}) = n - 1]

\* The numbers in I from the least on.
Sorted(I) == Ranked(I, {p \in I \X I : p[1] < p[2]})

\* The members of s at the positions I, in their order.
Picked(s, I) == LET at == Sorted(I) IN [n \in 1 .. Cardinality(I) |-> s[at[n]]]

\* The first n members of s.
First(s, n) == [i \in 1 .. IF Len(s) < n THEN Len(s) ELSE n |-> s[i]]

In(s, c) == \E i \in DOMAIN s : s[i] = c
Rank(s, c) == CHOOSE i \in DOMAIN s : s[i] = c
=============================================================================
