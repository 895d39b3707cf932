-------------------------------- MODULE Lists --------------------------------
(* What the kernel does to its arrays: keep the elements that pass a test, in *)
(* their order, and go through a set of numbers in theirs.                    *)
EXTENDS Naturals, Sequences, FiniteSets

\* The n-th smallest number of D.
Nth(D, n) == CHOOSE i \in D : Cardinality({j \in D : j <= i}) = n

InOrder(D) == [n \in 1 .. Cardinality(D) |-> Nth(D, n)]

\* The elements of s at the positions D.
Those(s, D) == [n \in 1 .. Cardinality(D) |-> s[Nth(D, n)]]

Without(s, e) == Those(s, {i \in DOMAIN s : s[i] /= e})
=============================================================================
