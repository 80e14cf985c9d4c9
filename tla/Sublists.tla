------------------------------ MODULE Sublists ------------------------------
(***************************************************************************)
(* Parts of a sequence, by the places that are kept.  What a loop with a   *)
(* condition collects is Kept(seq, places): a definition without recursion,*)
(* so that theorems about it are within reach.                             *)
(***************************************************************************)
EXTENDS Naturals, FiniteSets, Sequences

(* The k-th of a finite set of numbers, counted from the least.            *)
Nth(S, k) == CHOOSE n \in S : Cardinality({m \in S : m <= n}) = k

(* The elements at the places S, in their order.                           *)
Kept(seq, S) == [k \in 1 .. Cardinality(S) |-> seq[Nth(S, k)]]

(* The elements that differ from all before them.                          *)
Distinct(seq) == Kept(seq, {i \in DOMAIN seq : \A j \in 1 .. i - 1 : seq[j] # seq[i]})

(* The first n, or all.                                                    *)
Take(seq, n) == SubSeq(seq, 1, IF Len(seq) < n THEN Len(seq) ELSE n)

=============================================================================
