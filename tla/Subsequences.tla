---------------------------- MODULE Subsequences ----------------------------
(***************************************************************************)
(* Parts of a sequence, by the positions that are kept: what Array.filter  *)
(* and a list comprehension with a condition make; and a list of numbers   *)
(* in order, as a stable sort leaves it.  Both are defined by ranks and    *)
(* without recursion, so that facts about them can be proved.              *)
(***************************************************************************)
EXTENDS Integers, Sequences, FiniteSets

(* The n-th member of a set of positions: n - 1 of them are before it. *)
Earlier(kept, i) == {j \in kept : j < i}
Nth(kept, n) == CHOOSE i \in kept : Cardinality(Earlier(kept, i)) = n - 1

Sublist(list, kept) == [n \in 1..Cardinality(kept) |-> list[Nth(kept, n)]]

(* The position that comes n-th when the list is sorted. *)
Sooner(list, i) == {j \in DOMAIN list : list[j] < list[i] \/ (list[j] = list[i] /\ j < i)}
Placed(list, n) == CHOOSE i \in DOMAIN list : Cardinality(Sooner(list, i)) = n - 1

Sorted(list) == [n \in DOMAIN list |-> list[Placed(list, n)]]
=============================================================================
