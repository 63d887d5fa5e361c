--------------------------- MODULE MCAdapterChannel ---------------------------
(* AdapterChannel on a small instance. *)
EXTENDS AdapterChannel, TLC

\* ids, lines and invocations are interchangeable
Symmetry ==
  Permutations(Sid) \cup Permutations(Link) \cup Permutations(Msg)
    \cup Permutations(Task)
=============================================================================
