--------------------------- MODULE MCBrowserChannel ---------------------------
(* BrowserChannel on a small instance. *)
EXTENDS BrowserChannel, TLC

\* ids, requests, invocations and tabs are interchangeable
Symmetry ==
  Permutations(Sid) \cup Permutations(Link) \cup Permutations(Msg)
    \cup Permutations(Task) \cup Permutations(Tab)
=============================================================================
