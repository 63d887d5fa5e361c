---------------------------- MODULE MCProxyRelay ----------------------------
(* ProxyRelay on a small instance. *)
EXTENDS ProxyRelay, TLC

Symmetry ==
  Permutations(Server) \cup Permutations(Socket) \cup Permutations(Call)
    \cup Permutations(Live) \cup Permutations(Sid)
=============================================================================
