----------------------------- MODULE MCManagement -----------------------------
(* Two clients; three agents, so that one can be replaced while another is  *)
(* still going; what may happen after the start is bounded.                 *)
EXTENDS Management, TLC

MCAgent == 1..3
MCSocket == 1..4
MCTask == 1..4

Start(full, events) ==
  [full |-> full, bounds |-> [e \in Event |-> IF e \in DOMAIN events THEN events[e] ELSE 0]]

(* Reconnects that fail; a configuration at any moment of a reconnect; a    *)
(* connect that meets a reconnect; the set-up of a new Pi; a client that    *)
(* gives up or leaves in the middle of its command.                         *)
MCStarts ==
  { Start(TRUE, [drop |-> 2, failure |-> 2]),
    Start(TRUE, [subscribe |-> 1, configure |-> 1, drop |-> 2, failure |-> 1]),
    Start(TRUE, [subscribe |-> 1, connect |-> 1, drop |-> 1, failure |-> 1]),
    Start(TRUE, [subscribe |-> 1, connect |-> 1, configure |-> 1]),
    Start(FALSE, [subscribe |-> 1, configure |-> 1, clear |-> 1, register |-> 1, login |-> 1,
                  connect |-> 1]),
    Start(FALSE, [subscribe |-> 1, configure |-> 2, login |-> 1, connect |-> 1, failure |-> 1]),
    Start(FALSE, [subscribe |-> 2, renew_passcode |-> 2, timeout |-> 1]),
    Start(TRUE, [subscribe |-> 2, connect |-> 2, leave |-> 1]),
    Start(TRUE, [subscribe |-> 2, configure |-> 1, clear |-> 1, leave |-> 1]),
    Start(TRUE, [subscribe |-> 2, connect |-> 1, configure |-> 1, failure |-> 1]) }
=============================================================================
