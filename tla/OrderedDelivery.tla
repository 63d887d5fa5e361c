--------------------------- MODULE OrderedDelivery ---------------------------
(***************************************************************************)
(* What a sealed channel promises about requests: per session, the bodies  *)
(* handed over are the bodies sealed, in the order they were sealed, each  *)
(* at most once and with no gap.  It does not promise that every body      *)
(* sealed is handed over.                                                  *)
(***************************************************************************)
EXTENDS Naturals, Sequences

CONSTANTS Session, Body

VARIABLES sent, delivered

TypeOK ==
  /\ sent \in [Session -> Seq(Body)]
  /\ delivered \in [Session -> Seq(Body)]

Init ==
  /\ sent = [s \in Session |-> <<>>]
  /\ delivered = [s \in Session |-> <<>>]

Send(s, body) ==
  /\ sent' = [sent EXCEPT ![s] = Append(@, body)]
  /\ UNCHANGED delivered

Deliver(s) ==
  /\ Len(delivered[s]) < Len(sent[s])
  /\ delivered' = [delivered EXCEPT ![s] = Append(@, sent[s][Len(@) + 1])]
  /\ UNCHANGED sent

Next ==
  \E s \in Session :
    \/ Deliver(s)
    \/ \E body \in Body : Send(s, body)

vars == <<sent, delivered>>

Spec == Init /\ [][Next]_vars
=============================================================================
