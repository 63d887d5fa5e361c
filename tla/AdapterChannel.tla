---------------------------- MODULE AdapterChannel ----------------------------
(***************************************************************************)
(* The game adapter service's end of the sealed channel                    *)
(* (adapters/client.py, and connect, disconnect, forward and the reconnect *)
(* loop of adapters/main.py), composed with the Pi of PiSession.           *)
(*                                                                         *)
(* A link is one SecureProxyClient object.  Chat lines are forwarded by    *)
(* background tasks, so several posts may be on their way at once.         *)
(***************************************************************************)
EXTENDS PiSession

VARIABLES
  link,           \* per SecureProxyClient: progress, session, key, counter
  client,         \* ServerState.proxy_client
  status,         \* ServerState.connection_info["status"]
  closed,         \* clients whose HTTP connection was closed by aclose
  disconnecting,  \* a disconnect waits for aclose
  offered,        \* chat lines handed to forward so far
  sealed          \* history: lines sealed per session, in order

adapterVars == <<link, client, status, closed, disconnecting, offered, sealed>>
vars == <<piVars, adapterVars>>

LinkState ==
  [pc : {"idle", "associating", "exchanging", "ready", "failed"},
   sid : Sid \cup {None}, key : Key \cup {None}, sequence : Nat]

TypeOK ==
  /\ PiTypeOK
  /\ link \in [Link -> LinkState]
  /\ client \in Link \cup {None}
  /\ status \in {"Disconnected", "Connected", "Error"}
  /\ closed \subseteq Link
  /\ disconnecting \in BOOLEAN
  /\ offered \subseteq Msg
  /\ sealed \in [Sid -> Seq(Msg)]

Init ==
  /\ PiInit
  /\ link = [l \in Link |-> [pc |-> "idle", sid |-> None, key |-> None, sequence |-> 0]]
  /\ client = None
  /\ status = "Disconnected"
  /\ closed = {}
  /\ disconnecting = FALSE
  /\ offered = {}
  /\ sealed = [s \in Sid |-> <<>>]

-----------------------------------------------------------------------------
(* connect: by the user at any time, by the reconnect loop while the status *)
(* is not "Connected".                                                      *)

Close(c) == closed' = closed \cup ({c} \ {None})

Post(q) == requests' = requests \cup {q}

\* connect closes the old client, then _authenticate posts
Connect(l) ==
  /\ link[l].pc = "idle"
  /\ Close(client)
  /\ link' = [link EXCEPT ![l].pc = "associating"]
  /\ Post([kind |-> "associate", link |-> l])
  /\ UNCHANGED <<session_states, replies, calling, listening, spent, boxes,
                 forwarded, client, status, disconnecting, offered, sealed>>

\* _authenticate ends, _exchange_dh posts
Authenticated(l, r) ==
  /\ link[l].pc = "associating"
  /\ r.kind = "associated" /\ r.link = l
  /\ link' = [link EXCEPT ![l].pc = "exchanging", ![l].sid = r.sid]
  /\ Post([kind |-> "exchange", link |-> l, sid |-> r.sid])
  /\ UNCHANGED <<session_states, replies, calling, listening, spent, boxes,
                 forwarded, client, status, closed, disconnecting, offered, sealed>>

\* _exchange_dh ends and connect installs the client
Exchanged(l, r) ==
  /\ link[l].pc = "exchanging"
  /\ r.kind = "exchanged" /\ r.link = l
  /\ link' = [link EXCEPT ![l].pc = "ready",
                          ![l].key = [client |-> l, server |-> r.server]]
  /\ client' = l
  /\ status' = "Connected"
  /\ UNCHANGED <<piVars, closed, disconnecting, offered, sealed>>

\* Mutant: the status in lower case, as the Pi's agents spell theirs.
ConnectFailsLower(l) ==
  /\ link[l].pc \in {"associating", "exchanging"}
  /\ link' = [link EXCEPT ![l].pc = "failed"]
  /\ status' = "error"
  /\ UNCHANGED <<piVars, client, closed, disconnecting, offered, sealed>>

\* refused, or no answer within the timeouts of the client and of the proxy
ConnectFails(l) ==
  /\ link[l].pc \in {"associating", "exchanging"}
  /\ link' = [link EXCEPT ![l].pc = "failed"]
  /\ status' = "Error"
  /\ UNCHANGED <<piVars, client, closed, disconnecting, offered, sealed>>

-----------------------------------------------------------------------------
(* disconnect, on both sides of its await of aclose, and without a client. *)
(* One at a time: a second one that waits too ends as the first does.      *)

Disconnect ==
  /\ ~disconnecting
  /\ client # None
  /\ Close(client)
  /\ disconnecting' = TRUE
  /\ UNCHANGED <<piVars, link, client, status, offered, sealed>>

Disconnected ==
  /\ disconnecting
  /\ disconnecting' = FALSE
  /\ client' = None
  /\ status' = "Disconnected"
  /\ UNCHANGED <<piVars, link, closed, offered, sealed>>

DisconnectNoClient ==
  /\ client = None
  /\ status' = "Disconnected"
  /\ UNCHANGED <<piVars, link, client, closed, disconnecting, offered, sealed>>

-----------------------------------------------------------------------------
(* forward and send *)

\* forward without a connection: the line is dropped and logged
DropLine(m) ==
  /\ m \in Msg \ offered
  /\ client = None \/ status # "Connected"
  /\ offered' = offered \cup {m}
  /\ UNCHANGED <<piVars, link, client, status, closed, disconnecting, sealed>>

\* send counts up, seals and posts; a closed client raises before it posts.
\* The guard on the counter is the bound the two directions' ranges rest on.
SendLine(m) ==
  /\ m \in Msg \ offered
  /\ client # None /\ status = "Connected"
  /\ link[client].sequence < OutboundBase
  /\ offered' = offered \cup {m}
  /\ LET lk  == link[client]
         box == encrypt_message(lk.key, lk.sid, lk.sequence + 1, m)
     IN  /\ link' = [link EXCEPT ![client].sequence = @ + 1]
         /\ boxes' = boxes \cup {box}
         /\ sealed' = [sealed EXCEPT ![lk.sid] = Append(@, m)]
         /\ IF client \in closed
              THEN UNCHANGED requests
              ELSE Post([kind |-> "forward", msg |-> m, sid |-> lk.sid, box |-> box])
  /\ UNCHANGED <<session_states, replies, calling, listening, spent, forwarded,
                 client, status, closed, disconnecting>>

-----------------------------------------------------------------------------
AdapterNext ==
  \/ \E l \in Link : Connect(l) \/ ConnectFails(l)
  \/ \E l \in Link, r \in replies : Authenticated(l, r) \/ Exchanged(l, r)
  \/ Disconnect
  \/ Disconnected
  \/ DisconnectNoClient
  \/ \E m \in Msg : DropLine(m) \/ SendLine(m)

Next ==
  \/ PiNext /\ UNCHANGED adapterVars
  \/ AdapterNext

Spec == Init /\ [][Next]_vars

\* The Pi takes what reaches it and finishes its calls (30 s timeout); a
\* handshake step is over when the client's timeout is.
Fairness ==
  /\ WF_vars(PiHandles /\ UNCHANGED adapterVars)
  /\ \A l \in Link : WF_vars(ConnectFails(l))

FairSpec == Spec /\ Fairness

-----------------------------------------------------------------------------
(* Properties. *)

\* No key ever seals two boxes under one nonce, whichever end seals them and
\* however sends, replies, retried pairings and restarts interleave
\* (security.py:25-30: GCM with a repeated nonce leaks plaintexts).
NonceNeverReused ==
  \A b1, b2 \in boxes :
    b1.key = b2.key /\ NonceOf(b1) = NonceOf(b2) => b1 = b2

\* A client that finished its key exchange holds the key the Pi has for that
\* session, also after a repeated exchange request or a late reply
\* (_handle_dh_request refuses a second exchange).
KeyAgreement ==
  \A l \in Link : link[l].key # None => session_states[link[l].sid].key = link[l].key

\* The Pi hands the local API exactly a prefix of what the adapter sealed in a
\* session, in that order, each line at most once, whatever the relay loses,
\* reorders or repeats; a body that did not open is never among them.
Channel == INSTANCE OrderedDelivery
             WITH Session <- Sid, Body <- Msg, sent <- sealed, delivered <- forwarded

DeliversInOrder == Channel!Spec

\* "An adapter reads the game chat and sends each line to the Pi": a line the
\* adapter posted over a working connection is eventually handed to the API.
PostedLineArrives ==
  \A m \in Msg :
    (\E q \in requests : q.kind = "forward" /\ q.msg = m)
      ~> (\E s \in Sid : \E i \in 1..Len(forwarded[s]) : forwarded[s][i] = m)
=============================================================================
