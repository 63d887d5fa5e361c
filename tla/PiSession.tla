------------------------------ MODULE PiSession ------------------------------
(***************************************************************************)
(* The home Pi's end of the sealed channel: ProxyAgent's handlers for      *)
(* pairing, key exchange, forwarded requests and live sockets              *)
(* (backend/services/proxy_agent.py) over the sealing functions of         *)
(* shared/services/security.py.  The relay between the Pi and its clients  *)
(* is only a medium here: it may delay, reorder and lose, and with "replay" *)
(* among Faults deliver a request again.                                   *)
(*                                                                         *)
(* The clients live in modules that extend this one (AdapterChannel,       *)
(* BrowserChannel).                                                        *)
(***************************************************************************)
EXTENDS Naturals, Sequences

CONSTANTS
  Sid,           \* session ids that ProxyState.new_session_id can draw
  Link,          \* pairings; each one picks its own DH private value
  Msg,           \* client requests, one HTTP exchange each; also their plaintexts
  Task,          \* handler invocations of the Pi; also the plaintexts it seals
  OutboundBase,  \* OUTBOUND_SEQUENCE_BASE
  Faults,        \* faults of the environment: "replay", "restart"
  None

Key == [client : Link, server : Task]    \* the two DH private values

ASSUME BaseAssumption == OutboundBase \in Nat
ASSUME FaultsAssumption == Faults \subseteq {"replay", "restart"}
ASSUME PlaintextAssumption == Msg \cap Task = {}
ASSUME NoneAssumption == None \notin Msg \cup Task \cup Sid \cup Link \cup Key

VARIABLES
  session_states,  \* per session: status, expected sequence, out_sequence, key
  requests,        \* requests the relay holds for the Pi
  replies,         \* keys and boxes the Pi sent; a lost one is never taken
  calling,         \* forwarded requests whose call of the local API is pending
  listening,       \* sessions with a live socket to the local API
  spent,           \* invocations already used
  boxes,           \* history: every box sealed by either end
  forwarded        \* history: bodies handed to the local API, per session;
                   \* None is a body that did not open

piVars == <<session_states, requests, replies, calling, listening, spent,
            boxes, forwarded>>

-----------------------------------------------------------------------------
(* shared/services/security.py.  A nonce is the set of symbols XORed into it. *)

Box == [key : Key, sid : Sid, seq : Nat, body : Msg \cup Task]

nonce_base(key) == {<<"nonce", key>>}

xor_nonce(base, sequence) ==
  LET s == {<<"seq", sequence>>} IN (base \ s) \cup (s \ base)

encrypt_message(key, sid, sequence, plaintext) ==
  [key |-> key, sid |-> sid, seq |-> sequence, body |-> plaintext]

\* the nonce a box was sealed under, sent beside its ciphertext
NonceOf(box) == xor_nonce(nonce_base(box.key), box.seq)

\* decrypt_message succeeds: same key, same nonce, same associated data
Opens(key, base, box, aad) ==
  /\ box.key = key
  /\ xor_nonce(base, box.seq) = NonceOf(box)
  /\ aad = <<box.sid, box.seq>>

SessionState ==
  [status : {"none", "authenticated", "SUCCESS", "lost"},
   sequence : Nat, out_sequence : Nat, key : Key \cup {None}]

\* Mutant: the Pi counts from 0 as its clients do.
NewSessionFromZero(status) ==
  [status |-> status, sequence |-> 1, out_sequence |-> 0, key |-> None]

NewSession(status) ==
  [status |-> status, sequence |-> 1, out_sequence |-> OutboundBase, key |-> None]

\* session_states.get(sid) is not None
Known(s) == session_states[s].status \in {"authenticated", "SUCCESS"}

\* Mutant: seal before counting up.
SealedBoxUncounted(s, plaintext) ==
  encrypt_message(session_states[s].key, s, session_states[s].out_sequence, plaintext)

SealedBox(s, plaintext) ==
  encrypt_message(session_states[s].key, s, session_states[s].out_sequence + 1,
                  plaintext)

\* seal_outbound: count up, then encrypt
seal_outbound(s, plaintext) ==
  /\ session_states' = [session_states EXCEPT ![s].out_sequence = @ + 1]
  /\ boxes' = boxes \cup {SealedBox(s, plaintext)}

-----------------------------------------------------------------------------
Request ==
       [kind : {"associate"}, link : Link]
  \cup [kind : {"exchange"}, link : Link, sid : Sid]
  \cup [kind : {"forward"}, msg : Msg, sid : Sid, box : Box \cup {None}]
  \cup [kind : {"open"}, sid : Sid]

\* An answer that carries neither keys nor a box changes nothing at a client
\* (it gives up, as it does on a timeout) and leaves no record here.
Reply ==
       [kind : {"associated"}, link : Link, sid : Sid]
  \cup [kind : {"exchanged"}, link : Link, sid : Sid, server : Task]
  \cup [kind : {"answer"}, msg : Msg, box : Box]
  \cup [kind : {"frame"}, sid : Sid, box : Box]

Call == [task : Task, sid : Sid, msg : Msg]

PiTypeOK ==
  /\ session_states \in [Sid -> SessionState]
  /\ requests \subseteq Request
  /\ replies \subseteq Reply
  /\ calling \subseteq Call
  /\ listening \subseteq Sid
  /\ spent \subseteq Task
  /\ boxes \subseteq Box
  /\ forwarded \in [Sid -> Seq(Msg \cup Task \cup {None})]

PiInit ==
  /\ session_states = [s \in Sid |-> NewSession("none")]
  /\ requests = {}
  /\ replies = {}
  /\ calling = {}
  /\ listening = {}
  /\ spent = {}
  /\ boxes = {}
  /\ forwarded = [s \in Sid |-> <<>>]

-----------------------------------------------------------------------------
(* The relay.  A request it loses is one the Pi never takes. *)

Take(q) ==
  /\ q \in requests
  /\ requests' = IF "replay" \in Faults THEN requests ELSE requests \ {q}

Respond(r) == replies' = replies \cup {r}

-----------------------------------------------------------------------------
(* Pairing: _handle_associate_request and _handle_dh_request. *)

Associate(q) ==
  /\ Take(q)
  /\ q.kind = "associate"
  /\ \E s \in Sid :
       /\ session_states[s].status = "none"
       /\ session_states' = [session_states EXCEPT ![s] = NewSession("authenticated")]
       /\ Respond([kind |-> "associated", link |-> q.link, sid |-> s])
  /\ UNCHANGED <<calling, listening, spent, boxes, forwarded>>

\* "Invalid password code": mistyped, or renewed since
RefuseAssociate(q) ==
  /\ Take(q)
  /\ q.kind = "associate"
  /\ UNCHANGED <<session_states, replies, calling, listening, spent, boxes, forwarded>>

\* Mutant: any known session may exchange keys again.
ExchangeAgain(q, t) ==
  /\ Take(q)
  /\ q.kind = "exchange"
  /\ Known(q.sid)
  /\ t \notin spent
  /\ spent' = spent \cup {t}
  /\ session_states' = [session_states EXCEPT ![q.sid] =
       [@ EXCEPT !.key = [client |-> q.link, server |-> t], !.status = "SUCCESS"]]
  /\ Respond([kind |-> "exchanged", link |-> q.link, sid |-> q.sid, server |-> t])
  /\ UNCHANGED <<calling, listening, boxes, forwarded>>

Exchange(q, t) ==
  /\ Take(q)
  /\ q.kind = "exchange"
  /\ session_states[q.sid].status = "authenticated"
  /\ t \notin spent
  /\ spent' = spent \cup {t}
  /\ session_states' = [session_states EXCEPT ![q.sid] =
       [@ EXCEPT !.key = [client |-> q.link, server |-> t], !.status = "SUCCESS"]]
  /\ Respond([kind |-> "exchanged", link |-> q.link, sid |-> q.sid, server |-> t])
  /\ UNCHANGED <<calling, listening, boxes, forwarded>>

\* "Session not authenticated": unknown, or its keys are set already
RefuseExchange(q) ==
  /\ Take(q)
  /\ q.kind = "exchange"
  /\ session_states[q.sid].status # "authenticated"
  /\ UNCHANGED <<session_states, replies, calling, listening, spent, boxes, forwarded>>

-----------------------------------------------------------------------------
(* Forwarded requests: _handle_forward_request.  The sequence check, the   *)
(* decryption and the increment run without a suspension; the call of the  *)
(* local API is awaited, so calls finish in any order.                     *)

\* Mutant: only numbers still to come are refused.
OutOfSequenceAhead(q) ==
  q.box # None /\ q.box.seq > session_states[q.sid].sequence

OutOfSequence(q) ==
  q.box # None /\ q.box.seq # session_states[q.sid].sequence

\* An unknown session fails the handler's assertion, which answers nothing;
\* a wrong sequence number or missing keys are answered with status 400.
RefuseForward(q) ==
  /\ Take(q)
  /\ q.kind = "forward"
  /\ ~Known(q.sid) \/ OutOfSequence(q) \/ session_states[q.sid].key = None
  /\ UNCHANGED <<session_states, replies, calling, listening, spent, boxes, forwarded>>

OpensHere(q) ==
  LET st == session_states[q.sid]
  IN Opens(st.key, nonce_base(st.key), q.box, <<q.sid, st.sequence>>)

\* a body that does not open is only logged: the ciphertext is forwarded
OpenedBody(q) == IF OpensHere(q) THEN q.box.body ELSE None

\* Mutant: the number just taken is kept as the one expected next.
ForwardUncounted(q, t) ==
  /\ Take(q)
  /\ q.kind = "forward"
  /\ Known(q.sid)
  /\ session_states[q.sid].key # None
  /\ ~OutOfSequence(q)
  /\ t \notin spent
  /\ spent' = spent \cup {t}
  /\ calling' = calling \cup {[task |-> t, sid |-> q.sid, msg |-> q.msg]}
  /\ IF q.box = None
       THEN UNCHANGED <<session_states, forwarded>>
       ELSE /\ session_states' = [session_states EXCEPT ![q.sid].sequence = q.box.seq]
            /\ forwarded' = [forwarded EXCEPT ![q.sid] = Append(@, OpenedBody(q))]
  /\ UNCHANGED <<replies, listening, boxes>>

Forward(q, t) ==
  /\ Take(q)
  /\ q.kind = "forward"
  /\ Known(q.sid)
  /\ session_states[q.sid].key # None
  /\ ~OutOfSequence(q)
  /\ t \notin spent
  /\ spent' = spent \cup {t}
  /\ calling' = calling \cup {[task |-> t, sid |-> q.sid, msg |-> q.msg]}
  /\ IF q.box = None
       THEN UNCHANGED <<session_states, forwarded>>
       ELSE /\ session_states' = [session_states EXCEPT ![q.sid].sequence = @ + 1]
            /\ forwarded' = [forwarded EXCEPT ![q.sid] = Append(@, OpenedBody(q))]
  /\ UNCHANGED <<replies, listening, boxes>>

\* the local API answered with content, which is sealed
Answer(c) ==
  /\ c \in calling
  /\ calling' = calling \ {c}
  /\ seal_outbound(c.sid, c.task)
  /\ Respond([kind |-> "answer", msg |-> c.msg, box |-> SealedBox(c.sid, c.task)])
  /\ UNCHANGED <<requests, listening, spent, forwarded>>

\* it answered without content, or the call failed (502)
AnswerUnsealed(c) ==
  /\ c \in calling
  /\ calling' = calling \ {c}
  /\ UNCHANGED <<session_states, requests, replies, listening, spent, boxes, forwarded>>

-----------------------------------------------------------------------------
(* Live sockets: _handle_ws_open, _ws_listen_loop, _handle_ws_close. *)

OpenSocket(q) ==
  /\ Take(q)
  /\ q.kind = "open"
  /\ listening' = IF Known(q.sid) /\ session_states[q.sid].key # None
                    THEN listening \cup {q.sid} ELSE listening
  /\ UNCHANGED <<session_states, replies, calling, spent, boxes, forwarded>>

RelayFrame(s, t) ==
  /\ s \in listening
  /\ t \notin spent
  /\ spent' = spent \cup {t}
  /\ seal_outbound(s, t)
  /\ Respond([kind |-> "frame", sid |-> s, box |-> SealedBox(s, t)])
  /\ UNCHANGED <<requests, calling, listening, forwarded>>

CloseSocket(s) ==
  /\ s \in listening
  /\ listening' = listening \ {s}
  /\ UNCHANGED <<session_states, requests, replies, calling, spent, boxes, forwarded>>

-----------------------------------------------------------------------------
\* Sessions live only in the agent's memory: a restart forgets them all.
Restart ==
  /\ "restart" \in Faults
  /\ \E s \in Sid : Known(s)
  /\ session_states' = [s \in Sid |->
       IF Known(s) THEN [session_states[s] EXCEPT !.status = "lost"]
                   ELSE session_states[s]]
  /\ calling' = {}
  /\ listening' = {}
  /\ UNCHANGED <<requests, replies, spent, boxes, forwarded>>

PiHandles ==
  \/ \E q \in requests :
       \/ Associate(q)
       \/ RefuseAssociate(q)
       \/ RefuseExchange(q)
       \/ RefuseForward(q)
       \/ OpenSocket(q)
       \/ \E t \in Task : Exchange(q, t) \/ Forward(q, t)
  \/ \E c \in calling : Answer(c) \/ AnswerUnsealed(c)

PiNext ==
  \/ PiHandles
  \/ \E s \in Sid : CloseSocket(s) \/ \E t \in Task : RelayFrame(s, t)
  \/ Restart
=============================================================================
