--------------------------- MODULE ProxyRelayProofs ---------------------------
(***************************************************************************)
(* The relay for any number of homes, sockets, calls and live connections: *)
(* types, the separation of homes, the table of pending requests, and that *)
(* the relay implements RequestReply.                                      *)
(***************************************************************************)
EXTENDS ProxyRelay, TLAPS

USE NoneAssumption

-----------------------------------------------------------------------------
(* The inductive invariant. *)

\* A socket or live connection in use has a home, requests go down a socket of
\* their home, and messages only travel on sockets in use.
SocketsOwned ==
  /\ \A w \in Socket : stream[w].pc = "unused" <=> stream[w].server = None
  /\ \A s \in Server : server_map[s] # None => stream[server_map[s]].server = s
  /\ \A m \in down : stream[m.socket].server # None
  /\ \A k \in Live : live[k].pc \in {"opening", "open"} => live[k].server # None

DrawnBy(sid, s) == s \in Server /\ minted[sid] = s

\* What a call and its future say is about its home; it is carried out only
\* after it was sent, and answered only after it was carried out.
CallsOwned ==
  \A c \in Call :
    /\ call[c].pc = "sending" => /\ call[c].socket \in Socket
                                 /\ stream[call[c].socket].server = call[c].server
                                 /\ call[c].server # None
    /\ call[c].pc \in {"idle", "sending"} => c \notin served
    /\ call[c].pc = "answered" => c \in served
    /\ call[c].sid # None => DrawnBy(call[c].sid, call[c].server)
    /\ call[c].future # None =>
         /\ c \in served
         /\ call[c].future.sid # None => DrawnBy(call[c].future.sid, call[c].server)

\* A message is about something that began; an answer comes from its call's
\* home, and follows its being carried out.
MessagesOwned ==
  /\ \A m \in down :
       IF m.kind = "request"
         THEN /\ call[m.call].pc \notin {"idle", "sending"}
              /\ m.call \in pending_requests => call[m.call].pc = "waiting"
         ELSE live[m.live].pc # "idle"
  /\ \A m \in up : m.kind = "answer" =>
       /\ m.call \in served
       /\ m.sid # None => DrawnBy(m.sid, call[m.call].server)

RelayInv ==
  /\ TypeOK
  /\ SocketsOwned
  /\ CallsOwned
  /\ MessagesOwned
  /\ HomesSeparate
  /\ TableMatchesCalls

LEMMA RelayInitInv == Init => RelayInv
<1>. SUFFICES ASSUME Init PROVE RelayInv
  OBVIOUS
<1>1. TypeOK
  BY DEF Init, TypeOK, CallState
<1>2. SocketsOwned /\ CallsOwned /\ MessagesOwned /\ HomesSeparate /\ TableMatchesCalls
  BY DEF Init, SocketsOwned, CallsOwned, MessagesOwned, HomesSeparate, TableMatchesCalls
<1>. QED
  BY <1>1, <1>2 DEF RelayInv

\* updates of a call keep its type
LEMMA CallStateUpdates ==
  ASSUME NEW r \in CallState, NEW f \in Answers \cup {None},
         NEW pc \in {"idle", "sending", "waiting", "answered", "failed"}
  PROVE  /\ [r EXCEPT !.pc = pc] \in CallState
         /\ [r EXCEPT !.future = f] \in CallState
         /\ [r EXCEPT !.pc = pc, !.future = f] \in CallState
         /\ r.future = f => [r EXCEPT !.pc = pc] = [r EXCEPT !.pc = pc, !.future = f]
  BY DEF CallState

\* messages of each direction, by kind
LEMMA MessageTypes ==
  ASSUME TypeOK
  PROVE  /\ \A m \in down : m.socket \in Socket /\ m.kind \in {"request", "open", "close"}
         /\ \A m \in down : IF m.kind = "request" THEN m.call \in Call ELSE m.live \in Live
         /\ \A m \in up : m.socket \in Socket /\ m.kind \in {"answer", "close"}
         /\ \A m \in up : IF m.kind = "answer" THEN m.call \in Call /\ m.sid \in Sid \cup {None}
                          ELSE m.live \in Live
BY DEF TypeOK, Down, Up

-----------------------------------------------------------------------------
(* Sockets.  A step that dials one, ends one or loses one. *)

\* no socket changes hands
DiallersKept ==
  \A w \in Socket : stream[w].server # None => stream'[w].server = stream[w].server

LEMMA SocketStepKeepsInv ==
  ASSUME RelayInv, TypeOK', SocketsOwned', DiallersKept, lost \subseteq lost',
         up' \subseteq up,
         UNCHANGED <<callVars, live, down, minted, served>>
  PROVE  RelayInv'
<1>. USE DEF RelayInv, callVars
<1>1. CallsOwned'
  BY DEF CallsOwned, DiallersKept, DrawnBy
<1>2. MessagesOwned'
  BY DEF MessagesOwned, DrawnBy
<1>3. HomesSeparate'
  BY MessageTypes DEF HomesSeparate, SocketsOwned, DiallersKept
<1>4. TableMatchesCalls'
  BY DEF TableMatchesCalls
<1>. QED
  BY <1>1, <1>2, <1>3, <1>4

\* the finally of a stream handler
LEMMA CleanUpKeeps ==
  ASSUME RelayInv, NEW w \in Socket, stream[w].pc = "registered", CleanUp(w),
         UNCHANGED <<down, live>>
  PROVE  /\ stream' \in [Socket -> [pc : {"unused", "accepted", "registered", "ended"},
                                    server : Server \cup {None}]]
         /\ server_map' \in [Server -> Socket \cup {None}]
         /\ SocketsOwned'
         /\ DiallersKept
<1>. USE DEF RelayInv, TypeOK, CleanUp
<1>1. stream' \in [Socket -> [pc : {"unused", "accepted", "registered", "ended"},
                              server : Server \cup {None}]]
  OBVIOUS
<1>2. server_map' \in [Server -> Socket \cup {None}]
  OBVIOUS
<1>3. \A x \in Socket : stream'[x].server = stream[x].server
  OBVIOUS
<1>4. \A s \in Server : server_map'[s] # None => server_map'[s] = server_map[s]
  OBVIOUS
<1>5. SocketsOwned'
  <2>1. \A x \in Socket : stream'[x].pc = "unused" <=> stream'[x].server = None
    BY <1>3 DEF SocketsOwned
  <2>2. \A s \in Server : server_map'[s] # None => stream'[server_map'[s]].server = s
    BY <1>3, <1>4 DEF SocketsOwned
  <2>3. \A m \in down : stream'[m.socket].server # None
    BY <1>3, MessageTypes DEF SocketsOwned
  <2>. QED
    BY <2>1, <2>2, <2>3 DEF SocketsOwned
<1>. QED
  BY <1>1, <1>2, <1>3, <1>5 DEF DiallersKept

LEMMA StreamStepKeepsInv ==
  ASSUME RelayInv, StreamNext
  PROVE  RelayInv'
<1>. USE DEF streamRest, callVars, liveVars
<1>1. ASSUME NEW w \in Socket, NEW s \in Server, Accept(w, s) PROVE RelayInv'
  <2>1. TypeOK'
    BY <1>1 DEF Accept, RelayInv, TypeOK
  <2>2. stream[w].server = None
    BY <1>1 DEF Accept, RelayInv, SocketsOwned
  <2>3. DiallersKept
    BY <1>1, <2>2 DEF Accept, RelayInv, TypeOK, DiallersKept
  <2>4. SocketsOwned'
    BY <1>1, <2>2, <2>3, MessageTypes DEF Accept, RelayInv, TypeOK, SocketsOwned, DiallersKept
  <2>. QED
    BY <1>1, <2>1, <2>3, <2>4, SocketStepKeepsInv DEF Accept
<1>2. ASSUME NEW w \in Socket, RejectAuth(w) PROVE RelayInv'
  <2>1. TypeOK'
    BY <1>2 DEF RejectAuth, RelayInv, TypeOK
  <2>2. \A x \in Socket : /\ stream'[x].server = stream[x].server
                          /\ stream'[x].pc = "unused" <=> stream[x].pc = "unused"
    BY <1>2 DEF RejectAuth, RelayInv, TypeOK
  <2>3. SocketsOwned' /\ DiallersKept
    BY <1>2, <2>2, MessageTypes DEF RejectAuth, RelayInv, TypeOK, SocketsOwned, DiallersKept
  <2>. QED
    BY <1>2, <2>1, <2>3, SocketStepKeepsInv DEF RejectAuth
<1>3. ASSUME NEW w \in Socket, Register(w) PROVE RelayInv'
  <2>. stream \in [Socket -> [pc : {"unused", "accepted", "registered", "ended"},
                              server : Server \cup {None}]]
    BY DEF RelayInv, TypeOK
  <2>1. \A x \in Socket : /\ stream'[x].server = stream[x].server
                          /\ stream'[x].pc = "unused" <=> stream[x].pc = "unused"
    BY <1>3 DEF Register
  <2>2. stream[w].server \in Server
    BY <1>3 DEF Register, RelayInv, TypeOK, SocketsOwned
  <2>3. \A s \in Server : server_map'[s] = IF s = stream[w].server THEN w ELSE server_map[s]
    BY <1>3, <2>2 DEF Register, RelayInv, TypeOK
  <2>4. server_map' \in [Server -> Socket \cup {None}]
    BY <1>3, <2>2 DEF Register, RelayInv, TypeOK
  <2>5. stream' \in [Socket -> [pc : {"unused", "accepted", "registered", "ended"},
                                server : Server \cup {None}]]
    BY <1>3 DEF Register
  <2>6. TypeOK'
    BY <1>3, <2>4, <2>5 DEF Register, RelayInv, TypeOK
  <2>7. SocketsOwned'
    <3>1. \A s \in Server : server_map'[s] # None => stream'[server_map'[s]].server = s
      BY <2>1, <2>3 DEF RelayInv, TypeOK, SocketsOwned
    <3>. QED
      BY <1>3, <2>1, <3>1, MessageTypes DEF Register, RelayInv, SocketsOwned
  <2>8. DiallersKept
    BY <2>1 DEF DiallersKept
  <2>. QED
    BY <1>3, <2>6, <2>7, <2>8, SocketStepKeepsInv DEF Register
<1>4. ASSUME NEW w \in Socket, LoseSocket(w) PROVE RelayInv'
  <2>1. TypeOK' /\ SocketsOwned' /\ DiallersKept
    BY <1>4 DEF LoseSocket, RelayInv, TypeOK, SocketsOwned, DiallersKept
  <2>. QED
    BY <1>4, <2>1, SocketStepKeepsInv DEF LoseSocket
<1>5. ASSUME NEW w \in Socket, StreamEnds(w) PROVE RelayInv'
  <2>1. TypeOK' /\ SocketsOwned' /\ DiallersKept
    BY <1>5, CleanUpKeeps DEF StreamEnds, RelayInv, TypeOK
  <2>. QED
    BY <1>5, <2>1, SocketStepKeepsInv DEF StreamEnds
<1>. QED
  BY <1>1, <1>2, <1>3, <1>4, <1>5 DEF StreamNext

-----------------------------------------------------------------------------
(* Calls. *)

LEMMA BeginKeepsInv ==
  ASSUME RelayInv, NEW c \in Call, NEW s \in Server, NEW sid \in Sid \cup {None},
         Begin(c, s, sid), sid # None => DrawnBy(sid, s)
  PROVE  RelayInv'
<1>. USE DEF RelayInv, Begin, callRest, liveVars
<1>1. /\ call[c].pc = "idle" /\ c \notin served
      /\ server_map[s] \in Socket /\ stream[server_map[s]].server = s
  BY DEF TypeOK, SocketsOwned, CallsOwned
<1>2. [pc |-> "sending", server |-> s, sid |-> sid, socket |-> server_map[s],
       future |-> None] \in CallState
  BY <1>1 DEF CallState
<1>3. call' \in [Call -> CallState]
  BY <1>2 DEF TypeOK
<1>4. TypeOK'
  BY <1>3 DEF TypeOK
<1>5. /\ call'[c].pc = "sending" /\ call'[c].server = s /\ call'[c].sid = sid
      /\ call'[c].socket = server_map[s] /\ call'[c].future = None
  BY DEF TypeOK
<1>6. \A d \in Call \ {c} : call'[d] = call[d]
  BY DEF TypeOK
<1>7. SocketsOwned'
  BY DEF SocketsOwned
<1>8. CallsOwned'
  BY <1>1, <1>5, <1>6 DEF CallsOwned, DrawnBy
<1>9. \A m \in down : m.kind = "request" => m.call # c
  BY <1>1 DEF MessagesOwned
<1>10. MessagesOwned'
  <2>1. \A m \in up : m.kind = "answer" => m.call # c
    BY <1>1 DEF MessagesOwned
  <2>. QED
    BY <1>6, <1>9, <2>1, MessageTypes DEF MessagesOwned, DrawnBy
<1>11. HomesSeparate'
  BY <1>5, <1>6, <1>9, MessageTypes DEF HomesSeparate, DrawnBy
<1>12. TableMatchesCalls'
  BY <1>5, <1>6 DEF TableMatchesCalls
<1>. QED
  BY <1>4, <1>7, <1>8, <1>10, <1>11, <1>12

\* A step of one call that changes only its progress, drops its future, and
\* takes no other call out of the table.
LEMMA CallEndKeepsInv ==
  ASSUME RelayInv, NEW c \in Call, NEW pc \in {"answered", "failed"},
         call' = [call EXCEPT ![c] = [call[c] EXCEPT !.pc = pc, !.future = None]],
         pc = "answered" => c \in served,
         \/ pending_requests' = pending_requests \ {c}
         \/ /\ pending_requests' = pending_requests
            /\ pc = "failed" /\ call[c].pc = "sending" /\ call[c].socket \in lost,
         pending_requests' = pending_requests =>
           \/ c \notin pending_requests
           \/ \A m \in down : m.kind = "request" => m.call # c,
         UNCHANGED <<down, callRest>>,
         session_map' \in [Sid -> Server \cup {None}],
         \A s \in Sid : session_map'[s] # None => minted[s] = session_map'[s]
  PROVE  RelayInv'
<1>. USE DEF RelayInv, callRest, liveVars
<1>1. /\ call'[c].pc = pc /\ call'[c].server = call[c].server
      /\ call'[c].sid = call[c].sid /\ call'[c].socket = call[c].socket
      /\ call'[c].future = None
  BY DEF TypeOK, CallState
<1>2. \A d \in Call \ {c} : call'[d] = call[d]
  BY DEF TypeOK
<1>3. TypeOK'
  <2>1. [call[c] EXCEPT !.pc = pc, !.future = None] \in CallState
    <3>1. call[c] \in CallState
      BY DEF TypeOK
    <3>. QED
      BY <3>1, CallStateUpdates
  <2>2. call' \in [Call -> CallState]
    BY <2>1 DEF TypeOK
  <2>. QED
    BY <2>2 DEF TypeOK
<1>4. SocketsOwned'
  BY DEF SocketsOwned
<1>5. CallsOwned'
  BY <1>1, <1>2 DEF CallsOwned, DrawnBy
<1>6. MessagesOwned'
  BY <1>1, <1>2, MessageTypes DEF MessagesOwned, DrawnBy
<1>7. HomesSeparate'
  BY <1>1, <1>2, MessageTypes DEF HomesSeparate
<1>8. TableMatchesCalls'
  BY <1>1, <1>2 DEF TableMatchesCalls, CallsOwned
<1>. QED
  BY <1>3, <1>4, <1>5, <1>6, <1>7, <1>8

LEMMA SentKeepsInv ==
  ASSUME RelayInv, NEW c \in Call, Sent(c)
  PROVE  RelayInv'
<1>. DEFINE w == call[c].socket
            q == [kind |-> "request", socket |-> w, call |-> c]
<1>. USE DEF RelayInv, Sent, callRest, liveVars
<1>1. /\ w \in Socket /\ stream[w].server = call[c].server /\ stream[w].server # None
      /\ c \notin served /\ c \in pending_requests
  BY DEF CallsOwned, TableMatchesCalls
<1>2. /\ call'[c].pc = "waiting" /\ call'[c].server = call[c].server
      /\ call'[c].sid = call[c].sid /\ call'[c].socket = w
      /\ call'[c].future = call[c].future
  BY DEF TypeOK, CallState
<1>3. \A d \in Call \ {c} : call'[d] = call[d]
  BY DEF TypeOK
<1>4. \A m \in down' : m \in down \/ m = q
  BY DEF Carried
<1>5. TypeOK'
  <2>1. q \in Down
    BY <1>1 DEF Down
  <2>2. down' \subseteq Down
    BY <1>4, <2>1 DEF TypeOK
  <2>3. [call[c] EXCEPT !.pc = "waiting"] \in CallState
    <3>1. call[c] \in CallState
      BY DEF TypeOK
    <3>. QED
      BY <3>1, CallStateUpdates
  <2>4. call' \in [Call -> CallState]
    BY <2>3 DEF TypeOK
  <2>. QED
    BY <2>2, <2>4 DEF TypeOK
<1>6. SocketsOwned'
  BY <1>1, <1>4 DEF SocketsOwned
<1>7. CallsOwned'
  BY <1>2, <1>3 DEF CallsOwned, DrawnBy
<1>8. MessagesOwned'
  BY <1>2, <1>3, <1>4, MessageTypes DEF MessagesOwned, DrawnBy
<1>9. HomesSeparate'
  BY <1>1, <1>2, <1>3, <1>4, MessageTypes DEF HomesSeparate
<1>10. TableMatchesCalls'
  BY <1>1, <1>2, <1>3 DEF TableMatchesCalls
<1>. QED
  BY <1>5, <1>6, <1>7, <1>8, <1>9, <1>10

\* An answer finds a call in the table only while that call waits: what else
\* is in the table was never carried out.
LEMMA ResolveKeepsInv ==
  ASSUME RelayInv, NEW m \in up, Resolve(m)
  PROVE  RelayInv'
<1>. USE DEF RelayInv, Resolve, liveVars
<1>1. /\ m.kind = "answer" /\ m.call \in Call /\ m.sid \in Sid \cup {None}
      /\ m.call \in served
      /\ m.sid # None => DrawnBy(m.sid, call[m.call].server)
  BY MessageTypes DEF MessagesOwned
<1>2. [call |-> m.call, sid |-> m.sid] \in Answers
  BY <1>1 DEF Answers
<1>3. \A d \in Call :
        /\ call'[d].pc = call[d].pc /\ call'[d].server = call[d].server
        /\ call'[d].sid = call[d].sid /\ call'[d].socket = call[d].socket
        /\ \/ call'[d].future = call[d].future
           \/ d = m.call /\ call'[d].future = [call |-> m.call, sid |-> m.sid]
  BY <1>1 DEF TypeOK, CallState
<1>4. TypeOK'
  <2>1. call' \in [Call -> CallState]
    <3>1. [call[m.call] EXCEPT !.future = [call |-> m.call, sid |-> m.sid]] \in CallState
      <4>1. call[m.call] \in CallState
        BY <1>1 DEF TypeOK
      <4>. QED
        BY <1>2, <4>1, CallStateUpdates
    <3>. QED
      BY <1>1, <3>1 DEF TypeOK
  <2>. QED
    BY <2>1 DEF TypeOK
<1>5. SocketsOwned'
  BY DEF SocketsOwned
<1>6. CallsOwned'
  BY <1>1, <1>3 DEF CallsOwned, DrawnBy
<1>7. MessagesOwned'
  BY <1>3, MessageTypes DEF MessagesOwned, DrawnBy
<1>8. HomesSeparate'
  BY <1>3, MessageTypes DEF HomesSeparate
<1>9. TableMatchesCalls'
  BY <1>3 DEF TableMatchesCalls
<1>. QED
  BY <1>4, <1>5, <1>6, <1>7, <1>8, <1>9

LEMMA CallStepKeepsInv ==
  ASSUME RelayInv, CallNext
  PROVE  RelayInv'
<1>1. ASSUME NEW c \in Call, NEW s \in Server, Associate(c, s) PROVE RelayInv'
  BY <1>1, BeginKeepsInv DEF Associate
<1>2. ASSUME NEW c \in Call, NEW sid \in Sid, Route(c, sid) PROVE RelayInv'
  <2>1. session_map[sid] \in Server /\ DrawnBy(sid, session_map[sid])
    BY <1>2 DEF Route, RelayInv, TypeOK, HomesSeparate, DrawnBy
  <2>. QED
    BY <1>2, <2>1, BeginKeepsInv DEF Route
<1>3. \A c \in Call : call[c] \in CallState
  BY DEF RelayInv, TypeOK
<1>4. \A c \in Call : call[c].pc \in {"idle", "sending"} =>
        /\ call[c].future = None
        /\ \A m \in down : m.kind = "request" => m.call # c
  BY DEF RelayInv, CallsOwned, MessagesOwned
<1>5. session_map \in [Sid -> Server \cup {None}]
  BY DEF RelayInv, TypeOK
<1>6. \A s \in Sid : session_map[s] # None => minted[s] = session_map[s]
  BY DEF RelayInv, HomesSeparate
<1>7. ASSUME NEW c \in Call, Refuse(c) PROVE RelayInv'
  <2>1. call' = [call EXCEPT ![c] = [call[c] EXCEPT !.pc = "failed", !.future = None]]
    <3>1. call[c] \in CallState /\ call[c].future = None
      BY <1>3, <1>4, <1>7 DEF Refuse
    <3>2. [call[c] EXCEPT !.pc = "failed"] = [call[c] EXCEPT !.pc = "failed", !.future = None]
      BY <3>1, CallStateUpdates
    <3>. QED
      BY <1>7, <3>2 DEF Refuse
  <2>2. c \notin pending_requests
    BY <1>7 DEF Refuse, RelayInv, TableMatchesCalls
  <2>3. pending_requests' = pending_requests \ {c}
    BY <1>7, <2>2 DEF Refuse
  <2>. QED
    BY <1>5, <1>6, <1>7, <2>1, <2>2, <2>3, CallEndKeepsInv DEF Refuse
<1>8. ASSUME NEW c \in Call, Sent(c) PROVE RelayInv'
  BY <1>8, SentKeepsInv
<1>9. ASSUME NEW c \in Call, SendFails(c) PROVE RelayInv'
  <2>1. call' = [call EXCEPT ![c] = [call[c] EXCEPT !.pc = "failed", !.future = None]]
    <3>1. call[c] \in CallState /\ call[c].future = None
      BY <1>3, <1>4, <1>9 DEF SendFails
    <3>2. [call[c] EXCEPT !.pc = "failed"] = [call[c] EXCEPT !.pc = "failed", !.future = None]
      BY <3>1, CallStateUpdates
    <3>. QED
      BY <1>9, <3>2 DEF SendFails
  <2>. QED
    BY <1>4, <1>5, <1>6, <1>9, <2>1, CallEndKeepsInv DEF SendFails
<1>10. ASSUME NEW c \in Call, Return(c) PROVE RelayInv'
  <2>1. call' = [call EXCEPT ![c] = [call[c] EXCEPT !.pc = "answered", !.future = None]]
    BY <1>10 DEF Return
  <2>2. c \in served
    BY <1>10 DEF Return, RelayInv, CallsOwned
  <2>3. call[c].future.sid # None => DrawnBy(call[c].future.sid, call[c].server)
    BY <1>10 DEF Return, RelayInv, CallsOwned
  <2>4. session_map' \in [Sid -> Server \cup {None}]
    BY <1>3, <1>5, <1>10 DEF Return, CallState
  <2>5. \A s \in Sid : session_map'[s] # None => minted[s] = session_map'[s]
    BY <1>5, <1>6, <1>10, <2>3 DEF Return, DrawnBy
  <2>6. c \in pending_requests
    BY <1>10 DEF Return, RelayInv, TableMatchesCalls
  <2>. QED
    BY <1>10, <2>1, <2>2, <2>4, <2>5, <2>6, CallEndKeepsInv DEF Return
<1>11. ASSUME NEW c \in Call, TimeOut(c) PROVE RelayInv'
  <2>1. call' = [call EXCEPT ![c] = [call[c] EXCEPT !.pc = "failed", !.future = None]]
    BY <1>11 DEF TimeOut
  <2>2. c \in pending_requests
    BY <1>11 DEF TimeOut, RelayInv, TableMatchesCalls
  <2>. QED
    BY <1>5, <1>6, <1>11, <2>1, <2>2, CallEndKeepsInv DEF TimeOut
<1>12. ASSUME NEW m \in up, Resolve(m) PROVE RelayInv'
  BY <1>12, ResolveKeepsInv
<1>13. ASSUME NEW sid \in Sid, Expire(sid) PROVE RelayInv'
  <2>. USE DEF RelayInv, Expire, callRest, liveVars
  <2>1. TypeOK'
    BY <1>13 DEF TypeOK
  <2>2. HomesSeparate'
    BY <1>5, <1>13 DEF HomesSeparate
  <2>3. SocketsOwned' /\ CallsOwned' /\ MessagesOwned' /\ TableMatchesCalls'
    BY <1>13 DEF SocketsOwned, CallsOwned, MessagesOwned, TableMatchesCalls, DrawnBy
  <2>. QED
    BY <2>1, <2>2, <2>3
<1>. QED
  BY <1>1, <1>2, <1>7, <1>8, <1>9, <1>10, <1>11, <1>12, <1>13 DEF CallNext

-----------------------------------------------------------------------------
(* Live connections, and the homes' own steps: none changes a call. *)

\* A step that leaves calls, sockets and sessions alone and sends nothing but
\* messages about a connection that began, down a socket of its home.
LEMMA LiveStepKeepsInv ==
  ASSUME RelayInv, TypeOK',
         UNCHANGED <<stream, server_map, callVars, minted, served>>,
         lost \subseteq lost',
         \A k \in Live : live[k].pc # "idle" =>
           live'[k].pc # "idle" /\ live'[k].server = live[k].server,
         \A k \in Live : live'[k].pc \in {"opening", "open"} => live'[k].server # None,
         \A m \in down' \ down :
           /\ m.kind # "request" /\ live'[m.live].pc # "idle"
           /\ stream[m.socket].server = live'[m.live].server
           /\ stream[m.socket].server # None,
         \A m \in up' \ up : m.kind # "answer"
  PROVE  RelayInv'
<1>. USE DEF RelayInv, callVars
<1>1. SocketsOwned'
  BY DEF SocketsOwned
<1>2. CallsOwned'
  BY DEF CallsOwned, DrawnBy
<1>3. MessagesOwned'
  <2>1. \A m \in down' : IF m.kind = "request"
          THEN /\ call[m.call].pc \notin {"idle", "sending"}
               /\ m.call \in pending_requests => call[m.call].pc = "waiting"
          ELSE live'[m.live].pc # "idle"
    BY MessageTypes DEF MessagesOwned
  <2>2. \A m \in up' : m.kind = "answer" =>
          /\ m.call \in served
          /\ m.sid # None => DrawnBy(m.sid, call[m.call].server)
    BY DEF MessagesOwned
  <2>. QED
    BY <2>1, <2>2 DEF MessagesOwned, DrawnBy
<1>4. HomesSeparate'
  <2>1. ASSUME NEW m \in down'
        PROVE  stream[m.socket].server =
                 IF m.kind = "request" THEN call[m.call].server ELSE live'[m.live].server
    BY MessageTypes DEF MessagesOwned, HomesSeparate
  <2>. QED
    BY <2>1 DEF HomesSeparate
<1>5. TableMatchesCalls'
  BY DEF TableMatchesCalls
<1>. QED
  BY <1>1, <1>2, <1>3, <1>4, <1>5

LEMMA LiveNextKeepsInv ==
  ASSUME RelayInv, LiveNext
  PROVE  RelayInv'
<1>. USE DEF liveRest, callVars, liveVars
<1>1. \A k \in Live : live[k] \in [pc : {"idle", "opening", "open", "ended"},
                                   server : Server \cup {None}, socket : Socket \cup {None}]
  BY DEF RelayInv, TypeOK
<1>0. \A k \in Live : live[k].pc \in {"opening", "open"} => live[k].server # None
  BY DEF RelayInv, SocketsOwned
<1>2. ASSUME NEW k \in Live, NEW sid \in Sid, OpenLive(k, sid) PROVE RelayInv'
  <2>. DEFINE s == session_map[sid]
              w == server_map[s]
              q == [kind |-> "open", socket |-> w, live |-> k]
  <2>1. s \in Server /\ w \in Socket /\ stream[w].server = s
    BY <1>2 DEF OpenLive, RelayInv, TypeOK, SocketsOwned
  <2>2. live' = [live EXCEPT ![k] = [pc |-> "opening", server |-> s, socket |-> w]]
    BY <1>2 DEF OpenLive
  <2>3. /\ live'[k].pc = "opening" /\ live'[k].server = s
        /\ \A j \in Live \ {k} : live'[j] = live[j]
    BY <2>2 DEF RelayInv, TypeOK
  <2>4. \A m \in down' : m \in down \/ m = q
    BY <1>2 DEF OpenLive, Carried
  <2>5. TypeOK'
    <3>1. q \in Down
      BY <2>1 DEF Down
    <3>2. down' \subseteq Down
      BY <2>4, <3>1 DEF RelayInv, TypeOK
    <3>3. live' \in [Live -> [pc : {"idle", "opening", "open", "ended"},
                              server : Server \cup {None}, socket : Socket \cup {None}]]
      BY <2>1, <2>2 DEF RelayInv, TypeOK
    <3>. QED
      BY <1>2, <3>2, <3>3 DEF OpenLive, RelayInv, TypeOK
  <2>6. \A m \in down' \ down :
          /\ m.kind # "request" /\ live'[m.live].pc # "idle"
          /\ stream[m.socket].server = live'[m.live].server
          /\ stream[m.socket].server # None
    BY <2>1, <2>3, <2>4
  <2>. QED
    BY <1>2, <2>3, <2>5, <2>6, <1>0, LiveStepKeepsInv DEF OpenLive
<1>3. ASSUME NEW k \in Live, RefuseLive(k) PROVE RelayInv'
  <2>1. TypeOK'
    BY <1>3 DEF RefuseLive, RelayInv, TypeOK
  <2>2. \A j \in Live :
          /\ live[j].pc # "idle" => live'[j].pc # "idle" /\ live'[j].server = live[j].server
          /\ live'[j].pc \in {"opening", "open"} => live'[j].server # None
    BY <1>0, <1>3 DEF RefuseLive, RelayInv, TypeOK
  <2>. QED
    BY <1>3, <2>1, <2>2, <1>0, LiveStepKeepsInv DEF RefuseLive
<1>4. ASSUME NEW k \in Live, RegisterLive(k) PROVE RelayInv'
  <2>1. live' = [live EXCEPT ![k] = [live[k] EXCEPT !.pc = "open", !.socket = None]]
    BY <1>4 DEF RegisterLive
  <2>2. live' \in [Live -> [pc : {"idle", "opening", "open", "ended"},
                            server : Server \cup {None}, socket : Socket \cup {None}]]
    BY <1>1, <2>1 DEF RelayInv, TypeOK
  <2>3. TypeOK'
    BY <1>4, <2>2 DEF RegisterLive, RelayInv, TypeOK
  <2>4. \A j \in Live :
          /\ live[j].pc # "idle" => live'[j].pc # "idle" /\ live'[j].server = live[j].server
          /\ live'[j].pc \in {"opening", "open"} => live'[j].server # None
    BY <1>0, <1>1, <1>4, <2>1 DEF RegisterLive, RelayInv, TypeOK
  <2>. QED
    BY <1>4, <2>3, <2>4, <1>0, LiveStepKeepsInv DEF RegisterLive
<1>5. ASSUME NEW k \in Live, BrowserLeaves(k) PROVE RelayInv'
  <2>1. TypeOK'
    BY <1>5 DEF BrowserLeaves, RelayInv, TypeOK
  <2>. QED
    BY <1>5, <2>1, <1>0, LiveStepKeepsInv DEF BrowserLeaves
<1>6. ASSUME NEW k \in Live, LeaveLive(k) PROVE RelayInv'
  <2>. DEFINE s == live[k].server
              w == server_map[s]
              q == [kind |-> "close", socket |-> w, live |-> k]
  <2>1. \A j \in Live :
          /\ live'[j].server = live[j].server
          /\ live[j].pc # "idle" => live'[j].pc # "idle"
          /\ live'[j].pc \in {"opening", "open"} => live[j].pc \in {"opening", "open"}
    BY <1>6 DEF LeaveLive, RelayInv, TypeOK
  <2>2. live'[k].pc = "ended"
    BY <1>6 DEF LeaveLive, RelayInv, TypeOK
  <2>3. \A m \in down' : m \in down \/ (m = q /\ w # None)
    BY <1>6 DEF LeaveLive, Carried
  <2>4. s \in Server
    BY <1>1, <1>6 DEF LeaveLive, RelayInv, SocketsOwned
  <2>5. w # None => w \in Socket /\ stream[w].server = s /\ s # None
    BY <2>4 DEF RelayInv, TypeOK, SocketsOwned
  <2>6. TypeOK'
    <3>1. w # None => q \in Down
      BY <2>5 DEF Down
    <3>2. down' \subseteq Down
      BY <2>3, <3>1 DEF RelayInv, TypeOK
    <3>. QED
      BY <1>6, <3>2 DEF LeaveLive, RelayInv, TypeOK
  <2>7. \A m \in down' \ down :
          /\ m.kind # "request" /\ live'[m.live].pc # "idle"
          /\ stream[m.socket].server = live'[m.live].server
          /\ stream[m.socket].server # None
    BY <2>1, <2>2, <2>3, <2>5
  <2>. QED
    BY <1>6, <2>1, <2>6, <2>7, <1>0, LiveStepKeepsInv DEF LeaveLive
<1>7. ASSUME NEW k \in Live, LiveFails(k) PROVE RelayInv'
  <2>1. \A j \in Live :
          /\ live'[j].server = live[j].server
          /\ live[j].pc # "idle" => live'[j].pc # "idle"
          /\ live'[j].pc \in {"opening", "open"} => live[j].pc \in {"opening", "open"}
    BY <1>7 DEF LiveFails, RelayInv, TypeOK
  <2>2. TypeOK'
    BY <1>7 DEF LiveFails, RelayInv, TypeOK
  <2>. QED
    BY <1>7, <2>1, <2>2, <1>0, LiveStepKeepsInv DEF LiveFails
<1>8. ASSUME NEW k \in Live, NEW w \in Socket, FrameBreaks(w, k) PROVE RelayInv'
  <2>1. /\ SocketsOwned' /\ DiallersKept
        /\ stream' \in [Socket -> [pc : {"unused", "accepted", "registered", "ended"},
                                   server : Server \cup {None}]]
        /\ server_map' \in [Server -> Socket \cup {None}]
    BY <1>8, CleanUpKeeps DEF FrameBreaks, BreaksStream
  <2>2. TypeOK'
    BY <1>8, <2>1 DEF FrameBreaks, BreaksStream, RelayInv, TypeOK
  <2>. QED
    BY <1>8, <2>1, <2>2, SocketStepKeepsInv DEF FrameBreaks, BreaksStream
<1>9. ASSUME NEW m \in up, CloseLive(m) PROVE RelayInv'
  <2>1. m.socket \in Socket /\ m.live \in Live /\ stream[m.socket].pc = "registered"
    BY <1>9, MessageTypes DEF CloseLive, RelayInv
  <2>2. CASE UNCHANGED <<stream, lost, server_map>>
    <3>1. TypeOK'
      BY <1>9, <2>1, <2>2 DEF CloseLive, RelayInv, TypeOK
    <3>. QED
      BY <1>9, <2>2, <3>1, <1>0, LiveStepKeepsInv DEF CloseLive
  <2>3. CASE BreaksStream(m.socket, m.live) /\ UNCHANGED <<active_ws_connections, left>>
    <3>1. /\ SocketsOwned' /\ DiallersKept
          /\ stream' \in [Socket -> [pc : {"unused", "accepted", "registered", "ended"},
                                     server : Server \cup {None}]]
          /\ server_map' \in [Server -> Socket \cup {None}]
      BY <1>9, <2>1, <2>3, CleanUpKeeps DEF CloseLive, BreaksStream
    <3>2. TypeOK'
      BY <1>9, <2>1, <2>3, <3>1 DEF CloseLive, BreaksStream, RelayInv, TypeOK
    <3>. QED
      BY <1>9, <2>3, <3>1, <3>2, SocketStepKeepsInv DEF CloseLive, BreaksStream
  <2>. QED
    BY <1>9, <2>2, <2>3 DEF CloseLive
<1>. QED
  BY <1>2, <1>3, <1>4, <1>5, <1>6, <1>7, <1>8, <1>9 DEF LiveNext

LEMMA PiAnswersKeepsInv ==
  ASSUME RelayInv, NEW m \in down, NEW w \in Socket, NEW sid \in Sid \cup {None},
         PiAnswers(m, w, sid)
  PROVE  RelayInv'
<1>. DEFINE c == m.call
            s == stream[w].server
            a == [kind |-> "answer", socket |-> w, call |-> c, sid |-> sid]
<1>. USE DEF RelayInv, PiAnswers, piRest, callVars
<1>1. /\ c \in Call /\ s \in Server /\ call[c].server = s
      /\ call[c].pc \notin {"idle", "sending"}
      /\ c \in pending_requests => call[c].pc = "waiting"
  BY MessageTypes DEF TypeOK, SocketsOwned, HomesSeparate, MessagesOwned
<1>2. \A x \in up' : x \in up \/ x = a
  BY DEF Carried
<1>3. /\ \A d \in Sid : minted[d] # None => minted'[d] = minted[d]
      /\ sid # None => sid \in Sid /\ minted'[sid] = s
  BY DEF TypeOK
<1>4. TypeOK'
  <2>1. a \in Up
    BY <1>1 DEF Up
  <2>2. up' \subseteq Up
    BY <1>2, <2>1 DEF TypeOK
  <2>3. minted' \in [Sid -> Server \cup {None}]
    BY <1>1 DEF TypeOK
  <2>4. served' \subseteq Call /\ down' \subseteq Down
    BY <1>1 DEF TypeOK
  <2>. QED
    BY <2>2, <2>3, <2>4 DEF TypeOK
<1>5. SocketsOwned'
  BY DEF SocketsOwned
<1>6. \A d \in Sid, x \in Server : DrawnBy(d, x) => DrawnBy(d, x)'
  BY <1>3 DEF DrawnBy
<1>7. CallsOwned'
  <2>1. \A d \in Call : /\ call[d].sid \in Sid \cup {None}
                        /\ call[d].future # None => call[d].future.sid \in Sid \cup {None}
    BY DEF TypeOK, CallState, Answers
  <2>. QED
    BY <1>1, <1>3, <2>1 DEF CallsOwned, DrawnBy
<1>8. MessagesOwned'
  <2>1. \A x \in down' : x \in down
    OBVIOUS
  <2>2. ASSUME NEW x \in up', x.kind = "answer"
        PROVE  /\ x.call \in served'
               /\ x.sid # None => DrawnBy(x.sid, call[x.call].server)'
    BY <1>1, <1>2, <1>3, <2>2, MessageTypes DEF MessagesOwned, DrawnBy
  <2>. QED
    BY <2>1, <2>2 DEF MessagesOwned
<1>9. HomesSeparate'
  <2>1. \A d \in Call : call[d].sid # None => call[d].sid \in Sid /\ minted[call[d].sid] # None
    BY DEF TypeOK, CallState, CallsOwned, DrawnBy
  <2>. QED
    BY <1>3, <2>1 DEF HomesSeparate
<1>10. TableMatchesCalls'
  BY <1>1 DEF TableMatchesCalls
<1>. QED
  BY <1>4, <1>5, <1>7, <1>8, <1>9, <1>10

LEMMA PiNextKeepsInv ==
  ASSUME RelayInv, PiNext
  PROVE  RelayInv'
<1>. USE DEF piRest, callVars
<1>1. \A k \in Live : live[k].pc \in {"opening", "open"} => live[k].server # None
  BY DEF RelayInv, SocketsOwned
<1>2. ASSUME NEW w \in Socket, NEW m \in down, NEW sid \in Sid \cup {None},
             PiAnswers(m, w, sid)
      PROVE  RelayInv'
  BY <1>2, PiAnswersKeepsInv
<1>3. ASSUME NEW k \in Live, NEW w \in Socket, Closes(k, w)
      PROVE  up' \subseteq Up /\ \A m \in up' \ up : m.kind # "answer"
  <2>1. [kind |-> "close", socket |-> w, live |-> k] \in Up
    BY DEF Up
  <2>. QED
    BY <1>3, <2>1 DEF Closes, Carried, RelayInv, TypeOK
<1>4. ASSUME NEW w \in Socket, NEW m \in down, PiOpens(m, w) PROVE RelayInv'
  <2>1. m.live \in Live
    BY <1>4, MessageTypes DEF PiOpens, RelayInv
  <2>2. up' \subseteq Up /\ \A x \in up' \ up : x.kind # "answer"
    BY <1>3, <1>4, <2>1 DEF PiOpens, RelayInv, TypeOK
  <2>3. TypeOK'
    BY <1>4, <2>1, <2>2 DEF PiOpens, RelayInv, TypeOK
  <2>. QED
    BY <1>1, <1>4, <2>2, <2>3, LiveStepKeepsInv DEF PiOpens
<1>5. ASSUME NEW w \in Socket, NEW m \in down, PiCloses(m, w) PROVE RelayInv'
  <2>1. m.live \in Live
    BY <1>5, MessageTypes DEF PiCloses, RelayInv
  <2>2. up' \subseteq Up /\ \A x \in up' \ up : x.kind # "answer"
    BY <1>3, <1>5, <2>1 DEF PiCloses, RelayInv, TypeOK
  <2>3. TypeOK'
    BY <1>5, <2>1, <2>2 DEF PiCloses, RelayInv, TypeOK
  <2>. QED
    BY <1>1, <1>5, <2>2, <2>3, LiveStepKeepsInv DEF PiCloses
<1>6. ASSUME NEW w \in Socket, NEW k \in Live, PiLeaves(k, w) PROVE RelayInv'
  <2>1. TypeOK'
    BY <1>3, <1>6 DEF PiLeaves, RelayInv, TypeOK
  <2>. QED
    BY <1>1, <1>3, <1>6, <2>1, LiveStepKeepsInv DEF PiLeaves
<1>. QED
  BY <1>2, <1>4, <1>5, <1>6 DEF PiNext

-----------------------------------------------------------------------------
LEMMA RestartKeepsInv ==
  ASSUME RelayInv, ProxyRestart
  PROVE  RelayInv'
<1>. USE DEF RelayInv
<1>0. /\ pending_requests' = {} /\ active_ws_connections' = {}
      /\ UNCHANGED <<opened, down, up, minted, served>>
      /\ server_map' = [s \in Server |-> None]
      /\ session_map' = [s \in Sid |-> None]
      /\ lost' \subseteq Socket /\ left' \subseteq Live
  BY DEF ProxyRestart
<1>1. ASSUME NEW w \in Socket
      PROVE  /\ stream'[w] \in [pc : {"unused", "accepted", "registered", "ended"},
                                server : Server \cup {None}]
             /\ stream'[w].server = stream[w].server
             /\ stream'[w].pc = "unused" <=> stream[w].pc = "unused"
  <2>1. stream'[w] = IF w \in lost' THEN [stream[w] EXCEPT !.pc = "ended"] ELSE stream[w]
    BY DEF ProxyRestart
  <2>2. w \in lost' <=> stream[w].pc # "unused"
    BY DEF ProxyRestart
  <2>3. stream[w] \in [pc : {"unused", "accepted", "registered", "ended"},
                       server : Server \cup {None}]
    BY DEF TypeOK
  <2>. QED
    BY <2>1, <2>2, <2>3
<1>2. stream' \in [Socket -> [pc : {"unused", "accepted", "registered", "ended"},
                              server : Server \cup {None}]]
  <2>1. stream' = [w \in Socket |-> stream'[w]]
    BY DEF ProxyRestart
  <2>. QED
    BY <1>1, <2>1
<1>3. ASSUME NEW c \in Call
      PROVE  /\ call'[c] \in CallState
             /\ call'[c].server = call[c].server /\ call'[c].sid = call[c].sid
             /\ call'[c].pc \notin {"sending", "waiting"}
             /\ call'[c].pc = "answered" => call[c].pc = "answered"
             /\ call'[c].pc = "idle" <=> call[c].pc = "idle"
             /\ call'[c].future # None => call'[c].future = call[c].future
  <2>1. call'[c] = IF call[c].pc \in {"sending", "waiting"}
                     THEN [call[c] EXCEPT !.pc = "failed", !.future = None] ELSE call[c]
    BY DEF ProxyRestart
  <2>2. call[c] \in CallState
    BY DEF TypeOK
  <2>. QED
    BY <2>1, <2>2 DEF CallState
<1>4. call' \in [Call -> CallState]
  <2>1. call' = [c \in Call |-> call'[c]]
    BY DEF ProxyRestart
  <2>. QED
    BY <1>3, <2>1
<1>5. ASSUME NEW k \in Live
      PROVE  /\ live'[k] \in [pc : {"idle", "opening", "open", "ended"},
                              server : Server \cup {None}, socket : Socket \cup {None}]
             /\ live'[k].pc \notin {"opening", "open"}
             /\ live'[k].server = live[k].server
             /\ live'[k].pc = "idle" <=> live[k].pc = "idle"
  <2>1. live'[k] = IF live[k].pc \in {"opening", "open"}
                     THEN [live[k] EXCEPT !.pc = "ended"] ELSE live[k]
    BY DEF ProxyRestart
  <2>2. live[k] \in [pc : {"idle", "opening", "open", "ended"},
                     server : Server \cup {None}, socket : Socket \cup {None}]
    BY DEF TypeOK
  <2>. QED
    BY <2>1, <2>2
<1>6. live' \in [Live -> [pc : {"idle", "opening", "open", "ended"},
                          server : Server \cup {None}, socket : Socket \cup {None}]]
  <2>1. live' = [k \in Live |-> live'[k]]
    BY DEF ProxyRestart
  <2>. QED
    BY <1>5, <2>1
<1>7. TypeOK'
  BY <1>0, <1>2, <1>4, <1>6 DEF TypeOK
<1>8. SocketsOwned'
  BY <1>0, <1>1, <1>5, MessageTypes DEF SocketsOwned
<1>9. CallsOwned'
  BY <1>0, <1>3 DEF CallsOwned, DrawnBy
<1>10. MessagesOwned'
  BY <1>0, <1>3, <1>5, MessageTypes DEF MessagesOwned, DrawnBy
<1>11. HomesSeparate'
  BY <1>0, <1>1, <1>3, <1>5, MessageTypes DEF HomesSeparate
<1>12. TableMatchesCalls'
  BY <1>0, <1>3 DEF TableMatchesCalls
<1>. QED
  BY <1>7, <1>8, <1>9, <1>10, <1>11, <1>12

LEMMA StepKeepsInv == RelayInv /\ [Next]_vars => RelayInv'
<1>. SUFFICES ASSUME RelayInv, [Next]_vars PROVE RelayInv'
  OBVIOUS
<1>1. CASE Next
  BY <1>1, StreamStepKeepsInv, CallStepKeepsInv, LiveNextKeepsInv, PiNextKeepsInv,
     RestartKeepsInv DEF Next
<1>2. CASE UNCHANGED vars
  BY <1>2 DEF vars, callVars, liveVars, RelayInv, TypeOK, SocketsOwned, CallsOwned,
     MessagesOwned, HomesSeparate, TableMatchesCalls, DrawnBy
<1>. QED
  BY <1>1, <1>2

\* The inductive invariant holds of every behaviour.
THEOREM RelayInvariant == Spec => []RelayInv
<1>. QED
  BY RelayInitInv, StepKeepsInv, PTL DEF Spec

\* Every variable keeps its type.
THEOREM TypeCorrect == Spec => []TypeOK
<1>1. RelayInv => TypeOK
  BY DEF RelayInv
<1>. QED
  BY <1>1, RelayInvariant, PTL

\* No home's requests, sessions or answers reach another home.
THEOREM HomesStaySeparate == Spec => []HomesSeparate
<1>1. RelayInv => HomesSeparate
  BY DEF RelayInv
<1>. QED
  BY <1>1, RelayInvariant, PTL

\* The table of pending requests holds the waiting calls, and beside them only
\* calls that never reached a home.
THEOREM TableMatches == Spec => []TableMatchesCalls
<1>1. RelayInv => TableMatchesCalls
  BY DEF RelayInv
<1>. QED
  BY <1>1, RelayInvariant, PTL

-----------------------------------------------------------------------------
(* The relay implements RequestReply. *)

LEMMA StepReplies ==
  ASSUME RelayInv, [Next]_vars
  PROVE  [Calls!Next]_(Calls!vars)
<1>. DEFINE out == [c \in Call |-> Outcome(c)]
<1>1. \A c \in Call : call[c] \in CallState
  BY DEF RelayInv, TypeOK
<1>2. ASSUME UNCHANGED <<call, served>> PROVE [Calls!Next]_(Calls!vars)
  BY <1>2 DEF Calls!vars, Outcome
<1>3. ASSUME NEW c \in Call, UNCHANGED served,
             \A d \in Call \ {c} : Outcome(d)' = Outcome(d),
             Outcome(c)' = "failed", Outcome(c) \in {"none", "open"}
      PROVE  [Calls!Next]_(Calls!vars)
  <2>1. Calls!Fail({c})
    BY <1>3 DEF Calls!Fail
  <2>. QED
    BY <2>1 DEF Calls!Next
<1>4. ASSUME NEW c \in Call, NEW s \in Server, NEW sid \in Sid \cup {None}, Begin(c, s, sid)
      PROVE  [Calls!Next]_(Calls!vars)
  <2>1. call'[c].pc = "sending" /\ \A d \in Call \ {c} : call'[d] = call[d]
    BY <1>4 DEF Begin, RelayInv, TypeOK
  <2>2. Outcome(c) = "none" /\ Outcome(c)' = "open"
    BY <1>4, <2>1 DEF Begin, Outcome
  <2>3. \A d \in Call \ {c} : Outcome(d)' = Outcome(d)
    BY <2>1 DEF Outcome
  <2>4. out' = [out EXCEPT ![c] = "open"]
    BY <2>2, <2>3
  <2>5. Calls!Ask(c)
    BY <1>4, <2>2, <2>4 DEF Calls!Ask, Begin, callRest
  <2>. QED
    BY <2>5 DEF Calls!Next
<1>5. ASSUME NEW c \in Call, Refuse(c) \/ SendFails(c) \/ TimeOut(c)
      PROVE  [Calls!Next]_(Calls!vars)
  <2>1. call'[c].pc = "failed" /\ \A d \in Call \ {c} : call'[d] = call[d]
    BY <1>1, <1>5 DEF Refuse, SendFails, TimeOut, RelayInv, TypeOK, CallState
  <2>2. call[c].pc \in {"idle", "sending", "waiting"} /\ UNCHANGED served
    BY <1>5 DEF Refuse, SendFails, TimeOut, callRest
  <2>3. Outcome(c)' = "failed" /\ Outcome(c) \in {"none", "open"}
    BY <2>1, <2>2 DEF Outcome
  <2>4. \A d \in Call \ {c} : Outcome(d)' = Outcome(d)
    BY <2>1 DEF Outcome
  <2>. QED
    BY <1>3, <2>2, <2>3, <2>4
<1>6. ASSUME UNCHANGED served, \A c \in Call : Outcome(c)' = Outcome(c)
      PROVE  [Calls!Next]_(Calls!vars)
  BY <1>6 DEF Calls!vars
<1>7. ASSUME NEW c \in Call, Sent(c) PROVE [Calls!Next]_(Calls!vars)
  <2>1. call[c].pc = "sending" /\ call'[c].pc = "waiting" /\ UNCHANGED served
    BY <1>7 DEF Sent, callRest, RelayInv, TypeOK, CallState
  <2>2. \A d \in Call \ {c} : call'[d] = call[d]
    BY <1>7 DEF Sent, RelayInv, TypeOK
  <2>3. \A d \in Call : Outcome(d)' = Outcome(d)
    BY <2>1, <2>2 DEF Outcome
  <2>. QED
    BY <1>6, <2>1, <2>3
<1>8. ASSUME NEW m \in up, Resolve(m) PROVE [Calls!Next]_(Calls!vars)
  <2>1. m.call \in Call
    BY <1>8, MessageTypes DEF Resolve, RelayInv
  <2>2. \A d \in Call : call'[d].pc = call[d].pc
    BY <1>1, <1>8, <2>1 DEF Resolve, RelayInv, TypeOK, CallState
  <2>3. \A d \in Call : Outcome(d)' = Outcome(d)
    BY <2>2 DEF Outcome
  <2>. QED
    BY <1>6, <1>8, <2>3 DEF Resolve
<1>9. ASSUME NEW c \in Call, Return(c) PROVE [Calls!Next]_(Calls!vars)
  <2>1. call[c].pc = "waiting" /\ call'[c].pc = "answered" /\ UNCHANGED served /\ c \in served
    BY <1>1, <1>9 DEF Return, callRest, RelayInv, TypeOK, CallState, CallsOwned
  <2>2. \A d \in Call \ {c} : call'[d] = call[d]
    BY <1>9 DEF Return, RelayInv, TypeOK
  <2>3. Outcome(c) = "open" /\ Outcome(c)' = "answered"
    BY <2>1 DEF Outcome
  <2>4. \A d \in Call \ {c} : Outcome(d)' = Outcome(d)
    BY <2>2 DEF Outcome
  <2>5. out' = [out EXCEPT ![c] = "answered"]
    BY <2>3, <2>4
  <2>6. Calls!Answer(c)
    BY <2>1, <2>3, <2>5 DEF Calls!Answer
  <2>. QED
    BY <2>6 DEF Calls!Next
<1>10. CASE CallNext
  <2>1. ASSUME NEW sid \in Sid, Expire(sid) PROVE UNCHANGED <<call, served>>
    BY <2>1 DEF Expire, callRest
  <2>2. ASSUME NEW c \in Call, NEW s \in Server, Associate(c, s) PROVE Begin(c, s, None)
    BY <2>2 DEF Associate
  <2>3. ASSUME NEW c \in Call, NEW sid \in Sid, Route(c, sid)
        PROVE  session_map[sid] \in Server /\ Begin(c, session_map[sid], sid)
    BY <2>3 DEF Route, RelayInv, TypeOK
  <2>. QED
    BY <1>2, <1>4, <1>5, <1>7, <1>8, <1>9, <1>10, <2>1, <2>2, <2>3 DEF CallNext
<1>11. CASE PiNext
  <2>1. ASSUME NEW w \in Socket, NEW m \in down, NEW sid \in Sid \cup {None},
               PiAnswers(m, w, sid)
        PROVE  [Calls!Next]_(Calls!vars)
    <3>1. /\ m.call \in Call /\ call[m.call].pc \notin {"idle", "sending"}
          /\ UNCHANGED call /\ served' = served \cup {m.call}
      BY <2>1, MessageTypes DEF PiAnswers, RelayInv, MessagesOwned, piRest, callVars
    <3>2. UNCHANGED out
      BY <3>1 DEF Outcome
    <3>3. CASE m.call \in served
      BY <1>2, <3>1, <3>3
    <3>4. CASE m.call \notin served
      <4>1. call[m.call].pc \in {"waiting", "failed"}
        BY <1>1, <3>1, <3>4 DEF CallState, RelayInv, CallsOwned
      <4>2. Outcome(m.call) \in {"open", "failed"}
        BY <4>1 DEF Outcome
      <4>3. Calls!CarryOut(m.call)
        BY <3>1, <3>2, <4>2 DEF Calls!CarryOut
      <4>. QED
        BY <3>1, <4>3 DEF Calls!Next
    <3>. QED
      BY <3>3, <3>4
  <2>2. ASSUME NEW w \in Socket, NEW m \in down, PiOpens(m, w) \/ PiCloses(m, w)
        PROVE  UNCHANGED <<call, served>>
    BY <2>2 DEF PiOpens, PiCloses, piRest, callVars
  <2>3. ASSUME NEW w \in Socket, NEW k \in Live, PiLeaves(k, w)
        PROVE  UNCHANGED <<call, served>>
    BY <2>3 DEF PiLeaves, piRest, callVars
  <2>. QED
    BY <1>2, <1>11, <2>1, <2>2, <2>3 DEF PiNext
<1>12. CASE ProxyRestart
  <2>. DEFINE C == {c \in Call : call[c].pc \in {"sending", "waiting"}}
  <2>1. \A c \in Call : call'[c] =
          IF c \in C THEN [call[c] EXCEPT !.pc = "failed", !.future = None] ELSE call[c]
    BY <1>12 DEF ProxyRestart
  <2>2. \A c \in Call : call'[c].pc = IF c \in C THEN "failed" ELSE call[c].pc
    BY <1>1, <2>1 DEF CallState
  <2>3. \A c \in Call : Outcome(c)' = IF c \in C THEN "failed" ELSE Outcome(c)
    BY <2>2 DEF Outcome
  <2>4. \A c \in C : Outcome(c) \in {"none", "open"}
    BY DEF Outcome
  <2>5. Calls!Fail(C)
    BY <1>12, <2>3, <2>4 DEF Calls!Fail, ProxyRestart
  <2>. QED
    BY <2>5 DEF Calls!Next
<1>13. CASE StreamNext \/ LiveNext
  <2>1. UNCHANGED <<call, served>>
    BY <1>13 DEF StreamNext, Accept, RejectAuth, Register, LoseSocket, StreamEnds, LiveNext,
       OpenLive, RefuseLive, RegisterLive, BrowserLeaves, LeaveLive, LiveFails, FrameBreaks,
       CloseLive, streamRest, liveRest, callVars
  <2>. QED
    BY <1>2, <2>1
<1>14. CASE UNCHANGED vars
  BY <1>2, <1>14 DEF vars, callVars
<1>. QED
  BY <1>10, <1>11, <1>12, <1>13, <1>14 DEF Next

\* A caller gets its own answer or a failure, and once.
THEOREM ImplementsRequestReply == Spec => GetsOwnAnswer
<1>1. Init => Calls!Init
  BY DEF Init, Calls!Init, Outcome
<1>. QED
  BY <1>1, StepReplies, RelayInvariant, PTL DEF Spec, GetsOwnAnswer, Calls!Spec
=============================================================================
