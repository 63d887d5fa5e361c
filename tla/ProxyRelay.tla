------------------------------ MODULE ProxyRelay ------------------------------
(***************************************************************************)
(* The Leesin proxy: the tables of proxy/services/session.py, the stream   *)
(* handler of proxy/main.py and the routes of proxy/routers/session.py.    *)
(* Each home server dials in over a socket of its own; a route of the      *)
(* proxy sends a message down that socket and waits for the one that comes *)
(* up with the same request id.                                            *)
(*                                                                         *)
(* The proxy is one event loop, so what a handler does between two awaits  *)
(* is one step.  The home servers are an environment that dials, loses     *)
(* sockets, answers (on whichever of its sockets it holds) or does not,    *)
(* and opens and closes its end of live connections as ProxyAgent does.    *)
(* Messages are kept as sets: both ends handle each one in a task or step  *)
(* of its own, and none of the properties depends on their order.          *)
(***************************************************************************)
CONSTANTS
  Server,   \* home servers, by server id
  Socket,   \* sockets a home server dials, each used once
  Call,     \* calls of send_proxy_request; also their request ids
  Live,     \* browsers' live connections; also their connection ids
  Sid,      \* session ids
  Faults,   \* faults of the environment: "restart" of the proxy
  None

ASSUME FaultsAssumption == Faults \subseteq {"restart"}

VARIABLES
  stream,                 \* per socket: progress of its handler, and who dialled
  lost,                   \* sockets that are closed or dead at the other end
  server_map,             \* per server: the socket its requests go down
  session_map,            \* per session: its server
  pending_requests,       \* calls with a future in the table
  active_ws_connections,  \* live connections that frames are passed on to
  call,                   \* per call: progress, target and future
  live,                   \* per live connection: progress of its handler
  left,                   \* live connections the browser has closed
  down, up,               \* messages on their way to and from the home servers
  minted,                 \* per session: the server that drew its id
  served,                 \* calls a home server has carried out
  opened                  \* ProxyAgent.active_ws: connections with a local socket

callVars == <<call, pending_requests, session_map>>
liveVars == <<live, active_ws_connections, left, opened>>
vars == <<stream, lost, server_map, callVars, liveVars, down, up, minted, served>>

Down ==
       [kind : {"request"}, socket : Socket, call : Call]
  \cup [kind : {"open", "close"}, socket : Socket, live : Live]

\* an answer names a session when it is the success of an association
Up ==
       [kind : {"answer"}, socket : Socket, call : Call, sid : Sid \cup {None}]
  \cup [kind : {"close"}, socket : Socket, live : Live]

Answers == [call : Call, sid : Sid \cup {None}]

ASSUME NoneAssumption == None \notin Server \cup Socket \cup Sid \cup Answers

CallState ==
  [pc : {"idle", "sending", "waiting", "answered", "failed"},
   server : Server \cup {None}, sid : Sid \cup {None},
   socket : Socket \cup {None}, future : Answers \cup {None}]

TypeOK ==
  /\ stream \in [Socket -> [pc : {"unused", "accepted", "registered", "ended"},
                            server : Server \cup {None}]]
  /\ lost \subseteq Socket
  /\ server_map \in [Server -> Socket \cup {None}]
  /\ session_map \in [Sid -> Server \cup {None}]
  /\ pending_requests \subseteq Call
  /\ active_ws_connections \subseteq Live
  /\ call \in [Call -> CallState]
  /\ live \in [Live -> [pc : {"idle", "opening", "open", "ended"},
                        server : Server \cup {None}, socket : Socket \cup {None}]]
  /\ left \subseteq Live
  /\ down \subseteq Down
  /\ up \subseteq Up
  /\ minted \in [Sid -> Server \cup {None}]
  /\ served \subseteq Call
  /\ opened \subseteq Live

Init ==
  /\ stream = [w \in Socket |-> [pc |-> "unused", server |-> None]]
  /\ lost = {}
  /\ server_map = [s \in Server |-> None]
  /\ session_map = [s \in Sid |-> None]
  /\ pending_requests = {}
  /\ active_ws_connections = {}
  /\ call = [c \in Call |-> [pc |-> "idle", server |-> None, sid |-> None,
                             socket |-> None, future |-> None]]
  /\ live = [k \in Live |-> [pc |-> "idle", server |-> None, socket |-> None]]
  /\ left = {}
  /\ down = {}
  /\ up = {}
  /\ minted = [s \in Sid |-> None]
  /\ served = {}
  /\ opened = {}

\* A send on a socket: what reaches a broken one is gone.  (Whether the send
\* raises as well is up to the actions that use it.)
Carried(w, m) == IF w \in lost THEN {} ELSE {m}

-----------------------------------------------------------------------------
(* main.py, stream: one handler per socket of a home server. *)

streamRest == <<callVars, liveVars, down, up, minted, served>>

Accept(w, s) ==
  /\ stream[w].pc = "unused"
  /\ stream' = [stream EXCEPT ![w] = [pc |-> "accepted", server |-> s]]
  /\ UNCHANGED <<lost, server_map, streamRest>>

\* Mutant: a state of its own for a refused socket.
RejectAuthNamed(w) ==
  /\ stream[w].pc = "accepted"
  /\ stream' = [stream EXCEPT ![w].pc = "rejected"]
  /\ lost' = lost \cup {w}
  /\ UNCHANGED <<server_map, streamRest>>

\* broken first message, invalid token, or nothing came
RejectAuth(w) ==
  /\ stream[w].pc = "accepted"
  /\ stream' = [stream EXCEPT ![w].pc = "ended"]
  /\ lost' = lost \cup {w}
  /\ UNCHANGED <<server_map, streamRest>>

\* register_server, whose answer to the server is sent outside the try: when
\* that raises the handler ends and the entry stays
Register(w) ==
  /\ stream[w].pc = "accepted"
  /\ server_map' = [server_map EXCEPT ![stream[w].server] = w]
  /\ \/ stream' = [stream EXCEPT ![w].pc = "registered"]
     \/ w \in lost /\ stream' = [stream EXCEPT ![w].pc = "ended"]
  /\ UNCHANGED <<lost, streamRest>>

\* the home server closes its socket, or the connection dies under it; the
\* handler learns of it later
LoseSocket(w) ==
  /\ stream[w].pc # "unused"
  /\ w \notin lost
  /\ lost' = lost \cup {w}
  /\ UNCHANGED <<stream, server_map, streamRest>>

\* the finally of the loop
CleanUp(w) ==
  /\ stream' = [stream EXCEPT ![w].pc = "ended"]
  /\ server_map' = [server_map EXCEPT ![stream[w].server] = None]

StreamEnds(w) ==
  /\ stream[w].pc = "registered"
  /\ w \in lost
  /\ CleanUp(w)
  /\ UNCHANGED <<lost, streamRest>>

-----------------------------------------------------------------------------
(* services/session.py, send_proxy_request, for the routes associate (which *)
(* names a server), key-exchange and forward (which name a session).        *)

callRest == <<stream, lost, server_map, liveVars, up, minted, served>>

Begin(c, s, sid) ==
  /\ call[c].pc = "idle"
  /\ server_map[s] # None
  /\ call' = [call EXCEPT ![c] = [pc |-> "sending", server |-> s, sid |-> sid,
                                  socket |-> server_map[s], future |-> None]]
  /\ pending_requests' = pending_requests \cup {c}
  /\ UNCHANGED <<session_map, down, callRest>>

Associate(c, s) == Begin(c, s, None)

Route(c, sid) ==
  /\ session_map[sid] # None
  /\ Begin(c, session_map[sid], sid)

\* 404 "Session not found" or 503 "Server is not connected"
Refuse(c) ==
  /\ call[c].pc = "idle"
  /\ \/ \E s \in Server : server_map[s] = None
     \/ \E sid \in Sid : session_map[sid] = None
  /\ call' = [call EXCEPT ![c].pc = "failed"]
  /\ UNCHANGED <<session_map, pending_requests, down, callRest>>

Sent(c) ==
  /\ call[c].pc = "sending"
  /\ call' = [call EXCEPT ![c].pc = "waiting"]
  /\ down' = down \cup Carried(call[c].socket,
       [kind |-> "request", socket |-> call[c].socket, call |-> c])
  /\ UNCHANGED <<session_map, pending_requests, callRest>>

\* the send raises: the future stays in the table
SendFails(c) ==
  /\ call[c].pc = "sending"
  /\ call[c].socket \in lost
  /\ call' = [call EXCEPT ![c].pc = "failed"]
  /\ UNCHANGED <<session_map, pending_requests, down, callRest>>

\* Mutant: an answer completes whichever call waits, not the one it names.
ResolveInOrder(m) ==
  /\ m \in up
  /\ m.kind = "answer"
  /\ stream[m.socket].pc = "registered"
  /\ up' = up \ {m}
  /\ \E c \in pending_requests :
       call' = [call EXCEPT ![c].future = [call |-> m.call, sid |-> m.sid]]
  /\ UNCHANGED <<session_map, pending_requests, stream, lost, server_map, liveVars,
                 down, minted, served>>

\* _resolve_pending_request sets the future unless it is done
Resolve(m) ==
  /\ m \in up
  /\ m.kind = "answer"
  /\ stream[m.socket].pc = "registered"
  /\ up' = up \ {m}
  /\ call' = IF m.call \in pending_requests /\ call[m.call].future = None
               THEN [call EXCEPT ![m.call].future = [call |-> m.call, sid |-> m.sid]]
               ELSE call
  /\ UNCHANGED <<session_map, pending_requests, stream, lost, server_map, liveVars,
                 down, minted, served>>

\* the wait ends; authenticate_session goes on to associate_session
Return(c) ==
  /\ call[c].pc = "waiting"
  /\ call[c].future # None
  /\ call' = [call EXCEPT ![c].pc = "answered", ![c].future = None]
  /\ pending_requests' = pending_requests \ {c}
  /\ session_map' = IF call[c].sid = None /\ call[c].future.sid # None
                      THEN [session_map EXCEPT ![call[c].future.sid] = call[c].server]
                      ELSE session_map
  /\ UNCHANGED <<down, callRest>>

\* Mutant: the entry is removed by the answer only.
TimeOutKeepsEntry(c) ==
  /\ call[c].pc = "waiting"
  /\ call' = [call EXCEPT ![c].pc = "failed", ![c].future = None]
  /\ UNCHANGED <<session_map, pending_requests, down, callRest>>

\* Mutant: a timeout returns an empty answer.
TimeOutEmpty(c) ==
  /\ call[c].pc = "waiting"
  /\ call' = [call EXCEPT ![c].pc = "answered", ![c].future = None]
  /\ pending_requests' = pending_requests \ {c}
  /\ UNCHANGED <<session_map, down, callRest>>

\* 15 s are over, also when the future was set at the same moment
TimeOut(c) ==
  /\ call[c].pc = "waiting"
  /\ call' = [call EXCEPT ![c].pc = "failed", ![c].future = None]
  /\ pending_requests' = pending_requests \ {c}
  /\ UNCHANGED <<session_map, down, callRest>>

\* a session's three hours are over
Expire(sid) ==
  /\ session_map[sid] # None
  /\ session_map' = [session_map EXCEPT ![sid] = None]
  /\ UNCHANGED <<call, pending_requests, down, callRest>>

-----------------------------------------------------------------------------
(* routers/session.py, forward_ws, and _handle_ws_message. *)

liveRest == <<callVars, minted, served>>

\* ws_open goes down before the connection is registered
OpenLive(k, sid) ==
  /\ live[k].pc = "idle"
  /\ session_map[sid] # None
  /\ LET s == session_map[sid]
         w == server_map[s]
     IN  /\ w # None
         /\ live' = [live EXCEPT ![k] = [pc |-> "opening", server |-> s, socket |-> w]]
         /\ down' = down \cup Carried(w, [kind |-> "open", socket |-> w, live |-> k])
  /\ UNCHANGED <<stream, lost, server_map, active_ws_connections, left, opened, up,
                 liveRest>>

\* no such session, or its server is not connected
RefuseLive(k) ==
  /\ live[k].pc = "idle"
  /\ \/ \E s \in Server : server_map[s] = None
     \/ \E sid \in Sid : session_map[sid] = None
  /\ live' = [live EXCEPT ![k].pc = "ended"]
  /\ UNCHANGED <<stream, lost, server_map, active_ws_connections, left, opened, down,
                 up, liveRest>>

RegisterLive(k) ==
  /\ live[k].pc = "opening"
  /\ live' = [live EXCEPT ![k].pc = "open", ![k].socket = None]
  /\ active_ws_connections' = active_ws_connections \cup {k}
  /\ UNCHANGED <<stream, lost, server_map, left, opened, down, up, liveRest>>

BrowserLeaves(k) ==
  /\ live[k].pc \in {"opening", "open"}
  /\ k \notin left
  /\ left' = left \cup {k}
  /\ UNCHANGED <<stream, lost, server_map, live, active_ws_connections, opened, down,
                 up, liveRest>>

\* the handler learns that its browser left, and tells whichever socket the
\* server has now
LeaveLive(k) ==
  /\ live[k].pc = "open"
  /\ k \in left
  /\ live' = [live EXCEPT ![k].pc = "ended"]
  /\ active_ws_connections' = active_ws_connections \ {k}
  /\ LET w == server_map[live[k].server]
     IN  down' = IF w = None THEN down
                 ELSE down \cup Carried(w, [kind |-> "close", socket |-> w, live |-> k])
  /\ UNCHANGED <<stream, lost, server_map, left, opened, up, liveRest>>

\* a ws_open or a frame of the browser cannot be sent: closed with 1011
LiveFails(k) ==
  /\ \/ live[k].pc = "opening" /\ live[k].socket \in lost
     \/ live[k].pc = "open" /\ k \notin left
           /\ server_map[live[k].server] \in lost \cup {None}
  /\ live' = [live EXCEPT ![k].pc = "ended"]
  /\ left' = left \cup {k}
  /\ active_ws_connections' = active_ws_connections \ {k}
  /\ UNCHANGED <<stream, lost, server_map, opened, down, up, liveRest>>

\* passing a message on to a browser that has left raises in the handler of
\* the server's socket, and ends it; uvicorn then closes that socket, unless
\* the handler caught what was raised
BreaksStream(w, k) ==
  /\ k \in active_ws_connections \cap left
  /\ CleanUp(w)
  /\ \E closed \in SUBSET {w} : lost' = lost \cup closed

\* ws_frame: one that reaches its browser, or no connection, changes nothing
FrameBreaks(w, k) ==
  /\ stream[w].pc = "registered"
  /\ k \in opened
  /\ live[k].server = stream[w].server
  /\ BreaksStream(w, k)
  /\ UNCHANGED <<liveVars, down, up, liveRest>>

\* ws_close: _close_ws closes the browser's socket, then unregisters it
CloseLive(m) ==
  /\ m \in up
  /\ m.kind = "close"
  /\ stream[m.socket].pc = "registered"
  /\ up' = up \ {m}
  /\ \/ /\ active_ws_connections' = active_ws_connections \ {m.live}
        /\ left' = left \cup (active_ws_connections \cap {m.live})
        /\ UNCHANGED <<stream, lost, server_map>>
     \/ /\ BreaksStream(m.socket, m.live)
        /\ UNCHANGED <<active_ws_connections, left>>
  /\ UNCHANGED <<live, opened, down, liveRest>>

-----------------------------------------------------------------------------
(* The home servers, as far as the proxy can tell.  A message may have been *)
(* taken from a socket before it was lost, and is answered over any socket  *)
(* of the same server.                                                      *)

piRest == <<stream, lost, server_map, callVars, live, active_ws_connections, left>>

PiAnswers(m, w, sid) ==
  /\ m \in down
  /\ m.kind = "request"
  /\ stream[w].server = stream[m.socket].server
  /\ sid # None => call[m.call].sid = None /\ minted[sid] = None
  /\ minted' = IF sid = None THEN minted
               ELSE [minted EXCEPT ![sid] = stream[w].server]
  /\ down' = down \ {m}
  /\ served' = served \cup {m.call}
  /\ up' = up \cup Carried(w,
       [kind |-> "answer", socket |-> w, call |-> m.call, sid |-> sid])
  /\ UNCHANGED <<piRest, opened>>

Closes(k, w) == up' = up \cup Carried(w, [kind |-> "close", socket |-> w, live |-> k])

\* _handle_ws_open, once its local socket is there or refused
PiOpens(m, w) ==
  /\ m \in down
  /\ m.kind = "open"
  /\ stream[w].server = stream[m.socket].server
  /\ down' = down \ {m}
  /\ \/ opened' = opened \cup {m.live} /\ UNCHANGED up
     \/ Closes(m.live, w) /\ UNCHANGED opened
  /\ UNCHANGED <<piRest, minted, served>>

\* _handle_ws_close: the listen loop it ends sends a ws_close of its own
PiCloses(m, w) ==
  /\ m \in down
  /\ m.kind = "close"
  /\ stream[w].server = stream[m.socket].server
  /\ down' = down \ {m}
  /\ IF m.live \in opened THEN Closes(m.live, w) ELSE UNCHANGED up
  /\ opened' = opened \ {m.live}
  /\ UNCHANGED <<piRest, minted, served>>

\* the local socket of a live connection ends by itself
PiLeaves(k, w) ==
  /\ k \in opened
  /\ stream[w].server = live[k].server
  /\ opened' = opened \ {k}
  /\ Closes(k, w)
  /\ UNCHANGED <<piRest, down, minted, served>>

-----------------------------------------------------------------------------
\* A new process of the proxy: every table is empty, every socket closed.
ProxyRestart ==
  /\ "restart" \in Faults
  /\ lost' = {w \in Socket : stream[w].pc # "unused"}
  /\ stream' = [w \in Socket |-> IF w \in lost' THEN [stream[w] EXCEPT !.pc = "ended"]
                                 ELSE stream[w]]
  /\ server_map' = [s \in Server |-> None]
  /\ session_map' = [s \in Sid |-> None]
  /\ pending_requests' = {}
  /\ active_ws_connections' = {}
  /\ call' = [c \in Call |-> IF call[c].pc \in {"sending", "waiting"}
                              THEN [call[c] EXCEPT !.pc = "failed", !.future = None] ELSE call[c]]
  /\ live' = [k \in Live |-> IF live[k].pc \in {"opening", "open"}
                              THEN [live[k] EXCEPT !.pc = "ended"] ELSE live[k]]
  /\ left' = {k \in Live : live'[k].pc = "ended"}
  /\ UNCHANGED <<opened, down, up, minted, served>>

StreamNext ==
  \E w \in Socket :
    \/ \E s \in Server : Accept(w, s)
    \/ RejectAuth(w) \/ Register(w) \/ LoseSocket(w) \/ StreamEnds(w)

CallNext ==
  \/ \E c \in Call :
       \/ \E s \in Server : Associate(c, s)
       \/ \E sid \in Sid : Route(c, sid)
       \/ Refuse(c) \/ Sent(c) \/ SendFails(c) \/ Return(c) \/ TimeOut(c)
  \/ \E m \in up : Resolve(m)
  \/ \E sid \in Sid : Expire(sid)

LiveNext ==
  \/ \E k \in Live :
       \/ \E sid \in Sid : OpenLive(k, sid)
       \/ RefuseLive(k) \/ RegisterLive(k) \/ BrowserLeaves(k)
       \/ LeaveLive(k) \/ LiveFails(k)
       \/ \E w \in Socket : FrameBreaks(w, k)
  \/ \E m \in up : CloseLive(m)

PiNext ==
  \E w \in Socket :
    \/ \E m \in down :
         \/ \E sid \in Sid \cup {None} : PiAnswers(m, w, sid)
         \/ PiOpens(m, w) \/ PiCloses(m, w)
    \/ \E k \in Live : PiLeaves(k, w)

Next == StreamNext \/ CallNext \/ LiveNext \/ PiNext \/ ProxyRestart

Spec == Init /\ [][Next]_vars

-----------------------------------------------------------------------------
(* Properties. *)

\* One proxy serves many homes: what goes down a socket belongs to the home
\* that dialled it, a session leads to the home that drew its id, and a call
\* about a session goes to that home, also after sockets were replaced,
\* sessions expired or answers came late.
HomesSeparate ==
  /\ \A s \in Sid : session_map[s] # None => minted[s] = session_map[s]
  /\ \A m \in down :
       LET target == IF m.kind = "request" THEN call[m.call] ELSE live[m.live]
       IN  stream[m.socket].server = target.server
  /\ \A c \in Call : call[c].sid # None => minted[call[c].sid] = call[c].server

\* A caller gets its own answer, once, or a failure; a call that was reported
\* as failed may have been carried out (send_proxy_request, 15 s against the
\* 30 s of the home server).
Outcome(c) ==
  CASE call[c].pc = "idle" -> "none"
    [] call[c].pc \in {"sending", "waiting"} -> "open"
    [] OTHER -> call[c].pc

Calls == INSTANCE RequestReply
           WITH outcome <- [c \in Call |-> Outcome(c)], carried <- served

GetsOwnAnswer == Calls!Spec

\* A call that waits is in the table, or its answer could not find it; its
\* future holds no other call's answer; what else the table holds are calls
\* whose send raised, which no home server saw (send_proxy_request removes the
\* entry after the wait only).
TableMatchesCalls ==
  \A c \in Call :
    /\ call[c].future # None => call[c].future.call = c
    /\ call[c].pc \in {"sending", "waiting"} => c \in pending_requests
    /\ c \in pending_requests /\ call[c].pc \notin {"sending", "waiting"}
         => call[c].pc = "failed" /\ call[c].socket \in lost /\ c \notin served

\* "Your phone reaches your Pi from anywhere": a home whose socket is open and
\* registered can be reached.
RegisteredReachable ==
  \A w \in Socket :
    stream[w].pc = "registered" /\ w \notin lost => server_map[stream[w].server] # None

\* "The Pi keeps its connection to the proxy open": what ends the handler of a
\* home's socket is that socket, not a browser.
StreamOutlivesBrowsers ==
  [][\A w \in Socket :
       stream[w].pc = "registered" /\ stream'[w].pc = "ended" => w \in lost]_vars
=============================================================================
