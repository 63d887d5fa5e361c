----------------------------- MODULE AgentLifecycle -----------------------------
(***************************************************************************)
(* The Pi's connection to the proxy: the ProxyAgent of proxy_agent.py from *)
(* register and login to connect, listen and reconnect, and the            *)
(* ProxyManager that makes agents and replaces them.                       *)
(*                                                                         *)
(* Coroutines of one event loop: an action is the code from one await to   *)
(* the next, and a task is a coroutine suspended at an await.  The proxy   *)
(* is external: it answers or it does not.  What an agent does with the    *)
(* requests it hears is PiSession.                                         *)
(***************************************************************************)
EXTENDS Naturals, FiniteSets, Sequences

CONSTANTS
  Agent, Socket, Task,   \* 1 is the agent, and the task, of the start
  None,
  Starts                 \* bounds: what is configured when the backend starts,
                         \* and how often each event may happen after it

Action == {"configure", "clear", "register", "login", "connect", "renew_passcode"}
Event == Action \cup {"drop", "failure", "subscribe", "timeout", "leave"}

ASSUME LifecycleAssumption ==
  /\ 1 \in Agent /\ 1 \in Task /\ None \notin Agent \cup Socket
  /\ Starts \subseteq [full : BOOLEAN, bounds : [Event -> Nat]]

VARIABLES
  manager,      \* the agent it holds and the status it has recorded
  agents,
  sockets,      \* "greeting" until the proxy has accepted the token
  tasks,
  config,       \* whether the stored configuration is full, and the number
                \* of passcodes made so far
  budget

lifecycleVars == <<manager, agents, sockets, tasks, config, budget>>

NewAgent ==
  [status |-> "disconnected", stopped |-> FALSE, token |-> FALSE, websocket |-> None]

NewTask(kind, agent, pc) == [kind |-> kind, agent |-> agent, pc |-> pc, socket |-> None]

AgentState ==
  [status : {"disconnected", "connecting", "connected", "reconnecting", "login_failed"},
   stopped : BOOLEAN, token : BOOLEAN, websocket : Socket \cup {None}]

TaskState ==
  [kind : {"boot", "register", "login", "connect", "configure", "clear", "listen", "reconnect"},
   agent : Agent, socket : Socket \cup {None},
   pc : {"sleep", "request", "dial", "greet", "start", "read", "closing"}]

ManagerStatus ==
  {"Config Missing", "Configured", "Registered", "Logged In", "Connected",
   "Login/Connection Failed"}

LifecycleTypeOK ==
  /\ manager \in
       [agent : Agent \cup {None}, status : ManagerStatus]
  /\ agents \in [Agent -> AgentState]
  /\ sockets \in [Socket -> {"greeting", "open", "closed"}]
  /\ tasks \in [Task -> TaskState \cup {None}]
  /\ config \in [full : BOOLEAN, code : Nat]
  /\ budget \in [Event -> Nat]

Spend(event) ==
  /\ budget[event] > 0
  /\ budget' = [budget EXCEPT ![event] = @ - 1]

At(t, pc) == tasks[t] # None /\ tasks[t].pc = pc
Of(t) == tasks[t].agent
Fresh(S) == CHOOSE x \in S : TRUE

UnusedTasks == {t \in Task : tasks[t] = None}
UnusedAgents ==
  {a \in Agent : a # manager.agent /\ \A t \in Task : tasks[t] # None => Of(t) # a}
(* A socket nobody refers to may be open for ever; its number is used again. *)
UnusedSockets ==
  {s \in Socket : /\ \A a \in Agent : agents[a].websocket # s
                  /\ \A t \in Task : tasks[t] # None => tasks[t].socket # s}

End(t) == tasks' = [tasks EXCEPT ![t] = None]
Become(t, kind, pc) == tasks' = [tasks EXCEPT ![t] = NewTask(kind, Of(t), pc)]
Status(a, status) == agents' = [agents EXCEPT ![a].status = status]

-----------------------------------------------------------------------------
(* connect *)

(* A connect that returns goes on in its task as the listen loop it made.  *)
ConnectReturns(t) ==
  /\ Become(t, "listen", "start")
  /\ manager' = IF tasks[t].kind \in {"boot", "connect"}
                THEN [manager EXCEPT !.status = "Connected"] ELSE manager

(* The start of the backend gives the agent up, without stopping it. *)
BootFails == manager' = [agent |-> None, status |-> "Login/Connection Failed"]

\* Mutant: a reconnect that could not connect is not made again.
ConnectRaisesOnce(t) ==
  /\ End(t)
  /\ IF tasks[t].kind = "boot" THEN BootFails ELSE UNCHANGED manager

ConnectRaises(t) ==
  /\ IF tasks[t].kind = "reconnect" THEN Become(t, "reconnect", "sleep") ELSE End(t)
  /\ IF tasks[t].kind = "boot" THEN BootFails ELSE UNCHANGED manager

Dialed(t) ==
  /\ At(t, "dial") /\ UnusedSockets # {}
  /\ LET s == Fresh(UnusedSockets)
     IN /\ sockets' = [sockets EXCEPT ![s] = "greeting"]
        /\ agents' = [agents EXCEPT ![Of(t)].websocket = s]
        /\ tasks' = [tasks EXCEPT ![t].pc = "greet", ![t].socket = s]
  /\ UNCHANGED <<manager, config, budget>>

DialFailed(t) ==
  /\ At(t, "dial")
  /\ Spend("failure")
  /\ Status(Of(t), "disconnected")
  /\ ConnectRaises(t)
  /\ UNCHANGED <<sockets, config>>

Accepted(t) ==
  /\ At(t, "greet") /\ sockets[tasks[t].socket] = "greeting"
  /\ sockets' = [sockets EXCEPT ![tasks[t].socket] = "open"]
  /\ Status(Of(t), "connected")
  /\ ConnectReturns(t)
  /\ UNCHANGED <<config, budget>>

(* The proxy refused the token, said nothing for ten seconds, or the socket *)
(* is gone; the agent keeps it in any case.                                 *)
GreetFailed(t) ==
  /\ At(t, "greet")
  /\ LET s == tasks[t].socket
     IN IF sockets[s] = "closed" THEN UNCHANGED <<budget, sockets>>
        ELSE /\ Spend("failure")
             /\ sockets' \in {sockets, [sockets EXCEPT ![s] = "closed"]}
  /\ Status(Of(t), "disconnected")
  /\ ConnectRaises(t)
  /\ UNCHANGED config

-----------------------------------------------------------------------------
(* The listen loop *)

Reading(s) ==
  \E t \in Task : (At(t, "read") \/ At(t, "greet")) /\ tasks[t].socket = s

(* Whatever socket the agent holds by now is forgotten. *)
ListenEnds(t) ==
  /\ agents' = [agents EXCEPT ![Of(t)].websocket = None,
                              ![Of(t)].status = "disconnected"]
  /\ IF agents[Of(t)].stopped THEN End(t) ELSE Become(t, "reconnect", "sleep")

Starting == {t \in Task : At(t, "start")}

(* The loop reads the socket the agent holds when it starts, which is in    *)
(* the next turn of the event loop.  Without one an assertion ends it; a    *)
(* socket another coroutine receives from raises.                           *)
ListenStarts(t) ==
  /\ At(t, "start")
  /\ LET s == agents[Of(t)].websocket
     IN \/ s = None /\ End(t) /\ UNCHANGED agents
        \/ s # None /\ Reading(s) /\ ListenEnds(t)
        \/ /\ s # None /\ ~Reading(s)
           /\ tasks' = [tasks EXCEPT ![t].pc = "read", ![t].socket = s]
           /\ UNCHANGED agents
  /\ UNCHANGED <<manager, sockets, config, budget>>

SocketClosed(t) ==
  /\ At(t, "read") /\ sockets[tasks[t].socket] = "closed"
  /\ ListenEnds(t)
  /\ UNCHANGED <<manager, sockets, config, budget>>

(* The link fails, or the proxy goes down. *)
Drop(s) ==
  /\ sockets[s] = "open" /\ s \notin UnusedSockets
  /\ Spend("drop")
  /\ sockets' = [sockets EXCEPT ![s] = "closed"]
  /\ UNCHANGED <<manager, agents, tasks, config>>

-----------------------------------------------------------------------------
(* The reconnect task, after its five seconds *)

\* Mutant: the reconnect has a name of its own.
WakeRetrying(t) ==
  /\ At(t, "sleep") /\ Become(t, "reconnect", "request") /\ Status(Of(t), "retrying")
  /\ UNCHANGED <<manager, sockets, config, budget>>

Wake(t) ==
  /\ At(t, "sleep")
  /\ IF agents[Of(t)].stopped \/ agents[Of(t)].websocket # None
     THEN End(t) /\ UNCHANGED agents
     ELSE Become(t, "reconnect", "request") /\ Status(Of(t), "reconnecting")
  /\ UNCHANGED <<manager, sockets, config, budget>>

GoOnDialing(t) ==
  /\ agents' = [agents EXCEPT ![Of(t)].token = TRUE, ![Of(t)].status = "connecting"]
  /\ tasks' = [tasks EXCEPT ![t].pc = "dial"]

\* Mutant: after the login nobody asks whether the agent was stopped.
LoggedInAgainAnyway(t) ==
  /\ At(t, "request") /\ tasks[t].kind = "reconnect"
  /\ GoOnDialing(t)
  /\ UNCHANGED <<manager, sockets, config, budget>>

LoggedInAgain(t) ==
  /\ At(t, "request") /\ tasks[t].kind = "reconnect"
  /\ IF agents[Of(t)].stopped
     THEN End(t) /\ agents' = [agents EXCEPT ![Of(t)].token = TRUE]
     ELSE GoOnDialing(t)
  /\ UNCHANGED <<manager, sockets, config, budget>>

(* One login that fails stops the agent. *)
LoginAgainFailed(t) ==
  /\ At(t, "request") /\ tasks[t].kind = "reconnect"
  /\ Spend("failure")
  /\ agents' = [agents EXCEPT ![Of(t)].status = "login_failed", ![Of(t)].stopped = TRUE]
  /\ End(t)
  /\ UNCHANGED <<manager, sockets, config>>

-----------------------------------------------------------------------------
(* The start of the backend: it serves nobody until this has ended. *)

Booting == \E t \in Task : tasks[t] # None /\ tasks[t].kind = "boot"

BootLoggedIn(t) ==
  /\ At(t, "request") /\ tasks[t].kind = "boot"
  /\ manager' = [manager EXCEPT !.status = "Logged In"]
  /\ GoOnDialing(t)
  /\ UNCHANGED <<sockets, config, budget>>

BootLoginFailed(t) ==
  /\ At(t, "request") /\ tasks[t].kind = "boot"
  /\ Spend("failure")
  /\ BootFails
  /\ End(t)
  /\ UNCHANGED <<agents, sockets, config>>

-----------------------------------------------------------------------------
(* The manager's operations, each begun by a task t of its own.  An         *)
(* operation without an agent, or a connect without a token, raises.        *)

CanBegin(action) ==
  /\ manager.agent # None
  /\ action = "connect" => agents[manager.agent].token

Begin(action, t) ==
  /\ CanBegin(action)
  /\ tasks' = [tasks EXCEPT ![t] = NewTask(action, manager.agent,
                                 IF action = "connect" THEN "dial" ELSE "request")]
  /\ IF action = "connect" THEN Status(manager.agent, "connecting") ELSE UNCHANGED agents
  /\ UNCHANGED <<manager, sockets, config, budget>>

(* register or login was answered: the agent it was called on has the       *)
(* token, the manager the status.                                           *)
Authorized(t) ==
  /\ At(t, "request") /\ tasks[t].kind \in {"register", "login"}
  /\ agents' = [agents EXCEPT ![Of(t)].token = TRUE]
  /\ manager' = [manager EXCEPT !.status =
                   IF tasks[t].kind = "register" THEN "Registered" ELSE "Logged In"]
  /\ End(t)
  /\ UNCHANGED <<sockets, config, budget>>

AuthorizeFailed(t) ==
  /\ At(t, "request") /\ tasks[t].kind \in {"register", "login"}
  /\ Spend("failure")
  /\ End(t)
  /\ UNCHANGED <<manager, agents, sockets, config>>

(* The end of update_config, after old has been stopped. *)
Replace(old, full) ==
  IF full
  THEN /\ UnusedAgents # {}
       /\ manager' = [agent |-> Fresh(UnusedAgents), status |-> "Configured"]
       /\ agents' = [old EXCEPT ![Fresh(UnusedAgents)] = NewAgent]
  ELSE manager' = [agent |-> None, status |-> "Config Missing"] /\ agents' = old

(* update_config of an agent that has no socket to close. *)
HasSocket == manager.agent # None /\ agents[manager.agent].websocket # None

Stopped == IF manager.agent = None THEN agents
           ELSE [agents EXCEPT ![manager.agent].stopped = TRUE]

ConfigureAtOnce(full) ==
  /\ ~HasSocket
  /\ config' = [config EXCEPT !.full = full]
  /\ Replace(Stopped, full)
  /\ UNCHANGED <<sockets, tasks, budget>>

BeginConfigure(full, t) ==
  /\ HasSocket
  /\ config' = [config EXCEPT !.full = full]
  /\ agents' = Stopped
  /\ tasks' = [tasks EXCEPT ![t] =
                 [NewTask(IF full THEN "configure" ELSE "clear", manager.agent, "closing") EXCEPT
                    !.socket = agents[manager.agent].websocket]]
  /\ UNCHANGED <<manager, sockets, budget>>

(* The closing handshake ends, or is given up. *)
Close(t) ==
  /\ At(t, "closing") /\ sockets[tasks[t].socket] # "closed"
  /\ sockets' = [sockets EXCEPT ![tasks[t].socket] = "closed"]
  /\ UNCHANGED <<manager, agents, tasks, config, budget>>

Configured(t) ==
  /\ At(t, "closing") /\ sockets[tasks[t].socket] = "closed"
  /\ Replace(agents, tasks[t].kind = "configure")
  /\ End(t)
  /\ UNCHANGED <<sockets, config, budget>>

renew_passcode ==
  /\ config' = [config EXCEPT !.code = @ + 1]
  /\ UNCHANGED <<manager, agents, sockets, tasks, budget>>

-----------------------------------------------------------------------------
LifecycleInit ==
  /\ agents = [a \in Agent |-> NewAgent]
  /\ sockets = [s \in Socket |-> "closed"]
  /\ \E start \in Starts :
       /\ config = [full |-> start.full, code |-> 0] /\ budget = start.bounds
       /\ IF start.full
          THEN /\ manager = [agent |-> 1, status |-> "Configured"]
               /\ tasks = [t \in Task |->
                             IF t = 1 THEN NewTask("boot", 1, "request") ELSE None]
          ELSE /\ manager = [agent |-> None, status |-> "Login/Connection Failed"]
               /\ tasks = [t \in Task |-> None]

(* Steps that begin and end no operation of a client. *)
OwnStep(t) ==
  \/ Dialed(t) \/ ListenStarts(t) \/ SocketClosed(t) \/ Wake(t)
  \/ LoggedInAgain(t) \/ LoginAgainFailed(t) \/ BootLoggedIn(t) \/ BootLoginFailed(t)
  \/ Close(t)

(* Steps that end the operation of the task, if it is one. *)
EndsOperation(t) ==
  \/ Accepted(t) \/ Authorized(t) \/ Configured(t)
  \/ DialFailed(t) \/ GreetFailed(t) \/ AuthorizeFailed(t)
=============================================================================
