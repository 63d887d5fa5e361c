------------------------------- MODULE Management -------------------------------
(***************************************************************************)
(* The management of the Pi (routers/management.py, status_hub.py): clients *)
(* of the state stream configure the proxy manager, log its agent in and   *)
(* connect it, while agents reconnect on their own; everyone is shown the  *)
(* status that is composed of the manager's and the agent's.               *)
(***************************************************************************)
EXTENDS AgentLifecycle

CONSTANTS Client, QueueSize

ASSUME ManagementAssumption ==
  QueueSize \in Nat \ {0} /\ {None, "left", "told"} \cap Client = {}

VARIABLES last, streams, owner

INSTANCE StateHub

streamVars == <<last, streams, owner>>
vars == <<lifecycleVars, streamVars>>

-----------------------------------------------------------------------------
(* management_snapshot.  The statuses the manager would keep from the agent *)
(* are never recorded while it has one.                                     *)
AgentOwned == {"reconnecting", "connecting", "disconnected", "login_failed"}

management_snapshot ==
  LET a == manager.agent
  IN [status |-> IF a # None /\ agents[a].status \in AgentOwned
                 THEN agents[a].status ELSE manager.status,
      server_id |-> a # None /\ agents[a].token,
      config |-> config]

Snapshots ==
  [status : ManagerStatus \cup AgentOwned, server_id : BOOLEAN,
   config : [full : BOOLEAN, code : Nat]]

TypeOK == LifecycleTypeOK /\ HubTypeOK(Snapshots)

Init == LifecycleInit /\ HubInit

-----------------------------------------------------------------------------
Asks(c, action) ==
  /\ Spend(action)
  /\ request(c, action, <<action, budget[action]>>)
  /\ UNCHANGED <<manager, agents, sockets, tasks, config>>

(* handle_command *)
RunsCommand(c) ==
  /\ CanTake(c)
  /\ LET action == NextCommand(c).action
     IN \/ /\ action = "renew_passcode"
           /\ renew_passcode
           /\ RunAtOnce(c, management_snapshot')
        \/ /\ action \in {"register", "login", "connect"} /\ ~CanBegin(action)
           /\ UNCHANGED lifecycleVars
           /\ RunAtOnce(c, management_snapshot)
        \/ /\ action \in {"register", "login", "connect"} /\ UnusedTasks # {}
           /\ Begin(action, Fresh(UnusedTasks))
           /\ RunIn(c, Fresh(UnusedTasks))
        \/ /\ action \in {"configure", "clear"}
           /\ ConfigureAtOnce(action = "configure")
           /\ RunAtOnce(c, management_snapshot')
        \/ /\ action \in {"configure", "clear"} /\ UnusedTasks # {}
           /\ BeginConfigure(action = "configure", Fresh(UnusedTasks))
           /\ RunIn(c, Fresh(UnusedTasks))

(* The operation stops at its await and nothing is tidied up; the closing   *)
(* of a socket that was begun goes on.                                      *)
Cancelled(t) ==
  /\ owner[t] = Told
  /\ owner' = [owner EXCEPT ![t] = None]
  /\ End(t)
  /\ sockets' = IF At(t, "closing") THEN [sockets EXCEPT ![tasks[t].socket] = "closed"]
                ELSE sockets
  /\ UNCHANGED <<manager, agents, config, budget, last, streams>>

TaskGoesOn(t) ==
  /\ Starting \subseteq {t}
  /\ \/ OwnStep(t) /\ UNCHANGED streamVars
     \/ EndsOperation(t) /\ Reply(t, management_snapshot')

ClientStep(c) ==
  \/ \E action \in Action : Asks(c, action)
  \/ RunsCommand(c)
  \/ push_snapshots(c) /\ UNCHANGED lifecycleVars
  \/ /\ \/ Spend("subscribe") /\ ~Booting /\ Subscribe(c, management_snapshot)
        \/ Spend("timeout") /\ \E id \in streams[c].pending : RequestTimesOut(c, id)
        \/ Spend("leave") /\ Leave(c)
     /\ UNCHANGED <<manager, agents, sockets, tasks, config>>

Watches == ~Booting /\ run_watcher(management_snapshot) /\ UNCHANGED lifecycleVars

Next ==
  \/ \E t \in Task : TaskGoesOn(t)
  \/ /\ Starting = {}
     /\ \/ \E t \in Task : Cancelled(t)
        \/ \E c \in Client : ClientStep(c)
        \/ \E s \in Socket : Drop(s) /\ UNCHANGED streamVars
        \/ Watches

(* The event loop runs every coroutine that is ready, and what a coroutine *)
(* awaits is answered, fails or times out.  Failures and drops are bounded *)
(* by their budgets, so that the proxy does not refuse for ever.           *)
Fairness == \A t \in Task : WF_vars(TaskGoesOn(t))

Spec == Init /\ [][Next]_vars /\ Fairness

-----------------------------------------------------------------------------
(* When everything queued for a client has been pushed, it shows the last  *)
(* snapshot broadcast since it subscribed, however many were dropped from  *)
(* its queue or published by the commands of others.                       *)
NewestArrives ==
  \A c \in Client : streams[c].heard =>
    last = Last(<<streams[c].view>> \o streams[c].queue)

(* An agent that was stopped and replaced dials the proxy no more, at      *)
(* whichever await of its reconnect the stop came.                         *)
Dials(a) == {t \in Task : At(t, "dial") /\ Of(t) = a}
QuietOnceReplaced ==
  [][\A a \in Agent : agents[a].stopped /\ a # manager.agent => Dials(a)' \subseteq Dials(a)]_vars

(* An agent that has lost its socket, or is about to dial again, gets a    *)
(* listening connection, unless a login failed or it was stopped, or it is *)
(* left with a socket that nobody listens on or that was never accepted,   *)
(* or two connects of it overlap, which may displace each other for ever.  *)
Listens(t, a) == tasks[t] # None /\ Of(t) = a /\ At(t, "read")
Up(a) == \E t \in Task : Listens(t, a) /\ sockets[tasks[t].socket] = "open"
Lost(a) ==
  /\ ~agents[a].stopped
  /\ \E t \in Task :
       \/ tasks[t] # None /\ tasks[t].kind = "reconnect" /\ Of(t) = a
       \/ Listens(t, a) /\ sockets[tasks[t].socket] = "closed"
Stranded(a) ==
  LET s == agents[a].websocket
  IN s # None /\ ~\E t \in Task : /\ tasks[t] # None /\ tasks[t].socket = s
                                  /\ At(t, "greet") \/ (At(t, "read") /\ sockets[s] # "greeting")

Overlap(a) ==
  Cardinality({t \in Task : (At(t, "dial") \/ At(t, "greet")) /\ Of(t) = a}) > 1

AgentReturns ==
  \A a \in Agent :
    Lost(a) ~> (Up(a) \/ agents[a].stopped \/ Stranded(a) \/ Overlap(a))
=============================================================================
