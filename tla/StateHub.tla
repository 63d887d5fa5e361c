-------------------------------- MODULE StateHub --------------------------------
(***************************************************************************)
(* The state stream: the hub that pushes snapshots to its subscribers      *)
(* (state_hub.py), and the client that shows them and sends commands       *)
(* (state_client.py).  A client has one connection at a time; its frames   *)
(* arrive in order, and one that was sent is taken to have arrived: a      *)
(* client that falls behind is one whose queue is not emptied.             *)
(*                                                                         *)
(* The snapshot is a value given by the module that uses this one.  The    *)
(* snapshot functions of both services do not await, so publish is one     *)
(* step.  A connection whose client has left is known only by the command  *)
(* it still runs: the next snapshot pushed to it fails and cancels that.   *)
(***************************************************************************)
EXTENDS Naturals, Sequences, SequencesExt

CONSTANTS
  Client,
  Task,         \* the coroutines commands run in
  QueueSize,    \* 8 in the code
  None

VARIABLES
  last,         \* the snapshot broadcast last
  streams,      \* the connection of each client and both its ends
  owner         \* whose command a task runs

Left == "left"      \* the client is gone, the command goes on
Told == "told"      \* and a snapshot could not be pushed to it

Closed ==
  [open |-> FALSE, heard |-> FALSE, queue |-> <<>>, view |-> None,
   up |-> <<>>, running |-> None, pending |-> {}]

(* heard: a snapshot was broadcast since the connection subscribed; view:  *)
(* what the client shows; up: commands under way to the server; pending:   *)
(* those the client waits for.                                             *)
StreamTypeOK(Snapshots) ==
  \A c \in Client :
    LET s == streams[c]
    IN /\ {s.open, s.heard} \subseteq BOOLEAN
       /\ Len(s.queue) <= QueueSize
       /\ ToSet(s.queue) \subseteq Snapshots
       /\ s.open => s.view \in Snapshots
       /\ ~s.open => s = Closed

HubTypeOK(Snapshots) ==
  /\ last \in Snapshots \cup {None}
  /\ DOMAIN streams = Client /\ StreamTypeOK(Snapshots)
  /\ \A t \in Task : owner[t] \in Client \cup {None, Left, Told}

HubInit ==
  /\ last = None
  /\ streams = [c \in Client |-> Closed]
  /\ owner = [t \in Task |-> None]

-----------------------------------------------------------------------------
\* Mutant: a full queue keeps what it has.
offerDropped(queue, snapshot) ==
  IF Len(queue) < QueueSize THEN Append(queue, snapshot) ELSE queue

offer(queue, snapshot) ==
  Append(IF Len(queue) < QueueSize THEN queue ELSE Tail(queue), snapshot)

Offered(s, snapshot) ==
  IF s.open THEN [s EXCEPT !.queue = offer(@, snapshot), !.heard = TRUE] ELSE s

(* publish, where the streams and owners are those given. *)
publish(snapshot, to, runs) ==
  /\ last' = snapshot
  /\ streams' = [c \in Client |-> IF snapshot = last THEN to[c] ELSE Offered(to[c], snapshot)]
  /\ owner' = [t \in Task |-> IF snapshot # last /\ runs[t] = Left THEN Told ELSE runs[t]]

Subscribed == (\E c \in Client : streams[c].open) \/ \E t \in Task : owner[t] = Left

run_watcher(snapshot) == Subscribed /\ publish(snapshot, streams, owner)

(* A client connects: it is subscribed and sent a first snapshot. *)
Subscribe(c, snapshot) ==
  /\ ~streams[c].open
  /\ streams' = [streams EXCEPT ![c] =
       [Closed EXCEPT !.open = TRUE, !.view = snapshot]]
  /\ UNCHANGED <<last, owner>>

(* What was sent already is not sent again, which the client cannot tell. *)
push_snapshots(c) ==
  /\ streams[c].queue # <<>>
  /\ streams' = [streams EXCEPT ![c].queue = Tail(@), ![c].view = Head(streams[c].queue)]
  /\ UNCHANGED <<last, owner>>

-----------------------------------------------------------------------------
(* The client's commands *)

request(c, action, id) ==
  /\ streams[c].open
  /\ streams' = [streams EXCEPT ![c].pending = @ \cup {id},
                                ![c].up = Append(@, [id |-> id, action |-> action])]
  /\ UNCHANGED <<last, owner>>

(* request gives up after twenty seconds. *)
RequestTimesOut(c, id) ==
  /\ id \in streams[c].pending
  /\ streams' = [streams EXCEPT ![c].pending = @ \ {id}]
  /\ UNCHANGED <<last, owner>>

(* The connection is lost: what is pending fails, commands not yet taken   *)
(* are lost; the one that runs goes on.                                    *)
Leave(c) ==
  /\ streams[c].open
  /\ streams' = [streams EXCEPT ![c] = Closed]
  /\ owner' = [t \in Task |-> IF owner[t] # c THEN owner[t]
                           ELSE IF streams[c].queue = <<>> THEN Left ELSE Told]
  /\ UNCHANGED last

-----------------------------------------------------------------------------
(* The server's run_commands: one command of a connection at a time. *)

NextCommand(c) == Head(streams[c].up)
CanTake(c) == streams[c].up # <<>> /\ streams[c].running = None
Taken(c) == [streams EXCEPT ![c].up = Tail(@)]

(* The result of a command the client waits for no longer is ignored. *)
Answered(to, c, id) == [to EXCEPT ![c].pending = @ \ {id}]

(* A command that does not await. *)
RunAtOnce(c, snapshot) ==
  publish(snapshot, Answered(Taken(c), c, NextCommand(c).id), owner)

RunIn(c, t) ==
  /\ streams' = [Taken(c) EXCEPT ![c].running = NextCommand(c).id]
  /\ owner' = [owner EXCEPT ![t] = c]
  /\ UNCHANGED last

(* The command of task t has ended: its result is sent and the state is    *)
(* published; with a client that is gone the connection ends instead.      *)
Reply(t, snapshot) ==
  IF owner[t] \in Client
  THEN LET c == owner[t]
       IN publish(snapshot,
                  [Answered(streams, c, streams[c].running) EXCEPT ![c].running = None],
                  [owner EXCEPT ![t] = None])
  ELSE owner' = [owner EXCEPT ![t] = None] /\ UNCHANGED <<last, streams>>
=============================================================================
